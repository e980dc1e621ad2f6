SPECIFICATION FairSpec
CONSTANTS
    owner = owner
    tab1 = tab1
    tab2 = tab2
    other = other
    dev1 = dev1
    dev2 = dev2
    Actors = {tab1, other}
    Devices = {dev1, dev2}
    DeviceOf <- MCDeviceOf
    Recovering = {tab1}
    Ids = {i1, i2}
    Times = {1, 2}
    Expiries = {2}
    MaxRefreshed = 0
    NoMarker = NoMarker
    NoReply = NoReply
    None = None
PROPERTY PendingResolved
