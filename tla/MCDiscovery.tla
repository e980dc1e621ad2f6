----------------------------- MODULE MCDiscovery -----------------------------
(* A member with two devices and a reader.  The requests are those of an   *)
(* owner who publishes twice, repairs, disconnects and starts again.       *)
EXTENDS Discovery, TLC

CONSTANTS a, b, d1, d2, reader

Publication(sequence, discriminators, issued, expires) ==
    [sequence |-> sequence, discriminators |-> discriminators,
     issued |-> issued, expires |-> expires]

p1 == Publication(1, 1, 1, 7)
p2 == Publication(2, 1, 1, 6)
p3 == Publication(1, 2, 6, 9)
MCPublications == {p1, p2, p3}

Write(op, id, session, device, issued, sequence, lease, publication) ==
    [op |-> op, id |-> id, session |-> session, member |-> a, device |-> device,
     issued |-> issued, expires |-> issued + 2, sequence |-> sequence,
     lease |-> lease, publication |-> publication]
Read(op, id, member, device, issued) ==
    [op |-> op, id |-> id, session |-> 0, member |-> member, device |-> device,
     issued |-> issued, expires |-> issued + 2, sequence |-> 0,
     lease |-> 0, publication |-> None]

MCRequests ==
    {Write("publish",    1, 1, d1, 1, 1, 5, p1),
     Write("publish",    2, 2, d2, 2, 1, 5, p2),
     Write("publish",    3, 1, d1, 5, 4, 8, p1),    \* the first one again
     Write("heartbeat",  4, 1, d1, 2, 2, 5, None),
     Write("disconnect", 5, 1, d1, 2, 3, 0, None),
     Write("publish",    6, 1, d1, 6, 1, 8, p3),    \* when all has expired
     Read("query",       7, b, reader, 4),
     Read("fetch",       8, b, reader, 6)}

MCLimits ==
    [request |-> 2, lease |-> 4, members |-> 2, devices |-> 2, replay |-> 3,
     quota |-> [publish |-> 2, discriminate |-> 1, read |-> 1],
     window |-> [publish |-> 3, discriminate |-> 3, read |-> 4]]
=============================================================================
