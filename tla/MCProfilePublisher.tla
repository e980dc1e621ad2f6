------------------------- MODULE MCProfilePublisher -------------------------
EXTENDS ProfilePublisher
=============================================================================
