SPECIFICATION FairSpec
CONSTANTS
    Letters = {"E", "S"}
    QueueMax = 2
    WireMax = 2
INVARIANTS
    TypeOK
    BacklogIsFresh
    ParkedAtExit
PROPERTIES
    ResetNoticed
    ChannelSpec
