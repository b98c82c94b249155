SPECIFICATION FairSpec
CONSTANTS
    ImuFailLimit = 2
    FilterTicks = 2
    FallTicks = 2
    WalkTicks = 2
    BobTicks = 2
INVARIANTS
    TypeOK
    EStopHolds
    PoweredInMode
    NoBlindWalk
    WalkIsFed
PROPERTIES
    PowerSpec
    FallIsCaught
