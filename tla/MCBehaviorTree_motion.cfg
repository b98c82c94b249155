SPECIFICATION MCSpec
CONSTANTS
    StandRetry = 2
    WalkMax = 2
    Heartbeat = 2
    ConvMax = 1
    PostureMax = 1
    FlashMin = 2
    OutboxMax = 2
    AllowNoImu = FALSE
    Messages <- MotionMessages
    ControllerLines <- MotionLines
INVARIANTS
    WalkNeedsStand
PROPERTIES
    WalkAuthorised
    WalkStops
    NoMotionWhileBlocked
