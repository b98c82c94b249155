SPECIFICATION RobotFairSpec
CONSTANTS
    StandRetry = 1
    WalkMax = 1
    Heartbeat = 1
    ConvMax = 1
    PostureMax = 1
    FlashMin = 1
    OutboxMax = 1
    AllowNoImu = FALSE
    Messages = {"error", "clear", "stand", "rest"}
    ControllerLines = {}
    Boards = {"usb", "uart"}
    QueueMax = 2
    DownMax = 1
    UpMax = 1
    Mishaps = {"reset", "port"}
INVARIANTS
    EStopSecured
    RestRelaxes
    ClearReleases
PROPERTIES
    EStopTakesEffect
