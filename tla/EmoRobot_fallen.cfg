SPECIFICATION RobotSpec
CONSTANTS
    StandRetry = 3
    WalkMax = 1
    Heartbeat = 1
    ConvMax = 1
    PostureMax = 1
    FlashMin = 1
    OutboxMax = 1
    AllowNoImu = FALSE
    Messages = {"stand", "rest"}
    ControllerLines = {}
    QueueMax = 2
    DownMax = 1
    UpMax = 1
    Boards = {"usb"}
    Mishaps = {"fall"}
INVARIANTS
    FallenMeansOff
