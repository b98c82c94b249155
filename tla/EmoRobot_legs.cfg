SPECIFICATION RobotFairSpec
CONSTANTS
    StandRetry = 1
    WalkMax = 1
    Heartbeat = 1
    ConvMax = 1
    PostureMax = 1
    FlashMin = 1
    OutboxMax = 1
    AllowNoImu = FALSE
    Messages = {"stand", "rest"}
    ControllerLines = {}
    Boards = {"usb"}
    QueueMax = 2
    DownMax = 1
    UpMax = 1
    Mishaps = {"fall", "imu"}
INVARIANTS
    BeliefCorrected
    FaultRelaxes
PROPERTIES
    StandsUp
