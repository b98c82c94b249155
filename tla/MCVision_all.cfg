\* The vision task ends when its camera thread crashes.
CHECK_DEADLOCK FALSE
SPECIFICATION MCSpec
CONSTANTS
    Confirm = 4
    Clear = 3
    Remind = 4
    AbsentReset = 4
    Grace = 2
    PosePeriod = 1
    FailLimit = 2
    BackoffMax = 4
    MailMax = 2
    Window = 3
    MinSamples = 2
    Views <- MCViews
INVARIANTS
    VisionTypeOK
    SlouchNoticed
    StateReported
    BaselineIsPercentile
PROPERTIES
    AlertEarned
    ClearEarned
    OutageIsReal
    CameraReturns
