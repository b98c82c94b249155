SPECIFICATION Spec
CONSTANTS
    ImuFailLimit = 3
    FilterTicks = 2
    FallTicks = 2
    WalkTicks = 2
    BobTicks = 2
PROPERTIES
    RefusedWhenLyingDown
