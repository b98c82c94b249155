\* The program ends.
CHECK_DEADLOCK FALSE
SPECIFICATION ProgramFairSpec
CONSTANTS
    JobsMax = 2
    WireMax = 3
INVARIANTS
    ProgramTypeOK
    OneConversation
    FlagFollows
    BodyDecides
PROPERTIES
    Rearmed
    StopsCompletely
