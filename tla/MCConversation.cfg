CONSTANTS
    None = None
    A = A
    B = B
    Recent = 2
    MaxLen = 5
SPECIFICATION Spec
INVARIANTS
    RepairedIsReplayable
    ValidIsLeftAlone
    RepairKeepsWhatCounts
    CutsAreReplayable
    SummaryKeepsTheRecent
CHECK_DEADLOCK FALSE
