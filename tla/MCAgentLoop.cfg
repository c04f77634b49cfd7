CONSTANTS
    None = None
    Worker = Worker
    Talker = Talker
    Recent = 2
    Agents <- MCAgents
    WithTools <- MCWithTools
    MaxIterations <- MCMaxIterations
    Stored <- MCStored
    Strategies = {"sliding", "summarize"}
    MaxReactive = 1
    Budgets = {5}
    Quota = 1
    Parallel = TRUE
    Capacity = 2
    MaxChunks = 3
    MaxBatch = 2
    MaxSteered = 3
    MaxInvocations = 1
SPECIFICATION Spec
INVARIANTS
    NeverRefused
    ReplayableAfter
    CheckpointReplayable
    SteeringInOrder
    RequestsBounded
    QuotaKept
PROPERTIES
    RunReturns
CHECK_DEADLOCK FALSE
