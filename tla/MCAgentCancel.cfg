CONSTANTS
    None = None
    Worker = Worker
    Talker = Talker
    Recent = 2
    Agents <- MCAgents
    WithTools <- MCWithTools
    MaxIterations <- MCMaxIterations
    Stored = {}
    Strategies = {}
    Budgets = {}
    MaxReactive = 1
    Quota = 1
    Parallel = TRUE
    Capacity = 1
    MaxChunks = 2
    MaxBatch = 1
    MaxSteered = 0
    MaxInvocations = 1
SPECIFICATION Spec
INVARIANT CancelledReplayable
CHECK_DEADLOCK FALSE
