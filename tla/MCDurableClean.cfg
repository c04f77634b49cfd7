SPECIFICATION Spec
CONSTANTS
    Proc = {p1}
    Fiber = {f1, f2}
    Id = {i1}
    Agent = {a1, a2}
    Version = {1, 2}
    MaxIterations <- Iterations
    Chain = 1
    Shared = FALSE
    NewerDecodes = TRUE
    Faults = {}
    MaxJobs = 3
    MaxCrashes = 2
    NoRow = NoRow
    NoRun = NoRun
SYMMETRY Symmetry
INVARIANTS
    ClaimsMatchRuns
    ExclusiveRun
    CheckpointCurrent
    RowMeansInFlight
    FinishedStaysFinished
    CompletedBatchesDoNotRerun
PROPERTIES
    NewerRowPreserved
    ImplementsDurableJob
CHECK_DEADLOCK FALSE
