SPECIFICATION Spec
CONSTANTS
    Proc = {p1}
    Fiber = {f1, f2}
    Id = {i1}
    Agent = {a1, a2}
    Version = {1, 2}
    MaxIterations <- Iterations
    Chain = 2
    Shared = FALSE
    NewerDecodes = TRUE
    Faults = {}
    MaxJobs = 3
    MaxCrashes = 2
    NoRow = NoRow
    NoRun = NoRun
SYMMETRY Symmetry
INVARIANTS
    CompletedBatchesDoNotRerun
CHECK_DEADLOCK FALSE
