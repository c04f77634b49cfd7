SPECIFICATION FairSpec
CONSTANTS
    Proc = {p1}
    Fiber = {f1, f2}
    Id = {i1}
    Agent = {a1}
    Version = {1}
    MaxIterations <- Iterations
    Chain = 2
    Shared = FALSE
    NewerDecodes = FALSE
    Faults = {"save", "delete", "approval", "exception", "eio_cancel"}
    MaxJobs = 2
    MaxCrashes = 2
    NoRow = NoRow
    NoRun = NoRun
PROPERTIES
    InvokeReturns
CHECK_DEADLOCK FALSE
