CONSTANTS
    Publisher <- MCPublisher
    Host <- MCHost
    BusCapacity = 2
    WriterCapacity = 2
    DeadLetterMax = 1
    InsertFails = TRUE
    MaxBurst = 3
    MaxEvents = 5
SPECIFICATION Spec
INVARIANTS
    SavedOnceInOrder
    EverywhereOnce
    CleanClose
PROPERTIES
    EventuallySettled
CHECK_DEADLOCK FALSE
