SPECIFICATION FairSpec
CONSTANTS
    Streams = {s1, s2}
    Invokes = {j1, j2}
    Call = call
    Close = close
    Sentinel = sentinel
    Idle = idle
    MaxChunks = 2
    Handlers = {h1, h2}
    Approval = {h2}
    Configs <- MCConfigs
    Used <- MCUsed
    HandleSlots = 1
    TableSize = 1
    MaxStarts = 2
    MediaType = {"image/png", "image/tiff"}
    Supported = {"image/png"}
    Suffix = {"png", "tif"}
    MediaTypeOf <- MCMediaTypeOf
    NoType = "none"
INVARIANTS
    EventsInOrder
    QuietMeansComplete
    FreedEarlyOnlyByCancel
    AnswersAreOwn
    FailuresRaise
    HandlersAlive
    ClosedIsQuiet
PROPERTY CallsReturn
CHECK_DEADLOCK FALSE
