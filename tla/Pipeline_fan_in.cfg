SPECIFICATION Spec
CONSTANTS
    w1 = w1
    w2 = w2
    u1 = u1
    a1 = a1
    a2 = a2
    Worker = {w1, w2}
    Upload = {u1}
    Analysis = {a1}
    UploadOf <- OneUpload
    EntryCount <- FiveRows
    ShardSize = 2
    WholeFile = 10
    Nil = Nil
    NoJob = NoJob
    MaxCrashes = 1
    MaxFaults = 2
    MaxReaps = 1
    MaxExpiries = 1
    FaultPoints <- Everywhere
    Losses = {"launch", "reserved", "requeue"}
    Prompt = FALSE
SYMMETRY WorkerSymmetry
INVARIANT TypeOK
INVARIANT UnreapedDoneIsExact
INVARIANT OneFanIn
INVARIANT ReduceFindsEveryPartial
PROPERTY TerminalIsFinal
CHECK_DEADLOCK FALSE
INVARIANT FanOutInv
PROPERTY ImplementsLifecycle
