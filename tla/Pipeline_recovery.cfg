SPECIFICATION FairSpec
CONSTANTS
    w1 = w1
    w2 = w2
    u1 = u1
    a1 = a1
    a2 = a2
    Worker = {w1, w2}
    Upload = {u1}
    Analysis = {a1, a2}
    UploadOf <- OneUpload
    EntryCount <- ThreeRows
    ShardSize = 2
    WholeFile = 10
    Nil = Nil
    NoJob = NoJob
    MaxCrashes = 1
    MaxFaults = 1
    MaxReaps = 4
    MaxExpiries = 0
    FaultPoints <- MappingAndMerging
    Losses = {}
    Prompt = TRUE
INVARIANT DoneIsExact
INVARIANT FindingsReplaced
INVARIANT QueuedHasJob
PROPERTY DoneIsStable
PROPERTY Settles
CHECK_DEADLOCK FALSE
