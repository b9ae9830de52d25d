SPECIFICATION Spec
CONSTANTS
    w1 = w1
    w2 = w2
    u1 = u1
    a1 = a1
    a2 = a2
    Worker = {w1, w2}
    Upload = {u1}
    Analysis = {a1}
    UploadOf <- OneUpload
    EntryCount <- ThreeRows
    ShardSize = 2
    WholeFile = 10
    Nil = Nil
    NoJob = NoJob
    MaxCrashes = 0
    MaxFaults = 0
    MaxReaps = 1
    MaxExpiries = 0
    FaultPoints <- Everywhere
    Losses = {}
    Prompt = FALSE
INVARIANT FindingsReplaced
CHECK_DEADLOCK FALSE
