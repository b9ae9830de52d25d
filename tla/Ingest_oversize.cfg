SPECIFICATION FairSpec
CONSTANTS
    Request = {r1}
    Deleter = {d1}
    Forms <- LargeForms
    MaxParts = 1
    Batch = 2
    RowCap = 5
    Backends = {"s3", "gcs"}
    NoUpload = NoUpload
    MaxFaults = 0
    MaxGone = 0
    MaxCrashes = 0
PROPERTY RefusedWhenTooLarge
CHECK_DEADLOCK FALSE
