SPECIFICATION FairSpec
CONSTANTS
    Request = {r1}
    Deleter = {d1, d2}
    Forms <- MixedForms
    MaxParts = 2
    Batch = 2
    RowCap = 5
    Backends = {"s3", "gcs"}
    NoUpload = NoUpload
    MaxFaults = 2
    MaxGone = 1
    MaxCrashes = 1
INVARIANT TypeOK
INVARIANT UploadIsWhole
INVARIANT NoRowsWithoutUpload
INVARIANT DeletedOnceOrReported
INVARIANT CreatedMeansStored
INVARIANT SizedByRows
PROPERTY Answered
CHECK_DEADLOCK FALSE
