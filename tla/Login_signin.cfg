SPECIFICATION Spec
CONSTANTS
    Client = {c1, c2}
    IpLimit = 2
    AcctLimit = 1
    Skew = 1
    CodesPerSet = 1
    Initial = {"on", "off"}
    MaxTime = 2
    MaxSecrets = 2
    MaxSets = 2
    MaxRequests = 5
    MaxFaults = 1
SYMMETRY ClientSymmetry
INVARIANT TypeOK
INVARIANT FailureBudgets
INVARIANT CodesOnce
INVARIANT EnabledHasSecret
CHECK_DEADLOCK FALSE
PROPERTY SessionRestsOnFactor
