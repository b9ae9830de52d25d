SPECIFICATION Spec
CONSTANTS
    Client = {c1, c2}
    IpLimit = 2
    AcctLimit = 1
    Skew = 1
    CodesPerSet = 1
    Initial = {"on"}
    MaxTime = 2
    MaxSecrets = 2
    MaxSets = 2
    MaxRequests = 4
    MaxFaults = 0
CHECK_DEADLOCK FALSE
PROPERTY OnUntilProof
