SPECIFICATION ReportsSpec
CONSTANTS
    A = A
    B = B
    own = own
    mem = mem
    User = {own, mem, new}
    Org = {A, B}
    u1 = u1
    u2 = u2
    Upload = {u1, u2}
    Blank = Blank
    Dash = Dash
    Junk = Junk
    None = None
    NoHost = NoHost
    Hour = 2
    Percentile = 50
    Content <- MCContent
    Request = {r1, r2}
    OrgWide = OrgWide
    NoUser = NoUser
    Population <- MCPopulation
    MaxGrants = 2
    MaxRequests = 4
    MaxFaults = 1
SYMMETRY RequestSymmetry
INVARIANT TypeOK
INVARIANT DisclosureJustified
INVARIANT ExistenceHidden
INVARIANT ListingAgrees
INVARIANT GrantAuthority
INVARIANT RecordsKept
INVARIANT FiguresAgree
CHECK_DEADLOCK FALSE
