CONSTANTS
    p1 = p1
    p2 = p2
    csr1 = csr1
    Requests = {r1, r2}
    CAIds = {ca1, ca2}
    KeyIds = {k1, k2, k3}
    Serials = {s1, s2}
    Passphrases = {p1, p2}
    CSRKeys = {csr1}
    CreateRequests <- SomeCreateRequests
    IssueRequests <- SomeIssueRequests
    RootDays = 3
    IntermediateDays = 2
    EndEntityDays = 1
    MaxDays = 2
    LateCancel = FALSE
    MaxKeys = 4
    MaxClock = 0
    NULL = NULL
SPECIFICATION Spec
INVARIANTS
    TypeOK
    EveryRowHasItsKey
    NoStrayKeys
    OneRowPerKey
    ChainHolds
    KeyHasOneHome
SYMMETRY Symmetry
