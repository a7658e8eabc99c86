CONSTANTS
    p1 = p1
    p2 = p2
    csr1 = csr1
    Requests = {r1}
    CAIds = {ca1, ca2, ca3}
    KeyIds = {k1, k2, k3}
    Serials = {s1}
    Passphrases = {p1, p2}
    CSRKeys = {csr1}
    CreateRequests <- CheckedCreateRequests
    IssueRequests <- CheckedIssueRequests
    RootDays = 2
    IntermediateDays = 2
    EndEntityDays = 1
    MaxDays = 2
    LateCancel = TRUE
    MaxKeys = 3
    MaxClock = 1
    NULL = NULL
SPECIFICATION Spec
INVARIANTS
    WithinIssuer
    CreatedHasItsKey
SYMMETRY Symmetry
