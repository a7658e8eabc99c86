CONSTANTS
    CAs = {ca1, ca2}
    Serials = {s1, s2}
    Requests = {r1, r2}
    Reasons <- ReasonValues
    CRLValidity = 1
    MaxClock = 0
    NULL = NULL
SPECIFICATION Spec
INVARIANTS
    TypeOK
    ServedCRLIsComplete
    NumberIdentifiesContent
    OneRevokerWins
    NoConnectionLeak
SYMMETRY Symmetry
