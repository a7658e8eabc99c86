CONSTANTS
    CAs = {ca1}
    Serials = {s1}
    Requests = {r1, r2}
    Reasons <- ReasonValues
    CRLValidity = 1
    MaxClock = 1
    NULL = NULL
SPECIFICATION Spec
INVARIANTS
    ServedCRLIsUnexpired
    PublishedStaysTrue
    RevokeReplyIsTrue
PROPERTIES
    FirstRevocationWins
SYMMETRY Symmetry
