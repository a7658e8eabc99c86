CONSTANTS
    Error = Error
    NULL = NULL
    Century = 1000
    Forever = 10000
    Skew = 4
    RootLife = 400
    IntermediateLife = 200
    EndEntityLife = 20
    CRLLife = 10
    CASubjects <- AllCASubjects
    CAAlgorithms <- AllCAAlgorithms
    Subjects <- FewSubjects
    SANs <- TwoSANs
    Pairs <- OnePair
    Algorithms <- OneBodyAlgorithm
    ExtKeyUsages <- OneUsage
    ForeignCSRs <- NoForeignCSR
    Addresses <- NoAddress
    Entries <- AllEntries
    Times = {601, 985, 1005}
SPECIFICATION Spec
INVARIANTS
    OwnDocumentsAreRead
    DamageIsNoticed
    ChainLinks
CHECK_DEADLOCK FALSE
