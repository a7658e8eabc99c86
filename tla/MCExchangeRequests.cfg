CONSTANTS
    Error = Error
    NULL = NULL
    Century = 1000
    Forever = 10000
    Skew = 4
    RootLife = 400
    IntermediateLife = 200
    EndEntityLife = 20
    CRLLife = 10
    CASubjects <- OneCASubject
    CAAlgorithms <- OneCAAlgorithm
    Subjects <- AllSubjects
    SANs <- AllSANs
    Pairs <- AllPairs
    Algorithms <- AllBodyAlgorithms
    ExtKeyUsages <- AllUsages
    ForeignCSRs <- AllForeignCSRs
    Addresses <- AllAddresses
    Entries <- NoEntries
    Times = {985}
SPECIFICATION Spec
INVARIANTS
    IssuedAsRequested
    OwnRequestsAreIssued
    KeyFitsCertificate
CHECK_DEADLOCK FALSE
