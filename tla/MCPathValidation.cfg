CONSTANTS
    leafCert = leafCert
    caA = caA
    caB = caB
    rootCert = rootCert
    NULL = NULL
    Certs = {leafCert, caA, caB, rootCert}
    Inputs <- SomeInputs
    MaxChainDepth = 3
SPECIFICATION Spec
INVARIANTS
    ReturnsTheValidChains
    ErrorTellsWhy
PROPERTIES
    Terminates
CHECK_DEADLOCK FALSE
