CONSTANTS
    Half = 64
    Ticks = 2
    Hour = 1
    DayHours = 2
    Skew = 3
    EndEntityDays = 2
    MaxEndEntityDays = 4
    IntermediateDays = 8
    CRLHours = 7
    Files <- AllFiles
    Envs <- AllEnvs
    Malformed = Malformed
    Nows = {1, 4}
    Requested <- AllIntegers
SPECIFICATION Spec
INVARIANTS
    NoLongerThanAllowed
    AllowedIsGranted
