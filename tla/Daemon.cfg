CONSTANTS
    Servers = {p1}
    Minters = {p1, p2}
    Requests = {r1}
    Tokens = {t1}
    NoToken = NoToken
    Migrations = 2
    NULL = NULL
SPECIFICATION FairSpec
INVARIANTS
    TypeOK
    SchemaWhole
    MigratedBeforeUse
    PrintedIsAccepted
    CleanExit
PROPERTIES
    StopsAfterSignal
    StartEnds
