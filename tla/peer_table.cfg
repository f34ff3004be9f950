SPECIFICATION Spec
CONSTANTS
    None = None
    Peers <- Roles
    AddrOf <- OneAddr
    TypOf <- BothRoles
    GroupOf <- OneGroup
    SrvAddr <- Server
    KeepChoices = {FALSE}
    Unheard = {}
    Natted = {}
    TTLIVE = 0
    DAY = 3
    GRACE = 1
INVARIANTS
    TableTypeOK
PROPERTIES
    FreshKept
    SweptWithinADay
    ImplementsServer
    SuppressionEnds
    SweepsRecur
