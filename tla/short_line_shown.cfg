SPECIFICATION Spec
CONSTANTS
    None = None
    SrvAddr <- Server
    TTLIVE = 0
    REG_TICK = 0
    Peers <- ThreePeers
    AddrOf <- OnePort
    TypOf <- ThreeRoles
    GroupOf <- ThreeSameGroup
    KeepChoices = {TRUE}
    Unheard = {}
    Natted = {}
    DbFaults = FALSE
    Lines = {"LINE"}
    Budget <- NoFaults
INVARIANTS
    HeardOnlyLinked
