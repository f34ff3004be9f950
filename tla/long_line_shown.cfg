SPECIFICATION Spec
CONSTANTS
    None = None
    SrvAddr <- Server
    TTLIVE = 0
    REG_TICK = 0
    Peers <- TwoPeers
    AddrOf <- TwoAddrs
    TypOf <- TwoRoles
    GroupOf <- TwoSameGroup
    KeepChoices = {TRUE}
    Unheard = {}
    Natted = {}
    DbFaults = FALSE
    Lines = {"CLEAR"}
    Budget <- NoFaults
INVARIANTS
    HeardOnlyLinked
