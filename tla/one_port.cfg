SPECIFICATION FairSpec
CONSTANTS
    None = None
    SrvAddr <- Server
    TTLIVE = 0
    REG_TICK = 0
    Peers <- ThreePeers
    AddrOf <- OnePort
    TypOf <- ThreeRoles
    GroupOf <- ThreeSameGroup
    KeepChoices = {TRUE}
    Unheard = {"SRV_PING", "SRV_REGISTERRED"}
    Natted = {}
    DbFaults = FALSE
    Lines = {}
    Budget <- NoFaults
PROPERTIES
    EventuallyLinked
