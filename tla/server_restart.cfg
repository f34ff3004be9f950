SPECIFICATION FairSpec
CONSTANTS
    None = None
    SrvAddr <- Server
    TTLIVE = 0
    REG_TICK = 0
    Peers <- TwoPeers
    AddrOf <- TwoAddrs
    TypOf <- TwoRoles
    GroupOf <- TwoSameGroup
    KeepChoices = {FALSE}
    Unheard = {"SRV_PING", "SRV_REGISTERRED"}
    Natted = {}
    DbFaults = FALSE
    Lines = {}
    Budget <- StopAndCrash
PROPERTIES
    EventuallyLinked
