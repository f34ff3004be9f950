SPECIFICATION FairSpec
CONSTANTS
    None = None
    SrvAddr <- Server
    TTLIVE = 0
    REG_TICK = 0
    Peers <- TwoPeers
    AddrOf <- TwoOnePort
    TypOf <- TwoRoles
    GroupOf <- TwoGroups
    KeepChoices = {FALSE}
    Unheard = {"SRV_PING", "SRV_REGISTERRED"}
    Natted <- BothNatted
    DbFaults = FALSE
    Lines = {}
    Budget <- OneLoss
PROPERTIES
    EventuallyLinked
