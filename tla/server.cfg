SPECIFICATION FairSpec
CONSTANTS
    None = None
    Peers <- Clients
    AddrOf <- ClientAddrs
    TypOf <- ClientRoles
    GroupOf <- ClientGroups
    SrvAddr <- Server
    KeepChoices = {FALSE}
    Unheard = {}
    Natted = {}
    TTLIVE = 1
    DbFaults = FALSE
    InTurn = TRUE
INVARIANTS
    SrvTypeOK
    SelectClean
PROPERTIES
    AckedIsStored
    LastPing
    StaleSwept
