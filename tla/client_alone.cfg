SPECIFICATION Spec
CONSTANTS
    None = None
    Peers <- Clients
    AddrOf <- ClientAddrs
    TypOf <- ClientRoles
    GroupOf <- ClientGroups
    SrvAddr <- Server
    KeepChoices = {FALSE}
    Unheard = {}
    Natted = {}
    REG_TICK = 1
    IAM_HERE_TO = 0
    SERVER_DOWN_TO = 1
    Lines = {"LINE", "CLEAR"}
    Client = "P"
    Strangers <- Others
INVARIANTS
    PeerTypeOK
PROPERTIES
    LinksLast
