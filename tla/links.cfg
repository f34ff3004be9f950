SPECIFICATION Spec
CONSTANTS
    Provider = Provider
    Consumer1 = Consumer1
    Consumer2 = Consumer2
    None = None
    SrvAddr <- Server
    TTLIVE = 0
    REG_TICK = 0
    Peers <- Clients
    AddrOf <- Addrs
    TypOf <- Roles
    GroupOf <- SameGroup
    KeepChoices = {TRUE}
    Unheard = {}
    Natted = {}
    DbFaults = FALSE
    Lines = {"LINE"}
    Budget <- OneEach
ACTION_CONSTRAINT BoundedStep
SYMMETRY Twins
INVARIANTS
    TypeOK
    Introduced
    LinkedIffMember
    HeardOnMemberPorts
PROPERTIES
    ImplementsRendezvous
