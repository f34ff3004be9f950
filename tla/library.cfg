SPECIFICATION Spec
CONSTANTS
    x = x
    y = y
    SrvSock = srv
    NoCall = NoCall
    Tcps <- Objects
    MaxFd = 2
    TOUT = 2
    Host = {h1, h2}
    Port = {1, 2}
    Nobody = Nobody
    Runs = {t1, t2}
    NoThread = NoThread
    Names = {n1, n2}
    Hosts = {"h1", "h2", "lan", "lo"}
    Loopback = "lo"
    NoHost = "none"
    Ends <- Programs
    TTLIVE = 1
    NoPair = NoPair
    Size = 8
    Up = 2
    Down = 4
    Far = 2
    XorWords <- XorOf
    Delta = 5
    Rounds = 8
    Keys <- TwoKeys
    Texts <- Buffers
    NoBlock = NoBlock
CONSTRAINT
    Unshared
INVARIANTS
    LibTypeOK
    HeldOnce
    ModeKnown
    StatusKnown
    SentWhereAsked
    NoneOutlives
    PairsApart
    WholeBlocksReturn
PROPERTIES
    CallsEnd
    StopReturns
