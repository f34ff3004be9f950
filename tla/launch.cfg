SPECIFICATION FairSpec
CONSTANTS
    Procs = {a, b, c}
    None = None
    SRV_PORT = 5
    PortLimit = 7
    Bases = {4, 6}
    ScanLen = 2
    Occupied = {6}
INVARIANTS
    LaunchTypeOK
    PortsHeld
    TablesFollowServer
PROPERTIES
    StartsEnd
