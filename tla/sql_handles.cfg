SPECIFICATION FairSpec
CONSTANTS
    None = None
    MaxHandles = 5
INVARIANTS
    SqlTypeOK
    HandlesInUseAreOpen
PROPERTIES
    ExitsInTheEnd
CHECK_DEADLOCK FALSE
