SPECIFICATION Spec
CONSTANTS
    p1 = p1
    p2 = p2
    Processes <- TwoProcesses
    Families <- BothFamilies
    MaxWrites = 1
    MaxFaults = 2
    None = None
SYMMETRY Symmetry
INVARIANTS
    FansAreNotAbandoned
    NobodyWaitsInVain
PROPERTY
    ProcessesCoexist
CHECK_DEADLOCK FALSE
