SPECIFICATION MCSpec
CONSTANTS
    c1 = c1
    c2 = c2
    v1 = v1
    v2 = v2
    Clients <- TwoClients
    Stored <- Curve
    Driven <- Tuning
    Values <- TwoValues
    InitialValue = v1
    Unusable = Unusable
    Nobody = Nobody
    Nothing = Nothing
    MaxQueued = 2
    MaxRequests = 3
    MaxFaults = 2
    Limit = 2
    MaxOutput = 6
SYMMETRY Symmetry
INVARIANTS
    TypeOK
    ClientsSeeHardware
    AcknowledgedSurvives
    QuietMeansServed
PROPERTIES
    ShutdownStartsNothing
CHECK_DEADLOCK FALSE
