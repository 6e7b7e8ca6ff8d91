SPECIFICATION HistorySpec
CONSTANTS
    Curves <- MCCurves
    Percentages = {38}
    Measurements <- MCMeasurements
    SamplesPerCycle = 2
    WaitRampDown = 2
    WaitRampUp = 1
    SensorsMayFail = FALSE
    MaxCommands = 2
    MaxFaults = 0
    Null = Null
INVARIANT
    FixedModeOwnsFans
PROPERTIES
    RampDownIsEarned
    NewCurveIsApplied
CHECK_DEADLOCK FALSE
