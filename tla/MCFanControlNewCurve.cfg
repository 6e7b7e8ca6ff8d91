SPECIFICATION HistorySpec
CONSTANTS
    Curves <- MCCurves
    Percentages = {38}
    Measurements <- MCMeasurements
    SamplesPerCycle = 1
    WaitRampDown = 3
    WaitRampUp = 1
    SensorsMayFail = FALSE
    MaxCommands = 1
    MaxFaults = 0
    Null = Null
PROPERTY
    NextCycleUsesNewCurve
CHECK_DEADLOCK FALSE
