SPECIFICATION FairSpec
CONSTANTS
    Curves <- OneCurve
    Percentages = {38}
    Measurements <- MCMeasurements
    SamplesPerCycle = 1
    WaitRampDown = 2
    WaitRampUp = 1
    SensorsMayFail = FALSE
    MaxCommands = 1
    MaxFaults = 1
    Null = Null
PROPERTIES
    CurveIsReached
    ControlIsReasserted
    HandoffIsAttempted
CHECK_DEADLOCK FALSE
