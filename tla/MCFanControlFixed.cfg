SPECIFICATION FixedSpec
CONSTANTS
    Curves <- OneCurve
    Percentages = {20, 38}
    Measurements <- OneMeasurement
    SamplesPerCycle = 1
    WaitRampDown = 1
    WaitRampUp = 1
    SensorsMayFail = TRUE
    MaxCommands = 1
    MaxFaults = 1
    Null = Null
PROPERTIES
    CommandIsAnswered
    FixedModeRecovers
CHECK_DEADLOCK FALSE
