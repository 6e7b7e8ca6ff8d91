SPECIFICATION Spec
CONSTANTS
    Curves <- OneCurve
    Percentages = {56}
    Measurements <- OneMeasurement
    SamplesPerCycle = 2
    WaitRampDown = 1
    WaitRampUp = 1
    SensorsMayFail = TRUE
    MaxCommands = 1
    MaxFaults = 2
    Null = Null
INVARIANTS
    ConfirmedSpeedIsReal
    OneSensorCall
    HandoffIsKept
PROPERTIES
    TelemetryIsReal
    HandoffImplemented
CHECK_DEADLOCK FALSE
