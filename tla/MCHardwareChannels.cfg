SPECIFICATION ChannelSpec
CONSTANTS
    MaxCalls = 3
    MaxChannelFaults = 1
PROPERTIES
    FailureStopsCalls
    WorkersEndQuietly
    EveryCallSettles
CHECK_DEADLOCK FALSE
