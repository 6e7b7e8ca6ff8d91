SPECIFICATION MCSpec
CONSTANTS
    MaxWatts = 1
    MaxTunes = 2
    MaxFaults = 3
    MaxOutside = 1
    Base = 2
    Width = 2
    BufferSize = 3
    Methods <- MCMethods
    Objects <- MCObjects
    NaN = NaN
    Refused = Refused
    Done = Done
    Nothing = Nothing
    MaxEntries = 4
INVARIANTS
    DriverHasProgrammedLimits
    CallsAreFaithful
PROPERTIES
    PoisonIsFinal
    LibraryIsLeftAlone
CHECK_DEADLOCK FALSE
