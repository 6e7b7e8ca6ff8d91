SPECIFICATION FairSpec
CONSTANTS
    s1 = s1
    s2 = s2
    Snapshots <- TwoSnapshots
    Default = s1
    Unusable = Unusable
    MaxQueue = 2
    MaxFaults = 2
    MaxEdits = 2
PROPERTIES
    OnlySettingsChange
    SavesRecover
    DurableImplemented
