SPECIFICATION Spec
CONSTANTS
    MaxEntries = 3
    SomeTemperatures = {40, 83, 110}
    SomeSpeeds = {0, 15, 100}
    TypedTemperatures <- SomeCells
    TypedSpeeds = {0, 101, Blank}
    Blank = Blank
    MaxRows = 4
    MaxEdits = 3
INVARIANTS
    CurveIsFollowed
    PageAgreesWithServer
PROPERTY
    ButtonsKeepCurveValid
CHECK_DEADLOCK FALSE
