SPECIFICATION Spec
CONSTANTS
    MaxCommands = 3
    MaxFrames = 2
    SensorTests = TRUE
INVARIANTS
    WatchIsOn
    TestAlone
    OnlyOursAreKept
    NoneLeftRunning
PROPERTIES
    DiskIsOurs
