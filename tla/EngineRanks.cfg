SPECIFICATION Spec
CONSTANTS
    MaxRiders = 2
    Configs <- TimeOnly
    MaxTicks = 3
    MaxMs = 2
    Circumference = 2
    MaxSpeed = 2
    Tolerance = 1
    ArmingTimeout = 1
    PeakLevels = {0, 1}
    ClockMayRecede = FALSE
INVARIANTS
    AnnouncedRankIsFinal
