SPECIFICATION Spec
CONSTANTS
    MaxRiders = 2
    Configs <- DistanceOnly
    MaxTicks = 3
    MaxMs = 3
    Circumference = 2
    MaxSpeed = 2
    Tolerance = 1
    ArmingTimeout = 1
    PeakLevels = {0, 1}
    ClockMayRecede = TRUE
PROPERTIES
    RaceClockNeverRecedes
