SPECIFICATION FairSpec
CONSTANTS
    MaxRiders = 3
    Configs <- AllModes
    MaxTicks = 4
    MaxMs = 3
    Circumference = 2
    MaxSpeed = 2
    Tolerance = 1
    ArmingTimeout = 1
    PeakLevels = {0, 1}
    ClockMayRecede = FALSE
INVARIANTS
    TypeOK
    BoxFollowsEngine
    NeverRunningWithoutRacer
    RankingIsComplete
    EliminationRankIsFinal
    OnlyPhotoFinishReorders
    
    PenaltyIsPaid
PROPERTIES
    FrozenOnceClassified
    EveryRaceEnds
