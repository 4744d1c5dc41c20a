SPECIFICATION FairSpec
CONSTANTS
    IntSize = 16
    LongSize = 64
    MsPerSecond = 3
    BuffSize = 3
    MaxRacers = 2
    FalseStartTicks = 3
    CountFrom = 2
    CountdownMs = 0
    UpdateInterval = 0
    BuffGuarded = 4
    DefaultLength = 3
    DefaultSeconds = 5
    MockRate <- MCMockRate
    MaxClock = 3
    Wired = {0, 1}
    Turn = 2
    PulseLow = 1
    Iters = 2
    Faults <- MCFaults
    Latency = 1
    CreditPerMs = 1
    CreditMax = 2
    OutboxMax = 3
    OpenMayFail = TRUE
    ClientStalls = TRUE
    Tried <- MCTried
    MaxSent = 3
INVARIANTS
    PortIsWhole
    TicksFollowTurns
    FalseStartIsEarned
    PipelineInOrder
PROPERTIES
    FreezeEnds
    RaceIsTheOneAsked
