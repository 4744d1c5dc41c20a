SPECIFICATION FairSpec
CONSTANTS
    Posix = TRUE
    Size = 2
    Room = 3
    FrameQueue = 2
    CommandQueue = 2
    Budget = 2
INVARIANTS
    ThreadIsOver
PROPERTIES
    StopReturns
    StateIsShown
    CommandsLeave
