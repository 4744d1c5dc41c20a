SPECIFICATION FairRingSpec
CONSTANTS
    N = 4
    MaxFrames = 9
CHECK_DEADLOCK FALSE
INVARIANTS
    NeverSameSlot
PROPERTIES
    ImplementsQueue
    AcceptedIsHandled
