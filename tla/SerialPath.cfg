SPECIFICATION FairSpec
CONSTANTS
    Riders = 1
    MaxDigits = 3
    MaxU32 = 200
    MaxI32 = 100
    MaxLine = 8
    TextMax = 8
    KnownIds <- MCKnownIds
    LinuxDepth = 5
    MacDepth = 8
    Devices <- MCDevices
    About <- MCAbout
    Boxes <- MCBoxes
    Chosen = 0
    Running <- MCRunning
    Repertoires <- MCRepertoires
    Noises <- MCNoises
    ReadMax = 16
    MaxWaiting = 14
    MaxNoise = 1
INVARIANTS
    NothingForged
    NoiseCostsOneLine
    PortAgrees
    BoxIsTriedFirst
PROPERTIES
    GoneIsTold
