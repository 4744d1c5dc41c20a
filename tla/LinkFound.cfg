SPECIFICATION AnsweringSpec
CONSTANTS
    Ports = {1, 2}
    BoxPorts = {2}
    Reason <- MCReason
    Preferred = 0
    CanMisread = FALSE
    PromptBox = TRUE
    MaxPending = 1
    HandshakeTimeout = 1
    HandshakeAttempts = 2
    WatchdogTime = 1
    CloseAfterSilence = 1
    ReconnectGrace = 2
    ScanInterval = 1
    BackoffMax = 2
    BackoffAfterFailures = 1
    MaxBlacklist = 2
    CommandQueue = 1
PROPERTIES
    BoxIsFound
