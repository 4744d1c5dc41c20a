SPECIFICATION GraceSpec
CONSTANTS
    Ports = {2}
    BoxPorts = {2}
    Reason <- MCReason
    Preferred = 2
    CanMisread = TRUE
    PromptBox = FALSE
    MaxPending = 0
    HandshakeTimeout = 1
    HandshakeAttempts = 2
    WatchdogTime = 1
    CloseAfterSilence = 1
    ReconnectGrace = 2
    ScanInterval = 1
    BackoffMax = 1
    BackoffAfterFailures = 0
    MaxBlacklist = 2
    CommandQueue = 1
    LinkGrace = 1
INVARIANTS
    StartIsAuthorised
PROPERTIES
    OneOutage
    OutageIsReported
    NoHastyVerdict
    PlainCutEnds
