CONSTANTS
    None = None
    Hosts <- MCHosts
    HostNames <- MCHostNames
    Paths <- MCPaths
    Backends <- MCBackends
    Route <- MCRoute
    BackendType <- MCBackendType
    default_host = "h1"
SPECIFICATION FairSpec
INVARIANTS
    TypeOK
    NoInvalidEvent
    ReleasedExactlyOnce
    UpstreamIsProxyFd
    NoUseAfterRelease
    AnswersFitRequests
PROPERTIES
    HangupEndsTask
    ImplementsLife
    AnnouncedCloseIsKept
