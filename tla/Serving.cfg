\* Two loads of ten databases and one command or change; three requests on a connection; two requests of every kind
\* and a reply of every kind in every sequence of reads; three tasks with every lock.
SPECIFICATION ServingSpec
CONSTANTS
    NULL = NULL
    Nobody = Nobody
    Databases <- MCDatabases
    Width <- MCWidth
    Number <- MCNumber
    Bases <- MCBases
    UUID = "u"
    PidFiles <- MCPidFiles
    Lines <- MCLines
    Files <- MCFiles
    Lower <- MCLower
    MimeTypes <- MCMimeTypes
    MaxCommands = 1
    Default <- MCDefault
    LimitKey <- MCLimitKey
    MaxLoads = 2
    Messages <- MCMessages
    MaxRequests = 3
    BUFFER_SIZE = 5
    MAX_CONTENT_LENGTH = 4
    HEADER = 2
    RECORD = 5
    Conversations <- MCConversations
    PROXY_BUFFER = 10
    REPLY_HEAD = 2
    ReplyKinds <- MCReplyKinds
    Tasks = {t1, t2, t3}
INVARIANTS ConfigurationFaithful RequestsFaithful StreamsFaithful LocksSound
PROPERTIES EveryoneFinishes
CHECK_DEADLOCK FALSE
