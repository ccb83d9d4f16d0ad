\* The limits in use against the settings of the database: Host_create, Handler_create and the
\* others read their limit while the server is loaded, before the settings are.
SPECIFICATION ServingSpec
CONSTANTS
    NULL = NULL
    Nobody = Nobody
    Databases <- MCDatabases
    Width <- MCWidth
    Number <- MCNumber
    Bases <- MCBases
    UUID = "u"
    PidFiles <- MCPidFiles
    Lines <- MCLines
    Files <- MCFiles
    Lower <- MCLower
    MimeTypes <- MCMimeTypes
    MaxCommands = 1
    Default <- MCDefault
    LimitKey <- MCLimitKey
    MaxLoads = 2
    Messages <- MCMessages
    MaxRequests = 3
    BUFFER_SIZE = 5
    MAX_CONTENT_LENGTH = 4
    HEADER = 2
    RECORD = 5
    Conversations <- MCConversations
    PROXY_BUFFER = 12
    REPLY_HEAD = 2
    ReplyKinds <- MCReplyKinds
    Tasks = {t1, t2, t3}
INVARIANT SettingsTakeEffect
CHECK_DEADLOCK FALSE
