\* Every sequence of operations on a tree of six nodes, two lists of five nodes, a hash
\* table of nine and four blocks of memory; every table of routes, hosts and types filled in
\* every order and every target looked up; every pattern of up to two items on every string
\* of up to four letters; two calls on every text, stream and write stream; calls with
\* numbers of up to eight components and two RSA keys.
SPECIFICATION StructuresSpec
CONSTANTS
    DictNodes = {1, 2, 3, 4, 5, 6}
    KeyOf <- MCKeyOf
    ListNodes = {1, 2, 3, 4, 5}
    DataOf <- MCDataOf
    HashNodes = {1, 2, 3, 4, 5, 6, 7, 8, 9}
    HashOf <- MCHashOf
    INIT_BITS = 1
    MaxMerge = 2
    MaxScan = 6
    MAX_TRAVERSE_SIZE = 3
    Paths <- MCPaths
    Hostnames <- MCHostnames
    Extensions <- MCExtensions
    Targets <- MCTargets
    Default <- MCDefault
    Items <- MCItems
    Subjects <- MCSubjects
    NULL = NULL
    MaxAddr = 4
    Texts <- MCTexts
    Pieces <- MCPieces
    Letters <- MCLetters
    Files <- MCFiles
    MaxCalls = 2
    COMP_BIT_SIZE = 4
    COMP_BYTE_SIZE = 2
    MUL_KARATSUBA_THRESH = 3
    SQU_KARATSUBA_THRESH = 3
    WINDOW_LIMIT = 2
    OCTET_STEP = 4
    PAD_START = 5
    MaxBlocks = 2
    Moduli <- MCModuli
    Left <- MCLeft
    Right <- MCRight
    Squared <- MCSquared
    Wide <- MCWide
    PowerComps = 3
    Exponents <- MCExponents
    Keys <- MCKeys
    Plain <- MCPlain
INVARIANTS
    ContainersFaithful RoutesFaithful FamiliesSound StringsFaithful NumbersFaithful
CHECK_DEADLOCK FALSE
