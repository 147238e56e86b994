SPECIFICATION Spec
CONSTANTS
    chan = chan
    ext = ext
    NoPolicy = NoPolicy
    pub1 = pub1
    pub2 = pub2
    Channels = {chan, ext}
    ExternalChannels = {ext}
    Publishers = {pub1, pub2}
    Unset = NoPolicy
    NoFilter <- MCNoFilter
    Configurations <- MCConfigurations
    Calls <- MCCalls
    Targets <- MCTargets
    Filters <- MCFilters
    MaxMessages = 2
    MaxTime = 2
    MaxRemovals = 1
    Conversations <- MCConversations
    ChunkSize = 9
    MaxChunks = 3
    clientMaxWindowBits = 10
    serverMaxWindowBits = 0
    clientNoContextTakeover = FALSE
    serverNoContextTakeover = FALSE
    MaxOffers = 2
    MaxCompressed = 2
    ApiCalls = {c1, c2}
    Admins = {a1, a2}
    Tokens = {t1}
    Contexts = {x1}
    Kinds = {"postMultiChannel"}
    Missing = Missing
    Callbacks = {f, g}
    Data = {1}
    Guards <- MCGuards
    CallLimits = {0, 1}
    MaxAdded = 3
    MaxExecuted = 3
    MaxNested = 1
INVARIANTS
    NothingMissed
    RestoredInOrder
    AnswersWithinPolicy
    FramesSurvive
    AgreedCompression
    HandledAsAuthorized
    LogHoldsAnswer
    CallbacksServed
PROPERTIES
    ClearedOnlyWhenDue
CHECK_DEADLOCK FALSE
