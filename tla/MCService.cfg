\* Three hybrid torrents; two connections and users; two names for sessions and presets.
SPECIFICATION ServiceSpec
CONSTANTS
    V1 <- HybridV1
    V2 <- HybridV2
    NoHalf = NoHalf
    Hashes <- HybridHashes
    Items = {item1, item2}
    None = None
    RpcCalls = {a, b}
    a = a
    b = b
    Methods = {"auth.init", "auth.login", "auth.logout", "auth.keys.create", "auth.keys.remove", "auth.sessions.remove", "plugin"}
    Usernames = {a, b}
    MaxSessions = 2
    IdleTimeout = 2
    TouchInterval = 1
    MaxTime = 3
    MaxTokens = 3
    RecordNames = {"default", "x"}
    KvKeys = {"k"}
    KvValues = {1, 2}
    TorrentIds = {"t"}
    Target = 3
    SessionsAt = 1
    SeedAt = 2
    MaxSessionId = 4
    MaxPresetId = 2
    MaxHandlers = 3
    MaxQueued = 1
    MaxCrashes = 1
    MaxTorrentAlerts = 2
    MaxTorrentRestarts = 1
    Letters = {"a", "b"}
    MaxText = 4
    MaxQueryDepth = 2
    MaxNumber = 5
    Listed = {1, 2, 3, 4}
    PageSizes = {1, 2}
    Levels = {0, 1}
    EntrySizes = {1, 3}
    Capacity = 4
    Limit = 2
    MinLevel = 1
    MaxLogged = 6
    MaxRuns = 2
INVARIANTS FindByHalfExact RepliesOnce OneUser SessionsLive SchemaWhole   TorrentsStayHome FlagsRestored QueriesRight LogFollowed
PROPERTIES TokensKept
CHECK_DEADLOCK FALSE
SYMMETRY Connections
