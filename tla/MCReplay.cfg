SPECIFICATION ReplaySpec
CONSTANTS
    Council = {"m1"}
    VotesNeeded = 1
    Runners = {"r1", "r2"}
    MaxDeliveries = 2
    VoteBound = 2
    TxBound = 2
    HoldBound = 1
    OutsideBound = 3
    RunnerFaults = 1
    Keys = {"k1", "k2", "k3"}
    FirstKey = "k1"
    SecretChanges = 3
    HookFaults = 2
    Providers = {"GA", "GB"}
    ApiKeys = {"a1", "a2"}
    FetchCallers = {"c1", "c2"}
    QueryKeys = {"btc", "eth"}
    CacheTtl = 1
    Quota = 2
    QuotaWindow = 2
    HttpRetries = 1
    MinRequests = 5
    ProbeInterval = 1
    MaxCount = 7
    MaxCalls = 2
    Chain <- ChainOf
    Indexers = {"p1", "p2"}
    NoIndexer = "nobody"
    StartLedger = 0
    EventsPerPage = 2
    RejectedAtFirst = {}
    MaxAttempts = 2
    MaxLetters = 3
    Outages = 1
    TokenEvents <- TokenMoves
    Holders = {"ann", "bob"}
    Undecodable = {3}
    ProcessFaults = 2
    Directory <- Files
    Groups <- LegacyGroups
    Redundant <- Repeats
    OwnCommit = {"b"}
    Repeatable = {"b", "c"}
    Reversible = {"a", "b"}
    Programs = {1, 2}
    Kinds = {"migrate", "down"}
    MaxRuns = 2
    MaxEdits = 1
INVARIANT AppliedAtMostOnce
CHECK_DEADLOCK FALSE
