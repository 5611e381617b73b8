SPECIFICATION Spec
CONSTANTS
    Parts = {"dispute", "council"}
    lb = lb
    tok = tok
    mkt = mkt
    ref = ref
    sac = sac
    adm = adm
    u1 = u1
    s1 = s1
    c1 = c1
    o1 = o1
    o2 = o2
    t1 = t1
    Nobody = Nobody
    Contracts = {lb, tok, mkt, ref, sac}
    Users = {u1, s1, c1, o1, o2}
    Member = o2
    Address <- MCAddress
    InitialXlm <- MCInitialXlm
    LeaderboardContract = lb
    TokenContract = tok
    MarketContract = mkt
    ReferralContract = ref
    XlmContract = sac
    Deployer = adm
    Players = {}
    TokenAmounts = {}
    ScorePoints = {}
    ScoreTokens = {}
    ScoreOutcomes = {}
    SupplyCap = 0
    MaxTop = 2
    MaxPageSize = 2
    U64Max = 1000
    WelcomePoints = 5
    WelcomeTokens = 1
    ReferralBetPoints = 3
    MinBet = 50
    MaxBetsPerUser = 1
    MaxMarketsPerWindow = 1
    RateWindowLength = 2
    WinPoints = 30
    LosePoints = 10
    WinTokens = 10
    LoseTokens = 2
    MaxMarkets = 1
    LastCreation = 0
    MaxTime = 5
    Bettors = {u1}
    BetAmounts = {199}
    Durations = {1}
    Referrers = {}
    Officials = {o1}
    Treasuries = {}
    Collectors = {}
    BetFunds = 199
    BondFunds = 25
    CancellationDeadline = 2
    Submitters = {s1}
    Challengers = {c1}
    BondAmounts = {9, 10, 25}
    WindowChoices = {}
    ConfigChoices <- NoConfigChoices
    DefaultParams <- MCDefaultParams
    BondChoices <- NoBondChoices
INVARIANTS
    BondsAreExact
    VotesAreCounted
PROPERTIES
    SubmissionFreezesStakes
    FollowsLifecycle
    DisputesEnd
CHECK_DEADLOCK FALSE
