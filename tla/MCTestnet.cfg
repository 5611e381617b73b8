SPECIFICATION Spec
CONSTANTS
    Parts = {"deployment"}
    lb = lb
    tok = tok
    mkt = mkt
    ref = ref
    sac = sac
    adm = adm
    u1 = u1
    u2 = u2
    g1 = g1
    r1 = r1
    o1 = o1
    t1 = t1
    Nobody = Nobody
    Contracts = {lb, tok, mkt, ref, sac}
    Users = {u1, u2, g1, r1, o1, t1}
    Guest = g1
    Officer = o1
    Address <- MCAddress
    InitialXlm <- MCInitialXlm
    LeaderboardContract = lb
    TokenContract = tok
    MarketContract = mkt
    ReferralContract = ref
    XlmContract = sac
    Deployer = adm
    Players = {}
    TokenAmounts = {}
    ScorePoints = {}
    ScoreTokens = {}
    ScoreOutcomes = {}
    SupplyCap = 0
    MaxTop = 2
    MaxPageSize = 2
    U64Max = 1000
    WelcomePoints = 5
    WelcomeTokens = 1
    ReferralBetPoints = 3
    MinBet = 50
    MaxBetsPerUser = 2
    MaxMarketsPerWindow = 1
    RateWindowLength = 2
    WinPoints = 30
    LosePoints = 10
    WinTokens = 10
    LoseTokens = 2
    MaxMarkets = 1
    LastCreation = 0
    MaxTime = 1
    Bettors = {u1, u2}
    BetAmounts = {49, 50, 199}
    Durations = {1}
    Referrers = {r1, Nobody}
    Officials = {}
    Treasuries = {t1}
    Collectors = {}
    Funds = 300
    ConfigChoices <- NoConfigChoices
    Script <- TestnetScript
SYMMETRY Symmetry
INVARIANTS
    ScriptServesUsers
CHECK_DEADLOCK FALSE
