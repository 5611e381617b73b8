SPECIFICATION Spec
CONSTANTS
    lb = lb
    tok = tok
    mkt = mkt
    ref = ref
    adm = adm
    u1 = u1
    u2 = u2
    u3 = u3
    u4 = u4
    Nobody = Nobody
    Address = {lb, tok, mkt, ref, adm, u1, u2, u3, u4}
    LeaderboardContract = lb
    TokenContract = tok
    MarketContract = mkt
    ReferralContract = ref
    Deployer = adm
    Players = {u1, u2, u3, u4}
    TokenAmounts = {}
    ScorePoints = {0, 1, 2}
    ScoreOutcomes = {TRUE}
    ScoreTokens = {0}
    SupplyCap = 0
    MaxTop = 3
    MaxPageSize = 2
    U64Max = 3
SYMMETRY Symmetry
INVARIANT CachedMinIsWeakest
