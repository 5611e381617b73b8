-------------------------- MODULE PredictionMarket --------------------------
(***************************************************************************)
(* The market contract (contracts/prediction_market) without its optimistic*)
(* oracle: markets, bets and their fees, resolution by the admin or a      *)
(* resolver, cancellation, refunds, claims and the fee pot.  A bet and a   *)
(* claim call the referral registry, the leaderboard and the reward token  *)
(* in the same transaction, and revert when one of those calls fails.      *)
(* Question, image, category and creator of a market are left out.         *)
(***************************************************************************)
EXTENDS ReferralRegistry, Sequences

CONSTANTS
    MinBet, MaxBetsPerUser,                 \* MIN_BET, MAX_BETS_PER_USER
    MaxMarketsPerWindow, RateWindowLength,  \* MAX_MARKETS_PER_HOUR and the hour
    WinPoints, LosePoints, WinTokens, LoseTokens,
    MaxMarkets, LastCreation,   \* bounds: markets created, and when the last one is
    MaxTime,                    \* bound: last ledger time
    \* who calls MarketNext's operations, and with what
    Bettors, BetAmounts,        \* MaxBetsPerUser * Cardinality(Bettors) bets a market at most
    Durations,                  \* duration_secs
    Referrers,                  \* what a user registers with; Nobody for none
    Officials,                  \* added and removed as resolvers
    Collectors,                 \* added and removed as fee recipients
    Treasuries,                 \* recipients of withdrawn fees; none: never withdrawn
    ConfigChoices,              \* configurations the admin may set
    InitialXlm                  \* XLM of every address at deployment

ASSUME MarketConstants ==
    /\ {MinBet, MaxBetsPerUser, MaxMarketsPerWindow, RateWindowLength} \subseteq Nat \ {0}
    /\ {WinPoints, LosePoints, WinTokens, LoseTokens} \subseteq Nat \ {0}
    /\ {MaxMarkets, LastCreation, MaxTime} \subseteq Nat
    /\ UNION {Bettors, Officials, Collectors, Treasuries, Referrers \ {Nobody}} \subseteq Address
    /\ BetAmounts \subseteq Nat /\ Durations \subseteq Nat
    /\ ConfigChoices \subseteq [referral : Address, leaderboard : Address, xlm : Address]
    /\ InitialXlm \in [Address -> Nat]
    /\ Cardinality({LeaderboardContract, TokenContract, MarketContract,
                    ReferralContract, XlmContract}) = 5

\* A bettor signs its calls, and no contract of the system calls place_bet.
ASSUME BettorsAreUsers == {MarketContract, ReferralContract} \cap Bettors = {}

VARIABLES
    now,            \* the ledger timestamp
    mktCfg,         \* Admin and Config
    marketCount,    \* MarketCount: the last id given out
    market,         \* Market(id)
    bet,            \* Bet(id, user), NoBet when absent
    bettors,        \* BettorAt(id, 0 .. BettorCount(id) - 1)
    accFees,        \* AccumulatedFees
    hasReferrer,    \* HasReferrer(user): the cached answer of credit
    rateWindow,     \* RateWindow
    resolvers,      \* Resolver(address) and the Resolvers list
    feeRecipients   \* FeeRecipient(address)

roleVars   == <<mktCfg, resolvers, feeRecipients>>
bookVars   == <<market, bet, bettors, accFees>>
marketVars == <<now, roleVars, marketCount, bookVars, hasReferrer, rateWindow>>
rewardVars == <<tokenVars, lbVars, refVars>>
allMarketVars == <<marketVars, rewardVars, xlm>>

MarketIds == 1 .. MaxMarkets
NoBet     == [net |-> 0, gross |-> 0, isYes |-> FALSE, claimed |-> FALSE, count |-> 0]
NewMarket(endTime) == [endTime |-> endTime, totalYes |-> 0, totalNo |-> 0, betCount |-> 0,
                       resolved |-> FALSE, outcome |-> FALSE, cancelled |-> FALSE]
NoWindow  == [start |-> 0, count |-> 0]

MarketInit ==
    /\ now = 0
    /\ mktCfg = [admin |-> Nobody, referral |-> Nobody, leaderboard |-> Nobody, xlm |-> Nobody]
    /\ marketCount = 0
    /\ market = [id \in MarketIds |-> NewMarket(0)]
    /\ bet = [id \in MarketIds |-> [u \in Address |-> NoBet]]
    /\ bettors = [id \in MarketIds |-> <<>>]
    /\ accFees = 0
    /\ hasReferrer = [u \in Address |-> "unknown"]
    /\ rateWindow = NoWindow
    /\ resolvers = {}
    /\ feeRecipients = {}

Exists(id)        == id \in 1 .. marketCount
Undecided(id)     == ~market[id].resolved /\ ~market[id].cancelled
Expired(id)       == now >= market[id].endTime
Pool(m)           == m.totalYes + m.totalNo
Side(m, outcome)  == IF outcome THEN m.totalYes ELSE m.totalNo
AdminOrResolver   == {mktCfg.admin} \cup resolvers
AdminOrRecipient  == {mktCfg.admin} \cup feeRecipients

-----------------------------------------------------------------------------
(* Fees, in basis points; every division rounds down *)

TotalFee(amount)    == (amount * 200) \div 10000
PlatformFee(amount) == (amount * 150) \div 10000
ReferralFee(amount) == TotalFee(amount) - PlatformFee(amount)
Net(amount)         == (amount * 9800) \div 10000

\* What a cancellation takes back out of the fee pot, at most all of it.
FeesInPool(pool)    == (pool * 200) \div (10000 - 200)
\* A slip: the refunded fees stay in the pot.
FeesReclaimed_None(pool) == accFees
FeesReclaimed(pool) == IF FeesInPool(pool) < accFees THEN accFees - FeesInPool(pool) ELSE 0

-----------------------------------------------------------------------------
(* Administration *)

MarketInitialize(admin, referral, leaderboard, xlmSac) ==
    /\ mktCfg.admin = Nobody
    /\ mktCfg' = [admin |-> admin, referral |-> referral,
                  leaderboard |-> leaderboard, xlm |-> xlmSac]
    /\ marketCount' = 0
    /\ accFees' = 0
    /\ UNCHANGED <<now, market, bet, bettors, hasReferrer, rateWindow,
                   resolvers, feeRecipients, rewardVars, xlm>>

SetConfig(admin, referral, leaderboard, xlmSac) ==
    /\ mktCfg.admin = admin
    /\ mktCfg' = [admin |-> admin, referral |-> referral,
                  leaderboard |-> leaderboard, xlm |-> xlmSac]
    /\ UNCHANGED <<now, marketCount, bookVars, hasReferrer, rateWindow,
                   resolvers, feeRecipients, rewardVars, xlm>>

SetResolvers(admin, newResolvers) ==
    /\ mktCfg.admin = admin
    /\ resolvers' = newResolvers
    /\ UNCHANGED <<now, mktCfg, feeRecipients, marketCount, bookVars,
                   hasReferrer, rateWindow, rewardVars, xlm>>

AddResolver(admin, resolver)    == SetResolvers(admin, resolvers \cup {resolver})
RemoveResolver(admin, resolver) == SetResolvers(admin, resolvers \ {resolver})

SetRecipients(admin, newRecipients) ==
    /\ mktCfg.admin = admin
    /\ feeRecipients' = newRecipients
    /\ UNCHANGED <<now, mktCfg, resolvers, marketCount, bookVars,
                   hasReferrer, rateWindow, rewardVars, xlm>>

AddFeeRecipient(admin, recipient)    == SetRecipients(admin, feeRecipients \cup {recipient})
RemoveFeeRecipient(admin, recipient) == SetRecipients(admin, feeRecipients \ {recipient})

\* check_rate: a window starts with the first market after the last one ended.
RateWindowOpen == rateWindow.count > 0 /\ now - rateWindow.start < RateWindowLength

\* A slip: the window restarts with every market, and never fills.
RateChecked_SlidingStart == rateWindow' = [start |-> now, count |-> 1]

RateChecked ==
    IF RateWindowOpen
    THEN /\ rateWindow.count < MaxMarketsPerWindow
         /\ rateWindow' = [rateWindow EXCEPT !.count = @ + 1]
    ELSE rateWindow' = [start |-> now, count |-> 1]

CreateMarket(admin, duration) ==
    /\ mktCfg.admin = admin
    /\ RateChecked
    /\ market' = [market EXCEPT ![marketCount + 1] = NewMarket(now + duration)]
    /\ marketCount' = marketCount + 1
    /\ UNCHANGED <<now, roleVars, bet, bettors, accFees, hasReferrer, rewardVars, xlm>>

-----------------------------------------------------------------------------
(* Betting *)

\* A slip: a user may bet any number of times.
MayBetAgain_NoCap(user, id, isYes) ==
    bet[id][user].count > 0 => bet[id][user].isYes = isYes

\* One side a user, and so many increases.
MayBetAgain(user, id, isYes) ==
    bet[id][user].count > 0 =>
        /\ bet[id][user].count < MaxBetsPerUser
        /\ bet[id][user].isYes = isYes

BetAccepted(user, id, isYes, amount) ==
    /\ amount >= MinBet
    /\ Exists(id)
    /\ Undecided(id)
    /\ ~Expired(id)
    /\ MayBetAgain(user, id, isYes)
    /\ mktCfg.xlm = XlmContract
    /\ Affordable(xlm, user, amount)

\* HasReferrer cached as false: the registry is not asked, the pot keeps all.
FeeKept(user, amount) ==
    /\ hasReferrer[user] = "no"
    /\ xlm' = Transferred(xlm, user, MarketContract, amount)
    /\ accFees' = accFees + TotalFee(amount)
    /\ UNCHANGED <<hasReferrer, rewardVars>>

\* Otherwise the referral part goes to the registry, which passes it on or
\* sends it back; the answer is cached when nothing was cached before.
FeeOffered(user, amount) ==
    LET taken  == Transferred(xlm, user, MarketContract, amount)
        handed == Transferred(taken, MarketContract, ReferralContract, ReferralFee(amount))
    IN
    /\ hasReferrer[user] # "no"
    /\ mktCfg.referral = ReferralContract
    /\ Affordable(taken, MarketContract, ReferralFee(amount))
    /\ Credit(MarketContract, user, ReferralFee(amount), handed)
    /\ accFees' = accFees + IF HasReferrer(user) THEN PlatformFee(amount) ELSE TotalFee(amount)
    /\ hasReferrer' = IF hasReferrer[user] # "unknown" THEN hasReferrer
                      ELSE [hasReferrer EXCEPT ![user] = IF HasReferrer(user) THEN "yes" ELSE "no"]

\* A user's entry after one more bet.
Increased(entry, isYes, amount) ==
    [entry EXCEPT !.net = @ + Net(amount), !.gross = @ + amount,
                  !.count = @ + 1, !.isYes = isYes]

\* A slip: the totals and the entry take the amount before fees.
BetRecorded_Gross(user, id, isYes, amount) ==
    /\ bet' = [bet EXCEPT ![id][user] =
                  [@ EXCEPT !.net = @ + amount, !.gross = @ + amount,
                            !.count = @ + 1, !.isYes = isYes]]
    /\ bettors' = bettors
    /\ market' = [market EXCEPT ![id].totalYes = @ + (IF isYes THEN amount ELSE 0),
                                ![id].totalNo = @ + (IF isYes THEN 0 ELSE amount)]

\* A slip: every bet appends its bettor to the index.
BetRecorded_Reindexed(user, id, isYes, amount) ==
    /\ bet' = [bet EXCEPT ![id][user] = Increased(@, isYes, amount)]
    /\ bettors' = [bettors EXCEPT ![id] = Append(@, user)]
    /\ market' = [market EXCEPT ![id].totalYes = @ + (IF isYes THEN Net(amount) ELSE 0),
                                ![id].totalNo = @ + (IF isYes THEN 0 ELSE Net(amount)),
                                ![id].betCount = @ + 1]

BetRecorded(user, id, isYes, amount) ==
    LET first == bet[id][user].count = 0
        one   == IF first THEN 1 ELSE 0
        yes   == IF isYes THEN Net(amount) ELSE 0
    IN
    /\ bet' = [bet EXCEPT ![id][user] = Increased(@, isYes, amount)]
    /\ bettors' = IF first THEN [bettors EXCEPT ![id] = Append(@, user)] ELSE bettors
    /\ market' = [market EXCEPT ![id].totalYes = @ + yes,
                                ![id].totalNo = @ + (Net(amount) - yes),
                                ![id].betCount = @ + one]

PlaceBet(user, id, isYes, amount) ==
    /\ BetAccepted(user, id, isYes, amount)
    /\ FeeKept(user, amount) \/ FeeOffered(user, amount)
    /\ BetRecorded(user, id, isYes, amount)
    /\ UNCHANGED <<now, roleVars, marketCount, rateWindow>>

-----------------------------------------------------------------------------
(* Resolution and cancellation *)

\* Mutants: an unwinnable pool stays behind; every pool is swept.
Swept_Never(id, outcome)  == 0
Swept_Always(id, outcome) == Pool(market[id])

\* apply_resolution: a pool nobody can win is swept into the fee pot.
Swept(id, outcome) == IF Side(market[id], outcome) = 0 THEN Pool(market[id]) ELSE 0
MarketResolvedTo(id, outcome) ==
    market' = [market EXCEPT ![id].resolved = TRUE, ![id].outcome = outcome]

ResolveMarket(caller, id, outcome) ==
    /\ caller \in AdminOrResolver
    /\ Exists(id)
    /\ Undecided(id)
    /\ Expired(id)
    /\ MarketResolvedTo(id, outcome)
    /\ accFees' = accFees + Swept(id, outcome)
    /\ UNCHANGED <<now, roleVars, marketCount, bet, bettors, hasReferrer,
                   rateWindow, rewardVars, xlm>>

\* A slip: a resolved market can still be cancelled.
MayCancel_Resolved(id) == Exists(id) /\ ~market[id].cancelled
MayCancel(id)          == Exists(id) /\ Undecided(id)

MarketCancelledNow(id) ==
    /\ MayCancel(id)
    /\ market' = [market EXCEPT ![id].cancelled = TRUE]
    /\ accFees' = FeesReclaimed(Pool(market[id]))
    /\ UNCHANGED <<now, roleVars, marketCount, bet, bettors, hasReferrer,
                   rateWindow, rewardVars, xlm>>

CancelMarket(admin, id) ==
    /\ mktCfg.admin = admin
    /\ MarketCancelledNow(id)

CancelRefund(user, id) ==
    /\ Exists(id)
    /\ market[id].cancelled
    /\ bet[id][user].gross # 0
    /\ bet' = [bet EXCEPT ![id][user].gross = 0]
    /\ mktCfg.xlm = XlmContract
    /\ XlmTransfer(MarketContract, user, bet[id][user].gross)
    /\ UNCHANGED <<now, roleVars, marketCount, market, bettors, accFees,
                   hasReferrer, rateWindow, rewardVars>>

-----------------------------------------------------------------------------
(* Claims and withdrawals *)

Wins(id, user)   == bet[id][user].isYes = market[id].outcome
Payout(id, user) == (bet[id][user].net * Pool(market[id])) \div Side(market[id], market[id].outcome)
RealWin(id, user) == Wins(id, user) /\ Side(market[id], market[id].outcome) > 0

\* A slip: nothing stops a second claim.
MayClaim_Again(user, id) ==
    /\ Exists(id)
    /\ ~market[id].cancelled
    /\ market[id].resolved
    /\ bet[id][user].count > 0

MayClaim(user, id) ==
    /\ Exists(id)
    /\ ~market[id].cancelled
    /\ market[id].resolved
    /\ bet[id][user].count > 0
    /\ ~bet[id][user].claimed

Claim(user, id) ==
    /\ MayClaim(user, id)
    /\ bet' = [bet EXCEPT ![id][user].claimed = TRUE]
    /\ IF RealWin(id, user)
       THEN mktCfg.xlm = XlmContract /\ XlmTransfer(MarketContract, user, Payout(id, user))
       ELSE UNCHANGED xlm
    /\ mktCfg.leaderboard = LeaderboardContract
    /\ IF RealWin(id, user)
       THEN Reward(MarketContract, user, WinPoints, WinTokens, TRUE)
       ELSE Reward(MarketContract, user, LosePoints, LoseTokens, FALSE)
    /\ UNCHANGED <<now, roleVars, marketCount, market, bettors, accFees,
                   hasReferrer, rateWindow, refVars>>

\* A slip: the pot is paid out and kept.
PotPaidTo_Kept(recipient) ==
    XlmTransfer(MarketContract, recipient, accFees) /\ UNCHANGED accFees

PotPaidTo(recipient) ==
    XlmTransfer(MarketContract, recipient, accFees) /\ accFees' = 0

WithdrawFees(caller, recipient) ==
    /\ caller \in AdminOrRecipient
    /\ accFees # 0
    /\ mktCfg.xlm = XlmContract
    /\ PotPaidTo(recipient)
    /\ UNCHANGED <<now, roleVars, marketCount, market, bet, bettors,
                   hasReferrer, rateWindow, rewardVars>>

\* A ledger closes; any number of calls share a timestamp.
Tick ==
    /\ now < MaxTime
    /\ now' = now + 1
    /\ UNCHANGED <<roleVars, marketCount, bookVars, hasReferrer, rateWindow, rewardVars, xlm>>

-----------------------------------------------------------------------------
(* The deployed system, wired as the contract tests wire it (tests.rs,      *)
(* setup): the leaderboard mints, and knows the token.                     *)

DeployedRewards ==
    /\ tokenAdmin = Deployer
    /\ minters = {LeaderboardContract, MarketContract, ReferralContract}
    /\ balance = [a \in Address |-> 0]
    /\ totalSupply = 0
    /\ LeaderboardEmpty
    /\ lbCfg = [admin |-> Deployer, market |-> MarketContract,
                referral |-> ReferralContract, token |-> TokenContract]

DeployedInit ==
    /\ DeployedRewards
    /\ ReferralInit
    /\ MarketInit
    /\ xlm = InitialXlm

Register(user, referrer) ==
    /\ RegisterReferral(user, referrer)
    /\ UNCHANGED marketVars

RegistryDeployed ==
    /\ ReferralInitialize(Deployer, MarketContract, LeaderboardContract, XlmContract)
    /\ UNCHANGED marketVars

RegistryXlmSet(xlmSac) ==
    /\ SetXlmSac(Deployer, xlmSac)
    /\ UNCHANGED marketVars

MarketDeployed == MarketInitialize(Deployer, ReferralContract, LeaderboardContract, XlmContract)

\* A bound of the model.
MayCreate == marketCount < MaxMarkets /\ now <= LastCreation

AdminStep ==
    \/ RegistryDeployed
    \/ MarketDeployed
    \/ \E d \in Durations : MayCreate /\ CreateMarket(Deployer, d)
    \/ \E c \in ConfigChoices : SetConfig(Deployer, c.referral, c.leaderboard, c.xlm)
    \/ \E c \in ConfigChoices : RegistryXlmSet(c.xlm)
    \/ \E o \in Officials : AddResolver(Deployer, o) \/ RemoveResolver(Deployer, o)
    \/ \E c \in Collectors : AddFeeRecipient(Deployer, c) \/ RemoveFeeRecipient(Deployer, c)
    \/ \E id \in MarketIds : CancelMarket(Deployer, id)

CallerStep ==
    \/ \E u \in Bettors, r \in Referrers : Register(u, r)
    \/ \E u \in Bettors, id \in MarketIds :
          \/ \E y \in BOOLEAN, a \in BetAmounts : PlaceBet(u, id, y, a)
          \/ CancelRefund(u, id)
          \/ Claim(u, id)
    \/ \E c \in {Deployer} \cup Officials, id \in MarketIds, o \in BOOLEAN : ResolveMarket(c, id, o)
    \/ \E c \in {Deployer} \cup Collectors, t \in Treasuries : WithdrawFees(c, t)

MarketNext == AdminStep \/ CallerStep \/ Tick

MarketSpec == DeployedInit /\ [][MarketNext]_allMarketVars

-----------------------------------------------------------------------------
(* Properties *)

MarketTypeOK ==
    /\ now \in 0 .. MaxTime
    /\ mktCfg \in [admin : Address \cup {Nobody}, referral : Address \cup {Nobody},
                   leaderboard : Address \cup {Nobody}, xlm : Address \cup {Nobody}]
    /\ marketCount \in 0 .. MaxMarkets
    /\ market \in [MarketIds -> [endTime : Nat, totalYes : Nat, totalNo : Nat, betCount : Nat,
                                 resolved : BOOLEAN, outcome : BOOLEAN, cancelled : BOOLEAN]]
    /\ bet \in [MarketIds -> [Address -> [net : Nat, gross : Nat, isYes : BOOLEAN,
                                          claimed : BOOLEAN, count : 0 .. MaxBetsPerUser]]]
    /\ bettors \in [MarketIds -> Seq(Address)]
    /\ accFees \in Nat
    /\ hasReferrer \in [Address -> {"unknown", "yes", "no"}]
    /\ rateWindow \in [start : 0 .. MaxTime, count : 0 .. MaxMarketsPerWindow]
    /\ resolvers \subseteq Address
    /\ feeRecipients \subseteq Address
    /\ xlm \in [Address -> Nat]

Backers(id, outcome) == {u \in Address : bet[id][u].count > 0 /\ bet[id][u].isYes = outcome}
SumNet(id, users)    == SumFunctionOnSet([u \in Address |-> bet[id][u].net], users)

\* A market's totals, bettor index and bet count are those of its bet entries,
\* through increases, refunds and claims (place_bet writes the four apart).
BooksAgree ==
    \A id \in MarketIds :
        /\ market[id].totalYes = SumNet(id, Backers(id, TRUE))
        /\ market[id].totalNo  = SumNet(id, Backers(id, FALSE))
        /\ {bettors[id][i] : i \in DOMAIN bettors[id]} = Backers(id, TRUE) \cup Backers(id, FALSE)
        /\ Len(bettors[id]) = market[id].betCount
        /\ market[id].betCount = Cardinality(Backers(id, TRUE) \cup Backers(id, FALSE))

\* What the contract still owes on a market: refunds, unclaimed payouts or the pool.
Unpaid(id) == {u \in Address : bet[id][u].count > 0 /\ RealWin(id, u) /\ ~bet[id][u].claimed}
Stakes(id) ==
    IF market[id].cancelled
    THEN SumFunction([u \in Address |-> bet[id][u].gross])
    ELSE IF market[id].resolved
    THEN SumFunctionOnSet([u \in Address |-> IF u \in Unpaid(id) THEN Payout(id, u) ELSE 0],
                          Unpaid(id))
    ELSE Pool(market[id])
AllStakes == SumFunction([id \in MarketIds |-> Stakes(id)])

NoneCancelled == \A id \in DOMAIN market : ~market[id].cancelled

\* As long as nothing is cancelled the contract can pay every open stake, every
\* unclaimed payout and the whole fee pot, in any order of bets, claims, sweeps
\* and withdrawals over any number of markets (check_invariant in tests.rs).
SolventUntilCancelled ==
    NoneCancelled => xlm[MarketContract] >= AllStakes + accFees

\* What it came to hold beyond that is the rounding of the fees, at most one unit
\* a bet, and of the payouts, at most one a winner: no other XLM is stranded,
\* unless somebody names the contract itself as referrer or as treasury.
Winners(id) == IF market[id].resolved THEN Backers(id, market[id].outcome) ELSE {}
RoundingSteps ==
    SumFunction([id \in MarketIds |->
        SumFunction([u \in Address |-> bet[id][u].count]) + Cardinality(Winners(id))])
PaysOthers == MarketContract \notin Referrers \cup Treasuries
OnlyDustIsStranded ==
    NoneCancelled /\ PaysOthers =>
        xlm[MarketContract] - (AllStakes + accFees) <= InitialXlm[MarketContract] + RoundingSteps

\* Whoever has a bet on a resolved market can claim it at once: neither the
\* balance nor a refusing leaderboard or token contract stands in the way.
ClaimsNeverBlocked ==
    \A id \in MarketIds, u \in Bettors :
        NoneCancelled /\ market[id].resolved /\ bet[id][u].count > 0 /\ ~bet[id][u].claimed
            => ENABLED Claim(u, id)

\* A cancelled market's refunds are covered when the fee pot was never paid out
\* and no referrer took a share: what cancel_market takes back from the pot is
\* never less than what the bets put in.
SolventWhileFeesStay ==
    (\A a \in Treasuries \cup (Referrers \ {Nobody}) : xlm[a] = InitialXlm[a])
        => xlm[MarketContract] >= AllStakes + accFees

\* A decided market keeps its verdict and its totals: it is never resolved and
\* cancelled, resolved twice, or bet on again.
VerdictIsFinal ==
    [][\A id \in MarketIds : ~Undecided(id) => market'[id] = market[id]]_allMarketVars

\* credit keeps nothing between calls: it pays the referrer or sends the fee back,
\* unless the referrer somebody named is the registry.
RegistryHoldsNothing ==
    ReferralContract \notin Referrers \cup Treasuries =>
        xlm[ReferralContract] = InitialXlm[ReferralContract]

\* The hourly limit holds from any instant on, up to the second window that an
\* hour may touch: check_rate's fixed windows let at most two in.
CreatedWithin(t, duration) ==
    {id \in 1 .. marketCount :
        market[id].endTime - duration \in t .. (t + RateWindowLength - 1)}
AtMostTwoWindows ==
    \A d \in Durations : Durations = {d} =>
        \A t \in 0 .. now : Cardinality(CreatedWithin(t, d)) <= 2 * MaxMarketsPerWindow

\* IPRED, leaderboard and bets tell the same story: one won or lost bet per
\* claim, and the tokens those claims and the registration earned.
Registered(u) == IF profile[u].registered THEN 1 ELSE 0
RewardsMatchClaims ==
    \A u \in Address :
        /\ stats[u].won + stats[u].lost
              = Cardinality({id \in DOMAIN bet : bet[id][u].claimed})
        /\ balance[u] = WinTokens * stats[u].won + LoseTokens * stats[u].lost
                        + WelcomeTokens * Registered(u)

\* place_bet keeps credit's answer under HasReferrer(user), and no later call
\* corrects it: a kept yes still has a referrer to pay behind it.
CachedReferrersExist == \A u \in Address : hasReferrer[u] = "yes" => HasReferrer(u)

\* The records the four contracts keep of the same bets and users agree: referral
\* counts and profiles, the market's cached referrals, claims, won and lost bets
\* and tokens, and the registry's balance and the fees it was handed.
RecordsAgree ==
    /\ RewardsMatchClaims
    /\ ReferralCountsMatch
    /\ CachedReferrersExist
    /\ RegistryHoldsNothing
=============================================================================
