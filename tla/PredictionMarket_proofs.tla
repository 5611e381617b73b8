----------------------- MODULE PredictionMarket_proofs -----------------------
(***************************************************************************)
(* For any number of markets, users and amounts, and whenever the contract *)
(* is initialized: a decided market keeps its verdict and its totals, and  *)
(* totals, bettor indexes and bet counts are those of the bets.            *)
(***************************************************************************)
EXTENDS PredictionMarket, Leaderboard_proofs

MarketRecord == [endTime : Nat, totalYes : Nat, totalNo : Nat, betCount : Nat,
                 resolved : BOOLEAN, outcome : BOOLEAN, cancelled : BOOLEAN]

\* VerdictIsFinal is not inductive: create_market overwrites an entry, which is
\* harmless because no market above the count is decided, and initialize sets
\* the count back to 0, which is harmless because nothing was created before.
VerdictInv ==
    /\ now \in Nat
    /\ marketCount \in 0 .. MaxMarkets
    /\ market \in [MarketIds -> MarketRecord]
    /\ \A id \in MarketIds : id > marketCount => Undecided(id)
    /\ mktCfg.admin = Nobody => marketCount = 0

-----------------------------------------------------------------------------
(* What a step does to the markets *)

Kept == market' = market /\ marketCount' = marketCount

\* Nothing, but the configuration may change hands at initialization.
QuietStep ==
    /\ Kept
    /\ now' \in {now, now + 1}
    /\ mktCfg.admin # Nobody => mktCfg'.admin # Nobody
    /\ mktCfg'.admin = Nobody => mktCfg.admin = Nobody

InitializeStep ==
    /\ mktCfg.admin = Nobody
    /\ market' = market /\ marketCount' = 0 /\ now' = now

CreateStep ==
    /\ mktCfg.admin # Nobody
    /\ marketCount < MaxMarkets
    /\ \E d \in Nat : market' = [market EXCEPT ![marketCount + 1] = NewMarket(now + d)]
    /\ marketCount' = marketCount + 1
    /\ now' = now /\ mktCfg' = mktCfg

\* One undecided market is bet on before it expires, or decided.
SameTotals(m, n) ==
    m.totalYes = n.totalYes /\ m.totalNo = n.totalNo /\ m.betCount = n.betCount
SameVerdict(m, n) ==
    m.resolved = n.resolved /\ m.outcome = n.outcome /\ m.cancelled = n.cancelled

MarketStepOf(id) ==
    /\ Exists(id)
    /\ Undecided(id)
    /\ \E m \in MarketRecord :
          /\ market' = [market EXCEPT ![id] = m]
          /\ m.endTime = market[id].endTime
          /\ SameTotals(m, market[id]) \/ (SameVerdict(m, market[id]) /\ ~Expired(id))
    /\ marketCount' = marketCount /\ now' = now /\ mktCfg' = mktCfg

\* What a bet adds to the totals is a natural number.
LEMMA NetIsNatural ==
    ASSUME NEW amount \in Nat
    PROVE  Net(amount) \in Nat
BY DEF Net

\* A record stays a market record when its totals change.
LEMMA TotalsStayNatural ==
    ASSUME NEW r \in MarketRecord, NEW a \in Nat, NEW b \in Nat, NEW c \in Nat
    PROVE  [r EXCEPT !.totalYes = a, !.totalNo = b, !.betCount = c] \in MarketRecord
BY DEF MarketRecord

LEMMA BetIsMarketStep ==
    ASSUME VerdictInv,
           NEW user \in Bettors, NEW id \in MarketIds, NEW isYes \in BOOLEAN,
           NEW amount \in BetAmounts, PlaceBet(user, id, isYes, amount)
    PROVE  MarketStepOf(id)
<1> DEFINE yes == IF isYes THEN Net(amount) ELSE 0
           no  == Net(amount) - yes
           one == IF bet[id][user].count = 0 THEN 1 ELSE 0
           m   == [market[id] EXCEPT !.totalYes = @ + yes, !.totalNo = @ + no,
                                     !.betCount = @ + one]
<1>1. /\ Exists(id) /\ Undecided(id) /\ ~Expired(id)
      /\ now' = now /\ marketCount' = marketCount /\ mktCfg' = mktCfg
    BY DEF PlaceBet, BetAccepted, roleVars
<1>2. market[id] \in MarketRecord /\ id \in DOMAIN market
    BY DEF VerdictInv
<1>3. market' = [market EXCEPT ![id].totalYes = @ + yes, ![id].totalNo = @ + no,
                               ![id].betCount = @ + one]
    BY DEF PlaceBet, BetRecorded
<1>4. Net(amount) \in Nat
    BY NetIsNatural, MarketConstants
<1>5. yes \in Nat /\ no \in Nat /\ one \in Nat
    BY <1>4
<1> HIDE DEF yes, no, one
<1>6. market' = [market EXCEPT ![id] = m]
    BY <1>2, <1>3 DEF MarketRecord
<1>7. m \in MarketRecord
    <2>1. /\ market[id].totalYes + yes \in Nat
          /\ market[id].totalNo + no \in Nat
          /\ market[id].betCount + one \in Nat
        BY <1>2, <1>5 DEF MarketRecord
    <2> QED BY <1>2, <2>1, TotalsStayNatural
<1>8. m.endTime = market[id].endTime /\ SameVerdict(m, market[id])
    BY <1>2 DEF MarketRecord, SameVerdict
<1> HIDE DEF m
<1> QED BY <1>1, <1>6, <1>7, <1>8 DEF MarketStepOf

LEMMA DecisionIsMarketStep ==
    ASSUME VerdictInv, NEW id \in MarketIds, NEW outcome \in BOOLEAN,
           Exists(id), Undecided(id),
           \/ MarketResolvedTo(id, outcome)
           \/ market' = [market EXCEPT ![id].cancelled = TRUE],
           marketCount' = marketCount, now' = now, mktCfg' = mktCfg
    PROVE  MarketStepOf(id)
<1>1. market[id] \in MarketRecord
    BY DEF VerdictInv
<1> DEFINE r == [market[id] EXCEPT !.resolved = TRUE, !.outcome = outcome]
           c == [market[id] EXCEPT !.cancelled = TRUE]
<1>2. r \in MarketRecord /\ r.endTime = market[id].endTime /\ SameTotals(r, market[id])
    BY <1>1 DEF MarketRecord, SameTotals
<1>3. c \in MarketRecord /\ c.endTime = market[id].endTime /\ SameTotals(c, market[id])
    BY <1>1 DEF MarketRecord, SameTotals
<1>4. CASE MarketResolvedTo(id, outcome)
    <2>1. market' = [market EXCEPT ![id] = r]
        BY <1>4 DEF MarketResolvedTo, VerdictInv
    <2> HIDE DEF r
    <2> QED BY <1>2, <2>1 DEF MarketStepOf
<1>5. CASE market' = [market EXCEPT ![id].cancelled = TRUE]
    <2>1. market' = [market EXCEPT ![id] = c]
        BY <1>5
    <2> HIDE DEF c
    <2> QED BY <1>3, <2>1 DEF MarketStepOf
<1> QED BY <1>4, <1>5

-----------------------------------------------------------------------------
(* Every step is one of the four *)

AnyStep ==
    \/ QuietStep
    \/ InitializeStep
    \/ CreateStep
    \/ \E id \in MarketIds : MarketStepOf(id)

LEMMA AdminStepIsOneOfThem ==
    ASSUME VerdictInv, AdminStep
    PROVE  AnyStep
<1>1. Deployer # Nobody
    BY TokenConstants, LeaderboardConstants
<1>2. CASE RegistryDeployed
    BY <1>2 DEF RegistryDeployed, marketVars, roleVars, bookVars, QuietStep, Kept, AnyStep
<1>3. CASE MarketDeployed
    BY <1>3 DEF MarketDeployed, MarketInitialize, InitializeStep, AnyStep
<1>4. CASE \E d \in Durations : MayCreate /\ CreateMarket(Deployer, d)
    <2>1. PICK d \in Durations : MayCreate /\ CreateMarket(Deployer, d)
        BY <1>4
    <2>2. d \in Nat /\ MaxMarkets \in Nat
        BY MarketConstants
    <2>3. CreateStep
        BY <1>1, <2>1, <2>2 DEF MayCreate, CreateMarket, CreateStep, roleVars
    <2> QED BY <2>3 DEF AnyStep
<1>5. CASE \E c \in ConfigChoices : SetConfig(Deployer, c.referral, c.leaderboard, c.xlm)
    <2>1. PICK c \in ConfigChoices : SetConfig(Deployer, c.referral, c.leaderboard, c.xlm)
        BY <1>5
    <2>2. mktCfg.admin = Deployer /\ mktCfg'.admin = Deployer /\ Kept /\ now' = now
        BY <2>1 DEF SetConfig, bookVars, Kept
    <2> QED BY <1>1, <2>2 DEF QuietStep, AnyStep
<1>6. CASE \E o \in Officials : AddResolver(Deployer, o) \/ RemoveResolver(Deployer, o)
    BY <1>6 DEF AddResolver, RemoveResolver, SetResolvers, bookVars, QuietStep, Kept, AnyStep
<1>7. CASE \E c \in Collectors :
               AddFeeRecipient(Deployer, c) \/ RemoveFeeRecipient(Deployer, c)
    BY <1>7 DEF AddFeeRecipient, RemoveFeeRecipient, SetRecipients, bookVars,
                QuietStep, Kept, AnyStep
<1>8. CASE \E id \in MarketIds : CancelMarket(Deployer, id)
    <2>1. PICK id \in MarketIds : CancelMarket(Deployer, id)
        BY <1>8
    <2>2. /\ Exists(id) /\ Undecided(id)
          /\ market' = [market EXCEPT ![id].cancelled = TRUE]
          /\ marketCount' = marketCount /\ now' = now /\ mktCfg' = mktCfg
        BY <2>1 DEF CancelMarket, MarketCancelledNow, MayCancel, roleVars
    <2>3. MarketStepOf(id)
        BY <2>2, DecisionIsMarketStep
    <2> QED BY <2>3 DEF AnyStep
<1>9. CASE \E c \in ConfigChoices : RegistryXlmSet(c.xlm)
    BY <1>9 DEF RegistryXlmSet, marketVars, roleVars, bookVars, QuietStep, Kept, AnyStep
<1> QED BY <1>2, <1>3, <1>4, <1>5, <1>6, <1>7, <1>8, <1>9 DEF AdminStep

LEMMA CallerStepIsOneOfThem ==
    ASSUME VerdictInv, CallerStep
    PROVE  AnyStep
<1>1. CASE \E u \in Bettors, r \in Referrers : Register(u, r)
    BY <1>1 DEF Register, marketVars, roleVars, bookVars, QuietStep, Kept, AnyStep
<1>2. CASE \E u \in Bettors, id \in MarketIds, y \in BOOLEAN, a \in BetAmounts :
               PlaceBet(u, id, y, a)
    BY <1>2, BetIsMarketStep DEF AnyStep
<1>3. CASE \E u \in Bettors, id \in MarketIds : CancelRefund(u, id)
    BY <1>3 DEF CancelRefund, roleVars, QuietStep, Kept, AnyStep
<1>4. CASE \E u \in Bettors, id \in MarketIds : Claim(u, id)
    BY <1>4 DEF Claim, roleVars, QuietStep, Kept, AnyStep
<1>5. CASE \E c \in {Deployer} \cup Officials, id \in MarketIds, o \in BOOLEAN :
               ResolveMarket(c, id, o)
    <2>1. PICK c \in {Deployer} \cup Officials, id \in MarketIds, o \in BOOLEAN :
               ResolveMarket(c, id, o)
        BY <1>5
    <2>2. /\ Exists(id) /\ Undecided(id) /\ MarketResolvedTo(id, o)
          /\ marketCount' = marketCount /\ now' = now /\ mktCfg' = mktCfg
        BY <2>1 DEF ResolveMarket, roleVars
    <2>3. MarketStepOf(id)
        BY <2>2, DecisionIsMarketStep
    <2> QED BY <2>3 DEF AnyStep
<1>6. CASE \E c \in {Deployer} \cup Collectors, t \in Treasuries : WithdrawFees(c, t)
    BY <1>6 DEF WithdrawFees, roleVars, QuietStep, Kept, AnyStep
<1> QED BY <1>1, <1>2, <1>3, <1>4, <1>5, <1>6 DEF CallerStep

LEMMA StepIsOneOfThem ==
    ASSUME VerdictInv, [MarketNext]_allMarketVars
    PROVE  AnyStep
<1>1. CASE AdminStep
    BY <1>1, AdminStepIsOneOfThem
<1>2. CASE CallerStep
    BY <1>2, CallerStepIsOneOfThem
<1>3. CASE Tick
    BY <1>3 DEF Tick, roleVars, bookVars, QuietStep, Kept, AnyStep
<1>4. CASE UNCHANGED allMarketVars
    BY <1>4 DEF allMarketVars, marketVars, roleVars, bookVars, QuietStep, Kept, AnyStep
<1> QED BY <1>1, <1>2, <1>3, <1>4 DEF MarketNext

-----------------------------------------------------------------------------
(* The invariant and the theorem *)

LEMMA VerdictInvInit ==
    ASSUME DeployedInit
    PROVE  VerdictInv
<1>1. /\ now = 0 /\ marketCount = 0
      /\ market = [id \in MarketIds |-> NewMarket(0)]
    BY DEF DeployedInit, MarketInit
<1>2. NewMarket(0) \in MarketRecord
    BY DEF NewMarket, MarketRecord
<1>3. \A id \in MarketIds : Undecided(id)
    BY <1>1 DEF Undecided, NewMarket
<1>4. MaxMarkets \in Nat
    BY MarketConstants
<1> QED BY <1>1, <1>2, <1>3, <1>4 DEF VerdictInv

\* In one step: the invariant is kept, and every decided market as it was.
LEMMA StepKeepsVerdicts ==
    ASSUME VerdictInv, AnyStep
    PROVE  /\ VerdictInv'
           /\ \A id \in MarketIds : ~Undecided(id) => market'[id] = market[id]
<1>1. /\ now \in Nat /\ MaxMarkets \in Nat /\ marketCount \in 0 .. MaxMarkets
      /\ market \in [MarketIds -> MarketRecord]
      /\ \A id \in MarketIds : id > marketCount => Undecided(id)
      /\ mktCfg.admin = Nobody => marketCount = 0
      /\ MarketIds \subseteq Nat
    BY MarketConstants DEF VerdictInv, MarketIds
<1>2. CASE QuietStep
    <2>1. now' \in Nat /\ (mktCfg'.admin = Nobody => marketCount' = 0)
        BY <1>1, <1>2 DEF QuietStep, Kept
    <2> QED BY <1>1, <1>2, <2>1 DEF QuietStep, Kept, VerdictInv, Undecided
<1>3. CASE InitializeStep
    BY <1>1, <1>3 DEF InitializeStep, VerdictInv, Undecided
<1>4. CASE CreateStep
    <2>1. PICK d \in Nat : market' = [market EXCEPT ![marketCount + 1] = NewMarket(now + d)]
        BY <1>4 DEF CreateStep
    <2>2. /\ marketCount < MaxMarkets /\ marketCount' = marketCount + 1
          /\ now' = now /\ mktCfg' = mktCfg /\ mktCfg.admin # Nobody
        BY <1>4 DEF CreateStep
    <2>3. NewMarket(now + d) \in MarketRecord
        BY <1>1 DEF NewMarket, MarketRecord
    <2>4. market' \in [MarketIds -> MarketRecord]
        BY <1>1, <2>1, <2>3
    <2>5. \A id \in MarketIds : id # marketCount + 1 => market'[id] = market[id]
        BY <1>1, <2>1
    <2>6. \A id \in MarketIds : ~Undecided(id) => market'[id] = market[id]
        BY <1>1, <2>5
    <2>7. \A id \in MarketIds : id > marketCount' => Undecided(id)'
        BY <1>1, <2>2, <2>5 DEF Undecided
    <2> QED BY <1>1, <2>2, <2>4, <2>6, <2>7 DEF VerdictInv
<1>5. CASE \E id \in MarketIds : MarketStepOf(id)
    <2>1. PICK id \in MarketIds : MarketStepOf(id)
        BY <1>5
    <2>2. PICK m \in MarketRecord : market' = [market EXCEPT ![id] = m]
        BY <2>1 DEF MarketStepOf
    <2>3. /\ id <= marketCount /\ Undecided(id)
          /\ marketCount' = marketCount /\ now' = now /\ mktCfg' = mktCfg
        BY <1>1, <2>1 DEF MarketStepOf, Exists
    <2>4. market' \in [MarketIds -> MarketRecord]
        BY <1>1, <2>2
    <2>5. \A other \in MarketIds \ {id} : market'[other] = market[other]
        BY <1>1, <2>2
    <2>6. \A other \in MarketIds : ~Undecided(other) => market'[other] = market[other]
        BY <2>3, <2>5
    <2>7. \A other \in MarketIds : other > marketCount' => Undecided(other)'
        BY <1>1, <2>3, <2>5 DEF Undecided
    <2> QED BY <1>1, <2>3, <2>4, <2>6, <2>7 DEF VerdictInv
<1> QED BY <1>2, <1>3, <1>4, <1>5 DEF AnyStep

\* The invariant the verdicts rest on.
THEOREM VerdictInvariant == MarketSpec => []VerdictInv
<1>1. DeployedInit => VerdictInv
    BY VerdictInvInit
<1>2. VerdictInv /\ [MarketNext]_allMarketVars => VerdictInv'
    BY StepIsOneOfThem, StepKeepsVerdicts
<1> QED BY <1>1, <1>2, PTL DEF MarketSpec

\* No call of the market contract changes the verdict or the totals of a market
\* that is resolved or cancelled.
THEOREM VerdictsAreFinal == MarketSpec => VerdictIsFinal
<1> DEFINE Final == \A id \in MarketIds : ~Undecided(id) => market'[id] = market[id]
<1>1. VerdictInv /\ [MarketNext]_allMarketVars => [Final]_allMarketVars
    BY StepIsOneOfThem, StepKeepsVerdicts
<1> QED BY <1>1, VerdictInvariant, PTL DEF MarketSpec, VerdictIsFinal

-----------------------------------------------------------------------------
(* The books *)

BetEntry == [net : Nat, gross : Nat, isYes : BOOLEAN, claimed : BOOLEAN,
             count : 0 .. MaxBetsPerUser]

\* What BooksAgree says of one market.
Agrees(id) ==
    /\ market[id].totalYes = SumNet(id, Backers(id, TRUE))
    /\ market[id].totalNo  = SumNet(id, Backers(id, FALSE))
    /\ {bettors[id][i] : i \in DOMAIN bettors[id]} = Backers(id, TRUE) \cup Backers(id, FALSE)
    /\ Len(bettors[id]) = market[id].betCount
    /\ market[id].betCount = Cardinality(Backers(id, TRUE) \cup Backers(id, FALSE))

\* BooksAgree is not inductive: a first bet adds to the totals whatever net the
\* entry already had, and create_market starts a market's totals at 0 without
\* looking at its bets.
EntriesOK(id) ==
    /\ \A u \in Address : bet[id][u].count = 0 =>
          bet[id][u].net = 0 /\ bet[id][u].gross = 0 /\ ~bet[id][u].claimed
    /\ \A u \in Address : bet[id][u].claimed => market[id].resolved
    /\ id > marketCount => \A u \in Address : bet[id][u].count = 0

BooksInv ==
    /\ VerdictInv
    /\ bet \in [MarketIds -> [Address -> BetEntry]]
    /\ bettors \in [MarketIds -> Seq(Address)]
    /\ \A id \in MarketIds : EntriesOK(id) /\ Agrees(id)

-----------------------------------------------------------------------------
(* What a step does to the books *)

EntriesKept == bet' = bet /\ bettors' = bettors

DecisionOf(id) == MarketStepOf(id) /\ SameTotals(market'[id], market[id])

\* A claim or a refund marks an entry.
EntryStep(u, id) ==
    /\ market' = market /\ marketCount' = marketCount /\ bettors' = bettors
    /\ now' = now /\ mktCfg' = mktCfg
    /\ \E b \in BetEntry :
          /\ bet' = [bet EXCEPT ![id][u] = b]
          /\ b.net = bet[id][u].net /\ b.isYes = bet[id][u].isYes
          /\ b.count = bet[id][u].count
          /\ b.count = 0 => b.gross = 0 /\ ~b.claimed
          /\ b.claimed => market[id].resolved

BookStep ==
    \/ EntriesKept /\ (QuietStep \/ InitializeStep \/ CreateStep)
    \/ EntriesKept /\ \E id \in MarketIds : DecisionOf(id)
    \/ \E u \in Address, id \in MarketIds : EntryStep(u, id)
    \/ \E u \in Bettors, id \in MarketIds, y \in BOOLEAN, a \in BetAmounts : PlaceBet(u, id, y, a)

LEMMA DecisionIsDecisionOf ==
    ASSUME VerdictInv, NEW id \in MarketIds, NEW outcome \in BOOLEAN,
           Exists(id), Undecided(id),
           \/ MarketResolvedTo(id, outcome)
           \/ market' = [market EXCEPT ![id].cancelled = TRUE],
           marketCount' = marketCount, now' = now, mktCfg' = mktCfg
    PROVE  DecisionOf(id)
<1>1. MarketStepOf(id)
    BY DecisionIsMarketStep
<1>2. market \in [MarketIds -> MarketRecord]
    BY DEF VerdictInv
<1>3. SameTotals(market'[id], market[id])
    BY <1>2 DEF MarketResolvedTo, SameTotals, MarketRecord
<1> QED BY <1>1, <1>3 DEF DecisionOf

LEMMA BookTypes ==
    ASSUME BooksInv, NEW id \in MarketIds, NEW u \in Address
    PROVE  /\ bet[id][u] \in BetEntry
           /\ bet[id][u].net \in Nat /\ bet[id][u].gross \in Nat /\ bet[id][u].count \in Nat
           /\ bet[id][u].isYes \in BOOLEAN /\ bet[id][u].claimed \in BOOLEAN
           /\ market[id] \in MarketRecord
           /\ market[id].totalYes \in Nat /\ market[id].totalNo \in Nat
           /\ market[id].betCount \in Nat
<1>1. bet[id][u] \in BetEntry /\ market[id] \in MarketRecord
    BY DEF BooksInv, VerdictInv
<1>2. MaxBetsPerUser \in Nat
    BY MarketConstants
<1> QED BY <1>1, <1>2 DEF BetEntry, MarketRecord

LEMMA AdminStepIsBookStep ==
    ASSUME BooksInv, AdminStep
    PROVE  BookStep
<1>1. Deployer # Nobody /\ VerdictInv
    BY TokenConstants, LeaderboardConstants DEF BooksInv
<1>2. CASE RegistryDeployed
    BY <1>2 DEF RegistryDeployed, marketVars, roleVars, bookVars, QuietStep, Kept,
                BookStep, EntriesKept
<1>3. CASE MarketDeployed
    BY <1>3 DEF MarketDeployed, MarketInitialize, InitializeStep, BookStep, EntriesKept
<1>4. CASE \E d \in Durations : MayCreate /\ CreateMarket(Deployer, d)
    <2>1. PICK d \in Durations : MayCreate /\ CreateMarket(Deployer, d)
        BY <1>4
    <2>2. d \in Nat /\ MaxMarkets \in Nat
        BY MarketConstants
    <2>3. CreateStep
        BY <1>1, <2>1, <2>2 DEF MayCreate, CreateMarket, CreateStep, roleVars
    <2> QED BY <2>1, <2>3 DEF CreateMarket, BookStep, EntriesKept
<1>5. CASE \E c \in ConfigChoices : SetConfig(Deployer, c.referral, c.leaderboard, c.xlm)
    <2>1. PICK c \in ConfigChoices : SetConfig(Deployer, c.referral, c.leaderboard, c.xlm)
        BY <1>5
    <2>2. /\ mktCfg.admin = Deployer /\ mktCfg'.admin = Deployer /\ Kept /\ now' = now
          /\ EntriesKept
        BY <2>1 DEF SetConfig, bookVars, Kept, EntriesKept
    <2> QED BY <1>1, <2>2 DEF QuietStep, BookStep
<1>6. CASE \E o \in Officials : AddResolver(Deployer, o) \/ RemoveResolver(Deployer, o)
    BY <1>6 DEF AddResolver, RemoveResolver, SetResolvers, bookVars, QuietStep, Kept,
                BookStep, EntriesKept
<1>7. CASE \E c \in Collectors :
               AddFeeRecipient(Deployer, c) \/ RemoveFeeRecipient(Deployer, c)
    BY <1>7 DEF AddFeeRecipient, RemoveFeeRecipient, SetRecipients, bookVars,
                QuietStep, Kept, BookStep, EntriesKept
<1>8. CASE \E id \in MarketIds : CancelMarket(Deployer, id)
    <2>1. PICK id \in MarketIds : CancelMarket(Deployer, id)
        BY <1>8
    <2>2. /\ Exists(id) /\ Undecided(id)
          /\ market' = [market EXCEPT ![id].cancelled = TRUE]
          /\ marketCount' = marketCount /\ now' = now /\ mktCfg' = mktCfg /\ EntriesKept
        BY <2>1 DEF CancelMarket, MarketCancelledNow, MayCancel, roleVars, EntriesKept
    <2>3. DecisionOf(id)
        BY <1>1, <2>2, DecisionIsDecisionOf
    <2> QED BY <2>2, <2>3 DEF BookStep
<1>9. CASE \E c \in ConfigChoices : RegistryXlmSet(c.xlm)
    BY <1>9 DEF RegistryXlmSet, marketVars, roleVars, bookVars, QuietStep, Kept,
                BookStep, EntriesKept
<1> QED BY <1>2, <1>3, <1>4, <1>5, <1>6, <1>7, <1>8, <1>9 DEF AdminStep

LEMMA ClaimIsEntryStep ==
    ASSUME BooksInv, NEW u \in Bettors, NEW id \in MarketIds, Claim(u, id)
    PROVE  EntryStep(u, id)
<1> DEFINE b == [bet[id][u] EXCEPT !.claimed = TRUE]
<1>1. u \in Address
    BY MarketConstants
<1>2. bet[id][u] \in BetEntry /\ bet[id][u].count \in Nat /\ bet[id] \in [Address -> BetEntry]
    BY <1>1, BookTypes DEF BooksInv
<1>3. /\ b \in BetEntry /\ b.net = bet[id][u].net /\ b.isYes = bet[id][u].isYes
      /\ b.count = bet[id][u].count
    BY <1>2 DEF BetEntry
<1>4. market[id].resolved /\ bet[id][u].count > 0
    BY DEF Claim, MayClaim
<1>5. bet' = [bet EXCEPT ![id][u] = b]
    BY DEF Claim
<1> HIDE DEF b
<1>6. /\ market' = market /\ marketCount' = marketCount /\ bettors' = bettors
      /\ now' = now /\ mktCfg' = mktCfg
    BY DEF Claim, roleVars
<1>7. b.count # 0 /\ market[id].resolved
    BY <1>2, <1>3, <1>4
<1> QED BY <1>3, <1>5, <1>6, <1>7 DEF EntryStep

LEMMA RefundIsEntryStep ==
    ASSUME BooksInv, NEW u \in Bettors, NEW id \in MarketIds, CancelRefund(u, id)
    PROVE  EntryStep(u, id)
<1> DEFINE b == [bet[id][u] EXCEPT !.gross = 0]
<1>1. u \in Address
    BY MarketConstants
<1>2. bet[id][u] \in BetEntry /\ EntriesOK(id)
    BY <1>1, BookTypes DEF BooksInv
<1>3. /\ b \in BetEntry /\ b.net = bet[id][u].net /\ b.isYes = bet[id][u].isYes
      /\ b.count = bet[id][u].count /\ b.gross = 0 /\ b.claimed = bet[id][u].claimed
    BY <1>2 DEF BetEntry
<1>4. bet' = [bet EXCEPT ![id][u] = b]
    BY DEF CancelRefund
<1> HIDE DEF b
<1>5. /\ market' = market /\ marketCount' = marketCount /\ bettors' = bettors
      /\ now' = now /\ mktCfg' = mktCfg
    BY DEF CancelRefund, roleVars
<1>6. /\ bet[id][u].count = 0 => ~bet[id][u].claimed
      /\ bet[id][u].claimed => market[id].resolved
    BY <1>1, <1>2 DEF EntriesOK
<1>7. (b.count = 0 => b.gross = 0 /\ ~b.claimed) /\ (b.claimed => market[id].resolved)
    BY <1>3, <1>6
<1> QED BY <1>3, <1>4, <1>5, <1>7 DEF EntryStep

LEMMA CallerStepIsBookStep ==
    ASSUME BooksInv, CallerStep
    PROVE  BookStep
<1>1. CASE \E u \in Bettors, r \in Referrers : Register(u, r)
    BY <1>1 DEF Register, marketVars, roleVars, bookVars, QuietStep, Kept, BookStep, EntriesKept
<1>2. CASE \E u \in Bettors, id \in MarketIds, y \in BOOLEAN, a \in BetAmounts :
               PlaceBet(u, id, y, a)
    BY <1>2 DEF BookStep
<1>3. CASE \E u \in Bettors, id \in MarketIds : CancelRefund(u, id)
    BY <1>3, RefundIsEntryStep, MarketConstants DEF BookStep
<1>4. CASE \E u \in Bettors, id \in MarketIds : Claim(u, id)
    BY <1>4, ClaimIsEntryStep, MarketConstants DEF BookStep
<1>5. CASE \E c \in {Deployer} \cup Officials, id \in MarketIds, o \in BOOLEAN :
               ResolveMarket(c, id, o)
    <2>1. PICK c \in {Deployer} \cup Officials, id \in MarketIds, o \in BOOLEAN :
               ResolveMarket(c, id, o)
        BY <1>5
    <2>2. /\ Exists(id) /\ Undecided(id) /\ MarketResolvedTo(id, o) /\ EntriesKept
          /\ marketCount' = marketCount /\ now' = now /\ mktCfg' = mktCfg
        BY <2>1 DEF ResolveMarket, roleVars, EntriesKept
    <2>3. DecisionOf(id)
        BY <2>2, DecisionIsDecisionOf DEF BooksInv
    <2> QED BY <2>2, <2>3 DEF BookStep
<1>6. CASE \E c \in {Deployer} \cup Collectors, t \in Treasuries : WithdrawFees(c, t)
    BY <1>6 DEF WithdrawFees, roleVars, QuietStep, Kept, BookStep, EntriesKept
<1> QED BY <1>1, <1>2, <1>3, <1>4, <1>5, <1>6 DEF CallerStep

LEMMA StepIsBookStep ==
    ASSUME BooksInv, [MarketNext]_allMarketVars
    PROVE  BookStep
<1>1. CASE AdminStep
    BY <1>1, AdminStepIsBookStep
<1>2. CASE CallerStep
    BY <1>2, CallerStepIsBookStep
<1>3. CASE Tick
    BY <1>3 DEF Tick, roleVars, bookVars, QuietStep, Kept, BookStep, EntriesKept
<1>4. CASE UNCHANGED allMarketVars
    BY <1>4 DEF allMarketVars, marketVars, roleVars, bookVars, QuietStep, Kept,
                BookStep, EntriesKept
<1> QED BY <1>1, <1>2, <1>3, <1>4 DEF MarketNext

-----------------------------------------------------------------------------
(* What a bet does to its market *)

\* A bet changes its bettor's entry on one undecided market that has not expired.
BetEffect(user, id, isYes, amount) ==
    /\ user \in Address /\ amount \in Nat /\ Net(amount) \in Nat
    /\ Exists(id) /\ Undecided(id) /\ ~Expired(id)
    /\ bet[id][user].count < MaxBetsPerUser
    /\ bet[id][user].count > 0 => bet[id][user].isYes = isYes
    /\ bet'[id][user].net = bet[id][user].net + Net(amount)
    /\ bet'[id][user].gross = bet[id][user].gross + amount
    /\ bet'[id][user].count = bet[id][user].count + 1
    /\ bet'[id][user].isYes = isYes
    /\ bet'[id][user].claimed = bet[id][user].claimed
    /\ \A u \in Address \ {user} : bet'[id][u] = bet[id][u]
    /\ \A other \in MarketIds \ {id} : bet'[other] = bet[other]
    /\ bet' \in [MarketIds -> [Address -> BetEntry]]

LEMMA BetFacts ==
    ASSUME BooksInv, NEW user \in Bettors, NEW id \in MarketIds, NEW isYes \in BOOLEAN,
           NEW amount \in BetAmounts, PlaceBet(user, id, isYes, amount)
    PROVE  BetEffect(user, id, isYes, amount)
<1> DEFINE e == Increased(bet[id][user], isYes, amount)
<1>1. user \in Address /\ amount \in Nat /\ Net(amount) \in Nat /\ MaxBetsPerUser \in Nat \ {0}
    BY MarketConstants, NetIsNatural
<1>2. Exists(id) /\ Undecided(id) /\ ~Expired(id) /\ MayBetAgain(user, id, isYes)
    BY DEF PlaceBet, BetAccepted
<1>3. /\ bet[id][user] \in BetEntry /\ bet[id][user].net \in Nat
      /\ bet[id][user].gross \in Nat /\ bet[id][user].count \in Nat
    BY <1>1, BookTypes
<1>4. /\ bet[id][user].count < MaxBetsPerUser
      /\ bet[id][user].count > 0 => bet[id][user].isYes = isYes
    BY <1>1, <1>2, <1>3 DEF MayBetAgain
<1>5. /\ e.net = bet[id][user].net + Net(amount) /\ e.gross = bet[id][user].gross + amount
      /\ e.count = bet[id][user].count + 1 /\ e.isYes = isYes /\ e.claimed = bet[id][user].claimed
    BY <1>3 DEF BetEntry, Increased
<1>6. e \in BetEntry
    <2>1. /\ bet[id][user].net + Net(amount) \in Nat /\ bet[id][user].gross + amount \in Nat
          /\ bet[id][user].count + 1 \in 0 .. MaxBetsPerUser
        BY <1>1, <1>3, <1>4
    <2> QED BY <1>3, <2>1 DEF BetEntry, Increased
<1>7. bet' = [bet EXCEPT ![id][user] = e]
    BY DEF PlaceBet, BetRecorded
<1>8. bet \in [MarketIds -> [Address -> BetEntry]]
    BY DEF BooksInv
<1> HIDE DEF e
<1>9. /\ bet'[id][user] = e
      /\ \A u \in Address \ {user} : bet'[id][u] = bet[id][u]
      /\ \A other \in MarketIds \ {id} : bet'[other] = bet[other]
      /\ bet' \in [MarketIds -> [Address -> BetEntry]]
    BY <1>1, <1>6, <1>7, <1>8
<1> QED BY <1>1, <1>2, <1>4, <1>5, <1>9 DEF BetEffect

LEMMA BackersAreFinite ==
    ASSUME NEW id, NEW y
    PROVE  Backers(id, y) \subseteq Address /\ IsFiniteSet(Backers(id, y))
BY TokenConstants, FS_Subset DEF Backers

\* The bettor joins the side it bets on, unless it was on it.
LEMMA BetMovesBackers ==
    ASSUME BooksInv, NEW user \in Bettors, NEW id \in MarketIds, NEW isYes \in BOOLEAN,
           NEW amount \in BetAmounts, PlaceBet(user, id, isYes, amount), NEW y \in BOOLEAN
    PROVE  /\ Backers(id, y)' = IF y = isYes THEN Backers(id, y) \cup {user} ELSE Backers(id, y)
           /\ user \in Backers(id, y) <=> y = isYes /\ bet[id][user].count > 0
<1>1. user \in Address /\ bet[id][user].count \in Nat
    BY MarketConstants, BookTypes
<1>2. bet'[id][user].count = bet[id][user].count + 1 /\ bet'[id][user].isYes = isYes
    BY BetFacts DEF BetEffect
<1>3. bet[id][user].count > 0 => bet[id][user].isYes = isYes
    BY BetFacts DEF BetEffect
<1>4. \A u \in Address \ {user} : bet'[id][u] = bet[id][u]
    BY BetFacts DEF BetEffect
<1>5. bet'[id][user].count > 0
    BY <1>1, <1>2
<1> QED BY <1>1, <1>2, <1>3, <1>4, <1>5 DEF Backers

\* A side's net stakes grow by the net amount of a bet on it.
LEMMA BetMovesSide ==
    ASSUME BooksInv, NEW user \in Bettors, NEW id \in MarketIds, NEW isYes \in BOOLEAN,
           NEW amount \in BetAmounts, PlaceBet(user, id, isYes, amount), NEW y \in BOOLEAN
    PROVE  /\ SumNet(id, Backers(id, y)) \in Nat
           /\ SumNet(id, Backers(id, y))' = SumNet(id, Backers(id, y))
                                          + IF y = isYes THEN Net(amount) ELSE 0
<1> DEFINE f == [u \in Address |-> bet[id][u].net]
           g == [u \in Address |-> bet'[id][u].net]
           B == Backers(id, y)
<1>1. B \subseteq Address /\ IsFiniteSet(B) /\ user \in Address
    BY BackersAreFinite, MarketConstants
<1>2. \A u \in Address : f[u] \in Nat
    BY BookTypes
<1>3. /\ g[user] = f[user] + Net(amount) /\ Net(amount) \in Nat
      /\ \A u \in Address \ {user} : g[u] = f[u]
    <2>1. bet'[id][user].net = bet[id][user].net + Net(amount) /\ Net(amount) \in Nat
        BY BetFacts DEF BetEffect
    <2>2. \A u \in Address \ {user} : bet'[id][u] = bet[id][u]
        BY BetFacts DEF BetEffect
    <2> QED BY <1>1, <2>1, <2>2
<1>4. /\ SumNet(id, B) = SumFunctionOnSet(f, B)
      /\ SumNet(id, Backers(id, y))' = SumFunctionOnSet(g, Backers(id, y)')
    BY DEF SumNet
<1>5. bet[id][user].count = 0 => f[user] = 0
    BY <1>1 DEF BooksInv, EntriesOK
<1>6. /\ Backers(id, y)' = IF y = isYes THEN B \cup {user} ELSE B
      /\ user \in B <=> y = isYes /\ bet[id][user].count > 0
    BY BetMovesBackers
<1>7. bet[id][user].count \in Nat
    BY <1>1, BookTypes
<1> HIDE DEF f, g, B
<1>8. \A u \in Address : f[u] \in Int /\ g[u] \in Int
    BY <1>1, <1>2, <1>3
<1>9. SumFunctionOnSet(f, B) \in Nat
    BY <1>1, <1>2, SumIsNatural
<1>10. CASE y # isYes
    <2>1. user \notin B
        BY <1>6, <1>10
    <2>2. SumFunctionOnSet(g, B) = SumFunctionOnSet(f, B)
        BY <1>1, <1>3, <1>8, <2>1, SumsAgree
    <2> QED BY <1>4, <1>6, <1>9, <1>10, <2>2 DEF B
<1>11. CASE y = isYes /\ user \in B
    <2>1. B \cup {user} = B
        BY <1>11
    <2>2. SumFunctionOnSet(g, B) = SumFunctionOnSet(f, B) + g[user] - f[user]
        BY <1>1, <1>3, <1>8, <1>11, SumOfUpdate
    <2>3. SumFunctionOnSet(g, B) = SumFunctionOnSet(f, B) + Net(amount)
        BY <1>1, <1>2, <1>3, <1>9, <2>2
    <2> QED BY <1>4, <1>6, <1>9, <1>11, <2>1, <2>3 DEF B
<1>12. CASE y = isYes /\ user \notin B
    <2>1. f[user] = 0
        BY <1>5, <1>6, <1>7, <1>12
    <2>2. SumFunctionOnSet(g, B) = SumFunctionOnSet(f, B)
        BY <1>1, <1>3, <1>8, <1>12, SumsAgree
    <2>3. SumFunctionOnSet(g, B \cup {user}) = SumFunctionOnSet(g, B) + g[user]
        BY <1>1, <1>8, <1>12, SumOfOneMore
    <2>4. SumFunctionOnSet(g, B \cup {user}) = SumFunctionOnSet(f, B) + Net(amount)
        BY <1>3, <1>9, <2>1, <2>2, <2>3
    <2> QED BY <1>4, <1>6, <1>9, <1>12, <2>4 DEF B
<1> QED BY <1>10, <1>11, <1>12

Elements(s) == {s[i] : i \in DOMAIN s}

\* The bettor index grows by exactly the bettors that are new to the market.
LEMMA AppendedElements ==
    ASSUME NEW s \in Seq(Address), NEW x \in Address, NEW t, t = Append(s, x)
    PROVE  /\ t \in Seq(Address) /\ Len(t) = Len(s) + 1
           /\ Elements(t) = Elements(s) \cup {x}
<1>1. /\ t \in Seq(Address) /\ Len(t) = Len(s) + 1 /\ DOMAIN t = 1 .. Len(s) + 1
      /\ DOMAIN s = 1 .. Len(s) /\ Len(s) \in Nat
    OBVIOUS
<1>2. t[Len(s) + 1] = x /\ \A i \in 1 .. Len(s) : t[i] = s[i]
    OBVIOUS
<1>3. {t[i] : i \in 1 .. Len(s) + 1} = {s[i] : i \in 1 .. Len(s)} \cup {x}
    <2>1. ASSUME NEW i \in 1 .. Len(s) + 1
          PROVE  t[i] \in {s[j] : j \in 1 .. Len(s)} \cup {x}
        <3>1. i = Len(s) + 1 \/ i \in 1 .. Len(s)
            BY <1>1
        <3> QED BY <1>2, <3>1
    <2>2. ASSUME NEW i \in 1 .. Len(s)
          PROVE  s[i] \in {t[j] : j \in 1 .. Len(s) + 1}
        <3>1. i \in 1 .. Len(s) + 1
            BY <1>1
        <3> QED BY <1>2, <3>1
    <2>3. x \in {t[j] : j \in 1 .. Len(s) + 1}
        <3>1. Len(s) + 1 \in 1 .. Len(s) + 1
            BY <1>1
        <3> QED BY <1>2, <3>1
    <2> QED BY <2>1, <2>2, <2>3
<1> QED BY <1>1, <1>3 DEF Elements

-----------------------------------------------------------------------------
(* The books stay right *)

LEMMA BookStepIsAnyStep ==
    ASSUME BooksInv, BookStep
    PROVE  AnyStep
<1>1. CASE EntriesKept /\ (QuietStep \/ InitializeStep \/ CreateStep)
    BY <1>1 DEF AnyStep
<1>2. CASE EntriesKept /\ \E id \in MarketIds : DecisionOf(id)
    BY <1>2 DEF AnyStep, DecisionOf
<1>3. CASE \E u \in Address, id \in MarketIds : EntryStep(u, id)
    BY <1>3 DEF EntryStep, AnyStep, QuietStep, Kept
<1>4. CASE \E u \in Bettors, id \in MarketIds, y \in BOOLEAN, a \in BetAmounts :
               PlaceBet(u, id, y, a)
    BY <1>4, BetIsMarketStep DEF AnyStep, BooksInv
<1> QED BY <1>1, <1>2, <1>3, <1>4 DEF BookStep

\* A market's books agree as long as its bets, its index and its totals stay.
LEMMA AgreementKept ==
    ASSUME NEW id \in MarketIds, Agrees(id),
           \A u \in Address : /\ bet'[id][u].net = bet[id][u].net
                              /\ bet'[id][u].isYes = bet[id][u].isYes
                              /\ bet'[id][u].count = bet[id][u].count,
           bettors'[id] = bettors[id], SameTotals(market'[id], market[id])
    PROVE  Agrees(id)'
<1>1. /\ Backers(id, TRUE)' = Backers(id, TRUE)
      /\ Backers(id, FALSE)' = Backers(id, FALSE)
    BY DEF Backers
<1>2. [u \in Address |-> bet'[id][u].net] = [u \in Address |-> bet[id][u].net]
    OBVIOUS
<1>3. /\ SumNet(id, Backers(id, TRUE))' = SumNet(id, Backers(id, TRUE))
      /\ SumNet(id, Backers(id, FALSE))' = SumNet(id, Backers(id, FALSE))
    BY <1>1, <1>2 DEF SumNet
<1>4. (Backers(id, TRUE) \cup Backers(id, FALSE))' = Backers(id, TRUE) \cup Backers(id, FALSE)
    BY <1>1
<1>5. /\ market'[id].totalYes = market[id].totalYes /\ market'[id].totalNo = market[id].totalNo
      /\ market'[id].betCount = market[id].betCount
    BY DEF SameTotals
<1> QED BY <1>3, <1>4, <1>5 DEF Agrees

\* Nobody has bet on a market that create_market is about to write.
LEMMA UnusedMarketIsBlank ==
    ASSUME BooksInv, NEW id \in MarketIds, id > marketCount
    PROVE  /\ market[id].totalYes = 0 /\ market[id].totalNo = 0 /\ market[id].betCount = 0
           /\ Undecided(id)
<1>1. Agrees(id) /\ \A u \in Address : bet[id][u].count = 0
    BY DEF BooksInv, EntriesOK
<1>2. \A y : Backers(id, y) = {}
    BY <1>1 DEF Backers
<1>3. SumNet(id, {}) = 0
    BY SumOfNothing DEF SumNet
<1>4. Cardinality({} \cup {}) = 0
    <2>1. {} \cup {} = {}
        OBVIOUS
    <2> QED BY <2>1, FS_EmptySet
<1>5. market[id].totalYes = 0 /\ market[id].totalNo = 0
    BY <1>1, <1>2, <1>3 DEF Agrees
<1>6. market[id].betCount = 0
    BY <1>1, <1>2, <1>4 DEF Agrees
<1> QED BY <1>5, <1>6 DEF BooksInv, VerdictInv

LEMMA EntriesKeptKeepsBooks ==
    ASSUME BooksInv, AnyStep, EntriesKept,
           \/ QuietStep \/ InitializeStep \/ CreateStep
           \/ \E id \in MarketIds : DecisionOf(id)
    PROVE  BooksInv'
<1>1. VerdictInv' /\ \A id \in MarketIds : ~Undecided(id) => market'[id] = market[id]
    BY StepKeepsVerdicts DEF BooksInv
<1>2. /\ bet \in [MarketIds -> [Address -> BetEntry]] /\ bettors \in [MarketIds -> Seq(Address)]
      /\ market \in [MarketIds -> MarketRecord] /\ MarketIds \subseteq Nat
      /\ marketCount \in Nat /\ MaxMarkets \in Nat
    <2>1. VerdictInv /\ bet \in [MarketIds -> [Address -> BetEntry]]
          /\ bettors \in [MarketIds -> Seq(Address)]
        BY DEF BooksInv
    <2>2. market \in [MarketIds -> MarketRecord] /\ marketCount \in 0 .. MaxMarkets
        BY <2>1 DEF VerdictInv
    <2>3. MaxMarkets \in Nat /\ MarketIds \subseteq Nat
        BY MarketConstants DEF MarketIds
    <2>4. marketCount \in Nat
        BY <2>2, <2>3
    <2> QED BY <2>1, <2>2, <2>3, <2>4
<1>3. ASSUME NEW id \in MarketIds
      PROVE  SameTotals(market'[id], market[id]) /\ (id > marketCount' => id > marketCount)
    <2>1. CASE QuietStep \/ InitializeStep
        <3>1. market' = market
            BY <2>1 DEF QuietStep, InitializeStep, Kept
        <3>2. marketCount' = marketCount
            BY <2>1, <1>2 DEF QuietStep, InitializeStep, Kept, BooksInv, VerdictInv
        <3> QED BY <3>1, <3>2 DEF SameTotals
    <2>2. CASE CreateStep
        <3>1. PICK d \in Nat : market' = [market EXCEPT ![marketCount + 1] = NewMarket(now + d)]
            BY <2>2 DEF CreateStep
        <3>2. marketCount' = marketCount + 1
            BY <2>2 DEF CreateStep
        <3>3. CASE id = marketCount + 1
            <4>1. market'[id] = NewMarket(now + d) /\ id > marketCount
                BY <1>2, <3>1, <3>3
            <4> QED BY <4>1, UnusedMarketIsBlank DEF NewMarket, SameTotals
        <3>4. CASE id # marketCount + 1
            <4>1. market'[id] = market[id]
                BY <1>2, <3>1, <3>4
            <4> QED BY <1>2, <3>2, <4>1 DEF SameTotals
        <3> QED BY <3>3, <3>4
    <2>3. CASE \E other \in MarketIds : DecisionOf(other)
        <3>1. PICK other \in MarketIds : DecisionOf(other)
            BY <2>3
        <3>2. marketCount' = marketCount /\ \A i \in MarketIds \ {other} : market'[i] = market[i]
            BY <1>2, <3>1 DEF DecisionOf, MarketStepOf
        <3> QED BY <3>1, <3>2 DEF DecisionOf, SameTotals
    <2> QED BY <2>1, <2>2, <2>3
<1>4. ASSUME NEW id \in MarketIds
      PROVE  Agrees(id)'
    BY <1>3, AgreementKept DEF EntriesKept, BooksInv
<1>5. ASSUME NEW id \in MarketIds
      PROVE  EntriesOK(id)'
    <2>1. EntriesOK(id)
        BY DEF BooksInv
    <2>2. market[id].resolved => market'[id].resolved
        BY <1>1 DEF Undecided
    <2> QED BY <1>3, <2>1, <2>2 DEF EntriesOK, EntriesKept
<1> QED BY <1>1, <1>2, <1>4, <1>5 DEF EntriesKept, BooksInv

LEMMA EntryStepKeepsBooks ==
    ASSUME BooksInv, AnyStep, NEW user \in Address, NEW id \in MarketIds, EntryStep(user, id)
    PROVE  BooksInv'
<1>1. VerdictInv'
    BY StepKeepsVerdicts DEF BooksInv
<1>2. /\ bet \in [MarketIds -> [Address -> BetEntry]] /\ bettors \in [MarketIds -> Seq(Address)]
      /\ market' = market /\ marketCount' = marketCount /\ bettors' = bettors
    BY DEF BooksInv, EntryStep
<1>3. PICK b \in BetEntry :
          /\ bet' = [bet EXCEPT ![id][user] = b]
          /\ b.net = bet[id][user].net /\ b.isYes = bet[id][user].isYes
          /\ b.count = bet[id][user].count
          /\ b.count = 0 => b.gross = 0 /\ ~b.claimed
          /\ b.claimed => market[id].resolved
    BY DEF EntryStep
<1>4. bet' \in [MarketIds -> [Address -> BetEntry]]
    BY <1>2, <1>3
<1>5. \A i \in MarketIds, u \in Address : bet'[i][u] = IF i = id /\ u = user THEN b ELSE bet[i][u]
    BY <1>2, <1>3
<1>6. ASSUME NEW i \in MarketIds
      PROVE  Agrees(i)'
    <2>1. \A u \in Address : /\ bet'[i][u].net = bet[i][u].net
                             /\ bet'[i][u].isYes = bet[i][u].isYes
                             /\ bet'[i][u].count = bet[i][u].count
        BY <1>3, <1>5
    <2>2. Agrees(i) /\ SameTotals(market'[i], market[i])
        BY <1>2 DEF BooksInv, SameTotals
    <2> QED BY <1>2, <2>1, <2>2, AgreementKept
<1>7. ASSUME NEW i \in MarketIds
      PROVE  EntriesOK(i)'
    <2>1. EntriesOK(i)
        BY DEF BooksInv
    <2>2. ASSUME NEW u \in Address
          PROVE  /\ bet'[i][u].count = bet[i][u].count
                 /\ bet'[i][u].count = 0 =>
                       bet'[i][u].net = 0 /\ bet'[i][u].gross = 0 /\ ~bet'[i][u].claimed
                 /\ bet'[i][u].claimed => market[i].resolved
        BY <1>3, <1>5, <2>1 DEF EntriesOK
    <2> QED BY <1>2, <2>1, <2>2 DEF EntriesOK
<1> QED BY <1>1, <1>2, <1>4, <1>6, <1>7 DEF BooksInv

\* A bet adds to its market's totals, and a first bet to its bettors.
LEMMA BetMovesMarket ==
    ASSUME BooksInv, NEW user \in Bettors, NEW id \in MarketIds, NEW isYes \in BOOLEAN,
           NEW amount \in BetAmounts, PlaceBet(user, id, isYes, amount)
    PROVE  /\ market'[id].totalYes = market[id].totalYes + IF isYes THEN Net(amount) ELSE 0
           /\ market'[id].totalNo  = market[id].totalNo  + IF isYes THEN 0 ELSE Net(amount)
           /\ market'[id].betCount = market[id].betCount
                                   + IF bet[id][user].count = 0 THEN 1 ELSE 0
           /\ market'[id].endTime = market[id].endTime /\ ~market'[id].resolved
           /\ ~market'[id].cancelled
           /\ \A other \in MarketIds \ {id} : market'[other] = market[other]
           /\ bettors' = IF bet[id][user].count = 0
                         THEN [bettors EXCEPT ![id] = Append(@, user)] ELSE bettors
<1> DEFINE yes == IF isYes THEN Net(amount) ELSE 0
           no  == Net(amount) - yes
           one == IF bet[id][user].count = 0 THEN 1 ELSE 0
<1>1. /\ market' = [market EXCEPT ![id].totalYes = @ + yes, ![id].totalNo = @ + no,
                                  ![id].betCount = @ + one]
      /\ bettors' = IF bet[id][user].count = 0
                    THEN [bettors EXCEPT ![id] = Append(@, user)] ELSE bettors
    BY DEF PlaceBet, BetRecorded
<1>2. Net(amount) \in Nat
    BY NetIsNatural, MarketConstants
<1>3. no = IF isYes THEN 0 ELSE Net(amount)
    BY <1>2
<1>4. market \in [MarketIds -> MarketRecord] /\ Undecided(id)
    BY BetFacts DEF BetEffect, BooksInv, VerdictInv
<1> HIDE DEF yes, no, one
<1>5. /\ market'[id].totalYes = market[id].totalYes + yes
      /\ market'[id].totalNo = market[id].totalNo + no
      /\ market'[id].betCount = market[id].betCount + one
      /\ market'[id].endTime = market[id].endTime
      /\ market'[id].resolved = market[id].resolved
      /\ market'[id].cancelled = market[id].cancelled
      /\ \A other \in MarketIds \ {id} : market'[other] = market[other]
    BY <1>1, <1>4 DEF MarketRecord
<1>6. ~market'[id].resolved /\ ~market'[id].cancelled
    BY <1>4, <1>5 DEF Undecided
<1> QED BY <1>1, <1>3, <1>5, <1>6 DEF yes, one

LEMMA BetKeepsBooks ==
    ASSUME BooksInv, AnyStep, NEW user \in Bettors, NEW id \in MarketIds, NEW isYes \in BOOLEAN,
           NEW amount \in BetAmounts, PlaceBet(user, id, isYes, amount)
    PROVE  BooksInv'
<1> DEFINE first == bet[id][user].count = 0
           B     == Backers(id, TRUE) \cup Backers(id, FALSE)
<1>1. VerdictInv' /\ \A i \in MarketIds : ~Undecided(i) => market'[i] = market[i]
    BY StepKeepsVerdicts DEF BooksInv
<1>2. /\ user \in Address /\ Net(amount) \in Nat
      /\ bet[id][user].count \in Nat /\ bet'[id][user].count = bet[id][user].count + 1
      /\ bet'[id][user].claimed = bet[id][user].claimed
      /\ \A u \in Address \ {user} : bet'[id][u] = bet[id][u]
      /\ \A other \in MarketIds \ {id} : bet'[other] = bet[other]
      /\ bet' \in [MarketIds -> [Address -> BetEntry]]
    BY BetFacts, BookTypes, MarketConstants DEF BetEffect
<1>3. /\ market'[id].totalYes = market[id].totalYes + IF isYes THEN Net(amount) ELSE 0
      /\ market'[id].totalNo  = market[id].totalNo  + IF isYes THEN 0 ELSE Net(amount)
      /\ market'[id].betCount = market[id].betCount + IF first THEN 1 ELSE 0
      /\ \A other \in MarketIds \ {id} : market'[other] = market[other]
      /\ bettors' = IF first THEN [bettors EXCEPT ![id] = Append(@, user)] ELSE bettors
    BY BetMovesMarket
<1>4. bettors \in [MarketIds -> Seq(Address)] /\ Agrees(id) /\ EntriesOK(id)
    BY DEF BooksInv
<1>5. bettors' \in [MarketIds -> Seq(Address)]
    <2>1. Append(bettors[id], user) \in Seq(Address)
        BY <1>2, <1>4, AppendedElements
    <2> QED BY <1>3, <1>4, <2>1
<1>6. Agrees(id)'
    <2>1. /\ Backers(id, TRUE)' = IF isYes THEN Backers(id, TRUE) \cup {user} ELSE Backers(id, TRUE)
          /\ Backers(id, FALSE)' = IF isYes THEN Backers(id, FALSE) ELSE Backers(id, FALSE) \cup {user}
          /\ user \in Backers(id, TRUE) <=> isYes /\ ~first
          /\ user \in Backers(id, FALSE) <=> ~isYes /\ ~first
        <3>1. /\ Backers(id, TRUE)' = IF TRUE = isYes THEN Backers(id, TRUE) \cup {user}
                                                     ELSE Backers(id, TRUE)
              /\ user \in Backers(id, TRUE) <=> TRUE = isYes /\ bet[id][user].count > 0
            BY BetMovesBackers
        <3>2. /\ Backers(id, FALSE)' = IF FALSE = isYes THEN Backers(id, FALSE) \cup {user}
                                                       ELSE Backers(id, FALSE)
              /\ user \in Backers(id, FALSE) <=> FALSE = isYes /\ bet[id][user].count > 0
            BY BetMovesBackers
        <3>3. first <=> ~(bet[id][user].count > 0)
            BY <1>2
        <3>4. CASE isYes = TRUE
            BY <3>1, <3>2, <3>3, <3>4
        <3>5. CASE isYes = FALSE
            BY <3>1, <3>2, <3>3, <3>5
        <3> QED BY <3>4, <3>5
    <2>2. B' = B \cup {user} /\ (user \in B <=> ~first)
        BY <2>1
    <2>3. SumNet(id, Backers(id, TRUE))' = market'[id].totalYes
        <3>1. market[id].totalYes = SumNet(id, Backers(id, TRUE))
            BY <1>4 DEF Agrees
        <3>2. SumNet(id, Backers(id, TRUE))' = SumNet(id, Backers(id, TRUE))
                                             + IF TRUE = isYes THEN Net(amount) ELSE 0
            BY BetMovesSide
        <3> QED BY <1>2, <1>3, <3>1, <3>2
    <2>4. SumNet(id, Backers(id, FALSE))' = market'[id].totalNo
        <3>1. market[id].totalNo = SumNet(id, Backers(id, FALSE))
            BY <1>4 DEF Agrees
        <3>2. SumNet(id, Backers(id, FALSE))' = SumNet(id, Backers(id, FALSE))
                                              + IF FALSE = isYes THEN Net(amount) ELSE 0
            BY BetMovesSide
        <3> QED BY <1>2, <1>3, <3>1, <3>2
    <2>5. IsFiniteSet(B) /\ Cardinality(B) \in Nat
        BY BackersAreFinite, FS_Union, FS_CardinalityType
    <2>6. /\ Elements(bettors[id]) = B
          /\ Len(bettors[id]) = market[id].betCount /\ market[id].betCount = Cardinality(B)
        BY <1>4 DEF Agrees, Elements
    <2> HIDE DEF first, B
    <2>7. /\ Elements(bettors'[id]) = B'
          /\ Len(bettors'[id]) = market'[id].betCount
          /\ market'[id].betCount = Cardinality(B')
        <3>1. CASE first
            <4>1. bettors'[id] = Append(bettors[id], user) /\ bettors[id] \in Seq(Address)
                BY <1>3, <1>4, <3>1
            <4>2. /\ Len(bettors'[id]) = Len(bettors[id]) + 1
                  /\ Elements(bettors'[id]) = Elements(bettors[id]) \cup {user}
                BY <1>2, <4>1, AppendedElements
            <4>3. Cardinality(B \cup {user}) = Cardinality(B) + 1
                BY <2>2, <2>5, <3>1, FS_AddElement
            <4>4. market'[id].betCount = market[id].betCount + 1
                BY <1>3, <3>1
            <4> QED BY <2>2, <2>6, <4>2, <4>3, <4>4
        <3>2. CASE ~first
            <4>1. B' = B /\ bettors' = bettors
                BY <1>3, <2>2, <3>2
            <4>2. market'[id].betCount = market[id].betCount
                BY <1>3, <2>5, <2>6, <3>2
            <4> QED BY <2>6, <4>1, <4>2
        <3> QED BY <3>1, <3>2
    <2> QED BY <2>3, <2>4, <2>7 DEF Agrees, B, Elements
<1>7. ASSUME NEW other \in MarketIds \ {id}
      PROVE  Agrees(other)'
    <2>1. Agrees(other) /\ bettors'[other] = bettors[other]
        BY <1>3, <1>4 DEF BooksInv
    <2> QED BY <1>2, <1>3, <2>1, AgreementKept DEF SameTotals
<1>8. ASSUME NEW i \in MarketIds
      PROVE  EntriesOK(i)'
    <2>1. EntriesOK(i) /\ marketCount' = marketCount
        BY DEF BooksInv, PlaceBet
    <2>2. CASE i = id
        <3>1. ~(id > marketCount) /\ ~market[id].resolved
            <4>1. Exists(id) /\ Undecided(id)
                BY BetFacts DEF BetEffect
            <4>2. marketCount \in Nat /\ id \in Nat /\ MaxMarkets \in Nat
                BY MarketConstants DEF BooksInv, VerdictInv, MarketIds
            <4> QED BY <4>1, <4>2 DEF Exists, Undecided
        <3>2. ~bet'[id][user].claimed /\ bet'[id][user].count # 0
            BY <1>2, <1>4, <3>1 DEF EntriesOK
        <3>3. \A u \in Address \ {user} : ~bet'[id][u].claimed
            BY <1>2, <1>4, <3>1 DEF EntriesOK
        <3> QED BY <1>2, <2>1, <2>2, <3>1, <3>2, <3>3 DEF EntriesOK
    <2>3. CASE i # id
        BY <1>2, <1>3, <2>1, <2>3 DEF EntriesOK
    <2> QED BY <2>2, <2>3
<1> QED BY <1>1, <1>2, <1>5, <1>6, <1>7, <1>8 DEF BooksInv

LEMMA StepKeepsBooks ==
    ASSUME BooksInv, [MarketNext]_allMarketVars
    PROVE  BooksInv'
<1>1. BookStep /\ AnyStep
    BY StepIsBookStep, BookStepIsAnyStep
<1>2. CASE EntriesKept /\ (QuietStep \/ InitializeStep \/ CreateStep)
    BY <1>1, <1>2, EntriesKeptKeepsBooks
<1>3. CASE EntriesKept /\ \E id \in MarketIds : DecisionOf(id)
    BY <1>1, <1>3, EntriesKeptKeepsBooks
<1>4. CASE \E u \in Address, id \in MarketIds : EntryStep(u, id)
    BY <1>1, <1>4, EntryStepKeepsBooks
<1>5. CASE \E u \in Bettors, id \in MarketIds, y \in BOOLEAN, a \in BetAmounts :
               PlaceBet(u, id, y, a)
    BY <1>1, <1>5, BetKeepsBooks
<1> QED BY <1>1, <1>2, <1>3, <1>4, <1>5 DEF BookStep

LEMMA BooksInvInit ==
    ASSUME DeployedInit
    PROVE  BooksInv
<1>1. /\ market = [id \in MarketIds |-> NewMarket(0)]
      /\ bet = [id \in MarketIds |-> [u \in Address |-> NoBet]]
      /\ bettors = [id \in MarketIds |-> <<>>]
    BY DEF DeployedInit, MarketInit
<1>2. NoBet \in BetEntry /\ NoBet.count = 0 /\ NoBet.net = 0 /\ NoBet.gross = 0 /\ ~NoBet.claimed
    BY MarketConstants DEF NoBet, BetEntry
<1> HIDE DEF NoBet
<1>3. \A id \in MarketIds, u \in Address : bet[id][u] = NoBet
    BY <1>1
<1>4. bet \in [MarketIds -> [Address -> BetEntry]] /\ bettors \in [MarketIds -> Seq(Address)]
    BY <1>1, <1>2
<1>5. ASSUME NEW id \in MarketIds
      PROVE  EntriesOK(id) /\ Agrees(id)
    <2>1. EntriesOK(id)
        BY <1>2, <1>3 DEF EntriesOK
    <2>2. Backers(id, TRUE) = {} /\ Backers(id, FALSE) = {}
        BY <1>2, <1>3 DEF Backers
    <2>3. SumNet(id, {}) = 0
        BY SumOfNothing DEF SumNet
    <2>4. Backers(id, TRUE) \cup Backers(id, FALSE) = {} /\ Cardinality({}) = 0
        BY <2>2, FS_EmptySet
    <2>5. market[id].totalYes = 0 /\ market[id].totalNo = 0 /\ market[id].betCount = 0
        BY <1>1 DEF NewMarket
    <2>6. Len(bettors[id]) = 0 /\ {bettors[id][i] : i \in DOMAIN bettors[id]} = {}
        BY <1>1
    <2> QED BY <2>1, <2>2, <2>3, <2>4, <2>5, <2>6 DEF Agrees
<1> QED BY <1>4, <1>5, VerdictInvInit DEF BooksInv

\* The invariant the books rest on.
THEOREM BooksInvariant == MarketSpec => []BooksInv
<1>1. DeployedInit => BooksInv
    BY BooksInvInit
<1>2. BooksInv /\ [MarketNext]_allMarketVars => BooksInv'
    BY StepKeepsBooks
<1> QED BY <1>1, <1>2, PTL DEF MarketSpec

\* The totals, the bettor index and the bet count that place_bet writes apart
\* are always those of the market's bet entries.
THEOREM BooksAlwaysAgree == MarketSpec => []BooksAgree
<1>1. BooksInv => BooksAgree
    BY DEF BooksInv, BooksAgree, Agrees
<1> QED BY <1>1, BooksInvariant, PTL

-----------------------------------------------------------------------------
(* The hourly limit *)

End(i) == market[i].endTime

\* With one duration D a market's end tells when it was created.  Of the markets
\* behind the current window, all were created before it started, and those
\* behind the one before it a whole window earlier: no window starts sooner
\* after another, and none lets more than the limit in.
Spaced(D) ==
    /\ \A i \in 1 .. marketCount :
          /\ End(i) <= now + D
          /\ i <= marketCount - rateWindow.count => End(i) <= rateWindow.start + D
          /\ i <= marketCount - rateWindow.count - MaxMarketsPerWindow =>
                End(i) + RateWindowLength <= rateWindow.start + D
    /\ \A i, j \in 1 .. marketCount :
          i + 2 * MaxMarketsPerWindow <= j => End(i) + RateWindowLength <= End(j)

WindowInv ==
    /\ VerdictInv
    /\ rateWindow \in [start : Nat, count : Nat]
    /\ rateWindow.start <= now
    /\ rateWindow.count <= MaxMarketsPerWindow
    /\ rateWindow.count <= marketCount
    /\ marketCount > 0 => rateWindow.count > 0
    /\ \A D \in Durations : Durations = {D} => Spaced(D)

Creates == \E d \in Durations : MayCreate /\ CreateMarket(Deployer, d)

LEMMA OnlyCreationUsesTheWindow ==
    ASSUME VerdictInv, [MarketNext]_allMarketVars, ~Creates
    PROVE  rateWindow' = rateWindow /\ marketCount' = marketCount
<1>1. CASE AdminStep
    <2>1. CASE MarketDeployed
        BY <2>1 DEF MarketDeployed, MarketInitialize, VerdictInv
    <2>2. CASE RegistryDeployed \/ \E c \in ConfigChoices : RegistryXlmSet(c.xlm)
        BY <2>2 DEF RegistryDeployed, RegistryXlmSet, marketVars
    <2>3. CASE \E c \in ConfigChoices : SetConfig(Deployer, c.referral, c.leaderboard, c.xlm)
        BY <2>3 DEF SetConfig
    <2>4. CASE \E o \in Officials : AddResolver(Deployer, o) \/ RemoveResolver(Deployer, o)
        BY <2>4 DEF AddResolver, RemoveResolver, SetResolvers
    <2>5. CASE \E c \in Collectors :
                   AddFeeRecipient(Deployer, c) \/ RemoveFeeRecipient(Deployer, c)
        BY <2>5 DEF AddFeeRecipient, RemoveFeeRecipient, SetRecipients
    <2>6. CASE \E id \in MarketIds : CancelMarket(Deployer, id)
        BY <2>6 DEF CancelMarket, MarketCancelledNow
    <2> QED BY <1>1, <2>1, <2>2, <2>3, <2>4, <2>5, <2>6 DEF AdminStep, Creates
<1>2. CASE CallerStep
    BY <1>2 DEF CallerStep, Register, PlaceBet, CancelRefund, Claim, ResolveMarket,
                WithdrawFees, marketVars
<1>3. CASE Tick \/ UNCHANGED allMarketVars
    BY <1>3 DEF Tick, allMarketVars, marketVars
<1> QED BY <1>1, <1>2, <1>3 DEF MarketNext

LEMMA OtherStepKeepsWindows ==
    ASSUME WindowInv, AnyStep, rateWindow' = rateWindow, marketCount' = marketCount
    PROVE  WindowInv'
<1>1. VerdictInv'
    BY StepKeepsVerdicts DEF WindowInv
<1>2. /\ marketCount \in Nat /\ MaxMarkets \in Nat /\ now \in Nat
      /\ market \in [MarketIds -> MarketRecord] /\ 1 .. marketCount \subseteq MarketIds
    <2>1. /\ now \in Nat /\ market \in [MarketIds -> MarketRecord]
          /\ marketCount \in 0 .. MaxMarkets
        BY DEF WindowInv, VerdictInv
    <2>2. MaxMarkets \in Nat
        BY MarketConstants
    <2>3. marketCount \in Nat /\ 1 .. marketCount \subseteq 1 .. MaxMarkets
        BY <2>1, <2>2
    <2> QED BY <2>1, <2>2, <2>3 DEF MarketIds
<1>3. now' \in Nat /\ now <= now' /\ \A i \in 1 .. marketCount : End(i)' = End(i)
    <2>1. CASE QuietStep
        BY <1>2, <2>1 DEF QuietStep, Kept, End
    <2>2. CASE InitializeStep
        BY <1>2, <2>2 DEF InitializeStep, End
    <2>3. CASE CreateStep
        BY <1>2, <2>3 DEF CreateStep
    <2>4. CASE \E id \in MarketIds : MarketStepOf(id)
        <3>1. PICK id \in MarketIds : MarketStepOf(id)
            BY <2>4
        <3>2. PICK m \in MarketRecord : /\ market' = [market EXCEPT ![id] = m]
                                        /\ m.endTime = market[id].endTime
            BY <3>1 DEF MarketStepOf
        <3>3. \A i \in MarketIds : market'[i].endTime = market[i].endTime
            BY <1>2, <3>2
        <3>4. now' = now
            BY <3>1 DEF MarketStepOf
        <3> QED BY <1>2, <3>3, <3>4 DEF End
    <2> QED BY <2>1, <2>2, <2>3, <2>4 DEF AnyStep
<1>4. /\ rateWindow.start \in Nat /\ rateWindow.start <= now
      /\ rateWindow \in [start : Nat, count : Nat]
    BY DEF WindowInv
<1>5. rateWindow.start <= now'
    BY <1>2, <1>3, <1>4
<1>6. ASSUME NEW D \in Durations, Durations = {D}
      PROVE  Spaced(D)'
    <2>1. Spaced(D) /\ D \in Nat
        BY <1>6, MarketConstants DEF WindowInv
    <2>2. \A i \in 1 .. marketCount : End(i) \in Nat
        BY <1>2 DEF End, MarketRecord
    <2>3. ASSUME NEW i \in 1 .. marketCount
          PROVE  End(i) <= now' + D
        <3>1. End(i) <= now + D /\ End(i) \in Nat
            BY <2>1, <2>2 DEF Spaced
        <3> QED BY <1>2, <1>3, <2>1, <3>1
    <2> QED BY <1>3, <2>1, <2>3 DEF Spaced
<1> QED BY <1>1, <1>5, <1>6 DEF WindowInv

LEMMA CreationKeepsWindows ==
    ASSUME WindowInv, AnyStep, Creates
    PROVE  WindowInv'
<1> DEFINE n == marketCount
           k == rateWindow.count
           s == rateWindow.start
           W == RateWindowLength
           M == MaxMarketsPerWindow
<1>1. PICK d \in Durations : MayCreate /\ CreateMarket(Deployer, d)
    BY DEF Creates
<1>2. /\ VerdictInv' /\ n < MaxMarkets /\ RateChecked
      /\ market' = [market EXCEPT ![n + 1] = NewMarket(now + d)]
      /\ marketCount' = n + 1 /\ now' = now
    BY <1>1, StepKeepsVerdicts DEF MayCreate, CreateMarket, WindowInv
<1>3. /\ n \in Nat /\ MaxMarkets \in Nat /\ now \in Nat /\ d \in Nat
      /\ market \in [MarketIds -> MarketRecord] /\ 1 .. n + 1 \subseteq MarketIds
      /\ W \in Nat \ {0} /\ M \in Nat \ {0}
    <2>1. /\ n \in Nat /\ now \in Nat /\ market \in [MarketIds -> MarketRecord]
          /\ n \in 0 .. MaxMarkets
        BY DEF WindowInv, VerdictInv
    <2>2. MaxMarkets \in Nat /\ d \in Nat /\ W \in Nat \ {0} /\ M \in Nat \ {0}
        BY MarketConstants
    <2>3. n + 1 \in 1 .. MaxMarkets
        BY <1>2, <2>1, <2>2
    <2>4. 1 .. n + 1 \subseteq 1 .. MaxMarkets
        BY <2>1, <2>2, <2>3
    <2> QED BY <2>1, <2>2, <2>4 DEF MarketIds
<1>4. /\ k \in Nat /\ s \in Nat /\ s <= now /\ k <= M /\ k <= n /\ (n > 0 => k > 0)
      /\ rateWindow \in [start : Nat, count : Nat]
    BY DEF WindowInv
<1>5. /\ market'[n + 1].endTime = now + d
      /\ \A i \in 1 .. n : End(i)' = End(i) /\ End(i) \in Nat
    <2>1. market'[n + 1] = NewMarket(now + d)
        BY <1>2, <1>3
    <2>2. \A i \in 1 .. n : i \in MarketIds /\ i # n + 1
        BY <1>3
    <2>3. \A i \in 1 .. n : market'[i] = market[i] /\ market[i] \in MarketRecord
        BY <1>2, <1>3, <2>2
    <2>4. NewMarket(now + d).endTime = now + d
        BY DEF NewMarket
    <2>5. market'[n + 1].endTime = now + d
        BY <2>1, <2>4 DEF End
    <2>6. \A i \in 1 .. n : End(i)' = End(i)
        BY <2>3 DEF End
    <2>7. \A i \in 1 .. n : End(i) \in Nat
        BY <2>3 DEF End, MarketRecord
    <2> QED BY <2>5, <2>6, <2>7
<1>6. CASE RateWindowOpen
    <2>1. k < M /\ rateWindow' = [rateWindow EXCEPT !.count = k + 1]
        BY <1>2, <1>6 DEF RateChecked
    <2>2. rateWindow'.count = k + 1 /\ rateWindow'.start = s
          /\ rateWindow' \in [start : Nat, count : Nat]
        BY <1>4, <2>1
    <2>3. ASSUME NEW D \in Durations, Durations = {D}
          PROVE  Spaced(D)'
        <3>1. Spaced(D) /\ D = d
            BY <2>3 DEF WindowInv
        <3>2. ASSUME NEW i \in 1 .. n
              PROVE  /\ End(i)' <= now + D
                     /\ i <= (n + 1) - (k + 1) => End(i)' <= s + D
                     /\ i <= (n + 1) - (k + 1) - M => End(i)' + W <= s + D
            <4>1. (n + 1) - (k + 1) = n - k
                BY <1>3, <1>4
            <4> QED BY <1>5, <3>1, <4>1 DEF Spaced
        <3>3. ASSUME NEW i \in 1 .. n, i + 2 * M <= n + 1
              PROVE  End(i)' + W <= market'[n + 1].endTime
            <4>1. i <= n - k - M
                BY <1>3, <1>4, <2>1, <3>3
            <4>2. End(i) + W <= s + D /\ End(i) \in Nat
                BY <1>5, <3>1, <4>1 DEF Spaced
            <4> QED BY <1>3, <1>4, <1>5, <3>1, <4>2
        <3>4. ~(n + 1 <= (n + 1) - (k + 1)) /\ ~(n + 1 <= (n + 1) - (k + 1) - M)
            BY <1>3, <1>4
        <3>5. ASSUME NEW i \in 1 .. n + 1, NEW j \in 1 .. n + 1, i + 2 * M <= j
              PROVE  End(i)' + W <= End(j)'
            <4>1. i \in 1 .. n
                BY <1>3, <3>5
            <4>2. CASE j = n + 1
                <5>1. i + 2 * M <= n + 1
                    BY <3>5, <4>2
                <5>2. End(i)' + W <= market'[n + 1].endTime
                    BY <3>3, <4>1, <5>1
                <5> QED BY <4>2, <5>2 DEF End
            <4>3. CASE j # n + 1
                <5>1. j \in 1 .. n
                    BY <1>3, <4>3
                <5>2. End(i) + W <= End(j)
                    BY <3>1, <3>5, <4>1, <5>1 DEF Spaced
                <5> QED BY <1>5, <4>1, <5>1, <5>2
            <4> QED BY <4>2, <4>3
        <3>6. ASSUME NEW i \in 1 .. n + 1
              PROVE  /\ End(i)' <= now + D
                     /\ i <= (n + 1) - (k + 1) => End(i)' <= s + D
                     /\ i <= (n + 1) - (k + 1) - M => End(i)' + W <= s + D
            <4>1. CASE i = n + 1
                <5>0. End(i)' = now + d
                    BY <1>5, <4>1 DEF End
                <5>1. End(i)' <= now + D
                    BY <1>3, <3>1, <5>0
                <5> QED BY <3>4, <4>1, <5>1
            <4>2. CASE i # n + 1
                <5>1. i \in 1 .. n
                    BY <1>3, <4>2
                <5> QED BY <3>2, <5>1
            <4> QED BY <4>1, <4>2
        <3> HIDE DEF n, k, s, W, M
        <3> QED BY <1>2, <2>2, <3>5, <3>6 DEF Spaced, n, k, s, W, M
    <2>4. /\ rateWindow'.start <= now' /\ rateWindow'.count <= M
          /\ rateWindow'.count <= marketCount' /\ rateWindow'.count > 0
        BY <1>2, <1>3, <1>4, <2>1, <2>2
    <2> QED BY <1>2, <2>2, <2>3, <2>4 DEF WindowInv
<1>7. CASE ~RateWindowOpen
    <2>1. rateWindow' = [start |-> now, count |-> 1]
        BY <1>2, <1>7 DEF RateChecked
    <2>2. rateWindow'.count = 1 /\ rateWindow'.start = now
          /\ rateWindow' \in [start : Nat, count : Nat]
        BY <1>3, <2>1
    <2>3. n > 0 => s + W <= now
        BY <1>3, <1>4, <1>7 DEF RateWindowOpen
    <2>4. ASSUME NEW D \in Durations, Durations = {D}
          PROVE  Spaced(D)'
        <3>1. Spaced(D) /\ D = d
            BY <2>4 DEF WindowInv
        <3>2. ASSUME NEW i \in 1 .. n
              PROVE  /\ End(i)' <= now + D
                     /\ i <= n - M => End(i)' + W <= now + D
            <4>1. End(i) <= now + D /\ End(i) \in Nat
                BY <1>5, <3>1 DEF Spaced
            <4>2. ASSUME i <= n - M
                  PROVE  End(i) + W <= now + D
                <5>1. i <= n - k
                    BY <1>3, <1>4, <4>2
                <5>2. End(i) <= s + D
                    BY <3>1, <5>1 DEF Spaced
                <5>3. n > 0
                    BY <1>3
                <5> QED BY <1>3, <1>4, <2>3, <3>1, <4>1, <5>2, <5>3
            <4> QED BY <1>5, <4>1, <4>2
        <3>3. ASSUME NEW i \in 1 .. n + 1
              PROVE  /\ End(i)' <= now + D
                     /\ i <= (n + 1) - 1 => End(i)' <= now + D
                     /\ i <= (n + 1) - 1 - M => End(i)' + W <= now + D
            <4>1. CASE i = n + 1
                <5>0. End(i)' = now + d
                    BY <1>5, <4>1 DEF End
                <5>1. End(i)' <= now + D
                    BY <1>3, <3>1, <5>0
                <5>2. ~(i <= (n + 1) - 1 - M)
                    BY <1>3, <4>1
                <5> QED BY <5>1, <5>2
            <4>2. CASE i # n + 1
                <5>1. i \in 1 .. n /\ (n + 1) - 1 - M = n - M
                    BY <1>3, <4>2
                <5> QED BY <3>2, <5>1
            <4> QED BY <4>1, <4>2
        <3>4. ASSUME NEW i \in 1 .. n + 1, NEW j \in 1 .. n + 1, i + 2 * M <= j
              PROVE  End(i)' + W <= End(j)'
            <4>1. i \in 1 .. n
                BY <1>3, <3>4
            <4>2. CASE j = n + 1
                <5>1. i <= n - M
                    BY <1>3, <3>4, <4>2
                <5>2. End(i)' + W <= now + D
                    BY <3>2, <4>1, <5>1
                <5>3. End(j)' = now + D
                    BY <1>5, <3>1, <4>2 DEF End
                <5> QED BY <5>2, <5>3
            <4>3. CASE j # n + 1
                <5>1. j \in 1 .. n
                    BY <1>3, <4>3
                <5>2. End(i) + W <= End(j)
                    BY <3>1, <3>4, <4>1, <5>1 DEF Spaced
                <5> QED BY <1>5, <4>1, <5>1, <5>2
            <4> QED BY <4>2, <4>3
        <3> HIDE DEF n, k, s, W, M
        <3> QED BY <1>2, <2>2, <3>3, <3>4 DEF Spaced, n, k, s, W, M
    <2>5. /\ rateWindow'.start <= now' /\ rateWindow'.count <= M
          /\ rateWindow'.count <= marketCount' /\ rateWindow'.count > 0
        BY <1>2, <1>3, <2>2
    <2> QED BY <1>2, <2>2, <2>4, <2>5 DEF WindowInv
<1> QED BY <1>6, <1>7

\* The rate window as check_rate keeps it.
THEOREM WindowInvariant == MarketSpec => []WindowInv
<1>1. DeployedInit => WindowInv
    <2> SUFFICES ASSUME DeployedInit PROVE WindowInv
        OBVIOUS
    <2>1. VerdictInv /\ marketCount = 0 /\ rateWindow = [start |-> 0, count |-> 0] /\ now = 0
        BY VerdictInvInit DEF DeployedInit, MarketInit, NoWindow
    <2>2. MaxMarketsPerWindow \in Nat
        BY MarketConstants
    <2> QED BY <2>1, <2>2 DEF WindowInv, Spaced
<1>2. WindowInv /\ [MarketNext]_allMarketVars => WindowInv'
    <2> SUFFICES ASSUME WindowInv, [MarketNext]_allMarketVars PROVE WindowInv'
        OBVIOUS
    <2>1. AnyStep /\ VerdictInv
        BY StepIsOneOfThem DEF WindowInv
    <2>2. CASE Creates
        BY <2>1, <2>2, CreationKeepsWindows
    <2>3. CASE ~Creates
        BY <2>1, <2>3, OnlyCreationUsesTheWindow, OtherStepKeepsWindows
    <2> QED BY <2>2, <2>3
<1> QED BY <1>1, <1>2, PTL DEF MarketSpec

\* From any instant on, the markets created within an hour are at most twice the
\* hourly limit of check_rate.
THEOREM CreationIsLimited == MarketSpec => []AtMostTwoWindows
<1>1. WindowInv => AtMostTwoWindows
    <2> SUFFICES ASSUME WindowInv, NEW D \in Durations, Durations = {D}, NEW t \in 0 .. now
                 PROVE  Cardinality(CreatedWithin(t, D)) <= 2 * MaxMarketsPerWindow
        BY DEF AtMostTwoWindows
    <2> DEFINE S == CreatedWithin(t, D)
               M == MaxMarketsPerWindow
               W == RateWindowLength
    <2>1. Spaced(D) /\ D \in Nat /\ M \in Nat \ {0} /\ W \in Nat \ {0}
        BY MarketConstants DEF WindowInv
    <2>2. marketCount \in Nat /\ now \in Nat /\ t \in Nat
        BY DEF WindowInv, VerdictInv
    <2>3. S \subseteq 1 .. marketCount
        BY DEF CreatedWithin
    <2>4. \A i \in S : End(i) \in Nat
        <3>1. marketCount \in 0 .. MaxMarkets /\ market \in [MarketIds -> MarketRecord]
            BY DEF WindowInv, VerdictInv
        <3>2. 1 .. marketCount \subseteq MarketIds
            BY <2>2, <3>1, MarketConstants DEF MarketIds
        <3> QED BY <2>3, <3>1, <3>2 DEF End, MarketRecord
    <2>5. \A i \in S : t <= End(i) - D /\ End(i) - D <= t + W - 1
        BY <2>1, <2>2, <2>4 DEF CreatedWithin, End
    <2>6. ASSUME NEW i \in S, NEW j \in S, i + 2 * M <= j
          PROVE  FALSE
        <3>1. End(i) + W <= End(j)
            BY <2>1, <2>3, <2>6 DEF Spaced
        <3>2. t <= End(i) - D /\ End(j) - D <= t + W - 1 /\ End(i) \in Nat /\ End(j) \in Nat
            BY <2>4, <2>5
        <3> QED BY <2>1, <2>2, <3>1, <3>2
    <2>7. CASE S = {}
        BY <2>1, <2>7, FS_EmptySet
    <2>8. CASE S # {}
        <3>1. PICK i \in S : \A j \in S : i <= j
            BY <2>2, <2>3, <2>8, LeastOfNaturals
        <3>2. i \in Nat /\ i + 2 * M - 1 \in Nat
            BY <2>1, <2>2, <2>3
        <3>3. S \subseteq i .. (i + 2 * M - 1)
            <4> SUFFICES ASSUME NEW j \in S PROVE j \in i .. (i + 2 * M - 1)
                OBVIOUS
            <4>1. j \in Nat /\ i <= j /\ ~(i + 2 * M <= j)
                BY <2>2, <2>3, <2>6, <3>1
            <4> QED BY <2>1, <3>2, <4>1
        <3>4. /\ IsFiniteSet(i .. (i + 2 * M - 1))
              /\ Cardinality(i .. (i + 2 * M - 1)) = 2 * M
            <4>1. i + 2 * M - 1 >= i /\ (i + 2 * M - 1) - i + 1 = 2 * M
                BY <2>1, <3>2
            <4> QED BY <3>2, <4>1, FS_Interval
        <3>5. Cardinality(S) <= Cardinality(i .. (i + 2 * M - 1))
            BY <3>3, <3>4, FS_Subset
        <3> QED BY <3>4, <3>5
    <2> QED BY <2>7, <2>8
<1> QED BY <1>1, WindowInvariant, PTL

-----------------------------------------------------------------------------
(* What the other contracts write down *)

ProfileRecord == [registered : BOOLEAN, referrer : Referrers \cup {Nobody}]

ClaimedIds(u) == {id \in MarketIds : bet[id][u].claimed}
Referred(r)   == {u \in Address : profile[u].referrer = r}

\* The counts are those of the records: a registration adds one user to those
\* who name its referrer, because an unregistered user names nobody, and a claim
\* one market to those its user has claimed, which the claimed flag sees to.
RecordsInv ==
    /\ BooksInv
    /\ ListInv
    /\ Holdings
    /\ profile \in [Address -> ProfileRecord]
    /\ \A u \in Address : ~profile[u].registered => profile[u].referrer = Nobody
    /\ referralCount \in [Address -> Nat]
    /\ ReferralCountsMatch
    /\ RewardsMatchClaims

\* Most calls reach neither contract, and claim nothing.
ClaimsKept  == \A u \in Address : ClaimedIds(u)' = ClaimedIds(u)
CountsKept  == profile' = profile /\ referralCount' = referralCount
RecordsKept == ClaimsKept /\ CountsKept /\ UNCHANGED <<lbVars, tokenVars>>

\* credit scores the referrer of a bet.
BonusStep ==
    /\ ClaimsKept /\ CountsKept /\ UNCHANGED tokenVars
    /\ \E r \in Address : Score(r, ReferralBetPoints, 0, 0)

RegisterStep(u, r) ==
    /\ ClaimsKept
    /\ RegisterReferral(u, r)

ClaimStep(u, id) ==
    /\ ~bet[id][u].claimed
    /\ bet' = [bet EXCEPT ![id][u].claimed = TRUE]
    /\ CountsKept
    /\ \/ Reward(MarketContract, u, WinPoints, WinTokens, TRUE)
       \/ Reward(MarketContract, u, LosePoints, LoseTokens, FALSE)

RecordsStep ==
    \/ RecordsKept
    \/ BonusStep
    \/ \E u \in Address, r \in Referrers : RegisterStep(u, r)
    \/ \E u \in Address, id \in MarketIds : ClaimStep(u, id)

LEMMA SameBetsSameClaims ==
    ASSUME bet' = bet
    PROVE  ClaimsKept
BY DEF ClaimsKept, ClaimedIds

\* A bet leaves the claims alone, and scores at most its bettor's referrer.
LEMMA BetIsRecordsStep ==
    ASSUME RecordsInv, NEW user \in Bettors, NEW id \in MarketIds, NEW isYes \in BOOLEAN,
           NEW amount \in BetAmounts, PlaceBet(user, id, isYes, amount)
    PROVE  RecordsKept \/ BonusStep
<1>1. BetEffect(user, id, isYes, amount) /\ user \in Address
    BY BetFacts, MarketConstants DEF RecordsInv
<1>2. ClaimsKept
    <2>1. \A i \in MarketIds, u \in Address : bet'[i][u].claimed = bet[i][u].claimed
        BY <1>1 DEF BetEffect
    <2> QED BY <2>1 DEF ClaimsKept, ClaimedIds
<1>3. CASE FeeKept(user, amount)
    BY <1>2, <1>3 DEF FeeKept, rewardVars, refVars, RecordsKept, CountsKept
<1>4. CASE FeeOffered(user, amount)
    <2>1. PICK bal : Credit(MarketContract, user, ReferralFee(amount), bal)
        BY <1>4 DEF FeeOffered
    <2>2. CountsKept
        BY <2>1 DEF Credit, CountsKept
    <2>3. CASE CreditReferrer(MarketContract, user, ReferralFee(amount), bal)
        <3>1. profile[user].referrer \in Address
            BY <1>1, <2>3, MarketConstants
            DEF RecordsInv, ProfileRecord, CreditReferrer, HasReferrer
        <3>2. /\ Score(profile[user].referrer, ReferralBetPoints, 0, 0)
              /\ UNCHANGED tokenVars
            BY <2>3 DEF CreditReferrer, AddBonusPts
        <3> QED BY <1>2, <2>2, <3>1, <3>2 DEF BonusStep
    <2>4. CASE ReturnFee(MarketContract, user, ReferralFee(amount), bal)
        BY <1>2, <2>2, <2>4 DEF ReturnFee, RecordsKept
    <2> QED BY <2>1, <2>3, <2>4 DEF Credit
<1> QED BY <1>3, <1>4 DEF PlaceBet

\* A refund changes an entry, and no claimed flag.
LEMMA RefundKeepsClaims ==
    ASSUME RecordsInv, NEW user \in Bettors, NEW id \in MarketIds, CancelRefund(user, id)
    PROVE  RecordsKept
<1>1. /\ bet \in [MarketIds -> [Address -> BetEntry]] /\ user \in Address
      /\ bet' = [bet EXCEPT ![id][user].gross = 0]
    BY MarketConstants DEF RecordsInv, BooksInv, CancelRefund
<1>2. \A i \in MarketIds, u \in Address : bet'[i][u].claimed = bet[i][u].claimed
    BY <1>1 DEF BetEntry
<1>3. ClaimsKept
    BY <1>2 DEF ClaimsKept, ClaimedIds
<1> QED BY <1>3 DEF CancelRefund, rewardVars, refVars, RecordsKept, CountsKept

LEMMA AdminStepKeepsRecords ==
    ASSUME AdminStep
    PROVE  RecordsKept
<1>1. CASE RegistryDeployed
    BY <1>1, SameBetsSameClaims
    DEF RegistryDeployed, ReferralInitialize, marketVars, bookVars, RecordsKept, CountsKept
<1>2. CASE MarketDeployed
    BY <1>2, SameBetsSameClaims
    DEF MarketDeployed, MarketInitialize, rewardVars, refVars, RecordsKept, CountsKept
<1>3. CASE \E d \in Durations : MayCreate /\ CreateMarket(Deployer, d)
    BY <1>3, SameBetsSameClaims
    DEF CreateMarket, rewardVars, refVars, RecordsKept, CountsKept
<1>4. CASE \E c \in ConfigChoices : SetConfig(Deployer, c.referral, c.leaderboard, c.xlm)
    BY <1>4, SameBetsSameClaims
    DEF SetConfig, bookVars, rewardVars, refVars, RecordsKept, CountsKept
<1>5. CASE \E c \in ConfigChoices : RegistryXlmSet(c.xlm)
    BY <1>5, SameBetsSameClaims
    DEF RegistryXlmSet, SetXlmSac, marketVars, bookVars, RecordsKept, CountsKept
<1>6. CASE \E o \in Officials : AddResolver(Deployer, o) \/ RemoveResolver(Deployer, o)
    BY <1>6, SameBetsSameClaims
    DEF AddResolver, RemoveResolver, SetResolvers, bookVars, rewardVars, refVars,
        RecordsKept, CountsKept
<1>7. CASE \E c \in Collectors :
               AddFeeRecipient(Deployer, c) \/ RemoveFeeRecipient(Deployer, c)
    BY <1>7, SameBetsSameClaims
    DEF AddFeeRecipient, RemoveFeeRecipient, SetRecipients, bookVars, rewardVars, refVars,
        RecordsKept, CountsKept
<1>8. CASE \E id \in MarketIds : CancelMarket(Deployer, id)
    BY <1>8, SameBetsSameClaims
    DEF CancelMarket, MarketCancelledNow, rewardVars, refVars, RecordsKept, CountsKept
<1> QED BY <1>1, <1>2, <1>3, <1>4, <1>5, <1>6, <1>7, <1>8 DEF AdminStep

LEMMA StepIsRecordsStep ==
    ASSUME RecordsInv, [MarketNext]_allMarketVars
    PROVE  RecordsStep
<1>1. CASE AdminStep
    BY <1>1, AdminStepKeepsRecords DEF RecordsStep
<1>2. CASE \E u \in Bettors, r \in Referrers : Register(u, r)
    <2>1. PICK u \in Bettors, r \in Referrers : Register(u, r)
        BY <1>2
    <2>2. u \in Address /\ RegisterStep(u, r)
        BY <2>1, MarketConstants, SameBetsSameClaims
        DEF Register, marketVars, bookVars, RegisterStep
    <2> QED BY <2>2 DEF RecordsStep
<1>3. CASE \E u \in Bettors, id \in MarketIds, y \in BOOLEAN, a \in BetAmounts :
               PlaceBet(u, id, y, a)
    BY <1>3, BetIsRecordsStep DEF RecordsStep
<1>4. CASE \E u \in Bettors, id \in MarketIds : CancelRefund(u, id)
    BY <1>4, RefundKeepsClaims DEF RecordsStep
<1>5. CASE \E u \in Bettors, id \in MarketIds : Claim(u, id)
    <2>1. PICK u \in Bettors, id \in MarketIds : Claim(u, id)
        BY <1>5
    <2>2. u \in Address /\ ClaimStep(u, id)
        BY <2>1, MarketConstants DEF Claim, MayClaim, refVars, CountsKept, ClaimStep
    <2> QED BY <2>2 DEF RecordsStep
<1>6. CASE \E c \in {Deployer} \cup Officials, id \in MarketIds, o \in BOOLEAN :
               ResolveMarket(c, id, o)
    BY <1>6, SameBetsSameClaims
    DEF ResolveMarket, rewardVars, refVars, RecordsKept, CountsKept, RecordsStep
<1>7. CASE \E c \in {Deployer} \cup Collectors, t \in Treasuries : WithdrawFees(c, t)
    BY <1>7, SameBetsSameClaims
    DEF WithdrawFees, rewardVars, refVars, RecordsKept, CountsKept, RecordsStep
<1>8. CASE Tick
    BY <1>8, SameBetsSameClaims
    DEF Tick, bookVars, rewardVars, refVars, RecordsKept, CountsKept, RecordsStep
<1>9. CASE UNCHANGED allMarketVars
    BY <1>9, SameBetsSameClaims
    DEF allMarketVars, marketVars, bookVars, rewardVars, refVars,
        RecordsKept, CountsKept, RecordsStep
<1> QED BY <1>1, <1>2, <1>3, <1>4, <1>5, <1>6, <1>7, <1>8, <1>9 DEF MarketNext, CallerStep

\* What a scoring call and the mint that comes with it write for one user.
LEMMA ScoreCounts ==
    ASSUME ListInv, NEW user \in Address, NEW points \in Nat,
           NEW won \in Nat, NEW lost \in Nat, Score(user, points, won, lost)
    PROVE  /\ stats[user].won \in Nat /\ stats[user].lost \in Nat
           /\ stats'[user].won = stats[user].won + won
           /\ stats'[user].lost = stats[user].lost + lost
           /\ \A u \in Address \ {user} : stats'[u] = stats[u]
           /\ ListInv'
<1>1. stats \in [Address -> Stats]
    BY DEF ListInv, LeaderboardTypeOK
<1>2. stats' = [stats EXCEPT ![user] = [points |-> stats[user].points + points,
                                        won    |-> stats[user].won + won,
                                        lost   |-> stats[user].lost + lost]]
    BY DEF Score
<1>3. stats[user].won \in Nat /\ stats[user].lost \in Nat
    BY <1>1 DEF Stats
<1>4. ListInv'
    BY ScoreKeeps
<1> QED BY <1>1, <1>2, <1>3, <1>4

LEMMA MintAddsTokens ==
    ASSUME Holdings, NEW user \in Address, NEW tokens \in Nat \ {0}, MintReward(user, tokens)
    PROVE  /\ balance[user] \in Nat
           /\ balance'[user] = balance[user] + tokens
           /\ \A u \in Address \ {user} : balance'[u] = balance[u]
           /\ Holdings'
<1>1. Mint(LeaderboardContract, user, tokens)
    BY DEF MintReward
<1>2. Holdings'
    BY <1>1, MintKeeps
<1>3. balance \in [Address -> Nat] /\ balance' = [balance EXCEPT ![user] = balance[user] + tokens]
    BY <1>1 DEF Holdings, Mint
<1> QED BY <1>2, <1>3

LEMMA MarketsAreFinite == IsFiniteSet(MarketIds)
<1>1. 1 \in Int /\ MaxMarkets \in Int
    BY MarketConstants
<1>2. IsFiniteSet(1 .. MaxMarkets)
    BY <1>1, FS_Interval
<1> QED BY <1>2 DEF MarketIds

LEMMA ClaimsAreCounted ==
    ASSUME NEW u \in Address
    PROVE  IsFiniteSet(ClaimedIds(u)) /\ Cardinality(ClaimedIds(u)) \in Nat
<1>1. ClaimedIds(u) \in SUBSET MarketIds
    BY DEF ClaimedIds
<1> QED BY <1>1, MarketsAreFinite, FS_Subset, FS_CardinalityType

\* One user's tokens are those of its bets and its registration.
TokensOf(u) == WinTokens * stats[u].won + LoseTokens * stats[u].lost
               + WelcomeTokens * Registered(u)
Matches(u)  == /\ stats[u].won + stats[u].lost = Cardinality(ClaimedIds(u))
               /\ balance[u] = TokensOf(u)

LEMMA RewardsMatchEachUser ==
    BooksInv => (RewardsMatchClaims <=> \A u \in Address : Matches(u))
<1> SUFFICES ASSUME BooksInv PROVE RewardsMatchClaims <=> \A u \in Address : Matches(u)
    OBVIOUS
<1>1. DOMAIN bet = MarketIds
    BY DEF BooksInv
<1> QED BY <1>1 DEF RewardsMatchClaims, Matches, TokensOf, ClaimedIds

LEMMA UntouchedUserMatches ==
    ASSUME NEW u \in Address, Matches(u), ClaimedIds(u)' = ClaimedIds(u),
           stats'[u].won = stats[u].won, stats'[u].lost = stats[u].lost,
           balance'[u] = balance[u], profile'[u].registered = profile[u].registered
    PROVE  Matches(u)'
<1>1. TokensOf(u)' = TokensOf(u)
    BY DEF TokensOf, Registered
<1> QED BY <1>1 DEF Matches

LEMMA IdleStepKeepsRecords ==
    ASSUME RecordsInv, BooksInv', RecordsKept
    PROVE  RecordsInv'
<1>1. ListInv' /\ Holdings'
    BY DEF RecordsInv, RecordsKept, lbVars, topVars, tokenVars, ListInv, LeaderboardTypeOK,
           SlotIndexConsistent, ListedPointsCurrent, CutoffIsLowerBound, Holdings
<1>2. ReferralCountsMatch'
    BY DEF RecordsInv, RecordsKept, CountsKept, ReferralCountsMatch
<1>3. /\ profile' = profile /\ stats' = stats /\ balance' = balance
      /\ \A u \in Address : ClaimedIds(u)' = ClaimedIds(u)
    BY DEF RecordsKept, CountsKept, ClaimsKept, lbVars, tokenVars
<1>4. \A u \in Address : Matches(u)'
    BY <1>3, UntouchedUserMatches, RewardsMatchEachUser DEF RecordsInv
<1>5. RewardsMatchClaims'
    <2>1. DOMAIN bet' = MarketIds
        BY DEF BooksInv
    <2> QED BY <1>4, <2>1 DEF RewardsMatchClaims, Matches, TokensOf, ClaimedIds
<1> QED BY <1>1, <1>2, <1>5 DEF RecordsInv, RecordsKept, CountsKept

LEMMA BonusStepKeepsRecords ==
    ASSUME RecordsInv, BooksInv', BonusStep
    PROVE  RecordsInv'
<1>1. PICK r \in Address : Score(r, ReferralBetPoints, 0, 0)
    BY DEF BonusStep
<1>2. /\ ListInv' /\ stats[r].won \in Nat /\ stats[r].lost \in Nat
      /\ stats'[r].won = stats[r].won + 0 /\ stats'[r].lost = stats[r].lost + 0
      /\ \A u \in Address \ {r} : stats'[u] = stats[u]
    BY <1>1, ScoreCounts, ReferralConstants DEF RecordsInv
<1>3. \A u \in Address : stats'[u].won = stats[u].won /\ stats'[u].lost = stats[u].lost
    BY <1>2
<1>4. /\ profile' = profile /\ referralCount' = referralCount /\ UNCHANGED tokenVars
      /\ \A u \in Address : ClaimedIds(u)' = ClaimedIds(u)
    BY DEF BonusStep, CountsKept, ClaimsKept
<1>5. Holdings' /\ ReferralCountsMatch' /\ balance' = balance
    BY <1>4 DEF RecordsInv, tokenVars, Holdings, ReferralCountsMatch
<1>6. \A u \in Address : Matches(u)'
    BY <1>3, <1>4, <1>5, UntouchedUserMatches, RewardsMatchEachUser DEF RecordsInv
<1>7. RewardsMatchClaims'
    <2>1. DOMAIN bet' = MarketIds
        BY DEF BooksInv
    <2> QED BY <1>6, <2>1 DEF RewardsMatchClaims, Matches, TokensOf, ClaimedIds
<1> QED BY <1>2, <1>4, <1>5, <1>7 DEF RecordsInv

\* A registration raises the count of the user it names, and of nobody else.
LEMMA RegistrationIsCounted ==
    ASSUME RecordsInv, NEW u \in Address, NEW r \in Referrers, RegisterReferral(u, r)
    PROVE  /\ ~profile[u].registered
           /\ profile' = [profile EXCEPT ![u] = ProfileOf(r)]
           /\ referralCount' \in [Address -> Nat]
           /\ ReferralCountsMatch'
<1>1. /\ ~profile[u].registered /\ profile[u].referrer = Nobody /\ Nobody \notin Address
      /\ profile \in [Address -> ProfileRecord] /\ referralCount \in [Address -> Nat]
      /\ profile' = [profile EXCEPT ![u] = ProfileOf(r)]
    BY TokenConstants DEF RecordsInv, RegisterReferral, MayRegister
<1>2. \A x \in Address : IsFiniteSet(Referred(x))
    <2>1. \A x \in Address : Referred(x) \in SUBSET Address
        BY DEF Referred
    <2> QED BY <2>1, TokenConstants, FS_Subset
<1>3. \A x \in Address : referralCount[x] = Cardinality(Referred(x))
    BY DEF RecordsInv, ReferralCountsMatch, Referred
<1>4. profile'[u].referrer = r /\ \A x \in Address \ {u} : profile'[x] = profile[x]
    BY <1>1 DEF ProfileOf
<1>5. ASSUME NEW x \in Address
      PROVE  referralCount'[x] = Cardinality(Referred(x)')
    <2>1. CASE x = r
        <3>1. Referred(x)' = Referred(x) \cup {u} /\ u \notin Referred(x)
            BY <1>1, <1>4, <2>1 DEF Referred
        <3>2. Cardinality(Referred(x)') = Cardinality(Referred(x)) + 1
            BY <1>2, <3>1, FS_AddElement
        <3>3. referralCount'[x] = referralCount[x] + 1
            BY <1>1, <2>1 DEF RegisterReferral
        <3> QED BY <1>3, <3>2, <3>3
    <2>2. CASE x # r
        <3>1. Referred(x)' = Referred(x)
            BY <1>1, <1>4, <2>2 DEF Referred
        <3>2. referralCount'[x] = referralCount[x]
            BY <1>1, <2>2 DEF RegisterReferral
        <3> QED BY <1>3, <3>1, <3>2
    <2> QED BY <2>1, <2>2
<1>6. ReferralCountsMatch'
    BY <1>5 DEF ReferralCountsMatch, Referred
<1>7. referralCount' \in [Address -> Nat]
    BY <1>1, MarketConstants DEF RegisterReferral
<1> QED BY <1>1, <1>6, <1>7

LEMMA RegisterStepKeepsRecords ==
    ASSUME RecordsInv, BooksInv', NEW u \in Address, NEW r \in Referrers, RegisterStep(u, r)
    PROVE  RecordsInv'
<1>1. RegisterReferral(u, r) /\ \A x \in Address : ClaimedIds(x)' = ClaimedIds(x)
    BY DEF RegisterStep, ClaimsKept
<1>2. Score(u, WelcomePoints, 0, 0) /\ MintReward(u, WelcomeTokens)
    BY <1>1 DEF RegisterReferral, RewardBonus
<1>3. /\ ListInv' /\ stats[u].won \in Nat /\ stats[u].lost \in Nat
      /\ stats'[u].won = stats[u].won /\ stats'[u].lost = stats[u].lost
      /\ \A x \in Address \ {u} : stats'[x] = stats[x]
    BY <1>2, ScoreCounts, ReferralConstants DEF RecordsInv
<1>4. /\ Holdings' /\ balance[u] \in Nat /\ balance'[u] = balance[u] + WelcomeTokens
      /\ \A x \in Address \ {u} : balance'[x] = balance[x]
    BY <1>2, MintAddsTokens, ReferralConstants DEF RecordsInv
<1>5. /\ ~profile[u].registered /\ profile' = [profile EXCEPT ![u] = ProfileOf(r)]
      /\ referralCount' \in [Address -> Nat] /\ ReferralCountsMatch'
    BY <1>1, RegistrationIsCounted
<1>6. /\ profile' \in [Address -> ProfileRecord] /\ profile'[u].registered
      /\ \A x \in Address \ {u} : profile'[x] = profile[x]
    BY <1>5 DEF RecordsInv, ProfileOf, ProfileRecord
<1>7. \A x \in Address : ~profile'[x].registered => profile'[x].referrer = Nobody
    BY <1>6 DEF RecordsInv
<1>8. ASSUME NEW x \in Address PROVE Matches(x)'
    <2>1. Matches(x)
        BY RewardsMatchEachUser DEF RecordsInv
    <2>2. CASE x = u
        <3> DEFINE tokens == WinTokens * stats[u].won + LoseTokens * stats[u].lost
        <3>1. WinTokens \in Nat /\ LoseTokens \in Nat /\ WelcomeTokens \in Nat
            BY MarketConstants, ReferralConstants
        <3>2. tokens \in Nat
            BY <1>3, <3>1, ProductIsNatural
        <3>3. Registered(u) = 0 /\ Registered(u)' = 1
            BY <1>5, <1>6 DEF Registered
        <3>4. TokensOf(u) = tokens + WelcomeTokens * 0 /\ TokensOf(u)' = tokens + WelcomeTokens * 1
            BY <1>3, <3>3 DEF TokensOf
        <3> HIDE DEF tokens
        <3>5. TokensOf(u)' = TokensOf(u) + WelcomeTokens
            BY <3>1, <3>2, <3>4
        <3> QED BY <1>1, <1>3, <1>4, <2>1, <2>2, <3>5 DEF Matches
    <2>3. CASE x # u
        BY <1>1, <1>3, <1>4, <1>6, <2>1, <2>3, UntouchedUserMatches
    <2> QED BY <2>2, <2>3
<1>9. RewardsMatchClaims'
    <2>1. DOMAIN bet' = MarketIds
        BY DEF BooksInv
    <2> QED BY <1>8, <2>1 DEF RewardsMatchClaims, Matches, TokensOf, ClaimedIds
<1> QED BY <1>3, <1>4, <1>5, <1>6, <1>7, <1>9 DEF RecordsInv

\* A claim adds one market to its user's claimed ones, one won or lost bet, and
\* the tokens of such a bet.
LEMMA ClaimIsCounted ==
    ASSUME RecordsInv, NEW u \in Address, NEW id \in MarketIds, ClaimStep(u, id)
    PROVE  /\ Cardinality(ClaimedIds(u)') = Cardinality(ClaimedIds(u)) + 1
           /\ \A x \in Address \ {u} : ClaimedIds(x)' = ClaimedIds(x)
<1>1. /\ bet \in [MarketIds -> [Address -> BetEntry]] /\ ~bet[id][u].claimed
      /\ bet' = [bet EXCEPT ![id][u].claimed = TRUE]
    BY DEF RecordsInv, BooksInv, ClaimStep
<1>2. /\ bet'[id][u].claimed
      /\ \A i \in MarketIds, x \in Address :
             i # id \/ x # u => bet'[i][x].claimed = bet[i][x].claimed
    <2> DEFINE e == [bet[id][u] EXCEPT !.claimed = TRUE]
    <2>1. e.claimed
        BY <1>1 DEF BetEntry
    <2>2. bet' = [bet EXCEPT ![id][u] = e]
        BY <1>1
    <2> HIDE DEF e
    <2>3. bet'[id][u] = e /\ \A x \in Address \ {u} : bet'[id][x] = bet[id][x]
        BY <1>1, <2>2
    <2>4. \A i \in MarketIds \ {id} : bet'[i] = bet[i]
        BY <1>1, <2>2
    <2> QED BY <2>1, <2>3, <2>4
<1>3. ClaimedIds(u)' = ClaimedIds(u) \cup {id} /\ id \notin ClaimedIds(u)
    BY <1>1, <1>2 DEF ClaimedIds
<1>4. \A x \in Address \ {u} : ClaimedIds(x)' = ClaimedIds(x)
    BY <1>2 DEF ClaimedIds
<1> QED BY <1>3, <1>4, ClaimsAreCounted, FS_AddElement

LEMMA ClaimIsRewarded ==
    ASSUME RecordsInv, NEW u \in Address, NEW id \in MarketIds, ClaimStep(u, id)
    PROVE  /\ ListInv' /\ Holdings'
           /\ stats[u].won + stats[u].lost \in Nat /\ balance[u] \in Nat /\ TokensOf(u) \in Nat
           /\ stats'[u].won + stats'[u].lost = stats[u].won + stats[u].lost + 1
           /\ balance'[u] - TokensOf(u)' = balance[u] - TokensOf(u)
           /\ \A x \in Address \ {u} : stats'[x] = stats[x] /\ balance'[x] = balance[x]
<1>1. /\ {WinPoints, LosePoints, WinTokens, LoseTokens} \subseteq Nat \ {0}
      /\ WelcomeTokens * Registered(u) \in Nat
    BY MarketConstants, ReferralConstants DEF Registered
<1>2. WelcomeTokens * Registered(u)' = WelcomeTokens * Registered(u)
    BY DEF ClaimStep, CountsKept, Registered
<1> DEFINE w == stats[u].won
           l == stats[u].lost
<1>3. CASE Reward(MarketContract, u, WinPoints, WinTokens, TRUE)
    <2>1. Score(u, WinPoints, 1, 0) /\ MintReward(u, WinTokens)
        BY <1>3 DEF Reward, Won, Lost
    <2>2. /\ ListInv' /\ w \in Nat /\ l \in Nat
          /\ stats'[u].won = w + 1 /\ stats'[u].lost = l + 0
          /\ \A x \in Address \ {u} : stats'[x] = stats[x]
        BY <1>1, <2>1, ScoreCounts DEF RecordsInv
    <2>3. /\ Holdings' /\ balance[u] \in Nat /\ balance'[u] = balance[u] + WinTokens
          /\ \A x \in Address \ {u} : balance'[x] = balance[x]
        BY <1>1, <2>1, MintAddsTokens DEF RecordsInv
    <2>4. /\ WinTokens * w \in Nat /\ LoseTokens * l \in Nat
          /\ WinTokens * (w + 1) = WinTokens * w + WinTokens
        BY <1>1, <2>2, ProductIsNatural
    <2>5. /\ TokensOf(u) = WinTokens * w + LoseTokens * l + WelcomeTokens * Registered(u)
          /\ TokensOf(u)' = WinTokens * (w + 1) + LoseTokens * l + WelcomeTokens * Registered(u)
        BY <1>2, <2>2 DEF TokensOf
    <2> HIDE DEF w, l
    <2>6. TokensOf(u) \in Nat /\ TokensOf(u)' = TokensOf(u) + WinTokens
        BY <1>1, <2>4, <2>5
    <2>7. w + l \in Nat /\ (w + 1) + (l + 0) = w + l + 1
        BY <2>2
    <2> QED BY <1>1, <2>2, <2>3, <2>6, <2>7 DEF w, l
<1>4. CASE Reward(MarketContract, u, LosePoints, LoseTokens, FALSE)
    <2>1. Score(u, LosePoints, 0, 1) /\ MintReward(u, LoseTokens)
        BY <1>4 DEF Reward, Won, Lost
    <2>2. /\ ListInv' /\ w \in Nat /\ l \in Nat
          /\ stats'[u].won = w + 0 /\ stats'[u].lost = l + 1
          /\ \A x \in Address \ {u} : stats'[x] = stats[x]
        BY <1>1, <2>1, ScoreCounts DEF RecordsInv
    <2>3. /\ Holdings' /\ balance[u] \in Nat /\ balance'[u] = balance[u] + LoseTokens
          /\ \A x \in Address \ {u} : balance'[x] = balance[x]
        BY <1>1, <2>1, MintAddsTokens DEF RecordsInv
    <2>4. /\ WinTokens * w \in Nat /\ LoseTokens * l \in Nat /\ WinTokens * (w + 0) = WinTokens * w
          /\ LoseTokens * (l + 1) = LoseTokens * l + LoseTokens
        BY <1>1, <2>2, ProductIsNatural
    <2>5. /\ TokensOf(u) = WinTokens * w + LoseTokens * l + WelcomeTokens * Registered(u)
          /\ TokensOf(u)' = WinTokens * (w + 0) + LoseTokens * (l + 1)
                            + WelcomeTokens * Registered(u)
        BY <1>2, <2>2 DEF TokensOf
    <2> HIDE DEF w, l
    <2>6. TokensOf(u) \in Nat /\ TokensOf(u)' = TokensOf(u) + LoseTokens
        BY <1>1, <2>4, <2>5
    <2>7. w + l \in Nat /\ (w + 0) + (l + 1) = w + l + 1
        BY <2>2
    <2> QED BY <1>1, <2>2, <2>3, <2>6, <2>7 DEF w, l
<1> QED BY <1>3, <1>4 DEF ClaimStep

LEMMA ClaimStepKeepsRecords ==
    ASSUME RecordsInv, BooksInv', NEW u \in Address, NEW id \in MarketIds, ClaimStep(u, id)
    PROVE  RecordsInv'
<1>1. CountsKept
    BY DEF ClaimStep
<1>2. ReferralCountsMatch'
    BY <1>1 DEF RecordsInv, CountsKept, ReferralCountsMatch
<1>3. ASSUME NEW x \in Address PROVE Matches(x)'
    <2>1. Matches(x)
        BY RewardsMatchEachUser DEF RecordsInv
    <2>2. CASE x = u
        <3>1. stats[u].won + stats[u].lost = Cardinality(ClaimedIds(u)) /\ balance[u] = TokensOf(u)
            BY <2>1, <2>2 DEF Matches
        <3>2. Holdings'
            BY ClaimIsRewarded
        <3>3. balance'[u] \in Nat
            BY <3>2 DEF Holdings
        <3>4. /\ TokensOf(u) \in Nat /\ TokensOf(u)' \in Int
              /\ balance'[u] - TokensOf(u)' = balance[u] - TokensOf(u)
            <4>1. /\ stats'[u].won \in Int /\ stats'[u].lost \in Int
                  /\ Registered(u)' \in Int
                <5>1. ListInv'
                    BY ClaimIsRewarded
                <5> QED BY <5>1 DEF ListInv, LeaderboardTypeOK, Stats, Registered
            <4>2. WinTokens \in Int /\ LoseTokens \in Int /\ WelcomeTokens \in Int
                BY MarketConstants, ReferralConstants
            <4>3. TokensOf(u)' \in Int
                BY <4>1, <4>2 DEF TokensOf
            <4> QED BY <4>3, ClaimIsRewarded
        <3>5. balance'[u] = TokensOf(u)'
            BY <3>1, <3>3, <3>4
        <3>6. stats'[u].won + stats'[u].lost = Cardinality(ClaimedIds(u)')
            BY <3>1, ClaimIsRewarded, ClaimIsCounted
        <3> QED BY <2>2, <3>5, <3>6 DEF Matches
    <2>3. CASE x # u
        <3>1. stats'[x] = stats[x] /\ balance'[x] = balance[x] /\ ClaimedIds(x)' = ClaimedIds(x)
            BY <2>3, ClaimIsRewarded, ClaimIsCounted
        <3>2. profile' = profile
            BY <1>1 DEF CountsKept
        <3> QED BY <2>1, <3>1, <3>2, UntouchedUserMatches
    <2> QED BY <2>2, <2>3
<1>4. RewardsMatchClaims'
    <2>1. DOMAIN bet' = MarketIds
        BY DEF BooksInv
    <2> QED BY <1>3, <2>1 DEF RewardsMatchClaims, Matches, TokensOf, ClaimedIds
<1>5. ListInv' /\ Holdings'
    BY ClaimIsRewarded
<1> QED BY <1>1, <1>2, <1>4, <1>5 DEF RecordsInv, CountsKept

LEMMA StepKeepsRecords ==
    ASSUME RecordsInv, [MarketNext]_allMarketVars
    PROVE  RecordsInv'
<1>1. RecordsStep /\ BooksInv'
    BY StepIsRecordsStep, StepKeepsBooks DEF RecordsInv
<1>2. CASE RecordsKept
    BY <1>1, <1>2, IdleStepKeepsRecords
<1>3. CASE BonusStep
    BY <1>1, <1>3, BonusStepKeepsRecords
<1>4. CASE \E u \in Address, r \in Referrers : RegisterStep(u, r)
    BY <1>1, <1>4, RegisterStepKeepsRecords
<1>5. CASE \E u \in Address, id \in MarketIds : ClaimStep(u, id)
    BY <1>1, <1>5, ClaimStepKeepsRecords
<1> QED BY <1>1, <1>2, <1>3, <1>4, <1>5 DEF RecordsStep

LEMMA RecordsInvInit ==
    ASSUME DeployedInit
    PROVE  RecordsInv
<1>1. ListInv
    <2>1. LeaderboardEmpty /\ lbCfg \in LbConfig
        BY LeaderboardConstants DEF DeployedInit, DeployedRewards, LbConfig
    <2>2. LeaderboardTypeOK
        BY <2>1, LeaderboardConstants
        DEF LeaderboardEmpty, LeaderboardTypeOK, Stats, Points, Entry, NoEntry, Slots
    <2>3. Occupied(topCount) = {} /\ topCount = 0 /\ \A u \in Address : slotOf[u] = NoSlot
        BY <2>1 DEF LeaderboardEmpty, Occupied
    <2> QED BY <2>2, <2>3
        DEF ListInv, SlotIndexConsistent, ListedPointsCurrent, CutoffIsLowerBound
<1>2. Holdings
    <2>1. balance = [a \in Address |-> 0] /\ balance \in [Address -> Nat] /\ totalSupply = 0
        BY DEF DeployedInit, DeployedRewards
    <2>2. SumFunctionOnSet(balance, Address) = 0
        BY <2>1, TokenConstants, SumOfZeros
    <2> QED BY <2>1, <2>2, SupplyIsSum DEF Holdings
<1>3. /\ profile = [u \in Address |-> NoProfile]
      /\ referralCount = [u \in Address |-> 0]
    BY DEF DeployedInit, ReferralInit
<1>4. /\ profile \in [Address -> ProfileRecord] /\ referralCount \in [Address -> Nat]
      /\ \A u \in Address : profile[u].referrer = Nobody /\ ~profile[u].registered
    BY <1>3 DEF NoProfile, ProfileRecord
<1>5. ReferralCountsMatch
    <2>1. \A r \in Address : {u \in Address : profile[u].referrer = r} = {}
        BY <1>4, TokenConstants
    <2> QED BY <1>3, <2>1, FS_EmptySet DEF ReferralCountsMatch
<1>6. RewardsMatchClaims
    <2> SUFFICES ASSUME NEW u \in Address PROVE Matches(u)
        BY BooksInvInit, RewardsMatchEachUser
    <2>1. stats[u].won = 0 /\ stats[u].lost = 0 /\ balance[u] = 0
        BY DEF DeployedInit, DeployedRewards, LeaderboardEmpty
    <2>2. \A id \in MarketIds : ~bet[id][u].claimed
        BY DEF DeployedInit, MarketInit, NoBet
    <2>3. Cardinality(ClaimedIds(u)) = 0
        <3>1. ClaimedIds(u) = {}
            BY <2>2 DEF ClaimedIds
        <3> QED BY <3>1, FS_EmptySet
    <2>4. TokensOf(u) = 0
        <3>1. WinTokens \in Nat /\ LoseTokens \in Nat /\ WelcomeTokens \in Nat
            BY MarketConstants, ReferralConstants
        <3>2. Registered(u) = 0
            BY <1>4 DEF Registered
        <3> QED BY <2>1, <3>1, <3>2 DEF TokensOf
    <2> QED BY <2>1, <2>3, <2>4 DEF Matches
<1> QED BY <1>1, <1>2, <1>4, <1>5, <1>6, BooksInvInit DEF RecordsInv

\* The invariant of what the leaderboard, the token and the registry write down
\* when the market and its users call them.
THEOREM RecordsInvariant == MarketSpec => []RecordsInv
<1>1. DeployedInit => RecordsInv
    BY RecordsInvInit
<1>2. RecordsInv /\ [MarketNext]_allMarketVars => RecordsInv'
    BY StepKeepsRecords
<1> QED BY <1>1, <1>2, PTL DEF MarketSpec

\* IPRED, leaderboard and bets tell the same story: a claimed market is one won
\* or lost bet and its tokens, a registration its welcome tokens, and nothing
\* else mints or counts (claim, register_referral and credit).
THEOREM RewardsAlwaysMatch == MarketSpec => []RewardsMatchClaims
<1>1. RecordsInv => RewardsMatchClaims
    BY DEF RecordsInv
<1> QED BY <1>1, RecordsInvariant, PTL

\* The counter register_referral raises is the number of profiles that name the
\* referrer.
THEOREM ReferralsAlwaysCounted == MarketSpec => []ReferralCountsMatch
<1>1. RecordsInv => ReferralCountsMatch
    BY DEF RecordsInv
<1> QED BY <1>1, RecordsInvariant, PTL

\* The leaderboard's list, index and cut-off stay consistent under the calls of
\* the deployed system, and the reward token's supply is what its holders hold.
THEOREM RewardContractsConsistent ==
    MarketSpec => [](SlotIndexConsistent /\ ListedPointsCurrent /\ CutoffIsLowerBound
                     /\ SupplyIsHeld)
<1>1. RecordsInv => SlotIndexConsistent /\ ListedPointsCurrent /\ CutoffIsLowerBound
                    /\ SupplyIsHeld
    BY DEF RecordsInv, ListInv, Holdings, SupplyIsHeld
<1> QED BY <1>1, RecordsInvariant, PTL
=============================================================================
