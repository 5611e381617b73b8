------------------------- MODULE MarketMoney_proofs -------------------------
(***************************************************************************)
(* The market contract's money, for any number of markets, users, bets and *)
(* amounts: until something is cancelled it holds what it owes, and but    *)
(* for roundings nothing else, and while the fees stay it holds the refunds*)
(* of what is cancelled as well.                                           *)
(***************************************************************************)
EXTENDS PredictionMarket_proofs

-----------------------------------------------------------------------------
(* The money a step moves *)

\* What the contract holds beside the fee pot.
Held == xlm[MarketContract] - accFees

\* The pot is empty when initialize empties it.
FundsOK ==
    /\ xlm \in [Address -> Nat]
    /\ accFees \in Nat
    /\ mktCfg.admin = Nobody => accFees = 0
    /\ profile \in [Address -> ProfileRecord]

LEMMA ContractsDiffer ==
    /\ MarketContract # ReferralContract
    /\ MarketContract # Nobody /\ ReferralContract # Nobody
    /\ MarketContract \in Address /\ ReferralContract \in Address
<1> DEFINE two   == {LeaderboardContract} \cup {TokenContract}
           three == two \cup {XlmContract}
           four  == three \cup {MarketContract}
<1>1. IsFiniteSet({LeaderboardContract}) /\ Cardinality({LeaderboardContract}) = 1
    BY FS_Singleton
<1>2. IsFiniteSet(two) /\ Cardinality(two) \in 0 .. 2
    BY <1>1, FS_AddElement
<1> HIDE DEF two
<1>3. IsFiniteSet(three) /\ Cardinality(three) \in 0 .. 3
    BY <1>2, FS_AddElement
<1> HIDE DEF three
<1>4. IsFiniteSet(four) /\ Cardinality(four) \in 0 .. 4
    BY <1>3, FS_AddElement
<1>5. Cardinality({LeaderboardContract, TokenContract, MarketContract,
                   ReferralContract, XlmContract}) = 5
    BY MarketConstants
<1>6. MarketContract # ReferralContract
    <2> SUFFICES ASSUME MarketContract = ReferralContract PROVE FALSE
        OBVIOUS
    <2>1. {LeaderboardContract, TokenContract, MarketContract,
           ReferralContract, XlmContract} = four
        BY DEF two, three
    <2> HIDE DEF four
    <2> QED BY <1>4, <1>5, <2>1
<1> QED BY <1>6, TokenConstants, LeaderboardConstants, ReferralConstants

LEMMA TransferFacts ==
    ASSUME NEW bal \in [Address -> Nat], NEW from \in Address, NEW to \in Address,
           NEW amount \in Nat, bal[from] >= amount
    PROVE  /\ Transferred(bal, from, to, amount) \in [Address -> Nat]
           /\ \A a \in Address : Transferred(bal, from, to, amount)[a]
                 = IF from = to THEN bal[a]
                   ELSE IF a = from THEN bal[a] - amount
                   ELSE IF a = to THEN bal[a] + amount ELSE bal[a]
<1>1. bal[from] \in Nat /\ bal[to] \in Nat /\ bal[from] - amount \in Nat
    OBVIOUS
<1> DEFINE left == [bal EXCEPT ![from] = bal[from] - amount]
<1>2. left \in [Address -> Nat]
    BY <1>1
<1>3. \A a \in Address : left[a] = IF a = from THEN bal[a] - amount ELSE bal[a]
    BY <1>1
<1>4. Transferred(bal, from, to, amount) = [left EXCEPT ![to] = left[to] + amount]
    BY DEF Transferred
<1> HIDE DEF left
<1>5. left[to] + amount \in Nat
    BY <1>2
<1>6. \A a \in Address : Transferred(bal, from, to, amount)[a]
          = IF a = to THEN left[to] + amount ELSE left[a]
    BY <1>2, <1>4
<1>7. Transferred(bal, from, to, amount) \in [Address -> Nat]
    BY <1>2, <1>4, <1>5
<1>8. ASSUME NEW a \in Address
      PROVE  Transferred(bal, from, to, amount)[a]
                 = IF from = to THEN bal[a]
                   ELSE IF a = from THEN bal[a] - amount
                   ELSE IF a = to THEN bal[a] + amount ELSE bal[a]
    <2>1. bal[a] \in Nat
        OBVIOUS
    <2> QED BY <1>1, <1>3, <1>6, <2>1
<1> QED BY <1>7, <1>8

\* The fees of a bet and its net amount add up to the amount but for a unit.
LEMMA FeesAddUp ==
    ASSUME NEW amount \in Nat
    PROVE  /\ TotalFee(amount) \in Nat /\ PlatformFee(amount) \in Nat
           /\ ReferralFee(amount) \in Nat /\ Net(amount) \in Nat
           /\ TotalFee(amount) = PlatformFee(amount) + ReferralFee(amount)
           /\ ReferralFee(amount) <= amount
           /\ Net(amount) <= amount - TotalFee(amount)
           /\ amount - TotalFee(amount) <= Net(amount) + 1
BY DEF TotalFee, PlatformFee, ReferralFee, Net

\* Who holds what, after a step that leaves the pot at fees and the balances at xlm'.
MoneyMoves(least, most) ==
    /\ xlm' \in [Address -> Nat] /\ accFees' \in Nat
    /\ profile' = profile
    /\ Held + least <= Held'
    /\ PaysOthers => Held' <= Held + most
    /\ ReferralContract \notin Referrers \cup Treasuries =>
          xlm'[ReferralContract] = xlm[ReferralContract]

LEMMA BetMovesMoney ==
    ASSUME FundsOK, NEW user \in Bettors, NEW amount \in BetAmounts,
           Affordable(xlm, user, amount), FeeKept(user, amount) \/ FeeOffered(user, amount)
    PROVE  MoneyMoves(Net(amount), Net(amount) + 1)
<1> DEFINE taken  == Transferred(xlm, user, MarketContract, amount)
           fee    == ReferralFee(amount)
           handed == Transferred(taken, MarketContract, ReferralContract, fee)
           M      == MarketContract
           R      == ReferralContract
<1>1. /\ xlm \in [Address -> Nat] /\ accFees \in Nat
      /\ M \in Address /\ R \in Address /\ M # R
      /\ user \in Address /\ user # M /\ user # R /\ amount \in Nat /\ xlm[user] >= amount
    BY ContractsDiffer, BettorsAreUsers, MarketConstants DEF FundsOK, Affordable
<1>2. /\ TotalFee(amount) \in Nat /\ PlatformFee(amount) \in Nat /\ fee \in Nat
      /\ Net(amount) \in Nat /\ TotalFee(amount) = PlatformFee(amount) + fee
      /\ Net(amount) <= amount - TotalFee(amount)
      /\ amount - TotalFee(amount) <= Net(amount) + 1
    BY <1>1, FeesAddUp
<1>3. taken \in [Address -> Nat] /\ taken[M] = xlm[M] + amount /\ taken[R] = xlm[R]
    BY <1>1, TransferFacts
<1>4. CASE FeeKept(user, amount)
    <2>1. xlm' = taken /\ accFees' = accFees + TotalFee(amount) /\ profile' = profile
        BY <1>4 DEF FeeKept, rewardVars, refVars
    <2> HIDE DEF taken
    <2>2. xlm[M] \in Nat
        BY <1>1
    <2>3. Held' = Held + amount - TotalFee(amount) /\ Held \in Int
        BY <1>1, <1>2, <1>3, <2>1, <2>2 DEF Held
    <2>4. accFees' \in Nat /\ xlm' \in [Address -> Nat] /\ xlm'[R] = xlm[R]
        BY <1>1, <1>2, <1>3, <2>1
    <2> QED BY <1>1, <1>2, <2>1, <2>3, <2>4 DEF MoneyMoves
<1>5. CASE FeeOffered(user, amount)
    <2>1. /\ taken[M] >= fee /\ profile' = profile
          /\ CreditReferrer(M, user, fee, handed) \/ ReturnFee(M, user, fee, handed)
          /\ accFees' = accFees + IF HasReferrer(user) THEN PlatformFee(amount) ELSE TotalFee(amount)
        BY <1>5 DEF FeeOffered, Credit, Affordable
    <2> HIDE DEF taken
    <2>2. handed \in [Address -> Nat] /\ handed[M] = taken[M] - fee /\ handed[R] = taken[R] + fee
        BY <1>1, <1>2, <1>3, <2>1, TransferFacts
    <2> HIDE DEF handed, fee
    <2>3. xlm[M] \in Nat /\ xlm[R] \in Nat /\ Held \in Int
        BY <1>1 DEF Held
    <2>4. CASE CreditReferrer(M, user, fee, handed)
        <3> DEFINE r == profile[user].referrer
        <3>1. /\ HasReferrer(user) /\ handed[R] >= fee
              /\ xlm' = Transferred(handed, R, r, fee)
            BY <2>4 DEF CreditReferrer, Affordable
        <3>2. r \in Referrers /\ r \in Address /\ r # Nobody
            BY <1>1, <3>1, MarketConstants, TokenConstants DEF HasReferrer, FundsOK, ProfileRecord
        <3> HIDE DEF r
        <3>3. /\ xlm' \in [Address -> Nat]
              /\ xlm'[M] = IF r = M THEN handed[M] + fee ELSE handed[M]
              /\ r # R => xlm'[R] = handed[R] - fee
            <4>1. /\ handed \in [Address -> Nat] /\ R \in Address /\ r \in Address
                  /\ fee \in Nat /\ handed[R] >= fee
                BY <1>1, <1>2, <2>2, <3>1, <3>2
            <4>2. /\ Transferred(handed, R, r, fee) \in [Address -> Nat]
                  /\ \A a \in Address : Transferred(handed, R, r, fee)[a]
                        = IF R = r THEN handed[a]
                          ELSE IF a = R THEN handed[a] - fee
                          ELSE IF a = r THEN handed[a] + fee ELSE handed[a]
                BY <4>1, TransferFacts
            <4> QED BY <1>1, <3>1, <4>2
        <3>4. accFees' = accFees + PlatformFee(amount) /\ accFees' \in Nat
            BY <1>1, <1>2, <2>1, <3>1
        <3>5. Held' = Held + amount - TotalFee(amount) + IF r = M THEN fee ELSE 0
            BY <1>1, <1>2, <1>3, <2>2, <2>3, <3>3, <3>4 DEF Held
        <3>6. PaysOthers => r # M
            BY <3>2 DEF PaysOthers
        <3>7. R \notin Referrers \cup Treasuries => xlm'[R] = xlm[R]
            BY <1>1, <1>2, <1>3, <2>2, <2>3, <3>2, <3>3
        <3> QED BY <1>1, <1>2, <2>1, <2>3, <3>3, <3>4, <3>5, <3>6, <3>7 DEF MoneyMoves
    <2>5. CASE ReturnFee(M, user, fee, handed)
        <3>1. accFees' = accFees + TotalFee(amount) /\ accFees' \in Nat
            BY <1>1, <1>2, <2>1, <2>5 DEF ReturnFee
        <3>2. /\ xlm' \in [Address -> Nat]
              /\ xlm'[M] = handed[M] + fee
              /\ xlm'[R] = handed[R] - fee
            <4>1. CASE fee > 0
                <5>1. handed[R] >= fee /\ xlm' = Transferred(handed, R, M, fee)
                    BY <2>5, <4>1 DEF ReturnFee, Affordable
                <5> QED BY <1>1, <1>2, <2>2, <5>1, TransferFacts
            <4>2. CASE ~(fee > 0)
                <5>1. fee = 0 /\ xlm' = handed
                    BY <1>2, <2>5, <4>2 DEF ReturnFee
                <5> QED BY <1>1, <2>2, <5>1
            <4> QED BY <4>1, <4>2
        <3>3. Held' = Held + amount - TotalFee(amount)
            BY <1>1, <1>2, <1>3, <2>2, <2>3, <3>1, <3>2 DEF Held
        <3>4. xlm'[R] = xlm[R]
            BY <1>1, <1>2, <1>3, <2>2, <2>3, <3>2
        <3> QED BY <1>1, <1>2, <2>1, <2>3, <3>1, <3>2, <3>3, <3>4 DEF MoneyMoves
    <2> QED BY <2>1, <2>4, <2>5
<1> QED BY <1>4, <1>5

\* The contract pays somebody, and its pot changes.
LEMMA PaymentMovesMoney ==
    ASSUME FundsOK, NEW to \in Address, NEW amount \in Nat,
           XlmTransfer(MarketContract, to, amount),
           accFees' \in Nat, profile' = profile, to # ReferralContract
                             \/ ReferralContract \in Referrers \cup Treasuries
    PROVE  /\ xlm' \in [Address -> Nat]
           /\ Held' = Held - (IF to = MarketContract THEN 0 ELSE amount) + accFees - accFees'
           /\ Held \in Int
           /\ ReferralContract \notin Referrers \cup Treasuries =>
                 xlm'[ReferralContract] = xlm[ReferralContract]
<1>1. /\ xlm \in [Address -> Nat] /\ accFees \in Nat
      /\ MarketContract \in Address /\ ReferralContract \in Address
      /\ MarketContract # ReferralContract
    BY ContractsDiffer DEF FundsOK
<1>2. xlm[MarketContract] >= amount /\ xlm' = Transferred(xlm, MarketContract, to, amount)
    BY DEF XlmTransfer, Affordable
<1>3. /\ xlm' \in [Address -> Nat]
      /\ xlm'[MarketContract] = IF to = MarketContract THEN xlm[MarketContract]
                                ELSE xlm[MarketContract] - amount
      /\ to # ReferralContract => xlm'[ReferralContract] = xlm[ReferralContract]
    BY <1>1, <1>2, TransferFacts
<1>4. xlm[MarketContract] \in Nat /\ Held \in Int
    BY <1>1 DEF Held
<1> QED BY <1>1, <1>3, <1>4 DEF Held

-----------------------------------------------------------------------------
(* What a step does to the stakes *)

Counted(id) == SumFunction([u \in Address |-> bet[id][u].count])
Steps(id)   == Counted(id) + Cardinality(Winners(id))
Share(id)   == [u \in Address |-> IF u \in Unpaid(id) THEN Payout(id, u) ELSE 0]

\* The stakes of one market, and its roundings, move no further than the money.
Settles(id) ==
    /\ \A other \in MarketIds \ {id} :
          Stakes(other)' = Stakes(other) /\ Steps(other)' = Steps(other)
    /\ Stakes(id)' \in Nat /\ Steps(id)' \in Nat
    /\ Stakes(id)' - Stakes(id) <= Held' - Held
    /\ PaysOthers =>
          Held' - Held <= (Stakes(id)' - Stakes(id)) + (Steps(id)' - Steps(id))

\* No stakes move, and no money leaves.
Rests ==
    /\ \A id \in MarketIds : Stakes(id)' = Stakes(id) /\ Steps(id)' = Steps(id)
    /\ Held <= Held'
    /\ PaysOthers => Held' = Held

LEMMA UndecidedStakes ==
    ASSUME NEW id \in MarketIds
    PROVE  /\ Undecided(id) => Stakes(id) = Pool(market[id]) /\ Winners(id) = {}
           /\ Undecided(id)' => Stakes(id)' = Pool(market'[id]) /\ Winners(id)' = {}
BY DEF Undecided, Stakes, Winners, Pool

LEMMA ResolvedStakes ==
    ASSUME NEW id \in MarketIds
    PROVE  /\ market[id].resolved /\ ~market[id].cancelled =>
                 /\ Stakes(id) = SumFunctionOnSet(Share(id), Unpaid(id))
                 /\ Winners(id) = Backers(id, market[id].outcome)
           /\ market'[id].resolved /\ ~market'[id].cancelled =>
                 /\ Stakes(id)' = SumFunctionOnSet(Share(id)', Unpaid(id)')
                 /\ Winners(id)' = Backers(id, market[id].outcome)'
BY DEF Stakes, Winners, Share

LEMMA SameStakes ==
    ASSUME NEW id \in MarketIds, market'[id] = market[id], bet'[id] = bet[id]
    PROVE  Stakes(id)' = Stakes(id) /\ Steps(id)' = Steps(id)
<1>1. Unpaid(id)' = Unpaid(id)
    BY DEF Unpaid, RealWin, Wins
<1>2. \A u \in Address : Payout(id, u)' = Payout(id, u)
    BY DEF Payout
<1>3. Share(id)' = Share(id)
    BY <1>1, <1>2 DEF Share
<1>4. [u \in Address |-> bet'[id][u].gross] = [u \in Address |-> bet[id][u].gross]
    OBVIOUS
<1>5. [u \in Address |-> bet'[id][u].count] = [u \in Address |-> bet[id][u].count]
    OBVIOUS
<1>6. Winners(id)' = Winners(id)
    BY DEF Winners, Backers
<1>7. Stakes(id)' = Stakes(id)
    BY <1>1, <1>3, <1>4 DEF Stakes, Share
<1>8. Steps(id)' = Steps(id)
    BY <1>5, <1>6 DEF Steps, Counted
<1> QED BY <1>7, <1>8

\* An undecided market's stakes are its totals.
LEMMA SameTotalsSameStakes ==
    ASSUME NEW id \in MarketIds, bet'[id] = bet[id], Undecided(id), Undecided(id)',
           SameTotals(market'[id], market[id])
    PROVE  Stakes(id)' = Stakes(id) /\ Steps(id)' = Steps(id)
<1>1. Stakes(id)' = Stakes(id) /\ Winners(id)' = Winners(id)
    BY UndecidedStakes DEF SameTotals, Pool
<1>2. [u \in Address |-> bet'[id][u].count] = [u \in Address |-> bet[id][u].count]
    OBVIOUS
<1> QED BY <1>1, <1>2 DEF Steps, Counted

LEMMA WinnersAreFinite ==
    ASSUME NEW id \in MarketIds
    PROVE  /\ IsFiniteSet(Winners(id)) /\ Cardinality(Winners(id)) \in Nat
           /\ IsFiniteSet(Winners(id)') /\ Cardinality(Winners(id)') \in Nat
<1>1. Winners(id) \subseteq Address /\ Winners(id)' \subseteq Address
    BY DEF Winners, Backers
<1> QED BY <1>1, TokenConstants, FS_Subset, FS_CardinalityType

LEMMA CountsAreNatural ==
    ASSUME BooksInv, NEW id \in MarketIds
    PROVE  Counted(id) \in Nat /\ Steps(id) \in Nat
<1> DEFINE f == [u \in Address |-> bet[id][u].count]
<1>1. \A u \in Address : f[u] \in Nat
    BY BookTypes
<1>2. DOMAIN f = Address /\ Counted(id) = SumFunction(f)
    BY DEF Counted
<1> HIDE DEF f
<1>3. SumFunction(f) \in Nat
    BY <1>1, <1>2, TokenConstants, SumIsNatural DEF SumFunction
<1> QED BY <1>2, <1>3, WinnersAreFinite DEF Steps

LEMMA PayoutIsNatural ==
    ASSUME BooksInv, NEW id \in MarketIds, NEW u \in Address, RealWin(id, u)
    PROVE  Payout(id, u) \in Nat
<1>1. bet[id][u].net \in Nat /\ market[id].totalYes \in Nat /\ market[id].totalNo \in Nat
    BY BookTypes
<1>2. Pool(market[id]) \in Nat /\ Side(market[id], market[id].outcome) \in Nat \ {0}
    BY <1>1 DEF Pool, Side, RealWin
<1>3. bet[id][u].net * Pool(market[id]) \in Nat
    BY <1>1, <1>2, ProductIsNatural
<1> QED BY <1>2, <1>3, QuotientBound DEF Payout

LEMMA SharesAreNatural ==
    ASSUME BooksInv, NEW id \in MarketIds
    PROVE  /\ Unpaid(id) \subseteq Address /\ IsFiniteSet(Unpaid(id))
           /\ \A u \in Address : Share(id)[u] \in Nat
           /\ SumFunctionOnSet(Share(id), Unpaid(id)) \in Nat
<1>1. Unpaid(id) \subseteq Address /\ IsFiniteSet(Unpaid(id))
    <2>1. Unpaid(id) \subseteq Address
        BY DEF Unpaid
    <2> QED BY <2>1, TokenConstants, FS_Subset
<1>2. \A u \in Unpaid(id) : Payout(id, u) \in Nat
    BY PayoutIsNatural DEF Unpaid
<1>3. \A u \in Address : Share(id)[u] \in Nat
    BY <1>2 DEF Share
<1> QED BY <1>1, <1>3, SumIsNatural

LEMMA StakesAreNatural ==
    ASSUME BooksInv, NEW id \in MarketIds, ~market[id].cancelled
    PROVE  Stakes(id) \in Nat
<1>1. CASE market[id].resolved
    BY <1>1, ResolvedStakes, SharesAreNatural
<1>2. CASE ~market[id].resolved
    <2>1. Stakes(id) = Pool(market[id])
        BY <1>2, UndecidedStakes DEF Undecided
    <2> QED BY <2>1, BookTypes, TokenConstants DEF Pool, BooksInv, VerdictInv, MarketRecord
<1> QED BY <1>1, <1>2

\* A bet stakes its net amount; one rounding at most stays behind.
LEMMA BetSettles ==
    ASSUME BooksInv, FundsOK, NEW user \in Bettors, NEW id \in MarketIds, NEW isYes \in BOOLEAN,
           NEW amount \in BetAmounts, PlaceBet(user, id, isYes, amount)
    PROVE  Settles(id) /\ MoneyMoves(Net(amount), Net(amount) + 1)
<1> DEFINE f == [u \in Address |-> bet[id][u].count]
           g == [u \in Address |-> bet'[id][u].count]
<1>1. MoneyMoves(Net(amount), Net(amount) + 1)
    BY BetMovesMoney DEF PlaceBet, BetAccepted
<1>2. /\ user \in Address /\ Net(amount) \in Nat /\ Undecided(id)
      /\ bet'[id][user].count = bet[id][user].count + 1
      /\ \A u \in Address \ {user} : bet'[id][u] = bet[id][u]
      /\ \A other \in MarketIds \ {id} : bet'[other] = bet[other]
    BY BetFacts DEF BetEffect
<1>3. /\ market'[id].totalYes = market[id].totalYes + IF isYes THEN Net(amount) ELSE 0
      /\ market'[id].totalNo  = market[id].totalNo  + IF isYes THEN 0 ELSE Net(amount)
      /\ ~market'[id].resolved /\ ~market'[id].cancelled
      /\ \A other \in MarketIds \ {id} : market'[other] = market[other]
    BY BetMovesMarket
<1>4. market[id].totalYes \in Nat /\ market[id].totalNo \in Nat
    BY BookTypes, TokenConstants DEF BooksInv, VerdictInv, MarketRecord
<1>5. Stakes(id) = Pool(market[id]) /\ Stakes(id)' = Pool(market'[id]) /\ Winners(id)' = Winners(id)
    BY <1>2, <1>3, UndecidedStakes DEF Undecided
<1>6. Stakes(id) \in Nat /\ Stakes(id)' = Stakes(id) + Net(amount)
    BY <1>2, <1>3, <1>4, <1>5 DEF Pool
<1>7. Steps(id) \in Nat /\ Steps(id)' = Steps(id) + 1
    <2>1. \A u \in Address : f[u] \in Nat
        BY BookTypes
    <2>2. /\ g[user] = f[user] + 1 /\ \A u \in Address \ {user} : g[u] = f[u]
          /\ DOMAIN f = Address /\ DOMAIN g = Address
        BY <1>2
    <2>3. Counted(id) = SumFunction(f) /\ Counted(id)' = SumFunction(g)
        BY DEF Counted
    <2> HIDE DEF f, g
    <2>4. \A u \in Address : f[u] \in Int /\ g[u] \in Int
        BY <1>2, <2>1, <2>2
    <2>5. SumFunctionOnSet(g, Address) = SumFunctionOnSet(f, Address) + g[user] - f[user]
        BY <1>2, <2>2, <2>4, TokenConstants, SumOfUpdate
    <2>6. Counted(id)' = Counted(id) + g[user] - f[user]
        BY <2>2, <2>3, <2>5 DEF SumFunction
    <2>7. Counted(id) \in Nat /\ Steps(id) \in Nat /\ Cardinality(Winners(id)) \in Nat
        BY CountsAreNatural, WinnersAreFinite
    <2>8. Counted(id)' = Counted(id) + 1
        BY <1>2, <2>1, <2>2, <2>6, <2>7
    <2> QED BY <1>5, <2>7, <2>8 DEF Steps
<1>8. \A other \in MarketIds \ {id} : Stakes(other)' = Stakes(other) /\ Steps(other)' = Steps(other)
    BY <1>2, <1>3, SameStakes
<1>9. Held \in Int /\ Held' \in Int
    BY <1>1, ContractsDiffer DEF Held, FundsOK, MoneyMoves
<1>10. /\ Held + Net(amount) <= Held'
       /\ PaysOthers => Held' <= Held + (Net(amount) + 1)
    BY <1>1 DEF MoneyMoves
<1>11. Stakes(id)' \in Nat /\ Steps(id)' \in Nat
    BY <1>2, <1>6, <1>7
<1>12. Stakes(id)' - Stakes(id) = Net(amount) /\ Steps(id)' - Steps(id) = 1
    BY <1>2, <1>6, <1>7
<1>13. /\ Stakes(id)' - Stakes(id) <= Held' - Held
       /\ PaysOthers =>
             Held' - Held <= (Stakes(id)' - Stakes(id)) + (Steps(id)' - Steps(id))
    BY <1>2, <1>9, <1>10, <1>12
<1> QED BY <1>1, <1>8, <1>11, <1>13 DEF Settles

\* A resolution owes the winners their shares of the whole pool, or the pot the
\* whole pool when nobody wins; one rounding a winner at most stays behind.
LEMMA ResolutionStakes ==
    ASSUME BooksInv, NEW id \in MarketIds, NEW o \in BOOLEAN,
           Undecided(id), MarketResolvedTo(id, o), bet' = bet
    PROVE  /\ Stakes(id) \in Nat /\ Stakes(id)' \in Nat /\ Swept(id, o) \in Nat
           /\ Steps(id) \in Nat /\ Steps(id)' \in Nat
           /\ Stakes(id)' + Swept(id, o) <= Stakes(id)
           /\ Stakes(id) <= Stakes(id)' + Swept(id, o) + (Steps(id)' - Steps(id))
           /\ \A other \in MarketIds \ {id} :
                 Stakes(other)' = Stakes(other) /\ Steps(other)' = Steps(other)
<1> DEFINE pool == Pool(market[id])
           side == Side(market[id], o)
           B    == Backers(id, o)
           net  == [u \in Address |-> bet[id][u].net]
<1>1. /\ Undecided(id) /\ market' = [market EXCEPT ![id].resolved = TRUE, ![id].outcome = o]
      /\ bet' = bet
    BY DEF MarketResolvedTo
<1>2. market \in [MarketIds -> MarketRecord] /\ market[id] \in MarketRecord
    BY DEF BooksInv, VerdictInv
<1>3. /\ market'[id].resolved /\ market'[id].outcome = o /\ ~market'[id].cancelled
      /\ market'[id].totalYes = market[id].totalYes /\ market'[id].totalNo = market[id].totalNo
      /\ \A other \in MarketIds \ {id} : market'[other] = market[other]
    BY <1>1, <1>2 DEF MarketRecord, Undecided
<1>4. pool \in Nat /\ side \in Nat
    BY <1>2 DEF Pool, Side, MarketRecord
<1>5. Pool(market'[id]) = pool /\ Side(market'[id], o) = side
    BY <1>3 DEF Pool, Side
<1>6. Stakes(id) = pool /\ Winners(id) = {}
    BY <1>1, UndecidedStakes
<1>7. /\ Stakes(id)' = SumFunctionOnSet(Share(id)', Unpaid(id)')
      /\ Winners(id)' = B
    <2>1. B' = B
        BY <1>1 DEF Backers
    <2>2. Winners(id)' = Backers(id, o)'
        BY <1>3 DEF Winners
    <2> QED BY <1>3, <2>1, <2>2, ResolvedStakes
<1>8. Unpaid(id)' = IF side > 0 THEN B ELSE {}
    <2>1. \A u \in Address : ~bet[id][u].claimed
        BY <1>1 DEF BooksInv, EntriesOK, Undecided
    <2>2. \A u : RealWin(id, u)' <=> bet[id][u].isYes = o /\ side > 0
        BY <1>1, <1>3, <1>5 DEF RealWin, Wins
    <2> QED BY <1>1, <2>1, <2>2 DEF Unpaid, Backers
<1>9. B \subseteq Address /\ IsFiniteSet(B) /\ Cardinality(B) \in Nat
    BY BackersAreFinite, FS_CardinalityType
<1>10. /\ Stakes(id)' \in Nat /\ Stakes(id)' + Swept(id, o) <= pool
       /\ pool <= Stakes(id)' + Swept(id, o) + Cardinality(B) /\ Swept(id, o) \in Nat
    <2>1. CASE side = 0
        <3>1. Swept(id, o) = pool
            BY <2>1 DEF Swept
        <3>2. Stakes(id)' = 0
            BY <1>7, <1>8, <2>1, SumOfNothing
        <3> QED BY <1>4, <1>9, <3>1, <3>2
    <2>2. CASE side # 0
        <3>1. Swept(id, o) = 0 /\ Unpaid(id)' = B
            BY <1>4, <1>8, <2>2 DEF Swept
        <3>2. side = SumFunctionOnSet(net, B)
            <4>1. CASE o = TRUE
                BY <4>1 DEF BooksInv, Agrees, SumNet, Side
            <4>2. CASE o = FALSE
                BY <4>2 DEF BooksInv, Agrees, SumNet, Side
            <4> QED BY <4>1, <4>2
        <3>3. \A u \in B : net[u] \in Nat /\ Share(id)'[u] = (net[u] * pool) \div side
            <4> TAKE u \in B
            <4>1. u \in Address /\ u \in Unpaid(id)'
                BY <1>9, <3>1
            <4>2. Share(id)'[u] = Payout(id, u)'
                BY <4>1 DEF Share
            <4>3. Payout(id, u)' = (bet[id][u].net * pool) \div side
                BY <1>1, <1>3, <1>5 DEF Payout
            <4>4. bet[id][u].net \in Nat
                BY <4>1, BookTypes
            <4> QED BY <4>1, <4>2, <4>3, <4>4
        <3> HIDE DEF net, pool, side, B
        <3>4. side \in Nat \ {0} /\ pool \in Nat
            BY <1>4, <2>2
        <3>5. LET s == SumFunctionOnSet(Share(id)', B)
              IN  s \in Nat /\ s <= pool /\ pool <= s + Cardinality(B)
            BY <1>9, <3>2, <3>3, <3>4, SharesOfAll
        <3> QED BY <1>7, <3>1, <3>5
    <2> QED BY <2>1, <2>2
<1>11. Steps(id)' = Steps(id) + Cardinality(B) /\ Steps(id) \in Nat
    <2>1. Counted(id)' = Counted(id)
        BY <1>1 DEF Counted
    <2>2. Counted(id) \in Nat /\ Steps(id) = Counted(id)
        BY <1>6, CountsAreNatural, FS_EmptySet DEF Steps
    <2> QED BY <1>7, <1>9, <2>1, <2>2 DEF Steps
<1> HIDE DEF B, pool, side, net
<1>12. \A other \in MarketIds \ {id} : Stakes(other)' = Stakes(other) /\ Steps(other)' = Steps(other)
    BY <1>1, <1>3, SameStakes
<1> QED BY <1>4, <1>6, <1>9, <1>10, <1>11, <1>12

LEMMA ResolutionSettles ==
    ASSUME BooksInv, FundsOK, NEW c, NEW id \in MarketIds, NEW o \in BOOLEAN,
           ResolveMarket(c, id, o)
    PROVE  Settles(id) /\ xlm' = xlm /\ accFees' \in Nat /\ profile' = profile
<1>1. /\ Undecided(id) /\ MarketResolvedTo(id, o) /\ bet' = bet
      /\ accFees' = accFees + Swept(id, o) /\ xlm' = xlm /\ profile' = profile
    BY DEF ResolveMarket, rewardVars, refVars
<1>2. /\ Stakes(id) \in Nat /\ Stakes(id)' \in Nat /\ Swept(id, o) \in Nat
      /\ Steps(id) \in Nat /\ Steps(id)' \in Nat
      /\ Stakes(id)' + Swept(id, o) <= Stakes(id)
      /\ Stakes(id) <= Stakes(id)' + Swept(id, o) + (Steps(id)' - Steps(id))
      /\ \A other \in MarketIds \ {id} :
            Stakes(other)' = Stakes(other) /\ Steps(other)' = Steps(other)
    BY <1>1, ResolutionStakes
<1>3. accFees \in Nat /\ xlm[MarketContract] \in Nat
    BY ContractsDiffer DEF FundsOK
<1>4. Held' = Held - Swept(id, o) /\ Held \in Int /\ accFees' \in Nat
    BY <1>1, <1>2, <1>3 DEF Held
<1>5. /\ Stakes(id)' - Stakes(id) <= Held' - Held
      /\ Held' - Held <= (Stakes(id)' - Stakes(id)) + (Steps(id)' - Steps(id))
    BY <1>2, <1>4
<1> QED BY <1>1, <1>2, <1>4, <1>5 DEF Settles

\* A claim pays its share and takes it out of what is owed.
LEMMA ClaimSettles ==
    ASSUME BooksInv, FundsOK, NEW user \in Bettors, NEW id \in MarketIds, Claim(user, id)
    PROVE  /\ Settles(id) /\ xlm' \in [Address -> Nat] /\ accFees' = accFees /\ profile' = profile
           /\ ReferralContract \notin Referrers \cup Treasuries =>
                 xlm'[ReferralContract] = xlm[ReferralContract]
<1> DEFINE rest == Unpaid(id) \ {user}
<1>1. /\ market' = market /\ accFees' = accFees /\ profile' = profile
      /\ bet' = [bet EXCEPT ![id][user].claimed = TRUE]
      /\ market[id].resolved /\ ~market[id].cancelled /\ bet[id][user].count > 0
      /\ ~bet[id][user].claimed
    BY DEF Claim, MayClaim, refVars
<1>2. /\ user \in Address /\ user # MarketContract /\ user # ReferralContract
      /\ bet \in [MarketIds -> [Address -> BetEntry]]
    BY MarketConstants, BettorsAreUsers DEF BooksInv
<1>3. \A i \in MarketIds, v \in Address :
          /\ bet'[i][v].net = bet[i][v].net /\ bet'[i][v].isYes = bet[i][v].isYes
          /\ bet'[i][v].count = bet[i][v].count
          /\ ~(i = id /\ v = user) => bet'[i][v].claimed = bet[i][v].claimed
    <2> DEFINE e == [bet[id][user] EXCEPT !.claimed = TRUE]
    <2>1. bet' = [bet EXCEPT ![id][user] = e]
        BY <1>1
    <2>2. /\ e.net = bet[id][user].net /\ e.isYes = bet[id][user].isYes
          /\ e.count = bet[id][user].count
        BY <1>2 DEF BetEntry
    <2> HIDE DEF e
    <2>3. \A i \in MarketIds, v \in Address :
              bet'[i][v] = IF i = id /\ v = user THEN e ELSE bet[i][v]
        BY <1>2, <2>1
    <2> QED BY <2>2, <2>3
<1>4. bet'[id][user].claimed /\ \A other \in MarketIds \ {id} : bet'[other] = bet[other]
    BY <1>1, <1>2 DEF BetEntry
<1>5. \A v \in Address : /\ RealWin(id, v)' = RealWin(id, v)
                         /\ Payout(id, v)' = Payout(id, v)
    BY <1>1, <1>3 DEF RealWin, Wins, Payout
<1>6. Unpaid(id)' = rest
    BY <1>3, <1>4, <1>5 DEF Unpaid
<1>7. \A v \in rest : Share(id)'[v] = Share(id)[v]
    BY <1>5, <1>6 DEF Share, Unpaid
<1>8. Steps(id)' = Steps(id) /\ Steps(id) \in Nat
    <2>1. [v \in Address |-> bet'[id][v].count] = [v \in Address |-> bet[id][v].count]
        BY <1>3
    <2>2. Winners(id)' = Winners(id)
        BY <1>1, <1>3 DEF Winners, Backers
    <2> QED BY <2>1, <2>2, CountsAreNatural DEF Steps, Counted
<1>9. /\ Stakes(id) = SumFunctionOnSet(Share(id), Unpaid(id))
      /\ Stakes(id)' = SumFunctionOnSet(Share(id)', rest)
    BY <1>1, <1>6, ResolvedStakes
<1>10. /\ Unpaid(id) \subseteq Address /\ IsFiniteSet(Unpaid(id))
       /\ \A v \in Address : Share(id)[v] \in Nat
    BY SharesAreNatural
<1>11. /\ IsFiniteSet(rest) /\ SumFunctionOnSet(Share(id)', rest) = SumFunctionOnSet(Share(id), rest)
       /\ SumFunctionOnSet(Share(id), rest) \in Nat
    <2>1. IsFiniteSet(rest)
        BY <1>10, FS_Subset
    <2>2. \A v \in rest : Share(id)[v] \in Nat /\ Share(id)'[v] = Share(id)[v]
        BY <1>7, <1>10
    <2> HIDE DEF rest
    <2> QED BY <2>1, <2>2, SumsAgree, SumIsNatural
<1>12. \A other \in MarketIds \ {id} : Stakes(other)' = Stakes(other) /\ Steps(other)' = Steps(other)
    BY <1>1, <1>4, SameStakes
<1>13. xlm \in [Address -> Nat] /\ accFees \in Nat
    BY DEF FundsOK
<1>14. CASE RealWin(id, user)
    <2>1. XlmTransfer(MarketContract, user, Payout(id, user))
        BY <1>14 DEF Claim
    <2>2. user \in Unpaid(id) /\ Share(id)[user] = Payout(id, user)
        BY <1>1, <1>2, <1>14 DEF Unpaid, Share
    <2>3. Payout(id, user) \in Nat
        BY <1>2, <1>10, <2>2
    <2>4. /\ xlm' \in [Address -> Nat] /\ Held \in Int
          /\ Held' = Held - Payout(id, user) + accFees - accFees'
          /\ ReferralContract \notin Referrers \cup Treasuries =>
                xlm'[ReferralContract] = xlm[ReferralContract]
        BY <1>1, <1>2, <1>13, <2>1, <2>3, PaymentMovesMoney
    <2>5. Stakes(id) = Payout(id, user) + SumFunctionOnSet(Share(id), rest)
        BY <1>9, <1>10, <2>2, SumSplits
    <2> HIDE DEF rest
    <2>6. Stakes(id)' \in Nat /\ Stakes(id)' - Stakes(id) = Held' - Held
        BY <1>1, <1>9, <1>11, <1>13, <2>3, <2>4, <2>5
    <2>7. /\ Stakes(id)' - Stakes(id) <= Held' - Held
          /\ Held' - Held <= (Stakes(id)' - Stakes(id)) + (Steps(id)' - Steps(id))
        BY <1>8, <1>11, <1>13, <1>1, <2>3, <2>4, <2>6
    <2> QED BY <1>1, <1>8, <1>12, <2>4, <2>6, <2>7 DEF Settles
<1>15. CASE ~RealWin(id, user)
    <2>1. xlm' = xlm
        BY <1>15 DEF Claim
    <2>2. rest = Unpaid(id)
        BY <1>15 DEF Unpaid
    <2>3. Stakes(id)' = Stakes(id) /\ Stakes(id) \in Nat
        BY <1>9, <1>11, <2>2
    <2>4. Held' = Held /\ Held \in Int
        BY <1>1, <1>13, <2>1, ContractsDiffer DEF Held
    <2>5. /\ Stakes(id)' - Stakes(id) <= Held' - Held
          /\ Held' - Held <= (Stakes(id)' - Stakes(id)) + (Steps(id)' - Steps(id))
        BY <1>8, <2>3, <2>4
    <2> QED BY <1>1, <1>8, <1>12, <1>13, <2>1, <2>3, <2>5 DEF Settles
<1> QED BY <1>14, <1>15

LEMMA WithdrawalRests ==
    ASSUME BooksInv, FundsOK, NEW c, NEW t \in Treasuries, WithdrawFees(c, t)
    PROVE  /\ Rests /\ xlm' \in [Address -> Nat] /\ accFees' = 0 /\ profile' = profile
           /\ ReferralContract \notin Referrers \cup Treasuries =>
                 xlm'[ReferralContract] = xlm[ReferralContract]
<1>1. /\ market' = market /\ bet' = bet /\ profile' = profile /\ accFees' = 0
      /\ XlmTransfer(MarketContract, t, accFees)
    BY DEF WithdrawFees, PotPaidTo, rewardVars, refVars
<1>2. t \in Address /\ accFees \in Nat
    BY MarketConstants DEF FundsOK
<1>3. t # ReferralContract \/ ReferralContract \in Referrers \cup Treasuries
    OBVIOUS
<1>4. /\ xlm' \in [Address -> Nat] /\ Held \in Int
      /\ Held' = Held - (IF t = MarketContract THEN 0 ELSE accFees) + accFees - accFees'
      /\ ReferralContract \notin Referrers \cup Treasuries =>
            xlm'[ReferralContract] = xlm[ReferralContract]
    BY <1>1, <1>2, <1>3, PaymentMovesMoney
<1>5. Held <= Held' /\ (PaysOthers => Held' = Held)
    BY <1>1, <1>2, <1>4 DEF PaysOthers
<1>6. \A id \in MarketIds : Stakes(id)' = Stakes(id) /\ Steps(id)' = Steps(id)
    BY <1>1, SameStakes
<1> QED BY <1>1, <1>4, <1>5, <1>6 DEF Rests

LEMMA RefundKeepsFunds ==
    ASSUME BooksInv, FundsOK, NEW user \in Bettors, NEW id \in MarketIds, CancelRefund(user, id)
    PROVE  /\ ~NoneCancelled /\ xlm' \in [Address -> Nat] /\ accFees' = accFees
           /\ profile' = profile /\ mktCfg' = mktCfg
           /\ ReferralContract \notin Referrers \cup Treasuries =>
                 xlm'[ReferralContract] = xlm[ReferralContract]
<1>1. /\ market[id].cancelled /\ accFees' = accFees /\ profile' = profile /\ mktCfg' = mktCfg
      /\ XlmTransfer(MarketContract, user, bet[id][user].gross)
    BY DEF CancelRefund, rewardVars, refVars, roleVars
<1>2. user \in Address /\ user # ReferralContract /\ accFees \in Nat
    BY MarketConstants, BettorsAreUsers DEF FundsOK
<1>3. bet[id][user].gross \in Nat
    BY <1>2, BookTypes
<1>4. ~NoneCancelled
    BY <1>1 DEF NoneCancelled, BooksInv, VerdictInv
<1>5. /\ xlm' \in [Address -> Nat]
      /\ ReferralContract \notin Referrers \cup Treasuries =>
            xlm'[ReferralContract] = xlm[ReferralContract]
    BY <1>1, <1>2, <1>3, PaymentMovesMoney
<1> QED BY <1>1, <1>4, <1>5

LEMMA CancellationKeepsFunds ==
    ASSUME BooksInv, FundsOK, NEW id \in MarketIds, MarketCancelledNow(id)
    PROVE  /\ ~NoneCancelled' /\ xlm' = xlm /\ accFees' \in Nat
           /\ profile' = profile /\ mktCfg' = mktCfg
<1>1. /\ market' = [market EXCEPT ![id].cancelled = TRUE] /\ xlm' = xlm
      /\ profile' = profile /\ mktCfg' = mktCfg /\ accFees' = FeesReclaimed(Pool(market[id]))
    BY DEF MarketCancelledNow, rewardVars, refVars, roleVars
<1>2. market \in [MarketIds -> MarketRecord] /\ market[id] \in MarketRecord /\ accFees \in Nat
    BY DEF BooksInv, VerdictInv, FundsOK
<1>3. ~NoneCancelled'
    BY <1>1, <1>2 DEF NoneCancelled, MarketRecord
<1>4. Pool(market[id]) \in Nat
    BY <1>2 DEF Pool, MarketRecord
<1>5. accFees' \in Nat
    <2> DEFINE p == Pool(market[id])
    <2>1. p \in Nat
        BY <1>4
    <2> HIDE DEF p
    <2>2. FeesInPool(p) \in Nat
        BY <2>1 DEF FeesInPool
    <2>3. FeesReclaimed(p) \in Nat
        BY <1>2, <2>2 DEF FeesReclaimed
    <2> QED BY <1>1, <2>3 DEF p
<1> QED BY <1>1, <1>3, <1>5

-----------------------------------------------------------------------------
(* Every step *)

RegistryKeeps ==
    ReferralContract \notin Referrers \cup Treasuries =>
        xlm'[ReferralContract] = xlm[ReferralContract]

MoneyStep ==
    /\ FundsOK'
    /\ RegistryKeeps
    /\ NoneCancelled /\ NoneCancelled' => Rests \/ \E id \in MarketIds : Settles(id)

\* A step that moves no money and touches no bet.
LEMMA IdleStep ==
    ASSUME BooksInv, FundsOK, xlm' = xlm, accFees' = accFees, market' = market, bet' = bet,
           profile' \in [Address -> ProfileRecord],
           mktCfg'.admin = Nobody => mktCfg.admin = Nobody
    PROVE  MoneyStep
<1>1. FundsOK' /\ RegistryKeeps
    BY DEF FundsOK, RegistryKeeps
<1>2. Held' = Held /\ Held \in Int
    BY ContractsDiffer DEF Held, FundsOK
<1>3. \A id \in MarketIds : Stakes(id)' = Stakes(id) /\ Steps(id)' = Steps(id)
    BY SameStakes
<1> QED BY <1>1, <1>2, <1>3 DEF MoneyStep, Rests

LEMMA CreationMovesNoMoney ==
    ASSUME BooksInv, FundsOK, NEW d \in Durations, MayCreate, CreateMarket(Deployer, d)
    PROVE  MoneyStep
<1>1. /\ market' = [market EXCEPT ![marketCount + 1] = NewMarket(now + d)]
      /\ marketCount < MaxMarkets
      /\ bet' = bet /\ accFees' = accFees /\ xlm' = xlm /\ mktCfg' = mktCfg /\ profile' = profile
    BY DEF MayCreate, CreateMarket, roleVars, rewardVars, refVars
<1>2. /\ marketCount \in Nat /\ market \in [MarketIds -> MarketRecord] /\ MaxMarkets \in Nat
    BY MarketConstants DEF BooksInv, VerdictInv
<1>3. ASSUME NEW id \in MarketIds
      PROVE  Stakes(id)' = Stakes(id) /\ Steps(id)' = Steps(id)
    <2>1. CASE id = marketCount + 1
        <3>1. market'[id] = NewMarket(now + d) /\ id > marketCount
            BY <1>1, <1>2, <2>1
        <3>2. SameTotals(market'[id], market[id]) /\ Undecided(id) /\ Undecided(id)'
            BY <3>1, UnusedMarketIsBlank DEF NewMarket, SameTotals, Undecided
        <3> QED BY <1>1, <3>2, SameTotalsSameStakes
    <2>2. CASE id # marketCount + 1
        <3>1. market'[id] = market[id]
            BY <1>1, <1>2, <2>2
        <3> QED BY <1>1, <3>1, SameStakes
    <2> QED BY <2>1, <2>2
<1>4. Held' = Held /\ Held \in Int
    BY <1>1, ContractsDiffer DEF Held, FundsOK
<1>5. FundsOK' /\ RegistryKeeps
    BY <1>1 DEF FundsOK, RegistryKeeps
<1> QED BY <1>3, <1>4, <1>5 DEF MoneyStep, Rests

\* An initialized contract is behind every market that exists.
LEMMA ExistingMarketHasAdmin ==
    ASSUME BooksInv, NEW id \in MarketIds, Exists(id)
    PROVE  mktCfg.admin # Nobody
BY MarketConstants DEF BooksInv, VerdictInv, Exists, MarketIds

LEMMA AdminStepMovesMoney ==
    ASSUME BooksInv, FundsOK, AdminStep
    PROVE  MoneyStep
<1>1. Deployer # Nobody /\ profile \in [Address -> ProfileRecord]
    BY TokenConstants, LeaderboardConstants DEF FundsOK
<1>2. CASE RegistryDeployed
    <2>1. /\ xlm' = xlm /\ accFees' = accFees /\ market' = market /\ bet' = bet
          /\ profile' = profile /\ mktCfg' = mktCfg
        BY <1>2 DEF RegistryDeployed, ReferralInitialize, marketVars, roleVars, bookVars
    <2> QED BY <1>1, <2>1, IdleStep
<1>3. CASE MarketDeployed
    <2>1. /\ xlm' = xlm /\ accFees' = 0 /\ market' = market /\ bet' = bet
          /\ profile' = profile /\ mktCfg.admin = Nobody
        BY <1>3 DEF MarketDeployed, MarketInitialize, rewardVars, refVars
    <2>2. accFees' = accFees
        BY <2>1 DEF FundsOK
    <2> QED BY <1>1, <2>1, <2>2, IdleStep
<1>4. CASE \E d \in Durations : MayCreate /\ CreateMarket(Deployer, d)
    BY <1>4, CreationMovesNoMoney
<1>5. CASE \E c \in ConfigChoices : SetConfig(Deployer, c.referral, c.leaderboard, c.xlm)
    <2>1. /\ xlm' = xlm /\ accFees' = accFees /\ market' = market /\ bet' = bet
          /\ profile' = profile /\ mktCfg'.admin = Deployer
        BY <1>5 DEF SetConfig, bookVars, rewardVars, refVars
    <2> QED BY <1>1, <2>1, IdleStep
<1>6. CASE \E o \in Officials : AddResolver(Deployer, o) \/ RemoveResolver(Deployer, o)
    <2>1. /\ xlm' = xlm /\ accFees' = accFees /\ market' = market /\ bet' = bet
          /\ profile' = profile /\ mktCfg' = mktCfg
        BY <1>6 DEF AddResolver, RemoveResolver, SetResolvers, bookVars, rewardVars, refVars
    <2> QED BY <1>1, <2>1, IdleStep
<1>7. CASE \E c \in Collectors :
               AddFeeRecipient(Deployer, c) \/ RemoveFeeRecipient(Deployer, c)
    <2>1. /\ xlm' = xlm /\ accFees' = accFees /\ market' = market /\ bet' = bet
          /\ profile' = profile /\ mktCfg' = mktCfg
        BY <1>7 DEF AddFeeRecipient, RemoveFeeRecipient, SetRecipients, bookVars,
                    rewardVars, refVars
    <2> QED BY <1>1, <2>1, IdleStep
<1>8. CASE \E id \in MarketIds : CancelMarket(Deployer, id)
    <2>1. PICK id \in MarketIds : MarketCancelledNow(id)
        BY <1>8 DEF CancelMarket
    <2>2. /\ ~NoneCancelled' /\ xlm' = xlm /\ accFees' \in Nat
          /\ profile' = profile /\ mktCfg' = mktCfg
        BY <2>1, CancellationKeepsFunds
    <2>3. mktCfg.admin # Nobody
        BY <2>1, ExistingMarketHasAdmin DEF MarketCancelledNow, MayCancel
    <2> QED BY <2>2, <2>3 DEF MoneyStep, FundsOK, RegistryKeeps
<1>9. CASE \E c \in ConfigChoices : RegistryXlmSet(c.xlm)
    <2>1. /\ xlm' = xlm /\ accFees' = accFees /\ market' = market /\ bet' = bet
          /\ profile' = profile /\ mktCfg' = mktCfg
        BY <1>9 DEF RegistryXlmSet, SetXlmSac, marketVars, roleVars, bookVars
    <2> QED BY <1>1, <2>1, IdleStep
<1> QED BY <1>2, <1>3, <1>4, <1>5, <1>6, <1>7, <1>8, <1>9 DEF AdminStep

LEMMA CallerStepMovesMoney ==
    ASSUME BooksInv, FundsOK, CallerStep
    PROVE  MoneyStep
<1>1. profile \in [Address -> ProfileRecord] /\ xlm \in [Address -> Nat] /\ accFees \in Nat
    BY DEF FundsOK
<1>2. CASE \E u \in Bettors, r \in Referrers : Register(u, r)
    <2>1. PICK u \in Bettors, r \in Referrers : Register(u, r)
        BY <1>2
    <2>2. /\ xlm' = xlm /\ accFees' = accFees /\ market' = market /\ bet' = bet
          /\ mktCfg' = mktCfg /\ profile' = [profile EXCEPT ![u] = ProfileOf(r)]
        BY <2>1 DEF Register, RegisterReferral, marketVars, roleVars, bookVars
    <2>3. ProfileOf(r) \in ProfileRecord
        BY DEF ProfileOf, ProfileRecord
    <2>4. profile' \in [Address -> ProfileRecord]
        BY <1>1, <2>2, <2>3
    <2> QED BY <2>2, <2>4, IdleStep
<1>3. CASE \E u \in Bettors, id \in MarketIds, y \in BOOLEAN, a \in BetAmounts :
               PlaceBet(u, id, y, a)
    <2>1. PICK u \in Bettors, id \in MarketIds, y \in BOOLEAN, a \in BetAmounts :
               PlaceBet(u, id, y, a)
        BY <1>3
    <2>2. Settles(id) /\ MoneyMoves(Net(a), Net(a) + 1)
        BY <2>1, BetSettles
    <2>3. mktCfg' = mktCfg /\ mktCfg.admin # Nobody
        BY <2>1, ExistingMarketHasAdmin DEF PlaceBet, BetAccepted, roleVars
    <2> QED BY <1>1, <2>2, <2>3 DEF MoneyStep, MoneyMoves, FundsOK, RegistryKeeps
<1>4. CASE \E u \in Bettors, id \in MarketIds : CancelRefund(u, id)
    <2>1. /\ ~NoneCancelled /\ xlm' \in [Address -> Nat] /\ accFees' = accFees
          /\ profile' = profile /\ mktCfg' = mktCfg /\ RegistryKeeps
        BY <1>4, RefundKeepsFunds DEF RegistryKeeps
    <2> QED BY <2>1 DEF MoneyStep, FundsOK
<1>5. CASE \E u \in Bettors, id \in MarketIds : Claim(u, id)
    <2>1. PICK u \in Bettors, id \in MarketIds : Claim(u, id)
        BY <1>5
    <2>2. /\ Settles(id) /\ xlm' \in [Address -> Nat] /\ accFees' = accFees
          /\ profile' = profile /\ RegistryKeeps
        BY <2>1, ClaimSettles DEF RegistryKeeps
    <2>3. mktCfg' = mktCfg
        BY <2>1 DEF Claim, roleVars
    <2> QED BY <2>2, <2>3 DEF MoneyStep, FundsOK
<1>6. CASE \E c \in {Deployer} \cup Officials, id \in MarketIds, o \in BOOLEAN :
               ResolveMarket(c, id, o)
    <2>1. PICK c \in {Deployer} \cup Officials, id \in MarketIds, o \in BOOLEAN :
               ResolveMarket(c, id, o)
        BY <1>6
    <2>2. Settles(id) /\ xlm' = xlm /\ accFees' \in Nat /\ profile' = profile
        BY <2>1, ResolutionSettles
    <2>3. mktCfg' = mktCfg /\ mktCfg.admin # Nobody
        BY <2>1, ExistingMarketHasAdmin DEF ResolveMarket, roleVars
    <2> QED BY <2>2, <2>3 DEF MoneyStep, FundsOK, RegistryKeeps
<1>7. CASE \E c \in {Deployer} \cup Collectors, t \in Treasuries : WithdrawFees(c, t)
    <2>1. PICK c \in {Deployer} \cup Collectors, t \in Treasuries : WithdrawFees(c, t)
        BY <1>7
    <2>2. Rests /\ xlm' \in [Address -> Nat] /\ accFees' = 0 /\ profile' = profile /\ RegistryKeeps
        BY <2>1, WithdrawalRests DEF RegistryKeeps
    <2> QED BY <2>2 DEF MoneyStep, FundsOK
<1> QED BY <1>2, <1>3, <1>4, <1>5, <1>6, <1>7 DEF CallerStep

LEMMA StepMovesMoney ==
    ASSUME BooksInv, FundsOK, [MarketNext]_allMarketVars
    PROVE  MoneyStep
<1>1. CASE AdminStep
    BY <1>1, AdminStepMovesMoney
<1>2. CASE CallerStep
    BY <1>2, CallerStepMovesMoney
<1>3. CASE Tick \/ UNCHANGED allMarketVars
    <2>1. /\ xlm' = xlm /\ accFees' = accFees /\ market' = market /\ bet' = bet
          /\ profile' = profile /\ mktCfg' = mktCfg
        BY <1>3 DEF Tick, allMarketVars, marketVars, roleVars, bookVars, rewardVars, refVars
    <2> QED BY <2>1, IdleStep DEF FundsOK
<1> QED BY <1>1, <1>2, <1>3 DEF MarketNext

-----------------------------------------------------------------------------
(* The contract holds what it owes *)

\* The contract's XLM, beside the fee pot, against what its markets are owed.
Solvent ==
    /\ AllStakes <= Held
    /\ PaysOthers => Held <= AllStakes + InitialXlm[MarketContract] + RoundingSteps

MoneyInv ==
    /\ BooksInv
    /\ FundsOK
    /\ RegistryHoldsNothing
    /\ NoneCancelled => Solvent

\* A sum over the markets of which one changes.
LEMMA MarketSumMoves ==
    ASSUME NEW f, NEW g, NEW a \in MarketIds,
           DOMAIN f = MarketIds, DOMAIN g = MarketIds,
           \A id \in MarketIds : f[id] \in Nat /\ g[id] \in Nat,
           \A id \in MarketIds \ {a} : g[id] = f[id]
    PROVE  /\ SumFunction(f) \in Nat /\ SumFunction(g) \in Nat
           /\ SumFunction(g) = SumFunction(f) + (g[a] - f[a])
<1>1. IsFiniteSet(MarketIds)
    BY MarketConstants, FS_Interval DEF MarketIds
<1>2. \A id \in MarketIds : f[id] \in Int /\ g[id] \in Int
    OBVIOUS
<1>3. SumFunctionOnSet(g, MarketIds) = SumFunctionOnSet(f, MarketIds) + g[a] - f[a]
    BY <1>1, <1>2, SumOfUpdate
<1>4. SumFunctionOnSet(f, MarketIds) \in Nat /\ SumFunctionOnSet(g, MarketIds) \in Nat
    BY <1>1, SumIsNatural
<1> QED BY <1>3, <1>4 DEF SumFunction

LEMMA StakesSumUp ==
    ASSUME BooksInv, NoneCancelled
    PROVE  AllStakes \in Nat /\ RoundingSteps \in Nat
<1> DEFINE f == [id \in MarketIds |-> Stakes(id)]
           p == [id \in MarketIds |-> Steps(id)]
<1>1. \A id \in MarketIds : f[id] \in Nat /\ p[id] \in Nat
    BY StakesAreNatural, CountsAreNatural DEF NoneCancelled, BooksInv, VerdictInv
<1>2. AllStakes = SumFunction(f) /\ RoundingSteps = SumFunction(p)
    BY DEF AllStakes, RoundingSteps, Steps, Counted
<1>3. IsFiniteSet(MarketIds)
    BY MarketConstants, FS_Interval DEF MarketIds
<1>4. DOMAIN f = MarketIds /\ DOMAIN p = MarketIds
    OBVIOUS
<1> HIDE DEF f, p
<1> QED BY <1>1, <1>2, <1>3, <1>4, SumIsNatural DEF SumFunction

LEMMA SettlingKeepsSolvency ==
    ASSUME BooksInv, FundsOK, FundsOK', NoneCancelled, Solvent,
           Rests \/ \E id \in MarketIds : Settles(id)
    PROVE  Solvent'
<1> DEFINE f == [id \in MarketIds |-> Stakes(id)]
           g == [id \in MarketIds |-> Stakes(id)']
           p == [id \in MarketIds |-> Steps(id)]
           q == [id \in MarketIds |-> Steps(id)']
<1>1. \A id \in MarketIds : Stakes(id) \in Nat /\ Steps(id) \in Nat
    BY StakesAreNatural, CountsAreNatural DEF NoneCancelled, BooksInv, VerdictInv
<1>2. /\ AllStakes = SumFunction(f) /\ AllStakes' = SumFunction(g)
      /\ RoundingSteps = SumFunction(p) /\ RoundingSteps' = SumFunction(q)
    BY DEF AllStakes, RoundingSteps, Steps, Counted
<1>3. Held \in Int /\ Held' \in Int /\ InitialXlm[MarketContract] \in Nat
    BY ContractsDiffer, MarketConstants DEF Held, FundsOK
<1>4. CASE Rests
    <2>1. f = g /\ p = q
        BY <1>4 DEF Rests
    <2>2. AllStakes' = AllStakes /\ RoundingSteps' = RoundingSteps
        BY <1>2, <2>1
    <2>3. Held <= Held' /\ (PaysOthers => Held' = Held)
        BY <1>4 DEF Rests
    <2>4. AllStakes \in Int
        BY StakesSumUp
    <2> QED BY <1>3, <2>2, <2>3, <2>4 DEF Solvent
<1>5. CASE \E id \in MarketIds : Settles(id)
    <2>1. PICK a \in MarketIds : Settles(a)
        BY <1>5
    <2>2. /\ \A id \in MarketIds : f[id] \in Nat /\ g[id] \in Nat /\ p[id] \in Nat /\ q[id] \in Nat
          /\ \A id \in MarketIds \ {a} : g[id] = f[id] /\ q[id] = p[id]
          /\ DOMAIN f = MarketIds /\ DOMAIN g = MarketIds
          /\ DOMAIN p = MarketIds /\ DOMAIN q = MarketIds
        BY <1>1, <2>1 DEF Settles
    <2>3. /\ g[a] - f[a] <= Held' - Held
          /\ PaysOthers => Held' - Held <= (g[a] - f[a]) + (q[a] - p[a])
        BY <2>1 DEF Settles
    <2> HIDE DEF f, g, p, q
    <2>4. /\ AllStakes \in Nat /\ AllStakes' \in Nat /\ AllStakes' = AllStakes + (g[a] - f[a])
        BY <1>2, <2>2, MarketSumMoves
    <2>5. /\ RoundingSteps \in Nat /\ RoundingSteps' \in Nat
          /\ RoundingSteps' = RoundingSteps + (q[a] - p[a])
        BY <1>2, <2>2, MarketSumMoves
    <2>6. g[a] - f[a] \in Int /\ q[a] - p[a] \in Int
        BY <2>2
    <2>7. AllStakes <= Held
        BY DEF Solvent
    <2>8. AllStakes' <= Held'
        BY <1>3, <2>3, <2>4, <2>6, <2>7
    <2>9. ASSUME PaysOthers
          PROVE  Held' <= AllStakes' + InitialXlm[MarketContract] + RoundingSteps'
        <3>1. Held <= AllStakes + InitialXlm[MarketContract] + RoundingSteps
            BY <2>9 DEF Solvent
        <3>2. Held' - Held <= (g[a] - f[a]) + (q[a] - p[a])
            BY <2>3, <2>9
        <3> QED BY <1>3, <2>4, <2>5, <2>6, <3>1, <3>2
    <2> QED BY <2>8, <2>9 DEF Solvent
<1> QED BY <1>4, <1>5

\* A cancelled market stays cancelled.
LEMMA CancellationLasts ==
    ASSUME BooksInv, [MarketNext]_allMarketVars, NoneCancelled'
    PROVE  NoneCancelled
<1>1. \A id \in MarketIds : ~Undecided(id) => market'[id] = market[id]
    BY StepIsOneOfThem, StepKeepsVerdicts DEF BooksInv
<1>2. BooksInv'
    BY StepKeepsBooks
<1>3. DOMAIN market = MarketIds /\ DOMAIN market' = MarketIds
    BY <1>2 DEF BooksInv, VerdictInv
<1> QED BY <1>1, <1>3 DEF NoneCancelled, Undecided

LEMMA StepKeepsMoney ==
    ASSUME MoneyInv, [MarketNext]_allMarketVars
    PROVE  MoneyInv'
<1>1. BooksInv' /\ MoneyStep
    BY StepKeepsBooks, StepMovesMoney DEF MoneyInv
<1>2. FundsOK' /\ RegistryHoldsNothing'
    BY <1>1 DEF MoneyStep, RegistryKeeps, MoneyInv, RegistryHoldsNothing
<1>3. ASSUME NoneCancelled'
      PROVE  Solvent'
    <2>1. NoneCancelled
        BY <1>3, CancellationLasts DEF MoneyInv
    <2> QED BY <1>1, <1>2, <1>3, <2>1, SettlingKeepsSolvency DEF MoneyStep, MoneyInv
<1> QED BY <1>1, <1>2, <1>3 DEF MoneyInv

LEMMA MoneyInvInit ==
    ASSUME DeployedInit
    PROVE  MoneyInv
<1>1. /\ xlm = InitialXlm /\ accFees = 0 /\ profile = [u \in Address |-> NoProfile]
      /\ market = [id \in MarketIds |-> NewMarket(0)]
      /\ bet = [id \in MarketIds |-> [u \in Address |-> NoBet]]
    BY DEF DeployedInit, MarketInit, ReferralInit
<1>2. BooksInv
    BY BooksInvInit
<1>3. NoProfile \in ProfileRecord
    BY DEF NoProfile, ProfileRecord
<1>4. FundsOK
    BY <1>1, <1>3, MarketConstants DEF FundsOK
<1>5. Held = InitialXlm[MarketContract] /\ Held \in Nat
    BY <1>1, ContractsDiffer, MarketConstants DEF Held
<1> DEFINE f == [id \in MarketIds |-> Stakes(id)]
           p == [id \in MarketIds |-> Steps(id)]
<1>6. ASSUME NEW id \in MarketIds
      PROVE  f[id] = 0 /\ p[id] = 0
    <2>1. Undecided(id) /\ Pool(market[id]) = 0
        BY <1>1 DEF Undecided, NewMarket, Pool
    <2>2. Stakes(id) = 0 /\ Cardinality(Winners(id)) = 0
        BY <2>1, UndecidedStakes, FS_EmptySet
    <2> DEFINE c == [u \in Address |-> bet[id][u].count]
    <2>3. DOMAIN c = Address /\ \A u \in Address : c[u] = 0
        BY <1>1 DEF NoBet
    <2>4. Counted(id) = SumFunction(c)
        BY DEF Counted
    <2> HIDE DEF c
    <2>5. Counted(id) = 0
        BY <2>3, <2>4, TokenConstants, SumOfZeros DEF SumFunction
    <2> QED BY <2>2, <2>5 DEF Steps
<1>7. AllStakes = SumFunction(f) /\ RoundingSteps = SumFunction(p)
    BY DEF AllStakes, RoundingSteps, Steps, Counted
<1>8. IsFiniteSet(MarketIds)
    BY MarketConstants, FS_Interval DEF MarketIds
<1>9. DOMAIN f = MarketIds /\ DOMAIN p = MarketIds
    OBVIOUS
<1> HIDE DEF f, p
<1>10. AllStakes = 0 /\ RoundingSteps = 0
    BY <1>6, <1>7, <1>8, <1>9, SumOfZeros DEF SumFunction
<1>11. Solvent
    BY <1>5, <1>10 DEF Solvent
<1> QED BY <1>1, <1>2, <1>4, <1>11 DEF MoneyInv, RegistryHoldsNothing

\* The invariant the money rests on.
THEOREM MoneyInvariant == MarketSpec => []MoneyInv
<1>1. DeployedInit => MoneyInv
    BY MoneyInvInit
<1>2. MoneyInv /\ [MarketNext]_allMarketVars => MoneyInv'
    BY StepKeepsMoney
<1> QED BY <1>1, <1>2, PTL DEF MarketSpec

\* Until something is cancelled the contract can pay every open stake, every
\* unclaimed payout and the whole fee pot, whatever is bet, resolved, claimed
\* and withdrawn, and in whatever order.
THEOREM AlwaysSolvent == MarketSpec => []SolventUntilCancelled
<1>1. MoneyInv => SolventUntilCancelled
    <2> SUFFICES ASSUME MoneyInv, NoneCancelled
                 PROVE  xlm[MarketContract] >= AllStakes + accFees
        BY DEF SolventUntilCancelled
    <2>1. xlm[MarketContract] \in Nat /\ accFees \in Nat /\ AllStakes <= Held
        BY ContractsDiffer DEF MoneyInv, FundsOK, Solvent
    <2>2. AllStakes \in Int
        BY StakesSumUp DEF MoneyInv
    <2> QED BY <2>1, <2>2 DEF Held
<1> QED BY <1>1, MoneyInvariant, PTL

\* And what it holds beyond that is one unit a bet and one a winner at most.
THEOREM NothingElseIsStranded == MarketSpec => []OnlyDustIsStranded
<1>1. MoneyInv => OnlyDustIsStranded
    <2> SUFFICES ASSUME MoneyInv, NoneCancelled, PaysOthers
                 PROVE  xlm[MarketContract] - (AllStakes + accFees)
                            <= InitialXlm[MarketContract] + RoundingSteps
        BY DEF OnlyDustIsStranded
    <2>1. /\ xlm[MarketContract] \in Nat /\ accFees \in Nat
          /\ Held <= AllStakes + InitialXlm[MarketContract] + RoundingSteps
          /\ InitialXlm[MarketContract] \in Nat
        BY ContractsDiffer, MarketConstants DEF MoneyInv, FundsOK, Solvent
    <2>2. AllStakes \in Int /\ RoundingSteps \in Int
        BY StakesSumUp DEF MoneyInv
    <2> QED BY <2>1, <2>2 DEF Held
<1> QED BY <1>1, MoneyInvariant, PTL

\* credit leaves nothing in the registry, whoever bets and whoever is referred.
THEOREM RegistryAlwaysEmpty == MarketSpec => []RegistryHoldsNothing
<1>1. MoneyInv => RegistryHoldsNothing
    BY DEF MoneyInv
<1> QED BY <1>1, MoneyInvariant, PTL

-----------------------------------------------------------------------------
(* The referrals the market has cached *)

\* A cached yes stays true because a profile is written once, and an unregistered
\* user's names nobody: registering cannot take a cached referrer away.
CachedInv ==
    /\ hasReferrer \in [Address -> {"unknown", "yes", "no"}]
    /\ CachedReferrersExist

LEMMA AdminStepKeepsAnswers ==
    ASSUME AdminStep
    PROVE  hasReferrer' = hasReferrer /\ profile' = profile
<1>1. profile' = profile
    BY AdminStepKeepsRecords DEF RecordsKept, CountsKept
<1>2. CASE RegistryDeployed
    BY <1>1, <1>2 DEF RegistryDeployed, marketVars
<1>3. CASE MarketDeployed
    BY <1>1, <1>3 DEF MarketDeployed, MarketInitialize
<1>4. CASE \E d \in Durations : MayCreate /\ CreateMarket(Deployer, d)
    BY <1>1, <1>4 DEF CreateMarket
<1>5. CASE \E c \in ConfigChoices : SetConfig(Deployer, c.referral, c.leaderboard, c.xlm)
    BY <1>1, <1>5 DEF SetConfig
<1>6. CASE \E c \in ConfigChoices : RegistryXlmSet(c.xlm)
    BY <1>1, <1>6 DEF RegistryXlmSet, marketVars
<1>7. CASE \E o \in Officials : AddResolver(Deployer, o) \/ RemoveResolver(Deployer, o)
    BY <1>1, <1>7 DEF AddResolver, RemoveResolver, SetResolvers
<1>8. CASE \E c \in Collectors :
               AddFeeRecipient(Deployer, c) \/ RemoveFeeRecipient(Deployer, c)
    BY <1>1, <1>8 DEF AddFeeRecipient, RemoveFeeRecipient, SetRecipients
<1>9. CASE \E id \in MarketIds : CancelMarket(Deployer, id)
    BY <1>1, <1>9 DEF CancelMarket, MarketCancelledNow
<1> QED BY <1>2, <1>3, <1>4, <1>5, <1>6, <1>7, <1>8, <1>9 DEF AdminStep

LEMMA IdleStepKeepsAnswers ==
    ASSUME CachedInv, hasReferrer' = hasReferrer, profile' = profile
    PROVE  CachedInv'
BY DEF CachedInv, CachedReferrersExist, HasReferrer

\* A bet caches what credit answered from the profile it read.
LEMMA BetKeepsAnswers ==
    ASSUME RecordsInv, CachedInv, NEW user \in Bettors, NEW id \in MarketIds,
           NEW isYes \in BOOLEAN, NEW amount \in BetAmounts, PlaceBet(user, id, isYes, amount)
    PROVE  CachedInv'
<1>1. profile' = profile
    BY BetIsRecordsStep DEF RecordsKept, BonusStep, CountsKept
<1>2. CASE FeeKept(user, amount)
    BY <1>1, <1>2, IdleStepKeepsAnswers DEF FeeKept
<1>3. CASE FeeOffered(user, amount)
    <2>1. CASE hasReferrer' = hasReferrer
        BY <1>1, <2>1, IdleStepKeepsAnswers
    <2>2. CASE hasReferrer' = [hasReferrer EXCEPT ![user] =
                                   IF HasReferrer(user) THEN "yes" ELSE "no"]
        <3>1. \A u \in Address : hasReferrer'[u] = "yes" => HasReferrer(u)
            BY <2>2 DEF CachedInv, CachedReferrersExist
        <3> QED BY <1>1, <2>2, <3>1 DEF CachedInv, CachedReferrersExist, HasReferrer
    <2> QED BY <1>3, <2>1, <2>2 DEF FeeOffered
<1> QED BY <1>2, <1>3 DEF PlaceBet

\* A registration writes the profile of a user nothing true is cached of.
LEMMA RegistrationKeepsAnswers ==
    ASSUME RecordsInv, CachedInv, NEW user \in Bettors, NEW r \in Referrers, Register(user, r)
    PROVE  CachedInv'
<1>1. hasReferrer' = hasReferrer /\ RegisterReferral(user, r)
    BY DEF Register, marketVars
<1>2. ~HasReferrer(user) /\ \A u \in Address \ {user} : profile'[u] = profile[u]
    BY <1>1, MarketConstants DEF RecordsInv, RegisterReferral, MayRegister, HasReferrer
<1> QED BY <1>1, <1>2 DEF CachedInv, CachedReferrersExist, HasReferrer

LEMMA StepKeepsAnswers ==
    ASSUME RecordsInv, CachedInv, [MarketNext]_allMarketVars
    PROVE  CachedInv'
<1>1. CASE AdminStep
    BY <1>1, AdminStepKeepsAnswers, IdleStepKeepsAnswers
<1>2. CASE \E u \in Bettors, r \in Referrers : Register(u, r)
    BY <1>2, RegistrationKeepsAnswers
<1>3. CASE \E u \in Bettors, id \in MarketIds, y \in BOOLEAN, a \in BetAmounts :
               PlaceBet(u, id, y, a)
    BY <1>3, BetKeepsAnswers
<1>4. CASE \E u \in Bettors, id \in MarketIds : CancelRefund(u, id)
    BY <1>4, IdleStepKeepsAnswers DEF CancelRefund, rewardVars, refVars
<1>5. CASE \E u \in Bettors, id \in MarketIds : Claim(u, id)
    BY <1>5, IdleStepKeepsAnswers DEF Claim, refVars
<1>6. CASE \E c \in {Deployer} \cup Officials, id \in MarketIds, o \in BOOLEAN :
               ResolveMarket(c, id, o)
    BY <1>6, IdleStepKeepsAnswers DEF ResolveMarket, rewardVars, refVars
<1>7. CASE \E c \in {Deployer} \cup Collectors, t \in Treasuries : WithdrawFees(c, t)
    BY <1>7, IdleStepKeepsAnswers DEF WithdrawFees, rewardVars, refVars
<1>8. CASE Tick
    BY <1>8, IdleStepKeepsAnswers DEF Tick, rewardVars, refVars
<1>9. CASE UNCHANGED allMarketVars
    BY <1>9, IdleStepKeepsAnswers DEF allMarketVars, marketVars, rewardVars, refVars
<1> QED BY <1>1, <1>2, <1>3, <1>4, <1>5, <1>6, <1>7, <1>8, <1>9 DEF MarketNext, CallerStep

\* place_bet never takes a referral part for a referrer who is not there: a cached
\* yes has one behind it, whoever registers and bets in whatever order.
THEOREM CachedReferrersAlwaysExist == MarketSpec => []CachedReferrersExist
<1>1. DeployedInit => CachedInv
    BY DEF DeployedInit, MarketInit, CachedInv, CachedReferrersExist
<1>2. RecordsInv /\ CachedInv /\ [MarketNext]_allMarketVars => CachedInv'
    BY StepKeepsAnswers
<1>3. CachedInv => CachedReferrersExist
    BY DEF CachedInv
<1> QED BY <1>1, <1>2, <1>3, RecordsInvariant, PTL DEF MarketSpec

\* The four contracts' records of the same bets and users agree, the two that
\* need the balances' types included.
THEOREM RecordsAlwaysAgree == MarketSpec => []RecordsAgree
<1>1. RecordsInv /\ MoneyInv /\ CachedReferrersExist => RecordsAgree
    BY DEF RecordsInv, MoneyInv, RecordsAgree
<1> QED BY <1>1, RecordsInvariant, MoneyInvariant, CachedReferrersAlwaysExist, PTL

-----------------------------------------------------------------------------
(* The types *)

\* What neither the books nor the money rest on.
RolesInv ==
    /\ now <= MaxTime
    /\ mktCfg \in [admin : Address \cup {Nobody}, referral : Address \cup {Nobody},
                   leaderboard : Address \cup {Nobody}, xlm : Address \cup {Nobody}]
    /\ hasReferrer \in [Address -> {"unknown", "yes", "no"}]
    /\ resolvers \subseteq Address
    /\ feeRecipients \subseteq Address

LEMMA AdminStepKeepsRoles ==
    ASSUME RolesInv, AdminStep
    PROVE  RolesInv'
<1>1. CASE RegistryDeployed
    BY <1>1 DEF RegistryDeployed, marketVars, roleVars, RolesInv
<1>2. CASE MarketDeployed
    BY <1>2, LeaderboardConstants, ReferralConstants
    DEF MarketDeployed, MarketInitialize, RolesInv
<1>3. CASE \E d \in Durations : MayCreate /\ CreateMarket(Deployer, d)
    BY <1>3 DEF CreateMarket, roleVars, RolesInv
<1>4. CASE \E c \in ConfigChoices : SetConfig(Deployer, c.referral, c.leaderboard, c.xlm)
    <2>1. PICK c \in ConfigChoices : SetConfig(Deployer, c.referral, c.leaderboard, c.xlm)
        BY <1>4
    <2>2. c.referral \in Address /\ c.leaderboard \in Address /\ c.xlm \in Address
        BY MarketConstants
    <2> QED BY <2>1, <2>2, LeaderboardConstants DEF SetConfig, RolesInv
<1>5. CASE \E c \in ConfigChoices : RegistryXlmSet(c.xlm)
    BY <1>5 DEF RegistryXlmSet, marketVars, roleVars, RolesInv
<1>6. CASE \E o \in Officials : AddResolver(Deployer, o) \/ RemoveResolver(Deployer, o)
    BY <1>6, MarketConstants DEF AddResolver, RemoveResolver, SetResolvers, RolesInv
<1>7. CASE \E c \in Collectors :
               AddFeeRecipient(Deployer, c) \/ RemoveFeeRecipient(Deployer, c)
    BY <1>7, MarketConstants DEF AddFeeRecipient, RemoveFeeRecipient, SetRecipients, RolesInv
<1>8. CASE \E id \in MarketIds : CancelMarket(Deployer, id)
    BY <1>8 DEF CancelMarket, MarketCancelledNow, roleVars, RolesInv
<1> QED BY <1>1, <1>2, <1>3, <1>4, <1>5, <1>6, <1>7, <1>8 DEF AdminStep

LEMMA CallerStepKeepsRoles ==
    ASSUME RolesInv, CallerStep
    PROVE  RolesInv'
<1>1. CASE \E u \in Bettors, r \in Referrers : Register(u, r)
    BY <1>1 DEF Register, marketVars, roleVars, RolesInv
<1>2. CASE \E u \in Bettors, id \in MarketIds, y \in BOOLEAN, a \in BetAmounts :
               PlaceBet(u, id, y, a)
    <2>1. PICK u \in Bettors, id \in MarketIds, y \in BOOLEAN, a \in BetAmounts :
               PlaceBet(u, id, y, a)
        BY <1>2
    <2>2. hasReferrer' \in [Address -> {"unknown", "yes", "no"}]
        BY <2>1 DEF PlaceBet, FeeKept, FeeOffered, RolesInv
    <2>3. now' = now /\ UNCHANGED roleVars
        BY <2>1 DEF PlaceBet
    <2> QED BY <2>2, <2>3 DEF roleVars, RolesInv
<1>3. CASE \E u \in Bettors, id \in MarketIds : CancelRefund(u, id)
    BY <1>3 DEF CancelRefund, roleVars, RolesInv
<1>4. CASE \E u \in Bettors, id \in MarketIds : Claim(u, id)
    BY <1>4 DEF Claim, roleVars, RolesInv
<1>5. CASE \E c \in {Deployer} \cup Officials, id \in MarketIds, o \in BOOLEAN :
               ResolveMarket(c, id, o)
    BY <1>5 DEF ResolveMarket, roleVars, RolesInv
<1>6. CASE \E c \in {Deployer} \cup Collectors, t \in Treasuries : WithdrawFees(c, t)
    BY <1>6 DEF WithdrawFees, roleVars, RolesInv
<1> QED BY <1>1, <1>2, <1>3, <1>4, <1>5, <1>6 DEF CallerStep

LEMMA StepKeepsRoles ==
    ASSUME VerdictInv, RolesInv, [MarketNext]_allMarketVars
    PROVE  RolesInv'
<1>1. CASE Tick
    <2>1. now' <= MaxTime
        BY <1>1, MarketConstants DEF VerdictInv, Tick
    <2> QED BY <1>1, <2>1 DEF Tick, roleVars, RolesInv
<1>2. CASE UNCHANGED allMarketVars
    BY <1>2 DEF allMarketVars, marketVars, roleVars, RolesInv
<1> QED BY <1>1, <1>2, AdminStepKeepsRoles, CallerStepKeepsRoles DEF MarketNext

\* Every variable of the market keeps its type; that balances and the fee pot
\* are natural numbers is MoneyInv, that no window takes more than its limit
\* WindowInv.
THEOREM MarketTypes == MarketSpec => []MarketTypeOK
<1>1. DeployedInit => RolesInv
    <2> SUFFICES ASSUME DeployedInit PROVE RolesInv
        OBVIOUS
    <2>1. now = 0 /\ MaxTime \in Nat
        BY MarketConstants DEF DeployedInit, MarketInit
    <2> QED BY <2>1 DEF DeployedInit, MarketInit, RolesInv
<1>2. VerdictInv /\ RolesInv /\ [MarketNext]_allMarketVars => RolesInv'
    BY StepKeepsRoles
<1>3. MarketSpec => []RolesInv
    BY <1>1, <1>2, VerdictInvariant, PTL DEF MarketSpec
<1>4. BooksInv /\ MoneyInv /\ WindowInv /\ RolesInv => MarketTypeOK
    <2> SUFFICES ASSUME BooksInv, MoneyInv, WindowInv, RolesInv PROVE MarketTypeOK
        OBVIOUS
    <2>1. /\ now \in 0 .. MaxTime /\ marketCount \in 0 .. MaxMarkets
          /\ market \in [MarketIds -> MarketRecord]
        BY MarketConstants DEF WindowInv, VerdictInv, RolesInv
    <2>2. /\ bet \in [MarketIds -> [Address -> BetEntry]]
          /\ bettors \in [MarketIds -> Seq(Address)]
        BY DEF BooksInv
    <2>3. accFees \in Nat /\ xlm \in [Address -> Nat]
        BY DEF MoneyInv, FundsOK
    <2>4. rateWindow \in [start : 0 .. MaxTime, count : 0 .. MaxMarketsPerWindow]
        <3>1. /\ rateWindow \in [start : Nat, count : Nat]
              /\ rateWindow.start <= now /\ rateWindow.count <= MaxMarketsPerWindow
            BY DEF WindowInv
        <3>2. /\ rateWindow.start \in 0 .. MaxTime
              /\ rateWindow.count \in 0 .. MaxMarketsPerWindow
            BY <2>1, <3>1, MarketConstants
        <3> QED BY <3>1, <3>2
    <2> QED BY <2>1, <2>2, <2>3, <2>4 DEF RolesInv, MarketRecord, BetEntry, MarketTypeOK
<1> QED BY <1>3, <1>4, BooksInvariant, MoneyInvariant, WindowInvariant, PTL

-----------------------------------------------------------------------------
(* Cancelled markets, while the fees stay *)

\* Where fees go when they leave the contract; while these hold what they held
\* at deployment, none has left.
FeeTakers == (Referrers \cup Treasuries) \ {Nobody, MarketContract}
FeesStay  == \A a \in FeeTakers : xlm[a] = InitialXlm[a]

Gross(id) == SumFunction([u \in Address |-> bet[id][u].gross])

\* What a market would cost if it were cancelled now, and how much of that does
\* not come back out of the fee pot.
Refundable(id) ==
    IF market[id].resolved /\ ~market[id].cancelled THEN Stakes(id) ELSE Gross(id)
Backing(id) ==
    IF Undecided(id) THEN Gross(id) - FeesInPool(Pool(market[id])) ELSE Refundable(id)
AllRefundable == SumFunction([id \in MarketIds |-> Refundable(id)])
AllBacking    == SumFunction([id \in MarketIds |-> Backing(id)])

\* SolventWhileFeesStay is not inductive: a cancellation turns a pool of nets
\* into refunds of gross amounts, and may find less in the pot than it takes back.
RefundInv ==
    /\ BooksInv /\ FundsOK
    /\ \A a \in FeeTakers : xlm[a] >= InitialXlm[a]
    /\ \A id \in MarketIds : Undecided(id) => 98 * Gross(id) >= 100 * Pool(market[id])
    /\ FeesStay => /\ AllRefundable <= xlm[MarketContract]
                   /\ AllBacking + accFees <= xlm[MarketContract]

LEMMA FeesOfPool ==
    ASSUME NEW p \in Nat, NEW amount \in Nat
    PROVE  /\ FeesInPool(p) \in Nat
           /\ FeesInPool(p + Net(amount)) >= FeesInPool(p) + TotalFee(amount)
           /\ 98 * amount >= 100 * Net(amount)
<1>1. FeesInPool(p) \in Nat
    BY DEF FeesInPool
<1>2. 98 * amount >= 100 * Net(amount)
    BY DEF Net
<1> DEFINE n == (amount * 9800) \div 10000
           f == (amount * 200) \div 10000
<1>3. n \in Nat /\ f \in Nat /\ 98 * f <= 2 * n
    OBVIOUS
<1> HIDE DEF n, f
<1>4. ((p + n) * 200) \div (10000 - 200) >= (p * 200) \div (10000 - 200) + f
    BY <1>3
<1> QED BY <1>1, <1>2, <1>4 DEF FeesInPool, Net, TotalFee, n, f

\* What a pool gives back is no more than its bets paid beside it.
LEMMA PoolBacked ==
    ASSUME NEW g \in Nat, NEW p \in Nat, 98 * g >= 100 * p
    PROVE  FeesInPool(p) \in Nat /\ FeesInPool(p) <= g /\ p <= g - FeesInPool(p)
BY DEF FeesInPool

LEMMA GrossIsNatural ==
    ASSUME BooksInv, NEW id \in MarketIds
    PROVE  Gross(id) \in Nat
<1> DEFINE f == [u \in Address |-> bet[id][u].gross]
<1>1. \A u \in Address : f[u] \in Nat
    BY BookTypes
<1>2. DOMAIN f = Address /\ Gross(id) = SumFunction(f)
    BY DEF Gross
<1> HIDE DEF f
<1> QED BY <1>1, <1>2, TokenConstants, SumIsNatural DEF SumFunction

\* One entry's gross amount changes, and the market's with it.
LEMMA GrossMoves ==
    ASSUME BooksInv, BooksInv', NEW id \in MarketIds, NEW user \in Address,
           \A u \in Address \ {user} : bet'[id][u].gross = bet[id][u].gross
    PROVE  Gross(id)' = Gross(id) + bet'[id][user].gross - bet[id][user].gross
<1> DEFINE f == [u \in Address |-> bet[id][u].gross]
           g == [u \in Address |-> bet'[id][u].gross]
<1>1. \A u \in Address : f[u] \in Int /\ g[u] \in Int
    BY BookTypes DEF BooksInv, BetEntry
<1>2. /\ DOMAIN f = Address /\ DOMAIN g = Address
      /\ Gross(id) = SumFunction(f) /\ Gross(id)' = SumFunction(g)
    BY DEF Gross
<1>3. \A u \in Address \ {user} : g[u] = f[u]
    OBVIOUS
<1>4. f[user] = bet[id][user].gross /\ g[user] = bet'[id][user].gross
    OBVIOUS
<1> HIDE DEF f, g
<1>5. SumFunctionOnSet(g, Address) = SumFunctionOnSet(f, Address) + g[user] - f[user]
    BY <1>1, <1>3, TokenConstants, SumOfUpdate
<1> QED BY <1>2, <1>4, <1>5 DEF SumFunction

LEMMA RefundTypes ==
    ASSUME BooksInv, NEW id \in MarketIds,
           Undecided(id) => 98 * Gross(id) >= 100 * Pool(market[id])
    PROVE  /\ Refundable(id) \in Nat /\ Backing(id) \in Nat
           /\ Backing(id) <= Refundable(id) /\ Gross(id) \in Nat /\ Pool(market[id]) \in Nat
           /\ Undecided(id) => Pool(market[id]) <= Backing(id)
           /\ Stakes(id) \in Nat /\ Stakes(id) <= Backing(id)
<1>1. Gross(id) \in Nat
    BY GrossIsNatural
<1>2. Pool(market[id]) \in Nat
    <2>1. market[id] \in MarketRecord
        BY DEF BooksInv, VerdictInv
    <2> QED BY <2>1 DEF Pool, MarketRecord
<1>3. CASE Undecided(id)
    <2> DEFINE p == Pool(market[id])
    <2>1. /\ FeesInPool(p) \in Nat /\ FeesInPool(p) <= Gross(id)
          /\ p <= Gross(id) - FeesInPool(p)
        BY <1>1, <1>2, <1>3, PoolBacked
    <2>2. Refundable(id) = Gross(id) /\ Backing(id) = Gross(id) - FeesInPool(p)
        BY <1>3 DEF Refundable, Backing, Undecided
    <2>3. Stakes(id) = p
        BY <1>3, UndecidedStakes
    <2> QED BY <1>1, <1>2, <2>1, <2>2, <2>3
<1>4. CASE ~Undecided(id)
    <2>1. Backing(id) = Refundable(id)
        BY <1>4 DEF Backing
    <2>2. CASE market[id].cancelled
        <3>1. Refundable(id) = Gross(id) /\ Stakes(id) = Gross(id)
            BY <2>2 DEF Refundable, Stakes, Gross
        <3> QED BY <1>1, <1>2, <1>4, <2>1, <3>1
    <2>3. CASE ~market[id].cancelled
        <3>1. Refundable(id) = Stakes(id) /\ Stakes(id) \in Nat
            BY <1>4, <2>3, StakesAreNatural DEF Refundable, Undecided
        <3> QED BY <1>1, <1>2, <1>4, <2>1, <3>1
    <2> QED BY <2>2, <2>3
<1> QED BY <1>3, <1>4

\* A market that is not touched costs what it did.
LEMMA SameRefunds ==
    ASSUME NEW id \in MarketIds, market'[id] = market[id], bet'[id] = bet[id]
    PROVE  /\ Refundable(id)' = Refundable(id) /\ Backing(id)' = Backing(id)
           /\ Gross(id)' = Gross(id) /\ Undecided(id)' = Undecided(id)
<1>1. Stakes(id)' = Stakes(id)
    BY SameStakes
<1>2. [u \in Address |-> bet'[id][u].gross] = [u \in Address |-> bet[id][u].gross]
    OBVIOUS
<1>3. Gross(id)' = Gross(id)
    BY <1>2 DEF Gross
<1> QED BY <1>1, <1>3 DEF Refundable, Backing, Undecided

\* A step that touches one market, or none.
RefundStep(id) ==
    /\ \A other \in MarketIds \ {id} :
          market'[other] = market[other] /\ bet'[other] = bet[other]
    /\ Undecided(id)' => 98 * Gross(id)' >= 100 * Pool(market'[id])
    /\ \A a \in FeeTakers : xlm'[a] >= xlm[a]
    /\ FeesStay' =>
          /\ Refundable(id)' - Refundable(id) <= xlm'[MarketContract] - xlm[MarketContract]
          /\ \/ accFees' = 0
             \/ (Backing(id)' - Backing(id)) + (accFees' - accFees)
                    <= xlm'[MarketContract] - xlm[MarketContract]

RefundRests ==
    /\ \A id \in MarketIds : Refundable(id)' = Refundable(id) /\ Backing(id)' = Backing(id)
    /\ \A id \in MarketIds : Undecided(id)' => 98 * Gross(id)' >= 100 * Pool(market'[id])
    /\ \A a \in FeeTakers : xlm'[a] >= xlm[a]
    /\ FeesStay' =>
          /\ xlm[MarketContract] <= xlm'[MarketContract]
          /\ accFees' \in {0, accFees}

\* A bet brings its amount, unless a part of its fee goes to a referrer.
LEMMA BetMovesBalance ==
    ASSUME FundsOK, Bettors \cap (Referrers \cup Treasuries) = {},
           \A a \in FeeTakers : xlm[a] >= InitialXlm[a],
           NEW user \in Bettors, NEW amount \in BetAmounts,
           Affordable(xlm, user, amount), FeeKept(user, amount) \/ FeeOffered(user, amount)
    PROVE  /\ \A a \in FeeTakers : xlm'[a] >= xlm[a]
           /\ accFees' <= accFees + TotalFee(amount)
           /\ FeesStay' => xlm'[MarketContract] = xlm[MarketContract] + amount
<1> DEFINE taken  == Transferred(xlm, user, MarketContract, amount)
           fee    == ReferralFee(amount)
           handed == Transferred(taken, MarketContract, ReferralContract, fee)
           M      == MarketContract
           R      == ReferralContract
<1>1. /\ xlm \in [Address -> Nat] /\ accFees \in Nat
      /\ M \in Address /\ R \in Address /\ M # R
      /\ user \in Address /\ user # M /\ user # R /\ amount \in Nat /\ xlm[user] >= amount
    BY ContractsDiffer, BettorsAreUsers, MarketConstants DEF FundsOK, Affordable
<1>2. /\ TotalFee(amount) \in Nat /\ PlatformFee(amount) \in Nat /\ fee \in Nat
      /\ TotalFee(amount) = PlatformFee(amount) + fee
    BY <1>1, FeesAddUp
<1>3. FeeTakers \subseteq Address \ {M, user}
    BY MarketConstants DEF FeeTakers
<1>4. /\ taken \in [Address -> Nat] /\ taken[M] = xlm[M] + amount
      /\ \A a \in Address \ {M, user} : taken[a] = xlm[a]
    BY <1>1, TransferFacts
<1>5. CASE FeeKept(user, amount)
    <2>1. xlm' = taken /\ accFees' = accFees + TotalFee(amount)
        BY <1>5 DEF FeeKept
    <2> HIDE DEF taken
    <2>2. \A a \in FeeTakers : xlm'[a] = xlm[a] /\ xlm[a] \in Nat
        BY <1>1, <1>3, <1>4, <2>1
    <2> QED BY <1>1, <1>2, <1>4, <2>1, <2>2
<1>6. CASE FeeOffered(user, amount)
    <2>1. /\ taken[M] >= fee
          /\ CreditReferrer(M, user, fee, handed) \/ ReturnFee(M, user, fee, handed)
          /\ accFees' = accFees + IF HasReferrer(user) THEN PlatformFee(amount) ELSE TotalFee(amount)
        BY <1>6 DEF FeeOffered, Credit, Affordable
    <2>2. accFees' <= accFees + TotalFee(amount)
        BY <1>1, <1>2, <2>1
    <2> HIDE DEF taken
    <2>3. /\ handed \in [Address -> Nat] /\ handed[M] = taken[M] - fee /\ handed[R] = taken[R] + fee
          /\ \A a \in Address \ {M, R} : handed[a] = taken[a]
        BY <1>1, <1>2, <1>4, <2>1, TransferFacts
    <2> HIDE DEF handed, fee
    <2>4. CASE CreditReferrer(M, user, fee, handed)
        <3> DEFINE r == profile[user].referrer
        <3>1. /\ HasReferrer(user) /\ handed[R] >= fee
              /\ xlm' = Transferred(handed, R, r, fee)
            BY <2>4 DEF CreditReferrer, Affordable
        <3>2. r \in Referrers /\ r \in Address /\ r # Nobody
            BY <1>1, <3>1, MarketConstants, TokenConstants DEF HasReferrer, FundsOK, ProfileRecord
        <3>3. r # M => r \in FeeTakers
            BY <3>2 DEF FeeTakers
        <3> HIDE DEF r
        <3>4. \A a \in Address : xlm'[a] = IF R = r THEN handed[a]
                                           ELSE IF a = R THEN handed[a] - fee
                                           ELSE IF a = r THEN handed[a] + fee ELSE handed[a]
            <4>1. /\ handed \in [Address -> Nat] /\ R \in Address /\ r \in Address
                  /\ fee \in Nat /\ handed[R] >= fee
                BY <1>1, <1>2, <2>3, <3>1, <3>2
            <4> QED BY <3>1, <4>1, TransferFacts
        <3>5. ASSUME NEW a \in FeeTakers
              PROVE  xlm'[a] = IF a = r THEN xlm[a] + fee ELSE xlm[a]
            <4>1. a \in Address /\ a # M /\ a # user /\ xlm[a] \in Nat /\ taken[a] = xlm[a]
                BY <1>1, <1>3, <1>4
            <4>2. handed[a] = IF a = R THEN xlm[a] + fee ELSE xlm[a]
                BY <2>3, <4>1
            <4> QED BY <1>2, <3>4, <4>1, <4>2
        <3>6. \A a \in FeeTakers : xlm'[a] >= xlm[a]
            <4> TAKE a \in FeeTakers
            <4>1. xlm[a] \in Nat
                BY <1>1, <1>3
            <4> QED BY <1>2, <3>5, <4>1
        <3>7. ASSUME FeesStay'
              PROVE  xlm'[M] = xlm[M] + amount
            <4>1. xlm[M] \in Nat /\ taken[M] = xlm[M] + amount
                BY <1>1, <1>4
            <4>2. CASE r = M
                <5>1. xlm'[M] = handed[M] + fee
                    BY <1>1, <3>4, <4>2
                <5> QED BY <1>1, <1>2, <2>3, <4>1, <5>1
            <4>3. CASE r # M
                <5>1. xlm'[r] = xlm[r] + fee /\ xlm[r] >= InitialXlm[r]
                    BY <3>3, <3>5, <4>3
                <5>2. xlm'[r] = InitialXlm[r]
                    BY <3>3, <3>7, <4>3 DEF FeesStay
                <5>3. xlm[r] \in Nat /\ InitialXlm[r] \in Nat
                    BY <1>1, <3>2, MarketConstants
                <5>4. fee = 0
                    BY <1>2, <5>1, <5>2, <5>3
                <5>5. xlm'[M] = handed[M]
                    BY <1>1, <3>4, <4>3
                <5> QED BY <1>1, <2>3, <4>1, <5>4, <5>5
            <4> QED BY <4>2, <4>3
        <3> QED BY <2>2, <3>6, <3>7
    <2>5. CASE ReturnFee(M, user, fee, handed)
        <3>1. /\ xlm'[M] = handed[M] + fee
              /\ xlm'[R] = handed[R] - fee
              /\ \A a \in Address \ {M, R} : xlm'[a] = handed[a]
            <4>1. CASE fee > 0
                <5>1. handed[R] >= fee /\ xlm' = Transferred(handed, R, M, fee)
                    BY <2>5, <4>1 DEF ReturnFee, Affordable
                <5> QED BY <1>1, <1>2, <2>3, <5>1, TransferFacts
            <4>2. CASE ~(fee > 0)
                <5>1. fee = 0 /\ xlm' = handed
                    BY <1>2, <2>5, <4>2 DEF ReturnFee
                <5> QED BY <1>1, <2>3, <5>1
            <4> QED BY <4>1, <4>2
        <3>2. ASSUME NEW a \in FeeTakers
              PROVE  xlm'[a] = xlm[a] /\ xlm[a] \in Nat
            <4>1. a \in Address /\ a # M /\ a # user /\ xlm[a] \in Nat /\ taken[a] = xlm[a]
                BY <1>1, <1>3, <1>4
            <4> QED BY <1>1, <1>2, <2>3, <3>1, <4>1
        <3>3. xlm'[M] = xlm[M] + amount
            <4>1. xlm[M] \in Nat /\ taken[M] = xlm[M] + amount
                BY <1>1, <1>4
            <4> QED BY <1>1, <1>2, <2>3, <3>1, <4>1
        <3> QED BY <2>2, <3>2, <3>3
    <2> QED BY <2>1, <2>4, <2>5
<1> QED BY <1>5, <1>6

\* A payment out of the contract to somebody else.
LEMMA PaymentMovesBalance ==
    ASSUME FundsOK, NEW to \in Address, NEW amount \in Nat,
           XlmTransfer(MarketContract, to, amount)
    PROVE  /\ \A a \in FeeTakers : /\ xlm'[a] = IF a = to THEN xlm[a] + amount ELSE xlm[a]
                                   /\ xlm[a] \in Nat
           /\ xlm'[MarketContract] = IF to = MarketContract THEN xlm[MarketContract]
                                     ELSE xlm[MarketContract] - amount
<1>1. xlm \in [Address -> Nat] /\ MarketContract \in Address
    BY ContractsDiffer DEF FundsOK
<1>2. xlm[MarketContract] >= amount /\ xlm' = Transferred(xlm, MarketContract, to, amount)
    BY DEF XlmTransfer, Affordable
<1>3. FeeTakers \subseteq Address \ {MarketContract}
    BY MarketConstants DEF FeeTakers
<1>4. \A a \in Address : xlm'[a] = IF MarketContract = to THEN xlm[a]
                                   ELSE IF a = MarketContract THEN xlm[a] - amount
                                   ELSE IF a = to THEN xlm[a] + amount ELSE xlm[a]
    BY <1>1, <1>2, TransferFacts
<1> QED BY <1>1, <1>3, <1>4

\* RefundTypes, of a state and of the next.
RefundOK ==
    BooksInv /\ \A id \in MarketIds : Undecided(id) => 98 * Gross(id) >= 100 * Pool(market[id])
RefundTyped ==
    \A id \in MarketIds :
        Refundable(id) \in Nat /\ Backing(id) \in Nat /\ Backing(id) <= Refundable(id)

LEMMA RefundsAreTyped == RefundOK => RefundTyped
BY RefundTypes DEF RefundOK, RefundTyped

LEMMA RefundsKept ==
    ASSUME RefundInv, BooksInv', FundsOK', RefundRests \/ \E id \in MarketIds : RefundStep(id)
    PROVE  RefundInv'
<1> DEFINE f == [id \in MarketIds |-> Refundable(id)]
           g == [id \in MarketIds |-> Refundable(id)']
           p == [id \in MarketIds |-> Backing(id)]
           q == [id \in MarketIds |-> Backing(id)']
           X == xlm[MarketContract]
<1>1. /\ BooksInv /\ FundsOK
      /\ \A id \in MarketIds : Undecided(id) => 98 * Gross(id) >= 100 * Pool(market[id])
    BY DEF RefundInv
<1>2. /\ AllRefundable = SumFunction(f) /\ AllRefundable' = SumFunction(g)
      /\ AllBacking = SumFunction(p) /\ AllBacking' = SumFunction(q)
      /\ DOMAIN f = MarketIds /\ DOMAIN g = MarketIds
      /\ DOMAIN p = MarketIds /\ DOMAIN q = MarketIds
    BY DEF AllRefundable, AllBacking
<1>3. X \in Nat /\ X' \in Nat /\ accFees \in Nat /\ accFees' \in Nat
    BY <1>1, ContractsDiffer DEF FundsOK
<1>4. \A a \in FeeTakers : xlm'[a] >= xlm[a]
    BY DEF RefundRests, RefundStep
<1>5. /\ \A a \in FeeTakers : xlm'[a] >= InitialXlm[a]
      /\ FeesStay' => FeesStay
    <2>1. \A a \in FeeTakers : xlm[a] >= InitialXlm[a]
        BY DEF RefundInv
    <2>2. \A a \in FeeTakers : a \in Address
        BY MarketConstants DEF FeeTakers
    <2>3. \A a \in FeeTakers : xlm[a] \in Nat /\ xlm'[a] \in Nat /\ InitialXlm[a] \in Nat
        BY <1>1, <2>2, MarketConstants DEF FundsOK
    <2> QED BY <1>4, <2>1, <2>3 DEF FeesStay
<1>6. \A id \in MarketIds : Undecided(id)' => 98 * Gross(id)' >= 100 * Pool(market'[id])
    <2>1. CASE RefundRests
        BY <2>1 DEF RefundRests
    <2>2. CASE \E id \in MarketIds : RefundStep(id)
        <3>1. PICK a \in MarketIds : RefundStep(a)
            BY <2>2
        <3>2. ASSUME NEW id \in MarketIds \ {a}, Undecided(id)'
              PROVE  98 * Gross(id)' >= 100 * Pool(market'[id])
            <4>1. market'[id] = market[id] /\ bet'[id] = bet[id]
                BY <3>1 DEF RefundStep
            <4> QED BY <1>1, <3>2, <4>1, SameRefunds
        <3> QED BY <3>1, <3>2 DEF RefundStep
    <2> QED BY <2>1, <2>2
<1>7. \A id \in MarketIds : /\ f[id] \in Nat /\ p[id] \in Nat
                            /\ g[id] \in Nat /\ q[id] \in Nat /\ q[id] <= g[id]
    <2>1. RefundTyped
        BY <1>1, RefundsAreTyped DEF RefundOK
    <2>2. RefundOK'
        BY <1>6 DEF RefundOK
    <2>3. RefundOK' => RefundTyped'
        BY RefundsAreTyped, PTL
    <2> QED BY <2>1, <2>2, <2>3 DEF RefundTyped
<1> HIDE DEF f, g, p, q
<1>8. IsFiniteSet(MarketIds)
    BY MarketsAreFinite
<1>9. AllRefundable \in Nat /\ AllBacking \in Nat /\ AllRefundable' \in Nat /\ AllBacking' \in Nat
    BY <1>2, <1>7, <1>8, SumIsNatural DEF SumFunction
<1>10. AllBacking' <= AllRefundable'
    <2>1. \A id \in MarketIds : q[id] \in Int /\ g[id] \in Int /\ q[id] <= g[id]
        BY <1>7
    <2>2. SumFunctionOnSet(q, MarketIds) <= SumFunctionOnSet(g, MarketIds)
        BY <1>8, <2>1, SumIsMonotone
    <2> QED BY <1>2, <2>2 DEF SumFunction
<1>11. ASSUME FeesStay'
       PROVE  AllRefundable' <= X' /\ AllBacking' + accFees' <= X'
    <2>1. AllRefundable <= X /\ AllBacking + accFees <= X
        BY <1>5, <1>11 DEF RefundInv
    <2>2. CASE RefundRests
        <3>1. f = g /\ p = q
            BY <2>2 DEF RefundRests, f, g, p, q
        <3>2. AllRefundable' = AllRefundable /\ AllBacking' = AllBacking
            BY <1>2, <3>1
        <3>3. X <= X' /\ accFees' \in {0, accFees}
            BY <1>11, <2>2 DEF RefundRests
        <3> QED BY <1>3, <1>9, <2>1, <3>2, <3>3
    <2>3. CASE \E id \in MarketIds : RefundStep(id)
        <3>1. PICK a \in MarketIds : RefundStep(a)
            BY <2>3
        <3>2. \A id \in MarketIds \ {a} : g[id] = f[id] /\ q[id] = p[id]
            <4>1. ASSUME NEW id \in MarketIds \ {a}
                  PROVE  Refundable(id)' = Refundable(id) /\ Backing(id)' = Backing(id)
                <5>1. market'[id] = market[id] /\ bet'[id] = bet[id]
                    BY <3>1 DEF RefundStep
                <5> QED BY <5>1, SameRefunds
            <4> QED BY <4>1 DEF f, g, p, q
        <3>3. /\ AllRefundable' = AllRefundable + (g[a] - f[a])
              /\ AllBacking' = AllBacking + (q[a] - p[a])
            BY <1>2, <1>7, <3>2, MarketSumMoves
        <3>4. /\ g[a] - f[a] <= X' - X
              /\ accFees' = 0 \/ (q[a] - p[a]) + (accFees' - accFees) <= X' - X
            BY <1>11, <3>1 DEF RefundStep, f, g, p, q
        <3>5. g[a] - f[a] \in Int /\ q[a] - p[a] \in Int
            BY <1>7
        <3>6. AllRefundable' <= X'
            BY <1>3, <1>9, <2>1, <3>3, <3>4, <3>5
        <3> QED BY <1>3, <1>9, <1>10, <2>1, <3>3, <3>4, <3>5, <3>6
    <2> QED BY <2>2, <2>3
<1> QED BY <1>5, <1>6, <1>11 DEF RefundInv

LEMMA BetKeepsRefunds ==
    ASSUME RefundInv, BooksInv', Bettors \cap (Referrers \cup Treasuries) = {},
           NEW user \in Bettors, NEW id \in MarketIds, NEW isYes \in BOOLEAN,
           NEW amount \in BetAmounts, PlaceBet(user, id, isYes, amount)
    PROVE  RefundStep(id)
<1> DEFINE p == Pool(market[id])
           n == Net(amount)
<1>1. BooksInv /\ FundsOK /\ \A a \in FeeTakers : xlm[a] >= InitialXlm[a]
    BY DEF RefundInv
<1>2. /\ user \in Address /\ amount \in Nat /\ n \in Nat /\ Undecided(id)
      /\ bet'[id][user].gross = bet[id][user].gross + amount
      /\ \A u \in Address \ {user} : bet'[id][u] = bet[id][u]
      /\ \A other \in MarketIds \ {id} : bet'[other] = bet[other]
    BY <1>1, BetFacts DEF BetEffect
<1>3. /\ market'[id].totalYes = market[id].totalYes + IF isYes THEN n ELSE 0
      /\ market'[id].totalNo  = market[id].totalNo  + IF isYes THEN 0 ELSE n
      /\ ~market'[id].resolved /\ ~market'[id].cancelled
      /\ \A other \in MarketIds \ {id} : market'[other] = market[other]
    BY <1>1, BetMovesMarket
<1>4. market[id].totalYes \in Nat /\ market[id].totalNo \in Nat /\ bet[id][user].gross \in Nat
    BY <1>1, <1>2, BookTypes
<1>5. p \in Nat /\ Pool(market'[id]) = p + n /\ Undecided(id)'
    BY <1>2, <1>3, <1>4 DEF Pool, Undecided
<1>6. Gross(id) \in Nat /\ Gross(id)' = Gross(id) + amount
    <2>1. Gross(id)' = Gross(id) + bet'[id][user].gross - bet[id][user].gross
        BY <1>1, <1>2, GrossMoves
    <2> QED BY <1>1, <1>2, <1>4, <2>1, GrossIsNatural
<1>7. /\ \A a \in FeeTakers : xlm'[a] >= xlm[a]
      /\ accFees' <= accFees + TotalFee(amount)
      /\ FeesStay' => xlm'[MarketContract] = xlm[MarketContract] + amount
    BY <1>1, BetMovesBalance DEF PlaceBet, BetAccepted
<1>8. xlm[MarketContract] \in Nat /\ accFees \in Nat /\ accFees' \in Nat /\ TotalFee(amount) \in Nat
    <2>1. MoneyMoves(Net(amount), Net(amount) + 1)
        BY <1>1, BetSettles
    <2> QED BY <1>1, <1>2, <2>1, ContractsDiffer, FeesAddUp DEF FundsOK, MoneyMoves
<1>9. 98 * Gross(id) >= 100 * p
    BY <1>2 DEF RefundInv
<1>10. /\ Refundable(id) = Gross(id) /\ Refundable(id)' = Gross(id)'
       /\ Backing(id) = Gross(id) - FeesInPool(p)
       /\ Backing(id)' = Gross(id)' - FeesInPool(p + n)
    BY <1>2, <1>3, <1>5 DEF Refundable, Backing, Undecided
<1>11. /\ FeesInPool(p) \in Nat /\ FeesInPool(p + n) >= FeesInPool(p) + TotalFee(amount)
       /\ 98 * amount >= 100 * n /\ FeesInPool(p + n) \in Nat
    <2>1. /\ FeesInPool(p) \in Nat /\ 98 * amount >= 100 * Net(amount)
          /\ FeesInPool(p + Net(amount)) >= FeesInPool(p) + TotalFee(amount)
        BY <1>2, <1>5, FeesOfPool
    <2> HIDE DEF p
    <2>2. p + n \in Nat
        BY <1>2, <1>5
    <2>3. FeesInPool(p + n) \in Nat
        BY <1>2, <2>2, FeesOfPool
    <2> QED BY <2>1, <2>3
<1> HIDE DEF p, n
<1>12. 98 * Gross(id)' >= 100 * Pool(market'[id])
    BY <1>2, <1>5, <1>6, <1>9, <1>11
<1>13. /\ Refundable(id)' - Refundable(id) = amount
       /\ (Backing(id)' - Backing(id)) + (accFees' - accFees) <= amount
    BY <1>2, <1>6, <1>7, <1>8, <1>10, <1>11
<1>14. FeesStay' => xlm'[MarketContract] - xlm[MarketContract] = amount
    BY <1>2, <1>7, <1>8
<1> QED BY <1>2, <1>3, <1>7, <1>12, <1>13, <1>14 DEF RefundStep

LEMMA ClaimKeepsRefunds ==
    ASSUME RefundInv, Bettors \cap (Referrers \cup Treasuries) = {},
           NEW user \in Bettors, NEW id \in MarketIds, Claim(user, id)
    PROVE  RefundStep(id)
<1>1. BooksInv /\ FundsOK
    BY DEF RefundInv
<1>2. /\ Settles(id) /\ accFees' = accFees /\ xlm' \in [Address -> Nat]
    BY <1>1, ClaimSettles
<1>3. /\ market' = market /\ market[id].resolved /\ ~market[id].cancelled
      /\ bet' = [bet EXCEPT ![id][user].claimed = TRUE]
    BY DEF Claim, MayClaim
<1>4. user \in Address /\ user \notin FeeTakers /\ bet \in [MarketIds -> [Address -> BetEntry]]
    BY <1>1, MarketConstants DEF FeeTakers, BooksInv
<1>5. \A other \in MarketIds \ {id} : market'[other] = market[other] /\ bet'[other] = bet[other]
    BY <1>3, <1>4
<1>6. \A a \in FeeTakers : xlm'[a] >= xlm[a]
    <2>1. CASE RealWin(id, user)
        <3>1. XlmTransfer(MarketContract, user, Payout(id, user)) /\ Payout(id, user) \in Nat
            BY <1>1, <1>4, <2>1, PayoutIsNatural DEF Claim
        <3>2. \A a \in FeeTakers : /\ xlm'[a] = IF a = user THEN xlm[a] + Payout(id, user) ELSE xlm[a]
                                   /\ xlm[a] \in Nat
            BY <1>1, <1>4, <3>1, PaymentMovesBalance
        <3> QED BY <1>4, <3>2
    <2>2. CASE ~RealWin(id, user)
        <3>1. xlm' = xlm
            BY <2>2 DEF Claim
        <3>2. \A a \in FeeTakers : xlm[a] \in Nat
            BY <1>1, MarketConstants DEF FeeTakers, FundsOK
        <3> QED BY <3>1, <3>2
    <2> QED BY <2>1, <2>2
<1>7. ~Undecided(id)' /\ ~Undecided(id)
    BY <1>3 DEF Undecided
<1>8. /\ Refundable(id) = Stakes(id) /\ Refundable(id)' = Stakes(id)'
      /\ Backing(id) = Stakes(id) /\ Backing(id)' = Stakes(id)'
    BY <1>3, <1>7 DEF Refundable, Backing
<1>9. Stakes(id)' - Stakes(id) <= xlm'[MarketContract] - xlm[MarketContract]
    <2>1. Stakes(id)' - Stakes(id) <= Held' - Held
        BY <1>2 DEF Settles
    <2>2. xlm[MarketContract] \in Nat /\ xlm'[MarketContract] \in Nat /\ accFees \in Nat
        BY <1>1, <1>2, ContractsDiffer DEF FundsOK
    <2>3. Held' - Held = xlm'[MarketContract] - xlm[MarketContract]
        BY <1>2, <2>2 DEF Held
    <2> QED BY <2>1, <2>3
<1>10. accFees' - accFees = 0 /\ Stakes(id) \in Nat /\ Stakes(id)' \in Nat
    BY <1>1, <1>2, <1>3, StakesAreNatural DEF FundsOK, Settles
<1>11. (Backing(id)' - Backing(id)) + (accFees' - accFees) = Stakes(id)' - Stakes(id)
    BY <1>8, <1>10
<1> QED BY <1>5, <1>6, <1>7, <1>8, <1>9, <1>11 DEF RefundStep

\* A refund pays the gross amount of an entry and strikes it.
LEMMA RepaymentKeepsRefunds ==
    ASSUME RefundInv, BooksInv', Bettors \cap (Referrers \cup Treasuries) = {},
           NEW user \in Bettors, NEW id \in MarketIds, CancelRefund(user, id)
    PROVE  RefundStep(id)
<1> DEFINE paid == bet[id][user].gross
<1>1. BooksInv /\ FundsOK
    BY DEF RefundInv
<1>2. /\ market' = market /\ market[id].cancelled /\ accFees' = accFees
      /\ bet' = [bet EXCEPT ![id][user].gross = 0]
      /\ XlmTransfer(MarketContract, user, paid)
    BY DEF CancelRefund
<1>3. /\ user \in Address /\ user # MarketContract /\ user \notin FeeTakers
      /\ bet \in [MarketIds -> [Address -> BetEntry]] /\ bet[id][user] \in BetEntry /\ paid \in Nat
    BY <1>1, MarketConstants, BettorsAreUsers, BookTypes DEF FeeTakers, BooksInv
<1>4. /\ \A other \in MarketIds \ {id} : market'[other] = market[other] /\ bet'[other] = bet[other]
      /\ \A u \in Address \ {user} : bet'[id][u].gross = bet[id][u].gross
      /\ bet'[id][user].gross = 0
    <2> DEFINE e == [bet[id][user] EXCEPT !.gross = 0]
    <2>1. bet' = [bet EXCEPT ![id][user] = e]
        BY <1>2
    <2>2. e.gross = 0
        BY <1>3 DEF BetEntry
    <2> HIDE DEF e
    <2>3. \A i \in MarketIds, v \in Address :
              bet'[i][v] = IF i = id /\ v = user THEN e ELSE bet[i][v]
        BY <1>3, <2>1
    <2>4. \A other \in MarketIds \ {id} : bet'[other] = bet[other]
        BY <1>3, <2>1
    <2> QED BY <1>2, <1>3, <2>2, <2>3, <2>4
<1>5. Gross(id) \in Nat /\ Gross(id)' = Gross(id) - paid
    <2>1. Gross(id)' = Gross(id) + bet'[id][user].gross - bet[id][user].gross
        BY <1>1, <1>3, <1>4, GrossMoves
    <2> QED BY <1>1, <1>3, <1>4, <2>1, GrossIsNatural
<1>6. ~Undecided(id)' /\ ~Undecided(id)
    BY <1>2 DEF Undecided
<1>7. /\ Refundable(id) = Gross(id) /\ Refundable(id)' = Gross(id)'
      /\ Backing(id) = Gross(id) /\ Backing(id)' = Gross(id)'
    BY <1>2, <1>6 DEF Refundable, Backing
<1>8. /\ \A a \in FeeTakers : xlm'[a] >= xlm[a]
      /\ xlm'[MarketContract] = xlm[MarketContract] - paid
    <2>1. /\ \A a \in FeeTakers : /\ xlm'[a] = IF a = user THEN xlm[a] + paid ELSE xlm[a]
                                  /\ xlm[a] \in Nat
          /\ xlm'[MarketContract] = IF user = MarketContract THEN xlm[MarketContract]
                                    ELSE xlm[MarketContract] - paid
        BY <1>1, <1>2, <1>3, PaymentMovesBalance
    <2> HIDE DEF paid
    <2> QED BY <1>3, <2>1
<1>9. xlm[MarketContract] \in Nat /\ accFees \in Nat
    BY <1>1, ContractsDiffer DEF FundsOK
<1> HIDE DEF paid
<1>10. /\ Refundable(id)' - Refundable(id) = xlm'[MarketContract] - xlm[MarketContract]
       /\ (Backing(id)' - Backing(id)) + (accFees' - accFees)
              = xlm'[MarketContract] - xlm[MarketContract]
       /\ xlm'[MarketContract] - xlm[MarketContract] \in Int
    BY <1>2, <1>3, <1>5, <1>7, <1>8, <1>9
<1> QED BY <1>4, <1>6, <1>8, <1>10 DEF RefundStep

LEMMA ResolutionKeepsRefunds ==
    ASSUME RefundInv, NEW c, NEW id \in MarketIds, NEW o \in BOOLEAN, ResolveMarket(c, id, o)
    PROVE  RefundStep(id)
<1>1. BooksInv /\ FundsOK
    BY DEF RefundInv
<1>2. /\ Undecided(id) /\ MarketResolvedTo(id, o) /\ bet' = bet
      /\ accFees' = accFees + Swept(id, o) /\ xlm' = xlm
    BY DEF ResolveMarket
<1>3. /\ Stakes(id) \in Nat /\ Stakes(id)' \in Nat /\ Swept(id, o) \in Nat
      /\ Stakes(id)' + Swept(id, o) <= Stakes(id)
    BY <1>1, <1>2, ResolutionStakes
<1>4. market \in [MarketIds -> MarketRecord]
    BY <1>1 DEF BooksInv, VerdictInv
<1>5. /\ \A other \in MarketIds \ {id} : market'[other] = market[other]
      /\ market'[id].resolved /\ ~market'[id].cancelled
    BY <1>2, <1>4 DEF MarketResolvedTo, MarketRecord, Undecided
<1>6. Refundable(id)' = Stakes(id)' /\ Backing(id)' = Stakes(id)' /\ ~Undecided(id)'
    BY <1>5 DEF Refundable, Backing, Undecided
<1>7. /\ Refundable(id) \in Nat /\ Backing(id) \in Nat /\ Backing(id) <= Refundable(id)
      /\ Stakes(id) <= Backing(id)
    BY <1>1, <1>2, RefundTypes DEF RefundInv
<1>8. \A a \in FeeTakers : xlm[a] \in Nat
    BY <1>1, MarketConstants DEF FeeTakers, FundsOK
<1>9. xlm[MarketContract] \in Nat /\ accFees \in Nat
    BY <1>1, ContractsDiffer DEF FundsOK
<1>10. /\ Refundable(id)' - Refundable(id) <= 0
       /\ (Backing(id)' - Backing(id)) + (accFees' - accFees) <= 0
       /\ xlm'[MarketContract] - xlm[MarketContract] = 0
    BY <1>2, <1>3, <1>6, <1>7, <1>9
<1> QED BY <1>2, <1>5, <1>6, <1>8, <1>10 DEF RefundStep

\* A cancellation takes its fees back out of the pot, or all of it.
LEMMA CancellationKeepsRefunds ==
    ASSUME RefundInv, NEW id \in MarketIds, MarketCancelledNow(id)
    PROVE  RefundStep(id)
<1> DEFINE p == Pool(market[id])
<1>1. BooksInv /\ FundsOK
    BY DEF RefundInv
<1>2. /\ market' = [market EXCEPT ![id].cancelled = TRUE] /\ xlm' = xlm /\ bet' = bet
      /\ accFees' = FeesReclaimed(p) /\ Undecided(id)
    BY DEF MarketCancelledNow, MayCancel
<1>3. market \in [MarketIds -> MarketRecord] /\ market[id] \in MarketRecord
    BY <1>1 DEF BooksInv, VerdictInv
<1>4. /\ \A other \in MarketIds \ {id} : market'[other] = market[other]
      /\ market'[id].cancelled
    BY <1>2, <1>3 DEF MarketRecord
<1>5. Gross(id)' = Gross(id) /\ Gross(id) \in Nat
    BY <1>1, <1>2, GrossIsNatural DEF Gross
<1>6. p \in Nat
    BY <1>3 DEF Pool, MarketRecord
<1>7. FeesInPool(p) \in Nat
    BY <1>6, FeesOfPool DEF FeesInPool
<1>8. /\ Refundable(id) = Gross(id) /\ Backing(id) = Gross(id) - FeesInPool(p)
      /\ Refundable(id)' = Gross(id)' /\ Backing(id)' = Gross(id)' /\ ~Undecided(id)'
    BY <1>2, <1>4 DEF Refundable, Backing, Undecided
<1>9. /\ xlm[MarketContract] \in Nat /\ accFees \in Nat
      /\ \A a \in FeeTakers : xlm[a] \in Nat
    BY <1>1, ContractsDiffer, MarketConstants DEF FundsOK, FeeTakers
<1>10. accFees' = 0 \/ accFees' = accFees - FeesInPool(p)
    BY <1>2 DEF FeesReclaimed
<1> HIDE DEF p
<1>11. /\ Refundable(id)' - Refundable(id) = 0
       /\ accFees' = 0 \/ (Backing(id)' - Backing(id)) + (accFees' - accFees) = 0
       /\ xlm'[MarketContract] - xlm[MarketContract] = 0
    BY <1>2, <1>5, <1>7, <1>8, <1>9, <1>10
<1> QED BY <1>2, <1>4, <1>8, <1>9, <1>11 DEF RefundStep

LEMMA WithdrawalKeepsRefunds ==
    ASSUME RefundInv, NEW c, NEW t \in Treasuries, WithdrawFees(c, t)
    PROVE  RefundRests
<1>1. BooksInv /\ FundsOK /\ \A a \in FeeTakers : xlm[a] >= InitialXlm[a]
    BY DEF RefundInv
<1>2. /\ market' = market /\ bet' = bet /\ accFees' = 0 /\ accFees # 0
      /\ XlmTransfer(MarketContract, t, accFees)
    BY DEF WithdrawFees, PotPaidTo
<1>3. t \in Address /\ t # Nobody /\ accFees \in Nat
    BY <1>1, MarketConstants, TokenConstants DEF FundsOK
<1>4. /\ \A a \in FeeTakers : /\ xlm'[a] = IF a = t THEN xlm[a] + accFees ELSE xlm[a]
                              /\ xlm[a] \in Nat
      /\ xlm'[MarketContract] = IF t = MarketContract THEN xlm[MarketContract]
                                ELSE xlm[MarketContract] - accFees
    BY <1>1, <1>2, <1>3, PaymentMovesBalance
<1>5. t # MarketContract => ~FeesStay'
    <2> SUFFICES ASSUME t # MarketContract, FeesStay' PROVE FALSE
        OBVIOUS
    <2>1. t \in FeeTakers
        BY <1>3 DEF FeeTakers
    <2>2. xlm'[t] = xlm[t] + accFees /\ xlm'[t] = InitialXlm[t] /\ xlm[t] >= InitialXlm[t]
        BY <1>1, <1>4, <2>1 DEF FeesStay
    <2>3. InitialXlm[t] \in Nat /\ xlm[t] \in Nat
        BY <1>3, <1>4, <2>1, MarketConstants
    <2> QED BY <1>2, <1>3, <2>2, <2>3
<1>6. \A a \in FeeTakers : xlm'[a] >= xlm[a]
    BY <1>3, <1>4
<1>7. xlm[MarketContract] \in Nat
    BY <1>1, ContractsDiffer DEF FundsOK
<1>8. \A id \in MarketIds : /\ Refundable(id)' = Refundable(id) /\ Backing(id)' = Backing(id)
                            /\ Undecided(id)' => 98 * Gross(id)' >= 100 * Pool(market'[id])
    BY <1>2, SameRefunds DEF RefundInv
<1> QED BY <1>2, <1>4, <1>5, <1>6, <1>7, <1>8 DEF RefundRests

\* A step that moves no money and touches neither a bet nor a pool.
LEMMA IdleKeepsRefunds ==
    ASSUME RefundInv, xlm' = xlm, accFees' = accFees, bet' = bet,
           \A id \in MarketIds : \/ market'[id] = market[id]
                                 \/ /\ Undecided(id) /\ Undecided(id)'
                                    /\ Pool(market'[id]) = Pool(market[id])
    PROVE  RefundRests
<1>1. BooksInv /\ FundsOK
    BY DEF RefundInv
<1>2. xlm[MarketContract] \in Nat /\ \A a \in FeeTakers : xlm[a] \in Nat
    BY <1>1, ContractsDiffer, MarketConstants DEF FundsOK, FeeTakers
<1>3. ASSUME NEW id \in MarketIds
      PROVE  /\ Refundable(id)' = Refundable(id) /\ Backing(id)' = Backing(id)
             /\ Undecided(id)' => 98 * Gross(id)' >= 100 * Pool(market'[id])
    <2>1. CASE market'[id] = market[id]
        BY <2>1, SameRefunds DEF RefundInv
    <2>2. CASE /\ Undecided(id) /\ Undecided(id)'
               /\ Pool(market'[id]) = Pool(market[id])
        <3>1. Gross(id)' = Gross(id)
            BY DEF Gross
        <3>2. /\ Refundable(id) = Gross(id) /\ Refundable(id)' = Gross(id)'
              /\ Backing(id) = Gross(id) - FeesInPool(Pool(market[id]))
              /\ Backing(id)' = Gross(id)' - FeesInPool(Pool(market'[id]))
            BY <2>2 DEF Refundable, Backing, Undecided
        <3> QED BY <2>2, <3>1, <3>2 DEF RefundInv
    <2> QED BY <2>1, <2>2
<1> QED BY <1>2, <1>3 DEF RefundRests

LEMMA AdminStepKeepsRefunds ==
    ASSUME RefundInv, AdminStep
    PROVE  RefundRests \/ \E id \in MarketIds : RefundStep(id)
<1>1. CASE RegistryDeployed \/ \E c \in ConfigChoices : RegistryXlmSet(c.xlm)
    <2>1. xlm' = xlm /\ accFees' = accFees /\ market' = market /\ bet' = bet
        BY <1>1 DEF RegistryDeployed, ReferralInitialize, RegistryXlmSet, SetXlmSac,
                    marketVars, bookVars
    <2> QED BY <2>1, IdleKeepsRefunds
<1>2. CASE MarketDeployed
    <2>1. /\ xlm' = xlm /\ accFees' = 0 /\ market' = market /\ bet' = bet
          /\ mktCfg.admin = Nobody
        BY <1>2 DEF MarketDeployed, MarketInitialize
    <2>2. accFees' = accFees
        BY <2>1 DEF RefundInv, FundsOK
    <2> QED BY <2>1, <2>2, IdleKeepsRefunds
<1>3. CASE \E d \in Durations : MayCreate /\ CreateMarket(Deployer, d)
    <2>1. PICK d \in Durations : MayCreate /\ CreateMarket(Deployer, d)
        BY <1>3
    <2>2. /\ market' = [market EXCEPT ![marketCount + 1] = NewMarket(now + d)]
          /\ bet' = bet /\ accFees' = accFees /\ xlm' = xlm
        BY <2>1 DEF CreateMarket
    <2>3. BooksInv /\ marketCount \in Nat /\ market \in [MarketIds -> MarketRecord]
        BY MarketConstants DEF RefundInv, BooksInv, VerdictInv
    <2>4. ASSUME NEW id \in MarketIds
          PROVE  \/ market'[id] = market[id]
                 \/ /\ Undecided(id) /\ Undecided(id)'
                    /\ Pool(market'[id]) = Pool(market[id])
        <3>1. CASE id = marketCount + 1
            <4>1. market'[id] = NewMarket(now + d) /\ id > marketCount
                BY <2>2, <2>3, <3>1
            <4>2. market[id].totalYes = 0 /\ market[id].totalNo = 0 /\ Undecided(id)
                BY <2>3, <4>1, UnusedMarketIsBlank
            <4> QED BY <4>1, <4>2 DEF NewMarket, Pool, Undecided
        <3>2. CASE id # marketCount + 1
            BY <2>2, <2>3, <3>2
        <3> QED BY <3>1, <3>2
    <2> QED BY <2>2, <2>4, IdleKeepsRefunds
<1>4. CASE \/ \E c \in ConfigChoices : SetConfig(Deployer, c.referral, c.leaderboard, c.xlm)
           \/ \E o \in Officials : AddResolver(Deployer, o) \/ RemoveResolver(Deployer, o)
           \/ \E c \in Collectors :
                 AddFeeRecipient(Deployer, c) \/ RemoveFeeRecipient(Deployer, c)
    <2>1. xlm' = xlm /\ accFees' = accFees /\ market' = market /\ bet' = bet
        BY <1>4 DEF SetConfig, AddResolver, RemoveResolver, SetResolvers, AddFeeRecipient,
                    RemoveFeeRecipient, SetRecipients, bookVars
    <2> QED BY <2>1, IdleKeepsRefunds
<1>5. CASE \E id \in MarketIds : CancelMarket(Deployer, id)
    BY <1>5, CancellationKeepsRefunds DEF CancelMarket
<1> QED BY <1>1, <1>2, <1>3, <1>4, <1>5 DEF AdminStep

LEMMA CallerStepKeepsRefunds ==
    ASSUME RefundInv, BooksInv', Bettors \cap (Referrers \cup Treasuries) = {}, CallerStep
    PROVE  RefundRests \/ \E id \in MarketIds : RefundStep(id)
<1>1. CASE \E u \in Bettors, r \in Referrers : Register(u, r)
    <2>1. xlm' = xlm /\ accFees' = accFees /\ market' = market /\ bet' = bet
        BY <1>1 DEF Register, RegisterReferral, marketVars, bookVars
    <2> QED BY <2>1, IdleKeepsRefunds
<1>2. CASE \E u \in Bettors, id \in MarketIds, y \in BOOLEAN, a \in BetAmounts :
               PlaceBet(u, id, y, a)
    BY <1>2, BetKeepsRefunds
<1>3. CASE \E u \in Bettors, id \in MarketIds : CancelRefund(u, id)
    BY <1>3, RepaymentKeepsRefunds
<1>4. CASE \E u \in Bettors, id \in MarketIds : Claim(u, id)
    BY <1>4, ClaimKeepsRefunds
<1>5. CASE \E c \in {Deployer} \cup Officials, id \in MarketIds, o \in BOOLEAN :
               ResolveMarket(c, id, o)
    BY <1>5, ResolutionKeepsRefunds
<1>6. CASE \E c \in {Deployer} \cup Collectors, t \in Treasuries : WithdrawFees(c, t)
    BY <1>6, WithdrawalKeepsRefunds
<1> QED BY <1>1, <1>2, <1>3, <1>4, <1>5, <1>6 DEF CallerStep

LEMMA StepKeepsRefunds ==
    ASSUME RefundInv, [MarketNext]_allMarketVars, Bettors \cap (Referrers \cup Treasuries) = {}
    PROVE  RefundInv'
<1>1. BooksInv' /\ FundsOK'
    BY StepKeepsBooks, StepMovesMoney DEF RefundInv, MoneyStep
<1>2. CASE AdminStep
    BY <1>1, <1>2, AdminStepKeepsRefunds, RefundsKept
<1>3. CASE CallerStep
    BY <1>1, <1>3, CallerStepKeepsRefunds, RefundsKept
<1>4. CASE Tick \/ UNCHANGED allMarketVars
    <2>1. xlm' = xlm /\ accFees' = accFees /\ market' = market /\ bet' = bet
        BY <1>4 DEF Tick, allMarketVars, marketVars, bookVars
    <2> QED BY <1>1, <2>1, IdleKeepsRefunds, RefundsKept
<1> QED BY <1>2, <1>3, <1>4 DEF MarketNext

LEMMA RefundInvInit ==
    ASSUME DeployedInit
    PROVE  RefundInv
<1> DEFINE f == [id \in MarketIds |-> Refundable(id)]
           p == [id \in MarketIds |-> Backing(id)]
<1>1. /\ xlm = InitialXlm /\ accFees = 0
      /\ market = [id \in MarketIds |-> NewMarket(0)]
      /\ bet = [id \in MarketIds |-> [u \in Address |-> NoBet]]
    BY DEF DeployedInit, MarketInit
<1>2. BooksInv /\ FundsOK
    BY MoneyInvInit DEF MoneyInv
<1>3. /\ xlm[MarketContract] \in Nat
      /\ \A a \in FeeTakers : xlm[a] = InitialXlm[a] /\ InitialXlm[a] \in Nat
    BY <1>1, ContractsDiffer, MarketConstants DEF FeeTakers
<1>4. ASSUME NEW id \in MarketIds
      PROVE  Gross(id) = 0 /\ Pool(market[id]) = 0 /\ f[id] = 0 /\ p[id] = 0
    <2> DEFINE g == [u \in Address |-> bet[id][u].gross]
    <2>1. DOMAIN g = Address /\ \A u \in Address : g[u] = 0
        BY <1>1 DEF NoBet
    <2>2. Gross(id) = SumFunction(g)
        BY DEF Gross
    <2> HIDE DEF g
    <2>3. Gross(id) = 0
        BY <2>1, <2>2, TokenConstants, SumOfZeros DEF SumFunction
    <2>4. Undecided(id) /\ Pool(market[id]) = 0
        BY <1>1 DEF Undecided, NewMarket, Pool
    <2>5. FeesInPool(0) = 0
        BY DEF FeesInPool
    <2>6. Refundable(id) = Gross(id) /\ Backing(id) = Gross(id) - FeesInPool(Pool(market[id]))
        BY <2>4 DEF Refundable, Backing, Undecided
    <2> QED BY <2>3, <2>4, <2>5, <2>6
<1>5. AllRefundable = SumFunction(f) /\ AllBacking = SumFunction(p)
    BY DEF AllRefundable, AllBacking
<1>6. DOMAIN f = MarketIds /\ DOMAIN p = MarketIds
    OBVIOUS
<1> HIDE DEF f, p
<1>7. AllRefundable = 0 /\ AllBacking = 0
    BY <1>4, <1>5, <1>6, MarketsAreFinite, SumOfZeros DEF SumFunction
<1> QED BY <1>1, <1>2, <1>3, <1>4, <1>7 DEF RefundInv

\* The invariant behind refunds, when those who take fees do not bet.
THEOREM RefundInvariant ==
    ASSUME Bettors \cap (Referrers \cup Treasuries) = {}
    PROVE  MarketSpec => []RefundInv
<1>1. DeployedInit => RefundInv
    BY RefundInvInit
<1>2. RefundInv /\ [MarketNext]_allMarketVars => RefundInv'
    BY StepKeepsRefunds
<1> QED BY <1>1, <1>2, PTL DEF MarketSpec

\* While no fee has left the contract, everything it owes is there, refunds of
\* cancelled markets included: cancel_market takes no more out of the pot than
\* the fees of its bets and what their rounding left behind.  Those who take fees
\* do not bet, for the balance of one who does tells nothing of the fees.
THEOREM RefundsCoveredWhileFeesStay ==
    ASSUME Bettors \cap (Referrers \cup Treasuries) = {}
    PROVE  MarketSpec => []SolventWhileFeesStay
<1>1. RefundInv => SolventWhileFeesStay
    <2> SUFFICES ASSUME RefundInv,
                        \A a \in Treasuries \cup (Referrers \ {Nobody}) : xlm[a] = InitialXlm[a]
                 PROVE  xlm[MarketContract] >= AllStakes + accFees
        BY DEF SolventWhileFeesStay
    <2> DEFINE f == [id \in MarketIds |-> Stakes(id)]
               p == [id \in MarketIds |-> Backing(id)]
    <2>1. FeesStay
        BY DEF FeesStay, FeeTakers
    <2>2. AllBacking + accFees <= xlm[MarketContract]
        BY <2>1 DEF RefundInv
    <2>3. \A id \in MarketIds : f[id] \in Nat /\ p[id] \in Nat /\ f[id] <= p[id]
        <3>1. ASSUME NEW id \in MarketIds
              PROVE  Stakes(id) \in Nat /\ Backing(id) \in Nat /\ Stakes(id) <= Backing(id)
            BY RefundTypes DEF RefundInv
        <3> QED BY <3>1
    <2>4. AllStakes = SumFunction(f) /\ AllBacking = SumFunction(p)
        BY DEF AllStakes, AllBacking
    <2>5. DOMAIN f = MarketIds /\ DOMAIN p = MarketIds
        OBVIOUS
    <2> HIDE DEF f, p
    <2>6. SumFunctionOnSet(f, MarketIds) <= SumFunctionOnSet(p, MarketIds)
        BY <2>3, MarketsAreFinite, SumIsMonotone
    <2>7. AllStakes <= AllBacking /\ AllStakes \in Nat /\ AllBacking \in Nat
        BY <2>3, <2>4, <2>5, <2>6, MarketsAreFinite, SumIsNatural DEF SumFunction
    <2>8. xlm[MarketContract] \in Nat /\ accFees \in Nat
        BY ContractsDiffer DEF RefundInv, FundsOK
    <2> QED BY <2>2, <2>7, <2>8
<1> QED BY <1>1, RefundInvariant, PTL
=============================================================================
