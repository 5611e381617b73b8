------------------------- MODULE Leaderboard_proofs -------------------------
(***************************************************************************)
(* The leaderboard's list, index and cached cut-off stay consistent for any*)
(* number of players, slots and scores, and the reward token's supply is   *)
(* what its holders hold, for any number of holders and any amounts.       *)
(***************************************************************************)
EXTENDS Leaderboard, SumFacts, TLAPS

-----------------------------------------------------------------------------
(* The weakest slot *)

\* recompute_min finds a slot, and no listed player has fewer points.
LEMMA WeakestSlotIsWeakest ==
    ASSUME NEW at \in [Slots -> Entry], NEW count \in 1 .. MaxTop
    PROVE  /\ WeakestSlot(at, count) \in Occupied(count)
           /\ \A s \in Occupied(count) : at[WeakestSlot(at, count)].points <= at[s].points
<1> DEFINE occ == Occupied(count)
           pts == {at[s].points : s \in occ}
<1>1. occ \subseteq Slots /\ occ \subseteq Nat /\ 0 \in occ
    BY LeaderboardConstants DEF Occupied, Slots
<1>2. \A s \in occ : at[s].points \in Nat
    BY <1>1 DEF Entry, Points
<1>3. PICK p \in pts : \A q \in pts : p <= q
    <2>1. pts \subseteq Nat /\ pts # {}
        BY <1>1, <1>2
    <2> QED BY <2>1, LeastOfNaturals
<1> DEFINE least == {s \in occ : at[s].points = p}
<1>4. PICK w \in least : \A s \in least : w <= s
    <2>1. least \subseteq Nat /\ least # {}
        BY <1>1, <1>3
    <2> QED BY <2>1, LeastOfNaturals
<1>5. \A t \in occ : \/ at[w].points < at[t].points
                     \/ at[w].points = at[t].points /\ w <= t
    BY <1>1, <1>2, <1>3, <1>4
<1>6. /\ WeakestSlot(at, count) \in occ
      /\ \A t \in occ : \/ at[WeakestSlot(at, count)].points < at[t].points
                        \/ at[WeakestSlot(at, count)].points = at[t].points
    BY <1>4, <1>5 DEF WeakestSlot
<1> QED BY <1>1, <1>2, <1>6

-----------------------------------------------------------------------------
(* The inductive invariant.  CutoffIsLowerBound alone says nothing about   *)
(* which player a slot holds, and the index alone nothing about points; an *)
(* eviction needs both, and initialize needs to find the list empty.       *)

UninitializedIsEmpty ==
    lbCfg.admin = Nobody =>
        lbCfg.market = Nobody /\ lbCfg.referral = Nobody /\ topCount = 0

ListInv ==
    /\ LeaderboardTypeOK
    /\ SlotIndexConsistent
    /\ ListedPointsCurrent
    /\ CutoffIsLowerBound

LInv == ListInv /\ UninitializedIsEmpty

\* The cut-off of a full list is a listed slot no listed player is below.
LEMMA CutoffIsWeak ==
    ASSUME ListInv, topCount >= MaxTop
    PROVE  /\ topCount = MaxTop /\ Occupied(topCount) = Slots
           /\ CutoffSlot \in Slots /\ CutoffPoints \in Points
           /\ \A s \in Slots : CutoffPoints <= topAt[s].points
<1>1. /\ topCount = MaxTop /\ topCount \in 1 .. MaxTop
      /\ Occupied(topCount) = Slots /\ topAt \in [Slots -> Entry]
    BY LeaderboardConstants DEF ListInv, LeaderboardTypeOK, Occupied, Slots
<1>2. CASE minPoints = U64Max
    <2>1. /\ WeakestSlot(topAt, topCount) \in Slots
          /\ \A s \in Slots : topAt[WeakestSlot(topAt, topCount)].points <= topAt[s].points
        BY <1>1, WeakestSlotIsWeakest
    <2> QED BY <1>1, <1>2, <2>1 DEF CutoffSlot, CutoffPoints, Entry
<1>3. CASE minPoints # U64Max
    <2>1. minSlot \in Slots /\ minPoints \in Points
        BY DEF ListInv, LeaderboardTypeOK
    <2>2. \A s \in Slots : minPoints <= topAt[s].points
        BY <1>1 DEF ListInv, CutoffIsLowerBound
    <2> QED BY <1>1, <1>3, <2>1, <2>2 DEF CutoffSlot, CutoffPoints
<1> QED BY <1>2, <1>3

\* A player already listed is updated in place.
LEMMA UpdateListedKeeps ==
    ASSUME ListInv, NEW user \in Address, NEW points \in Points,
           points >= stats[user].points,
           stats' \in [Address -> Stats],
           stats'[user].points = points,
           \A u \in Address \ {user} : stats'[u] = stats[u],
           UpdateListed(user, points), lbCfg' = lbCfg
    PROVE  ListInv'
<1> DEFINE s0 == slotOf[user]
<1>1. /\ s0 \in Occupied(topCount) /\ s0 \in Slots /\ topAt[s0].address = user
      /\ Occupied(topCount) \subseteq Slots /\ topCount' = topCount /\ slotOf' = slotOf
      /\ topCount \in 1 .. MaxTop
    BY LeaderboardConstants
    DEF ListInv, LeaderboardTypeOK, SlotIndexConsistent, UpdateListed, Occupied, Slots, NoSlot
<1>2. /\ topAt' \in [Slots -> Entry]
      /\ topAt'[s0] = [address |-> user, points |-> points]
      /\ \A s \in Slots \ {s0} : topAt'[s] = topAt[s]
    BY <1>1 DEF ListInv, LeaderboardTypeOK, UpdateListed, PutEntry, Entry
<1>3. \A s \in Slots : topAt'[s].address = topAt[s].address
    BY <1>1, <1>2
<1>4. SlotIndexConsistent'
    BY <1>1, <1>3 DEF ListInv, SlotIndexConsistent
<1>5. ListedPointsCurrent'
    <2>1. ASSUME NEW u \in Address, slotOf[u] # NoSlot
          PROVE  topAt'[slotOf[u]].points = stats'[u].points
        <3>1. CASE u = user
            BY <1>2, <3>1
        <3>2. CASE u # user
            <4>1. slotOf[u] \in Slots /\ slotOf[u] # s0
                BY <1>1, <2>1, <3>2 DEF ListInv, SlotIndexConsistent
            <4> QED BY <1>2, <2>1, <3>2, <4>1 DEF ListInv, ListedPointsCurrent
        <3> QED BY <3>1, <3>2
    <2> QED BY <1>1, <2>1 DEF ListedPointsCurrent
<1>6. \A s \in Slots : topAt[s].points <= topAt'[s].points
    <2>1. topAt[s0].points = stats[user].points
        BY <1>1 DEF ListInv, ListedPointsCurrent, LeaderboardTypeOK, NoSlot, Slots, UpdateListed
    <2>2. \A s \in Slots : topAt[s].points \in Nat
        BY DEF ListInv, LeaderboardTypeOK, Entry, Points
    <2> QED BY <1>1, <1>2, <2>1, <2>2
<1>7. minPoints' \in Points /\ minSlot' \in Slots /\ CutoffIsLowerBound'
    <2>1. CASE topCount >= MaxTop /\ slotOf[user] = minSlot
        <3>1. /\ WeakestSlot(topAt', topCount) \in Occupied(topCount)
              /\ \A s \in Occupied(topCount) :
                    topAt'[WeakestSlot(topAt', topCount)].points <= topAt'[s].points
            BY <1>1, <1>2, WeakestSlotIsWeakest
        <3>2. /\ minSlot' = WeakestSlot(topAt', topCount)
              /\ minPoints' = topAt'[WeakestSlot(topAt', topCount)].points
            BY <2>1 DEF UpdateListed, CacheWeakest
        <3> QED BY <1>1, <1>2, <3>1, <3>2 DEF CutoffIsLowerBound, Entry
    <2>2. CASE ~ (topCount >= MaxTop /\ slotOf[user] = minSlot)
        <3>1. minPoints' = minPoints /\ minSlot' = minSlot
            BY <2>2 DEF UpdateListed
        <3>2. \A s \in Slots : topAt[s].points \in Nat /\ topAt'[s].points \in Nat
            BY <1>2 DEF ListInv, LeaderboardTypeOK, Entry, Points
        <3>3. minPoints \in Points /\ minPoints \in Nat /\ minSlot \in Slots
            BY DEF ListInv, LeaderboardTypeOK, Points
        <3>4. \A s \in Occupied(topCount) : minPoints <= topAt'[s].points
            BY <1>1, <1>6, <3>2, <3>3 DEF ListInv, CutoffIsLowerBound
        <3> QED BY <1>1, <3>1, <3>3, <3>4 DEF ListInv, CutoffIsLowerBound
    <2> QED BY <2>1, <2>2
<1>8. LeaderboardTypeOK'
    BY <1>1, <1>2, <1>7 DEF ListInv, LeaderboardTypeOK
<1> QED BY <1>4, <1>5, <1>7, <1>8 DEF ListInv

\* A list with room left takes the player into its next slot.
LEMMA AppendPlayerKeeps ==
    ASSUME ListInv, NEW user \in Address, NEW points \in Points,
           stats' \in [Address -> Stats],
           stats'[user].points = points,
           \A u \in Address \ {user} : stats'[u] = stats[u],
           AppendPlayer(user, points), lbCfg' = lbCfg
    PROVE  ListInv'
<1>1. /\ topCount \in Slots /\ topCount + 1 \in 0 .. MaxTop /\ topCount' = topCount + 1
      /\ Occupied(topCount') = Occupied(topCount) \cup {topCount}
      /\ topCount \notin Occupied(topCount) /\ Occupied(topCount) \subseteq Slots
      /\ topCount # NoSlot
    BY LeaderboardConstants
    DEF ListInv, LeaderboardTypeOK, AppendPlayer, Occupied, Slots, NoSlot
<1>2. /\ topAt' \in [Slots -> Entry]
      /\ topAt'[topCount] = [address |-> user, points |-> points]
      /\ \A s \in Occupied(topCount) : topAt'[s] = topAt[s]
    BY <1>1 DEF ListInv, LeaderboardTypeOK, AppendPlayer, PutEntry, Entry
<1>3. /\ slotOf' \in [Address -> Slots \cup {NoSlot}]
      /\ slotOf'[user] = topCount /\ slotOf[user] = NoSlot
      /\ \A u \in Address \ {user} : slotOf'[u] = slotOf[u]
    BY <1>1 DEF ListInv, LeaderboardTypeOK, AppendPlayer
<1>4. SlotIndexConsistent'
    <2>1. ASSUME NEW s \in Occupied(topCount')
          PROVE  topAt'[s].address \in Address /\ slotOf'[topAt'[s].address] = s
        <3>1. CASE s = topCount
            BY <1>2, <1>3, <3>1
        <3>2. CASE s \in Occupied(topCount)
            <4>1. topAt[s].address \in Address /\ slotOf[topAt[s].address] = s
                BY <3>2 DEF ListInv, SlotIndexConsistent
            <4>2. s # NoSlot
                BY <1>1, <3>2 DEF Occupied, NoSlot, Slots
            <4> QED BY <1>2, <1>3, <3>2, <4>1, <4>2
        <3> QED BY <1>1, <2>1, <3>1, <3>2
    <2>2. ASSUME NEW u \in Address, slotOf'[u] # NoSlot
          PROVE  slotOf'[u] \in Occupied(topCount') /\ topAt'[slotOf'[u]].address = u
        <3>1. CASE u = user
            BY <1>1, <1>2, <1>3, <3>1
        <3>2. CASE u # user
            BY <1>1, <1>2, <1>3, <2>2, <3>2 DEF ListInv, SlotIndexConsistent
        <3> QED BY <3>1, <3>2
    <2> QED BY <2>1, <2>2 DEF SlotIndexConsistent
<1>5. ListedPointsCurrent'
    <2>1. ASSUME NEW u \in Address, slotOf'[u] # NoSlot
          PROVE  topAt'[slotOf'[u]].points = stats'[u].points
        <3>1. CASE u = user
            BY <1>2, <1>3, <3>1
        <3>2. CASE u # user
            BY <1>2, <1>3, <2>1, <3>2 DEF ListInv, SlotIndexConsistent, ListedPointsCurrent
        <3> QED BY <3>1, <3>2
    <2> QED BY <2>1 DEF ListedPointsCurrent
<1>6. \A s \in Slots : topAt[s].points \in Nat
    BY DEF ListInv, LeaderboardTypeOK, Entry, Points
<1>7. points \in Nat /\ minPoints \in Nat /\ minPoints \in Points /\ minSlot \in Slots
    BY DEF ListInv, LeaderboardTypeOK, Points
<1>8. minPoints' \in Points /\ minSlot' \in Slots /\ CutoffIsLowerBound'
    <2>1. CASE topCount = 0
        <3>1. minPoints' = points /\ minSlot' = topCount /\ Occupied(topCount') = {topCount}
            BY <1>1, <2>1 DEF AppendPlayer, Occupied
        <3> QED BY <1>1, <1>2, <1>7, <3>1 DEF CutoffIsLowerBound
    <2>2. CASE topCount > 0 /\ points < minPoints
        <3>1. minPoints' = points /\ minSlot' = topCount
            BY <2>2 DEF AppendPlayer
        <3>2. \A s \in Occupied(topCount) : points <= topAt[s].points
            BY <1>1, <1>6, <1>7, <2>2 DEF ListInv, CutoffIsLowerBound
        <3> QED BY <1>1, <1>2, <1>7, <3>1, <3>2 DEF CutoffIsLowerBound
    <2>3. CASE topCount > 0 /\ ~ (points < minPoints)
        <3>1. minPoints' = minPoints /\ minSlot' = minSlot
            BY <1>1, <2>3 DEF AppendPlayer, Slots
        <3>2. minPoints <= points
            BY <1>7, <2>3
        <3> QED BY <1>1, <1>2, <1>7, <2>3, <3>1, <3>2 DEF ListInv, CutoffIsLowerBound
    <2> QED BY <1>1, <2>1, <2>2, <2>3 DEF Slots
<1>9. LeaderboardTypeOK'
    BY <1>1, <1>2, <1>3, <1>8 DEF ListInv, LeaderboardTypeOK
<1> QED BY <1>4, <1>5, <1>8, <1>9 DEF ListInv

\* A total at or below the cut-off of a full list leaves it alone.
LEMMA BelowCutoffKeeps ==
    ASSUME ListInv, NEW user \in Address, NEW points \in Points,
           stats' \in [Address -> Stats],
           \A u \in Address \ {user} : stats'[u] = stats[u],
           BelowCutoff(user, points), lbCfg' = lbCfg
    PROVE  ListInv'
<1>1. /\ Occupied(topCount) = Slots /\ CutoffSlot \in Slots /\ CutoffPoints \in Points
      /\ \A s \in Slots : CutoffPoints <= topAt[s].points
    BY CutoffIsWeak DEF BelowCutoff
<1>2. /\ minPoints' = CutoffPoints /\ minSlot' = CutoffSlot /\ slotOf[user] = NoSlot
      /\ topAt' = topAt /\ topCount' = topCount /\ slotOf' = slotOf
    BY DEF BelowCutoff
<1>3. LeaderboardTypeOK'
    BY <1>1, <1>2 DEF ListInv, LeaderboardTypeOK
<1>4. SlotIndexConsistent' /\ ListedPointsCurrent'
    BY <1>2 DEF ListInv, SlotIndexConsistent, ListedPointsCurrent
<1>5. CutoffIsLowerBound'
    BY <1>1, <1>2 DEF CutoffIsLowerBound
<1> QED BY <1>3, <1>4, <1>5 DEF ListInv

\* An eviction frees the old entry's index and hands its slot to the player.
LEMMA ReplaceWeakestKeeps ==
    ASSUME ListInv, NEW user \in Address, NEW points \in Points,
           stats' \in [Address -> Stats],
           stats'[user].points = points,
           \A u \in Address \ {user} : stats'[u] = stats[u],
           ReplaceWeakest(user, points), lbCfg' = lbCfg
    PROVE  ListInv'
<1> DEFINE cut == CutoffSlot
           old == topAt[cut].address
<1>1. /\ topCount = MaxTop /\ Occupied(topCount) = Slots /\ topCount \in 1 .. MaxTop
      /\ cut \in Slots /\ topCount' = topCount /\ NoSlot \notin Slots
    BY CutoffIsWeak, LeaderboardConstants DEF ReplaceWeakest, Slots, NoSlot
<1>2. /\ topAt' \in [Slots -> Entry]
      /\ topAt'[cut] = [address |-> user, points |-> points]
      /\ \A s \in Slots \ {cut} : topAt'[s] = topAt[s]
    BY <1>1 DEF ListInv, LeaderboardTypeOK, ReplaceWeakest, PutEntry, Entry
<1>3. old \in Address /\ slotOf[old] = cut /\ slotOf[user] = NoSlot /\ old # user
    BY <1>1 DEF ListInv, SlotIndexConsistent, ReplaceWeakest
<1>4. /\ slotOf' \in [Address -> Slots \cup {NoSlot}]
      /\ slotOf'[user] = cut /\ slotOf'[old] = NoSlot
      /\ \A u \in Address \ {user, old} : slotOf'[u] = slotOf[u]
    <2>1. slotOf' = [[slotOf EXCEPT ![old] = NoSlot] EXCEPT ![user] = cut]
        BY DEF ReplaceWeakest
    <2> QED BY <1>1, <1>3, <2>1 DEF ListInv, LeaderboardTypeOK
<1>5. \A u \in Address \ {user, old} :
          slotOf[u] # NoSlot => slotOf[u] \in Slots \ {cut} /\ topAt[slotOf[u]].address = u
    BY <1>1 DEF ListInv, SlotIndexConsistent
<1>6. SlotIndexConsistent'
    <2>1. ASSUME NEW s \in Slots
          PROVE  topAt'[s].address \in Address /\ slotOf'[topAt'[s].address] = s
        <3>1. CASE s = cut
            BY <1>2, <1>4, <3>1
        <3>2. CASE s # cut
            <4>1. topAt[s].address \in Address /\ slotOf[topAt[s].address] = s
                BY <1>1 DEF ListInv, SlotIndexConsistent
            <4>2. topAt[s].address \notin {user, old}
                BY <1>1, <1>3, <3>2, <4>1
            <4> QED BY <1>2, <1>4, <3>2, <4>1, <4>2
        <3> QED BY <3>1, <3>2
    <2>2. ASSUME NEW u \in Address, slotOf'[u] # NoSlot
          PROVE  slotOf'[u] \in Slots /\ topAt'[slotOf'[u]].address = u
        <3>1. CASE u = user
            BY <1>1, <1>2, <1>4, <3>1
        <3>2. CASE u # user
            BY <1>2, <1>4, <1>5, <2>2, <3>2
        <3> QED BY <3>1, <3>2
    <2> QED BY <1>1, <2>1, <2>2 DEF SlotIndexConsistent
<1>7. ListedPointsCurrent'
    <2>1. ASSUME NEW u \in Address, slotOf'[u] # NoSlot
          PROVE  topAt'[slotOf'[u]].points = stats'[u].points
        <3>1. CASE u = user
            BY <1>2, <1>4, <3>1
        <3>2. CASE u # user
            BY <1>2, <1>4, <1>5, <2>1, <3>2 DEF ListInv, ListedPointsCurrent
        <3> QED BY <3>1, <3>2
    <2> QED BY <2>1 DEF ListedPointsCurrent
<1>8. minPoints' \in Points /\ minSlot' \in Slots /\ CutoffIsLowerBound'
    <2>1. /\ WeakestSlot(topAt', topCount) \in Slots
          /\ \A s \in Slots : topAt'[WeakestSlot(topAt', topCount)].points <= topAt'[s].points
        BY <1>1, <1>2, WeakestSlotIsWeakest
    <2>2. /\ minSlot' = WeakestSlot(topAt', topCount)
          /\ minPoints' = topAt'[WeakestSlot(topAt', topCount)].points
        BY DEF ReplaceWeakest, CacheWeakest
    <2> QED BY <1>1, <1>2, <2>1, <2>2 DEF CutoffIsLowerBound, Entry
<1>9. LeaderboardTypeOK'
    BY <1>1, <1>2, <1>4, <1>8 DEF ListInv, LeaderboardTypeOK
<1> QED BY <1>6, <1>7, <1>8, <1>9 DEF ListInv

-----------------------------------------------------------------------------
(* Scoring and the other operations *)

\* What any scoring call does to the statistics.
LEMMA ScoreAddsPoints ==
    ASSUME LeaderboardTypeOK, NEW user \in Address, NEW points \in Nat,
           NEW won \in Nat, NEW lost \in Nat, Score(user, points, won, lost)
    PROVE  LET total == stats[user].points + points
           IN  /\ total \in Points /\ total > stats[user].points
               /\ stats' \in [Address -> Stats] /\ stats'[user].points = total
               /\ \A u \in Address \ {user} : stats'[u] = stats[u]
               /\ lbCfg' = lbCfg /\ UpsertTop(user, total)
<1>1. stats \in [Address -> Stats] /\ U64Max \in Nat
    BY LeaderboardConstants DEF LeaderboardTypeOK
<1>2. /\ stats[user].points \in Nat /\ stats[user].won \in Nat /\ stats[user].lost \in Nat
      /\ stats[user].points + points <= U64Max /\ points # 0
    BY <1>1 DEF Stats, Points, Score
<1>3. stats' = [stats EXCEPT ![user] = [points |-> stats[user].points + points,
                                        won    |-> stats[user].won + won,
                                        lost   |-> stats[user].lost + lost]]
    BY DEF Score
<1>4. stats[user].points + points \in Points /\ stats[user].points + points > stats[user].points
    BY <1>1, <1>2 DEF Points
<1>5. stats[user].won + won \in Nat /\ stats[user].lost + lost \in Nat
    BY <1>2
<1> QED BY <1>1, <1>3, <1>4, <1>5 DEF Score, Stats

\* Every scoring call keeps the list consistent.
LEMMA ScoreKeeps ==
    ASSUME ListInv, NEW user \in Address, NEW points \in Nat,
           NEW won \in Nat, NEW lost \in Nat, Score(user, points, won, lost)
    PROVE  ListInv'
<1> DEFINE total == stats[user].points + points
<1>1. /\ total \in Points /\ total > stats[user].points
      /\ stats' \in [Address -> Stats] /\ stats'[user].points = total
      /\ \A u \in Address \ {user} : stats'[u] = stats[u]
      /\ lbCfg' = lbCfg /\ UpsertTop(user, total)
    BY ScoreAddsPoints DEF ListInv
<1> HIDE DEF total
<1>2. CASE UpdateListed(user, total)
    <2>1. total >= stats[user].points
        BY <1>1 DEF ListInv, LeaderboardTypeOK, Stats, Points
    <2> QED BY <1>1, <1>2, <2>1, UpdateListedKeeps
<1>3. CASE AppendPlayer(user, total)
    BY <1>1, <1>3, AppendPlayerKeeps
<1>4. CASE BelowCutoff(user, total)
    BY <1>1, <1>4, BelowCutoffKeeps
<1>5. CASE ReplaceWeakest(user, total)
    BY <1>1, <1>5, ReplaceWeakestKeeps
<1> QED BY <1>1, <1>2, <1>3, <1>4, <1>5 DEF UpsertTop

\* What a step of LeaderboardNext is: a configuration call that leaves the
\* list and the statistics alone (initialize finds the list empty), or the
\* scoring of one user.
ConfigStep ==
    /\ UNCHANGED <<stats, topVars>>
    /\ lbCfg' \in LbConfig
    /\ lbCfg.admin # Nobody => lbCfg'.admin # Nobody
    /\ lbCfg' = lbCfg \/ lbCfg'.admin # Nobody

ScoreStep ==
    \E user \in Address, points \in Nat, won \in Nat, lost \in Nat :
        lbCfg.admin # Nobody /\ Score(user, points, won, lost)

LEMMA StepIsConfigOrScore ==
    ASSUME LInv, [LeaderboardNext]_<<lbVars, tokenVars>>
    PROVE  ConfigStep \/ ScoreStep
<1> USE LeaderboardConstants, TokenConstants
<1>1. lbCfg \in LbConfig
    BY DEF LInv, ListInv, LeaderboardTypeOK
<1>2. CASE LbInitialize(Deployer, MarketContract, ReferralContract)
    <2>1. topCount = 0 /\ topCount' = 0
        BY <1>2 DEF LInv, UninitializedIsEmpty, LbInitialize
    <2>2. lbCfg' \in LbConfig /\ lbCfg'.admin = Deployer /\ Deployer # Nobody
        BY <1>1, <1>2 DEF LbInitialize, LbConfig
    <2> QED BY <1>2, <2>1, <2>2 DEF LbInitialize, ConfigStep, topVars
<1>3. CASE SetToken(Deployer, TokenContract)
    <2>1. lbCfg' \in LbConfig /\ lbCfg'.admin = Deployer /\ Deployer # Nobody
        BY <1>1, <1>3 DEF SetToken, LbConfig
    <2> QED BY <1>3, <2>1 DEF SetToken, ConfigStep
<1>4. ASSUME NEW m \in {MarketContract, ReferralContract},
             SetContracts(Deployer, m, ReferralContract)
      PROVE  ConfigStep
    <2>1. lbCfg' \in LbConfig /\ lbCfg'.admin = Deployer /\ Deployer # Nobody
        BY <1>1, <1>4 DEF SetContracts, LbConfig
    <2> QED BY <1>4, <2>1 DEF SetContracts, ConfigStep
<1>5. CASE UNCHANGED lbVars
    BY <1>1, <1>5 DEF lbVars, ConfigStep
<1>6. ASSUME NEW c \in {MarketContract, ReferralContract}, NEW u \in Players,
             NEW p \in ScorePoints,
             \/ \E w \in ScoreOutcomes : AddPts(c, u, p, w)
             \/ AddBonusPts(c, u, p)
             \/ \E t \in ScoreTokens, w \in ScoreOutcomes : Reward(c, u, p, t, w)
             \/ \E t \in ScoreTokens : RewardBonus(c, u, p, t)
      PROVE  ScoreStep
    <2>1. u \in Address /\ p \in Nat /\ c \in Address /\ c # Nobody
        OBVIOUS
    <2>2. \A w : Won(w) \in Nat /\ Lost(w) \in Nat
        BY DEF Won, Lost
    <2>3. lbCfg.admin # Nobody
        BY <1>6, <2>1 DEF LInv, UninitializedIsEmpty, AddPts, AddBonusPts, Reward, RewardBonus
    <2>4. \E won \in Nat, lost \in Nat : Score(u, p, won, lost)
        BY <1>6, <2>2 DEF AddPts, AddBonusPts, Reward, RewardBonus
    <2> QED BY <2>1, <2>3, <2>4 DEF ScoreStep
<1>7. CASE UNCHANGED <<lbVars, tokenVars>>
    BY <1>5, <1>7
<1>8. CASE LeaderboardNext
    <2>1. ASSUME NEW c \in {MarketContract, ReferralContract},
                 NEW u \in Players, NEW p \in ScorePoints,
                 \/ \E w \in ScoreOutcomes : AddPts(c, u, p, w)
                 \/ AddBonusPts(c, u, p)
                 \/ \E t \in ScoreTokens : totalSupply + t <= SupplyCap /\
                       \/ \E w \in ScoreOutcomes : Reward(c, u, p, t, w)
                       \/ RewardBonus(c, u, p, t)
          PROVE  ScoreStep
        BY <1>6, <2>1
    <2> QED BY <1>2, <1>3, <1>4, <1>5, <1>8, <2>1 DEF LeaderboardNext
<1> QED BY <1>7, <1>8

LEMMA LeaderboardInitHolds ==
    LeaderboardInit => LInv
<1> SUFFICES ASSUME LeaderboardInit PROVE LInv
    OBVIOUS
<1>1. LeaderboardTypeOK
    BY LeaderboardConstants
    DEF LeaderboardInit, LeaderboardEmpty, LeaderboardTypeOK, LbConfig, Stats, Points,
        Entry, NoEntry, Slots
<1>2. Occupied(topCount) = {} /\ \A u \in Address : slotOf[u] = NoSlot
    BY DEF LeaderboardInit, LeaderboardEmpty, Occupied
<1>3. UninitializedIsEmpty /\ CutoffIsLowerBound
    BY DEF LeaderboardInit, LeaderboardEmpty, UninitializedIsEmpty, CutoffIsLowerBound
<1> QED
    BY <1>1, <1>2, <1>3 DEF LInv, ListInv, SlotIndexConsistent, ListedPointsCurrent

LEMMA LeaderboardStepKeeps ==
    ASSUME LInv, [LeaderboardNext]_<<lbVars, tokenVars>>
    PROVE  LInv'
<1>1. CASE ConfigStep
    <2>1. /\ stats' = stats /\ topAt' = topAt /\ topCount' = topCount
          /\ slotOf' = slotOf /\ minPoints' = minPoints /\ minSlot' = minSlot
        BY <1>1 DEF ConfigStep, topVars
    <2>2. ListInv'
        BY <1>1, <2>1
        DEF ConfigStep, LInv, ListInv, LeaderboardTypeOK, SlotIndexConsistent,
            ListedPointsCurrent, CutoffIsLowerBound
    <2>3. UninitializedIsEmpty'
        BY <1>1, <2>1 DEF ConfigStep, LInv, UninitializedIsEmpty
    <2> QED BY <2>2, <2>3 DEF LInv
<1>2. CASE ScoreStep
    <2>1. PICK user \in Address, points \in Nat, won \in Nat, lost \in Nat :
              lbCfg.admin # Nobody /\ Score(user, points, won, lost)
        BY <1>2 DEF ScoreStep
    <2>2. ListInv'
        BY <2>1, ScoreKeeps DEF LInv
    <2>3. lbCfg' = lbCfg
        BY <2>1 DEF Score
    <2> QED BY <2>1, <2>2, <2>3 DEF LInv, UninitializedIsEmpty
<1> QED BY <1>1, <1>2, StepIsConfigOrScore

\* Every reachable state satisfies the inductive invariant.
THEOREM LeaderboardInvariant ==
    LeaderboardSpec => []LInv
<1>1. LeaderboardInit => LInv
    BY LeaderboardInitHolds
<1>2. LInv /\ [LeaderboardNext]_<<lbVars, tokenVars>> => LInv'
    BY LeaderboardStepKeeps
<1> QED BY <1>1, <1>2, PTL DEF LeaderboardSpec

-----------------------------------------------------------------------------
(* The theorems *)

\* Points, counts and slot indices keep their types for any u64 bound: the
\* checked additions of reward, add_pts, reward_bonus and add_bonus_pts are
\* enough.
THEOREM LeaderboardTypes ==
    LeaderboardSpec => []LeaderboardTypeOK
<1>1. LInv => LeaderboardTypeOK
    BY DEF LInv, ListInv
<1> QED BY <1>1, LeaderboardInvariant, PTL

\* TopPlayerAt and TopPlayerSlot stay inverse to each other.
THEOREM SlotIndexAlwaysConsistent ==
    LeaderboardSpec => []SlotIndexConsistent
<1>1. LInv => SlotIndexConsistent
    BY DEF LInv, ListInv
<1> QED BY <1>1, LeaderboardInvariant, PTL

\* A listed entry always shows its player's current points.
THEOREM ListedPointsAlwaysCurrent ==
    LeaderboardSpec => []ListedPointsCurrent
<1>1. LInv => ListedPointsCurrent
    BY DEF LInv, ListInv
<1> QED BY <1>1, LeaderboardInvariant, PTL

\* The cached minimum of upsert_top, stale or not, never exceeds a listed
\* player's points.
THEOREM CutoffAlwaysLowerBound ==
    LeaderboardSpec => []CutoffIsLowerBound
<1>1. LInv => CutoffIsLowerBound
    BY DEF LInv, ListInv
<1> QED BY <1>1, LeaderboardInvariant, PTL

\* On a full list a user whose new total beats some listed player's points is
\* listed by the call that scored it.
THEOREM BetterPlayerIsListed ==
    LeaderboardSpec => OutscoringGetsListed
<1> DEFINE Listed ==
        \A u \in Address :
            /\ topCount = MaxTop
            /\ stats'[u].points > stats[u].points
            /\ \E s \in Slots : topAt[s].points < stats'[u].points
            => slotOf'[u] # NoSlot
<1>1. ASSUME LInv, [LeaderboardNext]_<<lbVars, tokenVars>>
      PROVE  Listed
    <2>1. \A s \in Slots : topAt[s].points \in Nat
        BY <1>1 DEF LInv, ListInv, LeaderboardTypeOK, Entry, Points
    <2>2. \A v \in Address : stats[v].points \in Nat
        BY <1>1 DEF LInv, ListInv, LeaderboardTypeOK, Stats, Points
    <2>3. CASE ConfigStep
        <3>1. stats' = stats
            BY <2>3 DEF ConfigStep
        <3> QED BY <2>2, <3>1
    <2>4. CASE ScoreStep
        <3>1. PICK user \in Address, points \in Nat, won \in Nat, lost \in Nat :
                  Score(user, points, won, lost)
            BY <2>4 DEF ScoreStep
        <3> DEFINE total == stats[user].points + points
        <3>2. /\ total \in Points /\ stats'[user].points = total
              /\ \A u \in Address \ {user} : stats'[u] = stats[u]
              /\ UpsertTop(user, total)
            BY <1>1, <3>1, ScoreAddsPoints DEF LInv, ListInv
        <3> HIDE DEF total
        <3> SUFFICES ASSUME topCount = MaxTop,
                            NEW s \in Slots, topAt[s].points < total
                     PROVE  slotOf'[user] # NoSlot
            BY <2>2, <3>2
        <3>3. /\ slotOf \in [Address -> Slots \cup {NoSlot}] /\ NoSlot \notin Slots
              /\ CutoffSlot \in Slots /\ CutoffPoints \in Nat
              /\ CutoffPoints <= topAt[s].points
            BY <1>1, CutoffIsWeak, LeaderboardConstants
            DEF LInv, ListInv, LeaderboardTypeOK, Slots, NoSlot, Points
        <3>4. CASE UpdateListed(user, total)
            BY <3>4 DEF UpdateListed
        <3>5. CASE AppendPlayer(user, total)
            BY <3>5, LeaderboardConstants DEF AppendPlayer
        <3>6. ~ BelowCutoff(user, total)
            BY <2>1, <3>2, <3>3 DEF BelowCutoff, Points
        <3>7. CASE ReplaceWeakest(user, total)
            BY <3>3, <3>7 DEF ReplaceWeakest
        <3> QED BY <3>2, <3>4, <3>5, <3>6, <3>7 DEF UpsertTop
    <2> QED BY <1>1, <2>3, <2>4, StepIsConfigOrScore
<1>2. LInv /\ [LeaderboardNext]_<<lbVars, tokenVars>> => [Listed]_<<lbVars, tokenVars>>
    BY <1>1
<1> QED BY <1>2, LeaderboardInvariant, PTL DEF LeaderboardSpec, OutscoringGetsListed

-----------------------------------------------------------------------------
(* The token *)

Holdings == balance \in [Address -> Nat] /\ totalSupply = SumFunction(balance)

\* Before initialize, which sets the supply to 0, nobody can have minted.
TokenInv ==
    /\ TokenTypeOK
    /\ totalSupply = SumFunction(balance)
    /\ tokenAdmin = Nobody => minters = {} /\ \A a \in Address : balance[a] = 0

LEMMA SupplyIsSum ==
    ASSUME NEW b \in [Address -> Nat]
    PROVE  SumFunction(b) = SumFunctionOnSet(b, Address) /\ SumFunction(b) \in Nat
<1>1. DOMAIN b = Address
    OBVIOUS
<1>2. SumFunctionOnSet(b, Address) \in Nat
    BY TokenConstants, SumIsNatural
<1> QED BY <1>1, <1>2 DEF SumFunction

\* One balance changes, and the sum with it.
LEMMA OneBalanceMoves ==
    ASSUME NEW b \in [Address -> Nat], NEW a \in Address, NEW n \in Nat
    PROVE  SumFunction([b EXCEPT ![a] = n]) = SumFunction(b) + n - b[a]
<1> DEFINE c == [b EXCEPT ![a] = n]
<1>1. c \in [Address -> Nat] /\ c[a] = n /\ \A x \in Address \ {a} : c[x] = b[x]
    OBVIOUS
<1> HIDE DEF c
<1>2. \A x \in Address : b[x] \in Int /\ c[x] \in Int
    BY <1>1
<1>3. SumFunctionOnSet(c, Address) = SumFunctionOnSet(b, Address) + c[a] - b[a]
    BY <1>1, <1>2, TokenConstants, SumOfUpdate
<1> QED BY <1>1, <1>3, SupplyIsSum DEF c

LEMMA MintKeeps ==
    ASSUME Holdings, NEW minter, NEW to \in Address, NEW amount \in Int,
           Mint(minter, to, amount)
    PROVE  Holdings'
<1>1. amount \in Nat /\ balance[to] \in Nat /\ balance[to] + amount \in Nat
    BY DEF Mint, Holdings
<1>2. balance' = [balance EXCEPT ![to] = balance[to] + amount]
    BY DEF Mint
<1>3. SumFunction(balance') = SumFunction(balance) + (balance[to] + amount) - balance[to]
    BY <1>1, <1>2, OneBalanceMoves DEF Holdings
<1>4. totalSupply' = totalSupply + amount /\ SumFunction(balance) \in Nat
    BY SupplyIsSum DEF Mint, Holdings
<1> QED BY <1>1, <1>2, <1>3, <1>4 DEF Holdings

LEMMA BurnKeeps ==
    ASSUME Holdings, NEW from \in Address, NEW amount \in Int, Burn(from, amount)
    PROVE  Holdings'
<1>1. amount \in Nat /\ balance[from] \in Nat /\ balance[from] - amount \in Nat
    BY DEF Burn, Holdings
<1>2. balance' = [balance EXCEPT ![from] = balance[from] - amount]
    BY DEF Burn
<1>3. SumFunction(balance') = SumFunction(balance) + (balance[from] - amount) - balance[from]
    BY <1>1, <1>2, OneBalanceMoves DEF Holdings
<1>4. totalSupply' = totalSupply - amount /\ SumFunction(balance) \in Nat
    BY SupplyIsSum DEF Burn, Holdings
<1> QED BY <1>1, <1>2, <1>3, <1>4 DEF Holdings

\* The receiver may be the sender.
LEMMA TransferKeeps ==
    ASSUME Holdings, NEW from \in Address, NEW to \in Address, NEW amount \in Int,
           TokenTransfer(from, to, amount)
    PROVE  Holdings'
<1> DEFINE sent == [balance EXCEPT ![from] = balance[from] - amount]
<1>1. amount \in Nat /\ balance[from] \in Nat /\ balance[from] - amount \in Nat
    BY DEF TokenTransfer, Holdings
<1>2. SumFunction(sent) = SumFunction(balance) + (balance[from] - amount) - balance[from]
    BY <1>1, OneBalanceMoves DEF Holdings
<1>3. sent \in [Address -> Nat]
    BY <1>1 DEF Holdings
<1>4. balance' = [sent EXCEPT ![to] = sent[to] + amount] /\ totalSupply' = totalSupply
    BY DEF TokenTransfer
<1> HIDE DEF sent
<1>5. sent[to] + amount \in Nat /\ sent[to] \in Nat
    BY <1>1, <1>3
<1>6. SumFunction(balance') = SumFunction(sent) + (sent[to] + amount) - sent[to]
    BY <1>3, <1>4, <1>5, OneBalanceMoves
<1>7. SumFunction(balance) \in Nat /\ SumFunction(sent) \in Nat
    BY <1>3, SupplyIsSum DEF Holdings
<1>8. balance' \in [Address -> Nat]
    BY <1>3, <1>4, <1>5
<1> QED BY <1>1, <1>2, <1>4, <1>5, <1>6, <1>7, <1>8 DEF Holdings

LEMMA TokenStepKeeps ==
    ASSUME TokenInv, [TokenNext]_tokenVars
    PROVE  TokenInv'
<1>1. /\ Holdings /\ tokenAdmin \in Address \cup {Nobody} /\ minters \subseteq Address
      /\ tokenAdmin = Nobody => minters = {} /\ \A a \in Address : balance[a] = 0
      /\ Nobody \notin Address
    BY TokenConstants DEF TokenInv, TokenTypeOK, Holdings
<1>2. ASSUME Holdings', tokenAdmin' \in Address \cup {Nobody}, minters' \subseteq Address,
             tokenAdmin' = Nobody => minters' = {} /\ \A a \in Address : balance'[a] = 0
      PROVE  TokenInv'
    <2>1. totalSupply' \in Nat
        BY <1>2, SupplyIsSum DEF Holdings
    <2> QED BY <1>2, <2>1 DEF TokenInv, TokenTypeOK, Holdings
<1>3. CASE \E a \in Address : TokenInitialize(a)
    <2>1. PICK a \in Address : TokenInitialize(a)
        BY <1>3
    <2>2. totalSupply = 0
        <3>1. \A x \in Address : balance[x] = 0
            BY <1>1, <2>1 DEF TokenInitialize
        <3>2. SumFunctionOnSet(balance, Address) = 0
            BY <3>1, TokenConstants, SumOfZeros
        <3> QED BY <1>1, <3>2, SupplyIsSum DEF Holdings
    <2> QED BY <1>1, <1>2, <2>1, <2>2 DEF TokenInitialize, Holdings
<1>4. CASE \E a \in Address : SetMinter(a) \/ RemoveMinter(a)
    BY <1>1, <1>2, <1>4 DEF SetMinter, RemoveMinter, Holdings
<1>5. CASE \E m, a \in Address, n \in TokenAmounts : Mint(m, a, n)
    <2>1. PICK m \in Address, a \in Address, n \in TokenAmounts : Mint(m, a, n)
        BY <1>5
    <2>2. Holdings'
        BY <1>1, <2>1, TokenConstants, MintKeeps
    <2> QED BY <1>1, <1>2, <2>1, <2>2 DEF Mint
<1>6. CASE \E a, b \in Address, n \in TokenAmounts : TokenTransfer(a, b, n)
    <2>1. PICK a \in Address, b \in Address, n \in TokenAmounts : TokenTransfer(a, b, n)
        BY <1>6
    <2>2. Holdings'
        BY <1>1, <2>1, TokenConstants, TransferKeeps
    <2>3. tokenAdmin # Nobody
        BY <1>1, <2>1, TokenConstants DEF TokenTransfer
    <2> QED BY <1>1, <1>2, <2>1, <2>2, <2>3 DEF TokenTransfer
<1>7. CASE \E a \in Address, n \in TokenAmounts : Burn(a, n)
    <2>1. PICK a \in Address, n \in TokenAmounts : Burn(a, n)
        BY <1>7
    <2>2. Holdings'
        BY <1>1, <2>1, TokenConstants, BurnKeeps
    <2>3. tokenAdmin # Nobody
        BY <1>1, <2>1, TokenConstants DEF Burn
    <2> QED BY <1>1, <1>2, <2>1, <2>2, <2>3 DEF Burn
<1>8. CASE UNCHANGED tokenVars
    BY <1>1, <1>2, <1>8 DEF tokenVars, Holdings
<1> QED BY <1>3, <1>4, <1>5, <1>6, <1>7, <1>8 DEF TokenNext

\* The invariant of the token, of which its types are a part.
THEOREM TokenInvariant == TokenSpec => []TokenInv
<1>1. TokenInit => TokenInv
    <2> SUFFICES ASSUME TokenInit PROVE TokenInv
        OBVIOUS
    <2>1. balance = [a \in Address |-> 0] /\ balance \in [Address -> Nat] /\ totalSupply = 0
        BY DEF TokenInit
    <2>2. SumFunctionOnSet(balance, Address) = 0
        BY <2>1, TokenConstants, SumOfZeros
    <2>3. SumFunction(balance) = 0
        BY <2>1, <2>2, SupplyIsSum
    <2> QED BY <2>1, <2>3 DEF TokenInit, TokenInv, TokenTypeOK
<1>2. TokenInv /\ [TokenNext]_tokenVars => TokenInv'
    BY TokenStepKeeps
<1> QED BY <1>1, <1>2, PTL DEF TokenSpec

\* What mint and burn count is what the holders hold together, whatever they
\* transfer, to themselves included, and nobody holds less than nothing.
THEOREM SupplyAlwaysHeld == TokenSpec => []SupplyIsHeld
<1>1. TokenInv => SupplyIsHeld
    BY DEF TokenInv, TokenTypeOK, SupplyIsHeld
<1> QED BY <1>1, TokenInvariant, PTL
=============================================================================
