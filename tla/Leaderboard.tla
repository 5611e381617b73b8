---------------------------- MODULE Leaderboard ----------------------------
(***************************************************************************)
(* The leaderboard contract (contracts/leaderboard): per-user points and   *)
(* win/loss counts, and a list of at most MaxTop players kept in storage   *)
(* slots with a reverse index and a cached weakest entry, so that a score  *)
(* costs O(1).  reward and reward_bonus mint IPRED in the same transaction. *)
(***************************************************************************)
EXTENDS IPredictToken, SequencesExt

CONSTANTS
    LeaderboardContract, TokenContract,         \* the deployed addresses
    MarketContract, ReferralContract,
    Deployer,       \* the account that runs the deployment
    Players,        \* the users that LeaderboardNext scores
    ScorePoints, ScoreTokens,   \* the amounts it passes, zero included
    ScoreOutcomes,              \* the values of is_winner it passes
    MaxTop,         \* MAX_TOP_PLAYERS
    MaxPageSize,    \* MAX_PAGE_SIZE
    U64Max          \* the largest u64; also the "no minimum yet" sentinel

ASSUME LeaderboardConstants ==
    /\ {LeaderboardContract, TokenContract, MarketContract, ReferralContract} \subseteq Address
    /\ Deployer \in Address
    /\ Players \subseteq Address
    /\ ScorePoints \subseteq Nat
    /\ ScoreTokens \subseteq Int
    /\ ScoreOutcomes \subseteq BOOLEAN
    /\ MaxTop \in Nat \ {0} /\ MaxPageSize \in Nat \ {0}
    /\ U64Max \in Nat

VARIABLES
    lbCfg,          \* admin, trusted market and referral contracts, token
    stats,          \* Stats(user): points, won_bets, lost_bets; zeros if absent
    topAt,          \* TopPlayerAt(slot)
    topCount,       \* TopPlayerCount
    slotOf,         \* TopPlayerSlot(user), NoSlot when absent
    minPoints,      \* MinPoints, U64Max when unset
    minSlot         \* MinSlot, 0 when unset

topVars == <<topAt, topCount, slotOf, minPoints, minSlot>>
lbVars  == <<lbCfg, stats, topVars>>

Slots   == 0 .. (MaxTop - 1)
NoSlot  == -1
Points  == 0 .. U64Max
Entry   == [address : Address \cup {Nobody}, points : Points]
NoEntry == [address |-> Nobody, points |-> 0]
Stats   == [points : Points, won : Nat, lost : Nat]
LbConfig == [admin : Address \cup {Nobody}, market : Address \cup {Nobody},
             referral : Address \cup {Nobody}, token : Address \cup {Nobody}]

LeaderboardEmpty ==
    /\ stats = [u \in Address |-> [points |-> 0, won |-> 0, lost |-> 0]]
    /\ topAt = [s \in Slots |-> NoEntry]
    /\ topCount = 0
    /\ slotOf = [u \in Address |-> NoSlot]
    /\ minPoints = U64Max
    /\ minSlot = 0

LeaderboardInit ==
    /\ lbCfg = [admin |-> Nobody, market |-> Nobody, referral |-> Nobody, token |-> Nobody]
    /\ LeaderboardEmpty

-----------------------------------------------------------------------------
(* Configuration *)

LbInitialize(admin, market, referral) ==
    /\ lbCfg.admin = Nobody
    /\ lbCfg' = [lbCfg EXCEPT !.admin = admin, !.market = market, !.referral = referral]
    /\ topCount' = 0
    /\ UNCHANGED <<stats, topAt, slotOf, minPoints, minSlot, tokenVars>>

SetContracts(admin, market, referral) ==
    /\ lbCfg.admin = admin
    /\ lbCfg' = [lbCfg EXCEPT !.market = market, !.referral = referral]
    /\ UNCHANGED <<stats, topVars, tokenVars>>

SetToken(admin, token) ==
    /\ lbCfg.admin = admin
    /\ lbCfg' = [lbCfg EXCEPT !.token = token]
    /\ UNCHANGED <<stats, topVars, tokenVars>>

-----------------------------------------------------------------------------
(* The top list.  Each operator takes the user and its new point total. *)

Occupied(count) == 0 .. (count - 1)

\* recompute_min: the first slot holding the fewest points, (U64Max, 0) when
\* every entry is at U64Max.
WeakestSlot(at, count) ==
    CHOOSE s \in Occupied(count) :
        \A t \in Occupied(count) :
            \/ at[s].points < at[t].points
            \/ at[s].points = at[t].points /\ s <= t

CacheWeakest(at, count) ==
    /\ minSlot' = WeakestSlot(at, count)
    /\ minPoints' = at[WeakestSlot(at, count)].points

PutEntry(s, user, points) ==
    topAt' = [topAt EXCEPT ![s] = [address |-> user, points |-> points]]

\* A slip: the update in place forgets to write the entry's points.
UpdateListed_NoWrite(user, points) ==
    /\ slotOf[user] # NoSlot
    /\ UNCHANGED <<topAt, topCount, slotOf, minPoints, minSlot>>

\* Already listed: written in place; the cached minimum is refreshed only when
\* the list is full and the written slot is the cached one.
UpdateListed(user, points) ==
    /\ slotOf[user] # NoSlot
    /\ PutEntry(slotOf[user], user, points)
    /\ IF topCount >= MaxTop /\ slotOf[user] = minSlot
       THEN CacheWeakest(topAt', topCount)
       ELSE UNCHANGED <<minPoints, minSlot>>
    /\ UNCHANGED <<topCount, slotOf>>

\* A slip: the cached minimum is replaced by whatever was appended last.
AppendPlayer_LastWins(user, points) ==
    /\ slotOf[user] = NoSlot
    /\ topCount < MaxTop
    /\ PutEntry(topCount, user, points)
    /\ slotOf' = [slotOf EXCEPT ![user] = topCount]
    /\ topCount' = topCount + 1
    /\ minPoints' = points
    /\ minSlot' = topCount

\* Room left: appended; the cached minimum follows the lowest total appended.
AppendPlayer(user, points) ==
    /\ slotOf[user] = NoSlot
    /\ topCount < MaxTop
    /\ PutEntry(topCount, user, points)
    /\ slotOf' = [slotOf EXCEPT ![user] = topCount]
    /\ topCount' = topCount + 1
    /\ IF topCount' = 1 \/ points < minPoints
       THEN minPoints' = points /\ minSlot' = topCount
       ELSE UNCHANGED <<minPoints, minSlot>>

\* Full: the cut-off is the cached minimum, recomputed when it was never set.
CutoffSlot   == IF minPoints = U64Max THEN WeakestSlot(topAt, topCount) ELSE minSlot
CutoffPoints == IF minPoints = U64Max THEN topAt[CutoffSlot].points ELSE minPoints

BelowCutoff(user, points) ==
    /\ slotOf[user] = NoSlot
    /\ topCount >= MaxTop
    /\ points <= CutoffPoints
    /\ minPoints' = CutoffPoints
    /\ minSlot' = CutoffSlot
    /\ UNCHANGED <<topAt, topCount, slotOf>>

\* A slip: the evicted player keeps its reverse index entry.
ReplaceWeakest_KeepOldIndex(user, points) ==
    /\ slotOf[user] = NoSlot
    /\ topCount >= MaxTop
    /\ points > CutoffPoints
    /\ PutEntry(CutoffSlot, user, points)
    /\ slotOf' = [slotOf EXCEPT ![user] = CutoffSlot]
    /\ CacheWeakest(topAt', topCount)
    /\ UNCHANGED topCount

ReplaceWeakest(user, points) ==
    /\ slotOf[user] = NoSlot
    /\ topCount >= MaxTop
    /\ points > CutoffPoints
    /\ PutEntry(CutoffSlot, user, points)
    /\ slotOf' = [slotOf EXCEPT ![topAt[CutoffSlot].address] = NoSlot,
                                ![user] = CutoffSlot]
    /\ CacheWeakest(topAt', topCount)
    /\ UNCHANGED topCount

UpsertTop(user, points) ==
    \/ UpdateListed(user, points)
    \/ AppendPlayer(user, points)
    \/ BelowCutoff(user, points)
    \/ ReplaceWeakest(user, points)

-----------------------------------------------------------------------------
(* Scoring.  u64 additions are checked: an overflow traps and reverts. *)

\* A slip: the addition is unchecked.
Score_Unchecked(user, points, won, lost) ==
    /\ points # 0
    /\ stats' = [stats EXCEPT ![user] = [points |-> @.points + points,
                                         won    |-> @.won + won,
                                         lost   |-> @.lost + lost]]
    /\ UpsertTop(user, stats[user].points + points)
    /\ UNCHANGED lbCfg

Score(user, points, won, lost) ==
    /\ points # 0
    /\ stats[user].points + points <= U64Max
    /\ stats' = [stats EXCEPT ![user] = [points |-> @.points + points,
                                         won    |-> @.won + won,
                                         lost   |-> @.lost + lost]]
    /\ UpsertTop(user, stats[user].points + points)
    /\ UNCHANGED lbCfg

\* tokens = 0 mints nothing; otherwise a failing mint reverts the whole call.
MintReward(user, tokens) ==
    IF tokens > 0
    THEN lbCfg.token = TokenContract /\ Mint(LeaderboardContract, user, tokens)
    ELSE UNCHANGED tokenVars

Won(isWinner)  == IF isWinner THEN 1 ELSE 0
Lost(isWinner) == IF isWinner THEN 0 ELSE 1

Reward(caller, user, points, tokens, isWinner) ==
    /\ caller = lbCfg.market
    /\ Score(user, points, Won(isWinner), Lost(isWinner))
    /\ MintReward(user, tokens)

AddPts(caller, user, points, isWinner) ==
    /\ caller = lbCfg.market
    /\ Score(user, points, Won(isWinner), Lost(isWinner))
    /\ UNCHANGED tokenVars

RewardBonus(caller, user, points, tokens) ==
    /\ caller = lbCfg.referral
    /\ Score(user, points, 0, 0)
    /\ MintReward(user, tokens)

AddBonusPts(caller, user, points) ==
    /\ caller = lbCfg.referral
    /\ Score(user, points, 0, 0)
    /\ UNCHANGED tokenVars

-----------------------------------------------------------------------------
(* The contract on its own: its callers pass any points and tokens.        *)

LeaderboardNext ==
    \/ LbInitialize(Deployer, MarketContract, ReferralContract)
    \/ SetToken(Deployer, TokenContract)
    \/ \E m \in {MarketContract, ReferralContract} : SetContracts(Deployer, m, ReferralContract)
    \/ TokenInitialize(Deployer) /\ UNCHANGED lbVars
    \/ SetMinter(LeaderboardContract) /\ UNCHANGED lbVars
    \/ \E c \in {MarketContract, ReferralContract}, u \in Players, p \in ScorePoints :
          \/ \E w \in ScoreOutcomes : AddPts(c, u, p, w)
          \/ AddBonusPts(c, u, p)
          \/ \E t \in ScoreTokens : totalSupply + t <= SupplyCap /\
                \/ \E w \in ScoreOutcomes : Reward(c, u, p, t, w)
                \/ RewardBonus(c, u, p, t)

LeaderboardSpec ==
    TokenInit /\ LeaderboardInit /\ [][LeaderboardNext]_<<lbVars, tokenVars>>

-----------------------------------------------------------------------------
(* Reading: get_top_players sorts the slots by selection and returns a page, *)
(* get_rank counts better entries without sorting.  Clients show both.       *)

Indices(from, to) == [k \in 1 .. (to - from + 1) |-> from + k - 1]

\* A slip: the scan stops before the last entry.
BestIndex_ShortScan(all, i) ==
    FoldLeft(LAMBDA best, j : IF all[j].points > all[best].points THEN j ELSE best,
             i, Indices(i + 1, Len(all) - 1))

\* The inner loop: the first of the best entries from i on.
BestIndex(all, i) ==
    FoldLeft(LAMBDA best, j : IF all[j].points > all[best].points THEN j ELSE best,
             i, Indices(i + 1, Len(all)))

BroughtForward(all, i) ==
    [all EXCEPT ![i] = all[BestIndex(all, i)], ![BestIndex(all, i)] = all[i]]

Listing == [i \in 1 .. topCount |-> topAt[i - 1]]
Ranking == FoldLeft(BroughtForward, Listing, Indices(1, topCount))

PageSize(limit) == IF limit = 0 \/ limit > MaxPageSize THEN MaxPageSize ELSE limit

GetTopPlayers(offset, limit) ==
    IF offset >= topCount THEN <<>>
    ELSE SubSeq(Ranking, offset + 1,
                IF offset + PageSize(limit) < topCount THEN offset + PageSize(limit) ELSE topCount)

\* A slip: entries with the same points count as better.
GetRank_Ties(user) ==
    IF slotOf[user] = NoSlot THEN 0
    ELSE 1 + Cardinality({s \in Occupied(topCount) :
                 topAt[s].address # user /\ topAt[s].points >= stats[user].points})

GetRank(user) ==
    IF slotOf[user] = NoSlot THEN 0
    ELSE 1 + Cardinality({s \in Occupied(topCount) :
                 topAt[s].address # user /\ topAt[s].points > stats[user].points})

-----------------------------------------------------------------------------
(* Properties *)

\* Points never leave the u64 range and every slot index is a slot.
LeaderboardTypeOK ==
    /\ lbCfg \in LbConfig
    /\ stats \in [Address -> Stats]
    /\ topAt \in [Slots -> Entry]
    /\ topCount \in 0 .. MaxTop
    /\ slotOf \in [Address -> Slots \cup {NoSlot}]
    /\ minPoints \in Points
    /\ minSlot \in Slots

\* TopPlayerAt and TopPlayerSlot are inverse to each other through appends,
\* updates and evictions: no player sits in two slots, no slot is orphaned.
SlotIndexConsistent ==
    /\ \A s \in Occupied(topCount) :
          topAt[s].address \in Address /\ slotOf[topAt[s].address] = s
    /\ \A u \in Address : slotOf[u] # NoSlot =>
          slotOf[u] \in Occupied(topCount) /\ topAt[slotOf[u]].address = u

\* The points copied into a slot are the player's current points, whichever of
\* the four scoring calls changed them.
ListedPointsCurrent ==
    \A u \in Address : slotOf[u] # NoSlot => topAt[slotOf[u]].points = stats[u].points

\* The cached minimum never exceeds a listed player's points and its slot is in
\* use: upsert_top keeps it so across fills, updates and evictions, even where
\* the cached value is stale.
CutoffIsLowerBound ==
    topCount > 0 =>
        /\ minSlot \in Occupied(topCount)
        /\ \A s \in Occupied(topCount) : minPoints <= topAt[s].points

\* On a full list a user whose new total beats some listed player's points is
\* listed by that very call: the cut-off never turns away a better newcomer.
OutscoringGetsListed ==
    [][\A u \in Address :
          /\ topCount = MaxTop
          /\ stats'[u].points > stats[u].points
          /\ \E s \in Slots : topAt[s].points < stats'[u].points
          => slotOf'[u] # NoSlot]_<<lbVars, tokenVars>>

\* lib.rs:38-39 and the comment in upsert_top: once the list is full, MinPoints
\* and MinSlot are those of the weakest entry.
CachedMinIsWeakest ==
    topCount = MaxTop =>
        /\ minPoints = topAt[minSlot].points
        /\ \A s \in Slots : minPoints <= topAt[s].points

\* A client that pages with the size it gets sees every listed player exactly
\* once, in an order of falling points.
Paged(limit) ==
    FoldLeft(LAMBDA seen, k : seen \o GetTopPlayers(Len(seen), limit), <<>>,
             Indices(1, topCount))
PagesCoverTheList ==
    \A limit \in 0 .. MaxPageSize + 1 :
        LET seen == Paged(limit) IN
        /\ Len(seen) = topCount
        /\ {seen[i] : i \in DOMAIN seen} = {topAt[s] : s \in Occupied(topCount)}
        /\ \A i, j \in DOMAIN seen : i < j => seen[i].points >= seen[j].points

\* get_rank is the place of the player in the listing, shared by equal points:
\* nobody with fewer points is placed above, and ties have the rank of the first.
RankIsPlaceInListing ==
    \A i \in 1 .. topCount :
        LET rank == GetRank(Ranking[i].address) IN
        /\ rank \in 1 .. i
        /\ Ranking[rank].points = Ranking[i].points
        /\ rank > 1 => Ranking[rank - 1].points > Ranking[i].points
=============================================================================
