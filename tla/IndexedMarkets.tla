--------------------------- MODULE IndexedMarkets ---------------------------
(***************************************************************************)
(* What the handlers of the indexer make of one market: its row, its       *)
(* positions, its submission and its dispute.  Events come in chain order  *)
(* and again after a restart; the ones that went to the dead-letter queue  *)
(* come later than those after them.  The historical backfill and the      *)
(* reconciliation of the totals write the same rows.                       *)
(*                                                                         *)
(* handlers/bet_placed.ts stands in the repository with unresolved merge   *)
(* markers; what is modelled of it is its HEAD side.                       *)
(***************************************************************************)
EXTENDS Integers, Sequences, FiniteSets, SequencesExt, FiniteSetsExt, Naturals

CONSTANTS
    Gamblers,        \* users who bet on the market
    ChainEvents,     \* bound: events the contract emits
    IndexRestarts    \* bound: restarts of the indexer, which begin again

VARIABLES
    onChain,      \* the market in the contract
    emitted,      \* the contract's events in order
    nextEvent,    \* the indexer's place in them
    delayed,      \* dead-lettered events
    seen,         \* the events table
    marketRow,    \* markets
    positions,    \* bets
    submission,   \* oracle_submissions.status
    dispute,      \* oracle_disputes.status
    reconcile,    \* a running recomputation of the totals
    drifted,      \* columns of the row that no longer follow the positions
    missed,       \* events handled before one they build on
    indexRestarts

imVars == <<onChain, emitted, nextEvent, delayed, seen, marketRow, positions,
            submission, dispute, reconcile, drifted, missed, indexRestarts>>
chainSide == <<onChain, emitted>>
oracleRows == <<submission, dispute>>
reconciling == <<reconcile, drifted>>

NoOutcome == "null"
NoPosition == [net |-> 0, side |-> NoOutcome]
AbsentRow == [present |-> FALSE, resolved |-> FALSE, cancelled |-> FALSE,
              outcome |-> NoOutcome, yes |-> 0, no |-> 0, bettors |-> 0]
NoReconcile == [column |-> "none", yes |-> 0, no |-> 0, bettors |-> 0]

IndexedInit ==
    /\ onChain = [status |-> "none", outcome |-> NoOutcome, oracle |-> "none",
                  side |-> [g \in Gamblers |-> NoOutcome]]
    /\ emitted = <<>> /\ nextEvent = 1 /\ delayed = {} /\ seen = {}
    /\ marketRow = AbsentRow
    /\ positions = [g \in Gamblers |-> NoPosition]
    /\ submission = "none" /\ dispute = "none"
    /\ reconcile = NoReconcile
    /\ drifted = {} /\ missed = {}
    /\ indexRestarts = 0

-----------------------------------------------------------------------------
(* The contract: which events it can emit, and in which order *)

Emit(kind, who, verdict) ==
    /\ Len(emitted) < ChainEvents
    /\ emitted' = Append(emitted, [kind |-> kind, who |-> who, verdict |-> verdict])
    /\ UNCHANGED <<nextEvent, delayed, seen, marketRow, positions, oracleRows,
                   reconciling, missed, indexRestarts>>

Nobody == "nobody"
Sides == {"yes", "no"}

ChainCreates ==
    /\ onChain.status = "none"
    /\ onChain' = [onChain EXCEPT !.status = "open"]
    /\ Emit("created", Nobody, NoOutcome)

ChainBets(g, side) ==
    /\ onChain.status = "open" /\ onChain.oracle = "none"
    /\ onChain.side[g] \in {NoOutcome, side}
    /\ onChain' = [onChain EXCEPT !.side[g] = side]
    /\ Emit("bet", g, side)

\* The admin decides at any point of a dispute.
ChainDecides(status, verdict) ==
    /\ onChain.status = "open"
    /\ onChain' = [onChain EXCEPT !.status = status, !.outcome = verdict]
    /\ Emit(status, Nobody, verdict)

\* A submission emits no event that the router knows.
ChainSubmits ==
    /\ onChain.status = "open" /\ onChain.oracle = "none"
    /\ onChain' = [onChain EXCEPT !.oracle = "submitted"]
    /\ UNCHANGED <<emitted, nextEvent, delayed, seen, marketRow, positions, oracleRows,
                   reconciling, missed, indexRestarts>>

ChainChallenges ==
    /\ onChain.oracle = "submitted" /\ onChain.status = "open"
    /\ onChain' = [onChain EXCEPT !.oracle = "challenged"]
    /\ Emit("challenged", Nobody, NoOutcome)

ChainEscalates ==
    /\ onChain.oracle = "challenged" /\ onChain.status = "open"
    /\ onChain' = [onChain EXCEPT !.oracle = "escalated"]
    /\ Emit("escalated", Nobody, NoOutcome)

\* Bonds settle also on a market that was decided otherwise.
ChainFinalizes(verdict) ==
    /\ onChain.oracle \in {"submitted", "escalated"}
    /\ onChain' = [onChain EXCEPT !.oracle = "finalized",
                      !.status  = IF onChain.status = "open" THEN "resolved" ELSE @,
                      !.outcome = IF onChain.status = "open" THEN verdict ELSE @]
    /\ Emit("finalized", Nobody, verdict)

ChainStep ==
    \/ ChainCreates
    \/ \E g \in Gamblers, side \in Sides : ChainBets(g, side)
    \/ \E verdict \in Sides : ChainDecides("resolved", verdict) \/ ChainFinalizes(verdict)
    \/ ChainDecides("cancelled", NoOutcome)
    \/ ChainSubmits \/ ChainChallenges \/ ChainEscalates

-----------------------------------------------------------------------------
(* Handlers of single events *)

HandleMarketCreated ==
    /\ marketRow' = [marketRow EXCEPT !.present = TRUE]
    /\ UNCHANGED oracleRows

Decided(row, verdict) == [row EXCEPT !.resolved = TRUE, !.outcome = verdict, !.cancelled = FALSE]

\* An UPDATE of a row that is not there changes nothing.
HandleMarketResolved(verdict) ==
    /\ marketRow' = IF marketRow.present THEN Decided(marketRow, verdict) ELSE marketRow
    /\ UNCHANGED oracleRows

\* A slip: the flag of a resolution stays.
HandleMarketCancelled_KeepsResolved ==
    /\ marketRow' = IF marketRow.present THEN [marketRow EXCEPT !.cancelled = TRUE] ELSE marketRow
    /\ UNCHANGED oracleRows

HandleMarketCancelled ==
    /\ marketRow' = IF marketRow.present
                    THEN [marketRow EXCEPT !.cancelled = TRUE, !.resolved = FALSE, !.outcome = NoOutcome]
                    ELSE marketRow
    /\ UNCHANGED oracleRows

\* A slip: the upsert sets the status whatever it was.
HandleOracleChallenged_Reopens ==
    /\ dispute' = "challenged"
    /\ submission' = "challenged"
    /\ UNCHANGED marketRow

HandleOracleChallenged ==
    /\ dispute' = IF dispute = "none" THEN "challenged" ELSE dispute
    /\ submission' = IF submission = "submitted" THEN "challenged" ELSE submission
    /\ UNCHANGED marketRow

HandleOracleEscalated ==
    /\ dispute' = IF dispute = "challenged" THEN "escalated" ELSE dispute
    /\ UNCHANGED <<marketRow, submission>>

\* A slip: the verdict is written over the market's own.
HandleOracleFinalized_Overwrites(verdict) ==
    /\ marketRow' = IF marketRow.present THEN Decided(marketRow, verdict) ELSE marketRow
    /\ submission' = IF submission \in {"submitted", "challenged"} THEN "finalized" ELSE submission
    /\ UNCHANGED dispute

\* Never over a verdict that the market already has.
HandleOracleFinalized(verdict) ==
    /\ marketRow' = IF marketRow.present /\ ~marketRow.resolved /\ ~marketRow.cancelled
                    THEN Decided(marketRow, verdict) ELSE marketRow
    /\ submission' = IF submission \in {"submitted", "challenged"} THEN "finalized" ELSE submission
    /\ UNCHANGED dispute

Handle(event) ==
    \/ event.kind = "created"    /\ HandleMarketCreated
    \/ event.kind = "resolved"   /\ HandleMarketResolved(event.verdict)
    \/ event.kind = "cancelled"  /\ HandleMarketCancelled
    \/ event.kind = "challenged" /\ HandleOracleChallenged
    \/ event.kind = "escalated"  /\ HandleOracleEscalated
    \/ event.kind = "finalized"  /\ HandleOracleFinalized(event.verdict)

IsBet(e) == emitted[e].kind = "bet"
BuildsOn(e) == {d \in delayed \ {e} : d < e /\ emitted[d].kind \in {"created", "challenged"}}

\* insertProcessedEvent: only the first delivery reaches the tables.
Process(e) ==
    /\ ~IsBet(e)
    /\ IF e \in seen
       THEN UNCHANGED <<marketRow, oracleRows, seen, missed>>
       ELSE /\ Handle(emitted[e])
            /\ seen' = seen \union {e}
            /\ missed' = IF BuildsOn(e) = {} THEN missed ELSE missed \union {e}
    /\ UNCHANGED <<positions, drifted>>

-----------------------------------------------------------------------------
(* Bets: one statement for a batch of them; every bet is of one unit *)

Staked(bets, g) == Cardinality({e \in bets : emitted[e].who = g})
OnSide(bets, side) == Cardinality({e \in bets : emitted[e].verdict = side})
Betters(bets) == {emitted[e].who : e \in bets}

PositionsWith(bets) ==
    [g \in Gamblers |->
        IF g \in Betters(bets)
        THEN [net  |-> positions[g].net + Staked(bets, g),
              side |-> (emitted[CHOOSE e \in bets : emitted[e].who = g]).verdict]
        ELSE positions[g]]

\* A slip: bets are counted, not bettors.
RowWith_CountsBets(bets) ==
    [marketRow EXCEPT
        !.yes = @ + OnSide(bets, "yes"), !.no = @ + OnSide(bets, "no"),
        !.bettors = @ + Cardinality(bets)]

RowWith(bets) ==
    [marketRow EXCEPT
        !.yes = @ + OnSide(bets, "yes"), !.no = @ + OnSide(bets, "no"),
        !.bettors = @ + Cardinality({g \in Betters(bets) : positions[g].net = 0})]

\* A missing market or a bet on the other side raises, and the page is retried.
ValidBatch(bets) ==
    /\ marketRow.present
    /\ \A e \in bets : positions[emitted[e].who].side \in {NoOutcome, emitted[e].verdict}

\* A slip: the events table is not asked.
Applicable_All(bets) == bets

\* The bets whose row of the events table is new.
Applicable(bets) == bets \ seen

HandleBetPlacedEvents(bets) ==
    /\ \A e \in bets : IsBet(e)
    /\ ValidBatch(bets)
    /\ positions' = PositionsWith(Applicable(bets))
    /\ marketRow' = RowWith(Applicable(bets))
    /\ seen' = seen \union bets
    /\ UNCHANGED <<oracleRows, drifted, missed>>

-----------------------------------------------------------------------------
(* The indexer's course through the events *)

HandleNext ==
    /\ nextEvent <= Len(emitted)
    /\ \/ /\ Process(nextEvent)
          /\ nextEvent' = nextEvent + 1
       \/ \E last \in nextEvent .. Len(emitted) :
              /\ HandleBetPlacedEvents(nextEvent .. last)
              /\ nextEvent' = last + 1
    /\ UNCHANGED <<chainSide, delayed, reconcile, indexRestarts>>

\* A payload that the schemas reject is put aside.
DeadLetter ==
    /\ nextEvent <= Len(emitted) /\ nextEvent \notin seen /\ delayed = {}
    /\ delayed' = {nextEvent}
    /\ nextEvent' = nextEvent + 1
    /\ UNCHANGED <<chainSide, seen, marketRow, positions, oracleRows, reconciling, missed, indexRestarts>>

ReplayDelayed ==
    \E e \in delayed :
        /\ delayed' = delayed \ {e}
        /\ Process(e) \/ HandleBetPlacedEvents({e})
        /\ UNCHANGED <<chainSide, nextEvent, reconcile, indexRestarts>>

RestartIndexer ==
    /\ indexRestarts < IndexRestarts
    /\ indexRestarts' = indexRestarts + 1
    /\ nextEvent' = 1
    /\ UNCHANGED <<chainSide, delayed, seen, marketRow, positions, oracleRows, reconciling, missed>>

\* The submission reaches its table on its own path.
HandleOracleSubmission ==
    /\ onChain.oracle # "none" /\ submission = "none"
    /\ submission' = "submitted"
    /\ UNCHANGED <<chainSide, nextEvent, delayed, seen, marketRow, positions, dispute,
                   reconciling, missed, indexRestarts>>

\* The historical backfill adds a bet to its position alone.
BackfillBet ==
    \E e \in DOMAIN emitted \ seen :
        /\ IsBet(e) /\ marketRow.present
        /\ seen' = seen \union {e}
        /\ positions' = PositionsWith({e})
        /\ drifted' = drifted \union {"totals", "bettors"}
        /\ UNCHANGED <<chainSide, nextEvent, delayed, marketRow, oracleRows, reconcile, missed, indexRestarts>>

-----------------------------------------------------------------------------
(* Reconciliation: the statement sums a snapshot and then updates the row *)

NetOn(side) == FoldSet(LAMBDA g, sum : sum + IF positions[g].side = side THEN positions[g].net ELSE 0, 0, Gamblers)
BettorCount == Cardinality({g \in Gamblers : positions[g].net > 0})
TotalsFollow == marketRow.yes = NetOn("yes") /\ marketRow.no = NetOn("no")
BettorsFollow == marketRow.bettors = BettorCount

BeginRecompute(column) ==
    /\ marketRow.present /\ reconcile = NoReconcile
    /\ IF column = "totals" THEN ~TotalsFollow ELSE ~BettorsFollow
    /\ reconcile' = [column |-> column, yes |-> NetOn("yes"), no |-> NetOn("no"), bettors |-> BettorCount]
    /\ UNCHANGED <<chainSide, nextEvent, delayed, seen, marketRow, positions, oracleRows,
                   drifted, missed, indexRestarts>>

\* A bet committed in between is overwritten.
WriteRecomputed ==
    /\ reconcile # NoReconcile
    /\ IF reconcile.column = "totals"
       THEN /\ marketRow' = [marketRow EXCEPT !.yes = reconcile.yes, !.no = reconcile.no]
            /\ drifted' = IF reconcile.yes = NetOn("yes") /\ reconcile.no = NetOn("no")
                          THEN drifted \ {"totals"} ELSE drifted
       ELSE /\ marketRow' = [marketRow EXCEPT !.bettors = reconcile.bettors]
            /\ drifted' = IF reconcile.bettors = BettorCount THEN drifted \ {"bettors"} ELSE drifted
    /\ reconcile' = NoReconcile
    /\ UNCHANGED <<chainSide, nextEvent, delayed, seen, positions, oracleRows, missed, indexRestarts>>

IndexedNext ==
    \/ ChainStep
    \/ HandleNext \/ DeadLetter \/ ReplayDelayed \/ RestartIndexer
    \/ HandleOracleSubmission \/ BackfillBet
    \/ \E column \in {"totals", "bettors"} : BeginRecompute(column)
    \/ WriteRecomputed

IndexedSpec == IndexedInit /\ [][IndexedNext]_imVars

-----------------------------------------------------------------------------

\* A position is the sum of the user's bets that were seen, each counted once,
\* however batches, restarts, replays and the backfill overlap.
PositionsMatchBets ==
    \A g \in Gamblers : positions[g].net = Staked({e \in seen : IsBet(e)}, g)

\* The totals and the number of bettors that the pages and the odds are computed
\* from follow the positions, unless the backfill wrote positions alone and no
\* undisturbed reconciliation has run since.
TotalsMatchPositions ==
    /\ "totals" \notin drifted => TotalsFollow
    /\ "bettors" \notin drifted => BettorsFollow

\* Once every event was handled, in whatever order the dead-lettered ones came,
\* the row shows the contract's verdict and the dispute its stage; unless an
\* event came before the creation or the challenge that it updates.
RowFollowsChain ==
    (seen = DOMAIN emitted /\ missed = {} /\ marketRow.present) =>
        /\ marketRow.resolved = (onChain.status = "resolved")
        /\ marketRow.cancelled = (onChain.status = "cancelled")
        /\ marketRow.outcome = onChain.outcome
        /\ dispute = IF \E e \in seen : emitted[e].kind = "escalated" THEN "escalated"
                     ELSE IF \E e \in seen : emitted[e].kind = "challenged" THEN "challenged"
                     ELSE "none"

Stage(status) == CHOOSE n \in 1 .. 5 : <<"none", "submitted", "challenged", "escalated", "finalized">>[n] = status

\* A late or repeated event never takes a submission or a dispute back to an
\* earlier stage.  (The finalizer writes the submission too: see OracleRunner.)
StagesNeverRegress ==
    [][Stage(submission') >= Stage(submission) /\ Stage(dispute') >= Stage(dispute)]_imVars

-----------------------------------------------------------------------------
(***************************************************************************)
(* The leaderboard table: the handlers of the live indexer add to it event *)
(* by event, and the rebuild job replaces it by a fold over the stored     *)
(* events, read before the transaction that swaps the tables.              *)
(***************************************************************************)

CONSTANTS
    PointEvents,     \* sequence of [ledger, kind, user, other, won] in order
    Players,         \* addresses
    NoPlayer,        \* an event without a referrer
    RebuildFaults    \* bound: failed rebuilds

VARIABLES
    stored,          \* number of events in the events table
    board,           \* the leaderboard table
    rebuild,         \* the running rebuild: step, first ledger, what it read
    resumeAt,        \* leaderboard_rebuild_checkpoint, 0 when there is none
    disturbed,       \* whether a swap used less than the events stored then
    rebuildFaults

lrVars == <<stored, board, rebuild, resumeAt, disturbed, rebuildFaults>>

WelcomePoints == 5
ReferrerPoints == 5
RewardPoints == 3

NoScore == [points |-> 0, won |-> 0, lost |-> 0]
EmptyBoard == [p \in Players |-> NoScore]
NoRebuild == [step |-> "idle", since |-> 0, read |-> 0]

RebuildInit ==
    /\ stored = 0 /\ board = EmptyBoard
    /\ rebuild = NoRebuild /\ resumeAt = 0
    /\ disturbed = FALSE /\ rebuildFaults = 0

-----------------------------------------------------------------------------
Credited(b, p, n) == [b EXCEPT ![p].points = @ + n]
Outcome(b, p, won) == IF won THEN [b EXCEPT ![p].won = @ + 1] ELSE [b EXCEPT ![p].lost = @ + 1]
PointsOf(won) == IF won THEN 30 ELSE 10

\* What the live handlers write.  A claim touches the bets only.
Handled(b, e) ==
    CASE e.kind = "points"     -> Outcome(Credited(b, e.user, PointsOf(e.won)), e.user, e.won)
      [] e.kind = "reward"     -> Credited(b, e.user, RewardPoints)
      [] e.kind = "registered" ->
            LET welcomed == Credited(b, e.user, WelcomePoints)
            IN  IF e.other = NoPlayer THEN welcomed ELSE Credited(welcomed, e.other, ReferrerPoints)
      [] OTHER                 -> b

\* What the fold makes of the stored rows: it tells them apart by their type
\* and takes defaults for the points it does not find.
LooksLikeClaim(e) == e.kind \in {"points", "claimed"}
HandleClaimEvent(b, e) ==
    LET won == e.kind = "points" /\ e.won
    IN  Outcome(Credited(b, e.user, PointsOf(won)), e.user, won)
\* A slip: the referrer of a registration gets nothing.
HandleReferralRegistration_NoReferrer(b, e) == Credited(b, e.user, WelcomePoints)
HandleReferralRegistration(b, e) ==
    LET welcomed == Credited(b, e.user, WelcomePoints)
    IN  IF e.other = NoPlayer THEN welcomed ELSE Credited(welcomed, e.other, ReferrerPoints)
HandleReferralBonus(b, e) == Credited(b, e.user, RewardPoints)

Folded(b, e) ==
    IF LooksLikeClaim(e) THEN HandleClaimEvent(b, e)
    ELSE IF e.kind = "registered" THEN HandleReferralRegistration(b, e)
    ELSE HandleReferralBonus(b, e)

LiveBoard(n) == FoldLeft(Handled, EmptyBoard, SubSeq(PointEvents, 1, n))
RowsSince(n, since) == SelectSeq(SubSeq(PointEvents, 1, n), LAMBDA e : e.ledger >= since)
BuildLeaderboardSnapshot(n, since) == FoldLeft(Folded, EmptyBoard, RowsSince(n, since))

-----------------------------------------------------------------------------
\* One transaction of the live indexer: the row and its points.
HandleEvent ==
    /\ stored < Len(PointEvents)
    /\ stored' = stored + 1
    /\ board' = Handled(board, PointEvents[stored + 1])
    /\ UNCHANGED <<rebuild, resumeAt, disturbed, rebuildFaults>>

\* --since-ledger goes before the checkpoint of an earlier, failed rebuild.
StartRebuild(since) ==
    /\ rebuild = NoRebuild
    /\ rebuild' = [step |-> "read", since |-> IF since > 0 THEN since ELSE resumeAt, read |-> stored]
    /\ UNCHANGED <<stored, board, resumeAt, disturbed, rebuildFaults>>

Complete == rebuild.read = stored /\ Len(RowsSince(rebuild.read, rebuild.since)) = stored

\* The shadow table takes the board's place; nothing is swapped for nobody.
SwapShadowTable ==
    /\ rebuild.step = "read"
    /\ LET empty == RowsSince(rebuild.read, rebuild.since) = <<>>
       IN  /\ board' = IF empty THEN board ELSE BuildLeaderboardSnapshot(rebuild.read, rebuild.since)
           /\ disturbed' = IF empty THEN disturbed ELSE ~Complete
    /\ rebuild' = NoRebuild
    /\ resumeAt' = 0
    /\ UNCHANGED <<stored, rebuildFaults>>

DryRun ==
    /\ rebuild.step = "read"
    /\ rebuild' = NoRebuild
    /\ UNCHANGED <<stored, board, resumeAt, disturbed, rebuildFaults>>

\* Rolled back; the last ledger that was read becomes the place to resume at.
RebuildFails ==
    /\ rebuild.step = "read" /\ rebuildFaults < RebuildFaults
    /\ LET read == RowsSince(rebuild.read, rebuild.since)
       IN  \/ resumeAt' = IF read = <<>> THEN resumeAt ELSE read[Len(read)].ledger
           \/ UNCHANGED resumeAt
    /\ rebuild' = NoRebuild
    /\ rebuildFaults' = rebuildFaults + 1
    /\ UNCHANGED <<stored, board, disturbed>>

RebuildNext ==
    \/ HandleEvent
    \/ \E since \in {0} \union {PointEvents[n].ledger : n \in DOMAIN PointEvents} : StartRebuild(since)
    \/ SwapShadowTable \/ DryRun \/ RebuildFails

RebuildSpec == RebuildInit /\ [][RebuildNext]_lrVars

-----------------------------------------------------------------------------
\* The fold over the stored events and the live handlers give the same board,
\* so a table lost to a disaster can be rebuilt; unless a rebuild swapped in a
\* part of the events, or events came between its read and its swap.
BoardIsFoldOfEvents == ~disturbed => board = LiveBoard(stored)
=============================================================================
