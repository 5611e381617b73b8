------------------------------ MODULE OracleRunner ------------------------------
(***************************************************************************)
(* What the aggregator does with one expired market: it reads the chain,   *)
(* counts the council's votes, holds an undecided tally for review or      *)
(* sends the resolution, and keeps the hash of what it sent, so that it    *)
(* sends nothing twice.  Several runners may be up, as in a deployment     *)
(* that replaces one by another, and each may die between two steps.       *)
(***************************************************************************)
EXTENDS Naturals, Sequences, FiniteSets, SequencesExt

CONSTANTS
    Council,          \* its members
    VotesNeeded,      \* COUNCIL_THRESHOLD
    Runners,          \* aggregator processes
    MaxDeliveries,    \* FINALIZE_WEBHOOK_MAX_ATTEMPTS
    VoteBound,        \* bound: votes cast or changed
    TxBound,          \* bound: transactions
    HoldBound,        \* bound: times a hold is cleared
    OutsideBound,     \* bound: submissions, challenges, settlements and decisions by others
    RunnerFaults      \* bound: crashes, timeouts, failed statements, lost transactions

ASSUME RunnerConstants == TxBound \in Nat

VARIABLES
    contract,     \* the market on the chain: open, yes, no or cancelled
    txs,          \* the transactions sent: sequence of [outcome, status]
    council,      \* council_votes: the current vote of each member
    votesCast,
    oracle,       \* the market's submission on the chain: disputed, and settled as;
                  \* steps: what others did to the market
    attempt,      \* the row of oracle_submissions, which the runner, the API and
                  \* the indexer write; nonce: the API stored it with one
    hold,         \* the row of oracle_ambiguous_tallies
    indexedAs,    \* what the indexer has taken from the chain: dispute, settlement
    runner,       \* per process: step, outcome it works on, its transaction, deliveries
    held,         \* how often the market was held, and alerts sent for it
    notice,       \* outcomes the webhook received, and the one stored as undelivered
    unguarded,    \* two runners worked on the market at once, or one died before
                  \* it recorded what it had sent
    hashLost,      \* the row of a disputed market refused the hash of what was sent, or
                  \* was deleted with it
    cutOff,       \* a finalization ended before its notification did
    runnerFaults

runVars == <<contract, txs, council, votesCast, oracle, attempt, hold, indexedAs, runner,
             held, notice, unguarded, hashLost, cutOff, runnerFaults>>
outside == <<contract, oracle, council, votesCast, indexedAs>>
history == <<unguarded, hashLost, cutOff>>

Undecided == "none"
Verdicts == {"yes", "no"}
Resting == [step |-> "idle", outcome |-> Undecided, tx |-> 0, tries |-> 0]
NoAttempt == [status |-> "none", outcome |-> Undecided, decision |-> Undecided, tx |-> 0,
              votes |-> FALSE, nonce |-> FALSE]
Busy(r) == runner[r].step # "idle"

RunnerInit ==
    /\ contract = "open" /\ txs = <<>>
    /\ council = [member \in Council |-> Undecided] /\ votesCast = 0
    /\ oracle = [disputed |-> FALSE, verdict |-> Undecided, steps |-> 0]
    /\ attempt = NoAttempt /\ hold = "none"
    /\ indexedAs = [disputed |-> FALSE, settled |-> FALSE]
    /\ runner = [r \in Runners |-> Resting]
    /\ held = [times |-> 0, alerts |-> 0]
    /\ notice = [delivered |-> {}, stored |-> Undecided]
    /\ unguarded = FALSE /\ hashLost = FALSE /\ cutOff = FALSE
    /\ runnerFaults = 0

-----------------------------------------------------------------------------
(* The council, the chain, the API, the indexer and the operator *)

\* What of the runners and their tables these leave alone.
inside == <<runner, held, notice, history>>

\* A member votes, or changes the vote: one row per member, the last one counts.
RecordSubmission(member, outcome) ==
    /\ votesCast < VoteBound
    /\ council' = [council EXCEPT ![member] = outcome]
    /\ votesCast' = votesCast + 1
    /\ UNCHANGED <<contract, txs, oracle, attempt, hold, indexedAs, inside, runnerFaults>>

\* A pending transaction lands: it fails where the market is decided already.
TxLands(n) ==
    /\ txs[n].status = "pending"
    /\ txs' = [txs EXCEPT ![n].status = IF contract = "open" THEN "success" ELSE "failed"]
    /\ contract' = IF contract = "open" THEN txs[n].outcome ELSE contract
    /\ UNCHANGED <<oracle, council, votesCast, attempt, hold, indexedAs, inside, runnerFaults>>

\* Or it fails for want of fees, or never lands: the network answers NOT_FOUND
\* from then on.
TxLost(n) ==
    /\ txs[n].status = "pending"
    /\ runnerFaults < RunnerFaults
    /\ \E status \in {"failed", "dropped"} : txs' = [txs EXCEPT ![n].status = status]
    /\ runnerFaults' = runnerFaults + 1
    /\ UNCHANGED <<outside, attempt, hold, inside>>

ByOthers(changed) ==
    /\ oracle.steps < OutsideBound
    /\ oracle' = [changed EXCEPT !.steps = oracle.steps + 1]

\* A resolver or the admin decides the market, or a dispute times out.
AdminDecides(state) ==
    /\ contract = "open"
    /\ contract' = state
    /\ ByOthers(oracle)
    /\ UNCHANGED <<txs, council, votesCast, attempt, hold, indexedAs, inside, runnerFaults>>

\* The outcome submitted to the contract is challenged.
Challenge ==
    /\ contract = "open" /\ ~oracle.disputed /\ oracle.verdict = Undecided
    /\ ByOthers([oracle EXCEPT !.disputed = TRUE])
    /\ UNCHANGED <<contract, txs, council, votesCast, attempt, hold, indexedAs, inside, runnerFaults>>

\* The submission is finalized or ruled on.  A market that was decided otherwise
\* meanwhile stays as it is: only the bonds are settled.
OracleSettles(outcome) ==
    /\ oracle.verdict = Undecided
    /\ ByOthers([oracle EXCEPT !.verdict = outcome])
    /\ contract' = IF contract = "open" THEN outcome ELSE contract
    /\ UNCHANGED <<txs, council, votesCast, attempt, hold, indexedAs, inside, runnerFaults>>

\* The API stores a submission, or the indexer one of the chain, before any
\* transaction is known: a market has one row.
SubmitOutcome(outcome, nonce) ==
    /\ attempt = NoAttempt
    /\ attempt' = [NoAttempt EXCEPT !.status = "submitted", !.outcome = outcome, !.nonce = nonce]
    /\ ByOthers(oracle)
    /\ UNCHANGED <<contract, council, votesCast, indexedAs, txs, hold, inside, runnerFaults>>

\* The API clears nonces away, with the rows that hold them, whatever became of
\* the rows.
CleanupExpiredNonces ==
    /\ attempt.nonce
    /\ attempt' = NoAttempt
    /\ hashLost' = (hashLost \/ attempt.tx # 0)
    /\ UNCHANGED <<outside, txs, hold, runner, held, notice, unguarded, cutOff, runnerFaults>>

IndexChallenge ==
    /\ oracle.disputed /\ ~indexedAs.disputed
    /\ indexedAs' = [indexedAs EXCEPT !.disputed = TRUE]
    /\ attempt' = IF attempt.status = "submitted" THEN [attempt EXCEPT !.status = "challenged"]
                  ELSE attempt
    /\ UNCHANGED <<contract, oracle, council, votesCast, txs, hold, inside, runnerFaults>>

\* The hash of a transaction that is none of the runners': the settlement's.
Settlement == TxBound + 1
TxStatus(n) == IF n = Settlement THEN "success" ELSE txs[n].status

IndexVerdict_AnyStatus ==
    /\ oracle.verdict # Undecided /\ ~indexedAs.settled
    /\ oracle.disputed => indexedAs.disputed
    /\ indexedAs' = [indexedAs EXCEPT !.settled = TRUE]
    /\ attempt' = IF attempt.status = "none" THEN attempt
                  ELSE [attempt EXCEPT !.status = "finalized", !.decision = oracle.verdict,
                                       !.tx = Settlement]
    /\ UNCHANGED <<contract, oracle, council, votesCast, txs, hold, inside, runnerFaults>>

\* The settlement's event decides a row that is not final: the decision and the
\* hash are the event's, the outcome stays as it was submitted.
IndexVerdict ==
    /\ oracle.verdict # Undecided /\ ~indexedAs.settled
    /\ oracle.disputed => indexedAs.disputed
    /\ indexedAs' = [indexedAs EXCEPT !.settled = TRUE]
    /\ attempt' = IF attempt.status \notin {"submitted", "challenged"} THEN attempt
                  ELSE [attempt EXCEPT !.status = "finalized", !.decision = oracle.verdict,
                                       !.tx = Settlement]
    /\ UNCHANGED <<contract, oracle, council, votesCast, txs, hold, inside, runnerFaults>>

ClearHold ==
    /\ hold = "manual_review" /\ held.times <= HoldBound
    /\ hold' = "cleared"
    /\ UNCHANGED <<outside, txs, attempt, inside, runnerFaults>>

-----------------------------------------------------------------------------
(* The tally *)

Count(outcome) == Cardinality({member \in Council : council[member] = outcome})

SelectThresholdOutcome ==
    LET reached == {outcome \in Verdicts : Count(outcome) >= VotesNeeded}
    IN  IF Cardinality(reached) = 1 THEN CHOOSE outcome \in reached : TRUE ELSE Undecided

\* At least the threshold of votes, and one outcome that reaches it.
CanFinalize(outcome) ==
    /\ Count("yes") + Count("no") >= VotesNeeded
    /\ Count(outcome) >= VotesNeeded
    /\ \A other \in Verdicts \ {outcome} : Count(other) < VotesNeeded

-----------------------------------------------------------------------------
(* One runner *)

Goto(r, step) == runner' = [runner EXCEPT ![r].step = step]
Rest(r) == runner' = [runner EXCEPT ![r] = Resting]

\* No one holds it.  (A row of markets that is still open proves nothing: the
\* chain is asked before anything is done.)
Listed == hold # "manual_review"

StartMarket(r) ==
    /\ ~Busy(r)
    /\ Listed /\ contract = "open"
    /\ Goto(r, "tallying")
    /\ unguarded' = (unguarded \/ \E other \in Runners \ {r} : Busy(other))
    /\ UNCHANGED <<outside, txs, attempt, hold, held, notice, hashLost, cutOff, runnerFaults>>

\* A recorded attempt is looked at before anything is sent; one for the other
\* outcome stops the market for good.
TallyVotes(r) ==
    LET outcome == SelectThresholdOutcome
    IN  /\ runner[r].step = "tallying"
        /\ outcome # Undecided /\ CanFinalize(outcome)
        /\ IF attempt.tx # 0 /\ attempt.outcome # outcome THEN Rest(r)
           ELSE runner' = [runner EXCEPT ![r].outcome = outcome, ![r].tx = attempt.tx,
                               ![r].step = IF attempt.tx = 0 THEN "sending" ELSE "checking"]
        /\ UNCHANGED <<outside, txs, attempt, hold, held, notice, history, runnerFaults>>

\* The row is written once for all runners; only who wrote it sends the alert.
HoldForReview_AlertsAlways(r) ==
    /\ runner[r].step = "tallying" /\ SelectThresholdOutcome = Undecided
    /\ hold' = "manual_review"
    /\ held' = [alerts |-> held.alerts + 1,
                times |-> IF hold = "manual_review" THEN held.times ELSE held.times + 1]
    /\ Rest(r)
    /\ UNCHANGED <<outside, txs, attempt, notice, history, runnerFaults>>

HoldForReview(r) ==
    /\ runner[r].step = "tallying" /\ SelectThresholdOutcome = Undecided
    /\ hold' = "manual_review"
    /\ IF hold = "manual_review" THEN UNCHANGED held
       ELSE \E sent \in {0, 1} : held' = [times |-> held.times + 1, alerts |-> held.alerts + sent]
    /\ Rest(r)
    /\ UNCHANGED <<outside, txs, attempt, notice, history, runnerFaults>>

Finalized(r) == [status |-> "finalized", outcome |-> runner[r].outcome,
                 decision |-> runner[r].outcome, tx |-> runner[r].tx, votes |-> TRUE,
                 nonce |-> attempt.nonce]
Attempted(r) == [Finalized(r) EXCEPT !.status = "submitted", !.votes = attempt.votes]

\* An UPDATE: there may be no row.
MarkFinalDecision(r) == attempt' = IF attempt = NoAttempt THEN attempt ELSE Finalized(r)

\* What became of the recorded transaction; only a failed one is replaced.
CheckAttempt_ResendsUnknown(r) ==
    /\ runner[r].step = "checking"
    /\ Goto(r, "sending")
    /\ UNCHANGED <<attempt, outside, txs, hold, held, notice, history, runnerFaults>>

CheckAttempt_NeverResends(r) ==
    /\ runner[r].step = "checking"
    /\ IF contract = runner[r].outcome THEN MarkFinalDecision(r) /\ cutOff' = TRUE
       ELSE UNCHANGED <<attempt, cutOff>>
    /\ Rest(r)
    /\ UNCHANGED <<outside, txs, hold, held, notice, unguarded, hashLost, runnerFaults>>

CheckAttempt_TrustsResolved(r) ==
    /\ runner[r].step = "checking"
    /\ IF contract \in Verdicts \/ TxStatus(runner[r].tx) = "success"
       THEN MarkFinalDecision(r) /\ cutOff' = TRUE /\ Rest(r)
       ELSE /\ IF TxStatus(runner[r].tx) = "failed" THEN Goto(r, "sending") ELSE Rest(r)
            /\ UNCHANGED <<attempt, cutOff>>
    /\ UNCHANGED <<outside, txs, hold, held, notice, unguarded, hashLost, runnerFaults>>

\* A market resolved otherwise stops the runner.  A transaction that succeeded on
\* a market that is not resolved can only be a settlement of a cancelled one.
CheckAttempt(r) ==
    /\ runner[r].step = "checking"
    /\ IF \/ contract = runner[r].outcome
          \/ contract \notin Verdicts /\ TxStatus(runner[r].tx) = "success"
       THEN MarkFinalDecision(r) /\ cutOff' = TRUE /\ Rest(r)
       ELSE /\ IF contract \notin Verdicts /\ TxStatus(runner[r].tx) = "failed"
               THEN Goto(r, "sending") ELSE Rest(r)
            /\ UNCHANGED <<attempt, cutOff>>
    /\ UNCHANGED <<outside, txs, hold, held, notice, unguarded, hashLost, runnerFaults>>

SubmitResolutionTransaction(r) ==
    /\ runner[r].step = "sending"
    /\ Len(txs) < TxBound
    /\ txs' = Append(txs, [outcome |-> runner[r].outcome, status |-> "pending"])
    /\ runner' = [runner EXCEPT ![r].step = "recording", ![r].tx = Len(txs) + 1]
    /\ UNCHANGED <<outside, attempt, hold, held, notice, history, runnerFaults>>

RecordFinalizationAttempt_Unguarded(r) ==
    /\ runner[r].step = "recording"
    /\ attempt' = Attempted(r)
    /\ Goto(r, "confirming")
    /\ UNCHANGED <<outside, txs, hold, held, notice, history, runnerFaults>>

\* The hash is written before the confirmation is awaited, never over a
\* finalized row; the trigger on the status refuses it for a challenged one.
RecordFinalizationAttempt(r) ==
    /\ runner[r].step = "recording"
    /\ IF attempt.status = "challenged"
       THEN hashLost' = TRUE /\ Rest(r) /\ UNCHANGED attempt
       ELSE /\ attempt' = IF attempt.status = "finalized" THEN attempt ELSE Attempted(r)
            /\ Goto(r, "confirming") /\ UNCHANGED hashLost
    /\ UNCHANGED <<outside, txs, hold, held, notice, unguarded, cutOff, runnerFaults>>

WaitForConfirmation_AnyStatus(r) ==
    /\ runner[r].step = "confirming"
    /\ txs[runner[r].tx].status # "pending"
    /\ MarkFinalDecision(r) /\ Goto(r, "notifying")
    /\ UNCHANGED <<outside, txs, hold, held, notice, history, runnerFaults>>

\* A wait that times out while the transaction is pending is a fault.
WaitForConfirmation(r) ==
    /\ runner[r].step = "confirming"
    /\ txs[runner[r].tx].status # "pending"
    /\ IF txs[runner[r].tx].status = "success"
       THEN MarkFinalDecision(r) /\ Goto(r, "notifying")
       ELSE UNCHANGED attempt /\ Rest(r)
    /\ UNCHANGED <<outside, txs, hold, held, notice, history, runnerFaults>>

NotifyFinalized_GivesUp(r, received, answered) ==
    /\ runner[r].step = "notifying"
    /\ answered => received
    /\ notice' = IF received THEN [notice EXCEPT !.delivered = @ \union {runner[r].outcome}] ELSE notice
    /\ IF answered \/ runner[r].tries + 1 = MaxDeliveries
       THEN Rest(r) ELSE runner' = [runner EXCEPT ![r].tries = @ + 1]
    /\ UNCHANGED <<outside, txs, attempt, hold, held, history, runnerFaults>>

NotifyFinalized_Endless(r, received, answered) ==
    /\ runner[r].step = "notifying"
    /\ answered => received
    /\ notice' = IF received THEN [notice EXCEPT !.delivered = @ \union {runner[r].outcome}] ELSE notice
    /\ IF answered THEN Rest(r) ELSE runner' = [runner EXCEPT ![r].tries = @ + 1]
    /\ UNCHANGED <<outside, txs, attempt, hold, held, history, runnerFaults>>

\* The receiver may have taken a delivery that the runner counts as failed.
NotifyFinalized(r, received, answered) ==
    /\ runner[r].step = "notifying"
    /\ answered => received
    /\ LET last == ~answered /\ runner[r].tries + 1 = MaxDeliveries
       IN  /\ notice' = [delivered |-> IF received THEN notice.delivered \union {runner[r].outcome}
                                       ELSE notice.delivered,
                         stored |-> IF last THEN runner[r].outcome ELSE notice.stored]
           /\ IF answered \/ last THEN Rest(r)
              ELSE runner' = [runner EXCEPT ![r].tries = @ + 1]
    /\ UNCHANGED <<outside, txs, attempt, hold, held, history, runnerFaults>>

\* The process dies, a wait times out, a statement or request fails: the next
\* poll begins again from what is stored.
RunnerFails(r) ==
    /\ Busy(r) /\ runnerFaults < RunnerFaults
    /\ Rest(r)
    /\ runnerFaults' = runnerFaults + 1
    /\ unguarded' = (unguarded \/ runner[r].step = "recording")
    /\ cutOff' = (cutOff \/ runner[r].step = "notifying")
    /\ UNCHANGED <<outside, txs, attempt, hold, held, notice, hashLost>>

-----------------------------------------------------------------------------
ProcessMarket(r) ==
    \/ StartMarket(r) \/ TallyVotes(r) \/ HoldForReview(r) \/ CheckAttempt(r)
    \/ SubmitResolutionTransaction(r) \/ RecordFinalizationAttempt(r)
    \/ WaitForConfirmation(r)
    \/ \E received, answered \in BOOLEAN : NotifyFinalized(r, received, answered)

RunnerNext ==
    \/ \E member \in Council, outcome \in Verdicts : RecordSubmission(member, outcome)
    \/ \E n \in DOMAIN txs : TxLands(n) \/ TxLost(n)
    \/ \E state \in Verdicts \union {"cancelled"} : AdminDecides(state)
    \/ Challenge \/ \E outcome \in Verdicts : OracleSettles(outcome)
    \/ \E outcome \in Verdicts, nonce \in BOOLEAN : SubmitOutcome(outcome, nonce)
    \/ CleanupExpiredNonces
    \/ IndexChallenge \/ IndexVerdict \/ ClearHold
    \/ \E r \in Runners : ProcessMarket(r) \/ RunnerFails(r)

\* The loop polls on a timer, transactions land or are dropped; nobody has to
\* vote, to clear a hold or to decide by hand, nor the indexer to keep up.
RunnerFairness ==
    /\ \A r \in Runners : WF_runVars(ProcessMarket(r))
    /\ WF_runVars(\E n \in DOMAIN txs : TxLands(n))

RunnerSpec == RunnerInit /\ [][RunnerNext]_runVars /\ RunnerFairness

-----------------------------------------------------------------------------

\* Whoever wrote a row that says finalized, and whichever runner wrote last: with
\* the council's votes it names the verdict of the contract, without them that of
\* the settlement, which the contract need not have taken.  (A cancelled market
\* has no verdict; its submission is settled all the same.)
FinalizedMatchesChain ==
    attempt.status = "finalized" =>
        IF attempt.votes
        THEN /\ attempt.decision = attempt.outcome
             /\ attempt.decision = contract \/ (contract = "cancelled" /\ attempt.tx = Settlement)
        ELSE attempt.decision = oracle.verdict /\ attempt.tx = Settlement

\* The row of a finalized market is history: no late runner takes it back, and
\* none changes its decision but to the verdict of the contract.  It goes only
\* whole, and only with the nonce it was submitted with.
FinalizedRowIsKept ==
    [][attempt.status = "finalized" =>
        \/ attempt.nonce /\ attempt' = NoAttempt
        \/ /\ attempt'.status = "finalized"
           /\ attempt.votes => attempt'.votes /\ attempt'.decision = attempt.decision
           /\ \/ attempt'.decision = attempt.decision
              \/ attempt'.decision = contract \/ contract = "cancelled"]_runVars

\* At most one resolution may still land, unless two runners overlapped, one died
\* between sending and recording, or a row refused a hash or was deleted with one:
\* there "can inspect the exact transaction rather than blindly submitting again" of
\* the finalizer does not hold.
MayLand == {n \in DOMAIN txs : txs[n].status \in {"pending", "dropped"}}
OneLiveTransaction == ~unguarded /\ ~hashLost => Cardinality(MayLand) <= 1

\* However many runners find the tally undecided, a hold raises one alert.
OneAlertPerHold == held.alerts <= held.times

\* A webhook speaks of the verdict that the contract has, and a finalization
\* that was not cut off is delivered or kept for an operator.
NoticesAreTrue == notice.delivered \union {notice.stored} \subseteq {contract, Undecided}
FinalizationsAnnounced ==
    (attempt.status = "finalized" /\ attempt.votes /\ ~cutOff /\ \A r \in Runners : runner[r].step # "notifying")
        => notice.delivered # {} \/ notice.stored # Undecided

\* Whichever of two aggregators and the indexer wrote last, a row that says
\* finalized names the verdict of who wrote it, at most one resolution may still
\* land, what a webhook was told is true, no finalization by an aggregator is
\* forgotten, and a hold raises one alert.
ResolutionsAreSound ==
    /\ FinalizedMatchesChain /\ OneLiveTransaction
    /\ NoticesAreTrue /\ FinalizationsAnnounced /\ OneAlertPerHold

\* A market whose council keeps to an outcome is decided, unless it is held for
\* review, its recorded transaction was dropped, or that one was for the other
\* outcome.
Blocked ==
    /\ attempt.tx # 0
    /\ attempt.outcome # SelectThresholdOutcome \/ TxStatus(attempt.tx) = "dropped"
AgreedMarketsAreDecided ==
    []<>(votesCast = VoteBound /\ SelectThresholdOutcome # Undecided
         => contract # "open" \/ hold = "manual_review" \/ Blocked \/ Len(txs) = TxBound)
=============================================================================
