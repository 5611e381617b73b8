---------------------------- MODULE CouncilBots -----------------------------
(***************************************************************************)
(* The bot that challenges submissions its adapters disagree with.  It     *)
(* polls the events of the last ledgers, looks at each market one after    *)
(* the other, may be switched off at any point, and checks what it spent   *)
(* in the last hour in the disputes that the indexer has written.          *)
(***************************************************************************)
EXTENDS Naturals, FiniteSets, FiniteSetsExt

CONSTANTS
    Submitted,       \* markets with a submission
    ChallengeUntil,  \* ledger at which a market's challenge window ends
    Appears,         \* ledger of a market's submission event
    OwnSubmission,   \* submitted by the bot's own account
    Lookback,        \* ledgers a poll looks back
    Bond,            \* challengeBondStroops
    SpendLimit,      \* hourlySpendLimit
    LastLedgerSeen,  \* bound: ledgers; they lie within one hour
    BotFaults        \* bound: failed requests and restarts

ASSUME BotConstants ==
    /\ IsFiniteSet(Submitted)
    /\ ChallengeUntil \in [Submitted -> Nat] /\ Bond \in Nat /\ SpendLimit \in Nat

VARIABLES
    ledger,        \* the latest ledger
    verdict,       \* what the adapters make of a submission
    bot,           \* the step, the market it is at, the events still to look at
    enabled,       \* the kill switch
    processed,     \* processedSubmissions
    challenged,    \* markets whose challenge the contract holds
    indexedBonds,  \* of those, the ones in oracle_disputes
    failedSends,   \* markets whose challenge was lost to an error
    lagged,        \* a spend was checked while a dispute was not indexed
    botFaults

botVars == <<ledger, verdict, bot, enabled, processed, challenged, indexedBonds, failedSends, lagged, botFaults>>

NoMarket == "none"
Polling == [step |-> "idle", market |-> NoMarket, queue |-> {}]

\* The first adapter that supports the market, answers, and is confident enough
\* decides; "unsure" when there is none.
BotInit ==
    /\ ledger = 1
    /\ verdict \in [Submitted -> {"agrees", "disagrees", "unsure"}]
    /\ bot = Polling /\ enabled = TRUE
    /\ processed = {} /\ challenged = {} /\ indexedBonds = {} /\ failedSends = {}
    /\ lagged = FALSE /\ botFaults = 0

-----------------------------------------------------------------------------
NextLedger ==
    /\ ledger < LastLedgerSeen
    /\ ledger' = ledger + 1
    /\ UNCHANGED <<verdict, bot, enabled, processed, challenged, indexedBonds, failedSends, lagged, botFaults>>

IndexDispute ==
    /\ \E m \in challenged \ indexedBonds : indexedBonds' = indexedBonds \union {m}
    /\ UNCHANGED <<ledger, verdict, bot, enabled, processed, challenged, failedSends, lagged, botFaults>>

SetEnabled ==
    /\ enabled' = ~enabled
    /\ UNCHANGED <<ledger, verdict, bot, processed, challenged, indexedBonds, failedSends, lagged, botFaults>>

PollEvents ==
    /\ bot.step = "idle"
    /\ bot' = [Polling EXCEPT !.step = "looking",
                  !.queue = {m \in Submitted : Appears[m] <= ledger /\ Appears[m] + Lookback >= ledger}]
    /\ UNCHANGED <<ledger, verdict, enabled, processed, challenged, indexedBonds, failedSends, lagged, botFaults>>

PollDone ==
    /\ bot.step = "looking" /\ bot.queue = {}
    /\ bot' = Polling
    /\ UNCHANGED <<ledger, verdict, enabled, processed, challenged, indexedBonds, failedSends, lagged, botFaults>>

Looking(m) == [bot EXCEPT !.step = "looking", !.market = NoMarket, !.queue = @ \ {m}]

Returned_Anyway(m) ==
    /\ processed' = processed \union {m}
    /\ bot' = Looking(m)

\* What returns without an error is processed, unless the switch is off.
Returned(m) ==
    /\ processed' = IF enabled THEN processed \union {m} ELSE processed
    /\ bot' = Looking(m)

SkipEvent(m) ==
    /\ bot.step = "looking" /\ m \in bot.queue
    /\ ~enabled \/ m \in processed
    /\ bot' = Looking(m)
    /\ UNCHANGED <<ledger, verdict, enabled, processed, challenged, indexedBonds, failedSends, lagged, botFaults>>

ProcessSubmission(m) ==
    /\ bot.step = "looking" /\ m \in bot.queue /\ enabled /\ m \notin processed
    /\ IF m \in OwnSubmission \/ ledger > ChallengeUntil[m]
       THEN Returned(m)
       ELSE /\ bot' = [bot EXCEPT !.step = "evaluating", !.market = m]
            /\ UNCHANGED processed
    /\ UNCHANGED <<ledger, verdict, enabled, challenged, indexedBonds, failedSends, lagged, botFaults>>

EvaluateSubmission_Unsure ==
    /\ bot.step = "evaluating"
    /\ IF verdict[bot.market] # "agrees" /\ enabled
       THEN /\ bot' = [bot EXCEPT !.step = "guarding"]
            /\ UNCHANGED processed
       ELSE Returned(bot.market)
    /\ UNCHANGED <<ledger, verdict, enabled, challenged, indexedBonds, failedSends, lagged, botFaults>>

EvaluateSubmission ==
    /\ bot.step = "evaluating"
    /\ IF verdict[bot.market] = "disagrees" /\ enabled
       THEN /\ bot' = [bot EXCEPT !.step = "guarding"]
            /\ UNCHANGED processed
       ELSE Returned(bot.market)
    /\ UNCHANGED <<ledger, verdict, enabled, challenged, indexedBonds, failedSends, lagged, botFaults>>

HourlySpend == Bond * Cardinality(indexedBonds)

AssertBondSpend_IgnoresRequest == HourlySpend <= SpendLimit

AssertBondSpend == HourlySpend + Bond <= SpendLimit

\* Beyond the limit the guard throws, and the market is looked at again.
BondSpendGuard ==
    /\ bot.step = "guarding"
    /\ lagged' = (lagged \/ indexedBonds # challenged)
    /\ IF ~AssertBondSpend
       THEN bot' = Looking(bot.market) /\ UNCHANGED processed
       ELSE IF enabled
       THEN bot' = [bot EXCEPT !.step = "sending"] /\ UNCHANGED processed
       ELSE Returned(bot.market)
    /\ UNCHANGED <<ledger, verdict, enabled, challenged, indexedBonds, failedSends, botFaults>>

\* The contract takes one challenge of a market, within its window.
Send(m, allowed) ==
    /\ bot.step = "sending"
    /\ LET accepted == m \notin challenged /\ ledger <= ChallengeUntil[m]
       IN  /\ challenged' = IF allowed /\ accepted THEN challenged \union {m} ELSE challenged
           /\ failedSends' = IF allowed /\ ~accepted THEN failedSends \union {m} ELSE failedSends
    /\ Returned(m)
    /\ UNCHANGED <<ledger, verdict, enabled, indexedBonds, lagged, botFaults>>

SubmitChallengeOnChain_CheckedBefore == Send(bot.market, TRUE)

SubmitChallengeOnChain == Send(bot.market, enabled)

\* An error while sending is logged and the market counts as processed.
SendFails ==
    /\ bot.step = "sending"
    /\ botFaults < BotFaults
    /\ botFaults' = botFaults + 1
    /\ failedSends' = failedSends \union {bot.market}
    /\ Returned(bot.market)
    /\ UNCHANGED <<ledger, verdict, enabled, challenged, indexedBonds, lagged>>

\* A failed poll ends the cycle; a restart also forgets what was processed.
CycleFails ==
    /\ bot.step # "idle" /\ botFaults < BotFaults
    /\ botFaults' = botFaults + 1
    /\ bot' = Polling
    /\ processed' \in {processed, {}}
    /\ UNCHANGED <<ledger, verdict, enabled, challenged, indexedBonds, failedSends, lagged>>

BotNext ==
    \/ NextLedger \/ IndexDispute \/ SetEnabled \/ PollEvents \/ PollDone
    \/ \E m \in Submitted : SkipEvent(m) \/ ProcessSubmission(m)
    \/ EvaluateSubmission \/ BondSpendGuard \/ SubmitChallengeOnChain \/ SendFails \/ CycleFails

BotSpec == BotInit /\ [][BotNext]_botVars

-----------------------------------------------------------------------------
\* A market is put aside only when nothing is left to do for it: it is
\* challenged, needs no challenge, its window is over, or a challenge was sent
\* and failed.  Switching the bot off and on forgets none.
NothingPutAside ==
    \A m \in processed :
        \/ m \in challenged \union failedSends \union OwnSubmission
        \/ verdict[m] # "disagrees" \/ ledger > ChallengeUntil[m]

\* Only a confident disagreement costs a bond.
OnlyDisagreementsChallenged ==
    \A m \in challenged : verdict[m] = "disagrees" /\ m \notin OwnSubmission

\* The bonds of an hour stay within the limit, unless a dispute was not yet
\* indexed when the next challenge was checked.
SpendWithinHourlyLimit == ~lagged => Bond * Cardinality(challenged) <= SpendLimit

\* The bot spends a bond only where its adapters disagree, within the limit, and
\* leaves no disagreement unanswered.
ChallengesAreSound ==
    NothingPutAside /\ OnlyDisagreementsChallenged /\ SpendWithinHourlyLimit

\* Nothing is sent while the switch is off, wherever in its cycle the bot was.
KillSwitchHolds == [][challenged' # challenged => enabled]_botVars

-----------------------------------------------------------------------------
(***************************************************************************)
(* The in-process guards around a market's finalization:                   *)
(* CancellationAwareFinalizer (cancellation.ts) and FinalizationGuard      *)
(* (finalize-once.ts).  Both claim a market before their first await and   *)
(* release it in a finally; the first re-reads the market's state after    *)
(* the council's outcome was fetched.  Several callers run interleaved,    *)
(* and the chain moves between their awaits.                               *)
(***************************************************************************)

CONSTANTS Callers,       \* concurrent finalize() / runOnce() calls
          GuardedMarkets,
          SubmitFaults   \* bound: submissions that throw

VARIABLES claimedIds,    \* claimed
          finalizedSeen, \* finalized
          call,          \* [Callers -> the call's market, kind and place]
          marketState,   \* the chain: open, cancelled or resolved (external)
          submitted,     \* history: submissions that returned, per market
          submitFailures

guardVars == <<claimedIds, finalizedSeen, call, marketState, submitted, submitFailures>>

Kinds == {"cancellation-aware", "guard"}
NoCall == [at |-> "none", market |-> 0, kind |-> "none"]

GuardInit ==
    /\ claimedIds = {} /\ finalizedSeen = {}
    /\ call = [c \in Callers |-> NoCall]
    /\ marketState = [m \in GuardedMarkets |-> "open"]
    /\ submitted = [m \in GuardedMarkets |-> 0]
    /\ submitFailures = 0

MoveTo(c, place) == call' = [call EXCEPT ![c].at = place]

\* The finally block.
Release(c) == /\ claimedIds' = claimedIds \ {call[c].market}
              /\ call' = [call EXCEPT ![c] = NoCall]

\* A slip: the market is claimed after the first await.
ClaimMarket_Late(c, m, kind) ==
    /\ call[c] = NoCall
    /\ m \notin claimedIds \cup finalizedSeen
    /\ call' = [call EXCEPT ![c] = [at |-> "reading", market |-> m, kind |-> kind]]
    /\ UNCHANGED <<claimedIds, finalizedSeen, marketState, submitted, submitFailures>>

\* Neither finalized nor claimed: claim it before any await.  (A call about a
\* market that is either returns at once and changes nothing.)
ClaimMarket(c, m, kind) ==
    /\ call[c] = NoCall
    /\ m \notin claimedIds \cup finalizedSeen
    /\ claimedIds' = claimedIds \cup {m}
    /\ call' = [call EXCEPT ![c] = [at |-> "reading", market |-> m, kind |-> kind]]
    /\ UNCHANGED <<finalizedSeen, marketState, submitted, submitFailures>>

\* The first look at the chain.  Only the cancellation-aware one minds a
\* cancelled market and fetches the council's outcome before submitting.
ReadState(c) ==
    /\ call[c].at = "reading"
    /\ LET m == call[c].market
           aware == call[c].kind = "cancellation-aware"
       IN \/ /\ marketState[m] = "resolved"
             /\ finalizedSeen' = finalizedSeen \cup {m}
             /\ Release(c)
          \/ /\ aware /\ marketState[m] = "cancelled"
             /\ Release(c)
             /\ UNCHANGED finalizedSeen
          \/ /\ marketState[m] = "open" \/ (~aware /\ marketState[m] = "cancelled")
             /\ MoveTo(c, IF aware THEN "outcome" ELSE "submitting")
             /\ UNCHANGED <<claimedIds, finalizedSeen>>
    /\ UNCHANGED <<marketState, submitted, submitFailures>>

\* getAgreedOutcome: below the threshold the call ends.
FetchOutcome(c, agreed) ==
    /\ call[c].at = "outcome"
    /\ IF agreed THEN MoveTo(c, "rereading") /\ UNCHANGED claimedIds ELSE Release(c)
    /\ UNCHANGED <<finalizedSeen, marketState, submitted, submitFailures>>

\* A slip: the state is not read again.
ReadAgain_Skipped(c) ==
    /\ call[c].at = "rereading"
    /\ MoveTo(c, "submitting")
    /\ UNCHANGED <<claimedIds, finalizedSeen, marketState, submitted, submitFailures>>

\* The second look: what happened while the outcome was fetched.
ReadAgain(c) ==
    /\ call[c].at = "rereading"
    /\ LET m == call[c].market
       IN \/ /\ marketState[m] = "open"
             /\ MoveTo(c, "submitting")
             /\ UNCHANGED <<claimedIds, finalizedSeen>>
          \/ /\ marketState[m] # "open"
             /\ finalizedSeen' = finalizedSeen \cup (IF marketState[m] = "resolved" THEN {m} ELSE {})
             /\ Release(c)
    /\ UNCHANGED <<marketState, submitted, submitFailures>>

\* submit() resolved: the contract had accepted it, which it does once.
SubmitReturns(c) ==
    /\ call[c].at = "submitting"
    /\ LET m == call[c].market
       IN /\ marketState[m] = "open"
          /\ marketState' = [marketState EXCEPT ![m] = "resolved"]
          /\ submitted' = [submitted EXCEPT ![m] = @ + 1]
          /\ finalizedSeen' = finalizedSeen \cup {m}
    /\ Release(c)
    /\ UNCHANGED submitFailures

\* A slip: the market counts as finalized once the submission was tried.
SubmitThrows_Remembers(c) ==
    /\ call[c].at = "submitting"
    /\ marketState[call[c].market] = "open" => submitFailures < SubmitFaults
    /\ submitFailures' = IF marketState[call[c].market] = "open" THEN submitFailures + 1 ELSE submitFailures
    /\ finalizedSeen' = finalizedSeen \cup {call[c].market}
    /\ Release(c)
    /\ UNCHANGED <<marketState, submitted>>

\* submit() threw: the contract refused it, or it was lost on the way.
SubmitThrows(c) ==
    /\ call[c].at = "submitting"
    /\ marketState[call[c].market] = "open" => submitFailures < SubmitFaults
    /\ submitFailures' = IF marketState[call[c].market] = "open" THEN submitFailures + 1 ELSE submitFailures
    /\ Release(c)
    /\ UNCHANGED <<finalizedSeen, marketState, submitted>>

\* The admin cancels, or another process resolves, an open market.
ChainMoves(m, to) ==
    /\ marketState[m] = "open"
    /\ marketState' = [marketState EXCEPT ![m] = to]
    /\ UNCHANGED <<claimedIds, finalizedSeen, call, submitted, submitFailures>>

GuardNext ==
    \/ \E c \in Callers, m \in GuardedMarkets, kind \in Kinds : ClaimMarket(c, m, kind)
    \/ \E c \in Callers : \/ ReadState(c) \/ ReadAgain(c) \/ SubmitReturns(c) \/ SubmitThrows(c)
                          \/ \E agreed \in BOOLEAN : FetchOutcome(c, agreed)
    \/ \E m \in GuardedMarkets, to \in {"cancelled", "resolved"} : ChainMoves(m, to)

GuardSpec == GuardInit /\ [][GuardNext]_guardVars

-----------------------------------------------------------------------------
\* However calls interleave, two of them never have the same market in hand,
\* so no two submissions of a market are ever under way together.
OneCallPerMarket ==
    \A c, d \in Callers : (c # d /\ call[c] # NoCall /\ call[d] # NoCall)
                              => call[c].market # call[d].market

\* What the guards remember as finalized is finalized on chain, and what they
\* hold claimed belongs to a call: a claim does not outlive its call.
MemoryIsTrue ==
    /\ \A m \in finalizedSeen : marketState[m] = "resolved"
    /\ \A m \in claimedIds : \E c \in Callers : call[c].market = m

\* A market is in one hand at a time, and what is remembered of it is true.
GuardsHold == OneCallPerMarket /\ MemoryIsTrue

\* A cancellation-aware call that saw its market open with the outcome already
\* in hand: between the outcome and the submission a cancellation is noticed.
CancelledIsNoticed ==
    [][\A c \in Callers :
         (call[c].at = "rereading" /\ call'[c].at = "submitting") => marketState[call[c].market] = "open"]_guardVars

\* The bots do harm to no market: a bond is spent only where it may be, and a
\* market is in one hand at a time.
BotsAreSound == ChallengesAreSound /\ GuardsHold

\* What changed while a bot worked is noticed before it sends: the switch by the
\* challenge bot, a cancellation by the finalizer.
LastLookHolds == KillSwitchHolds /\ CancelledIsNoticed
=============================================================================
