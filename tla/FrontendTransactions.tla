------------------------- MODULE FrontendTransactions -------------------------
(***************************************************************************)
(* A write of the frontend: services/soroban.ts buildAndSendTx as the      *)
(* functions of services/market.ts and the hooks useBet and useClaim use   *)
(* it.  The user repeats an attempt that was not confirmed.  The node      *)
(* answers getAccount through the RPC proxy, which caches the reply, and   *)
(* sends and polls directly.  Time is in polls of two seconds.             *)
(***************************************************************************)
EXTENDS Naturals

CONSTANTS Attempts,  \* bound: tries of one user, 1 .. n
          ValidFor,  \* setTimeout(300)
          PollsLeft, \* MAX_POLL_ATTEMPTS
          ProxyTtl   \* READ_TTL_MS of the proxy

VARIABLES attempt,  \* the current try, 0 before the first
          stage,    \* where buildAndSendTx is
          built,    \* the sequence number and age of its transaction
          polls,    \* polls it has left
          report,   \* per attempt: none, confirmed, refused, thrown
          result,   \* per attempt on chain: none, pending, applied, failed, dropped
          number,   \* the account's sequence number on chain
          proxied   \* the proxy's reply for the account, and how long it lives

txVars == <<attempt, stage, built, polls, report, result, number, proxied>>

TxInit ==
    /\ attempt = 0 /\ stage = "idle" /\ built = [sequence |-> 0, age |-> 0]
    /\ polls = 0 /\ number = 0 /\ proxied = [number |-> 0, left |-> 0]
    /\ report = [n \in Attempts |-> "none"] /\ result = [n \in Attempts |-> "none"]

End(as) == stage' = "idle" /\ report' = [report EXCEPT ![attempt] = as]
Pending == {n \in Attempts : result[n] = "pending"}

-----------------------------------------------------------------------------
\* useBet and useClaim: one submission at a time; the account is loaded first.
Submit ==
    /\ stage = "idle" /\ attempt + 1 \in Attempts
    /\ attempt > 0 => report[attempt] # "confirmed"
    /\ attempt' = attempt + 1 /\ stage' = "building"
    /\ proxied' = IF proxied.left > 0 THEN proxied
                  ELSE [number |-> number, left |-> ProxyTtl]
    /\ built' = [sequence |-> proxied'.number + 1, age |-> 0]
    /\ UNCHANGED <<polls, report, result, number>>

\* The simulation fails and is returned, or a read fails and is thrown.
Prepare ==
    /\ stage = "building"
    /\ \/ stage' = "signing" /\ UNCHANGED report
       \/ End("refused")
       \/ End("thrown")
    /\ UNCHANGED <<attempt, built, polls, result, number, proxied>>

Sign ==
    /\ stage = "signing"
    /\ stage' = "sending" \/ stage' = "declined"
    /\ UNCHANGED <<attempt, built, polls, report, result, number, proxied>>
Decline == /\ stage = "declined" /\ End("refused")
           /\ UNCHANGED <<attempt, built, polls, result, number, proxied>>

\* The node's queue takes one valid transaction of an account at a time.
Queued == /\ built.sequence = number + 1 /\ built.age < ValidFor /\ Pending = {}
          /\ result' = [result EXCEPT ![attempt] = "pending"]
\* ERROR and TRY_AGAIN_LATER.
SendRefused == /\ stage = "sending" /\ End("refused")
               /\ UNCHANGED <<attempt, built, polls, result, number, proxied>>
SendAccepted == /\ stage = "sending" /\ Queued
                /\ stage' = "polling" /\ polls' = PollsLeft
                /\ UNCHANGED <<attempt, built, report, number, proxied>>
\* The call fails; the node may have the transaction.
SendLost == /\ stage = "sending" /\ End("thrown")
            /\ Queued \/ UNCHANGED result
            /\ UNCHANGED <<attempt, built, polls, number, proxied>>

\* A slip: a transaction that is not found is reported as failed.
PollNotFound_Failed ==
    /\ stage = "polling" /\ result[attempt] \in {"pending", "dropped"}
    /\ IF polls > 1 THEN UNCHANGED <<stage, report>> ELSE End("refused")
    /\ polls' = polls - 1
    /\ UNCHANGED <<attempt, built, result, number, proxied>>
\* A slip: only a response counts as a poll.
PollNotFound_Uncounted ==
    /\ stage = "polling" /\ result[attempt] \in {"pending", "dropped"}
    /\ UNCHANGED txVars

\* pollTransaction: NOT_FOUND is waited for, and TIMEOUT is thrown after the last.
PollNotFound ==
    /\ stage = "polling" /\ result[attempt] \in {"pending", "dropped"}
    /\ IF polls > 1 THEN UNCHANGED <<stage, report>> ELSE End("thrown")
    /\ polls' = polls - 1
    /\ UNCHANGED <<attempt, built, result, number, proxied>>
PollAnswers ==
    /\ stage = "polling"
    /\ \/ result[attempt] = "applied" /\ End("confirmed")
       \/ result[attempt] = "failed" /\ End("refused")
    /\ UNCHANGED <<attempt, built, polls, result, number, proxied>>
PollBreaks == /\ stage = "polling" /\ End("thrown")
              /\ UNCHANGED <<attempt, built, polls, result, number, proxied>>

-----------------------------------------------------------------------------
\* The network: a queued transaction is applied, fails, or is dropped.
Settle == /\ \E n \in Pending : \E as \in {"applied", "failed", "dropped"} :
                /\ result' = [result EXCEPT ![n] = as]
                /\ number' = IF as = "dropped" THEN number ELSE number + 1
          /\ UNCHANGED <<attempt, stage, built, polls, report, proxied>>

TxTick == /\ built' = [built EXCEPT !.age = IF @ < ValidFor THEN @ + 1 ELSE @]
          /\ proxied' = [proxied EXCEPT !.left = IF @ = 0 THEN 0 ELSE @ - 1]
          /\ UNCHANGED <<attempt, stage, polls, report, result, number>>

TxNext == \/ Submit \/ Prepare \/ Sign \/ Decline \/ SendRefused \/ SendAccepted \/ SendLost
          \/ PollNotFound \/ PollAnswers \/ PollBreaks \/ Settle \/ TxTick

\* Every call of the node is answered or fails.
TxFairness == WF_txVars(SendRefused \/ PollNotFound \/ PollAnswers)

TxSpec == TxInit /\ [][TxNext]_txVars /\ TxFairness

-----------------------------------------------------------------------------
\* What a form shows is final: an attempt shown as confirmed was applied, and
\* one shown as failed was not and will not be, so it can be repeated safely.
ReportsHold ==
    \A n \in Attempts :
        /\ report[n] = "confirmed" => result[n] = "applied"
        /\ report[n] = "refused" => result[n] \notin {"applied", "pending"}

\* A bet is placed twice only if an attempt that was applied had ended in a
\* thrown error, which leaves its transaction undecided.
DoublesFollowAnUnknown ==
    \A m, n \in Attempts :
        m < n /\ result[m] = "applied" /\ result[n] \in {"applied", "pending"} => report[m] = "thrown"

\* A transaction that was sent does not keep the form waiting.
SentIsReported == []<>(stage \notin {"sending", "polling"})

=============================================================================
