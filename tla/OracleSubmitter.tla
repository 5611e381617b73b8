-------------------------- MODULE OracleSubmitter ---------------------------
(***************************************************************************)
(* The retry engine of the shared library: one call of withRetry, the      *)
(* classification of what its attempts throw, the backoff, and the two     *)
(* budgets.  Nothing runs beside the call, so time is a field of it that   *)
(* every step moves on.                                                    *)
(***************************************************************************)
EXTENDS Integers, Sequences, Naturals

CONSTANTS
    Profiles,       \* configurations of callers
    Failures,       \* what an attempt may throw
    MaxDuration     \* bound: how long an attempt runs by itself

VARIABLES profile, call

retryVars == <<profile, call>>

Unset == -1
Earlier(a, b) == IF a < b THEN a ELSE b

\* A failure as classifyFailure sees it: its class, and the fields it carries.
Failure(class, status, flag, after) == [class |-> class, status |-> status, flag |-> flag, after |-> after]

AttemptTimeout == Failure("attemptTimeout", Unset, "unset", Unset)
TotalTimeout == Failure("totalTimeout", Unset, "unset", Unset)
NoFailure == Failure("none", Unset, "unset", Unset)

-----------------------------------------------------------------------------
(* Classification *)

KindForStatus(status) ==
    CASE status = Unset -> "network"
      [] status = 429 -> "rate-limit"
      [] status = 408 -> "timeout"
      [] status >= 500 -> "server"
      [] OTHER -> "client"

\* The class of an error decides before its flag, and its flag before its status.
ClassifyFailure(e) ==
    CASE e.class \in {"permanent", "named"} -> [kind |-> "permanent", retryable |-> FALSE]
      [] e.class \in {"attemptTimeout", "totalTimeout"} ->
            [kind |-> "timeout", retryable |-> e.class = "attemptTimeout"]
      [] e.flag # "unset" -> [kind |-> KindForStatus(e.status), retryable |-> e.flag = "yes"]
      [] e.status # Unset -> [kind |-> KindForStatus(e.status),
                              retryable |-> KindForStatus(e.status) # "client"]
      [] e.class = "timeoutCode" -> [kind |-> "timeout", retryable |-> TRUE]
      [] OTHER -> [kind |-> "network", retryable |-> TRUE]

ClassifyFailure_StatusFirst(e) ==
    IF e.status # Unset
    THEN [kind |-> KindForStatus(e.status), retryable |-> KindForStatus(e.status) # "client"]
    ELSE [kind |-> "network", retryable |-> TRUE]

IsRetryableError_ByStatus(e) == ClassifyFailure_StatusFirst(e).retryable

IsRetryableError(e) == ClassifyFailure(e).retryable

-----------------------------------------------------------------------------
(* Delays *)

Ceiling(attempt, p) ==
    LET curve == CASE p.backoff = "exponential" -> p.base * 2 ^ attempt
                   [] p.backoff = "linear" -> p.base * (attempt + 1)
                   [] OTHER -> p.base
    IN  Earlier(p.maxDelay, curve)

\* A draw in 0 .. ceiling - 1, and 0 when there is nothing to draw from.
JitteredDelays(ceiling) == IF ceiling > 0 THEN 0 .. ceiling - 1 ELSE {0}

ComputeDelays(attempt, p) ==
    LET ceiling == Ceiling(attempt, p)
        half == ceiling \div 2
    IN  CASE p.jitter = "full" -> JitteredDelays(ceiling)
          [] p.jitter = "equal" -> {half + d : d \in JitteredDelays(ceiling - half)}
          [] OTHER -> {ceiling}

ResolveDelays_AlwaysCapped(attempt, p, e) ==
    IF p.retryAfter # "ignore" /\ e.after # Unset
    THEN {Earlier(p.maxDelay, e.after)}
    ELSE ComputeDelays(attempt, p)

\* What a peer asked for is not jittered, and capped unless the mode is strict.
ResolveDelays(attempt, p, e) ==
    IF p.retryAfter # "ignore" /\ e.after # Unset
    THEN {IF p.retryAfter = "strict" THEN e.after ELSE Earlier(p.maxDelay, e.after)}
    ELSE ComputeDelays(attempt, p)

-----------------------------------------------------------------------------
(* The runner *)

RetryInit ==
    /\ profile \in Profiles
    /\ call = [step |-> "attempt", attempt |-> 0, now |-> 0, error |-> NoFailure,
               failedAt |-> 0, started |-> <<>>, retried |-> <<>>, skipped |-> 0, reported |-> 0]

Deadline(p) == p.totalTimeout
PastDeadline(t) == Deadline(profile) # Unset /\ t >= Deadline(profile)

Ends(how) == [call EXCEPT !.step = how, !.reported = call.attempt + 1]

\* An attempt that would start with no budget left is not made.
OutOfBudget ==
    /\ call.step = "attempt" /\ PastDeadline(call.now)
    /\ call' = [Ends("threw") EXCEPT !.error = TotalTimeout]
    /\ UNCHANGED profile

\* How long the attempt may take: its own timeout or what is left of the total.
\* Without a timeout of its own an attempt is not raced against anything.
Allowance ==
    IF Deadline(profile) = Unset THEN profile.attemptTimeout
    ELSE Earlier(profile.attemptTimeout, Deadline(profile) - call.now)

Raced(duration) == profile.attemptTimeout # Unset /\ duration >= Allowance

AttemptSucceeds ==
    /\ call.step = "attempt" /\ ~PastDeadline(call.now)
    /\ \E d \in 0 .. MaxDuration :
          /\ profile.attemptTimeout # Unset => d <= Allowance
          /\ call' = [Ends("returned") EXCEPT !.now = @ + d, !.started = Append(@, call.now)]
    /\ UNCHANGED profile

\* At the moment the timer fires either of the two may win.
Thrown(d) ==
    LET cut == IF Allowance < profile.attemptTimeout THEN TotalTimeout ELSE AttemptTimeout
    IN  (IF Raced(d) THEN {cut} ELSE {})
        \union (IF Raced(d) /\ d > Allowance THEN {} ELSE Failures)

LastAttempt_OneMore == call.attempt > profile.maxRetries

LastAttempt == call.attempt = profile.maxRetries

AttemptFails ==
    /\ call.step = "attempt" /\ ~PastDeadline(call.now)
    /\ \E d \in 0 .. MaxDuration : \E e \in Thrown(d) :
          LET end == call.now + (IF Raced(d) THEN Allowance ELSE d)
              stop == e = TotalTimeout \/ ~IsRetryableError(e) \/ LastAttempt
          IN  call' = [(IF stop THEN Ends("threw") ELSE [call EXCEPT !.step = "backoff"]) EXCEPT
                          !.now = end, !.failedAt = end, !.error = e,
                          !.started = Append(@, call.now)]
    /\ UNCHANGED profile

Fits_Always(delay) == TRUE

\* The next attempt has to begin before the deadline.
Fits(delay) == ~PastDeadline(call.now + delay)

\* A pause that does not fit ends the call, and an attempt that is never made is
\* already counted.
GiveUpEarly ==
    /\ call.step = "backoff"
    /\ \E delay \in ResolveDelays(call.attempt, profile, call.error) :
          /\ ~Fits(delay)
          /\ call' = [call EXCEPT !.step = "threw", !.reported = call.attempt + 2,
                         !.error = IF call.error.after # Unset THEN @ ELSE TotalTimeout]
    /\ UNCHANGED profile

SleepThenRetry ==
    /\ call.step = "backoff"
    /\ \E delay \in ResolveDelays(call.attempt, profile, call.error) :
          /\ Fits(delay)
          /\ call' = [call EXCEPT !.step = "attempt", !.attempt = @ + 1, !.now = @ + delay,
                         !.retried = Append(@, call.error)]
    /\ UNCHANGED profile

\* The guard of a caller may consume the attempt, or end the call.
SkipAttempt ==
    /\ call.step = "backoff" /\ profile.guarded
    /\ \E delay \in ResolveDelays(call.attempt, profile, call.error) :
          /\ Fits(delay)
          /\ LET next == [call EXCEPT !.attempt = @ + 1, !.now = @ + delay, !.skipped = @ + 1]
             IN  call' = IF next.attempt = profile.maxRetries
                         THEN [next EXCEPT !.step = "threw", !.reported = next.attempt + 1]
                         ELSE next
    /\ call.attempt < profile.maxRetries
    /\ UNCHANGED profile

StopByGuard ==
    /\ call.step = "backoff" /\ profile.guarded
    /\ \E delay \in ResolveDelays(call.attempt, profile, call.error) : Fits(delay)
    /\ call' = Ends("returned")
    /\ UNCHANGED profile

RetryNext ==
    \/ OutOfBudget \/ AttemptSucceeds \/ AttemptFails
    \/ GiveUpEarly \/ SleepThenRetry \/ SkipAttempt \/ StopByGuard

RetrySpec == RetryInit /\ [][RetryNext]_retryVars

-----------------------------------------------------------------------------

\* What no retry can cure: the error says so, by its class, its flag or, when it
\* has none of these, by a status of the client.
Hopeless(e) ==
    \/ e.class \in {"permanent", "named", "totalTimeout"}
    \/ /\ e.class # "attemptTimeout"
       /\ \/ e.flag = "no"
          \/ e.flag = "unset" /\ e.status \in (400 .. 499) \ {408, 429}

\* A permanent failure is surfaced at once, also when it carries a status that
\* would be retried by itself, and a transient one never ends the call early.
OnlyHopefulIsRetried ==
    /\ \A i \in DOMAIN call.retried : ~Hopeless(call.retried[i])
    /\ (call.step = "threw" /\ profile.totalTimeout = Unset /\ ~Hopeless(call.error))
            => call.attempt = profile.maxRetries

\* No attempt begins once the total budget is spent, and if attempts have a
\* timeout the call itself ends within the budget.
BudgetKept ==
    profile.totalTimeout # Unset =>
        /\ \A i \in DOMAIN call.started : call.started[i] < profile.totalTimeout
        /\ profile.attemptTimeout # Unset => call.now <= profile.totalTimeout

\* A peer that named a pause is not asked again before it is over, or before the
\* longest pause the caller accepts.
RetryAfterHonoured ==
    (call.step = "attempt" /\ call.error.after # Unset /\ profile.retryAfter # "ignore") =>
        call.now - call.failedAt >= IF profile.retryAfter = "strict"
                                    THEN call.error.after
                                    ELSE Earlier(profile.maxDelay, call.error.after)

-----------------------------------------------------------------------------
(***************************************************************************)
(* submitWithRetry: an oracle's submission posts a bond, and before it is  *)
(* sent again the chain is asked whether the last one landed.              *)
(***************************************************************************)

CONSTANTS
    SubmitRetries,   \* retries after the first attempt
    AlertThreshold   \* attempts from which a failure is alerted

VARIABLE bond

SubmitInit ==
    bond = [step |-> "submit", attempt |-> 0, posted |-> 0, pending |-> 0, late |-> FALSE, alerted |-> FALSE]

-----------------------------------------------------------------------------

BondPosted ==
    /\ bond.pending > 0
    /\ bond' = [bond EXCEPT !.pending = @ - 1, !.posted = @ + 1]

\* The submission is confirmed, is refused, or is sent and its answer lost.
Submit ==
    /\ bond.step = "submit"
    /\ \/ bond' = [bond EXCEPT !.step = "true", !.posted = @ + 1]
       \/ \E lost \in 0 .. 1 :
             bond' = [bond EXCEPT !.step = "failed", !.pending = @ + lost]

\* What the state check says: that a bond was posted, that none was, or nothing.
Checked == {IF bond.posted > 0 THEN "finalized" ELSE "open", "unknown"}

GivesUp_Late(attempts) == [bond EXCEPT !.step = "false", !.alerted = attempts > AlertThreshold]

GivesUp(attempts) == [bond EXCEPT !.step = "false", !.alerted = attempts >= AlertThreshold]

\* An error that is not retryable ends the call with the attempts made so far.
CheckAfterFailure ==
    /\ bond.step = "failed"
    /\ \E answer \in Checked, retryable \in BOOLEAN :
          bond' = CASE answer = "finalized" -> [bond EXCEPT !.step = "true"]
                    [] answer # "finalized" /\ retryable /\ bond.attempt < SubmitRetries ->
                          [bond EXCEPT !.step = "sleeping"]
                    [] OTHER -> GivesUp(bond.attempt + 1)

BeforeRetry_UnknownIsOpen ==
    /\ bond.step = "sleeping"
    /\ \E answer \in Checked :
          bond' = IF answer = "finalized" THEN [bond EXCEPT !.step = "true"]
                  ELSE [bond EXCEPT !.step = "submit", !.attempt = @ + 1,
                                    !.late = @ \/ (answer = "open" /\ bond.pending > 0)]

\* An unknown state consumes the retry and sends nothing.  A bond that is still
\* on its way is one the check cannot see.
BeforeRetry ==
    /\ bond.step = "sleeping"
    /\ \E answer \in Checked :
          bond' = CASE answer = "finalized" -> [bond EXCEPT !.step = "true"]
                    [] answer = "open" -> [bond EXCEPT !.step = "submit", !.attempt = @ + 1,
                                                     !.late = @ \/ bond.pending > 0]
                    [] answer = "unknown" /\ bond.attempt + 1 < SubmitRetries ->
                          [bond EXCEPT !.attempt = @ + 1]
                    [] OTHER -> GivesUp(bond.attempt + 2)

SubmitNext == BondPosted \/ Submit \/ CheckAfterFailure \/ BeforeRetry

SubmitSpec == SubmitInit /\ [][SubmitNext]_bond

-----------------------------------------------------------------------------
\* A bond is posted twice only if one was still on its way when every check
\* between the two submissions looked.
NoBondTwice == bond.posted + bond.pending > 1 => bond.late

\* The answer is true only when a bond is posted; and giving up with the whole
\* retry budget spent is alerted.
AnswerIsTrue ==
    /\ bond.step = "true" => bond.posted > 0
    /\ bond.step = "false" /\ bond.attempt = SubmitRetries => bond.alerted

-----------------------------------------------------------------------------
(***************************************************************************)
(* The resolver of a market, which rebuilds and retries its transaction.   *)
(* Transactions wait in the network, land late or never; answers are lost; *)
(* somebody else may decide the market.                                    *)
(***************************************************************************)

CONSTANTS
    Resolvers,       \* calls of resolveMarketOnChain for one market, on one account
    MaxRetries,      \* attempts of a resolver
    MaxRebuilds,     \* transactions an attempt builds
    SendBound        \* bound: transactions sent

VARIABLES
    chain,      \* who decided the market, and the account's sequence number
    inflight,   \* transactions waiting in the network
    failed,     \* hashes of transactions that failed on chain
    sent,       \* transactions sent so far; their hashes are 1 .. sent
    resolver    \* the resolving calls

resolverVars == <<chain, inflight, failed, sent, resolver>>

Open == 0
Others == SendBound + 1     \* decided by somebody else's transaction

ResolverInit ==
    /\ chain = [decidedBy |-> Open, sequence |-> 0]
    /\ inflight = {} /\ failed = {} /\ sent = 0
    /\ resolver = [p \in Resolvers |-> [step |-> "check", attempt |-> 1, rebuild |-> 1, sequence |-> 0,
                                        hash |-> Open, recorded |-> Open, recovered |-> FALSE]]

-----------------------------------------------------------------------------
(* The network *)

TxApplied(t) ==
    /\ t.sequence = chain.sequence + 1
    /\ chain' = [decidedBy |-> IF chain.decidedBy = Open THEN t.hash ELSE chain.decidedBy,
                 sequence |-> t.sequence]
    /\ failed' = IF chain.decidedBy = Open THEN failed ELSE failed \union {t.hash}
    /\ inflight' = inflight \ {t}
    /\ UNCHANGED <<sent, resolver>>

TxDropped(t) ==
    /\ inflight' = inflight \ {t}
    /\ UNCHANGED <<chain, failed, sent, resolver>>

OthersDecide ==
    /\ chain.decidedBy = Open
    /\ chain' = [chain EXCEPT !.decidedBy = Others]
    /\ UNCHANGED <<inflight, failed, sent, resolver>>

-----------------------------------------------------------------------------
(* resolveMarketOnChain and the Stellar submitter *)

Steps(p, r) == resolver' = [resolver EXCEPT ![p] = r]

IsAlreadyResolved(p) ==
    /\ resolver[p].step = "check"
    /\ Steps(p, [resolver[p] EXCEPT !.step = IF chain.decidedBy # Open THEN "done" ELSE "build"])
    /\ UNCHANGED <<chain, inflight, failed, sent>>

\* An attempt that failed: what may have landed is looked up before it is repeated.
Fails(r, kind) ==
    CASE kind = "ambiguous" -> [r EXCEPT !.step = "recheck"]
      [] kind \in {"expired", "sequence"} /\ r.rebuild < MaxRebuilds ->
            [r EXCEPT !.step = "build", !.rebuild = @ + 1]
      [] OTHER -> [r EXCEPT !.step = "backoff"]

GetAccount(p) ==
    /\ resolver[p].step = "build"
    /\ Steps(p, [resolver[p] EXCEPT !.step = "send", !.sequence = chain.sequence + 1, !.hash = Open])
    /\ UNCHANGED <<chain, inflight, failed, sent>>

\* The simulation of a decided market fails; otherwise the network answers.
PrepareFails(p) ==
    /\ resolver[p].step = "send" /\ chain.decidedBy # Open
    /\ Steps(p, Fails(resolver[p], "rejected"))
    /\ UNCHANGED <<chain, inflight, failed, sent>>

SendTransaction(p) ==
    /\ resolver[p].step = "send" /\ chain.decidedBy = Open /\ sent < SendBound
    /\ sent' = sent + 1
    /\ LET stale == resolver[p].sequence <= chain.sequence
       IN  \/ stale /\ Steps(p, Fails(resolver[p], "sequence")) /\ UNCHANGED inflight
           \/ /\ ~stale
              /\ inflight' = inflight \union {[hash |-> sent + 1, sequence |-> resolver[p].sequence]}
              /\ \/ Steps(p, [resolver[p] EXCEPT !.step = "poll", !.hash = sent + 1])
                 \/ Steps(p, Fails(resolver[p], "rejected"))      \* the answer was lost
           \/ /\ \E kind \in {"ambiguous", "rejected"} : Steps(p, Fails(resolver[p], kind))
              /\ UNCHANGED inflight
    /\ UNCHANGED <<chain, failed>>

Confirmed(p, r) == Steps(p, [r EXCEPT !.step = "done", !.recorded = r.hash])

PollUntilTerminal_AnyStatus(p) ==
    /\ resolver[p].step = "poll"
    /\ Confirmed(p, resolver[p])
    /\ UNCHANGED <<chain, inflight, failed, sent>>

\* A transaction that is not found until the polls run out may still land.
PollUntilTerminal(p) ==
    /\ resolver[p].step = "poll"
    /\ LET r == resolver[p]
       IN  CASE chain.decidedBy = r.hash -> Confirmed(p, r)
             [] r.hash \in failed -> \E kind \in {"expired", "sequence", "rejected"} : Steps(p, Fails(r, kind))
             [] OTHER -> Steps(p, Fails(r, "ambiguous"))
    /\ UNCHANGED <<chain, inflight, failed, sent>>

NextAttempt(p) ==
    Steps(p, IF resolver[p].attempt < MaxRetries
             THEN [resolver[p] EXCEPT !.step = "build", !.attempt = @ + 1, !.rebuild = 1]
             ELSE [resolver[p] EXCEPT !.step = "threw"])

Backoff(p) ==
    /\ resolver[p].step = "backoff"
    /\ NextAttempt(p)
    /\ UNCHANGED <<chain, inflight, failed, sent>>

RecheckResolved_Assumed(p) ==
    /\ resolver[p].step = "recheck"
    /\ Steps(p, [resolver[p] EXCEPT !.step = "done", !.recorded = resolver[p].hash, !.recovered = TRUE])
    /\ UNCHANGED <<chain, inflight, failed, sent>>

\* The market is decided: with a hash the call takes the decision for its own.
\* The lookup itself may throw, which ends the call.
RecheckResolved(p) ==
    /\ resolver[p].step = "recheck"
    /\ \/ IF chain.decidedBy # Open
          THEN Steps(p, [resolver[p] EXCEPT !.step = "done", !.recorded = resolver[p].hash, !.recovered = TRUE])
          ELSE NextAttempt(p)
       \/ Steps(p, [resolver[p] EXCEPT !.step = "threw"])
    /\ UNCHANGED <<chain, inflight, failed, sent>>

-----------------------------------------------------------------------------
ResolverStep(p) ==
    \/ IsAlreadyResolved(p) \/ GetAccount(p) \/ PrepareFails(p) \/ SendTransaction(p)
    \/ PollUntilTerminal(p) \/ Backoff(p) \/ RecheckResolved(p)

ResolverNext ==
    \/ \E t \in inflight : TxApplied(t) \/ TxDropped(t)
    \/ OthersDecide
    \/ \E p \in Resolvers : ResolverStep(p)

ResolverSpec == ResolverInit /\ [][ResolverNext]_resolverVars

-----------------------------------------------------------------------------
\* What is recorded was decided: a confirmed hash is the one that decided the
\* market, and a recovered one stands for a market that is decided.
RecordedIsDecided ==
    \A p \in Resolvers :
        LET r == resolver[p]
        IN  r.recorded # Open =>
                IF r.recovered THEN chain.decidedBy # Open ELSE chain.decidedBy = r.recorded

\* Two calls on one account, each rebuilding and retrying, never record two
\* different confirmed transactions, however late those of earlier attempts land.
OneConfirmedTransaction ==
    \A p, q \in Resolvers :
        (/\ resolver[p].recorded # Open /\ ~resolver[p].recovered
         /\ resolver[q].recorded # Open /\ ~resolver[q].recovered) => p = q
=============================================================================
