---------------------------- MODULE OracleIntake ----------------------------
(***************************************************************************)
(* POST /oracle/submit of backend/src/api/oracle.ts, with its tables in    *)
(* db/oracle.ts: the checks and writes of one submission are separate      *)
(* statements, requests overlap and are repeated, and the clean-ups run on *)
(* the traffic.  A body is what a provider signed: its market, nonce and   *)
(* time stamp, of which the last two are optional.                         *)
(***************************************************************************)
EXTENDS Integers, FiniteSets, FiniteSetsExt

CONSTANTS Bodies,         \* [market, nonce, stamped]: the bodies that are signed
          Keys,           \* idempotency keys, besides NoKey
          Handlers,       \* requests in progress
          StampWindow,    \* ORACLE_TIMESTAMP_WINDOW_SEC
          NonceRetention, \* ORACLE_NONCE_RETENTION_SEC
          KeyRetention    \* ORACLE_IDEMPOTENCY_RETENTION_SEC

VARIABLES rows,     \* oracle_submissions: the bodies that have a row
          keyed,    \* idempotency_keys: key -> the body and age of its record
          stampAge, \* body -> ticks since its time stamp; it is signed later or sooner
          request,  \* handler -> its stage, body, key and answer
          times     \* body -> how often it was accepted

intakeVars == <<rows, keyed, stampAge, request, times>>

NoKey == 0
NoNonce == 0
NoBody == [market |-> 0, nonce |-> NoNonce, stamped |-> FALSE]
Over(body, key, answer) == [stage |-> "idle", body |-> body, key |-> key, answer |-> answer]
MaxAge == NonceRetention + 1

IntakeInit ==
    /\ rows = {} /\ times = [b \in Bodies |-> 0]
    /\ stampAge \in {age \in [Bodies -> {MaxAge, -StampWindow - 1, -StampWindow - NonceRetention - 1}] :
                        \A b \in Bodies : b.stamped <=> age[b] # MaxAge}
    /\ keyed = [k \in Keys |-> [body |-> NoBody, age |-> 0]]
    /\ request = [h \in Handlers |-> Over(NoBody, NoKey, "none")]

Answer(h, with) ==
    request' = [request EXCEPT ![h] = Over(@.body, @.key, with)]
Goto(h, stage) == request' = [request EXCEPT ![h].stage = stage]
At(h, stage) == request[h].stage = stage

-----------------------------------------------------------------------------
InWindow(body) == body.stamped => stampAge[body] \in -StampWindow .. StampWindow

\* Key, body, binding, signature and bond are checked without a statement, and
\* the time stamp against the time of arrival.
Receive(h, body, key) ==
    /\ At(h, "idle")
    /\ request' = [request EXCEPT ![h] =
                     IF InWindow(body)
                     THEN [stage |-> "nonce", body |-> body, key |-> key, answer |-> "none"]
                     ELSE Over(body, key, "refused")]
    /\ UNCHANGED <<rows, keyed, stampAge, times>>

\* hasNonceBeenUsed
CheckNonce(h) ==
    /\ At(h, "nonce")
    /\ IF request[h].body.nonce # NoNonce /\ \E b \in rows : b.nonce = request[h].body.nonce
       THEN Answer(h, "nonce used")
       ELSE Goto(h, IF request[h].key = NoKey THEN "insert" ELSE "key")
    /\ UNCHANGED <<rows, keyed, stampAge, times>>

\* A slip: a record answers whatever the payload is.
KeyVerdict_Blind(record, body) == "accepted"
\* The payload hash decides between the stored response and a conflict.
KeyVerdict(record, body) == IF record.body = body THEN "accepted" ELSE "conflict"
CheckKey(h) ==
    /\ At(h, "key")
    /\ LET record == keyed[request[h].key]
       IN IF record.body # NoBody THEN Answer(h, KeyVerdict(record, request[h].body))
          ELSE Goto(h, "insert")
    /\ UNCHANGED <<rows, keyed, stampAge, times>>

\* recordOracleSubmissionWithCount: one transaction, a market has one row.
Insert(h) ==
    /\ At(h, "insert")
    /\ LET body == request[h].body
       IN IF \E b \in rows : b.market = body.market
          THEN Answer(h, "conflict") /\ UNCHANGED <<rows, times>>
          ELSE /\ rows' = rows \cup {body} /\ times' = [times EXCEPT ![body] = @ + 1]
               /\ IF request[h].key = NoKey THEN Answer(h, "accepted") ELSE Goto(h, "store")
    /\ UNCHANGED <<keyed, stampAge>>

\* storeIdempotencyRecord: ON CONFLICT DO NOTHING.
StoreKey(h) ==
    /\ At(h, "store")
    /\ keyed' = [keyed EXCEPT ![request[h].key] =
                   IF @.body = NoBody THEN [body |-> request[h].body, age |-> 0] ELSE @]
    /\ Answer(h, "accepted")
    /\ UNCHANGED <<rows, stampAge, times>>

\* A statement fails, or the process stops, between any two of these.
Break(h) == /\ ~At(h, "idle") /\ Answer(h, "error")
            /\ UNCHANGED <<rows, keyed, stampAge, times>>

\* A slip: rows go once their time stamp leaves the acceptance window.
Expired_Early(body) == body.nonce # NoNonce /\ body.stamped /\ stampAge[body] >= StampWindow
\* cleanupExpiredNonces: the rows themselves, not only their nonces.
Expired(body) == body.nonce # NoNonce /\ body.stamped /\ stampAge[body] > NonceRetention
CleanNonces == /\ rows' = {b \in rows : ~Expired(b)} /\ rows' # rows
               /\ UNCHANGED <<keyed, stampAge, request, times>>
CleanKeys ==
    /\ \E k \in Keys : /\ keyed[k].body # NoBody /\ keyed[k].age > KeyRetention
                       /\ keyed' = [keyed EXCEPT ![k] = [body |-> NoBody, age |-> 0]]
    /\ UNCHANGED <<rows, stampAge, request, times>>

\* A request lasts less than a tick beyond the one it arrived in.
IntakeTick ==
    /\ \A h \in Handlers : At(h, "idle")
    /\ stampAge' = [b \in Bodies |-> IF stampAge[b] < MaxAge THEN stampAge[b] + 1 ELSE MaxAge]
    /\ keyed' = [k \in Keys |-> IF keyed[k].body # NoBody /\ keyed[k].age <= KeyRetention
                                THEN [keyed[k] EXCEPT !.age = @ + 1] ELSE keyed[k]]
    /\ UNCHANGED <<rows, request, times>>

IntakeNext ==
    \/ \E h \in Handlers :
          \/ \E body \in Bodies, key \in Keys \cup {NoKey} : Receive(h, body, key)
          \/ CheckNonce(h) \/ CheckKey(h) \/ Insert(h) \/ StoreKey(h) \/ Break(h)
    \/ CleanNonces \/ CleanKeys \/ IntakeTick

IntakeSpec == IntakeInit /\ [][IntakeNext]_intakeVars

-----------------------------------------------------------------------------
\* What a provider signed once is accepted once, however often, how late and
\* with which key it is sent again.
ReplaysAreRefused == \A b \in Bodies : times[b] <= 1

\* A response that says accepted is about the body of its own request.
AcceptedWasRecorded ==
    \A h \in Handlers : request[h].answer = "accepted" => times[request[h].body] > 0

-----------------------------------------------------------------------------
(***************************************************************************)
(* backend/src/lib/oracleAuthFailures.ts: the rolling count of rejected    *)
(* oracle requests, the origins they came from, and the alert a spike      *)
(* raises.  A tick is one bucket of the ring; buckets are kept by age, and *)
(* the slot of age Window is the one the current tick reuses.              *)
(***************************************************************************)

CONSTANTS Origins,
          Window,          \* windowMs
          MinFailures,
          DistinctOrigins, \* distributedSourceThreshold
          Cooldown,        \* cooldownMs
          MaxTracked       \* maxTrackedSources

VARIABLES guesses,  \* age -> invalid_key failures of the bucket, up to MinFailures
          others,   \* age -> failures of the other reasons
          seen,     \* origin -> ticks since it failed, or Unseen
          overflow, \* sourceOverflow, which nothing clears
          pruned,   \* whether this tick's sweep of the origins is done
          quiet,    \* ticks since lastAlertAt, up to Cooldown
          pattern,  \* lastAlertPattern
          alerted,  \* pattern -> ticks since its last alert, up to Cooldown
          episode   \* whether the spike was alerted since the last calm

authVars == <<guesses, others, seen, overflow, pruned, quiet, pattern, alerted, episode>>

Ages == 0 .. Window
Unseen == -1
Patterns == {"misconfigured_provider", "distributed_guessing"}

AuthInit ==
    /\ guesses = [a \in Ages |-> 0] /\ others = [a \in Ages |-> 0]
    /\ seen = [o \in Origins |-> Unseen] /\ overflow = FALSE /\ pruned = FALSE
    /\ quiet = Cooldown /\ pattern = "none"
    /\ alerted = [p \in Patterns |-> Cooldown] /\ episode = FALSE

\* bucketFor: the slot is cleared when its second is not the current one.
Touched(counts, n) ==
    [a \in Ages |-> CASE a = 0 -> IF counts[0] + n > MinFailures THEN MinFailures ELSE counts[0] + n
                      [] a = Window -> 0
                      [] OTHER -> counts[a]]
Total(counts) == MapThenSumSet(LAMBDA a : counts[a], Ages)

\* A slip: origins are kept while the process lives.
Swept_Never == seen
\* pruneSources and trackSource
Swept == IF pruned THEN seen
         ELSE [o \in Origins |-> IF seen[o] > Window THEN Unseen ELSE seen[o]]
Tracked(known) == {o \in Origins : known[o] # Unseen}
Full(known, o) == known[o] = Unseen /\ Cardinality(Tracked(known)) >= MaxTracked

\* assessOracleAuthFailureSpike
Verdict(guessed, other, known, over) ==
    IF Total(guessed) + Total(other) < MinFailures THEN "none"
    ELSE IF Total(guessed) > 0 /\ (over \/ Cardinality(Tracked(known)) >= DistinctOrigins)
         THEN "distributed_guessing" ELSE "misconfigured_provider"

\* A slip: a changed pattern waits for the cool-down like the same one, which
\* every failure of the spike restarts.
ShouldAlert_Cooled(verdict) == quiet >= Cooldown /\ pattern \in {"none", verdict}
ShouldAlert(verdict) == pattern # verdict \/ quiet >= Cooldown

\* recordOracleAuthFailure
Fail(o, guessed) ==
    /\ guesses' = Touched(guesses, IF guessed THEN 1 ELSE 0)
    /\ others' = Touched(others, IF guessed THEN 0 ELSE 1)
    /\ pruned' = TRUE
    /\ overflow' = (overflow \/ Full(Swept, o))
    /\ seen' = IF Full(Swept, o) THEN Swept ELSE [Swept EXCEPT ![o] = 0]
    /\ LET verdict == Verdict(guesses', others', seen', overflow')
       IN IF verdict = "none" THEN UNCHANGED <<quiet, pattern, alerted, episode>>
          ELSE /\ pattern' = verdict /\ quiet' = 0
               /\ IF ShouldAlert(verdict)
                  THEN alerted' = [alerted EXCEPT ![verdict] = 0] /\ episode' = TRUE
                  ELSE UNCHANGED <<alerted, episode>>

Older(counts) == [a \in Ages |-> IF a = 0 THEN 0 ELSE counts[a - 1]]
Later(n, top) == IF n < top THEN n + 1 ELSE top
AuthTick ==
    /\ guesses' = Older(guesses) /\ others' = Older(others) /\ pruned' = FALSE
    /\ seen' = [o \in Origins |-> IF seen[o] = Unseen THEN Unseen ELSE Later(seen[o], Window + 1)]
    /\ quiet' = Later(quiet, Cooldown)
    /\ alerted' = [p \in Patterns |-> Later(alerted[p], Cooldown)]
    /\ episode' = (episode /\ quiet' < Cooldown)
    /\ UNCHANGED <<overflow, pattern>>

AuthNext == AuthTick \/ \E o \in Origins, guessed \in BOOLEAN : Fail(o, guessed)

AuthSpec == AuthInit /\ [][AuthNext]_authVars

-----------------------------------------------------------------------------
\* Whenever failures reach the threshold, the spike they belong to has been
\* alerted, whatever its pattern was before and changes to.
SpikesAreAlerted == quiet = 0 => episode

\* Origins that stopped failing do not make a spike look distributed, as long
\* as there were never more of them than are tracked.
DistributedIsRecent ==
    [][LET p == "distributed_guessing"
        IN alerted'[p] = 0 /\ alerted[p] # 0 /\ ~overflow'
            => Cardinality({o \in Origins : seen'[o] \in Ages}) >= DistinctOrigins]_authVars
=============================================================================
