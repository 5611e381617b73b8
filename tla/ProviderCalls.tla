--------------------------- MODULE ProviderCalls ----------------------------
(***************************************************************************)
(* How the oracle calls a data provider, oracle/src/adapters: concurrent   *)
(* fetchOutcome() calls of one adapter share a response cache              *)
(* (responseCache.ts) whose loads in flight are joined, each load reserves *)
(* a slot of a sliding-window limiter (rateLimiter.ts) and sends its       *)
(* request, again on a transient failure (httpRetry.ts).                   *)
(*                                                                         *)
(* Times are ages in ticks and saturate, so the clock needs no bound.      *)
(***************************************************************************)
EXTENDS Integers, FiniteSets, Sequences, SequencesExt

CONSTANTS FetchCallers,  \* concurrent fetchOutcome() calls
          QueryKeys,     \* marketCacheKey: the provider parameters of a market
          CacheTtl,      \* ttlMs of the cache
          Quota,         \* limit of the provider
          QuotaWindow,   \* windowMs of the limiter
          HttpRetries    \* attempts after the first

\* A time to live of 0 turns the cache off; the limiter refuses a quota of 0.
ASSUME CallConstants ==
    /\ CacheTtl \in Nat \ {0} /\ Quota \in Nat \ {0} /\ QuotaWindow \in Nat \ {0}
    /\ HttpRetries \in Nat /\ IsFiniteSet(QueryKeys)

VARIABLES cached,    \* entries: per key absent, loading or a value and its age
          loadOf,    \* per key, the load in flight: at "queued" or "fetching", with its retries
          slots,     \* ProviderState.requests: the ages of the reservations
          admitted,  \* history: slots reserved in the last 0, 1, .. QuotaWindow ticks
          sent,      \* history: requests sent in the last 0, 1, .. QuotaWindow ticks
          caller     \* per caller: idle, waiting for a key, or what it was given

callVars == <<cached, loadOf, slots, admitted, sent, caller>>

NoEntry == [at |-> "absent", age |-> 0]
NoLoad == [at |-> "none", tries |-> 0]
IdleCaller == [at |-> "idle", key |-> "none", age |-> 0]

CallsInit ==
    /\ cached = [k \in QueryKeys |-> NoEntry]
    /\ loadOf = [k \in QueryKeys |-> NoLoad]
    /\ slots = <<>>
    /\ admitted = [ticks \in 0 .. QuotaWindow |-> 0] /\ sent = admitted
    /\ caller = [c \in FetchCallers |-> IdleCaller]

\* A slip: an entry that expires now is still served.
Live_AtExpiry(k) == \/ cached[k].at = "loading"
                    \/ cached[k].at = "value" /\ cached[k].age <= CacheTtl

\* expiresAt > now: a load in flight never expires.
Live(k) == \/ cached[k].at = "loading"
           \/ cached[k].at = "value" /\ cached[k].age < CacheTtl

\* A slip: a load in flight is no entry yet.
GetOrSet_NoSharing(c, k) ==
    /\ caller[c].at = "idle"
    /\ loadOf' = [loadOf EXCEPT ![k] = [at |-> "queued", tries |-> 0]]
    /\ cached' = [cached EXCEPT ![k] = [at |-> "loading", age |-> 0]]
    /\ caller' = [caller EXCEPT ![c] = [at |-> "waiting", key |-> k, age |-> 0]]
    /\ UNCHANGED <<slots, admitted, sent>>

\* getOrSet: join the load or take the value of a live entry, or load.
GetOrSet(c, k) ==
    /\ caller[c].at = "idle"
    /\ IF Live(k)
       THEN /\ caller' = [caller EXCEPT ![c] =
                 IF cached[k].at = "loading" THEN [at |-> "waiting", key |-> k, age |-> 0]
                 ELSE [at |-> "served", key |-> k, age |-> cached[k].age]]
            /\ UNCHANGED <<cached, loadOf>>
       ELSE /\ loadOf' = [loadOf EXCEPT ![k] = [at |-> "queued", tries |-> 0]]
            /\ cached' = [cached EXCEPT ![k] = [at |-> "loading", age |-> 0]]
            /\ caller' = [caller EXCEPT ![c] = [at |-> "waiting", key |-> k, age |-> 0]]
    /\ UNCHANGED <<slots, admitted, sent>>

\* Ages are listed oldest first: those from the first one below window on.
Below(window, ages) ==
    LET first == CHOOSE i \in 1 .. Len(ages) + 1 :
                     /\ \A j \in 1 .. i - 1 : ages[j] >= window
                     /\ i <= Len(ages) => ages[i] < window
    IN  SubSeq(ages, first, Len(ages))

\* A slip: a reservation is forgotten a tick early.
Pruned_Early(ages) == Below(QuotaWindow - 1, ages)

\* prune: what is as old as the window is cut off the front.
Pruned(ages) == Below(QuotaWindow, ages)

\* One more in every span of ticks that ends now, and the same counts a tick later.
OneMore(counts) == [ticks \in 0 .. QuotaWindow |-> IF ticks = 0 THEN 0 ELSE counts[ticks] + 1]
ATickLater(counts) == [ticks \in 0 .. QuotaWindow |-> IF ticks = 0 THEN 0 ELSE counts[ticks - 1]]

\* acquire: a queued load takes a slot as soon as one is free, and sends its request.
Acquire(k) ==
    /\ loadOf[k].at = "queued"
    /\ Len(Pruned(slots)) < Quota
    /\ slots' = Append(Pruned(slots), 0)
    /\ admitted' = OneMore(admitted) /\ sent' = OneMore(sent)
    /\ loadOf' = [loadOf EXCEPT ![k].at = "fetching"]
    /\ UNCHANGED <<cached, caller>>

\* The promise of the load settles: every caller that waits for it is answered.
Answered(k, place) ==
    [c \in FetchCallers |-> IF caller[c].at = "waiting" /\ caller[c].key = k
                            THEN [caller[c] EXCEPT !.at = place] ELSE caller[c]]

\* A slip: the loaded value is neither kept nor handed out.
LoadDone_NoEntry(k) ==
    /\ loadOf[k].at = "fetching"
    /\ loadOf' = [loadOf EXCEPT ![k] = NoLoad]
    /\ cached' = [cached EXCEPT ![k] = NoEntry]
    /\ UNCHANGED <<slots, admitted, sent, caller>>

\* The response was decoded: it is kept for a time to live from now on.
LoadDone(k) ==
    /\ loadOf[k].at = "fetching"
    /\ loadOf' = [loadOf EXCEPT ![k] = NoLoad]
    /\ cached' = [cached EXCEPT ![k] = [at |-> "value", age |-> 0]]
    /\ caller' = Answered(k, "served")
    /\ UNCHANGED <<slots, admitted, sent>>

\* A transient failure with attempts left: the request is sent again, without
\* another slot.
RequestAgain(k) ==
    /\ loadOf[k].at = "fetching"
    /\ loadOf[k].tries < HttpRetries
    /\ loadOf' = [loadOf EXCEPT ![k].tries = @ + 1]
    /\ sent' = OneMore(sent)
    /\ UNCHANGED <<cached, slots, admitted, caller>>

\* A slip: the rejected promise stays in the cache.
LoadFails_Kept(k) ==
    /\ loadOf[k].at = "fetching"
    /\ loadOf' = [loadOf EXCEPT ![k] = NoLoad]
    /\ caller' = Answered(k, "failed")
    /\ UNCHANGED <<slots, admitted, sent, cached>>

\* The load rejects, at once or after its last attempt: nothing is kept.
LoadFails(k) ==
    /\ loadOf[k].at = "fetching"
    /\ loadOf' = [loadOf EXCEPT ![k] = NoLoad]
    /\ cached' = [cached EXCEPT ![k] = NoEntry]
    /\ caller' = Answered(k, "failed")
    /\ UNCHANGED <<slots, admitted, sent>>

\* The caller uses its answer, and may call again.
Leave(c) ==
    /\ caller[c].at \in {"served", "failed"}
    /\ caller' = [caller EXCEPT ![c] = IdleCaller]
    /\ UNCHANGED <<cached, loadOf, slots, admitted, sent>>

Older(age, most) == IF age < most THEN age + 1 ELSE age

CallTick ==
    /\ cached' = [k \in QueryKeys |-> IF cached[k].at = "value"
                    THEN [cached[k] EXCEPT !.age = Older(@, CacheTtl)] ELSE cached[k]]
    /\ slots' = [i \in DOMAIN slots |-> Older(slots[i], QuotaWindow)]
    /\ admitted' = ATickLater(admitted) /\ sent' = ATickLater(sent)
    /\ UNCHANGED <<loadOf, caller>>

CallsNext ==
    \/ CallTick
    \/ \E c \in FetchCallers : Leave(c) \/ \E k \in QueryKeys : GetOrSet(c, k)
    \/ \E k \in QueryKeys : \/ Acquire(k) \/ LoadDone(k) \/ RequestAgain(k) \/ LoadFails(k)

\* Time passes, a slot that is free is taken by the sleeper whose timer fires,
\* and every attempt is bounded by its timeout.
CallsFairness ==
    /\ WF_callVars(CallTick)
    /\ \A k \in QueryKeys : /\ SF_callVars(Acquire(k))
                            /\ WF_callVars(LoadDone(k) \/ LoadFails(k))

CallsSpec == CallsInit /\ [][CallsNext]_callVars /\ CallsFairness

-----------------------------------------------------------------------------
\* "acquire waits until the oldest request leaves the window rather than allowing
\* callers to exceed the provider quota": so many loads are let through in any
\* window, however they queue, fail and are begun again.  Their requests are not:
\* a load sends its request again without asking, so that a window sees those of
\* its loads, and those sent again by one load of each query that began before it.
AdmissionsKept == admitted[QuotaWindow] <= Quota
RequestsAreBounded ==
    sent[QuotaWindow] <= (1 + HttpRetries) * Quota + HttpRetries * Cardinality(QueryKeys)

\* A caller that waits has a load in flight to wait for, and an entry says it
\* is loading exactly while it is: no failure strands a caller or an entry.
WaitersHaveALoad ==
    /\ \A k \in QueryKeys : (cached[k].at = "loading") <=> (loadOf[k].at # "none")
    /\ \A c \in FetchCallers : caller[c].at = "waiting" => loadOf[caller[c].key].at # "none"

\* A value handed out is younger than the time to live.
ServedIsRecent == \A c \in FetchCallers : caller[c].at = "served" => caller[c].age < CacheTtl

\* A load that is under way is the only one of its key until it settles.
LoadsAreShared ==
    [][\A k \in QueryKeys :
         loadOf[k].at = "fetching" => loadOf'[k].at # "queued"]_callVars

\* Every call is answered.
CallsAreAnswered == \A c \in FetchCallers : []<>(caller[c].at # "waiting")

-----------------------------------------------------------------------------
(***************************************************************************)
(* The circuit breaker of one data adapter,                                *)
(* oracle/src/adapters/circuitBreaker.ts: concurrent calls ask             *)
(* shouldSkip() and report their outcome with recordSuccess() or           *)
(* recordFailure(); every change is saved, and a restart restores what was *)
(* saved.  No caller in src/ consults the breaker yet; calls behave as its *)
(* tests and comments describe.  Ages are in ticks and saturate.           *)
(***************************************************************************)

CONSTANTS MinRequests,   \* CONFIG.MIN_REQUESTS
          ProbeInterval, \* CONFIG.PROBE_INTERVAL_MS, in ticks
          MaxCount,      \* bound of the lifetime counters
          MaxCalls       \* bound of the calls in flight

ASSUME BreakerConstants == MinRequests \in Nat /\ ProbeInterval \in Nat

VARIABLES breaker,    \* BreakerState in memory; probed: the age of lastProbeTime
          stored,     \* the last saved BreakerState
          callsOut,   \* calls that were let through and have not ended
          providerUp, \* whether a call that ends now succeeds
          evidence,   \* history: outcomes recorded since the breaker last closed
          sinceProbe  \* history: the age of the last call let through while open

breakerVars == <<breaker, stored, callsOut, providerUp, evidence, sinceProbe>>

LaterProbe(age) == IF age <= ProbeInterval THEN age + 1 ELSE age
NewState == [failures |-> 0, successes |-> 0, isOpen |-> FALSE, probed |-> 0]

BreakerInit ==
    /\ breaker = NewState /\ stored = NewState
    /\ callsOut = 0 /\ providerUp = TRUE
    /\ evidence = 0 /\ sinceProbe = ProbeInterval + 1

\* persist
Save(state) == breaker' = state /\ stored' = state

\* At least 80% of the outcomes are failures.
MostlyFailing(state) == state.failures * 5 >= (state.failures + state.successes) * 4

\* shouldSkip() is false for a closed breaker.
CallThrough ==
    /\ callsOut < MaxCalls /\ ~breaker.isOpen
    /\ callsOut' = callsOut + 1
    /\ UNCHANGED <<breaker, stored, providerUp, evidence, sinceProbe>>

\* A slip: the probe time is kept in memory only.
Probe_Unsaved ==
    /\ callsOut < MaxCalls
    /\ breaker.isOpen /\ breaker.probed > ProbeInterval
    /\ breaker' = [breaker EXCEPT !.probed = 0]
    /\ callsOut' = callsOut + 1 /\ sinceProbe' = 0
    /\ UNCHANGED <<stored, providerUp, evidence>>

\* An open breaker lets one call through per interval.
Probe ==
    /\ callsOut < MaxCalls
    /\ breaker.isOpen /\ breaker.probed > ProbeInterval
    /\ Save([breaker EXCEPT !.probed = 0])
    /\ callsOut' = callsOut + 1 /\ sinceProbe' = 0
    /\ UNCHANGED <<providerUp, evidence>>

\* A slip: closing keeps the failures that opened the breaker.
RecordSuccess_KeepFailures ==
    /\ callsOut > 0 /\ providerUp
    /\ breaker.isOpen \/ breaker.successes < MaxCount
    /\ Save([breaker EXCEPT !.isOpen = FALSE,
                            !.successes = IF breaker.isOpen THEN 1 ELSE @ + 1])
    /\ evidence' = IF breaker.isOpen THEN 0 ELSE evidence + 1
    /\ callsOut' = callsOut - 1
    /\ UNCHANGED <<providerUp, sinceProbe>>

\* A slip: only failures change whether the breaker is open.
RecordSuccess_NoClose ==
    /\ callsOut > 0 /\ providerUp
    /\ breaker.successes < MaxCount
    /\ Save([breaker EXCEPT !.successes = @ + 1])
    /\ evidence' = evidence + 1
    /\ callsOut' = callsOut - 1
    /\ UNCHANGED <<providerUp, sinceProbe>>

\* Any success closes the breaker, also that of a call from before it opened.
RecordSuccess ==
    /\ callsOut > 0 /\ providerUp
    /\ IF breaker.isOpen
       THEN /\ Save([breaker EXCEPT !.isOpen = FALSE, !.failures = 0, !.successes = 1])
            /\ evidence' = 0
       ELSE /\ breaker.successes < MaxCount
            /\ Save([breaker EXCEPT !.successes = @ + 1])
            /\ evidence' = evidence + 1
    /\ callsOut' = callsOut - 1
    /\ UNCHANGED <<providerUp, sinceProbe>>

\* A slip: a breaker that opens is saved by the next outcome only.
RecordFailure_SaveFirst ==
    /\ callsOut > 0 /\ ~providerUp /\ breaker.failures < MaxCount
    /\ LET counted == [breaker EXCEPT !.failures = @ + 1]
           enough == counted.failures + counted.successes >= MinRequests IN
       /\ stored' = counted
       /\ breaker' = [counted EXCEPT !.isOpen = @ \/ (enough /\ MostlyFailing(counted))]
    /\ callsOut' = callsOut - 1 /\ evidence' = evidence + 1
    /\ UNCHANGED <<providerUp, sinceProbe>>

\* The counters cover all outcomes since the breaker last closed.
RecordFailure ==
    /\ callsOut > 0 /\ ~providerUp /\ breaker.failures < MaxCount
    /\ LET counted == [breaker EXCEPT !.failures = @ + 1]
           enough == counted.failures + counted.successes >= MinRequests IN
       Save([counted EXCEPT !.isOpen = @ \/ (enough /\ MostlyFailing(counted))])
    /\ callsOut' = callsOut - 1 /\ evidence' = evidence + 1
    /\ UNCHANGED <<providerUp, sinceProbe>>

\* The process stops, and starts with configureCircuitBreakerPersistence().
Restart ==
    /\ breaker' = stored /\ callsOut' = 0
    /\ UNCHANGED <<stored, providerUp, evidence, sinceProbe>>

\* lastProbeTime is a wall-clock time, so a saved one ages too.
ClockTick ==
    /\ breaker' = [breaker EXCEPT !.probed = LaterProbe(@)]
    /\ stored' = [stored EXCEPT !.probed = LaterProbe(@)]
    /\ sinceProbe' = LaterProbe(sinceProbe)
    /\ UNCHANGED <<callsOut, providerUp, evidence>>

ProviderChanges == /\ providerUp' = ~providerUp
                   /\ UNCHANGED <<breaker, stored, callsOut, evidence, sinceProbe>>

BreakerNext == \/ CallThrough \/ Probe \/ RecordSuccess \/ RecordFailure
               \/ Restart \/ ClockTick \/ ProviderChanges

\* Markets keep being polled, calls end, and time passes.
BreakerFairness ==
    /\ WF_breakerVars(CallThrough \/ Probe)
    /\ WF_breakerVars(RecordSuccess)
    /\ WF_breakerVars(ClockTick)

BreakerSpec == BreakerInit /\ [][BreakerNext]_breakerVars /\ BreakerFairness

-----------------------------------------------------------------------------
\* A provider that is failing is probed no more than once per interval,
\* whatever calls are late and however often the oracle restarts.
ProbesAreSpaced ==
    [][callsOut' > callsOut /\ breaker.isOpen => sinceProbe > ProbeInterval]_breakerVars

\* A restart does not close an open breaker (nor open a closed one).
RestartKeepsBreaker == stored.isOpen = breaker.isOpen

\* Once closed, the breaker opens again only on as many new outcomes as the
\* first opening needs, the success that closed it included.
OpensOnNewEvidence ==
    [][~breaker.isOpen /\ breaker'.isOpen => evidence' + 1 >= MinRequests]_breakerVars

\* While it is open the breaker lets single probes through, and it opens again on
\* new failures only.
BreakerKeepsToEvidence == ProbesAreSpaced /\ OpensOnNewEvidence

\* A provider that has recovered for good is used again for good, as long as
\* the oracle does not keep restarting under its probes.
RecoveredIsUsed ==
    (<>[]providerUp /\ <>[][~Restart]_breakerVars) => <>[](~breaker.isOpen)

\* No window lets more loads through than the quota nor sees more requests than they
\* and the queries under way may send, nobody waits for a load that is gone, no
\* answer is older than the time to live, and a restart finds the breaker as it was.
CallsAreSound ==
    /\ AdmissionsKept /\ RequestsAreBounded
    /\ WaitersHaveALoad /\ ServedIsRecent /\ RestartKeepsBreaker

\* A provider is called no more than it takes: once for all who ask meanwhile, and
\* while it fails by single probes.
ProvidersAreSpared == LoadsAreShared /\ BreakerKeepsToEvidence
=============================================================================
