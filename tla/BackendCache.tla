---------------------------- MODULE BackendCache ----------------------------
(***************************************************************************)
(* The circuit breaker that all callers of the backend's Redis client      *)
(* share, backend/src/cache/circuitBreaker.ts: reads, writes and deletions *)
(* ask canAttempt() and report recordSuccess() or recordFailure() when     *)
(* their command ends.  The SETEX of getOrSet() is sent without asking.    *)
(* Times are in ticks and saturate at the longest backoff.                 *)
(***************************************************************************)
EXTENDS Integers, FiniteSets

CONSTANTS Callers,           \* requests of the one process
          FailureThreshold,  \* options.failureThreshold
          ProbeThreshold,    \* options.halfOpenSuccessThreshold
          ResetTimeout,      \* options.resetTimeoutMs, in ticks
          Multiplier,        \* the multiplier of calculateHalfOpenBackoff
          LongestBackoff     \* the 300 000 ms it is capped at, in ticks

VARIABLES circuit,  \* the breaker; openFor: the age of openedAt
          command,  \* per caller: none, sure, or doubtful if Redis went down under it
          redisUp,
          streak,   \* history: commands that failed since the last success
          heard,    \* history: a command succeeded under the open circuit
          spared    \* history: for how long the circuit has been open

circuitVars == <<circuit, command, redisUp, streak, heard, spared>>

Capped(n, cap) == IF n <= cap THEN n ELSE cap

\* base * multiplier ^ min(failures - 1, 5); without failures it is a fraction.
HalfOpenBackoff(failures) ==
    IF failures = 0 THEN ResetTimeout \div Multiplier
    ELSE Capped(ResetTimeout * Multiplier ^ Capped(failures - 1, 5), LongestBackoff)

Closed == [state |-> "closed", failures |-> 0, openFor |-> 0, probes |-> 0]

CircuitInit == /\ circuit = Closed
               /\ command = [c \in Callers |-> "none"]
               /\ redisUp = TRUE /\ streak = 0 /\ heard = FALSE /\ spared = 0

-----------------------------------------------------------------------------
\* A slip: the time a failed probe re-opened the circuit is not kept.
Failed_StaleOpening(b) ==
    CASE b.state = "half_open" -> [b EXCEPT !.state = "open", !.probes = 0]
      [] b.state = "closed" ->
            LET n == b.failures + 1 IN
            IF n >= FailureThreshold
            THEN [b EXCEPT !.failures = n, !.state = "open", !.openFor = 0]
            ELSE [b EXCEPT !.failures = n]
      [] OTHER -> b

\* recordFailure
Failed(b) ==
    CASE b.state = "half_open" -> [b EXCEPT !.state = "open", !.openFor = 0, !.probes = 0]
      [] b.state = "closed" ->
            LET n == b.failures + 1 IN
            IF n >= FailureThreshold
            THEN [b EXCEPT !.failures = n, !.state = "open", !.openFor = 0]
            ELSE [b EXCEPT !.failures = n]
      [] OTHER -> b

\* A slip: the failures of a closed circuit are counted for good.
Succeeded_KeepFailures(b) ==
    IF b.state = "half_open"
    THEN IF b.probes + 1 >= ProbeThreshold THEN Closed ELSE [b EXCEPT !.probes = @ + 1]
    ELSE b

\* A slip: one success too many is asked for.
Succeeded_OneMore(b) ==
    IF b.state = "half_open"
    THEN IF b.probes + 1 > ProbeThreshold THEN Closed ELSE [b EXCEPT !.probes = @ + 1]
    ELSE [b EXCEPT !.failures = 0]

\* recordSuccess; a late success of an open circuit clears its failures too.
Succeeded(b) ==
    IF b.state = "half_open"
    THEN IF b.probes + 1 >= ProbeThreshold THEN Closed ELSE [b EXCEPT !.probes = @ + 1]
    ELSE [b EXCEPT !.failures = 0]

\* canAttempt: the answer, and the circuit it leaves.
CanAttempt(b) ==
    CASE b.state = "closed" -> TRUE
      [] b.state = "open" -> b.openFor >= HalfOpenBackoff(b.failures)
      [] OTHER -> b.probes < ProbeThreshold
Attempted(b) == IF b.state = "open" THEN [b EXCEPT !.state = "half_open", !.probes = 0] ELSE b

Sent == IF redisUp THEN "sure" ELSE "doubtful"

\* A read, a write of cache.set, or a deletion; a refused one is no step.
Ask(c) == /\ command[c] = "none" /\ CanAttempt(circuit)
          /\ circuit' = Attempted(circuit)
          /\ command' = [command EXCEPT ![c] = Sent]
          /\ UNCHANGED <<redisUp, streak, heard, spared>>

\* getOrSet stores what its loader returned.
StoreUnasked(c) == /\ command[c] = "none"
                   /\ command' = [command EXCEPT ![c] = Sent]
                   /\ UNCHANGED <<circuit, redisUp, streak, heard, spared>>

Succeeds(c) == /\ command[c] # "none" /\ redisUp
               /\ circuit' = Succeeded(circuit)
               /\ command' = [command EXCEPT ![c] = "none"]
               /\ streak' = 0
               /\ heard' = (circuit'.state # "closed" /\ (heard \/ circuit.state = "open"))
               /\ UNCHANGED <<redisUp, spared>>

Fails(c) == /\ command[c] = "doubtful"
            /\ circuit' = Failed(circuit)
            /\ command' = [command EXCEPT ![c] = "none"]
            /\ streak' = Capped(streak + 1, FailureThreshold)
            /\ spared' = IF circuit.state # "open" /\ circuit'.state = "open" THEN 0 ELSE spared
            /\ UNCHANGED <<redisUp, heard>>

RedisFalls == /\ redisUp /\ redisUp' = FALSE
              /\ command' = [c \in Callers |-> IF command[c] = "none" THEN "none" ELSE "doubtful"]
              /\ UNCHANGED <<circuit, streak, heard, spared>>
RedisRises == /\ ~redisUp /\ redisUp' = TRUE
              /\ UNCHANGED <<circuit, command, streak, heard, spared>>

CircuitTick == /\ circuit.state = "open" /\ circuit.openFor < LongestBackoff
               /\ circuit' = [circuit EXCEPT !.openFor = @ + 1]
               /\ spared' = Capped(spared + 1, LongestBackoff)
               /\ UNCHANGED <<command, redisUp, streak, heard>>

CircuitNext == \/ \E c \in Callers : Ask(c) \/ StoreUnasked(c) \/ Succeeds(c) \/ Fails(c)
               \/ RedisFalls \/ RedisRises \/ CircuitTick

\* Requests keep arriving and each of them asks for its read before anything is
\* stored unasked; commands end (three retries at most), time passes.
CircuitFairness ==
    /\ SF_circuitVars(\E c \in Callers : Ask(c))
    /\ \A c \in Callers : WF_circuitVars(Succeeds(c) \/ Fails(c))
    /\ WF_circuitVars(CircuitTick)

CircuitSpec == CircuitInit /\ [][CircuitNext]_circuitVars /\ CircuitFairness

-----------------------------------------------------------------------------
\* The circuit opens on FailureThreshold failures in a row, however the
\* commands of concurrent requests overlap, never on scattered errors.
OpensOnAStreak ==
    [][circuit.state = "closed" /\ circuit'.state = "open"
       => streak' = FailureThreshold]_circuitVars

\* Unless a command that was sent earlier succeeded under the open circuit,
\* Redis is left alone for the whole backoff, also after a probe that failed.
OutageIsLeftAlone ==
    [][circuit.state = "open" /\ circuit'.state = "half_open" /\ ~heard
       => spared >= HalfOpenBackoff(FailureThreshold)]_circuitVars

\* Once Redis is up for good, the cache is used again for good.
RecoveredRedisIsUsed == (<>[]redisUp) => <>[](circuit.state = "closed")

-----------------------------------------------------------------------------
(***************************************************************************)
(* One key of the backend's read-through cache, backend/src/cache:         *)
(* concurrent requests that call getOrSet(), the loader they share, and    *)
(* the indexer that changes the record and, when it replays dead letters,  *)
(* deletes the key.  Whether the circuit breaker lets a read through is    *)
(* left open here (module RedisCircuit).  Ages are in ticks.               *)
(***************************************************************************)

CONSTANTS Readers,     \* concurrent requests for the key
          Ttl,         \* its CACHE_TTLS entry, in ticks
          MaxJitter,   \* Ttl * TTL_JITTER_RATIO, in ticks
          MaxLoad,     \* bound: ticks from the database read to the SETEX
          MaxVersion   \* bound: versions of the record; 0 is "not found"

VARIABLES record,   \* the committed version of the record
          entry,    \* the key in Redis; age: of the database read it came from
          storeUp,  \* whether Redis answers
          reader,   \* the requests
          flight,   \* the in-flight load of the key
          replay    \* the indexer: "idle", or "dropped" before its commit

cacheVars == <<record, entry, storeUp, reader, flight, replay>>

Absent == [present |-> FALSE, value |-> 0, age |-> 0, left |-> 0]
NoFlight == [at |-> "none", value |-> 0, age |-> 0]
Idle == [at |-> "idle", value |-> 0, age |-> 0, consulted |-> FALSE, counted |-> "none"]
LoadError == -1

CacheInit == /\ record \in {0, 1} /\ entry = Absent /\ storeUp = TRUE
             /\ reader = [r \in Readers |-> Idle]
             /\ flight = NoFlight /\ replay = "idle"

\* recordCacheHit, recordNegativeCacheHit
Hit(value) == IF value = 0 THEN "negative hit" ELSE "hit"

\* A slip: a lookup is classified before its loader has answered.
Miss_Early(value) == "miss"

\* recordCacheMiss, recordNegativeCacheMiss
Miss(value) == IF value = 0 THEN "negative miss" ELSE "miss"

\* withSingleFlight: the first caller starts the load, later ones wait for it.
Join(r, consulted) ==
    /\ reader' = [reader EXCEPT ![r].at = "joined", ![r].consulted = consulted]
    /\ flight' = IF flight.at = "none" THEN [flight EXCEPT !.at = "loading"] ELSE flight

AskRedis(r) == /\ reader[r].at = "idle"
               /\ reader' = [reader EXCEPT ![r].at = "getting"]
               /\ UNCHANGED <<record, entry, storeUp, flight, replay>>

\* The circuit is open: the read is not counted as a lookup.
SkipRedis(r) == /\ reader[r].at = "idle"
                /\ Join(r, FALSE)
                /\ UNCHANGED <<record, entry, storeUp, replay>>

\* A slip: a read renews the time to live of what it returns.
GetHits_Touch(r) ==
    /\ reader[r].at = "getting" /\ storeUp /\ entry.present
    /\ reader' = [reader EXCEPT ![r] = [at |-> "answered", value |-> entry.value,
                     age |-> entry.age, consulted |-> TRUE, counted |-> Hit(entry.value)]]
    /\ entry' = [entry EXCEPT !.left = Ttl]
    /\ UNCHANGED <<record, storeUp, flight, replay>>

GetHits(r) ==
    /\ reader[r].at = "getting" /\ storeUp /\ entry.present
    /\ reader' = [reader EXCEPT ![r] = [at |-> "answered", value |-> entry.value,
                     age |-> entry.age, consulted |-> TRUE, counted |-> Hit(entry.value)]]
    /\ UNCHANGED <<record, entry, storeUp, flight, replay>>

GetMisses(r) == /\ reader[r].at = "getting" /\ storeUp /\ ~entry.present
                /\ Join(r, TRUE)
                /\ UNCHANGED <<record, entry, storeUp, replay>>

\* The command is rejected, and the database is asked.
GetFails(r) == /\ reader[r].at = "getting" /\ ~storeUp
               /\ Join(r, FALSE)
               /\ UNCHANGED <<record, entry, storeUp, replay>>

Load == /\ flight.at = "loading"
        /\ flight' = [at |-> "storing", value |-> record, age |-> 0]
        /\ UNCHANGED <<record, entry, storeUp, reader, replay>>

\* Every caller of the flight gets its result and counts its own lookup.
Answer(value, age) ==
    /\ reader' = [r \in Readers |->
          IF reader[r].at # "joined" THEN reader[r]
          ELSE [reader[r] EXCEPT !.at = "answered", !.value = value, !.age = age,
                   !.counted = IF reader[r].consulted THEN Miss(value) ELSE "none"]]
    /\ flight' = NoFlight

LoaderFails == /\ flight.at = "loading"
               /\ Answer(LoadError, 0)
               /\ UNCHANGED <<record, entry, storeUp, replay>>

\* jitteredTtl: the jitter only ever lengthens a time to live.
JitteredTtls == {Ttl + jitter : jitter \in 0 .. MaxJitter}

\* A slip: the entry is stored without a time to live.
StoreReturns_Forever ==
    /\ flight.at = "storing"
    /\ IF storeUp
       THEN entry' = [present |-> TRUE, value |-> flight.value, age |-> flight.age,
                      left |-> Ttl + MaxLoad + MaxJitter + 1]
       ELSE UNCHANGED entry
    /\ Answer(flight.value, flight.age)
    /\ UNCHANGED <<record, storeUp, replay>>

\* SETEX under the jittered TTL; when it fails the callers still get the value.
StoreReturns ==
    /\ flight.at = "storing"
    /\ IF storeUp
       THEN \E ttl \in JitteredTtls :
               entry' = [present |-> TRUE, value |-> flight.value, age |-> flight.age,
                         left |-> ttl]
       ELSE UNCHANGED entry
    /\ Answer(flight.value, flight.age)
    /\ UNCHANGED <<record, storeUp, replay>>

\* The response is sent, and the same client may ask again.
Leave(r) == /\ reader[r].at = "answered"
            /\ reader' = [reader EXCEPT ![r] = Idle]
            /\ UNCHANGED <<record, entry, storeUp, flight, replay>>

-----------------------------------------------------------------------------
\* Live polling gives the handlers a Redis client that deletes nothing.
LiveCommit == /\ record < MaxVersion /\ replay = "idle"
              /\ record' = record + 1
              /\ UNCHANGED <<entry, storeUp, reader, flight, replay>>

\* The dead-letter replay: a handler deletes the key, then its transaction commits.
DropKey == /\ record < MaxVersion /\ replay = "idle" /\ storeUp
           /\ entry' = Absent /\ replay' = "dropped"
           /\ UNCHANGED <<record, storeUp, reader, flight>>
ReplayCommit == /\ replay = "dropped"
                /\ record' = record + 1 /\ replay' = "idle"
                /\ UNCHANGED <<entry, storeUp, reader, flight>>

RedisChanges == /\ storeUp' = ~storeUp
                /\ UNCHANGED <<record, entry, reader, flight, replay>>

\* Redis drops the key when its time to live is over; ages saturate.
TooOld == Ttl + MaxJitter + MaxLoad + 1
Aged == IF entry.left > 1
        THEN [entry EXCEPT !.age = IF @ < TooOld THEN @ + 1 ELSE @, !.left = @ - 1]
        ELSE Absent

CacheTick == /\ flight.at = "storing" => flight.age < MaxLoad
             /\ entry.present \/ flight.at = "storing"
             /\ entry' = IF entry.present THEN Aged ELSE entry
             /\ flight' = IF flight.at = "storing" THEN [flight EXCEPT !.age = @ + 1] ELSE flight
             /\ UNCHANGED <<record, storeUp, reader, replay>>

CacheNext == \/ \E r \in Readers : \/ AskRedis(r) \/ SkipRedis(r) \/ GetHits(r)
                                   \/ GetMisses(r) \/ GetFails(r) \/ Leave(r)
             \/ Load \/ LoaderFails \/ StoreReturns \/ LiveCommit
             \/ DropKey \/ ReplayCommit \/ RedisChanges \/ CacheTick

ReaderGoesOn(r) == AskRedis(r) \/ GetHits(r) \/ GetMisses(r) \/ GetFails(r) \/ Leave(r)

\* Requests keep coming, commands and loaders end, and entries expire.
CacheFairness ==
    /\ \A r \in Readers : WF_cacheVars(ReaderGoesOn(r))
    /\ WF_cacheVars(Load \/ StoreReturns)
    /\ WF_cacheVars(CacheTick)

CacheSpec == CacheInit /\ [][CacheNext]_cacheVars /\ CacheFairness

-----------------------------------------------------------------------------
\* Whoever deletes or does not delete the key, and whatever overlaps a load, no
\* request is served what the database said longer ago than the jittered TTL
\* plus the time the load took.
BoundedStaleness ==
    \A r \in Readers : reader[r].age <= Ttl + MaxJitter + MaxLoad

\* Every answered lookup is counted once, in the family of its answer, for each
\* caller that shared the loader; reads that Redis did not answer in neither.
AccountingExact ==
    \A r \in Readers : reader[r].at = "answered" =>
        CASE ~reader[r].consulted -> reader[r].counted = "none" /\ reader[r].age <= MaxLoad
          [] reader[r].value = 0 -> reader[r].counted \in {"negative hit", "negative miss"}
          [] OTHER -> reader[r].counted \in {"hit", "miss"}

\* Once the record stops changing, every answer is the committed version, also
\* when nobody deletes the key and requests keep hitting it.
EventuallyFresh ==
    <>[](\A r \in Readers : reader[r].at = "answered" => reader[r].value \in {record, LoadError})
=============================================================================
