----------------------------- MODULE RateLimits -----------------------------
(***************************************************************************)
(* The backend's rate limiter for one client and route,                    *)
(* backend/src/cache/rateLimiterRedis.ts and rateLimiter.ts: several       *)
(* instances of the backend share a window in Redis, whose script runs     *)
(* some time after the request took its timestamp; while Redis is down     *)
(* each instance counts in a window of its own.  Windows are kept by the   *)
(* age of their timestamps.  (The sweep of the in-memory store drops only  *)
(* windows all of whose requests are too old to count.)                    *)
(***************************************************************************)
EXTENDS Integers, FiniteSetsExt, FiniteSets

CONSTANTS Instances,  \* backend processes
          Limit,      \* requests of the route's RateLimitConfig
          Window,     \* its window, in ticks
          MaxDelay    \* bound: ticks from the timestamp to the script

VARIABLES shared,     \* the sorted set in Redis: requests per age of their score
          own,        \* the SlidingWindowStore of each instance
          pending,    \* the age of the request an instance has at Redis
          limiterUp,  \* whether Redis answers
          letIn,      \* history: requests let in by Redis, per age of its answer
          promised    \* history: ticks until the last denied client may return

limiterVars == <<shared, own, pending, limiterUp, letIn, promised>>

None == -1
Ages == 0 .. Window + MaxDelay - 1
Empty == [a \in Ages |-> 0]
Count(window) == MapThenSumSet(LAMBDA a : window[a], Ages)
OldestAge(window) == Max({a \in Ages : window[a] > 0})
Add(window, age) == [window EXCEPT ![age] = @ + 1]

LimiterInit ==
    /\ shared = Empty /\ limiterUp = TRUE
    /\ own = [i \in Instances |-> Empty] /\ pending = [i \in Instances |-> None]
    /\ letIn = Empty /\ promised = Window + 1

\* A slip: a request that is exactly one window old still counts.
Live_Inclusive(window, age) == [a \in Ages |-> IF a <= age + Window THEN window[a] ELSE 0]

\* ZREMRANGEBYSCORE, and the filter of the in-memory store, at a timestamp of
\* that age
Live(window, age) == [a \in Ages |-> IF a < age + Window THEN window[a] ELSE 0]

Arrive(i) == /\ pending[i] = None
             /\ pending' = [pending EXCEPT ![i] = 0]
             /\ UNCHANGED <<shared, own, limiterUp, letIn, promised>>

\* A slip: the limit is compared after the request was counted.
Script_OneMore(i) ==
    /\ pending[i] # None /\ limiterUp
    /\ LET live == Live(shared, pending[i]) IN
       IF Count(live) > Limit
       THEN /\ shared' = live
            /\ promised' = Window - OldestAge(live)
            /\ UNCHANGED letIn
       ELSE /\ shared' = Add(live, pending[i])
            /\ letIn' = Add(letIn, 0)
            /\ promised' = Window + 1
    /\ pending' = [pending EXCEPT ![i] = None]
    /\ UNCHANGED <<own, limiterUp>>

\* SLIDING_WINDOW_SCRIPT, at the timestamp of the request.
Script(i) ==
    /\ pending[i] # None /\ limiterUp
    /\ LET live == Live(shared, pending[i]) IN
       IF Count(live) >= Limit
       THEN /\ shared' = live
            /\ promised' = Window - OldestAge(live)
            /\ UNCHANGED letIn
       ELSE /\ shared' = Add(live, pending[i])
            /\ letIn' = Add(letIn, 0)
            /\ promised' = Window + 1
    /\ pending' = [pending EXCEPT ![i] = None]
    /\ UNCHANGED <<own, limiterUp>>

\* The command is rejected; the "fallback" policy counts at the current time.
Fallback(i) ==
    /\ pending[i] # None /\ ~limiterUp
    /\ LET live == Live(own[i], 0) IN
       own' = [own EXCEPT ![i] = IF Count(live) >= Limit THEN live ELSE Add(live, 0)]
    /\ pending' = [pending EXCEPT ![i] = None]
    /\ UNCHANGED <<shared, limiterUp, letIn, promised>>

LimiterRedisChanges == /\ limiterUp' = ~limiterUp
                       /\ UNCHANGED <<shared, own, pending, letIn, promised>>

\* What is older than any age that counts is forgotten.
Shifted(window) == [a \in Ages |-> IF a = 0 THEN 0 ELSE window[a - 1]]
LimiterTick ==
    /\ \A i \in Instances : pending[i] < MaxDelay
    /\ shared' = Shifted(shared) /\ letIn' = Shifted(letIn)
    /\ own' = [i \in Instances |-> Live(Shifted(own[i]), 0)]
    /\ pending' = [i \in Instances |-> IF pending[i] = None THEN None ELSE pending[i] + 1]
    /\ promised' = IF promised \in {Window + 1, -MaxDelay} THEN promised ELSE promised - 1
    /\ UNCHANGED limiterUp

LimiterNext == \/ \E i \in Instances : Arrive(i) \/ Script(i) \/ Fallback(i)
               \/ LimiterRedisChanges \/ LimiterTick

LimiterSpec == LimiterInit /\ [][LimiterNext]_limiterVars

-----------------------------------------------------------------------------
\* Redis lets in no more than the limit in any stretch of a window less the
\* time its script calls may take, although calls overtake each other and the
\* clock of one evicts for the others.
SharedBudget ==
    MapThenSumSet(LAMBDA a : letIn[a], 0 .. Window - MaxDelay - 1) <= Limit

\* Retry-After is not a lie: a client that returns when it was told to is not
\* denied again unless somebody was let in meanwhile.
RetryAfterIsEnough ==
    [][\A i \in Instances :
          (pending[i] # None /\ promised + pending[i] <= 0)
          => ~(Script(i) /\ promised' <= Window)]_limiterVars

-----------------------------------------------------------------------------
(***************************************************************************)
(* frontend/src/services/limiter.ts as the RPC proxy uses it               *)
(* (frontend/src/app/api/rpc/route.ts): one fixed window per client        *)
(* address, a sweep when more addresses than MaxKeys are tracked, and the  *)
(* retry-after header of a refusal, in whole seconds.  Time is in ticks.   *)
(***************************************************************************)

CONSTANTS Addresses,
          WindowLimit,   \* RATE_LIMIT
          WindowLength,  \* RATE_WINDOW_MS, in ticks
          MaxKeys,       \* maxKeys: more tracked addresses than this start a sweep
          Second         \* ticks per second

VARIABLES windows,   \* address -> its window: requests counted, ticks until resetAt
          admitted,  \* address -> age -> requests let in that many ticks ago
          told       \* address -> ticks a refused client still waits, or NotTold

clientVars == <<windows, admitted, told>>

Untracked == [count |-> 0, left |-> -1]
NotTold == -1
Tracked == {a \in Addresses : windows[a] # Untracked}

ClientInit == /\ windows = [a \in Addresses |-> Untracked]
               /\ admitted = [a \in Addresses |-> [age \in 0 .. WindowLength - 1 |-> 0]]
               /\ told = [a \in Addresses |-> NotTold]

-----------------------------------------------------------------------------
\* A slip: the sweep makes room by dropping every other window.
Swept_All(a) == [b \in Addresses |-> Untracked]

\* sweep: the windows that are over.
Swept(a) == [b \in Addresses |-> IF windows[b].left <= 0 THEN Untracked ELSE windows[b]]

\* A refused request counts as well; the count saturates past the limit here.
Counted(w) == [w EXCEPT !.count = IF @ > WindowLimit + 1 THEN @ ELSE @ + 1]

\* check(): a window that is over, or none, is replaced by a fresh one.
Checked(a) ==
    IF windows[a].left <= 0
    THEN [(IF a \notin Tracked /\ Cardinality(Tracked) >= MaxKeys THEN Swept(a) ELSE windows)
             EXCEPT ![a] = [count |-> 1, left |-> WindowLength]]
    ELSE [windows EXCEPT ![a] = Counted(@)]

\* A slip: a part of a second is dropped.
RetryAfter_Floor(left) == (left \div Second) * Second
RetryAfter(left) == ((left + Second - 1) \div Second) * Second

\* A refused client may wait as it is told, or ask again at once.
ProxyRequest(a) ==
    LET allowed == Checked(a)[a].count <= WindowLimit IN
    /\ windows' = Checked(a)
    /\ admitted' = IF allowed THEN [admitted EXCEPT ![a][0] = @ + 1] ELSE admitted
    /\ told' = [told EXCEPT ![a] = IF allowed THEN NotTold ELSE RetryAfter(Checked(a)[a].left)]

ClientTick ==
    /\ windows' = [a \in Addresses |-> [windows[a] EXCEPT !.left = IF @ > 0 THEN @ - 1 ELSE @]]
    /\ admitted' = [a \in Addresses |-> [age \in 0 .. WindowLength - 1 |->
                        IF age = 0 THEN 0 ELSE admitted[a][age - 1]]]
    /\ told' = [a \in Addresses |-> IF told[a] > 0 THEN told[a] - 1 ELSE told[a]]

ClientNext == ClientTick \/ \E a \in Addresses : ProxyRequest(a)

ClientSpec == ClientInit /\ [][ClientNext]_clientVars

-----------------------------------------------------------------------------
\* limiter.ts: the worst case "lets through 2x the limit across a window
\* boundary": no stretch of a window's length sees more, also when a flood of
\* addresses makes the limiter forget windows.
BurstIsBounded ==
    \A a \in Addresses :
        MapThenSumSet(LAMBDA age : admitted[a][age], 0 .. WindowLength - 1) <= 2 * WindowLimit

\* A client that waited for as long as it was told is not refused again.
WaitIsEnough ==
    [][\A a \in Addresses : told[a] = 0 /\ ProxyRequest(a) => told'[a] = NotTold]_clientVars
=============================================================================
