---------------------------- MODULE DatabasePool ----------------------------
(***************************************************************************)
(* backend/src/db/pool.ts queryWithCancel over one connection pool, with   *)
(* lib/cancellation.ts: a request whose client disconnects asks Postgres,  *)
(* over a second connection, to cancel the statement of a backend pid.     *)
(* The pid is that of a connection, which the pool hands to one request    *)
(* after another.                                                          *)
(***************************************************************************)
EXTENDS Integers, Sequences, FiniteSets, SequencesExt, FiniteSetsExt, TLC

CONSTANTS Requests, Connections

VARIABLES holder,  \* connection -> the request or the cancel that has it, or Free
          stage,   \* request -> idle, waiting, probing, running
          gone,    \* requests whose client disconnected
          asked,   \* connections somebody asked to cancel, not yet sent
          sending, \* cancel connection -> the connection it cancels, or Free
          answer   \* request -> none, rows, cancelled, failed

queryVars == <<holder, stage, gone, asked, sending, answer>>

Free == 0
Canceller == -1

QueryInit == /\ holder = [c \in Connections |-> Free] /\ stage = [r \in Requests |-> "idle"]
             /\ gone = {} /\ asked = {} /\ sending = [c \in Connections |-> Free]
             /\ answer = [r \in Requests |-> "none"]

-----------------------------------------------------------------------------
\* A new request; an aborted one is over before it asks for a connection.
Open(r) == /\ stage[r] = "idle"
           /\ stage' = [stage EXCEPT ![r] = "waiting"]
           /\ gone' = gone \ {r} /\ answer' = [answer EXCEPT ![r] = "none"]
           /\ UNCHANGED <<holder, asked, sending>>

Checkout(r, c) ==
    /\ stage[r] = "waiting" /\ holder[c] = Free
    /\ holder' = [holder EXCEPT ![c] = r] /\ stage' = [stage EXCEPT ![r] = "probing"]
    /\ UNCHANGED <<gone, asked, sending, answer>>

\* connectionTimeoutMillis, or the client left before the checkout.
NoConnection(r) ==
    /\ stage[r] = "waiting"
    /\ stage' = [stage EXCEPT ![r] = "idle"] /\ answer' = [answer EXCEPT ![r] = "failed"]
    /\ UNCHANGED <<holder, gone, asked, sending>>

\* SELECT pg_backend_pid(); a client that has left by now cancels at once.
Probe(r, c) ==
    /\ stage[r] = "probing" /\ holder[c] = r
    /\ stage' = [stage EXCEPT ![r] = "running"]
    /\ asked' = IF r \in gone THEN asked \cup {c} ELSE asked
    /\ UNCHANGED <<holder, gone, sending, answer>>

\* The abort listener is there while the statement runs.
Disconnect(r) ==
    /\ stage[r] # "idle" /\ r \notin gone
    /\ gone' = gone \cup {r}
    /\ asked' = asked \cup {c \in Connections : holder[c] = r /\ stage[r] = "running"}
    /\ UNCHANGED <<holder, stage, sending, answer>>

Release(r, c) == /\ holder' = [holder EXCEPT ![c] = Free]
                 /\ stage' = [stage EXCEPT ![r] = "idle"]

\* The statement returns rows, also when a cancel is on its way.
Finish(r, c) ==
    /\ stage[r] = "running" /\ holder[c] = r
    /\ Release(r, c) /\ answer' = [answer EXCEPT ![r] = "rows"]
    /\ UNCHANGED <<gone, asked, sending>>

\* A slip: the client is released where the rows are returned, not in finally.
Fail_Leaks(r, c) ==
    /\ stage' = [stage EXCEPT ![r] = "idle"] /\ UNCHANGED holder
    /\ answer' = [answer EXCEPT ![r] = IF r \in gone THEN "cancelled" ELSE "failed"]
\* A slip: whatever ends a statement is reported as the client's disconnect.
Fail_Blind(r, c) == /\ Release(r, c) /\ answer' = [answer EXCEPT ![r] = "cancelled"]

\* The catch of queryWithCancel: an AbortError only if this request aborted.
Fail(r, c) == /\ Release(r, c)
              /\ answer' = [answer EXCEPT ![r] = IF r \in gone THEN "cancelled" ELSE "failed"]

\* statement_timeout, or the statement fails.
TimeOut(r, c) == /\ stage[r] \in {"probing", "running"} /\ holder[c] = r
                 /\ Fail(r, c)
                 /\ UNCHANGED <<gone, asked, sending>>

\* cancelBackend: the cancel waits for a connection of the same pool.
SendCancel(pid, c) ==
    /\ pid \in asked /\ holder[c] = Free
    /\ holder' = [holder EXCEPT ![c] = Canceller]
    /\ sending' = [sending EXCEPT ![c] = pid] /\ asked' = asked \ {pid}
    /\ UNCHANGED <<stage, gone, answer>>
DropCancel == \E pid \in asked : /\ asked' = asked \ {pid}
                                 /\ UNCHANGED <<holder, stage, gone, sending, answer>>

\* pg_cancel_backend ends what the pid runs now, if it runs anything.
CancelArrives(c) ==
    /\ sending[c] # Free
    /\ sending' = [sending EXCEPT ![c] = Free]
    /\ LET pid == sending[c]
       IN IF holder[pid] \in Requests THEN Fail(holder[pid], pid)
          ELSE UNCHANGED <<holder, stage, answer>>
    /\ UNCHANGED <<gone, asked>>
\* The answer to a cancel gives its connection back.
CancelReturns(c) == /\ holder[c] = Canceller /\ sending[c] = Free
                    /\ holder' = [holder EXCEPT ![c] = Free]
                    /\ UNCHANGED <<stage, gone, asked, sending, answer>>

QueryNext ==
    \/ \E r \in Requests : Open(r) \/ NoConnection(r) \/ Disconnect(r)
    \/ \E r \in Requests, c \in Connections :
          Checkout(r, c) \/ Probe(r, c) \/ Finish(r, c) \/ TimeOut(r, c)
    \/ \E pid, c \in Connections : SendCancel(pid, c)
    \/ DropCancel
    \/ \E c \in Connections : CancelArrives(c) \/ CancelReturns(c)

\* statement_timeout ends every statement, and the server answers cancels.
QueryFairness ==
    \A c \in Connections :
        /\ WF_queryVars(\E r \in Requests : TimeOut(r, c))
        /\ WF_queryVars(CancelArrives(c) \/ CancelReturns(c))

QuerySpec == QueryInit /\ [][QueryNext]_queryVars /\ QueryFairness

-----------------------------------------------------------------------------
\* Whichever comes first of an abort, its cancel and the end of the statement,
\* every connection comes back to the pool.
ConnectionsComeBack == \A c \in Connections : []<>(holder[c] = Free)

\* A request is answered as abandoned only if its own client left: not because
\* a cancel that was meant for the connection's earlier user ended its query.
AbandonedOnlyIfGone == \A r \in Requests : answer[r] = "cancelled" => r \in gone

-----------------------------------------------------------------------------
(***************************************************************************)
(* backend/src/db/pool.ts: which reads go to the replica.  Writes pin the  *)
(* reads of a session to the primary; a sampler measures the replay lag,   *)
(* and its checks can overlap.  The replica is lag ticks behind, so it     *)
(* misses the writes that are younger.                                     *)
(***************************************************************************)

CONSTANTS Sessions,
          MaxLag,    \* REPLICA_MAX_LAG_MS
          Poll,      \* REPLICA_LAG_POLL_INTERVAL_MS
          Cooldown,  \* REPLICA_FAILURE_COOLDOWN_MS
          Window,    \* READ_AFTER_WRITE_WINDOW_MS
          MaxCheck   \* bound: ticks a check takes, beyond Poll checks overlap

VARIABLES lag,       \* ticks the replica is behind, up to LongLag
          replicaUp,
          lagMs,     \* the last sample, or Unknown
          health,    \* unknown, healthy, lagging, unreachable
          retryIn,   \* ticks until unreachableUntil
          nextCheck, \* ticks until the sampler fires
          checks,    \* checks in flight: what they read, how long ago
          writes,    \* session -> writes > 0
          written,   \* session -> ticks since it committed a write, or Never
          sinceMark  \* ticks since lastGlobalWriteAt, up to Window

routingVars == <<lag, replicaUp, lagMs, health, retryIn, nextCheck, checks, writes, written,
                 sinceMark>>

Unknown == -1
Never == -1
Bound == MaxLag + Poll + 2 * MaxCheck
LongLag == Bound + 1

RoutingInit ==
    /\ lag = 0 /\ replicaUp = TRUE /\ lagMs = Unknown /\ health = "unknown" /\ retryIn = 0
    /\ nextCheck = Poll /\ checks = {[read |-> 0, age |-> 0]}
    /\ writes = [s \in Sessions |-> FALSE] /\ written = [s \in Sessions |-> Never]
    /\ sinceMark = Window

-----------------------------------------------------------------------------
\* canUseReplica
CanUseReplica == retryIn = 0 /\ health # "unreachable" /\ (lagMs = Unknown \/ lagMs <= MaxLag)

\* A slip: a session's writes guard its reads for the window only.
ShouldReadFromPrimary_Window(s) == sinceMark < Window
\* shouldReadFromPrimary: in a session its own writes decide, not the window.
ShouldReadFromPrimary(s) == IF s \in Sessions THEN writes[s] ELSE sinceMark < Window

\* runWithReadSession
StartSession(s) == /\ writes' = [writes EXCEPT ![s] = FALSE]
                   /\ written' = [written EXCEPT ![s] = Never]
                   /\ UNCHANGED <<lag, replicaUp, lagMs, health, retryIn, nextCheck, checks, sinceMark>>
\* A statement that is not read-only marks the write before it runs; it is
\* classified by its text, so a failing one marks too.
StartWrite(s) == /\ writes' = [writes EXCEPT ![s] = TRUE]
                 /\ UNCHANGED <<lag, replicaUp, lagMs, health, retryIn, nextCheck, checks,
                                written, sinceMark>>
Commit(s) == /\ writes[s]
             /\ written' = [written EXCEPT ![s] = 0]
             /\ UNCHANGED <<lag, replicaUp, lagMs, health, retryIn, nextCheck, checks,
                            writes, sinceMark>>
\* getClient and writes outside a session, at the time they start.
MarkWrite == /\ sinceMark' = 0
             /\ UNCHANGED <<lag, replicaUp, lagMs, health, retryIn, nextCheck, checks,
                            writes, written>>

\* selectPoolForStatement for a read of a session, or of none.
FromReplica(s) == ~ShouldReadFromPrimary(s) /\ CanUseReplica /\ replicaUp
\* What such a read does not see.
Misses(s) == s \in Sessions /\ written[s] \in 0 .. lag - 1

-----------------------------------------------------------------------------
\* startReplicaLagMonitor: a check starts whether or not the last one ended.
StartCheck ==
    /\ nextCheck = 0
    /\ nextCheck' = Poll
    /\ checks' = checks \cup {[read |-> Unknown, age |-> 0]}
    /\ UNCHANGED <<lag, replicaUp, lagMs, health, retryIn, writes, written, sinceMark>>

\* The replica computes the lag; the answer can take longer.
Measure ==
    /\ replicaUp
    /\ \E check \in checks :
          /\ check.read = Unknown
          /\ checks' = (checks \ {check}) \cup {[check EXCEPT !.read = lag]}
    /\ UNCHANGED <<lag, replicaUp, lagMs, health, retryIn, nextCheck, writes, written, sinceMark>>

\* A slip: an answer is taken as healthy when it is known at all.
Sampled_Any(read) == /\ lagMs' = 0 /\ health' = "healthy" /\ retryIn' = 0
\* checkReplicaLag: the answer, in the order the answers come.
Sampled(read) == /\ lagMs' = read
                 /\ health' = IF read > MaxLag THEN "lagging" ELSE "healthy"
                 /\ retryIn' = 0
CheckEnds ==
    /\ \E check \in checks :
          /\ check.read # Unknown /\ Sampled(check.read)
          /\ checks' = checks \ {check}
    /\ UNCHANGED <<lag, replicaUp, nextCheck, writes, written, sinceMark>>
\* A failed check leaves the last lag.
CheckFails ==
    /\ \E check \in checks : checks' = checks \ {check}
    /\ health' = "unreachable" /\ retryIn' = Cooldown
    /\ UNCHANGED <<lag, replicaUp, lagMs, nextCheck, writes, written, sinceMark>>

ReplicaChanges == /\ replicaUp' = ~replicaUp
                  /\ UNCHANGED <<lag, lagMs, health, retryIn, nextCheck, checks, writes, written,
                                 sinceMark>>

Less(n) == IF n > 0 THEN n - 1 ELSE n
RoutingTick ==
    /\ nextCheck > 0 /\ \A check \in checks : check.age < MaxCheck
    /\ lag' \in {0, lag, IF lag < LongLag THEN lag + 1 ELSE lag}
    /\ retryIn' = Less(retryIn) /\ nextCheck' = nextCheck - 1
    /\ checks' = {[check EXCEPT !.age = @ + 1] : check \in checks}
    /\ written' = [s \in Sessions |-> IF written[s] \in 0 .. LongLag - 1 THEN written[s] + 1
                                      ELSE Never]
    /\ sinceMark' = IF sinceMark < Window THEN sinceMark + 1 ELSE Window
    /\ UNCHANGED <<replicaUp, lagMs, health, writes>>

RoutingNext ==
    \/ \E s \in Sessions : StartSession(s) \/ StartWrite(s) \/ Commit(s)
    \/ MarkWrite
    \/ StartCheck \/ Measure \/ CheckEnds \/ CheckFails \/ ReplicaChanges \/ RoutingTick

RoutingSpec == RoutingInit /\ [][RoutingNext]_routingVars

-----------------------------------------------------------------------------
\* A read in a session never misses a write that the session made before.
SessionReadsItsWrites == \A s \in Sessions : ~(FromReplica(s) /\ Misses(s))

\* Once the lag is known, a read that the replica serves misses only writes
\* younger than the threshold and the time a sample can be out of date,
\* whatever the order in which overlapping checks are answered.
StaleReadsAreBounded ==
    \A s \in Sessions \cup {Never} : FromReplica(s) /\ lagMs # Unknown => lag <= Bound

-----------------------------------------------------------------------------
(***************************************************************************)
(* backend/src/db/slowQueryAnalyzer.ts: the slow-query log is read line by *)
(* line into one accumulator per query shape, whose percentiles come from  *)
(* a bounded random sample, and the report ranks the shapes by the time    *)
(* they took in all.  analyzeSlowQueries builds the same report from a     *)
(* list.  A line is a query of a shape and its duration, or noise.         *)
(***************************************************************************)

CONSTANTS Shapes,      \* canonical query shapes, numbers
          Durations,   \* what one execution may take
          Reservoir,   \* PERCENTILE_RESERVOIR_SIZE
          MaxLines     \* bound: lines of the log

VARIABLES logLines,    \* the lines read so far
          gathered,    \* shape -> its accumulator
          slowTotals,  \* queries and time counted over all shapes
          filters      \* AnalysisOptions

slowVars == <<logLines, gathered, slowTotals, filters>>

Noise == [shape |-> 0, ms |-> 0]
NoSample == [durations |-> <<>>, seen |-> 0, total |-> 0, fastest |-> 0, slowest |-> 0, since |-> 0]

SlowInit == /\ logLines = <<>> /\ gathered = [s \in Shapes |-> NoSample]
            /\ slowTotals = [queries |-> 0, time |-> 0]
            /\ filters \in [minDuration : {0, 2}, minCalls : {1, 2}]

-----------------------------------------------------------------------------
\* addDuration: the sample fills up, then a random slot of all seen is replaced.
SampledAs(durations, seen, ms) ==
    IF Len(durations) < Reservoir THEN {Append(durations, ms)}
    ELSE {IF slot <= Reservoir THEN ReplaceAt(durations, slot, ms) ELSE durations : slot \in 1 .. seen + 1}

\* A slip: the slowest execution is not kept up to date.
Accumulated_First(a, ms, durations) ==
    [a EXCEPT !.durations = durations, !.seen = @ + 1, !.total = @ + ms,
              !.fastest = IF a.seen = 0 \/ ms < @ THEN ms ELSE @,
              !.slowest = IF a.seen = 0 THEN ms ELSE @,
              !.since = IF a.seen = 0 THEN Len(logLines) + 1 ELSE @]

Accumulated(a, ms, durations) ==
    [a EXCEPT !.durations = durations, !.seen = @ + 1, !.total = @ + ms,
              !.fastest = IF a.seen = 0 \/ ms < @ THEN ms ELSE @,
              !.slowest = IF a.seen = 0 \/ ms > @ THEN ms ELSE @,
              !.since = IF a.seen = 0 THEN Len(logLines) + 1 ELSE @]

\* A line that does not parse, or is faster than the threshold, only counts as read.
Counts(line) == line.shape \in Shapes /\ line.ms >= filters.minDuration

ReadLine ==
    /\ Len(logLines) < MaxLines
    /\ \E line \in {Noise} \cup [shape : Shapes, ms : Durations] :
         /\ logLines' = Append(logLines, line)
         /\ IF Counts(line)
            THEN LET a == gathered[line.shape] IN
                 /\ \E durations \in SampledAs(a.durations, a.seen, line.ms) :
                        gathered' = [gathered EXCEPT ![line.shape] = Accumulated(a, line.ms, durations)]
                 /\ slowTotals' = [queries |-> slowTotals.queries + 1, time |-> slowTotals.time + line.ms]
            ELSE UNCHANGED <<gathered, slowTotals>>
    /\ UNCHANGED filters

SlowNext == ReadLine

SlowSpec == SlowInit /\ [][SlowNext]_slowVars

-----------------------------------------------------------------------------
\* The report, buildReport: the shapes with enough calls, by total time; equal
\* totals stay in the order the shapes were first seen in.
Listed == {s \in Shapes : gathered[s].seen > 0 /\ gathered[s].seen >= filters.minCalls}
Before(s, t) == \/ gathered[s].total > gathered[t].total
                \/ gathered[s].total = gathered[t].total /\ gathered[s].since < gathered[t].since
Ahead(s) == {t \in Listed : Before(t, s)}
TimeOf(shapes) == FoldSet(LAMBDA s, sum : sum + gathered[s].total, 0, shapes)

\* A slip: the shape that crosses the 80% is left out.
HighValueTargets_Short ==
    {s \in Listed : Ahead(s) = {} \/ 5 * TimeOf(Ahead(s) \cup {s}) <= 4 * slowTotals.time}

\* Shapes are taken while those before them make up less than 80% of the time.
HighValueTargets ==
    {s \in Listed : Ahead(s) = {} \/ 5 * TimeOf(Ahead(s)) < 4 * slowTotals.time}

\* A slip: the sample is not sorted.
Sorted_Not(durations) == durations
Sorted(durations) == SortSeq(durations, LAMBDA a, b : a < b)

\* calculatePercentile, in hundredths: linear between the two closest ranks.
Percentile(sorted, p) ==
    LET rank == p * (Len(sorted) - 1)
        low == rank \div 100
        weight == rank % 100
    IN sorted[low + 1] * (100 - weight)
         + (IF weight = 0 THEN 0 ELSE sorted[low + 2] * weight)

-----------------------------------------------------------------------------
LinesOf(s) == {i \in 1 .. Len(logLines) : logLines[i].shape = s /\ Counts(logLines[i])}
LoggedTime(lines) == FoldSet(LAMBDA i, sum : sum + logLines[i].ms, 0, lines)

\* What the accumulators say, however the lines of the shapes interleave and
\* whatever the sample dropped, is what the whole log says.
ReportMatchesTheLog ==
    /\ slowTotals.time = LoggedTime(UNION {LinesOf(s) : s \in Shapes})
    /\ \A s \in Shapes : gathered[s].seen > 0 =>
         /\ gathered[s].seen = Cardinality(LinesOf(s)) /\ gathered[s].total = LoggedTime(LinesOf(s))
         /\ gathered[s].fastest = Min({logLines[i].ms : i \in LinesOf(s)})
         /\ gathered[s].slowest = Max({logLines[i].ms : i \in LinesOf(s)})

\* The targets account for 80% of all the time there is to save, or for every
\* shape the report lists; and no target is needless.
TargetsCoverMost ==
    /\ \/ 5 * TimeOf(HighValueTargets) >= 4 * slowTotals.time
       \/ HighValueTargets = Listed
    /\ \A s \in HighValueTargets : Cardinality(HighValueTargets) > 1 =>
           5 * TimeOf({t \in HighValueTargets : Before(t, s)}) < 4 * slowTotals.time

\* The percentiles of a sample are in order and within the fastest and slowest
\* execution, also once the sample has forgotten those.
PercentilesAreOrdered ==
    \A s \in Listed :
        LET at == [p \in {50, 90, 95, 99} |-> Percentile(Sorted(gathered[s].durations), p)] IN
        /\ 100 * gathered[s].fastest <= at[50] /\ at[99] <= 100 * gathered[s].slowest
        /\ \A p, q \in DOMAIN at : p <= q => at[p] <= at[q]
=============================================================================
