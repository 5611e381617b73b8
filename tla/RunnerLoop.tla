------------------------------- MODULE RunnerLoop -------------------------------
(***************************************************************************)
(* The aggregator's poll loop: expired markets come in batches by keyset   *)
(* pagination while others change the list, failures are counted per       *)
(* market, and a signal drains the market in flight for a grace period.    *)
(***************************************************************************)
EXTENDS Naturals, Sequences, FiniteSets, SequencesExt

CONSTANTS
    Expired,           \* ids of markets, below 100
    EndTime,           \* when a market ended
    BatchSize,         \* AGGREGATOR_BATCH_SIZE
    FailureThreshold,  \* consecutive failures before an alert
    PollBound,         \* bound: completed iterations
    ListingBound,      \* bound: iterations in which markets are added to the list
    FailureBound       \* bound: failures of all markets together

VARIABLES
    unresolved,    \* the markets that the query lists
    pollLoop,      \* phase, the rest of the batch, its size, the key to go on after
    aborted,       \* SIGINT or SIGTERM came
    working,       \* the market whose promise is pending, or 0
    failures,      \* marketFailureMap
    lastFailed,    \* failures of each market since its last success, of all ever
    alerted,       \* failure counts at which a market's alerts were sent
    visited,       \* how often a market was processed in this iteration
    steady,        \* listed since the iteration began
    polls          \* completed iterations

loopVars == <<unresolved, pollLoop, aborted, working, failures, lastFailed, alerted, visited, steady, polls>>

Asleep == [phase |-> "sleeping", batch |-> <<>>, size |-> 0, after |-> 0]

LoopInit ==
    /\ unresolved \in SUBSET Expired
    /\ pollLoop = Asleep
    /\ aborted = FALSE /\ working = 0
    /\ failures = [m \in Expired |-> 0]
    /\ lastFailed = [run |-> [m \in Expired |-> 0], ever |-> 0]
    /\ alerted = [m \in Expired |-> {}]
    /\ visited = [m \in Expired |-> 0]
    /\ steady = {} /\ polls = 0

-----------------------------------------------------------------------------
(* Others change the list: the indexer, the council's holds and the operator *)

MarketListed(m) ==
    /\ m \notin unresolved /\ polls < ListingBound
    /\ unresolved' = unresolved \union {m}
    /\ UNCHANGED <<pollLoop, aborted, working, failures, lastFailed, alerted, visited, steady, polls>>

MarketUnlisted(m) ==
    /\ m \in unresolved
    /\ unresolved' = unresolved \ {m}
    /\ steady' = steady \ {m}
    /\ UNCHANGED <<pollLoop, aborted, working, failures, lastFailed, alerted, visited, polls>>

Abort ==
    /\ ~aborted
    /\ aborted' = TRUE
    /\ UNCHANGED <<unresolved, pollLoop, working, failures, lastFailed, alerted, visited, steady, polls>>

-----------------------------------------------------------------------------
(* listExpiredUnresolvedMarkets *)

\* The query selects id::text under the name id, so that ORDER BY id compares
\* texts: "10" comes before "9".
BeforeAsText(a, b) ==
    LET Lead(n) == IF n < 10 THEN n ELSE n \div 10
    IN  Lead(a) < Lead(b) \/ (Lead(a) = Lead(b) /\ a < b)

Listed(a, b) == EndTime[a] < EndTime[b] \/ (EndTime[a] = EndTime[b] /\ BeforeAsText(a, b))

\* The key compares the column, which is a number.
IsAfter(m, after) ==
    after = 0 \/ EndTime[m] > EndTime[after] \/ (EndTime[m] = EndTime[after] /\ m > after)

Limited(rows) == SubSeq(rows, 1, IF Len(rows) < BatchSize THEN Len(rows) ELSE BatchSize)

Batch_ByOffset(after) ==
    LET skipped == Cardinality({m \in Expired : visited[m] > 0})
        rows == SetToSortSeq(unresolved, Listed)
    IN  Limited(SubSeq(rows, skipped + 1, Len(rows)))

Batch(after) == Limited(SetToSortSeq({m \in unresolved : IsAfter(m, after)}, Listed))

StartPoll ==
    /\ pollLoop.phase = "sleeping" /\ ~aborted /\ polls < PollBound
    /\ visited' = [m \in Expired |-> 0]
    /\ steady' = unresolved
    /\ pollLoop' = [pollLoop EXCEPT !.phase = "listing", !.after = 0]
    /\ UNCHANGED <<unresolved, aborted, working, failures, lastFailed, alerted, polls>>

ListBatch ==
    /\ pollLoop.phase = "listing" /\ ~aborted
    /\ LET batch == Batch(pollLoop.after)
       IN  pollLoop' = [pollLoop EXCEPT !.batch = batch, !.size = Len(batch),
                          !.phase = IF batch = <<>> THEN "completing" ELSE "processing",
                          !.after = IF batch = <<>> THEN @ ELSE Last(batch)]
    /\ UNCHANGED <<unresolved, aborted, working, failures, lastFailed, alerted, visited, steady, polls>>

\* A short batch is the last one.
BatchDone ==
    /\ pollLoop.phase = "processing" /\ pollLoop.batch = <<>> /\ working = 0 /\ ~aborted
    /\ pollLoop' = [pollLoop EXCEPT !.phase = IF pollLoop.size < BatchSize THEN "completing" ELSE "listing"]
    /\ UNCHANGED <<unresolved, aborted, working, failures, lastFailed, alerted, visited, steady, polls>>

LeaveLoops_AtOnce ==
    /\ aborted
    /\ pollLoop.phase \in {"listing", "processing"}
    /\ pollLoop' = [pollLoop EXCEPT !.phase = "completing", !.batch = <<>>]
    /\ UNCHANGED <<unresolved, aborted, working, failures, lastFailed, alerted, visited, steady, polls>>

\* Once the signal came every loop is left where it next looks.
LeaveLoops ==
    /\ aborted /\ working = 0
    /\ pollLoop.phase \in {"listing", "processing"}
    /\ pollLoop' = [pollLoop EXCEPT !.phase = "completing", !.batch = <<>>]
    /\ UNCHANGED <<unresolved, aborted, working, failures, lastFailed, alerted, visited, steady, polls>>

-----------------------------------------------------------------------------
(* One market *)

BeginMarket ==
    /\ pollLoop.phase = "processing" /\ pollLoop.batch # <<>> /\ working = 0 /\ ~aborted
    /\ working' = Head(pollLoop.batch)
    /\ visited' = [visited EXCEPT ![Head(pollLoop.batch)] = @ + 1]
    /\ UNCHANGED <<unresolved, pollLoop, aborted, failures, lastFailed, alerted, steady, polls>>

Taken == pollLoop' = [pollLoop EXCEPT !.batch = Tail(@)]

MarketSucceeds_KeepsCount ==
    /\ working # 0 /\ pollLoop.phase = "processing"
    /\ lastFailed' = [lastFailed EXCEPT !.run[working] = 0]
    /\ working' = 0
    /\ Taken
    /\ UNCHANGED <<unresolved, aborted, failures, alerted, visited, steady, polls>>

MarketSucceeds ==
    /\ working # 0 /\ pollLoop.phase = "processing"
    /\ failures' = [failures EXCEPT ![working] = 0]
    /\ lastFailed' = [lastFailed EXCEPT !.run[working] = 0]
    /\ working' = 0
    /\ Taken
    /\ UNCHANGED <<unresolved, aborted, alerted, visited, steady, polls>>

FailureCounted_Twice(m) ==
    /\ failures' = [failures EXCEPT ![m] = @ + 2]
    /\ lastFailed' = [lastFailed EXCEPT !.run[m] = @ + 1, !.ever = @ + 1]
    /\ alerted' = alerted

FailureCounted(m) ==
    LET count == failures[m] + 1
    IN  /\ failures' = [failures EXCEPT ![m] = count]
        /\ lastFailed' = [lastFailed EXCEPT !.run[m] = @ + 1, !.ever = @ + 1]
        /\ alerted' = IF count >= FailureThreshold
                      THEN [alerted EXCEPT ![m] = @ \union {lastFailed.run[m] + 1}] ELSE alerted

\* Whatever one market throws, the loop goes on to the next.
MarketFails ==
    /\ working # 0 /\ pollLoop.phase = "processing"
    /\ lastFailed.ever < FailureBound
    /\ FailureCounted(working)
    /\ working' = 0
    /\ Taken
    /\ UNCHANGED <<unresolved, aborted, visited, steady, polls>>

\* The grace period ends first: the loop counts a failure and leaves the work
\* pending behind it.
GraceExceeded ==
    /\ aborted /\ working # 0 /\ pollLoop.phase = "processing"
    /\ lastFailed.ever < FailureBound
    /\ FailureCounted(working)
    /\ pollLoop' = [pollLoop EXCEPT !.batch = <<>>, !.phase = "completing"]
    /\ UNCHANGED <<unresolved, aborted, working, visited, steady, polls>>

-----------------------------------------------------------------------------
CompletePoll ==
    /\ pollLoop.phase = "completing"
    /\ polls' = polls + 1
    /\ pollLoop' = [Asleep EXCEPT !.phase = IF aborted THEN "closing" ELSE "sleeping"]
    /\ UNCHANGED <<unresolved, aborted, working, failures, lastFailed, alerted, visited, steady>>

WakeToClose_SleepsOn ==
    /\ pollLoop.phase = "sleeping" /\ aborted
    /\ UNCHANGED loopVars

\* The sleep ends with the signal.
WakeToClose ==
    /\ pollLoop.phase = "sleeping" /\ aborted
    /\ pollLoop' = [pollLoop EXCEPT !.phase = "closing"]
    /\ UNCHANGED <<unresolved, aborted, working, failures, lastFailed, alerted, visited, steady, polls>>

CloseDependencies ==
    /\ pollLoop.phase = "closing"
    /\ pollLoop' = [pollLoop EXCEPT !.phase = "closed"]
    /\ UNCHANGED <<unresolved, aborted, working, failures, lastFailed, alerted, visited, steady, polls>>

LoopNext ==
    \/ \E m \in Expired : MarketListed(m) \/ MarketUnlisted(m)
    \/ Abort \/ StartPoll \/ ListBatch \/ BatchDone \/ LeaveLoops
    \/ BeginMarket \/ MarketSucceeds \/ MarketFails \/ GraceExceeded
    \/ CompletePoll \/ WakeToClose \/ CloseDependencies

LoopAwaited == \/ StartPoll \/ ListBatch \/ BatchDone \/ LeaveLoops \/ BeginMarket
               \/ MarketSucceeds \/ GraceExceeded \/ CompletePoll
               \/ WakeToClose \/ CloseDependencies

\* One asynchronous function; a market's promise settles or the timer of the
\* grace period fires.
LoopFairness == WF_loopVars(LoopAwaited)

LoopSpec == LoopInit /\ [][LoopNext]_loopVars /\ LoopFairness

-----------------------------------------------------------------------------

VisitedOnce(m) ==
    /\ visited[m] <= 1
    /\ (pollLoop.phase = "completing" /\ ~aborted /\ m \in steady) => visited[m] = 1

\* "Keyset rather than OFFSET paging: markets resolved while a poll is under way
\* drop out of the result set": so they say, no market that stays listed is left
\* out of an iteration, nor processed twice in it.
EveryMarketVisitedOnce == \A m \in Expired : VisitedOnce(m)

\* What the pages do give: the list may change between them, and every market is
\* visited once whose id its text puts where the number does among the markets
\* that end together.
InOrder(m) == \A other \in Expired :
    EndTime[m] = EndTime[other] => /\ BeforeAsText(m, other) <=> m < other
                                   /\ BeforeAsText(other, m) <=> other < m
OrderedMarketsVisitedOnce == \A m \in Expired : InOrder(m) => VisitedOnce(m)

\* An alert stands for that many failures in a row, never for failures that a
\* success lies between.
AlertsAreConsecutive == \A m \in Expired : \A run \in alerted[m] : run >= FailureThreshold

\* The connection is closed under work that is still pending only when the
\* grace period ran out for it.
CloseWaitsForWork ==
    (pollLoop.phase = "closed" /\ working # 0) => lastFailed.run[working] > 0

\* A signal ends the process, whatever the market in flight waits for.
LoopShutsDown == []<>(aborted => pollLoop.phase = "closed")
=============================================================================
