---------------------------- MODULE IndexerJobs -----------------------------
(***************************************************************************)
(* Historical backfill and the resumable reindex: the history is read in   *)
(* windows of ledgers, each in pages with a cursor, up to the head at the  *)
(* start; a reindex saves a checkpoint after each page and resumes there.  *)
(***************************************************************************)
EXTENDS Naturals, Sequences, FiniteSets, SequencesExt, Integers

CONSTANTS
    History,          \* ledger of each event, in order
    FirstLedger,      \* config.START_LEDGER, or the start a reindex is given
    HeadLedger,       \* the network head when the job starts
    WindowLedgers,    \* config.BACKFILL_WINDOW_LEDGERS
    PageLimit,        \* config.EVENTS_PER_PAGE
    JobFailures       \* bound: aborts, crashes and failed requests

VARIABLES
    scan,         \* phase, whether it is a reindex, current ledger and cursor
    indexed,      \* events written
    resumeAt,     \* the saved checkpoint; a reindex resumes after it
    failures

scanVars == <<scan, indexed, resumeAt, failures>>

NoCursor == 0
Lesser(a, b) == IF a < b THEN a ELSE b
Greater(a, b) == IF a > b THEN a ELSE b

WindowEnd == Lesser(scan.at + WindowLedgers - 1, HeadLedger)

\* A request names a window or, once there is a cursor, only the cursor.  The
\* node answers from the ledgers it has, up to latest.
Requested(latest) ==
    SelectSeq([e \in DOMAIN History |-> e],
              LAMBDA e : /\ History[e] <= latest
                         /\ IF scan.cursor = NoCursor THEN History[e] \in scan.at .. WindowEnd
                                                      ELSE e > scan.cursor)

Page(latest) == SubSeq(Requested(latest), 1, Lesser(PageLimit, Len(Requested(latest))))

\* A node may leave out the cursor on a page after which there is no other.
CursorsAfter(page, latest) ==
    (IF page = <<>> THEN {} ELSE {Last(page)})
        \union (IF Len(page) = Len(Requested(latest)) THEN {NoCursor} ELSE {})

BackfillInit ==
    /\ scan \in [phase : {"stopped"}, reindex : BOOLEAN, at : {FirstLedger}, cursor : {NoCursor}]
    /\ indexed = {}
    /\ resumeAt = FirstLedger - 1
    /\ failures = 0

-----------------------------------------------------------------------------
StartBackfill ==
    /\ scan.phase = "stopped" /\ ~scan.reindex
    /\ scan' = [scan EXCEPT !.phase = "scanning", !.at = FirstLedger, !.cursor = NoCursor]
    /\ UNCHANGED <<indexed, resumeAt, failures>>

StartReindex ==
    /\ scan.phase = "stopped" /\ scan.reindex
    /\ scan' = [scan EXCEPT !.phase = "scanning", !.cursor = NoCursor,
                            !.at = IF resumeAt >= FirstLedger THEN resumeAt + 1 ELSE FirstLedger]
    /\ UNCHANGED <<indexed, resumeAt, failures>>

Saved(ledger) == IF scan.reindex THEN ledger ELSE resumeAt

\* The range is done, or starts after the head.
RangeDone ==
    /\ scan.phase = "scanning"
    /\ scan.at > HeadLedger
    /\ scan' = [scan EXCEPT !.phase = "done"]
    /\ UNCHANGED <<indexed, resumeAt, failures>>

\* An empty page ends the job when the node has reached the head: it always
\* has, unless it lags behind the node that was asked for the head.
EmptyPage(latest) ==
    /\ Page(latest) = <<>>
    /\ IF latest >= HeadLedger
       THEN /\ scan' = [scan EXCEPT !.phase = "done", !.at = latest]
            /\ resumeAt' = Saved(latest)
       ELSE LET next == Greater(scan.at + 1, Lesser(latest, WindowEnd) + 1)
            IN  /\ scan' = [scan EXCEPT !.at = next, !.cursor = NoCursor]
                /\ resumeAt' = Saved(next - 1)

\* Where the next request starts after a page that was written.
Advanced_NoWindow(page, cursor, latest) ==
    IF cursor # NoCursor /\ cursor # scan.cursor
    THEN [scan EXCEPT !.cursor = cursor]
    ELSE [scan EXCEPT !.cursor = NoCursor]

\* A slip: the whole window counts as read, whatever the node had of it.
Advanced_IgnoresNode(page, cursor, latest) ==
    IF cursor # NoCursor /\ cursor # scan.cursor
    THEN [scan EXCEPT !.cursor = cursor]
    ELSE [scan EXCEPT !.cursor = NoCursor, !.at = Greater(History[Last(page)] + 1, WindowEnd + 1)]

Advanced(page, cursor, latest) ==
    IF cursor # NoCursor /\ cursor # scan.cursor
    THEN [scan EXCEPT !.cursor = cursor]
    ELSE [scan EXCEPT !.cursor = NoCursor,
                      !.at = Greater(History[Last(page)] + 1, Lesser(latest, WindowEnd) + 1)]

\* A slip: the checkpoint of a reindex is the end of the window.
PageWritten_Window(page, cursor, latest) ==
    /\ page # <<>>
    /\ indexed' = indexed \union Range(page)
    /\ resumeAt' = Saved(WindowEnd)
    /\ scan' = [Advanced(page, cursor, latest) EXCEPT
                  !.phase = IF History[Last(page)] >= HeadLedger THEN "done" ELSE "scanning"]

PageWritten(page, cursor, latest) ==
    /\ page # <<>>
    /\ indexed' = indexed \union Range(page)
    /\ resumeAt' = Saved(Lesser(HeadLedger, History[Last(page)]))
    /\ scan' = [Advanced(page, cursor, latest) EXCEPT
                  !.phase = IF History[Last(page)] >= HeadLedger THEN "done" ELSE "scanning"]

\* A node that has not seen the requested start answers with an error.
PageAnswered(latest) ==
    /\ scan.phase = "scanning"
    /\ scan.at <= latest
    /\ \/ EmptyPage(latest) /\ UNCHANGED indexed
       \/ \E cursor \in CursorsAfter(Page(latest), latest) : PageWritten(Page(latest), cursor, latest)

ScanPage == PageAnswered(HeadLedger) /\ UNCHANGED failures

\* A page from a node that lags behind the one that named the head.
LaggingPage ==
    /\ failures < JobFailures
    /\ \E latest \in FirstLedger .. HeadLedger - 1 : PageAnswered(latest)
    /\ failures' = failures + 1

\* The job is aborted or dies within a page: some of its events are written.
ScanFails ==
    /\ scan.phase = "scanning" /\ scan.at <= HeadLedger
    /\ failures < JobFailures
    /\ LET page == Page(HeadLedger)
       IN \E n \in 0 .. Len(page) : indexed' = indexed \union {page[i] : i \in 1 .. n}
    /\ scan' = [scan EXCEPT !.phase = "stopped"]
    /\ failures' = failures + 1
    /\ UNCHANGED resumeAt

BackfillNext == StartBackfill \/ StartReindex \/ RangeDone \/ ScanPage \/ LaggingPage \/ ScanFails

BackfillWorks == StartBackfill \/ StartReindex \/ RangeDone \/ ScanPage
BackfillFairness == WF_scanVars(BackfillWorks)
BackfillSpec == BackfillInit /\ [][BackfillNext]_scanVars /\ BackfillFairness

-----------------------------------------------------------------------------
\* Where the code is known to lose events: behind a gap as long as a window
\* (an empty page ends the job), and in a ledger that a page of an interrupted
\* reindex split (the checkpoint is the ledger of the page's last event).
BehindGap(e) ==
    \E from \in FirstLedger .. History[e] - WindowLedgers :
        \A f \in DOMAIN History : History[f] \notin from .. from + WindowLedgers - 1

InSplitLedger(e) ==
    /\ scan.reindex /\ failures > 0
    /\ \E f \in indexed : f < e /\ History[f] = History[e]

\* The scan is complete when it says so, but for these two cases, over every
\* way pages, windows, missing cursors, lagging nodes and restarts fall together.
BackfillIsComplete ==
    scan.phase = "done" => \A e \in DOMAIN History : e \in indexed \/ BehindGap(e) \/ InSplitLedger(e)

\* A reindex that is interrupted resumes after its checkpoint, so everything
\* before the ledger of the checkpoint must have been written.
ResumeSkipsNothing ==
    \A e \in DOMAIN History : History[e] < resumeAt => e \in indexed \/ BehindGap(e) \/ InSplitLedger(e)

\* Whatever cursor the node returns, the loop ends.
BackfillEnds == []<>(scan.phase = "done")

-----------------------------------------------------------------------------
(***************************************************************************)
(* The polling loop built on a database checkpoint (poll-loop.ts) and the  *)
(* RPC client it polls with (rpc/getEvents.ts): a list of endpoints with   *)
(* health, cool-down and failover.  The endpoints lag behind each other    *)
(* and drop old ledgers.                                                   *)
(***************************************************************************)

CONSTANTS
    Endpoints,       \* how many URLs the client was given; 1 is the first
    ClosedLedgers,   \* bound: the ledgers that close
    CooldownTime,    \* how long a failed endpoint is left alone
    MaxClock,        \* bound: the clock
    PollFaults       \* bound: failed requests, crashes, events of an earlier ledger

VARIABLES
    node,        \* per endpoint: the newest ledger it has, and the oldest it keeps
    endpoint,    \* per endpoint: what the client thinks of it
    clock,
    poll,        \* the iteration: its step and the response it holds
    atomicDb,    \* whether the database offers processEventsWithCheckpoint
    cursorAt,    \* the saved checkpoint, or NoCheckpoint
    written,     \* ledgers whose events are in the database
    pollFaults

pollVars == <<node, endpoint, clock, poll, atomicDb, cursorAt, written, pollFaults>>

NoCheckpoint == 0
Urls == 1 .. Endpoints
IdlePoll == [step |-> "idle", ledgers |-> {}, latest |-> 0]

PollInit ==
    /\ node = [u \in Urls |-> [newest |-> 1, oldest |-> 1]]
    /\ endpoint = [u \in Urls |-> [healthy |-> TRUE, failedAt |-> 0]]
    /\ clock = 0
    /\ poll = IdlePoll
    /\ atomicDb \in BOOLEAN
    /\ cursorAt = NoCheckpoint
    /\ written = {}
    /\ pollFaults = 0

-----------------------------------------------------------------------------
(* The nodes behind the endpoints *)

LedgerArrives(u) ==
    /\ node[u].newest < ClosedLedgers
    /\ node' = [node EXCEPT ![u].newest = @ + 1]
    /\ UNCHANGED <<endpoint, clock, poll, atomicDb, cursorAt, written, pollFaults>>

\* A node forgets a ledger; it keeps at least its newest.
LedgerExpires(u) ==
    /\ node[u].oldest < node[u].newest
    /\ node' = [node EXCEPT ![u].oldest = @ + 1]
    /\ UNCHANGED <<endpoint, clock, poll, atomicDb, cursorAt, written, pollFaults>>

TimePasses ==
    /\ clock < MaxClock
    /\ clock' = clock + 1
    /\ UNCHANGED <<node, endpoint, poll, atomicDb, cursorAt, written, pollFaults>>

-----------------------------------------------------------------------------
(* SorobanRpcClient.getEvents *)

PollStart == IF cursorAt = NoCheckpoint THEN 1 ELSE cursorAt + 1

CooledDown(u) == clock - endpoint[u].failedAt >= CooldownTime

\* A slip: no fall back to the unhealthy ones.
Eligible_HealthyOnly == SetToSortSeq({u \in Urls : endpoint[u].healthy \/ CooledDown(u)}, <)

\* Healthy ones and those whose cool-down is over, in list order; else all.
Eligible ==
    LET fit == {u \in Urls : endpoint[u].healthy \/ CooledDown(u)}
    IN  SetToSortSeq(IF fit = {} THEN Urls ELSE fit, <)

Expired(u) == PollStart < node[u].oldest

\* The endpoint that answers is the first in the list that does not fail.
FirstAnswering(down) ==
    SelectInSeq(Eligible, LAMBDA u : u \notin down /\ ~Expired(u))

Failed(us) ==
    [u \in Urls |-> IF u \in us THEN [healthy |-> FALSE, failedAt |-> clock] ELSE endpoint[u]]

Answered(first) ==
    [Failed({Eligible[i] : i \in 1 .. first - 1}) EXCEPT ![Eligible[first]].healthy = TRUE]

Faulty(down) ==
    /\ pollFaults + Cardinality(down) <= PollFaults
    /\ pollFaults' = pollFaults + Cardinality(down)

-----------------------------------------------------------------------------
(* pollOnce *)

\* A slip: the tip of a node is believed.
Regressed_Trusted(latest) == FALSE
Regressed(latest) == cursorAt # NoCheckpoint /\ latest < cursorAt

GapUpTo(ledger) == [step |-> "gap", ledgers |-> {}, latest |-> ledger]
Served(u) == PollStart .. node[u].newest

\* A page of events, or a sign of a gap: a tip behind the checkpoint, or an
\* event of a ledger before the one asked for.
PollFetch(down) ==
    /\ poll.step = "idle"
    /\ FirstAnswering(down) # 0
    /\ LET u == Eligible[FirstAnswering(down)]
       IN  /\ endpoint' = Answered(FirstAnswering(down))
           /\ poll' = IF Regressed(node[u].newest) THEN GapUpTo(cursorAt)
                      ELSE [step |-> "fetched", ledgers |-> Served(u), latest |-> node[u].newest]
    /\ Faulty(down)
    /\ UNCHANGED <<node, clock, atomicDb, cursorAt, written>>

PollSeesEarlyEvent ==
    /\ poll.step = "fetched" /\ cursorAt # NoCheckpoint
    /\ pollFaults < PollFaults
    /\ poll' = GapUpTo(cursorAt)
    /\ pollFaults' = pollFaults + 1
    /\ UNCHANGED <<node, endpoint, clock, atomicDb, cursorAt, written>>

\* Every eligible endpoint failed: a gap if one had dropped the ledger, as far
\* as the last of them says.
PollFindsNobody(down) ==
    /\ poll.step = "idle"
    /\ FirstAnswering(down) = 0
    /\ endpoint' = Failed(ToSet(Eligible))
    /\ LET last == SelectLastInSeq(Eligible, LAMBDA u : u \notin down /\ Expired(u))
       IN  poll' = IF last = 0 THEN IdlePoll ELSE GapUpTo(node[Eligible[last]].oldest - 1)
    /\ Faulty(down)
    /\ UNCHANGED <<node, clock, atomicDb, cursorAt, written>>

\* Events and checkpoint in one transaction where the database offers it.
PollCommit ==
    /\ poll.step = "fetched" /\ atomicDb
    /\ written' = written \union poll.ledgers
    /\ cursorAt' = poll.latest
    /\ poll' = IdlePoll
    /\ UNCHANGED <<node, endpoint, clock, atomicDb, pollFaults>>

\* A slip: the checkpoint first.
PollInsertEvents_CheckpointFirst ==
    /\ poll.step = "fetched" /\ ~atomicDb
    /\ cursorAt' = poll.latest
    /\ poll' = [poll EXCEPT !.step = "inserted"]
    /\ UNCHANGED <<node, endpoint, clock, atomicDb, written, pollFaults>>

\* Otherwise the effects first, then the checkpoint.
PollInsertEvents ==
    /\ poll.step = "fetched" /\ ~atomicDb
    /\ written' = written \union poll.ledgers
    /\ poll' = [poll EXCEPT !.step = "inserted"]
    /\ UNCHANGED <<node, endpoint, clock, atomicDb, cursorAt, pollFaults>>

PollSaveCheckpoint ==
    /\ poll.step = "inserted"
    /\ cursorAt' = poll.latest
    /\ poll' = IdlePoll
    /\ UNCHANGED <<node, endpoint, clock, atomicDb, written, pollFaults>>

\* The process dies, or a statement fails, and the iteration starts again.
PollAborts ==
    /\ poll.step \in {"fetched", "inserted"}
    /\ pollFaults < PollFaults
    /\ poll' = IdlePoll
    /\ pollFaults' = pollFaults + 1
    /\ UNCHANGED <<node, endpoint, clock, atomicDb, cursorAt, written>>

\* The deployment's recovery handler replays the missing range from an archive,
\* and may go on to any ledger that has closed; it saves and reports its
\* checkpoint.  A report that differs from the database only fails the iteration.
RecoverLedgerGap ==
    /\ poll.step = "gap"
    /\ \E upTo \in poll.latest .. ClosedLedgers :
        /\ \E u \in Urls : upTo <= node[u].newest
        /\ upTo >= cursorAt
        /\ written' = written \union (1 .. upTo)
        /\ cursorAt' = upTo
    /\ poll' = IdlePoll
    /\ UNCHANGED <<node, endpoint, clock, atomicDb, pollFaults>>

-----------------------------------------------------------------------------
PollStep ==
    \/ \E down \in SUBSET Urls : PollFetch(down) \/ PollFindsNobody(down)
    \/ PollSeesEarlyEvent \/ PollCommit \/ PollInsertEvents \/ PollSaveCheckpoint
    \/ RecoverLedgerGap

PollNext ==
    \/ \E u \in Urls : LedgerArrives(u) \/ LedgerExpires(u)
    \/ TimePasses \/ PollStep \/ PollAborts

PollAwaited == PollFetch({}) \/ PollFindsNobody({}) \/ PollCommit
               \/ PollInsertEvents \/ PollSaveCheckpoint \/ RecoverLedgerGap

\* Ledgers reach every endpoint and the loop is on a timer; expiry, faults and
\* the passing of the cool-down are not assumed.
PollFairness ==
    /\ \A u \in Urls : WF_pollVars(LedgerArrives(u))
    /\ WF_pollVars(PollAwaited)

PollSpec == PollInit /\ [][PollNext]_pollVars /\ PollFairness

-----------------------------------------------------------------------------
\* A checkpoint stands for everything before it: whatever endpoint answered,
\* whatever it had dropped, and wherever an iteration died.
CheckpointCoversLedgers == cursorAt # NoCheckpoint => 1 .. cursorAt \subseteq written

\* Failing over to a node that lags never takes the checkpoint back.
CheckpointNeverRegresses == [][cursorAt' >= cursorAt]_pollVars

\* Endpoints fail, lag, forget and come back; the loop reaches the tip.
PollReachesTip == <>[](cursorAt = ClosedLedgers)
=============================================================================
