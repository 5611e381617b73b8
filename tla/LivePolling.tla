------------------------------ MODULE LivePolling ------------------------------
(***************************************************************************)
(* The event indexer's live mode: processes contend for an advisory lock,  *)
(* the holder polls the ledger page by page and commits each page with its *)
(* checkpoint in one transaction; events that fail validation become dead  *)
(* letters, which a separate job replays.                                  *)
(*                                                                         *)
(* A row of the events table is told by its transaction and an index, for  *)
(* which the code takes eventIndex of the node's event.  The events of the *)
(* RPC have no such field, so that it is the event's place in its page.    *)
(***************************************************************************)
EXTENDS Naturals, Sequences, FiniteSets, SequencesExt

CONSTANTS
    Chain,           \* the events in order: sequence of [ledger, tx, bet]
    Indexers,        \* processes that may run the indexer
    NoIndexer,       \* nobody holds the lock
    StartLedger,     \* config.START_LEDGER
    EventsPerPage,   \* config.EVENTS_PER_PAGE
    RejectedAtFirst, \* the events whose payload the schemas reject at first
    MaxAttempts,     \* replays before a letter leaves the queue
    MaxLetters,      \* bound: letters, for replays that end in another one
    Outages          \* bound: crashes of an indexer or the replay job, and lost sessions

\* Ledgers close in order, and a transaction is in one of them.
ASSUME LiveConstants ==
    /\ Chain \in Seq([ledger : Nat, tx : STRING, bet : BOOLEAN])
    /\ \A d, e \in DOMAIN Chain : d < e => Chain[d].ledger <= Chain[e].ledger
    /\ \A d, e \in DOMAIN Chain : Chain[d].tx = Chain[e].tx => Chain[d].ledger = Chain[e].ledger
    /\ StartLedger \in Nat /\ EventsPerPage \in Nat \ {0}

VARIABLES
    tip,         \* the latest closed ledger
    lockHolder,  \* whose database session holds the advisory lock
    indexer,     \* per process: phase, whether told to stop, cursor, fetched page
    rows,        \* the events table: (tx_hash, event_index) pairs
    log,         \* the effects written, in that order: [event, index]
    checkpoint,  \* checkpoints.last_ledger_seq
    letters,     \* dead_letter_events: sequence of [event, index, attempts, resolved]
    rejected,    \* events the deployed schemas still reject
    overlooked,  \* history: the events that a full page left out
    job,         \* the replay job: the step it is at and the letter it replays
    outages, jobCrashes

liveVars == <<tip, lockHolder, indexer, rows, log, checkpoint, letters, rejected,
              overlooked, job, outages, jobCrashes>>
dbVars == <<rows, log, checkpoint, letters, overlooked>>
jobVars == <<job, jobCrashes, rejected>>

Events == DOMAIN Chain
LastLedger == Chain[Len(Chain)].ledger

NotRunning == [phase |-> "down", told |-> FALSE, at |-> 0, page |-> <<>>, to |-> 0]
Alive(p) == indexer[p].phase # "down"
Replaying == job.step # "idle"

LiveInit ==
    /\ tip = StartLedger
    /\ lockHolder = NoIndexer
    /\ indexer = [p \in Indexers |-> NotRunning]
    /\ rows = {} /\ log = <<>> /\ letters = <<>> /\ overlooked = {}
    /\ checkpoint = StartLedger
    /\ rejected = RejectedAtFirst
    /\ job = [step |-> "idle", letter |-> 0]
    /\ outages = 0 /\ jobCrashes = 0

-----------------------------------------------------------------------------
(* Pages: getEvents of the RPC node, and the index the code gives an event *)

\* Events come in the order of their ledgers: those up to one are the first so many.
EventsUpTo(ledger) ==
    CHOOSE n \in 0 .. Len(Chain) : \A e \in Events : e <= n <=> Chain[e].ledger <= ledger

\* What the code takes for the event's index in its transaction.
IndexOf(place) == place - 1

\* The first of the events after the cursor, as many as a page holds.
PageAfter(cursor, to) ==
    LET first == EventsUpTo(cursor)
        found == EventsUpTo(to) - first
        size  == IF found < EventsPerPage THEN found ELSE EventsPerPage
    IN  [place \in 1 .. size |-> [event |-> first + place, index |-> IndexOf(place)]]

\* A slip: the request starts one ledger late.
PageFrom_Late(from, to) == PageAfter(from, to)

PageFrom(from, to) == PageAfter(from - 1, to)

\* What a full page leaves out of the ledgers it was asked for.
LeftOut(page, to) ==
    IF Len(page) < EventsPerPage THEN {}
    ELSE {e \in Events : e > Last(page).event /\ Chain[e].ledger <= to}

-----------------------------------------------------------------------------
(* Writing an event: dead letter, duplicate, or row and effect *)

Key(w) == <<Chain[w.event].tx, w.index>>
Letter(w) == [event |-> w.event, index |-> w.index, attempts |-> 0, resolved |-> FALSE]

WriteEvent_NoDedupe(db, w) ==
    IF w.event \in rejected
    THEN [db EXCEPT !.letters = Append(@, Letter(w))]
    ELSE [db EXCEPT !.rows = @ \union {Key(w)}, !.log = Append(@, [event |-> w.event, index |-> w.index])]

WriteEvent(db, w) ==
    IF w.event \in rejected
    THEN [db EXCEPT !.letters = Append(@, Letter(w))]
    ELSE IF Key(w) \in db.rows THEN db
    ELSE [db EXCEPT !.rows = @ \union {Key(w)}, !.log = Append(@, [event |-> w.event, index |-> w.index])]

WriteEvents(page) ==
    LET after[n \in 0 .. Len(page)] ==
            IF n = 0 THEN [rows |-> rows, log |-> log, letters |-> letters]
            ELSE WriteEvent(after[n - 1], page[n])
    IN  after[Len(page)]

-----------------------------------------------------------------------------
(* The lock *)

AcquireIndexerLock(p) ==
    /\ ~Alive(p)
    /\ lockHolder = NoIndexer
    /\ lockHolder' = p
    /\ indexer' = [indexer EXCEPT ![p] = [NotRunning EXCEPT !.phase = "polling", !.at = StartLedger]]
    /\ UNCHANGED <<tip, dbVars, jobVars, outages>>

\* The database drops the session; the process does not know yet.
SessionLost(p) ==
    /\ lockHolder = p
    /\ outages + jobCrashes < Outages
    /\ lockHolder' = NoIndexer
    /\ outages' = outages + 1
    /\ UNCHANGED <<tip, indexer, dbVars, jobVars>>

\* The heartbeat fails on the lost session and aborts the loop.
HeartbeatFails(p) ==
    /\ Alive(p) /\ lockHolder # p /\ ~indexer[p].told
    /\ indexer' = [indexer EXCEPT ![p].told = TRUE]
    /\ UNCHANGED <<tip, lockHolder, dbVars, jobVars, outages>>

\* The loop ends where it looks at the signal: between two iterations.
StopPolling(p) ==
    /\ indexer[p].phase = "polling" /\ indexer[p].told
    /\ indexer' = [indexer EXCEPT ![p] = NotRunning]
    /\ lockHolder' = IF lockHolder = p THEN NoIndexer ELSE lockHolder
    /\ UNCHANGED <<tip, dbVars, jobVars, outages>>

\* A slip: the lock is a row of a table, which outlives the session.
CrashIndexer_KeepsLock(p) ==
    /\ Alive(p)
    /\ outages + jobCrashes < Outages
    /\ indexer' = [indexer EXCEPT ![p] = NotRunning]
    /\ outages' = outages + 1
    /\ UNCHANGED <<tip, lockHolder, dbVars, jobVars>>

CrashIndexer(p) ==
    /\ Alive(p)
    /\ outages + jobCrashes < Outages
    /\ indexer' = [indexer EXCEPT ![p] = NotRunning]
    /\ lockHolder' = IF lockHolder = p THEN NoIndexer ELSE lockHolder
    /\ outages' = outages + 1
    /\ UNCHANGED <<tip, dbVars, jobVars>>

-----------------------------------------------------------------------------
(* The polling loop *)

CloseLedger ==
    /\ tip < LastLedger
    /\ tip' = tip + 1
    /\ UNCHANGED <<lockHolder, indexer, dbVars, jobVars, outages>>

FetchPage(p) ==
    /\ indexer[p].phase = "polling" /\ ~indexer[p].told
    /\ tip > indexer[p].at
    /\ indexer' = [indexer EXCEPT ![p].phase = "fetched", ![p].to = tip,
                                  ![p].page = PageFrom(indexer[p].at + 1, tip)]
    /\ UNCHANGED <<tip, lockHolder, dbVars, jobVars, outages>>

\* A slip: the cursor moves past the page it has.
CommitPage_Beyond(p) ==
    /\ indexer[p].phase = "fetched"
    /\ LET db == WriteEvents(indexer[p].page)
       IN  rows' = db.rows /\ log' = db.log /\ letters' = db.letters
    /\ checkpoint' = indexer[p].to
    /\ overlooked' = overlooked \union LeftOut(indexer[p].page, indexer[p].to)
    /\ indexer' = [indexer EXCEPT ![p].phase = "polling", ![p].at = indexer[p].to + 1,
                                  ![p].page = <<>>]
    /\ UNCHANGED <<tip, lockHolder, jobVars, outages>>

\* Effects and checkpoint in one transaction; nobody looks at the lock again.
CommitPage(p) ==
    /\ indexer[p].phase = "fetched"
    /\ LET db == WriteEvents(indexer[p].page)
       IN  rows' = db.rows /\ log' = db.log /\ letters' = db.letters
    /\ checkpoint' = indexer[p].to
    /\ overlooked' = overlooked \union LeftOut(indexer[p].page, indexer[p].to)
    /\ indexer' = [indexer EXCEPT ![p].phase = "polling", ![p].at = indexer[p].to,
                                  ![p].page = <<>>]
    /\ UNCHANGED <<tip, lockHolder, jobVars, outages>>

\* A slip: the events are written outside of the transaction.
RollBackPage_KeepsRows(p) ==
    /\ indexer[p].phase = "fetched"
    /\ outages + jobCrashes < Outages
    /\ rows' = WriteEvents(indexer[p].page).rows
    /\ indexer' = [indexer EXCEPT ![p].phase = "polling", ![p].page = <<>>]
    /\ outages' = outages + 1
    /\ UNCHANGED <<tip, lockHolder, log, checkpoint, letters, overlooked, jobVars>>

\* A handler or the database fails: the transaction leaves nothing behind.
RollBackPage(p) ==
    /\ indexer[p].phase = "fetched"
    /\ outages + jobCrashes < Outages
    /\ indexer' = [indexer EXCEPT ![p].phase = "polling", ![p].page = <<>>]
    /\ outages' = outages + 1
    /\ UNCHANGED <<tip, lockHolder, dbVars, jobVars>>

-----------------------------------------------------------------------------
(* Dead letters *)

\* A release whose schemas accept what they rejected before.
DeploySchemas ==
    /\ rejected # {}
    /\ rejected' = {}
    /\ UNCHANGED <<tip, lockHolder, indexer, dbVars, job, jobCrashes, outages>>

MayReplay(n) ==
    /\ ~letters[n].resolved
    /\ letters[n].attempts < MaxAttempts

\* The attempt is counted before anything is tried.
RecordAttempt(n) ==
    /\ ~Replaying
    /\ MayReplay(n)
    /\ letters[n].event \in rejected => Len(letters) < MaxLetters
    /\ letters' = [letters EXCEPT ![n].attempts = @ + 1]
    /\ job' = [step |-> "attempting", letter |-> n]
    /\ UNCHANGED <<tip, lockHolder, indexer, rows, log, checkpoint, overlooked, jobCrashes, rejected, outages>>

\* A slip: the letter is resolved without its event being written.
ReplayEvent_Blind ==
    /\ job.step = "attempting"
    /\ job' = [job EXCEPT !.step = "written"]
    /\ UNCHANGED <<tip, lockHolder, indexer, dbVars, jobCrashes, rejected, outages>>

\* Without a transaction an event that is not a bet has its row written by one
\* statement and its effect by the next; a bet is a single statement.
ReplayEvent ==
    /\ job.step = "attempting"
    /\ LET w == letters[job.letter]
           db == WriteEvent([rows |-> rows, log |-> log, letters |-> letters],
                            [event |-> w.event, index |-> w.index])
           split == Len(db.log) > Len(log) /\ ~Chain[w.event].bet
       IN  /\ rows' = db.rows
           /\ letters' = db.letters
           /\ log' = IF split THEN log ELSE db.log
           /\ job' = [job EXCEPT !.step = IF split THEN "inserted" ELSE "written"]
    /\ UNCHANGED <<tip, lockHolder, indexer, checkpoint, overlooked, jobCrashes, rejected, outages>>

ApplyReplayed ==
    /\ job.step = "inserted"
    /\ log' = Append(log, [event |-> letters[job.letter].event, index |-> letters[job.letter].index])
    /\ job' = [job EXCEPT !.step = "written"]
    /\ UNCHANGED <<tip, lockHolder, indexer, rows, checkpoint, letters, overlooked,
                   jobCrashes, rejected, outages>>

MarkResolved ==
    /\ job.step = "written"
    /\ letters' = [letters EXCEPT ![job.letter].resolved = TRUE]
    /\ job' = [step |-> "idle", letter |-> 0]
    /\ UNCHANGED <<tip, lockHolder, indexer, rows, log, checkpoint, overlooked, jobCrashes, rejected, outages>>

CrashJob ==
    /\ Replaying
    /\ outages + jobCrashes < Outages
    /\ job' = [step |-> "idle", letter |-> 0]
    /\ jobCrashes' = jobCrashes + 1
    /\ UNCHANGED <<tip, lockHolder, indexer, dbVars, rejected, outages>>

-----------------------------------------------------------------------------
IndexerStep(p) ==
    \/ AcquireIndexerLock(p) \/ HeartbeatFails(p) \/ StopPolling(p)
    \/ FetchPage(p) \/ CommitPage(p)

JobStep ==
    \/ \E n \in DOMAIN letters : RecordAttempt(n)
    \/ ReplayEvent \/ ApplyReplayed \/ MarkResolved

LiveNext ==
    \/ CloseLedger \/ DeploySchemas \/ JobStep \/ CrashJob
    \/ \E p \in Indexers : IndexerStep(p) \/ SessionLost(p) \/ CrashIndexer(p) \/ RollBackPage(p)

\* The loops run on timers, a supervisor restarts the indexer, the job is
\* scheduled, ledgers close; outages and releases are not assumed.
LiveFairness ==
    /\ WF_liveVars(CloseLedger)
    /\ WF_liveVars(JobStep)
    /\ WF_liveVars(\E p \in Indexers : IndexerStep(p))

LiveSpec == LiveInit /\ [][LiveNext]_liveVars /\ LiveFairness

-----------------------------------------------------------------------------

TimesApplied(e) == Cardinality({n \in DOMAIN log : log[n].event = e})
Lettered(e) == \E n \in DOMAIN letters : letters[n].event = e

\* No bet is added twice to a position or a total.  This is what the indexer
\* claims of a restart, and what it does not see to: a page that begins elsewhere
\* gives an event another index.
AppliedAtMostOnce == \A e \in Events : TimesApplied(e) <= 1

\* What the index does see to: no effect is written twice for one transaction and
\* index, although two indexers may commit at once after a lost session, a restart
\* begins again at START_LEDGER, and dead letters are replayed.
AppliedOncePerKey == \A m, n \in DOMAIN log : Key(log[m]) = Key(log[n]) => m = n

\* Applied, or in the dead-letter queue for somebody to see, or behind a full page.
AccountedFor(e) == TimesApplied(e) > 0 \/ Lettered(e) \/ e \in overlooked

\* The checkpoint promises that nothing up to it is missing but what a full page
\* left out: an event is taken for one that was written before only where another
\* page held all of its transaction.
NothingSkipped ==
    \A e \in Events : Chain[e].ledger \in StartLedger + 1 .. checkpoint => AccountedFor(e)

\* A row of the events table blocks its index from ever being applied again, so
\* outside a replay, and unless one crashed, there is none whose effects were not
\* written.
NoRowWithoutEffect ==
    job.step # "inserted" /\ jobCrashes = 0 => Cardinality(rows) = Len(log)

\* Every row is applied once: none is repeated by a second indexer or a dead letter,
\* none stands for an effect that is not there, and the checkpoint passes over no
\* event, however restarts cut the pages.
EffectsAreAppliedOnce == AppliedOncePerKey /\ NothingSkipped /\ NoRowWithoutEffect

\* The letter's row went to another event of its transaction, which a page cut
\* elsewhere had at the same place.
RowTaken(n) ==
    \E m \in DOMAIN log : Key(log[m]) = Key(letters[n]) /\ log[m].event # letters[n].event

\* What was dead-lettered is applied when a release accepts it, unless its
\* attempts were used up before, its row was taken or the job crashed.
LettersAreReplayed ==
    \A e \in RejectedAtFirst :
        []<>((jobCrashes = 0 /\ e \notin rejected /\ \E n \in DOMAIN letters :
                 letters[n].event = e /\ letters[n].attempts < MaxAttempts /\ ~RowTaken(n))
             => TimesApplied(e) > 0)

\* Whatever sessions are lost, the indexer comes to the end of the ledger.
IndexerCatchesUp ==
    []<>(\A e \in Events : Chain[e].ledger > StartLedger => AccountedFor(e))
=============================================================================
