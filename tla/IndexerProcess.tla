----------------------------- MODULE IndexerProcess -----------------------------
(***************************************************************************)
(* The Indexer class: it fetches a page, writes event after event, saves   *)
(* the cursor and sleeps, until a signal asks it to stop.  The events are  *)
(* the token's; their handlers keep a balance per holder.                  *)
(***************************************************************************)
EXTENDS Integers, Sequences, FiniteSets, Functions

CONSTANTS
    TokenEvents,     \* sequence of [ledger, kind, from, to, amount] in order
    Holders,         \* addresses
    Undecodable,     \* the events that the decoder rejects
    ProcessFaults    \* bound: crashes, failed statements, failed requests

VARIABLES
    process,         \* phase, cursor (lastLedger), the page's end and what is left of it
    stopping,        \* a signal arrived
    savedCursor,     \* the checkpoint
    eventRows,       \* the events table
    balances,        \* token_balances
    credits,         \* mints whose balance was written
    lettered,        \* events with a dead letter
    cutShort,        \* whether a page was left in the middle by the signal
    processFaults

ipVars == <<process, stopping, savedCursor, eventRows, balances, credits, lettered,
            cutShort, processFaults>>
tables == <<eventRows, balances, credits, lettered>>

EventNumbers == DOMAIN TokenEvents

\* Events come in the order of their ledgers; a mint has no sender.
ASSUME TokenEventsAssumption ==
    /\ IsFiniteSet(Holders) /\ Len(TokenEvents) \in Nat \ {0} /\ EventNumbers = 1 .. Len(TokenEvents)
    /\ \A e \in EventNumbers :
          /\ TokenEvents[e].ledger \in Nat \ {0} /\ TokenEvents[e].amount \in Nat
          /\ TokenEvents[e].to \in Holders
          /\ (TokenEvents[e].from \in Holders) <=> TokenEvents[e].kind # "mint"
          /\ \A f \in EventNumbers : e <= f => TokenEvents[e].ledger <= TokenEvents[f].ledger

EndLedger == TokenEvents[Len(TokenEvents)].ledger
Starting == [phase |-> "starting", cursor |-> 0, page |-> {}, upTo |-> 0]

ProcessInit ==
    /\ process = Starting
    /\ stopping = FALSE
    /\ savedCursor = 0
    /\ eventRows = {} /\ lettered = {} /\ credits = {}
    /\ balances = [h \in Holders |-> 0]
    /\ cutShort = FALSE
    /\ processFaults = 0

Fault ==
    /\ processFaults < ProcessFaults
    /\ processFaults' = processFaults + 1

-----------------------------------------------------------------------------
(* Handlers: the row first, then the balances in a transaction of their own *)

Credited(b, h, n) == [b EXCEPT ![h] = @ + n]

\* A slip: a transfer does not debit its sender.
BalancesAfter_NoDebit(e) == Credited(balances, TokenEvents[e].to, TokenEvents[e].amount)

BalancesAfter(e) ==
    LET event == TokenEvents[e]
    IN  IF event.kind = "mint" THEN Credited(balances, event.to, event.amount)
        ELSE Credited(Credited(balances, event.from, -event.amount), event.to, event.amount)

Effect(e) ==
    /\ balances' = BalancesAfter(e)
    /\ credits' = IF TokenEvents[e].kind = "mint" THEN credits \union {e} ELSE credits

\* A slip: the answer of the insert is not looked at.
HandleTokenEvent_NoDedupe(e) ==
    /\ e \notin Undecodable
    /\ eventRows' = eventRows \union {e}
    /\ Effect(e)
    /\ UNCHANGED <<lettered, processFaults>>

\* Decoded and written; a row that is there already ends the handler.
HandleTokenEvent(e) ==
    /\ e \notin Undecodable
    /\ eventRows' = eventRows \union {e}
    /\ IF e \in eventRows THEN UNCHANGED <<balances, credits>> ELSE Effect(e)
    /\ UNCHANGED <<lettered, processFaults>>

\* Whatever is thrown becomes a dead letter: an event that cannot be decoded,
\* or a statement that fails, maybe after the row was written.
PersistDeadLetterEvent(e) ==
    /\ \/ e \in Undecodable /\ UNCHANGED <<eventRows, processFaults>>
       \/ Fault /\ eventRows' \in {eventRows, eventRows \union {e}}
    /\ lettered' = lettered \union {e}
    /\ UNCHANGED <<balances, credits>>

-----------------------------------------------------------------------------
GetCheckpoint ==
    /\ process.phase = "starting"
    /\ process' = [process EXCEPT !.phase = "polling", !.cursor = savedCursor]
    /\ UNCHANGED <<stopping, savedCursor, tables, cutShort, processFaults>>

\* A slip: the loop does not look at the signal.
FetchEvents_Deaf ==
    /\ process.phase = "polling"
    /\ \E upTo \in process.cursor .. EndLedger :
          process' = [process EXCEPT !.phase = "writing", !.upTo = upTo,
              !.page = {e \in EventNumbers : TokenEvents[e].ledger \in process.cursor + 1 .. upTo}]
    /\ UNCHANGED <<stopping, savedCursor, tables, cutShort, processFaults>>

FetchEvents ==
    /\ process.phase = "polling" /\ ~stopping
    /\ \E upTo \in process.cursor .. EndLedger :
          process' = [process EXCEPT !.phase = "writing", !.upTo = upTo,
              !.page = {e \in EventNumbers : TokenEvents[e].ledger \in process.cursor + 1 .. upTo}]
    /\ UNCHANGED <<stopping, savedCursor, tables, cutShort, processFaults>>

\* The poll failed: the loop sleeps and polls again.
FetchFails ==
    /\ process.phase = "polling" /\ ~stopping
    /\ Fault
    /\ UNCHANGED <<process, stopping, savedCursor, tables, cutShort>>

\* The page is worked off in the order of its events.
Earliest(page) == CHOOSE e \in page : \A other \in page : e <= other

\* Between two events the loop looks at the signal.
WriteEventToDb ==
    /\ process.phase = "writing" /\ process.page # {} /\ ~stopping
    /\ HandleTokenEvent(Earliest(process.page)) \/ PersistDeadLetterEvent(Earliest(process.page))
    /\ process' = [process EXCEPT !.page = @ \ {Earliest(@)}]
    /\ UNCHANGED <<stopping, savedCursor, cutShort>>

\* The signal leaves the loop, and the cursor still moves to the page's end.
LeavePage ==
    /\ process.phase = "writing" /\ process.page # {} /\ stopping
    /\ process' = [process EXCEPT !.page = {}]
    /\ cutShort' = TRUE
    /\ UNCHANGED <<stopping, savedCursor, tables, processFaults>>

\* A slip: the checkpoint is saved when the page arrives.
SaveCheckpoint_BeforeEvents ==
    /\ process.phase = "writing"
    /\ savedCursor' = process.upTo
    /\ process' = IF process.page = {} THEN [process EXCEPT !.phase = "polling", !.cursor = process.upTo]
                  ELSE process
    /\ UNCHANGED <<stopping, tables, cutShort, processFaults>>

SaveCheckpoint ==
    /\ process.phase = "writing" /\ process.page = {}
    /\ savedCursor' = process.upTo
    /\ process' = [process EXCEPT !.phase = "polling", !.cursor = process.upTo]
    /\ UNCHANGED <<stopping, tables, cutShort, processFaults>>

\* The signal handlers act on the first signal only.
RequestShutdown ==
    /\ ~stopping
    /\ stopping' = TRUE
    /\ UNCHANGED <<process, savedCursor, tables, cutShort, processFaults>>

FlushAndClose ==
    /\ process.phase = "polling" /\ stopping
    /\ process' = [process EXCEPT !.phase = "closed"]
    /\ savedCursor' = process.cursor
    /\ UNCHANGED <<stopping, tables, cutShort, processFaults>>

\* Killed between two statements and started again.
CrashAndRestart ==
    /\ process.phase \in {"polling", "writing"}
    /\ Fault
    /\ process' = Starting
    /\ stopping' = FALSE
    /\ UNCHANGED <<savedCursor, tables, cutShort>>

\* Killed after the row and before the balances.
CrashInHandler ==
    /\ process.phase = "writing" /\ process.page # {} /\ ~stopping
    /\ Earliest(process.page) \notin Undecodable
    /\ Fault
    /\ eventRows' = eventRows \union {Earliest(process.page)}
    /\ process' = Starting
    /\ UNCHANGED <<stopping, savedCursor, balances, credits, lettered, cutShort>>

ProcessNext ==
    \/ GetCheckpoint \/ FetchEvents \/ FetchFails \/ WriteEventToDb \/ LeavePage
    \/ SaveCheckpoint \/ RequestShutdown \/ FlushAndClose
    \/ CrashAndRestart \/ CrashInHandler

ProcessAwaited == GetCheckpoint \/ FetchEvents \/ WriteEventToDb \/ LeavePage
                  \/ SaveCheckpoint \/ FlushAndClose

\* The loop is one asynchronous function: whatever it awaits is answered.
ProcessFairness == WF_ipVars(ProcessAwaited)

ProcessSpec == ProcessInit /\ [][ProcessNext]_ipVars /\ ProcessFairness

-----------------------------------------------------------------------------
\* Every event up to the saved cursor has its row or a dead letter, whatever
\* crashed; only a shutdown in the middle of a page moves the cursor past
\* events that nobody looked at.
CursorCoversEvents ==
    ~cutShort =>
        \A e \in EventNumbers :
            TokenEvents[e].ledger <= savedCursor => e \in eventRows \union lettered

AmountOf == [e \in EventNumbers |-> TokenEvents[e].amount]

\* The balances add up to what was minted to them, although debits and credits
\* are separate statements that may fail.
BalancesAddUp ==
    SumFunctionOnSet(balances, Holders) = SumFunctionOnSet(AmountOf, credits)

\* What the events of a set leave a holder with.
Gained(h, events) == {e \in events \ Undecodable : TokenEvents[e].to = h}
Spent(h, events) == {e \in events \ Undecodable : TokenEvents[e].from = h}
HolderBalance(h, events) ==
    SumFunctionOnSet(AmountOf, Gained(h, events)) - SumFunctionOnSet(AmountOf, Spent(h, events))

\* Without a fault the balances of a caught-up indexer are the token's own.
BalancesAreCurrent ==
    (processFaults = 0 /\ ~cutShort /\ savedCursor = EndLedger) =>
        \A h \in Holders : balances[h] = HolderBalance(h, EventNumbers)

\* No event is passed over or applied twice, whatever crashed, and no token is
\* made or lost on the way into the balances.
TokenTablesAreSound == CursorCoversEvents /\ BalancesAddUp /\ BalancesAreCurrent

\* A signal ends the process: the loop is left and the cursor flushed.
ShutdownCompletes == []<>(stopping => process.phase = "closed")
=============================================================================
