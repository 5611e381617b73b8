----------------------------- MODULE Indexer_proofs -----------------------------
(***************************************************************************)
(* For any chain, indexers, pages and faults: the live mode applies every  *)
(* row once, and its checkpoint covers what it passed.  For any events     *)
(* and holders: the token's balances are those of the rows.  For any       *)
(* migrations and any number of programs that run side by side, crash and  *)
(* meet edited files: what schema_migrations says is what the schema has.  *)
(***************************************************************************)
EXTENDS IndexerProcess, Migrations, LivePolling, SequenceTheorems, SumFacts

-----------------------------------------------------------------------------
(* The indexer's process and the token's tables                             *)

ProcessTypeOK ==
    /\ process \in [phase : {"starting", "polling", "writing", "closed"}, cursor : Int,
                    page : SUBSET EventNumbers, upTo : Int]
    /\ savedCursor \in Int
    /\ eventRows \subseteq EventNumbers /\ lettered \subseteq EventNumbers
    /\ credits \subseteq eventRows
    /\ balances \in [Holders -> Int]
    /\ processFaults \in Nat

LookedAt == eventRows \cup lettered
Reached(ledger) == \A e \in EventNumbers : TokenEvents[e].ledger <= ledger => e \in LookedAt

\* CursorCoversEvents is of the saved cursor; the loop's own cursor goes ahead of
\* it, and a page's end ahead of both by the events that are left of the page.
PagesAreCovered ==
    ~cutShort =>
        /\ Reached(savedCursor) /\ Reached(process.cursor)
        /\ process.phase = "writing" =>
              \A e \in EventNumbers :
                  TokenEvents[e].ledger <= process.upTo => e \in LookedAt \cup process.page

\* BalancesAreCurrent is of a caught-up indexer; until then the balances are those
\* of the rows.
BalancesFollowRows ==
    processFaults = 0 =>
        /\ lettered \subseteq Undecodable
        /\ \A h \in Holders : balances[h] = HolderBalance(h, eventRows)

ProcessInv == ProcessTypeOK /\ PagesAreCovered /\ BalancesAddUp /\ BalancesFollowRows

LEMMA EventsAreFinite ==
    /\ IsFiniteSet(EventNumbers) /\ EventNumbers \subseteq Nat
    /\ \A e \in EventNumbers : AmountOf[e] \in Int /\ AmountOf[e] = TokenEvents[e].amount
<1>1. EventNumbers = 1 .. Len(TokenEvents) /\ Len(TokenEvents) \in Nat
    BY TokenEventsAssumption
<1>2. IsFiniteSet(EventNumbers)
    BY <1>1, FS_Interval
<1>3. \A e \in EventNumbers : TokenEvents[e].amount \in Int
    BY TokenEventsAssumption
<1> QED BY <1>1, <1>2, <1>3 DEF AmountOf

LEMMA EarliestIsOfPage ==
    ASSUME NEW page \in SUBSET EventNumbers, page # {}
    PROVE  Earliest(page) \in page
<1>1. page \subseteq Nat
    BY EventsAreFinite
<1>2. \E e \in page : \A other \in page : e <= other
    BY <1>1, LeastOfNaturals
<1> QED BY <1>2 DEF Earliest

LEMMA ProcessInitially == ProcessInit => ProcessInv
<1> SUFFICES ASSUME ProcessInit PROVE ProcessInv
    OBVIOUS
<1>1. ProcessTypeOK
    BY DEF ProcessInit, ProcessTypeOK, Starting
<1>2. PagesAreCovered
    <2>1. \A e \in EventNumbers : ~(TokenEvents[e].ledger <= 0)
        BY TokenEventsAssumption
    <2> QED BY <2>1 DEF ProcessInit, PagesAreCovered, Starting, Reached
<1>3. BalancesAddUp
    <2>1. SumFunctionOnSet(balances, Holders) = 0
        BY TokenEventsAssumption, SumOfZeros DEF ProcessInit
    <2>2. SumFunctionOnSet(AmountOf, credits) = 0
        BY SumOfNothing DEF ProcessInit
    <2> QED BY <2>1, <2>2 DEF BalancesAddUp
<1>4. BalancesFollowRows
    <2>1. \A h \in Holders : Gained(h, eventRows) = {} /\ Spent(h, eventRows) = {}
        BY DEF ProcessInit, Gained, Spent
    <2>2. \A h \in Holders : HolderBalance(h, eventRows) = 0
        BY <2>1, SumOfNothing DEF HolderBalance
    <2> QED BY <2>2 DEF ProcessInit, BalancesFollowRows
<1> QED BY <1>1, <1>2, <1>3, <1>4 DEF ProcessInv

\* The tables are left alone; faults only add up.
LEMMA TokenTablesKept ==
    ASSUME ProcessInv, UNCHANGED tables, processFaults' \in Nat,
           processFaults' = 0 => processFaults = 0
    PROVE  /\ BalancesAddUp' /\ BalancesFollowRows'
           /\ \A l : Reached(l)' <=> Reached(l)
           /\ eventRows' \subseteq EventNumbers /\ lettered' \subseteq EventNumbers
           /\ credits' \subseteq eventRows' /\ balances' \in [Holders -> Int]
<1>1. BalancesAddUp'
    BY DEF ProcessInv, BalancesAddUp, tables
<1>2. BalancesFollowRows'
    BY DEF ProcessInv, BalancesFollowRows, tables, HolderBalance, Gained, Spent
<1>3. \A l : Reached(l)' <=> Reached(l)
    BY DEF Reached, LookedAt, tables
<1> QED BY <1>1, <1>2, <1>3 DEF ProcessInv, ProcessTypeOK, tables

\* What holder h gains and spends by event e.
Change(h, e) == (IF TokenEvents[e].to = h THEN TokenEvents[e].amount ELSE 0)
                - (IF TokenEvents[e].from = h THEN TokenEvents[e].amount ELSE 0)

LEMMA BalanceOfOneMore ==
    ASSUME NEW held \in SUBSET EventNumbers, NEW e \in EventNumbers, e \notin held,
           e \notin Undecodable, NEW h \in Holders
    PROVE  HolderBalance(h, held \cup {e}) = HolderBalance(h, held) + Change(h, e)
<1>1. /\ IsFiniteSet(Gained(h, held)) /\ Gained(h, held) \subseteq EventNumbers
      /\ IsFiniteSet(Spent(h, held)) /\ Spent(h, held) \subseteq EventNumbers
    <2>1. Gained(h, held) \subseteq EventNumbers /\ Spent(h, held) \subseteq EventNumbers
        BY DEF Gained, Spent
    <2> QED BY <2>1, EventsAreFinite, FS_Subset
<1>2. /\ e \notin Gained(h, held) /\ e \notin Spent(h, held)
      /\ Gained(h, held \cup {e}) = IF TokenEvents[e].to = h THEN Gained(h, held) \cup {e}
                                    ELSE Gained(h, held)
      /\ Spent(h, held \cup {e}) = IF TokenEvents[e].from = h THEN Spent(h, held) \cup {e}
                                   ELSE Spent(h, held)
    BY DEF Gained, Spent
<1>3. ASSUME NEW S, IsFiniteSet(S), S \subseteq EventNumbers, e \notin S
      PROVE  /\ SumFunctionOnSet(AmountOf, S) \in Int
             /\ SumFunctionOnSet(AmountOf, S \cup {e})
                  = SumFunctionOnSet(AmountOf, S) + TokenEvents[e].amount
    <2>1. \A x \in S \cup {e} : AmountOf[x] \in Int
        BY <1>3, EventsAreFinite
    <2>2. SumFunctionOnSet(AmountOf, S \cup {e}) = SumFunctionOnSet(AmountOf, S) + AmountOf[e]
        BY <1>3, <2>1, SumOfOneMore
    <2>3. SumFunctionOnSet(AmountOf, S) \in Int
        BY <1>3, <2>1, SumSplits
    <2> QED BY <2>2, <2>3, EventsAreFinite
<1> DEFINE g == SumFunctionOnSet(AmountOf, Gained(h, held))
           s == SumFunctionOnSet(AmountOf, Spent(h, held))
           g1 == SumFunctionOnSet(AmountOf, Gained(h, held \cup {e}))
           s1 == SumFunctionOnSet(AmountOf, Spent(h, held \cup {e}))
           n == TokenEvents[e].amount
<1>4. g \in Int /\ g1 = IF TokenEvents[e].to = h THEN g + n ELSE g
    BY <1>1, <1>2, <1>3
<1>5. s \in Int /\ s1 = IF TokenEvents[e].from = h THEN s + n ELSE s
    BY <1>1, <1>2, <1>3
<1>6. n \in Int
    BY EventsAreFinite
<1>7. HolderBalance(h, held) = g - s /\ HolderBalance(h, held \cup {e}) = g1 - s1
    BY DEF HolderBalance
<1>8. Change(h, e) = (IF TokenEvents[e].to = h THEN n ELSE 0)
                     - (IF TokenEvents[e].from = h THEN n ELSE 0)
    BY DEF Change
<1> HIDE DEF g, s, g1, s1, n
<1> QED BY <1>4, <1>5, <1>6, <1>7, <1>8

Balances == [Holders -> Int]
\* Holder h of b gets k more, and nobody else.
GivesMore(b, h, k) ==
    /\ Credited(b, h, k) \in Balances
    /\ \A x \in Holders : Credited(b, h, k)[x] = IF x = h THEN b[x] + k ELSE b[x]
    /\ SumFunctionOnSet(b, Holders) \in Int
    /\ SumFunctionOnSet(Credited(b, h, k), Holders) = SumFunctionOnSet(b, Holders) + k

LEMMA CreditedGivesMore ==
    \A b \in Balances, h \in Holders, k \in Int : GivesMore(b, h, k)
<1> SUFFICES ASSUME NEW b \in Balances, NEW h \in Holders, NEW k \in Int PROVE GivesMore(b, h, k)
    OBVIOUS
<1> DEFINE c == Credited(b, h, k)
<1>0. IsFiniteSet(Holders) /\ b \in [Holders -> Int]
    BY TokenEventsAssumption DEF Balances
<1>1. c \in [Holders -> Int] /\ \A x \in Holders : c[x] = IF x = h THEN b[x] + k ELSE b[x]
    BY <1>0 DEF Credited
<1> HIDE DEF c
<1>2. SumFunctionOnSet(b, Holders) \in Int
    BY <1>0, SumSplits
<1>3. SumFunctionOnSet(c, Holders) = SumFunctionOnSet(b, Holders) + c[h] - b[h]
    BY <1>0, <1>1, SumOfUpdate
<1>4. c[h] = b[h] + k /\ b[h] \in Int
    BY <1>0, <1>1
<1>5. SumFunctionOnSet(c, Holders) = SumFunctionOnSet(b, Holders) + k
    BY <1>2, <1>3, <1>4
<1> QED BY <1>1, <1>2, <1>5 DEF c, GivesMore, Balances

\* An event moves its amount: by a mint to its recipient, by a transfer from its
\* sender, who may be the recipient.
LEMMA EventMoves ==
    ASSUME ProcessInv, NEW e \in EventNumbers
    PROVE  /\ BalancesAfter(e) \in [Holders -> Int]
           /\ \A h \in Holders : BalancesAfter(e)[h] = balances[h] + Change(h, e)
           /\ SumFunctionOnSet(BalancesAfter(e), Holders) =
                SumFunctionOnSet(balances, Holders)
                + (IF TokenEvents[e].kind = "mint" THEN TokenEvents[e].amount ELSE 0)
<1> DEFINE to == TokenEvents[e].to
           from == TokenEvents[e].from
           n == TokenEvents[e].amount
<1>1. /\ balances \in [Holders -> Int] /\ n \in Int /\ to \in Holders /\ IsFiniteSet(Holders)
      /\ from \in Holders <=> TokenEvents[e].kind # "mint"
    BY TokenEventsAssumption DEF ProcessInv, ProcessTypeOK
<1>2. Change(to, e) = n - (IF from = to THEN n ELSE 0)
    BY DEF Change
<1>4. CASE TokenEvents[e].kind = "mint"
    <2>1. BalancesAfter(e) = Credited(balances, to, n)
        BY <1>4 DEF BalancesAfter
    <2>2. \A h \in Holders : Change(h, e) = IF h = to THEN n ELSE 0
        BY <1>1, <1>4 DEF Change
    <2> DEFINE c == Credited(balances, to, n)
    <2>3. /\ c \in [Holders -> Int]
          /\ \A x \in Holders : c[x] = IF x = to THEN balances[x] + n ELSE balances[x]
          /\ SumFunctionOnSet(c, Holders) = SumFunctionOnSet(balances, Holders) + n
        <3>1. balances \in Balances
            BY <1>1 DEF Balances
        <3>2. GivesMore(balances, to, n)
            BY Zenon, <1>1, <3>1, CreditedGivesMore
        <3> QED BY <3>2 DEF GivesMore, Balances
    <2> HIDE DEF c
    <2>4. \A h \in Holders : c[h] = balances[h] + Change(h, e)
        <3> TAKE h \in Holders
        <3>1. balances[h] \in Int /\ n \in Int
            BY <1>1
        <3> QED BY <2>2, <2>3, <3>1
    <2>5. BalancesAfter(e) = c
        BY <2>1 DEF c
    <2> QED BY <1>4, <2>3, <2>4, <2>5
<1>5. CASE TokenEvents[e].kind # "mint"
    <2> DEFINE c == Credited(balances, from, -n)
    <2>1. BalancesAfter(e) = Credited(c, to, n)
        BY <1>5 DEF BalancesAfter
    <2>2. /\ c \in [Holders -> Int]
          /\ \A x \in Holders : c[x] = IF x = from THEN balances[x] + (-n) ELSE balances[x]
          /\ SumFunctionOnSet(balances, Holders) \in Int
          /\ SumFunctionOnSet(c, Holders) = SumFunctionOnSet(balances, Holders) + (-n)
        <3>1. -n \in Int /\ from \in Holders
            BY <1>1, <1>5
        <3>2. balances \in Balances
            BY <1>1 DEF Balances
        <3>3. GivesMore(balances, from, -n)
            BY Zenon, <3>1, <3>2, CreditedGivesMore
        <3> QED BY <3>3 DEF GivesMore, Balances
    <2> HIDE DEF c
    <2>3. /\ Credited(c, to, n) \in [Holders -> Int]
          /\ \A x \in Holders : Credited(c, to, n)[x] = IF x = to THEN c[x] + n ELSE c[x]
          /\ SumFunctionOnSet(Credited(c, to, n), Holders) = SumFunctionOnSet(c, Holders) + n
        <3>1. c \in Balances
            BY <2>2 DEF Balances
        <3>2. GivesMore(c, to, n)
            BY Zenon, <1>1, <3>1, CreditedGivesMore
        <3> QED BY <3>2 DEF GivesMore, Balances
    <2>4. \A h \in Holders : Credited(c, to, n)[h] = balances[h] + Change(h, e)
        <3> TAKE h \in Holders
        <3>1. balances[h] \in Int
            BY <1>1
        <3>2. c[h] = IF h = from THEN balances[h] - n ELSE balances[h]
            BY <1>1, <2>2, <3>1
        <3>3. Credited(c, to, n)[h] = IF h = to THEN c[h] + n ELSE c[h]
            BY <2>3
        <3>4. Change(h, e) = (IF to = h THEN n ELSE 0) - (IF from = h THEN n ELSE 0)
            BY DEF Change
        <3>5. n \in Int
            BY <1>1
        <3> HIDE DEF to, from, n, c
        <3>6. CASE h = to /\ h = from
            BY <3>1, <3>2, <3>3, <3>4, <3>5, <3>6
        <3>7. CASE h = to /\ h # from
            BY <3>1, <3>2, <3>3, <3>4, <3>5, <3>7
        <3>8. CASE h # to /\ h = from
            BY <3>1, <3>2, <3>3, <3>4, <3>5, <3>8
        <3>9. CASE h # to /\ h # from
            BY <3>1, <3>2, <3>3, <3>4, <3>5, <3>9
        <3> QED BY <3>6, <3>7, <3>8, <3>9
    <2>5. SumFunctionOnSet(Credited(c, to, n), Holders) = SumFunctionOnSet(balances, Holders)
        BY <1>1, <2>2, <2>3
    <2>6. SumFunctionOnSet(balances, Holders) + 0 = SumFunctionOnSet(balances, Holders)
        BY <2>2
    <2> QED BY <1>5, <2>1, <2>3, <2>4, <2>5, <2>6
<1> QED BY <1>4, <1>5

\* An event's row is written and its amounts are moved, unless the row was there.
LEMMA RowIsWritten ==
    ASSUME ProcessInv, NEW e \in EventNumbers, HandleTokenEvent(e)
    PROVE  /\ eventRows' = eventRows \cup {e} /\ lettered' = lettered
           /\ processFaults' = processFaults
           /\ credits' \subseteq eventRows' /\ balances' \in [Holders -> Int]
           /\ BalancesAddUp' /\ BalancesFollowRows'
<1>1. /\ eventRows' = eventRows \cup {e} /\ lettered' = lettered /\ e \notin Undecodable
      /\ processFaults' = processFaults
    BY DEF HandleTokenEvent
<1>2. /\ balances \in [Holders -> Int] /\ credits \subseteq eventRows
      /\ eventRows \subseteq EventNumbers
    BY DEF ProcessInv, ProcessTypeOK
<1>3. CASE e \in eventRows
    <2>1. UNCHANGED <<balances, credits, eventRows>>
        BY <1>1, <1>3 DEF HandleTokenEvent
    <2>2. BalancesAddUp' /\ BalancesFollowRows'
        BY <1>1, <2>1 DEF ProcessInv, BalancesAddUp, BalancesFollowRows, HolderBalance, Gained, Spent
    <2> QED BY <1>1, <1>2, <2>1, <2>2
<1>4. CASE e \notin eventRows
    <2>1. /\ balances' = BalancesAfter(e)
          /\ credits' = IF TokenEvents[e].kind = "mint" THEN credits \cup {e} ELSE credits
        BY <1>4 DEF HandleTokenEvent, Effect
    <2>2. BalancesAddUp'
        <3>1. SumFunctionOnSet(balances, Holders) = SumFunctionOnSet(AmountOf, credits)
            BY DEF ProcessInv, BalancesAddUp
        <3>2. SumFunctionOnSet(balances', Holders) = SumFunctionOnSet(balances, Holders)
                + (IF TokenEvents[e].kind = "mint" THEN TokenEvents[e].amount ELSE 0)
            BY <2>1, EventMoves
        <3>3. IsFiniteSet(credits) /\ e \notin credits /\ \A x \in credits \cup {e} : AmountOf[x] \in Int
            BY <1>2, <1>4, EventsAreFinite, FS_Subset
        <3>4. SumFunctionOnSet(AmountOf, credits) \in Int
            BY <3>3, SumSplits
        <3>5. SumFunctionOnSet(AmountOf, credits \cup {e})
                = SumFunctionOnSet(AmountOf, credits) + TokenEvents[e].amount
            BY <3>3, SumOfOneMore, EventsAreFinite
        <3>6. SumFunctionOnSet(balances', Holders) = SumFunctionOnSet(AmountOf, credits')
            BY <2>1, <3>1, <3>2, <3>4, <3>5
        <3>7. AmountOf' = AmountOf
            BY DEF AmountOf, EventNumbers
        <3> QED BY <3>6, <3>7 DEF BalancesAddUp
    <2>3. BalancesFollowRows'
        <3> SUFFICES ASSUME processFaults = 0
                     PROVE  /\ lettered \subseteq Undecodable
                            /\ \A h \in Holders : balances'[h] = HolderBalance(h, eventRows \cup {e})
            <4>1. \A h \in Holders : HolderBalance(h, eventRows)' = HolderBalance(h, eventRows \cup {e})
                BY <1>1 DEF HolderBalance, Gained, Spent, AmountOf, EventNumbers
            <4> QED BY <1>1, <4>1 DEF BalancesFollowRows
        <3>4. lettered \subseteq Undecodable
            BY DEF ProcessInv, BalancesFollowRows
        <3> SUFFICES ASSUME NEW h \in Holders
                     PROVE  balances'[h] = HolderBalance(h, eventRows \cup {e})
            BY <3>4
        <3>1. balances[h] = HolderBalance(h, eventRows)
            BY DEF ProcessInv, BalancesFollowRows
        <3>2. balances'[h] = balances[h] + Change(h, e)
            BY <2>1, EventMoves
        <3>3. HolderBalance(h, eventRows \cup {e}) = HolderBalance(h, eventRows) + Change(h, e)
            BY <1>1, <1>2, <1>4, BalanceOfOneMore
        <3> QED BY <3>1, <3>2, <3>3
    <2> QED BY <1>1, <1>2, <2>1, <2>2, <2>3, EventMoves
<1> QED BY <1>3, <1>4

\* A fault, or an event that no decoder takes: rows may be written, amounts are not.
LEMMA RowsWithoutEffect ==
    ASSUME ProcessInv, eventRows \subseteq eventRows', eventRows' \subseteq EventNumbers,
           lettered' \subseteq EventNumbers, UNCHANGED <<balances, credits>>,
           processFaults' \in Nat,
           processFaults' = 0 => /\ processFaults = 0 /\ eventRows' = eventRows
                                 /\ lettered' \subseteq Undecodable \cup lettered
    PROVE  BalancesAddUp' /\ BalancesFollowRows' /\ credits' \subseteq eventRows'
<1>1. BalancesAddUp'
    <2>1. AmountOf' = AmountOf
        BY DEF AmountOf, EventNumbers
    <2> QED BY <2>1 DEF ProcessInv, BalancesAddUp
<1>2. BalancesFollowRows'
    BY DEF ProcessInv, BalancesFollowRows, HolderBalance, Gained, Spent
<1> QED BY <1>1, <1>2 DEF ProcessInv, ProcessTypeOK

\* The steps of the loop that leave the tables alone.
LEMMA LoopKeeps ==
    ASSUME ProcessInv, UNCHANGED tables,
           \/ GetCheckpoint \/ FetchEvents \/ FetchFails \/ LeavePage \/ SaveCheckpoint
           \/ RequestShutdown \/ FlushAndClose \/ CrashAndRestart
    PROVE  ProcessInv'
<1>1. processFaults' \in Nat /\ (processFaults' = 0 => processFaults = 0)
    <2>1. processFaults' = processFaults \/ Fault
        BY DEF GetCheckpoint, FetchEvents, FetchFails, LeavePage, SaveCheckpoint, RequestShutdown,
               FlushAndClose, CrashAndRestart
    <2> QED BY <2>1 DEF ProcessInv, ProcessTypeOK, Fault
<1>2. /\ BalancesAddUp' /\ BalancesFollowRows'
      /\ \A l : Reached(l)' <=> Reached(l)
      /\ eventRows' \subseteq EventNumbers /\ lettered' \subseteq EventNumbers
      /\ credits' \subseteq eventRows' /\ balances' \in [Holders -> Int]
    BY <1>1, TokenTablesKept
<1>3. LookedAt' = LookedAt
    BY DEF LookedAt, tables
<1>4. \A e \in EventNumbers : TokenEvents[e].ledger \in Nat \ {0}
    BY TokenEventsAssumption
<1>5. ProcessTypeOK /\ PagesAreCovered
    BY DEF ProcessInv
<1> DEFINE phases == {"starting", "polling", "writing", "closed"}
           InPhase == process' \in [phase : phases, cursor : Int, page : SUBSET EventNumbers, upTo : Int]
<1> SUFFICES InPhase /\ savedCursor' \in Int /\ PagesAreCovered'
    BY <1>1, <1>2 DEF ProcessInv, ProcessTypeOK
<1>6. CASE GetCheckpoint
    BY <1>3, <1>5, <1>6 DEF GetCheckpoint, ProcessTypeOK, PagesAreCovered, Reached
<1>7. CASE FetchEvents
    <2>1. PICK upTo \in process.cursor .. EndLedger :
            process' = [process EXCEPT !.phase = "writing", !.upTo = upTo,
              !.page = {e \in EventNumbers : TokenEvents[e].ledger \in process.cursor + 1 .. upTo}]
        BY <1>7 DEF FetchEvents
    <2> DEFINE page == {e \in EventNumbers : TokenEvents[e].ledger \in process.cursor + 1 .. upTo}
    <2>2. UNCHANGED <<savedCursor, cutShort>> /\ process.cursor \in Int /\ upTo \in Int
        <3>1. UNCHANGED <<savedCursor, cutShort>>
            BY <1>7 DEF FetchEvents
        <3>2. process.cursor \in Int
            BY <1>5 DEF ProcessTypeOK
        <3>3. EndLedger \in Int
            BY <1>4, TokenEventsAssumption DEF EndLedger
        <3> QED BY <3>1, <3>2, <3>3
    <2>3. /\ process'.phase = "writing" /\ process'.upTo = upTo /\ process'.page = page
          /\ process'.cursor = process.cursor
        BY <1>5, <2>1 DEF ProcessTypeOK
    <2>4. InPhase
        BY <1>5, <2>1, <2>2 DEF ProcessTypeOK
    <2>5. PagesAreCovered'
        <3> SUFFICES ASSUME ~cutShort
                     PROVE  /\ Reached(savedCursor)' /\ Reached(process.cursor)'
                            /\ \A e \in EventNumbers :
                                 TokenEvents[e].ledger <= upTo => e \in LookedAt \cup page
            BY <1>3, <2>2, <2>3 DEF PagesAreCovered
        <3>1. Reached(savedCursor) /\ Reached(process.cursor)
            BY <1>5 DEF PagesAreCovered
        <3>2. Reached(savedCursor)' /\ Reached(process.cursor)'
            BY <1>3, <2>2, <2>3, <3>1 DEF Reached
        <3>3. ASSUME NEW e \in EventNumbers, TokenEvents[e].ledger <= upTo, e \notin page
              PROVE  e \in LookedAt
            <4>1. TokenEvents[e].ledger <= process.cursor
                BY <1>4, <2>2, <3>3
            <4> QED BY <3>1, <4>1 DEF Reached
        <3> QED BY <3>2, <3>3
    <2> QED BY <1>5, <2>2, <2>4, <2>5 DEF ProcessTypeOK
<1>8. CASE FetchFails \/ RequestShutdown
    BY <1>3, <1>5, <1>8 DEF FetchFails, RequestShutdown, ProcessTypeOK, PagesAreCovered, Reached
<1>9. CASE LeavePage
    BY <1>5, <1>9 DEF LeavePage, ProcessTypeOK, PagesAreCovered
<1>10. CASE SaveCheckpoint
    BY <1>3, <1>5, <1>10 DEF SaveCheckpoint, ProcessTypeOK, PagesAreCovered, Reached
<1>11. CASE FlushAndClose
    BY <1>3, <1>5, <1>11 DEF FlushAndClose, ProcessTypeOK, PagesAreCovered, Reached
<1>12. CASE CrashAndRestart
    BY <1>3, <1>4, <1>5, <1>12 DEF CrashAndRestart, Starting, ProcessTypeOK, PagesAreCovered, Reached
<1> QED BY <1>6, <1>7, <1>8, <1>9, <1>10, <1>11, <1>12

\* The rows or the dead letters grow by an event of the page.
LEMMA CoverageGrows ==
    ASSUME ProcessInv, NEW e \in process.page, process.phase = "writing",
           LookedAt \subseteq LookedAt', UNCHANGED <<savedCursor, cutShort>>,
           \/ process' = [process EXCEPT !.page = @ \ {e}] /\ e \in LookedAt'
           \/ process' = Starting
    PROVE  PagesAreCovered'
<1>1. ProcessTypeOK /\ PagesAreCovered
    BY DEF ProcessInv
<1>2. \A l : Reached(l) => Reached(l)'
    BY DEF Reached
<1>3. \A f \in EventNumbers : TokenEvents[f].ledger \in Nat \ {0}
    BY TokenEventsAssumption
<1>4. CASE process' = [process EXCEPT !.page = @ \ {e}] /\ e \in LookedAt'
    <2>1. /\ process'.phase = "writing" /\ process'.cursor = process.cursor
          /\ process'.upTo = process.upTo /\ process'.page = process.page \ {e}
        BY <1>1, <1>4 DEF ProcessTypeOK
    <2> SUFFICES ASSUME ~cutShort
                 PROVE  /\ Reached(savedCursor)' /\ Reached(process.cursor)'
                        /\ \A f \in EventNumbers : TokenEvents[f].ledger <= process.upTo
                               => f \in LookedAt' \cup (process.page \ {e})
        BY <2>1 DEF PagesAreCovered
    <2>2. Reached(savedCursor)' /\ Reached(process.cursor)'
        BY <1>1, <2>1 DEF PagesAreCovered, Reached
    <2>3. \A f \in EventNumbers : TokenEvents[f].ledger <= process.upTo
                => f \in LookedAt \cup process.page
        BY <1>1 DEF PagesAreCovered
    <2> QED BY <1>4, <2>2, <2>3
<1>5. CASE process' = Starting
    <2>1. process'.phase = "starting" /\ process'.cursor = 0
        BY <1>5 DEF Starting
    <2>2. Reached(process.cursor)'
        BY <1>3, <2>1 DEF Reached
    <2>3. ~cutShort => Reached(savedCursor)'
        BY <1>1 DEF PagesAreCovered, Reached
    <2> QED BY <2>1, <2>2, <2>3 DEF PagesAreCovered
<1> QED BY <1>4, <1>5

LEMMA WriteKeeps ==
    ASSUME ProcessInv, WriteEventToDb
    PROVE  ProcessInv'
<1> DEFINE first == Earliest(process.page)
<1>1. PICK e \in process.page : e = first /\ e \in EventNumbers
    BY EarliestIsOfPage DEF ProcessInv, ProcessTypeOK, WriteEventToDb
<1>2. /\ process.phase = "writing" /\ UNCHANGED <<stopping, savedCursor, cutShort>>
      /\ process' = [process EXCEPT !.page = @ \ {e}]
      /\ HandleTokenEvent(e) \/ PersistDeadLetterEvent(e)
    BY <1>1 DEF WriteEventToDb
<1>3. ProcessTypeOK
    BY DEF ProcessInv
<1>4. /\ process' \in [phase : {"starting", "polling", "writing", "closed"}, cursor : Int,
                       page : SUBSET EventNumbers, upTo : Int]
      /\ savedCursor' \in Int
    BY <1>2, <1>3 DEF ProcessTypeOK
<1>5. CASE HandleTokenEvent(e)
    <2>1. /\ eventRows' = eventRows \cup {e} /\ lettered' = lettered
          /\ processFaults' = processFaults
          /\ credits' \subseteq eventRows' /\ balances' \in [Holders -> Int]
          /\ BalancesAddUp' /\ BalancesFollowRows'
        BY <1>1, <1>5, RowIsWritten
    <2>2. PagesAreCovered'
        BY <1>2, <2>1, CoverageGrows DEF LookedAt
    <2> QED BY <1>1, <1>3, <1>4, <2>1, <2>2 DEF ProcessInv, ProcessTypeOK
<1>6. CASE PersistDeadLetterEvent(e)
    <2>1. /\ eventRows \subseteq eventRows' /\ eventRows' \subseteq EventNumbers
          /\ lettered' = lettered \cup {e} /\ UNCHANGED <<balances, credits>>
          /\ processFaults' \in Nat
          /\ processFaults' = 0 => /\ processFaults = 0 /\ eventRows' = eventRows
                                   /\ e \in Undecodable
        BY <1>1, <1>3, <1>6 DEF PersistDeadLetterEvent, Fault, ProcessTypeOK
    <2>2. BalancesAddUp' /\ BalancesFollowRows' /\ credits' \subseteq eventRows'
        BY <1>1, <1>3, <2>1, RowsWithoutEffect DEF ProcessTypeOK
    <2>3. PagesAreCovered'
        BY <1>2, <2>1, CoverageGrows DEF LookedAt
    <2> QED BY <1>1, <1>3, <1>4, <2>1, <2>2, <2>3 DEF ProcessInv, ProcessTypeOK
<1> QED BY <1>2, <1>5, <1>6

LEMMA CrashKeeps ==
    ASSUME ProcessInv, CrashInHandler
    PROVE  ProcessInv'
<1>1. PICK e \in process.page : e = Earliest(process.page) /\ e \in EventNumbers
    BY EarliestIsOfPage DEF ProcessInv, ProcessTypeOK, CrashInHandler
<1>2. /\ process.phase = "writing" /\ UNCHANGED <<savedCursor, cutShort, balances, credits, lettered>>
      /\ process' = Starting /\ eventRows' = eventRows \cup {e} /\ Fault
    BY <1>1 DEF CrashInHandler
<1>3. ProcessTypeOK
    BY DEF ProcessInv
<1>4. processFaults' \in Nat /\ processFaults' # 0
    BY <1>2, <1>3 DEF Fault, ProcessTypeOK
<1>5. BalancesAddUp' /\ BalancesFollowRows' /\ credits' \subseteq eventRows'
    BY <1>1, <1>2, <1>3, <1>4, RowsWithoutEffect DEF ProcessTypeOK
<1>6. PagesAreCovered'
    BY <1>2, CoverageGrows DEF LookedAt
<1>7. ProcessTypeOK'
    BY <1>1, <1>2, <1>3, <1>4, <1>5 DEF ProcessTypeOK, Starting
<1> QED BY <1>5, <1>6, <1>7 DEF ProcessInv

\* The inductive invariant of the loop: what the cursors and the page's end pass
\* over is looked at or in the page, and the balances are those of the rows.
THEOREM ProcessInvariant == ProcessSpec => []ProcessInv
<1>1. ASSUME ProcessInv, [ProcessNext]_ipVars PROVE ProcessInv'
    <2>1. CASE \/ GetCheckpoint \/ FetchEvents \/ FetchFails \/ LeavePage \/ SaveCheckpoint
               \/ RequestShutdown \/ FlushAndClose \/ CrashAndRestart
        <3>1. UNCHANGED tables
            BY <2>1 DEF GetCheckpoint, FetchEvents, FetchFails, LeavePage, SaveCheckpoint,
                        RequestShutdown, FlushAndClose, CrashAndRestart, tables
        <3> QED BY <1>1, <2>1, <3>1, LoopKeeps
    <2>2. CASE WriteEventToDb
        BY <1>1, <2>2, WriteKeeps
    <2>3. CASE CrashInHandler
        BY <1>1, <2>3, CrashKeeps
    <2>4. CASE UNCHANGED ipVars
        <3>1. UNCHANGED tables /\ UNCHANGED <<process, savedCursor, cutShort, processFaults>>
            BY <2>4 DEF ipVars, tables
        <3>2. processFaults' \in Nat /\ (processFaults' = 0 => processFaults = 0)
            BY <1>1, <3>1 DEF ProcessInv, ProcessTypeOK
        <3>3. ProcessTypeOK' /\ PagesAreCovered'
            BY <1>1, <3>1 DEF ProcessInv, ProcessTypeOK, PagesAreCovered, Reached, LookedAt, tables
        <3> QED BY <1>1, <3>1, <3>2, <3>3, TokenTablesKept DEF ProcessInv
    <2> QED BY <1>1, <2>1, <2>2, <2>3, <2>4 DEF ProcessNext
<1> QED BY <1>1, ProcessInitially, PTL DEF ProcessSpec

\* No event is passed over or applied twice, whatever crashes between two
\* statements, and the balances add up to what was minted.
THEOREM TokenTablesAlwaysSound == ProcessSpec => []TokenTablesAreSound
<1>1. ProcessInv => TokenTablesAreSound
    <2> SUFFICES ASSUME ProcessInv PROVE TokenTablesAreSound
        OBVIOUS
    <2>1. CursorCoversEvents
        BY DEF ProcessInv, PagesAreCovered, Reached, LookedAt, CursorCoversEvents
    <2>2. BalancesAddUp
        BY DEF ProcessInv
    <2>3. BalancesAreCurrent
        <3> SUFFICES ASSUME processFaults = 0, ~cutShort, savedCursor = EndLedger, NEW h \in Holders
                     PROVE  balances[h] = HolderBalance(h, EventNumbers)
            BY DEF BalancesAreCurrent
        <3>1. \A e \in EventNumbers : TokenEvents[e].ledger <= EndLedger
            BY TokenEventsAssumption DEF EndLedger
        <3>2. EventNumbers \subseteq eventRows \cup lettered
            BY <2>1, <3>1 DEF CursorCoversEvents
        <3>3. /\ lettered \subseteq Undecodable /\ eventRows \subseteq EventNumbers
              /\ balances[h] = HolderBalance(h, eventRows)
            BY DEF ProcessInv, ProcessTypeOK, BalancesFollowRows
        <3>4. Gained(h, EventNumbers) = Gained(h, eventRows) /\ Spent(h, EventNumbers) = Spent(h, eventRows)
            BY <3>2, <3>3 DEF Gained, Spent
        <3> QED BY <3>3, <3>4 DEF HolderBalance
    <2> QED BY <2>1, <2>2, <2>3 DEF TokenTablesAreSound
<1> QED BY <1>1, ProcessInvariant, PTL

-----------------------------------------------------------------------------
(* The programs that change the schema                                      *)

Rows == [file : {Up(m) : m \in Names}, sum : Nat]
Resting == {NotRun}
Working == [kind : {"migrate", "down"}, allow : BOOLEAN, dry : BOOLEAN, at : Int,
            file : Seq([name : Names, down : BOOLEAN]), sql : Int,
            step : {"lock", "next", "execute", "record"}]

\* RowsMatchTheSchema and SumsAreOfTheSchema are not inductive: a program that has
\* run its SQL must find no row, or the row that it writes would be a second one.
MigTypeOK ==
    /\ schema \in [Names -> Nat \cup {Absent}]
    /\ applied \in Seq(Rows)
    /\ edition \in [Names -> Nat]
    /\ run \in [Programs -> Resting \cup Working]

\* What a program w is at, and the lock it must hold for it.
AtWork(w) == w.step \in {"execute", "record"}
Named(w) ==
    AtWork(w) =>
        \E m \in Names :
            /\ w.kind = "migrate" => w.file = <<Up(m)>> /\ w.sql \in Nat
            /\ w.kind = "down" => w.file = <<Down(m)>>
NeedsLock(w) == /\ w.kind = "migrate"
                /\ AtWork(w) \/ (w.step = "next" /\ ~w.dry)

FilesAreNamed == \A r \in Programs : Named(run[r])
LockIsHeld == \A r \in Programs : NeedsLock(run[r]) => lock = r

RowsAreDistinct ==
    \A i, j \in DOMAIN applied : applied[i].file = applied[j].file => i = j

MigInv == /\ MigTypeOK /\ FilesAreNamed /\ LockIsHeld /\ RowsAreDistinct
          /\ RowsMatchTheSchema /\ SumsAreOfTheSchema /\ RunnersDoNotCollide

\* What is left of a sequence without its i-th element.
LEMMA RowRemoved ==
    ASSUME NEW T, NEW s \in Seq(T), NEW i \in DOMAIN s
    PROVE  /\ RemoveAt(s, i) \in Seq(T)
           /\ Len(RemoveAt(s, i)) = Len(s) - 1
           /\ \A j \in 1 .. Len(s) - 1 :
                RemoveAt(s, i)[j] = IF j < i THEN s[j] ELSE s[j + 1]
<1>1. i \in 1 .. Len(s) /\ Len(s) \in Nat
    OBVIOUS
<1>2. SubSeq(s, 1, i - 1) \in Seq(T) /\ Len(SubSeq(s, 1, i - 1)) = i - 1
    BY <1>1, SubSeqProperties
<1>3. SubSeq(s, i + 1, Len(s)) \in Seq(T) /\ Len(SubSeq(s, i + 1, Len(s))) = Len(s) - i
    BY <1>1, SubSeqProperties
<1>4. \A j \in 1 .. i - 1 : SubSeq(s, 1, i - 1)[j] = s[j]
    BY <1>1, SubSeqProperties
<1>5. \A j \in 1 .. Len(s) - i : SubSeq(s, i + 1, Len(s))[j] = s[i + j]
    BY <1>1, SubSeqProperties
<1> DEFINE a == SubSeq(s, 1, i - 1)
           b == SubSeq(s, i + 1, Len(s))
<1> HIDE DEF a, b
<1>6. RemoveAt(s, i) = a \o b
    BY DEF RemoveAt, a, b
<1>7. a \in Seq(T) /\ b \in Seq(T) /\ Len(a) = i - 1 /\ Len(b) = Len(s) - i
    BY <1>2, <1>3 DEF a, b
<1>8. /\ a \o b \in Seq(T) /\ Len(a \o b) = Len(s) - 1
      /\ \A j \in 1 .. Len(s) - 1 : (a \o b)[j] = IF j <= i - 1 THEN a[j] ELSE b[j - (i - 1)]
    <2>1. /\ a \o b \in Seq(T) /\ Len(a \o b) = Len(a) + Len(b)
          /\ \A j \in 1 .. Len(a) + Len(b) :
                (a \o b)[j] = IF j <= Len(a) THEN a[j] ELSE b[j - Len(a)]
        BY <1>7, ConcatProperties
    <2>2. Len(a) + Len(b) = Len(s) - 1
        BY <1>1, <1>7
    <2> QED BY <1>7, <2>1, <2>2
<1>9. ASSUME NEW j \in 1 .. Len(s) - 1 PROVE (a \o b)[j] = IF j < i THEN s[j] ELSE s[j + 1]
    <2>0. i \in Int /\ j \in Int /\ Len(s) \in Int
        BY <1>1
    <2>1. CASE j < i
        <3>1. a[j] = s[j]
            BY <1>1, <1>4, <2>1 DEF a
        <3> QED BY <1>8, <2>0, <2>1, <3>1
    <2>2. CASE j >= i
        <3>1. b[j - (i - 1)] = s[i + (j - (i - 1))] /\ i + (j - (i - 1)) = j + 1
            BY <1>1, <1>5, <2>2 DEF b
        <3>2. ~ (j <= i - 1) /\ ~ (j < i)
            BY <2>0, <2>2
        <3> QED BY <1>8, <3>1, <3>2
    <2>3. j < i \/ j >= i
        BY <2>0
    <2> QED BY Zenon, <2>1, <2>2, <2>3
<1> QED BY <1>6, <1>8, <1>9


\* Before any program runs there is no row and nothing in the schema.
LEMMA MigInitially == ASSUME Kinds \subseteq {"migrate", "down"}, MigInit PROVE MigInv
<1>1. MigTypeOK
    BY DEF MigInit, MigTypeOK, Resting, NotRun, Absent
<1>2. FilesAreNamed /\ LockIsHeld /\ RunnersDoNotCollide
    BY DEF MigInit, NotRun, FilesAreNamed, Named, NeedsLock, LockIsHeld, AtWork, RunnersDoNotCollide, Running
<1>3. applied = <<>> /\ DOMAIN applied = {} /\ \A m \in Names : schema[m] = Absent
    BY DEF MigInit
<1>4. RowsAreDistinct /\ SumsAreOfTheSchema
    BY <1>3 DEF RowsAreDistinct, SumsAreOfTheSchema
<1>5. RowsMatchTheSchema
    BY <1>3 DEF RowsMatchTheSchema, Recorded
<1> QED BY <1>1, <1>2, <1>4, <1>5 DEF MigInv

\* What a row is of.
LEMMA RowsAreOfFiles ==
    ASSUME NEW recorded \in Seq(Rows), NEW i \in DOMAIN recorded
    PROVE  /\ recorded[i].file.name \in Names /\ recorded[i].file = Up(recorded[i].file.name)
           /\ recorded[i].sum \in Nat
           /\ recorded[i] = [file |-> recorded[i].file, sum |-> recorded[i].sum]
<1>1. recorded[i] \in Rows
    OBVIOUS
<1>2. PICK m \in Names : recorded[i].file = Up(m)
    BY <1>1 DEF Rows
<1>3. recorded[i].file.name = m
    BY <1>2 DEF Up
<1> QED BY <1>1, <1>2, <1>3 DEF Rows

\* Program r goes on as w.
LEMMA ProgramMoves ==
    ASSUME MigInv, NEW r \in Programs, NEW w \in Resting \cup Working,
           run' = [run EXCEPT ![r] = w],
           Named(w), NeedsLock(w) => lock' = r,
           \A q \in Programs \ {r} : lock = q => lock' = q,
           schema' \in [Names -> Nat \cup {Absent}], applied' \in Seq(Rows), edition' = edition,
           w.kind = "migrate" /\ AtWork(w) => \A f : f = w.file[1] => ~Recorded(f)',
           NeedsLock(run[r]) \/ \A f : Recorded(f)' => Recorded(f)
    PROVE  MigTypeOK' /\ FilesAreNamed' /\ LockIsHeld' /\ RunnersDoNotCollide'
<1>1. /\ run \in [Programs -> Resting \cup Working] /\ edition \in [Names -> Nat]
      /\ run'[r] = w /\ \A q \in Programs \ {r} : run'[q] = run[q]
    BY DEF MigInv, MigTypeOK
<1>2. run' \in [Programs -> Resting \cup Working]
    BY <1>1
<1>3. MigTypeOK'
    BY <1>1, <1>2 DEF MigTypeOK
<1>4. FilesAreNamed'
    <2>1. \A q \in Programs \ {r} : Named(run'[q])
        BY <1>1 DEF MigInv, FilesAreNamed
    <2> QED BY <1>1, <2>1 DEF FilesAreNamed, Named, AtWork
<1>5. LockIsHeld'
    <2>1. \A q \in Programs \ {r} : NeedsLock(run'[q]) => lock' = q
        BY <1>1 DEF MigInv, LockIsHeld
    <2> QED BY <1>1, <2>1 DEF LockIsHeld, NeedsLock, AtWork
<1>6. RunnersDoNotCollide'
    <2> SUFFICES ASSUME NEW q \in Programs, run'[q].kind = "migrate", AtWork(run'[q])
                 PROVE  ~Recorded(run[q].file[1])'
        BY DEF RunnersDoNotCollide, Running, AtWork
    <2>1. CASE q = r
        <3>1. w.kind = "migrate" /\ AtWork(w)
            BY <1>1, <2>1 DEF AtWork
        <3> QED BY <1>1, <2>1, <3>1 DEF Recorded
    <2>2. CASE q # r
        <3>1. run'[q] = run[q] /\ ~Recorded(run[q].file[1]) /\ lock = q
            BY <1>1, <2>2 DEF MigInv, RunnersDoNotCollide, Running, AtWork, LockIsHeld, NeedsLock
        <3>2. ~NeedsLock(run[r])
            BY <2>2, <3>1 DEF MigInv, LockIsHeld
        <3>3. PICK f : f = run[q].file[1]
            OBVIOUS
        <3>4. ~Recorded(f)'
            BY Zenon, <3>1, <3>2, <3>3
        <3> QED BY <3>1, <3>3, <3>4 DEF Recorded
    <2> QED BY <2>1, <2>2
<1> QED BY <1>3, <1>4, <1>5, <1>6

\* The tables are left alone.
LEMMA TablesKept ==
    ASSUME MigInv, UNCHANGED applied, \A m \in accepted : m \in accepted',
           \A m \in Names \ OwnCommit : schema'[m] = schema[m]
    PROVE  RowsAreDistinct' /\ RowsMatchTheSchema' /\ SumsAreOfTheSchema'
<1>1. \A f : Recorded(f)' = Recorded(f)
    BY DEF Recorded
<1>2. \A i \in DOMAIN applied : applied[i].file.name \in Names
    BY RowsAreOfFiles DEF MigInv, MigTypeOK
<1>3. RowsAreDistinct'
    BY DEF MigInv, RowsAreDistinct
<1>4. RowsMatchTheSchema'
    BY Zenon, <1>1 DEF MigInv, RowsMatchTheSchema
<1>5. SumsAreOfTheSchema'
    BY <1>2 DEF MigInv, SumsAreOfTheSchema
<1> QED BY <1>3, <1>4, <1>5

\* Program r comes to its end.
LEMMA ProgramEnds ==
    ASSUME MigInv, NEW r \in Programs, EndRun(r),
           schema' \in [Names -> Nat \cup {Absent}], applied' \in Seq(Rows), edition' = edition,
           \A f : Recorded(f)' => Recorded(f)
    PROVE  MigTypeOK' /\ FilesAreNamed' /\ LockIsHeld' /\ RunnersDoNotCollide'
<1>1. NotRun \in Resting \cup Working /\ Named(NotRun) /\ ~NeedsLock(NotRun) /\ ~AtWork(NotRun)
    BY DEF NotRun, Resting, Named, NeedsLock, AtWork
<1>2. run' = [run EXCEPT ![r] = NotRun] /\ \A q \in Programs \ {r} : lock = q => lock' = q
    BY DEF EndRun, Released
<1> QED BY <1>1, <1>2, ProgramMoves

\* The steps of a program that touch neither schema nor rows.
LEMMA StartKeeps ==
    ASSUME MigInv, Kinds \subseteq {"migrate", "down"},
           NEW r \in Programs, StartRun(r)
    PROVE  MigInv'
<1>1. PICK kind \in Kinds, allow \in BOOLEAN, dry \in BOOLEAN :
          run' = [run EXCEPT ![r] = [kind |-> kind, allow |-> allow, dry |-> dry, at |-> 1,
                                     file |-> <<>>, sql |-> Absent,
                                     step |-> IF kind = "migrate" /\ ~dry THEN "lock" ELSE "next"]]
    BY DEF StartRun
<1> DEFINE w == [kind |-> kind, allow |-> allow, dry |-> dry, at |-> 1, file |-> <<>>, sql |-> Absent,
                 step |-> IF kind = "migrate" /\ ~dry THEN "lock" ELSE "next"]
<1>2. w \in Working /\ Named(w) /\ ~NeedsLock(w) /\ ~AtWork(w)
    BY DEF Working, Named, NeedsLock, AtWork, Absent
<1>3. UNCHANGED <<schema, applied, edition, lock, accepted>>
    BY DEF StartRun
<1>4. MigTypeOK' /\ FilesAreNamed' /\ LockIsHeld' /\ RunnersDoNotCollide'
    <2>1. \A f : Recorded(f)' => Recorded(f)
        BY <1>3 DEF Recorded
    <2> HIDE DEF w
    <2>2. run' = [run EXCEPT ![r] = w] /\ w \in Resting \cup Working
        BY <1>1, <1>2 DEF w
    <2>3. schema' \in [Names -> Nat \cup {Absent}] /\ applied' \in Seq(Rows)
        BY <1>3 DEF MigInv, MigTypeOK
    <2> QED BY <1>2, <1>3, <2>1, <2>2, <2>3, ProgramMoves
<1>5. RowsAreDistinct' /\ RowsMatchTheSchema' /\ SumsAreOfTheSchema'
    BY <1>3, TablesKept
<1> QED BY <1>4, <1>5 DEF MigInv

\* Program r, which is busy, goes to another step of its work.
LEMMA StepTypes ==
    ASSUME MigInv, NEW r \in Programs, run[r].step # "ended"
    PROVE  run[r] \in Working
BY DEF MigInv, MigTypeOK, Resting, NotRun

LEMMA LockKeeps ==
    ASSUME MigInv, NEW r \in Programs, TakeLock(r)
    PROVE  MigInv'
<1> DEFINE w == [run[r] EXCEPT !.step = "next"]
<1>1. run[r] \in Working /\ UNCHANGED <<schema, applied, edition, runs, accepted>>
    BY StepTypes DEF TakeLock
<1>2. w \in Working /\ Named(w) /\ ~AtWork(w)
    BY <1>1 DEF Working, Named, AtWork
<1>3. run' = [run EXCEPT ![r] = w] /\ lock' = r /\ lock = Nobody
    BY DEF TakeLock, Becomes, MayGoOn
<1>4. MigTypeOK' /\ FilesAreNamed' /\ LockIsHeld' /\ RunnersDoNotCollide'
    <2>1. \A f : Recorded(f)' => Recorded(f)
        BY <1>1 DEF Recorded
    <2>2. schema' \in [Names -> Nat \cup {Absent}] /\ applied' \in Seq(Rows)
        BY <1>1 DEF MigInv, MigTypeOK
    <2> HIDE DEF w
    <2> QED BY <1>1, <1>2, <1>3, <2>1, <2>2, MigrationConstants, ProgramMoves
<1>5. RowsAreDistinct' /\ RowsMatchTheSchema' /\ SumsAreOfTheSchema'
    BY <1>1, TablesKept
<1> QED BY <1>4, <1>5 DEF MigInv

LEMMA EndKeeps ==
    ASSUME MigInv, NEW r \in Programs, EndRun(r),
           UNCHANGED <<schema, applied, edition, accepted>>
    PROVE  MigInv'
<1>1. \A f : Recorded(f)' => Recorded(f)
    BY DEF Recorded
<1>2. schema' \in [Names -> Nat \cup {Absent}] /\ applied' \in Seq(Rows)
    BY DEF MigInv, MigTypeOK
<1>3. MigTypeOK' /\ FilesAreNamed' /\ LockIsHeld' /\ RunnersDoNotCollide'
    BY <1>1, <1>2, ProgramEnds
<1>4. RowsAreDistinct' /\ RowsMatchTheSchema' /\ SumsAreOfTheSchema'
    BY TablesKept
<1> QED BY <1>3, <1>4 DEF MigInv

LEMMA PickKeeps ==
    ASSUME MigInv, NEW r \in Programs, PickLast(r)
    PROVE  MigInv'
<1> DEFINE w == [run[r] EXCEPT !.file = <<Down(LastApplied.name)>>, !.step = "execute"]
<1>1. /\ run[r] \in Working /\ run[r].kind = "down"
      /\ UNCHANGED <<schema, applied, edition, runs, accepted>>
    BY StepTypes DEF PickLast, Running
<1>2. CASE EndRun(r)
    BY <1>1, <1>2, EndKeeps
<1>3. CASE applied # <<>> /\ run' = [run EXCEPT ![r] = w] /\ UNCHANGED lock
    <2>1. Len(applied) \in DOMAIN applied
        BY <1>3 DEF MigInv, MigTypeOK
    <2>2. LastApplied.name \in Names
        BY <2>1, RowsAreOfFiles DEF MigInv, MigTypeOK, LastApplied, Last
    <2>3. Down(LastApplied.name) \in [name : Names, down : BOOLEAN]
        BY <2>2 DEF Down
    <2>10. <<Down(LastApplied.name)>> \in Seq([name : Names, down : BOOLEAN])
        BY <2>3
    <2>4. w \in Working /\ w.kind = "down" /\ w.file = <<Down(LastApplied.name)>>
        BY <1>1, <2>10 DEF Working
    <2>5. Named(w) /\ ~NeedsLock(w)
        BY <2>2, <2>4 DEF Named, NeedsLock
    <2>6. \A f : Recorded(f)' => Recorded(f)
        BY <1>1 DEF Recorded
    <2>7. schema' \in [Names -> Nat \cup {Absent}] /\ applied' \in Seq(Rows)
        BY <1>1 DEF MigInv, MigTypeOK
    <2>8. MigTypeOK' /\ FilesAreNamed' /\ LockIsHeld' /\ RunnersDoNotCollide'
        <3> HIDE DEF w
        <3> QED BY <1>1, <1>3, <2>4, <2>5, <2>6, <2>7, ProgramMoves
    <2>9. RowsAreDistinct' /\ RowsMatchTheSchema' /\ SumsAreOfTheSchema'
        BY <1>1, TablesKept
    <2> QED BY <2>8, <2>9 DEF MigInv
<1> QED BY <1>2, <1>3 DEF PickLast

LEMMA PlaceIsOfFile ==
    ASSUME NEW f, Recorded(f)
    PROVE  PlaceOf(f) \in DOMAIN applied /\ applied[PlaceOf(f)].file = f
BY DEF Recorded, PlaceOf

\* The row at place p, of m's file, gets the sum that is on disk.
LEMMA SumIsUpdated ==
    ASSUME MigInv, NEW m \in Names, NEW p \in DOMAIN applied, applied[p].file = Up(m),
           schema' = schema, accepted' = accepted \cup {m},
           applied' = [applied EXCEPT ![p] = [file |-> Up(m), sum |-> edition[m]]]
    PROVE  /\ applied' \in Seq(Rows) /\ \A f : Recorded(f)' = Recorded(f)
           /\ RowsAreDistinct' /\ RowsMatchTheSchema' /\ SumsAreOfTheSchema'
<1> DEFINE row == [file |-> Up(m), sum |-> edition[m]]
<1>1. applied \in Seq(Rows) /\ edition[m] \in Nat
    BY DEF MigInv, MigTypeOK
<1>2. row \in Rows /\ row.file = Up(m) /\ row.file.name = m
    BY <1>1 DEF Rows, Up
<1> HIDE DEF row
<1>3. applied' = [applied EXCEPT ![p] = row]
    BY DEF row
<1>4. p \in 1 .. Len(applied) /\ DOMAIN applied = 1 .. Len(applied)
    BY <1>1
<1>5. applied' \in Seq(Rows)
    BY <1>1, <1>2, <1>3, <1>4, ExceptSeq
<1>6. /\ DOMAIN applied' = DOMAIN applied
      /\ applied'[p] = row /\ \A i \in DOMAIN applied \ {p} : applied'[i] = applied[i]
    BY <1>3
<1>7. \A i \in DOMAIN applied : applied'[i].file = applied[i].file
    BY <1>2, <1>6
<1>8. \A f : Recorded(f)' = Recorded(f)
    BY <1>6, <1>7 DEF Recorded
<1>9. RowsAreDistinct'
    BY <1>6, <1>7 DEF MigInv, RowsAreDistinct
<1>10. RowsMatchTheSchema'
    BY Zenon, <1>8 DEF MigInv, RowsMatchTheSchema
<1>11. SumsAreOfTheSchema'
    BY <1>2, <1>6 DEF MigInv, SumsAreOfTheSchema
<1> QED BY <1>5, <1>8, <1>9, <1>10, <1>11

LEMMA TakesUp ==
    ASSUME NEW w \in Working, NEW f \in [name : Names, down : BOOLEAN], NEW sum \in Int
    PROVE  [w EXCEPT !.file = <<f>>, !.step = "execute", !.sql = sum] \in Working
<1>1. <<f>> \in Seq([name : Names, down : BOOLEAN])
    OBVIOUS
<1> QED BY <1>1 DEF Working

LEMMA Advances ==
    ASSUME NEW v \in Working
    PROVE  [v EXCEPT !.at = @ + 1] \in Working
<1>1. v.at + 1 \in Int
    BY DEF Working
<1> DEFINE n == v.at + 1
<1> HIDE DEF n
<1>2. [v EXCEPT !.at = n] \in Working
    BY <1>1 DEF Working, n
<1> QED BY <1>2 DEF n

LEMMA LookKeeps ==
    ASSUME MigInv, NEW r \in Programs,
           run[r].kind = "migrate", run[r].step = "next",
           NEW m \in Names, LookAt(r, Up(m)), UNCHANGED <<schema, edition, runs>>
    PROVE  MigInv'
<1> DEFINE f == Up(m)
           w == [run[r] EXCEPT !.at = @ + 1]
           v == [run[r] EXCEPT !.file = <<f>>, !.step = "execute", !.sql = edition[m]]
<1>1. /\ run[r] \in Working /\ edition[m] \in Nat /\ applied \in Seq(Rows)
      /\ schema' \in [Names -> Nat \cup {Absent}] /\ f.name = m
    BY StepTypes DEF MigInv, MigTypeOK, Up
<1>2. /\ w \in Resting \cup Working /\ Named(w) /\ w.step = "next" /\ ~AtWork(w)
      /\ NeedsLock(w) <=> NeedsLock(run[r])
    <2>1. w \in Working
        BY Zenon, <1>1, Advances
    <2>2. w.step = "next" /\ w.kind = run[r].kind /\ w.dry = run[r].dry
        BY <1>1 DEF Working
    <2> QED BY <2>1, <2>2 DEF Named, AtWork, NeedsLock
<1>3. NeedsLock(run[r]) => lock = r
    BY DEF MigInv, LockIsHeld
<1>4. CASE Recorded(f)
    <2>1. CASE EndRun(r) /\ UNCHANGED <<applied, accepted>>
        BY <2>1, EndKeeps
    <2>2. CASE /\ run' = [run EXCEPT ![r] = w] /\ UNCHANGED lock
               /\ ~ (Drifted(applied[PlaceOf(f)], f) /\ ~run[r].allow)
               /\ ~run[r].dry /\ applied[PlaceOf(f)].sum # edition[m]
               /\ applied' = [applied EXCEPT ![PlaceOf(f)].sum = edition[m]]
               /\ accepted' = IF applied[PlaceOf(f)].sum = NoSum \/ run[r].allow
                              THEN accepted \cup {m} ELSE accepted
        <3>1. accepted' = accepted \cup {m}
            BY <1>1, <2>2 DEF Drifted
        <3>4. PlaceOf(f) \in DOMAIN applied /\ applied[PlaceOf(f)].file = f
            BY <1>4, PlaceIsOfFile
        <3>5. [applied[PlaceOf(f)] EXCEPT !.sum = edition[m]] = [file |-> Up(m), sum |-> edition[m]]
            <4> DEFINE old == applied[PlaceOf(f)]
            <4>1. old = [file |-> f, sum |-> old.sum]
                BY <1>1, <3>4, RowsAreOfFiles
            <4> HIDE DEF old
            <4>2. [old EXCEPT !.sum = edition[m]] = [file |-> Up(m), sum |-> edition[m]]
                BY <4>1
            <4> QED BY <4>2 DEF old
        <3>6. applied' = [applied EXCEPT ![PlaceOf(f)] = [file |-> Up(m), sum |-> edition[m]]]
            BY <2>2, <3>5
        <3>2. /\ applied' \in Seq(Rows) /\ \A g : Recorded(g)' = Recorded(g)
              /\ RowsAreDistinct' /\ RowsMatchTheSchema' /\ SumsAreOfTheSchema'
            BY <3>1, <3>4, <3>6, SumIsUpdated
        <3>3. MigTypeOK' /\ FilesAreNamed' /\ LockIsHeld' /\ RunnersDoNotCollide'
            <4> HIDE DEF w
            <4> QED BY <1>1, <1>2, <1>3, <2>2, <3>2, ProgramMoves
        <3> QED BY <3>2, <3>3 DEF MigInv
    <2>3. CASE run' = [run EXCEPT ![r] = w] /\ UNCHANGED <<lock, applied, accepted>>
        <3>1. \A g : Recorded(g)' => Recorded(g)
            BY <2>3 DEF Recorded
        <3>2. MigTypeOK' /\ FilesAreNamed' /\ LockIsHeld' /\ RunnersDoNotCollide'
            <4> HIDE DEF w
            <4> QED BY <1>1, <1>2, <1>3, <2>3, <3>1, ProgramMoves
        <3>3. RowsAreDistinct' /\ RowsMatchTheSchema' /\ SumsAreOfTheSchema'
            BY <2>3, TablesKept
        <3> QED BY <3>2, <3>3 DEF MigInv
    <2> QED BY <1>1, <1>4, <2>1, <2>2, <2>3 DEF LookAt
<1>5. CASE ~Recorded(f)
    <2>1. UNCHANGED <<applied, lock, accepted>>
        BY <1>5 DEF LookAt
    <2>2. \A g : Recorded(g)' => Recorded(g)
        BY <2>1 DEF Recorded
    <2>3. RowsAreDistinct' /\ RowsMatchTheSchema' /\ SumsAreOfTheSchema'
        BY <2>1, TablesKept
    <2>4. CASE run' = [run EXCEPT ![r] = w]
        <3>1. MigTypeOK' /\ FilesAreNamed' /\ LockIsHeld' /\ RunnersDoNotCollide'
            <4> HIDE DEF w
            <4> QED BY <1>1, <1>2, <1>3, <2>1, <2>2, <2>4, ProgramMoves
        <3> QED BY <2>3, <3>1 DEF MigInv
    <2>5. CASE run' = [run EXCEPT ![r] = v] /\ ~run[r].dry
        <3>1. f \in [name : Names, down : BOOLEAN]
            BY DEF Up
        <3>8. v \in Working
            <4>1. edition[m] \in Int
                BY <1>1
            <4> QED BY Zenon, <1>1, <3>1, <4>1, TakesUp
        <3>3. v \in Working /\ v.file = <<Up(m)>> /\ v.sql \in Nat /\ v.kind = "migrate"
            BY <1>1, <3>8 DEF Working
        <3>4. Named(v)
            BY <3>3 DEF Named
        <3>5. lock = r /\ NeedsLock(run[r])
            BY <1>3, <2>5 DEF NeedsLock
        <3>6. \A g : g = v.file[1] => ~Recorded(g)'
            BY <1>5, <2>1, <3>3 DEF Recorded
        <3>7. MigTypeOK' /\ FilesAreNamed' /\ LockIsHeld' /\ RunnersDoNotCollide'
            <4> HIDE DEF v
            <4> QED BY <1>1, <2>1, <2>2, <2>5, <3>3, <3>4, <3>5, <3>6, ProgramMoves
        <3> QED BY <2>3, <3>7 DEF MigInv
    <2>6. IF f.name \in DOMAIN Redundant \/ run[r].dry
          THEN run' = [run EXCEPT ![r] = w]
          ELSE run' = [run EXCEPT ![r] = [run[r] EXCEPT !.file = <<f>>, !.step = "execute",
                                                        !.sql = edition[f.name]]]
        <3>1. CASE f.name \in DOMAIN Redundant \/ run[r].dry
            BY <1>5, <3>1 DEF LookAt
        <3>2. CASE ~(f.name \in DOMAIN Redundant \/ run[r].dry)
            BY <1>5, <3>2 DEF LookAt
        <3> QED BY <3>1, <3>2
    <2> QED BY <1>1, <2>4, <2>5, <2>6
<1> QED BY <1>4, <1>5

LEMMA NextKeeps ==
    ASSUME MigInv, NEW r \in Programs, NextFile(r)
    PROVE  MigInv'
<1>1. run[r] \in Working /\ run[r].kind = "migrate" /\ run[r].step = "next"
    BY StepTypes DEF NextFile, Running, Working
<1>2. CASE EndRun(r) /\ UNCHANGED <<applied, accepted>>
    BY <1>2, EndKeeps DEF NextFile
<1>3. CASE run[r].at \in DOMAIN FilesOf("migrate") /\ LookAt(r, FilesOf("migrate")[run[r].at])
    <2>1. UpFiles[run[r].at] \in Names /\ FilesOf("migrate")[run[r].at] = Up(UpFiles[run[r].at])
        BY <1>3 DEF FilesOf, Names
    <2> QED BY <1>1, <1>3, <2>1, LookKeeps DEF NextFile
<1> QED BY <1>1, <1>2, <1>3 DEF NextFile

\* What the file at work is, and what its SQL does to the schema.
LEMMA SqlRuns ==
    ASSUME MigInv, NEW r \in Programs, AtWork(run[r])
    PROVE  /\ run[r] \in Working /\ run[r].file[1].name \in Names
           /\ run[r].kind = "migrate" =>
                /\ run[r].file[1] = Up(run[r].file[1].name) /\ run[r].sql \in Nat
                /\ schema[run[r].file[1].name] = Absent =>
                        After(r)[run[r].file[1].name] = run[r].sql
           /\ run[r].kind = "down" =>
                /\ run[r].file[1] = Down(run[r].file[1].name)
                /\ After(r)[run[r].file[1].name] = Absent
           /\ After(r) \in [Names -> Nat \cup {Absent}]
           /\ \A n \in Names \ {run[r].file[1].name} : After(r)[n] = schema[n]
<1>1. run[r] \in Working /\ run[r].kind \in {"migrate", "down"}
    BY StepTypes DEF AtWork, Working
<1>2. PICK m \in Names :
          /\ run[r].kind = "migrate" => run[r].file = <<Up(m)>> /\ run[r].sql \in Nat
          /\ run[r].kind = "down" => run[r].file = <<Down(m)>>
    BY DEF MigInv, FilesAreNamed, Named
<1>3. /\ run[r].kind = "migrate" => run[r].file[1] = Up(m)
      /\ run[r].kind = "down" => run[r].file[1] = Down(m)
    BY <1>2
<1>4. run[r].file[1].name = m /\ (run[r].file[1].down <=> run[r].kind = "down")
    BY <1>1, <1>3 DEF Up, Down
<1>5. After(r) = [schema EXCEPT ![m] = IF run[r].kind = "down" THEN Absent
                                       ELSE IF schema[m] = Absent THEN run[r].sql ELSE schema[m]]
    BY <1>4 DEF After
<1>6. schema \in [Names -> Nat \cup {Absent}]
    BY DEF MigInv, MigTypeOK
<1> QED BY <1>1, <1>2, <1>3, <1>4, <1>5, <1>6

LEMMA ExecuteKeeps ==
    ASSUME MigInv, NEW r \in Programs, Execute(r)
    PROVE  MigInv'
<1> DEFINE w == [run[r] EXCEPT !.step = "record"]
<1>1. AtWork(run[r])
    BY DEF Execute, AtWork
<1>2. run[r] \in Working /\ UNCHANGED <<applied, edition, runs, accepted>>
    BY <1>1, SqlRuns DEF Execute
<1>3. CASE EndRun(r) /\ UNCHANGED schema
    BY <1>2, <1>3, EndKeeps
<1>4. CASE /\ run' = [run EXCEPT ![r] = w] /\ UNCHANGED lock
           /\ schema' = IF OpenFor(run[r].file[1]) THEN schema ELSE After(r)
    <2>1. /\ w \in Working /\ w.kind = run[r].kind /\ w.file = run[r].file /\ w.sql = run[r].sql
          /\ w.step = "record"
        BY <1>2 DEF Working
    <2>2. Named(w) /\ NeedsLock(w) = NeedsLock(run[r])
        BY <1>1, <2>1 DEF MigInv, FilesAreNamed, Named, NeedsLock, AtWork
    <2>3. NeedsLock(w) => lock' = r
        BY <1>4, <2>2 DEF MigInv, LockIsHeld
    <2>4. schema' \in [Names -> Nat \cup {Absent}] /\ applied' \in Seq(Rows)
        BY <1>1, <1>2, <1>4, SqlRuns DEF MigInv, MigTypeOK
    <2>5. \A f : Recorded(f)' = Recorded(f)
        BY <1>2 DEF Recorded
    <2>6. w.kind = "migrate" => ~Recorded(w.file[1])
        BY <1>1, <1>2, <2>1 DEF MigInv, RunnersDoNotCollide, Running, AtWork, Working
    <2>7. MigTypeOK' /\ FilesAreNamed' /\ LockIsHeld' /\ RunnersDoNotCollide'
        <3> HIDE DEF w
        <3>1. w.kind = "migrate" => \A f : f = w.file[1] => ~Recorded(f)'
            BY Zenon, <2>5, <2>6
        <3> QED BY <1>2, <1>4, <2>1, <2>2, <2>3, <2>4, <2>5, <3>1, ProgramMoves
    <2>8. \A m \in Names \ OwnCommit : schema'[m] = schema[m]
        BY <1>1, <1>4, SqlRuns DEF OpenFor
    <2>9. RowsAreDistinct' /\ RowsMatchTheSchema' /\ SumsAreOfTheSchema'
        BY <1>2, <2>8, TablesKept
    <2> QED BY <2>7, <2>9 DEF MigInv
<1> QED BY <1>3, <1>4 DEF Execute, Becomes

LEMMA GoesOn ==
    ASSUME NEW v \in Working
    PROVE  [v EXCEPT !.step = "next", !.at = @ + 1, !.file = <<>>] \in Working
<1> DEFINE x == [v EXCEPT !.step = "next"]
           y == [x EXCEPT !.at = v.at + 1]
<1>1. x \in Working
    BY DEF Working
<1>2. v.at + 1 \in Int
    BY DEF Working
<1> HIDE DEF x
<1>3. y \in Working
    BY <1>1, <1>2 DEF Working
<1> HIDE DEF y
<1>4. <<>> \in Seq([name : Names, down : BOOLEAN])
    OBVIOUS
<1>5. [y EXCEPT !.file = <<>>] \in Working
    BY <1>3, <1>4 DEF Working
<1>6. [v EXCEPT !.step = "next", !.at = @ + 1, !.file = <<>>] = [y EXCEPT !.file = <<>>]
    BY DEF x, y
<1> QED BY <1>5, <1>6

LEMMA RecordKeeps ==
    ASSUME MigInv, NEW r \in Programs, RecordRow(r)
    PROVE  MigInv'
<1> DEFINE f == run[r].file[1]
           m == f.name
           w == [run[r] EXCEPT !.step = "next", !.at = @ + 1, !.file = <<>>]
           row == [file |-> f, sum |-> run[r].sql]
<1>1. AtWork(run[r]) /\ run[r].step = "record"
    BY DEF RecordRow, AtWork
<1>2. run[r] \in Working /\ run[r].kind = "migrate" /\ UNCHANGED <<edition, runs>>
    BY <1>1, SqlRuns DEF RecordRow, Running, Working
<1>3. /\ m \in Names /\ f = Up(m) /\ run[r].sql \in Nat
      /\ schema[m] = Absent => After(r)[m] = run[r].sql
      /\ After(r) \in [Names -> Nat \cup {Absent}]
      /\ \A n \in Names \ {m} : After(r)[n] = schema[n]
    BY <1>1, <1>2, SqlRuns
<1>4. ~Recorded(f)
    BY <1>1, <1>2 DEF MigInv, RunnersDoNotCollide, Running
<1>5. /\ applied' = Append(applied, row) /\ UNCHANGED lock
      /\ schema' = IF OpenFor(f) THEN After(r) ELSE schema
      /\ accepted' = accepted \ {m}
      /\ run' = [run EXCEPT ![r].step = "next", ![r].at = @ + 1, ![r].file = <<>>]
    BY <1>2, <1>4 DEF RecordRow
<1>6. run' = [run EXCEPT ![r] = w]
    BY <1>5 DEF MigInv, MigTypeOK
<1>7. row \in Rows /\ row.file = f /\ row.sum = run[r].sql
    BY <1>3 DEF Rows
<1>8. w \in Working /\ w.step = "next" /\ Named(w) /\ ~AtWork(w)
    <2>1. w \in Working
        BY Zenon, <1>2, GoesOn
    <2>2. w.step = "next"
        BY <1>2 DEF Working
    <2> QED BY <2>1, <2>2 DEF Named, AtWork
<1>9. lock = r /\ NeedsLock(run[r])
    BY <1>1, <1>2 DEF MigInv, LockIsHeld, NeedsLock
<1>10. applied \in Seq(Rows) /\ schema \in [Names -> Nat \cup {Absent}]
    BY DEF MigInv, MigTypeOK
<1> HIDE DEF w, row, m
<1>11. /\ applied' \in Seq(Rows) /\ DOMAIN applied = 1 .. Len(applied) /\ Len(applied) \in Nat
       /\ DOMAIN applied' = 1 .. Len(applied) + 1
       /\ applied'[Len(applied) + 1] = row
       /\ \A i \in DOMAIN applied : applied'[i] = applied[i]
    BY <1>5, <1>7, <1>10, AppendProperties
<1>12. \A g : Recorded(g)' <=> Recorded(g) \/ g = f
    <2>1. ASSUME NEW g, Recorded(g)' PROVE Recorded(g) \/ g = f
        BY <1>7, <1>11, <2>1 DEF Recorded
    <2>2. ASSUME NEW g, Recorded(g) PROVE Recorded(g)'
        BY <1>11, <2>2 DEF Recorded
    <2>3. \A g : g = f => Recorded(g)'
        BY <1>7, <1>11 DEF Recorded
    <2> QED BY <2>1, <2>2, <2>3
<1>13. schema' \in [Names -> Nat \cup {Absent}] /\ \A n \in Names \ {m} : schema'[n] = schema[n]
    BY <1>3, <1>5, <1>10
<1>14. MigTypeOK' /\ FilesAreNamed' /\ LockIsHeld' /\ RunnersDoNotCollide'
    BY <1>2, <1>5, <1>6, <1>8, <1>9, <1>11, <1>13, ProgramMoves
<1>15. RowsAreDistinct'
    BY <1>4, <1>7, <1>11 DEF MigInv, RowsAreDistinct, Recorded
<1>16. m \notin OwnCommit => schema[m] = Absent /\ schema'[m] = run[r].sql
    <2> SUFFICES ASSUME m \notin OwnCommit PROVE schema[m] = Absent /\ schema'[m] = run[r].sql
        OBVIOUS
    <2>1. schema[m] = Absent
        BY <1>3, <1>4 DEF MigInv, RowsMatchTheSchema
    <2> QED BY <1>3, <1>5, <2>1 DEF OpenFor, m
<1>17. RowsMatchTheSchema'
    <2> SUFFICES ASSUME NEW n \in Names \ OwnCommit PROVE Recorded(Up(n))' <=> schema'[n] # Absent
        BY DEF RowsMatchTheSchema
    <2>1. CASE n = m
        <3>1. Recorded(Up(n))'
            BY <1>3, <1>12, <2>1
        <3>2. schema'[n] # Absent
            BY <1>3, <1>16, <2>1 DEF Absent
        <3> QED BY <3>1, <3>2
    <2>2. CASE n # m
        <3>1. Up(n) # f
            BY <1>3, <2>2 DEF Up
        <3>2. Recorded(Up(n)) <=> schema[n] # Absent
            BY DEF MigInv, RowsMatchTheSchema
        <3> QED BY <1>12, <1>13, <2>2, <3>1, <3>2
    <2> QED BY <2>1, <2>2
<1>18. SumsAreOfTheSchema'
    <2> SUFFICES ASSUME NEW i \in DOMAIN applied', NEW n, n = applied'[i].file.name,
                        n \notin accepted' \cup OwnCommit
                 PROVE  applied'[i].sum = schema'[n]
        BY DEF SumsAreOfTheSchema
    <2>1. CASE i = Len(applied) + 1
        BY <1>7, <1>11, <1>16, <2>1 DEF m
    <2>2. CASE i \in DOMAIN applied
        <3>1. applied'[i] = applied[i] /\ n \in Names /\ applied[i].file = Up(n) /\ applied[i].sum \in Nat
            BY <1>10, <1>11, <2>2, RowsAreOfFiles
        <3>2. n # m
            BY <1>3, <1>4, <2>2, <3>1 DEF Recorded
        <3>3. applied[i].sum = schema[n]
            <4>1. applied[i].file.name = n
                BY <3>1 DEF Up
            <4>2. n \notin accepted \cup OwnCommit
                BY <1>5, <3>2
            <4>3. applied[i].sum # NoSum
                BY <3>1 DEF NoSum
            <4> QED BY <2>2, <4>1, <4>2, <4>3 DEF MigInv, SumsAreOfTheSchema
        <3> QED BY <1>13, <3>1, <3>2, <3>3
    <2> QED BY <1>11, <2>1, <2>2
<1> QED BY <1>14, <1>15, <1>17, <1>18 DEF MigInv

LEMMA DeleteKeeps ==
    ASSUME MigInv, NEW r \in Programs, DeleteRow(r)
    PROVE  MigInv'
<1>1. AtWork(run[r]) /\ run[r].kind = "down"
    BY DEF DeleteRow, AtWork, Running
<1>2. PICK m \in Names :
      /\ run[r].file[1] = Down(m) /\ run[r].file[1].name = m /\ After(r)[m] = Absent
      /\ After(r) \in [Names -> Nat \cup {Absent}]
      /\ \A n \in Names \ {m} : After(r)[n] = schema[n]
    BY <1>1, SqlRuns
<1> DEFINE p == PlaceOf(Up(m))
<1>3. /\ EndRun(r) /\ UNCHANGED <<edition, runs, accepted>>
      /\ applied' = IF Recorded(Up(m)) THEN RemoveAt(applied, p) ELSE applied
      /\ schema' = IF m \in OwnCommit THEN schema ELSE After(r)
    BY <1>2 DEF DeleteRow, OpenFor
<1>4. applied \in Seq(Rows) /\ schema \in [Names -> Nat \cup {Absent}]
    BY DEF MigInv, MigTypeOK
<1> HIDE DEF p
<1>5. schema' \in [Names -> Nat \cup {Absent}] /\ \A n \in Names \ {m} : schema'[n] = schema[n]
    BY <1>2, <1>3, <1>4
\* Every row that is left was there before, and none is of m.
<1>6. /\ applied' \in Seq(Rows)
      /\ \A i \in DOMAIN applied' : \E j \in DOMAIN applied :
            applied'[i] = applied[j] /\ applied[j].file # Up(m)
      /\ \A j \in DOMAIN applied :
            applied[j].file # Up(m) => \E i \in DOMAIN applied' : applied'[i] = applied[j]
      /\ RowsAreDistinct'
    <2>1. CASE ~Recorded(Up(m))
        BY <1>3, <1>4, <2>1 DEF MigInv, RowsAreDistinct, Recorded
    <2>2. CASE Recorded(Up(m))
        <3>1. p \in DOMAIN applied /\ applied[p].file = Up(m)
            BY <2>2, PlaceIsOfFile DEF p
        <3>2. applied' = RemoveAt(applied, p)
            BY <1>3, <2>2
        <3>3. /\ applied' \in Seq(Rows) /\ Len(applied') = Len(applied) - 1
              /\ \A i \in 1 .. Len(applied) - 1 :
                    applied'[i] = IF i < p THEN applied[i] ELSE applied[i + 1]
            BY <1>4, <3>1, <3>2, RowRemoved
        <3>4. /\ DOMAIN applied = 1 .. Len(applied) /\ Len(applied) \in Nat /\ p \in 1 .. Len(applied)
              /\ DOMAIN applied' = 1 .. Len(applied) - 1
            BY <1>4, <3>1, <3>3
        <3>5. \A i, j \in DOMAIN applied : applied[i].file = applied[j].file => i = j
            BY DEF MigInv, RowsAreDistinct
        <3> DEFINE Was(i) == IF i < p THEN i ELSE i + 1
        <3>6. \A i \in DOMAIN applied' :
                Was(i) \in DOMAIN applied /\ Was(i) # p /\ applied'[i] = applied[Was(i)]
            BY <3>3, <3>4
        <3>7. \A i, j \in DOMAIN applied' : Was(i) = Was(j) => i = j
            BY <3>4
        <3>8. \A j \in DOMAIN applied \ {p} : \E i \in DOMAIN applied' : Was(i) = j
            <4> TAKE j \in DOMAIN applied \ {p}
            <4>1. CASE j < p
                <5>1. j \in DOMAIN applied' /\ Was(j) = j
                    BY <3>4, <4>1
                <5> QED BY <5>1
            <4>2. CASE j > p
                <5>1. j - 1 \in DOMAIN applied' /\ Was(j - 1) = j
                    BY <3>4, <4>2
                <5> QED BY <5>1
            <4> QED BY <3>4, <4>1, <4>2
        <3> HIDE DEF Was
        <3>9. \A i \in DOMAIN applied' : applied[Was(i)].file # Up(m)
            BY <3>1, <3>5, <3>6
        <3>10. RowsAreDistinct'
            BY <3>5, <3>6, <3>7 DEF RowsAreDistinct
        <3>11. \A j \in DOMAIN applied :
                applied[j].file # Up(m) => \E i \in DOMAIN applied' : applied'[i] = applied[j]
            BY <3>1, <3>6, <3>8
        <3> QED BY <3>3, <3>6, <3>9, <3>10, <3>11
    <2> QED BY <2>1, <2>2
<1>7. ~Recorded(Up(m))' /\ \A g : g # Up(m) => (Recorded(g)' <=> Recorded(g))
    <2>1. ~Recorded(Up(m))'
        BY <1>6 DEF Recorded
    <2>2. ASSUME NEW g, g # Up(m) PROVE Recorded(g)' <=> Recorded(g)
        BY <1>6, <2>2 DEF Recorded
    <2> QED BY <2>1, <2>2
<1>8. MigTypeOK' /\ FilesAreNamed' /\ LockIsHeld' /\ RunnersDoNotCollide'
    <2>1. \A g : Recorded(g)' => Recorded(g)
        BY Zenon, <1>7
    <2> QED BY <1>3, <1>5, <1>6, <2>1, ProgramEnds
<1>9. RowsMatchTheSchema'
    <2> SUFFICES ASSUME NEW n \in Names \ OwnCommit PROVE Recorded(Up(n))' <=> schema'[n] # Absent
        BY DEF RowsMatchTheSchema
    <2>1. CASE n = m
        <3>1. schema'[n] = Absent
            BY <1>2, <1>3, <2>1
        <3>2. ~Recorded(Up(n))'
            BY <1>7, <2>1
        <3> QED BY <3>1, <3>2
    <2>2. CASE n # m
        <3>1. Up(n) # Up(m)
            BY <2>2 DEF Up
        <3>2. Recorded(Up(n)) <=> schema[n] # Absent
            BY DEF MigInv, RowsMatchTheSchema
        <3> QED BY <1>5, <1>7, <2>2, <3>1, <3>2
    <2> QED BY <2>1, <2>2
<1>10. SumsAreOfTheSchema'
    <2> SUFFICES ASSUME NEW i \in DOMAIN applied', NEW n, n = applied'[i].file.name,
                        applied'[i].sum # NoSum, n \notin accepted' \cup OwnCommit
                 PROVE  applied'[i].sum = schema'[n]
        BY DEF SumsAreOfTheSchema
    <2>1. PICK j \in DOMAIN applied : applied'[i] = applied[j] /\ applied[j].file # Up(m)
        BY <1>6
    <2>2. n \in Names /\ applied[j].file = Up(n) /\ n # m
        BY <1>4, <2>1, RowsAreOfFiles
    <2>3. applied[j].sum = schema[n]
        BY <1>3, <2>1 DEF MigInv, SumsAreOfTheSchema
    <2> QED BY <1>5, <2>1, <2>2, <2>3
<1> QED BY <1>6, <1>8, <1>9, <1>10 DEF MigInv

LEMMA EditKeeps ==
    ASSUME MigInv, NEW m \in Names, EditFile(m)
    PROVE  MigInv'
<1>1. MigTypeOK'
    <2>1. /\ edition' = [edition EXCEPT ![m] = @ + 1]
          /\ UNCHANGED <<schema, applied, lock, run, runs, accepted>>
        BY DEF EditFile
    <2> QED BY <2>1 DEF MigInv, MigTypeOK
<1>2. FilesAreNamed' /\ LockIsHeld' /\ RunnersDoNotCollide'
    BY DEF MigInv, EditFile, FilesAreNamed, Named, AtWork, LockIsHeld, NeedsLock,
           RunnersDoNotCollide, Running, Recorded
<1>3. RowsAreDistinct' /\ RowsMatchTheSchema' /\ SumsAreOfTheSchema'
    BY TablesKept DEF EditFile
<1> QED BY <1>1, <1>2, <1>3 DEF MigInv

LEMMA IdleKeeps == ASSUME MigInv, UNCHANGED migVars PROVE MigInv'
<1>1. MigTypeOK'
    BY DEF MigInv, MigTypeOK, migVars
<1>2. FilesAreNamed' /\ LockIsHeld' /\ RunnersDoNotCollide'
    BY DEF MigInv, migVars, FilesAreNamed, Named, AtWork, LockIsHeld, NeedsLock,
           RunnersDoNotCollide, Running, Recorded
<1>3. RowsAreDistinct' /\ RowsMatchTheSchema' /\ SumsAreOfTheSchema'
    BY TablesKept DEF migVars
<1> QED BY <1>1, <1>2, <1>3 DEF MigInv

\* The inductive invariant of the programs: who works on a file as db:migrate
\* holds the advisory lock, names a file, and finds it unrecorded; no file has
\* two rows; rows and sums are those of the schema.
THEOREM MigrationInvariant ==
    ASSUME Kinds \subseteq {"migrate", "down"}
    PROVE  MigSpec => []MigInv
<1>1. MigInit => MigInv
    BY MigInitially
<1>2. ASSUME MigInv, [MigNext]_migVars PROVE MigInv'
    <2>1. ASSUME NEW r \in Programs, StartRun(r) PROVE MigInv'
        BY <1>2, <2>1, StartKeeps
    <2>2. ASSUME NEW r \in Programs, Works(r) PROVE MigInv'
        BY <1>2, <2>2, LockKeeps, NextKeeps, ExecuteKeeps, RecordKeeps, PickKeeps, DeleteKeeps
           DEF Works
    <2>3. ASSUME NEW r \in Programs, CrashRun(r) PROVE MigInv'
        BY <1>2, <2>3, EndKeeps DEF CrashRun
    <2>4. ASSUME NEW m \in Names, EditFile(m) PROVE MigInv'
        BY <1>2, <2>4, EditKeeps
    <2>5. CASE UNCHANGED migVars
        BY <1>2, <2>5, IdleKeeps
    <2> QED BY <1>2, <2>1, <2>2, <2>3, <2>4, <2>5 DEF MigNext
<1> QED BY <1>1, <1>2, PTL DEF MigSpec

\* Without init-db.sh, which takes no lock and no sums, what schema_migrations
\* says of a migration is what the database has.
THEOREM SchemaAlwaysRecorded ==
    ASSUME Kinds \subseteq {"migrate", "down"}
    PROVE  MigSpec => []SchemaIsRecorded
<1>1. MigInv => SchemaIsRecorded
    BY DEF MigInv, SchemaIsRecorded
<1> QED BY <1>1, MigrationInvariant, PTL
-----------------------------------------------------------------------------
(* The live mode: pages, rows, effects and dead letters                     *)

Writes == [event : Events, index : Nat]
Letters == [event : Events, index : Nat, attempts : Nat, resolved : BOOLEAN]
DbStates == [rows : SUBSET {Key(w) : w \in Writes}, log : Seq(Writes), letters : Seq(Letters)]

ProcessStates == [phase : {"down", "polling", "fetched"}, told : BOOLEAN,
                  at : Nat, page : Seq(Writes), to : Nat]
JobStates == [step : {"idle", "attempting", "inserted", "written"}, letter : Nat]

LiveTypeOK ==
    /\ tip \in Nat /\ checkpoint \in Nat /\ jobCrashes \in Nat
    /\ indexer \in [Indexers -> ProcessStates]
    /\ job \in JobStates
    /\ overlooked \subseteq Events

\* What the database holds: rows, effects in order, letters.
Db == [rows |-> rows, log |-> log, letters |-> letters]
Applied(d, e) == \E n \in DOMAIN d.log : d.log[n].event = e
Keyed(d, k) == \E n \in DOMAIN d.log : Key(d.log[n]) = k
InLetters(d, e) == \E n \in DOMAIN d.letters : d.letters[n].event = e
Retained(d, e) == Applied(d, e) \/ InLetters(d, e)

\* AppliedOncePerKey, with the rows that see to it: what is applied has a row.
RowsGuard(d) ==
    /\ \A m, n \in DOMAIN d.log : Key(d.log[m]) = Key(d.log[n]) => m = n
    /\ \A n \in DOMAIN d.log : Key(d.log[n]) \in d.rows

DbSound(d) == d \in DbStates /\ RowsGuard(d)

\* A row may be that of another event, which an earlier page had at the same place.
\* Pages begin and end with a ledger, unless they are full, so that the earlier page
\* had all of the transaction, and nothing of it is missing.
Touched(d, tx) ==
    \/ \E k \in d.rows : k[1] = tx
    \/ \E n \in DOMAIN d.letters : Chain[d.letters[n].event].tx = tx

Covered(d, over) ==
    \A e \in Events : Touched(d, Chain[e].tx) => Retained(d, e) \/ e \in over

\* A row without its effect is that of the letter in hand, unless a replay crashed.
JobIsSound ==
    /\ Replaying => job.letter \in DOMAIN letters
    /\ job.step = "inserted" =>
          Key(letters[job.letter]) \in rows /\ ~Keyed(Db, Key(letters[job.letter]))
    /\ jobCrashes = 0 =>
          \A k \in rows : Keyed(Db, k) \/ (job.step = "inserted" /\ k = Key(letters[job.letter]))

Settled(d, over, ledger) ==
    \A e \in Events : Chain[e].ledger \in StartLedger + 1 .. ledger => Retained(d, e) \/ e \in over

\* The page in hand holds the ledgers after the cursor, but for what it left out, and
\* no two of its events have one row.
PageIsComplete(i) ==
    /\ \A m, n \in DOMAIN i.page : i.page[m].index = i.page[n].index => m = n
    /\ \A n \in DOMAIN i.page : Chain[i.page[n].event].ledger \in i.at + 1 .. i.to
    /\ \A e \in Events : Chain[e].ledger \in i.at + 1 .. i.to =>
          (\E n \in DOMAIN i.page : i.page[n].event = e) \/ e \in LeftOut(i.page, i.to)

\* NothingSkipped is of the checkpoint alone; every running indexer has a cursor of
\* its own, and the one that commits last sets the checkpoint.
CursorsAreSettled ==
    /\ Settled(Db, overlooked, checkpoint)
    /\ \A p \in Indexers : Alive(p) =>
          /\ Settled(Db, overlooked, indexer[p].at)
          /\ indexer[p].phase = "fetched" => PageIsComplete(indexer[p])

LiveInv ==
    /\ LiveTypeOK /\ DbSound(Db) /\ Covered(Db, overlooked)
    /\ JobIsSound /\ CursorsAreSettled

LEMMA ChainFacts ==
    /\ Len(Chain) \in Nat /\ Events = 1 .. Len(Chain) /\ IsFiniteSet(Events)
    /\ \A e \in Events : Chain[e].ledger \in Nat
    /\ \A d, e \in Events : Chain[d].tx = Chain[e].tx => Chain[d].ledger = Chain[e].ledger
    /\ StartLedger \in Nat /\ EventsPerPage \in Nat \ {0}
<1>1. Len(Chain) \in Nat /\ Events = 1 .. Len(Chain)
    BY LiveConstants DEF Events
<1>2. IsFiniteSet(Events)
    BY <1>1, FS_Interval
<1>3. \A e \in Events : Chain[e] \in [ledger : Nat, tx : STRING, bet : BOOLEAN]
    <2> DEFINE R == [ledger : Nat, tx : STRING, bet : BOOLEAN]
    <2>1. Chain \in Seq(R)
        BY LiveConstants
    <2> HIDE DEF R
    <2>2. \A e \in Events : Chain[e] \in R
        BY <2>1, <1>1, ElementOfSeq
    <2> QED BY <2>2 DEF R
<1> QED BY <1>1, <1>2, <1>3, LiveConstants DEF Events

\* The events up to a ledger are a prefix of the chain.
LEMMA PrefixExists ==
    ASSUME NEW ledger \in Nat
    PROVE  /\ EventsUpTo(ledger) \in 0 .. Len(Chain)
           /\ \A e \in Events : e <= EventsUpTo(ledger) <=> Chain[e].ledger <= ledger
<1> DEFINE cuts == {n \in 0 .. Len(Chain) : \A e \in Events : n < e => ~(Chain[e].ledger <= ledger)}
<1>1. cuts \subseteq Nat /\ cuts # {}
    <2>1. Len(Chain) \in cuts
        BY ChainFacts
    <2> QED BY <2>1, ChainFacts
<1>2. PICK n \in cuts : \A m \in cuts : n <= m
    BY <1>1, LeastOfNaturals
<1>3. ASSUME NEW e \in Events, e <= n PROVE Chain[e].ledger <= ledger
    <2> SUFFICES ASSUME ~(Chain[e].ledger <= ledger) PROVE FALSE
        OBVIOUS
    <2>1. e \in Nat \ {0} /\ e - 1 \in 0 .. Len(Chain) /\ e - 1 < n
        BY <1>2, <1>3, ChainFacts
    <2>2. \A d \in Events : e - 1 < d => Chain[e].ledger <= Chain[d].ledger
        <3> SUFFICES ASSUME NEW d \in Events, e - 1 < d PROVE Chain[e].ledger <= Chain[d].ledger
            OBVIOUS
        <3>1. d = e \/ e < d
            BY <2>1, ChainFacts
        <3> QED BY <3>1, LiveConstants, ChainFacts DEF Events
    <2>3. ASSUME NEW d \in Events, e - 1 < d PROVE ~(Chain[d].ledger <= ledger)
        <3>1. /\ Chain[e].ledger <= Chain[d].ledger
              /\ Chain[e].ledger \in Nat /\ Chain[d].ledger \in Nat
            BY <2>2, <2>3, ChainFacts
        <3> QED BY <3>1
    <2>4. PICK k \in Nat : k = e - 1
        BY <2>1
    <2>5. k \in 0 .. Len(Chain) /\ \A d \in Events : k < d => ~(Chain[d].ledger <= ledger)
        BY <2>1, <2>3, <2>4
    <2>6. k \in cuts
        BY <2>5
    <2> HIDE DEF cuts
    <2>7. n <= k /\ n \in Nat
        BY <1>1, <1>2, <2>6
    <2> QED BY <2>1, <2>4, <2>7, <1>3
<1>4. \A e \in Events : e <= n <=> Chain[e].ledger <= ledger
    <2> SUFFICES ASSUME NEW e \in Events PROVE e <= n <=> Chain[e].ledger <= ledger
        OBVIOUS
    <2>1. n \in Nat /\ e \in Nat /\ (n < e => ~(Chain[e].ledger <= ledger))
        BY <1>2, ChainFacts
    <2> QED BY <2>1, <1>3
<1>5. n \in 0 .. Len(Chain)
    BY <1>2
<1> QED BY <1>4, <1>5 DEF EventsUpTo

\* A page holds the events after the cursor, each at a place of its own; it is full
\* if it leaves one out.
LEMMA PageCovers ==
    ASSUME NEW at \in Nat, NEW to \in Nat, at <= to
    PROVE  LET page == PageAfter(at, to) IN
           /\ page \in Seq(Writes)
           /\ \A m, n \in DOMAIN page : page[m].index = page[n].index => m = n
           /\ \A n \in DOMAIN page : Chain[page[n].event].ledger \in at + 1 .. to
           /\ \A e \in Events : Chain[e].ledger \in at + 1 .. to =>
                  (\E n \in DOMAIN page : page[n].event = e) \/ e \in LeftOut(page, to)
<1> DEFINE first == EventsUpTo(at)
           final == EventsUpTo(to)
           found == final - first
           size  == IF found < EventsPerPage THEN found ELSE EventsPerPage
           page  == [place \in 1 .. size |->
                        [event |-> first + place, index |-> IndexOf(place)]]
<1>1. /\ first \in 0 .. Len(Chain) /\ final \in 0 .. Len(Chain)
      /\ \A e \in Events : e <= first <=> Chain[e].ledger <= at
      /\ \A e \in Events : e <= final <=> Chain[e].ledger <= to
    BY PrefixExists
<1>2. PageAfter(at, to) = page
    BY DEF PageAfter
<1> HIDE DEF first, final
<1>3. first <= final
    <2>1. CASE first = 0
        BY <2>1, <1>1
    <2>2. CASE first # 0
        <3>1. first \in Events
            BY <2>2, <1>1, ChainFacts
        <3>2. Chain[first].ledger <= to
            BY <3>1, <1>1, ChainFacts
        <3> QED BY <3>1, <3>2, <1>1
    <2> QED BY <2>1, <2>2
<1>4. found \in Nat /\ size \in 0 .. found /\ (found > 0 => size > 0)
    BY <1>1, <1>3, ChainFacts
<1> HIDE DEF size
<1>5. \A place \in 1 .. size :
          /\ first + place \in Events /\ Chain[first + place].ledger \in at + 1 .. to
          /\ page[place] = [event |-> first + place, index |-> place - 1]
    <2> SUFFICES ASSUME NEW place \in 1 .. size
                 PROVE  /\ first + place \in Events /\ Chain[first + place].ledger \in at + 1 .. to
                        /\ page[place] = [event |-> first + place, index |-> place - 1]
        OBVIOUS
    <2>1. /\ first + place \in 1 .. Len(Chain)
          /\ ~(first + place <= first) /\ first + place <= final
        BY <1>1, <1>4, ChainFacts
    <2>2. first + place \in Events
        BY <2>1, ChainFacts
    <2>3. Chain[first + place].ledger \in at + 1 .. to
        BY <2>1, <2>2, <1>1, ChainFacts
    <2>4. page[place] = [event |-> first + place, index |-> place - 1]
        BY DEF IndexOf
    <2> HIDE DEF page
    <2> QED BY <2>2, <2>3, <2>4
<1>6. Len(page) = size /\ DOMAIN page = 1 .. size
    BY <1>4
<1>7. page \in Seq(Writes)
    <2>1. \A place \in 1 .. size : page[place] \in Writes
        <3>1. \A place \in 1 .. size : place - 1 \in Nat
            BY <1>4
        <3>2. ASSUME NEW place \in 1 .. size PROVE page[place] \in Writes
            <4>1. PICK e \in Events, k \in Nat : page[place] = [event |-> e, index |-> k]
                <5> HIDE DEF page
                <5> QED BY <3>1, <1>5
            <4> HIDE DEF page
            <4> QED BY <4>1 DEF Writes
        <3> HIDE DEF page
        <3> QED BY <3>2
    <2> HIDE DEF page
    <2>2. page = [place \in 1 .. size |-> page[place]]
        BY DEF page
    <2> QED BY <2>1, <2>2, <1>4
<1>8. /\ \A m, n \in DOMAIN page : page[m].index = page[n].index => m = n
      /\ \A n \in DOMAIN page : Chain[page[n].event].ledger \in at + 1 .. to
    <2>1. ASSUME NEW n \in DOMAIN page
          PROVE  /\ n \in Nat /\ page[n].index = n - 1
                 /\ Chain[page[n].event].ledger \in at + 1 .. to
        <3>1. n \in 1 .. size
            BY <1>6
        <3>2. size \in Nat
            BY <1>4
        <3>3. PICK e \in Events, k \in Nat : page[n] = [event |-> e, index |-> k] /\ k = n - 1
                                          /\ Chain[e].ledger \in at + 1 .. to
            <4> HIDE DEF page
            <4>1. n - 1 \in Nat
                BY <3>1, <3>2
            <4> QED BY <4>1, <3>1, <1>5
        <3>4. n \in Nat
            BY <3>1, <3>2
        <3> HIDE DEF page
        <3> QED BY <3>3, <3>4
    <2>2. \A m, n \in DOMAIN page : page[m].index = page[n].index => m = n
        BY <2>1
    <2> QED BY <2>1, <2>2
<1>9. ASSUME NEW e \in Events, Chain[e].ledger \in at + 1 .. to
      PROVE  (\E n \in DOMAIN page : page[n].event = e) \/ e \in LeftOut(page, to)
    <2>1. e \in Nat /\ ~(e <= first) /\ e <= final /\ Chain[e].ledger <= to
        BY <1>9, <1>1, ChainFacts
    <2>2. CASE e - first <= size
        <3>1. e - first \in 1 .. size /\ first + (e - first) = e
            BY <2>1, <2>2, <1>1, <1>4
        <3>2. page[e - first].event = e
            BY <3>1, <1>5
        <3> QED BY <3>1, <3>2, <1>6
    <2>3. CASE ~(e - first <= size)
        <3>1. size = EventsPerPage /\ size > 0
            BY <2>1, <2>3, <1>1, <1>4, ChainFacts DEF size
        <3>2. Last(page) = page[size] /\ size \in 1 .. size
            BY <3>1, <1>4, <1>6 DEF Last
        <3>3. Last(page).event = first + size
            BY <3>2, <1>5
        <3>4. e > Last(page).event
            BY <3>3, <2>1, <2>3, <1>1, <1>4
        <3>5. ~(Len(page) < EventsPerPage)
            BY <3>1, <1>6, ChainFacts
        <3> QED BY <3>4, <3>5, <2>1 DEF LeftOut
    <2> QED BY <2>2, <2>3
<1> HIDE DEF page
<1> QED BY <1>2, <1>7, <1>8, <1>9

-----------------------------------------------------------------------------

-----------------------------------------------------------------------------
(* Writing events                                                           *)

\* What writing may do: keep all that was there, write an effect only with a new row,
\* and add a row only with its effect.
Extends(d, new) ==
    /\ d.rows \subseteq new.rows
    /\ \A n \in DOMAIN d.letters : n \in DOMAIN new.letters /\ new.letters[n] = d.letters[n]
    /\ \A n \in DOMAIN d.log : n \in DOMAIN new.log /\ new.log[n] = d.log[n]
    /\ \A k : Keyed(new, k) /\ ~Keyed(d, k) => k \notin d.rows
    /\ \A k \in new.rows : k \in d.rows \/ Keyed(new, k)

\* One event is written: no other row, and no other transaction.
AddsAtMost(d, new, w) ==
    /\ new.rows \subseteq d.rows \cup {Key(w)}
    /\ \A tx : Touched(new, tx) => Touched(d, tx) \/ tx = Chain[w.event].tx

LEMMA WhatIsRecordedStays ==
    ASSUME NEW d, NEW new, Extends(d, new)
    PROVE  /\ \A e : Retained(d, e) => Retained(new, e)
           /\ \A k : Keyed(d, k) => Keyed(new, k)
BY DEF Extends, Retained, Applied, InLetters, Keyed

LEMMA ExtendsAll ==
    ASSUME NEW a, NEW b, NEW c, Extends(a, b), Extends(b, c)
    PROVE  Extends(a, c)
<1>1. /\ \A n \in DOMAIN a.letters : n \in DOMAIN c.letters /\ c.letters[n] = a.letters[n]
      /\ \A n \in DOMAIN a.log : n \in DOMAIN c.log /\ c.log[n] = a.log[n]
      /\ a.rows \subseteq c.rows
    BY DEF Extends
<1>2. \A k : Keyed(b, k) => Keyed(c, k)
    BY WhatIsRecordedStays
<1>3. \A k : Keyed(c, k) /\ ~Keyed(a, k) => k \notin a.rows
    BY DEF Extends
<1>4. \A k \in c.rows : k \in a.rows \/ Keyed(c, k)
    BY <1>2 DEF Extends
<1> QED BY <1>1, <1>3, <1>4 DEF Extends

LEMMA DbFacts ==
    ASSUME NEW d \in DbStates
    PROVE  /\ d.letters \in Seq(Letters) /\ DOMAIN d.letters = 1 .. Len(d.letters)
           /\ Len(d.letters) \in Nat /\ \A n \in DOMAIN d.letters : d.letters[n] \in Letters
           /\ d.log \in Seq(Writes) /\ DOMAIN d.log = 1 .. Len(d.log)
           /\ Len(d.log) \in Nat /\ \A n \in DOMAIN d.log : d.log[n] \in Writes
           /\ d.rows \subseteq {Key(w) : w \in Writes}
<1>1. d.letters \in Seq(Letters) /\ d.log \in Seq(Writes) /\ d.rows \subseteq {Key(w) : w \in Writes}
    BY DEF DbStates
<1> QED BY <1>1, LenProperties, ElementOfSeq

\* A rejected event becomes a letter.
LEMMA LetterIsKept ==
    ASSUME NEW d, DbSound(d), NEW w \in Writes, NEW new,
           new = [d EXCEPT !.letters = Append(d.letters, Letter(w))]
    PROVE  DbSound(new) /\ Extends(d, new) /\ InLetters(new, w.event) /\ AddsAtMost(d, new, w)
<1> DEFINE mail == Append(d.letters, Letter(w))
<1>1. d \in DbStates
    BY DEF DbSound
<1>2. Letter(w) \in Letters /\ Letter(w).event = w.event
    BY DEF Letter, Letters, Writes
<1>3. /\ mail \in Seq(Letters) /\ Len(mail) = Len(d.letters) + 1
      /\ \A n \in 1 .. Len(d.letters) : mail[n] = d.letters[n]
      /\ mail[Len(d.letters) + 1] = Letter(w)
    BY <1>1, <1>2, DbFacts, AppendProperties
<1>4. DOMAIN mail = 1 .. Len(mail) /\ DOMAIN d.letters = 1 .. Len(d.letters) /\ Len(d.letters) \in Nat
    BY <1>1, <1>3, DbFacts, LenProperties
<1> HIDE DEF mail
<1>5. new \in DbStates /\ new.rows = d.rows /\ new.log = d.log /\ new.letters = mail
    BY <1>1, <1>3 DEF DbStates, mail
<1>6. /\ \A n \in DOMAIN mail : n \in DOMAIN d.letters \/ n = Len(d.letters) + 1
      /\ Len(d.letters) + 1 \in DOMAIN mail
    BY <1>3, <1>4
<1>7. Extends(d, new)
    <2>1. \A k : Keyed(new, k) <=> Keyed(d, k)
        BY <1>5 DEF Keyed
    <2>2. \A n \in DOMAIN d.letters : n \in DOMAIN new.letters /\ new.letters[n] = d.letters[n]
        BY <1>3, <1>4, <1>5
    <2>3. \A k : Keyed(new, k) /\ ~Keyed(d, k) => k \notin d.rows
        BY <2>1
    <2>4. \A k \in new.rows : k \in d.rows \/ Keyed(new, k)
        BY <1>5
    <2>5. \A n \in DOMAIN d.log : n \in DOMAIN new.log /\ new.log[n] = d.log[n]
        BY <1>5
    <2>6. d.rows \subseteq new.rows
        BY <1>5
    <2> QED BY <2>2, <2>3, <2>4, <2>5, <2>6 DEF Extends
<1>8. RowsGuard(new)
    BY <1>5 DEF DbSound, RowsGuard
<1>9. InLetters(new, w.event)
    BY <1>2, <1>3, <1>5, <1>6 DEF InLetters
<1>10. AddsAtMost(d, new, w)
    <2>1. ASSUME NEW tx, Touched(new, tx) PROVE Touched(d, tx) \/ tx = Chain[w.event].tx
        <3>1. CASE \E k \in new.rows : k[1] = tx
            BY <3>1, <1>5 DEF Touched
        <3>2. ASSUME NEW n \in DOMAIN mail, Chain[mail[n].event].tx = tx
              PROVE  Touched(d, tx) \/ tx = Chain[w.event].tx
            BY <3>2, <1>2, <1>3, <1>4, <1>6 DEF Touched
        <3> QED BY <2>1, <3>1, <3>2, <1>5 DEF Touched
    <2> QED BY <2>1, <1>5 DEF AddsAtMost
<1> QED BY <1>5, <1>7, <1>8, <1>9, <1>10 DEF DbSound

\* An effect is written with its row, or when its row waits for it.
LEMMA EffectIsKept ==
    ASSUME NEW d, DbSound(d), NEW w \in Writes, ~Keyed(d, Key(w)), NEW new \in DbStates,
           new.log = Append(d.log, w), new.letters = d.letters, new.rows = d.rows \cup {Key(w)}
    PROVE  /\ DbSound(new) /\ Applied(new, w.event)
           /\ \A k : Keyed(new, k) <=> Keyed(d, k) \/ k = Key(w)
           /\ \A n \in DOMAIN d.log : n \in DOMAIN new.log /\ new.log[n] = d.log[n]
<1> DEFINE all == Append(d.log, w)
<1>1. d \in DbStates
    BY DEF DbSound
<1>2. /\ all \in Seq(Writes) /\ Len(all) = Len(d.log) + 1
      /\ \A n \in 1 .. Len(d.log) : all[n] = d.log[n]
      /\ all[Len(d.log) + 1] = w
    BY <1>1, DbFacts, AppendProperties
<1>3. DOMAIN d.log = 1 .. Len(d.log) /\ DOMAIN all = 1 .. Len(all) /\ Len(d.log) \in Nat
    BY <1>1, <1>2, DbFacts, LenProperties
<1> HIDE DEF all
<1>4. new.log = all
    BY DEF all
<1>5. /\ \A n \in DOMAIN all : n \in DOMAIN d.log \/ n = Len(d.log) + 1
      /\ Len(d.log) + 1 \in DOMAIN all /\ DOMAIN d.log \subseteq DOMAIN all
    BY <1>2, <1>3
<1>6. \A k : Keyed(new, k) <=> Keyed(d, k) \/ k = Key(w)
    <2> SUFFICES ASSUME NEW k PROVE Keyed(new, k) <=> Keyed(d, k) \/ k = Key(w)
        OBVIOUS
    <2>1. Keyed(new, k) => Keyed(d, k) \/ k = Key(w)
        BY <1>2, <1>3, <1>4, <1>5 DEF Keyed
    <2>2. Keyed(d, k) => Keyed(new, k)
        BY <1>2, <1>3, <1>4, <1>5 DEF Keyed
    <2>3. k = Key(w) => Keyed(new, k)
        BY <1>2, <1>4, <1>5 DEF Keyed
    <2> QED BY <2>1, <2>2, <2>3
<1>7. \A m, n \in DOMAIN all : Key(all[m]) = Key(all[n]) => m = n
    <2> SUFFICES ASSUME NEW m \in DOMAIN all, NEW n \in DOMAIN all, Key(all[m]) = Key(all[n])
                 PROVE  m = n
        OBVIOUS
    <2>1. \A k \in DOMAIN d.log : all[k] = d.log[k] /\ Key(d.log[k]) # Key(w)
        BY <1>2, <1>3 DEF Keyed
    <2>2. CASE m \in DOMAIN d.log /\ n \in DOMAIN d.log
        BY <2>1, <2>2 DEF DbSound, RowsGuard
    <2>3. CASE m \notin DOMAIN d.log \/ n \notin DOMAIN d.log
        BY <2>1, <2>3, <1>2, <1>5
    <2> QED BY <2>2, <2>3
<1>8. \A n \in DOMAIN all : Key(all[n]) \in new.rows
    <2> SUFFICES ASSUME NEW n \in DOMAIN all PROVE Key(all[n]) \in new.rows
        OBVIOUS
    <2>1. CASE n \in DOMAIN d.log
        BY <2>1, <1>2, <1>3 DEF DbSound, RowsGuard
    <2>2. CASE n = Len(d.log) + 1
        BY <2>2, <1>2
    <2> QED BY <2>1, <2>2, <1>5
<1>9. Applied(new, w.event)
    BY <1>2, <1>4, <1>5 DEF Applied
<1>10. \A n \in DOMAIN d.log : n \in DOMAIN new.log /\ new.log[n] = d.log[n]
    BY <1>2, <1>3, <1>4, <1>5
<1> QED BY <1>4, <1>6, <1>7, <1>8, <1>9, <1>10 DEF DbSound, RowsGuard

LEMMA OneWrite ==
    ASSUME NEW d, DbSound(d), NEW w \in Writes
    PROVE  LET new == WriteEvent(d, w) IN
           /\ DbSound(new) /\ Extends(d, new) /\ AddsAtMost(d, new, w)
           /\ Retained(new, w.event) \/ Key(w) \in d.rows
<1> DEFINE new == WriteEvent(d, w)
<1>1. CASE w.event \in rejected
    <2>1. new = [d EXCEPT !.letters = Append(d.letters, Letter(w))]
        BY <1>1 DEF WriteEvent
    <2> HIDE DEF new
    <2>2. DbSound(new) /\ Extends(d, new) /\ InLetters(new, w.event) /\ AddsAtMost(d, new, w)
        BY <2>1, LetterIsKept
    <2> QED BY <2>2 DEF new, Retained
<1>2. CASE w.event \notin rejected /\ Key(w) \in d.rows
    <2>1. new = d
        BY <1>2 DEF WriteEvent
    <2>2. Extends(d, d) /\ AddsAtMost(d, d, w)
        BY DEF Extends, AddsAtMost
    <2> QED BY <1>2, <2>1, <2>2
<1>3. CASE w.event \notin rejected /\ Key(w) \notin d.rows
    <2> DEFINE rowed == [d EXCEPT !.rows = d.rows \cup {Key(w)}]
    <2>1. d \in DbStates
        BY DEF DbSound
    <2>2. rowed \in DbStates /\ rowed.rows = d.rows \cup {Key(w)} /\ rowed.log = d.log
          /\ rowed.letters = d.letters
        BY <2>1 DEF DbStates
    <2>3. [event |-> w.event, index |-> w.index] = w
        BY DEF Writes
    <2>4. new = [rowed EXCEPT !.log = Append(d.log, w)]
        BY <1>3, <2>1, <2>3 DEF WriteEvent, DbStates
    <2>5. Append(d.log, w) \in Seq(Writes)
        BY <2>1, DbFacts, AppendProperties
    <2> HIDE DEF rowed, new
    <2>6. /\ new \in DbStates /\ new.rows = d.rows \cup {Key(w)} /\ new.letters = d.letters
          /\ new.log = Append(d.log, w)
        BY <2>2, <2>4, <2>5 DEF DbStates
    <2>7. ~Keyed(d, Key(w))
        BY <1>3 DEF DbSound, RowsGuard, Keyed
    <2>8. /\ DbSound(new) /\ Applied(new, w.event)
          /\ \A k : Keyed(new, k) <=> Keyed(d, k) \/ k = Key(w)
          /\ \A n \in DOMAIN d.log : n \in DOMAIN new.log /\ new.log[n] = d.log[n]
        BY <2>6, <2>7, EffectIsKept
    <2>9. Extends(d, new)
        BY <1>3, <2>6, <2>8 DEF Extends
    <2>10. AddsAtMost(d, new, w)
        <3>1. Key(w)[1] = Chain[w.event].tx
            BY DEF Key
        <3> QED BY <2>6, <3>1 DEF AddsAtMost, Touched
    <2> QED BY <2>8, <2>9, <2>10 DEF new, Retained
<1> QED BY <1>1, <1>2, <1>3

\* The transaction of a page, one event after the other.
Writing(page, f, n) ==
    f = [k \in 0 .. n |-> IF k = 0 THEN Db ELSE WriteEvent(f[k - 1], page[k])]

LEMMA WritingExists ==
    ASSUME NEW page, NEW size \in Nat
    PROVE  \E f : Writing(page, f, size)
<1> DEFINE G == {n \in Nat : \E f : Writing(page, f, n)}
<1>1. 0 \in G
    <2> DEFINE f == [k \in 0 .. 0 |-> Db]
    <2>1. f = [k \in 0 .. 0 |-> IF k = 0 THEN Db ELSE WriteEvent(f[k - 1], page[k])]
        OBVIOUS
    <2> HIDE DEF f
    <2>2. Writing(page, f, 0)
        BY <2>1 DEF Writing
    <2> QED BY <2>2
<1>2. ASSUME NEW n \in Nat, n \in G PROVE n + 1 \in G
    <2>1. PICK f : Writing(page, f, n)
        BY <1>2
    <2> DEFINE g == [k \in 0 .. n + 1 |-> IF k \in 0 .. n THEN f[k] ELSE WriteEvent(f[n], page[n + 1])]
               h == [k \in 0 .. n + 1 |-> IF k = 0 THEN Db ELSE WriteEvent(g[k - 1], page[k])]
    <2>2. ASSUME NEW k \in 0 .. n + 1 PROVE g[k] = h[k]
        <3>1. CASE k = 0
            <4>1. g[k] = f[0] /\ f[0] = Db
                BY <2>1, <3>1 DEF Writing
            <4> QED BY <4>1, <3>1
        <3>2. CASE k \in 1 .. n
            <4> PICK j \in 0 .. n : j = k - 1 /\ k \in 0 .. n
                BY <3>2
            <4>1. g[j] = f[j] /\ g[k] = f[k]
                BY <3>2
            <4>2. f[k] = WriteEvent(f[k - 1], page[k])
                BY <2>1, <3>2 DEF Writing
            <4>3. h[k] = WriteEvent(g[k - 1], page[k])
                BY <3>2
            <4> HIDE DEF g, h
            <4> QED BY <4>1, <4>2, <4>3
        <3>3. CASE k = n + 1
            <4>1. g[n] = f[n] /\ g[k] = WriteEvent(f[n], page[n + 1])
                BY <3>3
            <4>2. h[k] = WriteEvent(g[k - 1], page[k])
                BY <3>3
            <4>3. k - 1 = n
                BY <3>3
            <4> HIDE DEF g, h
            <4> QED BY <4>1, <4>2, <4>3, <3>3
        <3> QED BY <3>1, <3>2, <3>3
    <2>3. g = h
        BY <2>2
    <2>4. Writing(page, g, n + 1)
        <3> HIDE DEF g
        <3> QED BY <2>3 DEF Writing
    <2> HIDE DEF g
    <2> QED BY <2>4
<1>3. Nat \subseteq G
    <2> HIDE DEF G
    <2> QED BY <1>1, <1>2, NaturalsFromZero
<1> QED BY <1>3

\* Whatever page is written, the database stays sound, every event of the page is
\* recorded or had its row before, and no transaction is touched but the page's.
LEMMA PageIsWritten ==
    ASSUME DbSound(Db), NEW page \in Seq(Writes),
           \A m, n \in DOMAIN page : page[m].index = page[n].index => m = n
    PROVE  LET new == WriteEvents(page) IN
           /\ DbSound(new) /\ Extends(Db, new)
           /\ \A n \in DOMAIN page : Retained(new, page[n].event) \/ Key(page[n]) \in Db.rows
           /\ \A tx : Touched(new, tx) =>
                  Touched(Db, tx) \/ \E n \in DOMAIN page : tx = Chain[page[n].event].tx
<1> DEFINE f == CHOOSE g : Writing(page, g, Len(page))
<1>1. Len(page) \in Nat /\ DOMAIN page = 1 .. Len(page)
    BY LenProperties
<1>2. Writing(page, f, Len(page))
    BY <1>1, WritingExists
<1>3. WriteEvents(page) = f[Len(page)]
    BY DEF WriteEvents, Writing, Db
<1> HIDE DEF f
<1>4. /\ f[0] = Db
      /\ \A n \in 0 .. Len(page) : n # 0 => f[n] = WriteEvent(f[n - 1], page[n])
    BY <1>1, <1>2 DEF Writing
<1>5. \A n \in DOMAIN page : page[n] \in Writes
    BY <1>1, ElementOfSeq
<1> DEFINE Good(n) ==
               /\ DbSound(f[n]) /\ Extends(Db, f[n])
               /\ \A k \in f[n].rows : k \in Db.rows \/ \E m \in 1 .. n : k = Key(page[m])
               /\ \A m \in 1 .. n : Retained(f[n], page[m].event) \/ Key(page[m]) \in Db.rows
               /\ \A tx : Touched(f[n], tx) =>
                      Touched(Db, tx) \/ \E m \in 1 .. n : tx = Chain[page[m].event].tx
           G == {n \in Nat : n <= Len(page) => Good(n)}
<1>6. 0 \in G
    <2>1. Extends(Db, Db)
        BY DEF Extends
    <2> QED BY <1>4, <2>1
<1>7. ASSUME NEW n \in Nat, n \in G PROVE n + 1 \in G
    <2> SUFFICES ASSUME n + 1 <= Len(page) PROVE Good(n + 1)
        OBVIOUS
    <2> PICK k \in 1 .. Len(page) : k = n + 1 /\ k - 1 = n
        BY <1>1
    <2>1. /\ DbSound(f[n]) /\ Extends(Db, f[n])
          /\ \A x \in f[n].rows : x \in Db.rows \/ \E m \in 1 .. n : x = Key(page[m])
          /\ \A m \in 1 .. n : Retained(f[n], page[m].event) \/ Key(page[m]) \in Db.rows
          /\ \A tx : Touched(f[n], tx) =>
                 Touched(Db, tx) \/ \E m \in 1 .. n : tx = Chain[page[m].event].tx
        BY <1>1, <1>7
    <2>2. f[k] = WriteEvent(f[n], page[k])
        BY <1>4
    <2>3. page[k] \in Writes
        BY <1>1, <1>5
    <2>4. /\ DbSound(f[k]) /\ Extends(f[n], f[k]) /\ AddsAtMost(f[n], f[k], page[k])
          /\ Retained(f[k], page[k].event) \/ Key(page[k]) \in f[n].rows
        BY <2>1, <2>2, <2>3, OneWrite
    <2>5. Extends(Db, f[k])
        BY <2>1, <2>4, ExtendsAll
    <2>6. /\ \A m \in 1 .. k : m \in 1 .. n \/ m = k
          /\ \A m \in 1 .. n : m \in 1 .. k /\ m # k /\ m \in DOMAIN page
          /\ k \in 1 .. k /\ k \in DOMAIN page
        BY <1>1
    <2>7. \A x \in f[k].rows : x \in Db.rows \/ \E m \in 1 .. k : x = Key(page[m])
        BY <2>1, <2>4, <2>6 DEF AddsAtMost
    <2>8. Key(page[k]) \in f[n].rows => Key(page[k]) \in Db.rows
        <3>1. \A m \in 1 .. n : Key(page[k]) # Key(page[m])
            BY <2>6 DEF Key
        <3> QED BY <2>1, <3>1
    <2>9. \A m \in 1 .. k : Retained(f[k], page[m].event) \/ Key(page[m]) \in Db.rows
        BY <2>1, <2>4, <2>6, <2>8, WhatIsRecordedStays
    <2>10. \A tx : Touched(f[k], tx) =>
               Touched(Db, tx) \/ \E m \in 1 .. k : tx = Chain[page[m].event].tx
        BY <2>1, <2>4, <2>6 DEF AddsAtMost
    <2>11. Good(k)
        BY <2>4, <2>5, <2>7, <2>9, <2>10
    <2> QED BY <2>11
<1>8. Nat \subseteq G
    <2> HIDE DEF G
    <2> QED BY <1>6, <1>7, NaturalsFromZero
<1>9. Good(Len(page))
    BY <1>1, <1>8
<1> QED BY <1>1, <1>3, <1>9

-----------------------------------------------------------------------------
(* The steps                                                                *)

LEMMA LiveInitially == LiveInit => LiveInv
<1> SUFFICES ASSUME LiveInit PROVE LiveInv
    OBVIOUS
<1>1. LiveTypeOK
    BY ChainFacts DEF LiveInit, LiveTypeOK, NotRunning, ProcessStates, JobStates
<1>2. DbSound(Db) /\ Covered(Db, overlooked)
    <2>1. PICK none \in Seq(Writes) : none = <<>>
        BY EmptySeq
    <2>2. PICK quiet \in Seq(Letters) : quiet = <<>>
        BY EmptySeq
    <2>3. Db = [rows |-> {}, log |-> none, letters |-> quiet]
        BY <2>1, <2>2 DEF LiveInit, Db
    <2>4. Db \in DbStates
        BY <2>3 DEF DbStates
    <2>5. Db.rows = {} /\ Db.log = <<>> /\ Db.letters = <<>>
        BY DEF LiveInit, Db
    <2> QED BY <2>4, <2>5 DEF DbSound, RowsGuard, Covered, Touched
<1>3. JobIsSound
    BY DEF LiveInit, JobIsSound, Replaying
<1>4. Settled(Db, overlooked, checkpoint)
    BY ChainFacts DEF LiveInit, Settled
<1>5. \A p \in Indexers : ~Alive(p)
    BY DEF LiveInit, Alive, NotRunning
<1> QED BY <1>1, <1>2, <1>3, <1>4, <1>5 DEF LiveInv, CursorsAreSettled

CursorSettled(i) ==
    i.phase # "down" =>
        Settled(Db, overlooked, i.at) /\ (i.phase = "fetched" => PageIsComplete(i))

LEMMA ProcessTypes ==
    ASSUME LiveInv, NEW p \in Indexers
    PROVE  indexer[p] \in ProcessStates /\ CursorSettled(indexer[p])
<1>1. indexer \in [Indexers -> ProcessStates]
    BY DEF LiveInv, LiveTypeOK, ProcessStates
<1>2. indexer[p] \in ProcessStates
    BY <1>1
<1>3. CursorSettled(indexer[p])
    BY DEF LiveInv, CursorsAreSettled, CursorSettled, Alive
<1> QED BY <1>2, <1>3

\* What is said of the database is said of the next one.
LEMMA DatabasePrimed ==
    /\ DbSound(Db') => DbSound(Db)'
    /\ Covered(Db', overlooked') => Covered(Db, overlooked)'
BY DEF DbSound, DbStates, Writes, Letters, RowsGuard, Covered, Touched, Retained, Applied, InLetters,
       Key, Events

\* One process moves and the database stays.
LEMMA ProcessMoves ==
    ASSUME LiveInv, NEW p \in Indexers, NEW i \in ProcessStates, CursorSettled(i),
           indexer' = [indexer EXCEPT ![p] = i], UNCHANGED <<dbVars, jobVars, tip>>
    PROVE  LiveInv'
<1>1. indexer \in [Indexers -> ProcessStates]
    BY DEF LiveInv, LiveTypeOK, ProcessStates
<1>2. indexer' \in [Indexers -> ProcessStates]
    BY <1>1
<1>3. LiveTypeOK'
    BY <1>2 DEF LiveInv, LiveTypeOK, ProcessStates, dbVars, jobVars
<1>4. Db' = Db /\ overlooked' = overlooked
    BY DEF Db, dbVars
<1>5. DbSound(Db') /\ Covered(Db', overlooked')
    BY <1>4 DEF LiveInv
<1>6. JobIsSound'
    BY <1>4 DEF LiveInv, JobIsSound, Replaying, Keyed, Key, dbVars, jobVars
<1>7. Settled(Db, overlooked, checkpoint)'
    BY <1>4 DEF LiveInv, CursorsAreSettled, Settled, Retained, Applied, InLetters, dbVars
<1>8. ASSUME NEW q \in Indexers, Alive(q)'
      PROVE  /\ Settled(Db, overlooked, indexer[q].at)'
             /\ (indexer[q].phase = "fetched" => PageIsComplete(indexer[q]))'
    <2>1. CursorSettled(indexer'[q])
        <3>1. CursorSettled(indexer[q])
            BY ProcessTypes
        <3>2. indexer'[q] = IF q = p THEN i ELSE indexer[q]
            BY <1>1
        <3> QED BY <3>1, <3>2
    <2>2. indexer'[q].phase # "down"
        BY <1>8 DEF Alive
    <2>3. Settled(Db, overlooked, indexer'[q].at) /\ (indexer'[q].phase = "fetched" => PageIsComplete(indexer'[q]))
        BY <2>1, <2>2 DEF CursorSettled
    <2> QED BY <2>3, <1>4 DEF Settled, Retained, Applied, InLetters, PageIsComplete, LeftOut
<1> QED BY <1>3, <1>5, <1>6, <1>7, <1>8, DatabasePrimed DEF LiveInv, CursorsAreSettled

LEMMA WorldKeeps ==
    ASSUME LiveInv, UNCHANGED <<indexer, dbVars, job, jobCrashes>>, tip' \in Nat
    PROVE  LiveInv'
<1>1. LiveTypeOK'
    BY DEF LiveInv, LiveTypeOK, dbVars
<1>2. Db' = Db /\ overlooked' = overlooked
    BY DEF Db, dbVars
<1>3. DbSound(Db') /\ Covered(Db', overlooked')
    BY <1>2 DEF LiveInv
<1>4. JobIsSound'
    BY <1>2 DEF LiveInv, JobIsSound, Replaying, Keyed, Key, dbVars
<1>5. CursorsAreSettled'
    BY <1>2 DEF LiveInv, CursorsAreSettled, Settled, Retained, Applied, InLetters, Alive,
                PageIsComplete, LeftOut, dbVars
<1> QED BY <1>1, <1>3, <1>4, <1>5, DatabasePrimed DEF LiveInv

LEMMA ProcessStepKeeps ==
    ASSUME LiveInv, NEW p \in Indexers,
           \/ AcquireIndexerLock(p) \/ HeartbeatFails(p) \/ StopPolling(p) \/ FetchPage(p)
           \/ CrashIndexer(p) \/ RollBackPage(p)
    PROVE  LiveInv'
<1>1. indexer[p] \in ProcessStates /\ CursorSettled(indexer[p])
    BY ProcessTypes
<1> DEFINE down == NotRunning
<1>2. down \in ProcessStates /\ CursorSettled(down)
    BY DEF NotRunning, ProcessStates, CursorSettled
<1>3. CASE AcquireIndexerLock(p)
    <2>1. PICK none \in Seq(Writes) : none = <<>>
        BY EmptySeq
    <2> DEFINE j == [NotRunning EXCEPT !.phase = "polling"]
               i == [j EXCEPT !.at = StartLedger]
    <2>2. NotRunning = [phase |-> "down", told |-> FALSE, at |-> 0, page |-> none, to |-> 0]
        BY <2>1 DEF NotRunning
    <2>3. NotRunning \in ProcessStates
        BY <2>2 DEF ProcessStates
    <2>4. j \in ProcessStates /\ j.phase = "polling"
        BY <2>3 DEF ProcessStates
    <2>5. indexer' = [indexer EXCEPT ![p] = i]
        BY <1>3 DEF AcquireIndexerLock
    <2> HIDE DEF j
    <2>6. i \in ProcessStates /\ i.phase = "polling" /\ i.at = StartLedger
        BY <2>4, ChainFacts DEF ProcessStates
    <2> HIDE DEF i
    <2>7. CursorSettled(i)
        BY <2>6, ChainFacts DEF CursorSettled, Settled
    <2> QED BY <1>3, <2>5, <2>6, <2>7, ProcessMoves DEF AcquireIndexerLock
<1>4. CASE HeartbeatFails(p)
    <2> DEFINE i == [indexer[p] EXCEPT !.told = TRUE]
    <2>1. i \in ProcessStates /\ i.phase = indexer[p].phase /\ i.at = indexer[p].at
          /\ i.page = indexer[p].page /\ i.to = indexer[p].to
        BY <1>1 DEF ProcessStates
    <2>2. indexer' = [indexer EXCEPT ![p] = i]
        BY <1>4 DEF HeartbeatFails
    <2> HIDE DEF i
    <2>3. CursorSettled(i)
        BY <1>1, <2>1 DEF CursorSettled, PageIsComplete
    <2> QED BY <1>4, <2>1, <2>2, <2>3, ProcessMoves DEF HeartbeatFails
<1>5. CASE StopPolling(p) \/ CrashIndexer(p)
    <2>1. indexer' = [indexer EXCEPT ![p] = down] /\ UNCHANGED <<dbVars, jobVars, tip>>
        BY <1>5 DEF StopPolling, CrashIndexer
    <2> HIDE DEF down
    <2> QED BY <1>2, <2>1, ProcessMoves
<1>6. CASE FetchPage(p)
    <2> DEFINE at == indexer[p].at
               page == PageAfter(at, tip)
    <2>1. at \in Nat /\ tip \in Nat /\ at <= tip /\ indexer[p].phase = "polling"
        BY <1>1, <1>6 DEF FetchPage, ProcessStates, LiveInv, LiveTypeOK
    <2>2. PageFrom(at + 1, tip) = page
        <3>1. (at + 1) - 1 = at
            BY <2>1
        <3> QED BY <3>1 DEF PageFrom
    <2>3. /\ page \in Seq(Writes)
          /\ \A m, n \in DOMAIN page : page[m].index = page[n].index => m = n
          /\ \A n \in DOMAIN page : Chain[page[n].event].ledger \in at + 1 .. tip
          /\ \A e \in Events : Chain[e].ledger \in at + 1 .. tip =>
                 (\E n \in DOMAIN page : page[n].event = e) \/ e \in LeftOut(page, tip)
        <3> HIDE DEF at
        <3> QED BY <2>1, PageCovers
    <2> DEFINE j == [indexer[p] EXCEPT !.phase = "fetched"]
               k == [j EXCEPT !.to = tip]
               i == [k EXCEPT !.page = page]
    <2>4. indexer' = [indexer EXCEPT ![p] = i]
        BY <1>6, <2>2 DEF FetchPage
    <2>5. j \in ProcessStates /\ j.phase = "fetched" /\ j.at = at
        BY <1>1 DEF ProcessStates
    <2> HIDE DEF j, at, page
    <2>6. k \in ProcessStates /\ k.phase = "fetched" /\ k.at = at /\ k.to = tip
        BY <2>1, <2>5 DEF ProcessStates
    <2> HIDE DEF k
    <2>7. i \in ProcessStates /\ i.phase = "fetched" /\ i.at = at /\ i.to = tip /\ i.page = page
        BY <2>3, <2>6 DEF ProcessStates
    <2> HIDE DEF i
    <2>8. Settled(Db, overlooked, at)
        BY <1>1, <2>1 DEF CursorSettled, at
    <2>9. CursorSettled(i)
        BY <2>3, <2>7, <2>8 DEF CursorSettled, PageIsComplete
    <2> QED BY <1>6, <2>4, <2>7, <2>9, ProcessMoves DEF FetchPage
<1>7. CASE RollBackPage(p)
    <2> DEFINE j == [indexer[p] EXCEPT !.phase = "polling"]
               i == [j EXCEPT !.page = <<>>]
    <2>1. indexer' = [indexer EXCEPT ![p] = i]
        BY <1>7 DEF RollBackPage
    <2>2. j \in ProcessStates /\ j.phase = "polling" /\ j.at = indexer[p].at
        BY <1>1 DEF ProcessStates
    <2> HIDE DEF j
    <2>3. i \in ProcessStates /\ i.phase = "polling" /\ i.at = indexer[p].at
        <3>1. PICK none \in Seq(Writes) : none = <<>>
            BY EmptySeq
        <3>2. [j EXCEPT !.page = none] \in ProcessStates
            BY <2>2 DEF ProcessStates
        <3>3. i.phase = j.phase /\ i.at = j.at
            BY <2>2 DEF ProcessStates
        <3> HIDE DEF i
        <3> QED BY <2>2, <3>1, <3>2, <3>3 DEF i
    <2> HIDE DEF i
    <2>4. CursorSettled(i)
        BY <1>1, <1>7, <2>3 DEF CursorSettled, RollBackPage
    <2> QED BY <1>7, <2>1, <2>3, <2>4, ProcessMoves DEF RollBackPage
<1> QED BY <1>3, <1>4, <1>5, <1>6, <1>7

LEMMA SettledStays ==
    ASSUME NEW d, NEW new, NEW over, NEW more, over \subseteq more, NEW ledger,
           \A e \in Events : Retained(d, e) => Retained(new, e),
           Settled(d, over, ledger)
    PROVE  Settled(new, more, ledger)
BY DEF Settled

\* The database grows; the processes but the one that wrote stay where they are.
LEMMA CursorsStaySettled ==
    ASSUME LiveInv, overlooked \subseteq overlooked',
           \A e \in Events : Retained(Db, e) => Retained(Db', e)
    PROVE  /\ Settled(Db', overlooked', checkpoint)
           /\ \A p \in Indexers : Alive(p) => Settled(Db', overlooked', indexer[p].at)
BY SettledStays DEF LiveInv, CursorsAreSettled

LEMMA CommitKeeps ==
    ASSUME LiveInv, NEW p \in Indexers, CommitPage(p)
    PROVE  LiveInv'
<1> DEFINE page == indexer[p].page
           new == WriteEvents(page)
<1>1. indexer[p] \in ProcessStates /\ CursorSettled(indexer[p]) /\ indexer[p].phase = "fetched"
    BY ProcessTypes DEF CommitPage
<1>2. PageIsComplete(indexer[p]) /\ Settled(Db, overlooked, indexer[p].at)
    BY <1>1 DEF CursorSettled
<1>3. page \in Seq(Writes) /\ \A n \in DOMAIN page : page[n] \in Writes
    <2>1. page \in Seq(Writes)
        BY <1>1 DEF ProcessStates
    <2> HIDE DEF page
    <2> QED BY <2>1, LenProperties, ElementOfSeq
<1>4. /\ DbSound(new) /\ Extends(Db, new)
      /\ \A n \in DOMAIN page : Retained(new, page[n].event) \/ Key(page[n]) \in Db.rows
      /\ \A tx : Touched(new, tx) =>
             Touched(Db, tx) \/ \E n \in DOMAIN page : tx = Chain[page[n].event].tx
    <2>1. \A m, n \in DOMAIN page : page[m].index = page[n].index => m = n
        BY <1>2 DEF PageIsComplete
    <2>2. DbSound(Db)
        BY DEF LiveInv
    <2> HIDE DEF page
    <2> QED BY <1>3, <2>1, <2>2, PageIsWritten
<1> HIDE DEF new
<1>5. Db' = new
    <2>1. new = [rows |-> new.rows, log |-> new.log, letters |-> new.letters]
        BY <1>4 DEF DbSound, DbStates
    <2>2. rows' = new.rows /\ log' = new.log /\ letters' = new.letters
        BY DEF CommitPage, new
    <2> QED BY <2>1, <2>2 DEF Db
<1>6. overlooked' = overlooked \cup LeftOut(page, indexer[p].to)
    BY DEF CommitPage
<1>7. /\ \A e : Retained(Db, e) => Retained(Db', e)
      /\ \A k : Keyed(Db, k) => Keyed(Db', k)
    BY <1>4, <1>5, WhatIsRecordedStays
<1>8. /\ Settled(Db', overlooked', checkpoint)
      /\ \A q \in Indexers : Alive(q) => Settled(Db', overlooked', indexer[q].at)
    BY <1>6, <1>7, CursorsStaySettled
<1>9. ASSUME NEW e \in Events, Touched(Db, Chain[e].tx)
      PROVE  Retained(Db', e) \/ e \in overlooked'
    BY <1>6, <1>7, <1>9 DEF LiveInv, Covered
<1>10. ASSUME NEW n \in DOMAIN page
       PROVE  Retained(Db', page[n].event) \/ page[n].event \in overlooked'
    <2>1. page[n].event \in Events /\ Key(page[n])[1] = Chain[page[n].event].tx
        BY <1>3 DEF Writes, Key
    <2>2. Key(page[n]) \in Db.rows => Touched(Db, Chain[page[n].event].tx)
        BY <2>1 DEF Touched
    <2> QED BY <1>4, <1>5, <1>9, <2>1, <2>2
\* Whatever of the page's ledgers is not in the page is left out by it.
<1>11. ASSUME NEW e \in Events, Chain[e].ledger \in indexer[p].at + 1 .. indexer[p].to
       PROVE  Retained(Db', e) \/ e \in overlooked'
    <2>1. (\E n \in DOMAIN page : page[n].event = e) \/ e \in LeftOut(page, indexer[p].to)
        BY <1>2, <1>11 DEF PageIsComplete
    <2> QED BY <1>6, <1>10, <2>1
<1>12. Settled(Db', overlooked', indexer[p].to)
    <2> SUFFICES ASSUME NEW e \in Events, Chain[e].ledger \in StartLedger + 1 .. indexer[p].to
                 PROVE  Retained(Db', e) \/ e \in overlooked'
        BY DEF Settled
    <2>1. CASE Chain[e].ledger <= indexer[p].at
        <3>1. Chain[e].ledger \in StartLedger + 1 .. indexer[p].at
            BY <1>1, <2>1, ChainFacts DEF ProcessStates
        <3>2. Alive(p)
            BY <1>1 DEF Alive
        <3> QED BY <1>8, <3>1, <3>2 DEF Settled
    <2>2. CASE ~(Chain[e].ledger <= indexer[p].at)
        <3>1. Chain[e].ledger \in indexer[p].at + 1 .. indexer[p].to
            BY <1>1, <2>2, ChainFacts DEF ProcessStates
        <3> QED BY <1>11, <3>1
    <2> QED BY <2>1, <2>2
<1>13. Covered(Db', overlooked')
    <2> SUFFICES ASSUME NEW e \in Events, Touched(Db', Chain[e].tx)
                 PROVE  Retained(Db', e) \/ e \in overlooked'
        BY DEF Covered
    <2>1. CASE Touched(Db, Chain[e].tx)
        BY <1>9, <2>1
    <2>2. ASSUME NEW n \in DOMAIN page, Chain[e].tx = Chain[page[n].event].tx
          PROVE  Retained(Db', e) \/ e \in overlooked'
        <3>1. page[n].event \in Events
            BY <1>3 DEF Writes
        <3>2. Chain[e].ledger = Chain[page[n].event].ledger
            BY <2>2, <3>1, ChainFacts
        <3>3. Chain[e].ledger \in indexer[p].at + 1 .. indexer[p].to
            BY <1>2, <3>2 DEF PageIsComplete
        <3> QED BY <1>11, <3>3
    <2> QED BY <1>4, <1>5, <2>1, <2>2
<1> DEFINE j == [indexer[p] EXCEPT !.phase = "polling"]
           k == [j EXCEPT !.at = indexer[p].to]
           i == [k EXCEPT !.page = <<>>]
<1>14. indexer' = [indexer EXCEPT ![p] = i]
    BY DEF CommitPage
<1>15. i \in ProcessStates /\ i.phase = "polling" /\ i.at = indexer[p].to
    <2>1. j \in ProcessStates /\ j.phase = "polling" /\ indexer[p].to \in Nat
        BY <1>1 DEF ProcessStates
    <2> HIDE DEF j
    <2>2. k \in ProcessStates /\ k.phase = "polling" /\ k.at = indexer[p].to
        BY <2>1 DEF ProcessStates
    <2> HIDE DEF k
    <2>3. PICK none \in Seq(Writes) : none = <<>>
        BY EmptySeq
    <2>4. [k EXCEPT !.page = none] \in ProcessStates
        BY <2>2 DEF ProcessStates
    <2>5. i.phase = k.phase /\ i.at = k.at
        BY <2>2 DEF ProcessStates
    <2> HIDE DEF i
    <2> QED BY <2>2, <2>3, <2>4, <2>5 DEF i
<1> HIDE DEF i
<1>16. indexer \in [Indexers -> ProcessStates]
    BY DEF LiveInv, LiveTypeOK, ProcessStates
<1>17. LiveTypeOK'
    <2>1. indexer' \in [Indexers -> ProcessStates]
        BY <1>14, <1>15, <1>16
    <2>2. LeftOut(page, indexer[p].to) \subseteq Events /\ indexer[p].to \in Nat
        BY <1>1 DEF LeftOut, ProcessStates
    <2>3. UNCHANGED <<tip, job, jobCrashes>> /\ checkpoint' = indexer[p].to
        BY DEF CommitPage, jobVars
    <2> HIDE DEF page
    <2> QED BY <1>6, <2>1, <2>2, <2>3 DEF LiveInv, LiveTypeOK, ProcessStates
<1>18. JobIsSound'
    <2>1. UNCHANGED <<job, jobCrashes>>
        BY DEF CommitPage, jobVars
    <2>2. \A n \in DOMAIN letters : n \in DOMAIN letters' /\ letters'[n] = letters[n]
        BY <1>4, <1>5 DEF Extends, Db
    <2>3. /\ rows \subseteq rows'
          /\ \A x \in rows' : x \in rows \/ Keyed(Db', x)
          /\ \A x : Keyed(Db', x) /\ ~Keyed(Db, x) => x \notin rows
        BY <1>4, <1>5 DEF Extends, Db
    <2>4. \A x : Keyed(Db, x)' <=> Keyed(Db', x)
        BY DEF Keyed, Key
    <2>5. job.step = "inserted" => Replaying
        BY DEF Replaying
    <2>6. Replaying => job.letter \in DOMAIN letters
        BY DEF LiveInv, JobIsSound
    <2>7. job.step = "inserted" =>
              Key(letters[job.letter]) \in rows /\ ~Keyed(Db, Key(letters[job.letter]))
        BY DEF LiveInv, JobIsSound
    <2>8. jobCrashes = 0 => \A x \in rows :
              Keyed(Db, x) \/ (job.step = "inserted" /\ x = Key(letters[job.letter]))
        BY DEF LiveInv, JobIsSound
    <2>9. Replaying' => job.letter \in DOMAIN letters' /\ letters'[job.letter] = letters[job.letter]
        BY <2>1, <2>2, <2>6 DEF Replaying
    <2>10. job.step = "inserted" =>
               /\ letters'[job.letter] = letters[job.letter]
               /\ Key(letters[job.letter]) \in rows' /\ ~Keyed(Db', Key(letters[job.letter]))
        BY <2>2, <2>3, <2>5, <2>6, <2>7
    <2>11. jobCrashes = 0 => \A x \in rows' :
               Keyed(Db', x) \/ (job.step = "inserted" /\ x = Key(letters[job.letter]))
        BY <1>7, <2>3, <2>8
    <2>12. Key(letters[job.letter])' = Key(letters'[job.letter])
        BY <2>1 DEF Key
    <2> QED BY <2>1, <2>4, <2>9, <2>10, <2>11, <2>12 DEF JobIsSound
<1>19. CursorsAreSettled'
    <2>1. Settled(Db, overlooked, checkpoint)'
        <3>1. checkpoint' = indexer[p].to
            BY DEF CommitPage
        <3> QED BY <1>12, <3>1 DEF Settled, Retained, Applied, InLetters
    <2>2. ASSUME NEW q \in Indexers, Alive(q)'
          PROVE  /\ Settled(Db', overlooked', indexer'[q].at)
                 /\ indexer'[q].phase = "fetched" => PageIsComplete(indexer'[q])
        <3>1. CASE q = p
            BY <1>12, <1>14, <1>15, <1>16, <3>1
        <3>2. CASE q # p
            <4>1. indexer'[q] = indexer[q]
                BY <1>14, <1>16, <3>2
            <4>2. Alive(q)
                BY <2>2, <4>1 DEF Alive
            <4> QED BY <1>8, <4>1, <4>2 DEF LiveInv, CursorsAreSettled
        <3> QED BY <3>1, <3>2
    <2> QED BY <2>1, <2>2 DEF CursorsAreSettled, Settled, Retained, Applied, InLetters,
                              PageIsComplete, LeftOut
<1> QED BY <1>4, <1>5, <1>13, <1>17, <1>18, <1>19, DatabasePrimed DEF LiveInv

\* The replay job changes no cursor, and touches no transaction that was not.
LEMMA JobMoves ==
    ASSUME LiveInv, UNCHANGED <<tip, indexer, checkpoint, overlooked>>,
           job' \in JobStates, jobCrashes' \in Nat, DbSound(Db'), JobIsSound',
           \A e \in Events : Retained(Db, e) => Retained(Db', e),
           \A e \in Events : Touched(Db', Chain[e].tx) => Touched(Db, Chain[e].tx)
    PROVE  LiveInv'
<1>1. LiveTypeOK'
    BY DEF LiveInv, LiveTypeOK, JobStates
<1>2. Covered(Db', overlooked')
    BY DEF LiveInv, Covered
<1>3. /\ Settled(Db', overlooked', checkpoint)
      /\ \A p \in Indexers : Alive(p) => Settled(Db', overlooked', indexer[p].at)
    BY CursorsStaySettled
<1>4. CursorsAreSettled'
    <2>1. Settled(Db, overlooked, checkpoint)'
        BY <1>3 DEF Settled, Retained, Applied, InLetters
    <2>2. ASSUME NEW q \in Indexers, Alive(q)'
          PROVE  /\ Settled(Db', overlooked', indexer'[q].at)
                 /\ indexer'[q].phase = "fetched" => PageIsComplete(indexer'[q])
        BY <1>3, <2>2 DEF Alive, LiveInv, CursorsAreSettled
    <2> QED BY <2>1, <2>2 DEF CursorsAreSettled, Settled, Retained, Applied, InLetters,
                              PageIsComplete, LeftOut
<1> QED BY <1>1, <1>2, <1>4, DatabasePrimed DEF LiveInv

LEMMA LetterFacts ==
    ASSUME LiveInv
    PROVE  /\ letters \in Seq(Letters) /\ DOMAIN letters = 1 .. Len(letters) /\ Len(letters) \in Nat
           /\ \A n \in DOMAIN letters : letters[n] \in Letters
           /\ log \in Seq(Writes) /\ DOMAIN log = 1 .. Len(log) /\ Len(log) \in Nat
           /\ \A n \in DOMAIN log : log[n] \in Writes
           /\ rows \subseteq {Key(w) : w \in Writes}
           /\ job \in JobStates /\ jobCrashes \in Nat /\ DbSound(Db) /\ Db \in DbStates
<1>1. Db \in DbStates /\ Db.rows = rows /\ Db.log = log /\ Db.letters = letters
    BY DEF LiveInv, DbSound, Db
<1>2. job \in JobStates /\ jobCrashes \in Nat /\ DbSound(Db)
    BY DEF LiveInv, LiveTypeOK, JobStates
<1> QED BY <1>1, <1>2, DbFacts

\* A count or a mark on a letter changes neither its event nor its index.
LEMMA LetterMarked ==
    ASSUME LiveInv, NEW n \in DOMAIN letters, NEW letter \in Letters,
           letter.event = letters[n].event, letter.index = letters[n].index,
           letters' = [letters EXCEPT ![n] = letter],
           UNCHANGED <<rows, log, tip, indexer, checkpoint, overlooked, jobCrashes>>,
           job.step # "inserted", job' \in JobStates, job'.step # "inserted",
           job'.step # "idle" => job'.letter \in DOMAIN letters
    PROVE  LiveInv'
<1>1. /\ letters' \in Seq(Letters) /\ DOMAIN letters' = DOMAIN letters
      /\ \A k \in DOMAIN letters : letters'[k].event = letters[k].event
    <2>1. letters' \in Seq(Letters) /\ DOMAIN letters' = DOMAIN letters
        BY LetterFacts, ExceptSeq
    <2> QED BY <2>1
<1>2. Db' = [rows |-> rows, log |-> log, letters |-> letters']
    BY DEF Db
<1>3. /\ \A e : Retained(Db, e) <=> Retained(Db', e)
      /\ \A tx : Touched(Db, tx) <=> Touched(Db', tx)
      /\ \A k : Keyed(Db, k) <=> Keyed(Db', k)
    BY <1>1, <1>2 DEF Retained, Applied, InLetters, Touched, Keyed, Db
<1>4. DbSound(Db')
    <2>1. Db' \in DbStates
        BY <1>1, <1>2, LetterFacts DEF DbStates
    <2>2. RowsGuard(Db')
        BY <1>2, LetterFacts DEF DbSound, RowsGuard, Db
    <2> QED BY <2>1, <2>2 DEF DbSound
<1>5. JobIsSound'
    <2>1. \A k : Keyed(Db, k)' <=> Keyed(Db', k)
        BY DEF Keyed, Key
    <2>2. jobCrashes = 0 => \A k \in rows : Keyed(Db, k)
        BY DEF LiveInv, JobIsSound
    <2>3. job'.step # "idle" => job'.letter \in DOMAIN letters'
        BY <1>1
    <2> QED BY <1>3, <2>1, <2>2, <2>3 DEF JobIsSound, Replaying
<1> QED BY <1>3, <1>4, <1>5, LetterFacts, JobMoves

LEMMA MarkKeeps ==
    ASSUME LiveInv, MarkResolved \/ \E n \in DOMAIN letters : RecordAttempt(n)
    PROVE  LiveInv'
<1>1. CASE MarkResolved
    <2> DEFINE n == job.letter
               letter == [letters[n] EXCEPT !.resolved = TRUE]
    <2>1. n \in DOMAIN letters
        BY <1>1 DEF MarkResolved, LiveInv, JobIsSound, Replaying
    <2>2. letters[n] \in Letters
        BY <2>1, LetterFacts
    <2>3. letters' = [letters EXCEPT ![n] = letter]
        BY <1>1 DEF MarkResolved
    <2> HIDE DEF n
    <2>4. letter \in Letters /\ letter.event = letters[n].event /\ letter.index = letters[n].index
        BY <2>2 DEF Letters
    <2>5. job' \in JobStates /\ job'.step = "idle" /\ job.step = "written"
        BY <1>1 DEF MarkResolved, JobStates
    <2> HIDE DEF letter
    <2> QED BY <1>1, <2>1, <2>3, <2>4, <2>5, LetterMarked DEF MarkResolved
<1>2. ASSUME NEW n \in DOMAIN letters, RecordAttempt(n) PROVE LiveInv'
    <2> DEFINE letter == [letters[n] EXCEPT !.attempts = letters[n].attempts + 1]
    <2>1. letters[n] \in Letters /\ n \in Nat
        BY LetterFacts
    <2>2. letters' = [letters EXCEPT ![n] = letter]
        BY <1>2 DEF RecordAttempt
    <2>3. letter \in Letters /\ letter.event = letters[n].event /\ letter.index = letters[n].index
        BY <2>1 DEF Letters
    <2>4. job' \in JobStates /\ job'.step = "attempting" /\ job'.letter = n /\ job.step = "idle"
        BY <1>2, <2>1 DEF RecordAttempt, JobStates, Replaying
    <2> HIDE DEF letter
    <2> QED BY <1>2, <2>2, <2>3, <2>4, LetterMarked DEF RecordAttempt
<1> QED BY <1>1, <1>2

LEMMA JobCrashKeeps == ASSUME LiveInv, CrashJob PROVE LiveInv'
<1>1. Db' = Db
    BY DEF CrashJob, Db, dbVars
<1>2. job' \in JobStates /\ job'.step = "idle" /\ jobCrashes' \in Nat /\ jobCrashes' # 0
    BY LetterFacts DEF CrashJob, JobStates
<1>3. JobIsSound'
    BY <1>2 DEF JobIsSound, Replaying
<1> QED BY <1>1, <1>2, <1>3, LetterFacts, JobMoves DEF CrashJob, dbVars

\* The letter in hand as the write that its replay makes.
LEMMA LetterInHand ==
    ASSUME LiveInv, Replaying
    PROVE  LET letter == letters[job.letter]
               w == [event |-> letter.event, index |-> letter.index]
           IN  /\ job.letter \in DOMAIN letters /\ letter \in Letters /\ w \in Writes
               /\ Key(w) = Key(letter) /\ Key(w)[1] = Chain[w.event].tx
               /\ InLetters(Db, w.event) /\ Touched(Db, Chain[w.event].tx)
<1> DEFINE letter == letters[job.letter]
           w == [event |-> letter.event, index |-> letter.index]
<1>1. job.letter \in DOMAIN letters
    BY DEF LiveInv, JobIsSound
<1>2. letter \in Letters
    BY <1>1, LetterFacts
<1>3. w \in Writes
    BY <1>2 DEF Letters, Writes
<1>4. Key(w) = Key(letter) /\ Key(w)[1] = Chain[w.event].tx
    BY DEF Key
<1>5. InLetters(Db, w.event) /\ Touched(Db, Chain[w.event].tx)
    BY <1>1 DEF InLetters, Touched, Db
<1> QED BY <1>1, <1>2, <1>3, <1>4, <1>5

LEMMA ApplyKeeps == ASSUME LiveInv, ApplyReplayed PROVE LiveInv'
<1> DEFINE w == [event |-> letters[job.letter].event, index |-> letters[job.letter].index]
<1>1. /\ job.letter \in DOMAIN letters /\ w \in Writes
      /\ Key(w) = Key(letters[job.letter]) /\ Key(w)[1] = Chain[w.event].tx
    BY LetterInHand DEF ApplyReplayed, Replaying
<1>2. /\ Key(w) \in rows /\ ~Keyed(Db, Key(w))
      /\ jobCrashes = 0 => \A k \in rows : Keyed(Db, k) \/ k = Key(w)
    BY <1>1 DEF ApplyReplayed, LiveInv, JobIsSound
<1>3. log' = Append(log, w) /\ UNCHANGED <<rows, letters, jobCrashes>>
    BY DEF ApplyReplayed
<1>4. job' \in JobStates /\ job'.step = "written" /\ job'.letter = job.letter
    BY LetterFacts DEF ApplyReplayed, JobStates
<1> HIDE DEF w
<1> DEFINE new == Db'
<1>5. /\ new.rows = Db.rows \cup {Key(w)} /\ new.letters = Db.letters /\ new.log = Append(Db.log, w)
      /\ new \in DbStates
    <2>1. Append(log, w) \in Seq(Writes)
        BY <1>1, LetterFacts, AppendProperties
    <2>2. new = [rows |-> rows, log |-> Append(log, w), letters |-> letters]
        BY <1>3 DEF Db
    <2> HIDE DEF new
    <2> QED BY <1>2, <2>1, <2>2, LetterFacts DEF Db, DbStates
<1>6. /\ DbSound(new) /\ Applied(new, w.event)
      /\ \A k : Keyed(new, k) <=> Keyed(Db, k) \/ k = Key(w)
      /\ \A n \in DOMAIN Db.log : n \in DOMAIN new.log /\ new.log[n] = Db.log[n]
    <2> HIDE DEF new
    <2> QED BY <1>1, <1>2, <1>5, LetterFacts, EffectIsKept
<1>7. JobIsSound'
    <2>1. \A k : Keyed(Db, k)' <=> Keyed(Db', k)
        BY DEF Keyed, Key
    <2>2. jobCrashes = 0 => \A k \in rows : Keyed(Db', k)
        BY <1>2, <1>6
    <2> QED BY <1>1, <1>3, <1>4, <2>1, <2>2 DEF JobIsSound, Replaying
<1>8. /\ \A e : Retained(Db, e) => Retained(new, e)
      /\ \A tx : Touched(new, tx) => Touched(Db, tx)
    <2>1. Db.rows \cup {Key(w)} = Db.rows
        BY <1>2 DEF Db
    <2> HIDE DEF new
    <2> QED BY <1>5, <1>6, <2>1 DEF Retained, Applied, InLetters, Touched
<1> QED BY <1>3, <1>4, <1>6, <1>7, <1>8, LetterFacts, JobMoves DEF ApplyReplayed

LEMMA ReplayKeeps == ASSUME LiveInv, ReplayEvent PROVE LiveInv'
<1> DEFINE letter == letters[job.letter]
           w == [event |-> letter.event, index |-> letter.index]
           db == WriteEvent(Db, w)
           split == Len(db.log) > Len(log) /\ ~Chain[letter.event].bet
<1>1. /\ job.letter \in DOMAIN letters /\ letter \in Letters /\ w \in Writes
      /\ Key(w) = Key(letter) /\ Key(w)[1] = Chain[w.event].tx
      /\ InLetters(Db, w.event) /\ Touched(Db, Chain[w.event].tx)
    BY LetterInHand DEF ReplayEvent, Replaying
<1>2. jobCrashes = 0 => \A k \in rows : Keyed(Db, k)
    BY DEF ReplayEvent, LiveInv, JobIsSound
<1>3. /\ rows' = db.rows /\ letters' = db.letters
      /\ log' = IF split THEN log ELSE db.log
      /\ job' = [job EXCEPT !.step = IF split THEN "inserted" ELSE "written"]
      /\ UNCHANGED <<tip, indexer, checkpoint, overlooked, jobCrashes>>
    BY DEF ReplayEvent, Db
<1>4. DbSound(db) /\ Extends(Db, db) /\ AddsAtMost(Db, db, w)
    <2>1. DbSound(Db)
        BY LetterFacts
    <2> HIDE DEF w
    <2> QED BY <1>1, <2>1, OneWrite
<1>5. \A k : Keyed(Db, k)' <=> Keyed(Db', k)
    BY DEF Keyed, Key
<1>6. CASE ~split
    <2> HIDE DEF split
    <2>1. job' \in JobStates /\ job'.step = "written" /\ job'.letter = job.letter
        BY <1>3, <1>6, LetterFacts DEF JobStates
    <2>2. Db' = db
        <3> HIDE DEF db
        <3>1. db = [rows |-> db.rows, log |-> db.log, letters |-> db.letters]
            BY <1>4 DEF DbSound, DbStates
        <3> QED BY <1>3, <1>6, <3>1 DEF Db
    <2> HIDE DEF db, w
    <2>3. /\ \A e : Retained(Db, e) => Retained(Db', e)
          /\ \A k : Keyed(Db, k) => Keyed(Db', k)
        BY <1>4, <2>2, WhatIsRecordedStays
    <2>4. \A tx : Touched(Db', tx) => Touched(Db, tx)
        BY <1>1, <1>4, <2>2 DEF AddsAtMost
    <2>5. JobIsSound'
        <3>1. jobCrashes = 0 => \A k \in rows' : Keyed(Db', k)
            BY <1>2, <1>4, <2>2, <2>3 DEF Extends, Db
        <3>2. job'.letter \in DOMAIN letters'
            BY <1>1, <1>4, <2>1, <2>2 DEF Extends, Db
        <3> QED BY <1>3, <1>5, <2>1, <3>1, <3>2 DEF JobIsSound, Replaying
    <2> QED BY <1>3, <1>4, <2>1, <2>2, <2>3, <2>4, <2>5, LetterFacts, JobMoves
<1>7. CASE split
    <2>1. db.rows = rows \cup {Key(w)} /\ db.letters = letters /\ Key(w) \notin rows
        <3>1. Len(log) \in Nat
            BY LetterFacts
        <3>2. db.log # log
            BY <1>7, <3>1
        <3>3. w.event \notin rejected /\ Key(w) \notin Db.rows
            BY <3>2 DEF WriteEvent, Db
        <3> DEFINE rowed == [Db EXCEPT !.rows = Db.rows \cup {Key(w)}]
        <3>4. rowed = [rows |-> rows \cup {Key(w)}, log |-> log, letters |-> letters]
            BY DEF Db
        <3>5. [event |-> w.event, index |-> w.index] = w
            OBVIOUS
        <3>6. db = [rowed EXCEPT !.log = Append(Db.log, w)]
            BY <3>3, <3>5 DEF WriteEvent
        <3> HIDE DEF rowed, w
        <3> QED BY <3>3, <3>4, <3>6 DEF Db
    <2>2. job' \in JobStates /\ job'.step = "inserted" /\ job'.letter = job.letter
        BY <1>3, <1>7, LetterFacts DEF JobStates
    <2>3. log' = log
        BY <1>3, <1>7
    <2>4. rows' = rows \cup {Key(w)} /\ letters' = letters
        BY <1>3, <2>1
    <2> HIDE DEF db, split, w
    <2>5. /\ \A e : Retained(Db, e) <=> Retained(Db', e)
          /\ \A k : Keyed(Db, k) <=> Keyed(Db', k)
          /\ \A tx : Touched(Db', tx) => Touched(Db, tx)
        <3>1. Db' = [rows |-> rows \cup {Key(w)}, log |-> log, letters |-> letters]
            BY <2>3, <2>4 DEF Db
        <3>2. Db'.rows = rows \cup {Key(w)} /\ Db'.log = Db.log /\ Db'.letters = Db.letters
            BY <3>1 DEF Db
        <3>3. \A e : Retained(Db, e) <=> Retained(Db', e)
            BY <3>2 DEF Retained, Applied, InLetters
        <3>4. \A k : Keyed(Db, k) <=> Keyed(Db', k)
            BY <3>2 DEF Keyed
        <3>5. ASSUME NEW tx, Touched(Db', tx) PROVE Touched(Db, tx)
            BY <1>1, <3>2, <3>5 DEF Touched, Db
        <3> QED BY <3>3, <3>4, <3>5
    <2>6. ~Keyed(Db, Key(w))
        BY <2>1, LetterFacts DEF DbSound, RowsGuard, Keyed, Db
    <2>7. DbSound(Db')
        <3>1. Db' = [rows |-> rows \cup {Key(w)}, log |-> log, letters |-> letters]
            BY <2>3, <2>4 DEF Db
        <3>2. Db' \in DbStates
            BY <1>1, <3>1, LetterFacts DEF DbStates
        <3>3. RowsGuard(Db')
            BY <3>1, LetterFacts DEF DbSound, RowsGuard, Db
        <3> QED BY <3>2, <3>3 DEF DbSound
    <2>8. JobIsSound'
        <3>1. Key(letters[job.letter])' = Key(w) /\ job'.letter \in DOMAIN letters'
            BY <1>1, <2>2, <2>4 DEF Key
        <3>2. jobCrashes = 0 => \A k \in rows' : Keyed(Db', k) \/ k = Key(w)
            BY <1>2, <2>4, <2>5
        <3>3. Key(w) \in rows' /\ ~Keyed(Db', Key(w))
            BY <2>4, <2>5, <2>6
        <3> QED BY <1>3, <1>5, <2>2, <3>1, <3>2, <3>3 DEF JobIsSound, Replaying
    <2> QED BY <1>3, <2>2, <2>5, <2>7, <2>8, LetterFacts, JobMoves
<1> QED BY <1>6, <1>7

LEMMA LiveIdle == ASSUME LiveInv, UNCHANGED liveVars PROVE LiveInv'
<1>1. UNCHANGED <<indexer, dbVars, job, jobCrashes>> /\ tip' = tip
    BY DEF liveVars, dbVars
<1>2. tip \in Nat
    BY DEF LiveInv, LiveTypeOK
<1> QED BY <1>1, <1>2, WorldKeeps

LEMMA LiveStepKeeps == ASSUME LiveInv, LiveNext PROVE LiveInv'
<1>1. CASE CloseLedger \/ DeploySchemas \/ \E p \in Indexers : SessionLost(p)
    <2>1. UNCHANGED <<indexer, dbVars, job, jobCrashes>> /\ (tip' = tip \/ tip' = tip + 1)
        BY <1>1 DEF CloseLedger, DeploySchemas, SessionLost, jobVars
    <2>2. tip' \in Nat
        BY <2>1 DEF LiveInv, LiveTypeOK
    <2> QED BY <2>1, <2>2, WorldKeeps
<1>2. CASE JobStep
    BY <1>2, MarkKeeps, ReplayKeeps, ApplyKeeps DEF JobStep
<1>3. CASE CrashJob
    BY <1>3, JobCrashKeeps
<1>4. ASSUME NEW p \in Indexers, IndexerStep(p) \/ CrashIndexer(p) \/ RollBackPage(p)
      PROVE  LiveInv'
    BY <1>4, ProcessStepKeeps, CommitKeeps DEF IndexerStep
<1> QED BY <1>1, <1>2, <1>3, <1>4 DEF LiveNext

\* The live mode's invariant, for any chain of events, any place a page gives to one,
\* any number of indexers, letters, replays, crashes and lost sessions.
THEOREM LiveInvariant == LiveSpec => []LiveInv
<1>1. LiveInit => LiveInv
    BY LiveInitially
<1>2. LiveInv /\ [LiveNext]_liveVars => LiveInv'
    BY LiveStepKeeps, LiveIdle
<1> QED BY <1>1, <1>2, PTL DEF LiveSpec

LEMMA AppliedIsCounted ==
    ASSUME LiveInv, NEW e, Retained(Db, e)
    PROVE  AccountedFor(e)
<1>1. CASE InLetters(Db, e)
    BY <1>1 DEF AccountedFor, Lettered, InLetters, Db
<1>2. CASE Applied(Db, e)
    <2> DEFINE places == {n \in DOMAIN log : log[n].event = e}
    <2>1. places # {}
        BY <1>2 DEF Applied, Db
    <2>2. IsFiniteSet(DOMAIN log)
        BY LetterFacts, FS_Interval
    <2>3. IsFiniteSet(places)
        BY <2>2, FS_Subset
    <2>4. TimesApplied(e) = Cardinality(places)
        BY DEF TimesApplied
    <2> HIDE DEF places
    <2>5. Cardinality(places) \in Nat /\ Cardinality(places) # 0
        BY <2>1, <2>3, FS_CardinalityType, FS_EmptySet
    <2> QED BY <2>4, <2>5 DEF AccountedFor
<1> QED BY <1>1, <1>2 DEF Retained

LEMMA RowsAreTheLog ==
    ASSUME LiveInv, job.step # "inserted", jobCrashes = 0
    PROVE  Cardinality(rows) = Len(log)
<1> DEFINE f == [n \in 1 .. Len(log) |-> Key(log[n])]
<1>1. Len(log) \in Nat /\ DOMAIN log = 1 .. Len(log)
    BY LetterFacts
<1>2. /\ \A m, n \in DOMAIN log : Key(log[m]) = Key(log[n]) => m = n
      /\ \A n \in DOMAIN log : Key(log[n]) \in rows
    BY LetterFacts DEF DbSound, RowsGuard, Db
<1>3. f \in [1 .. Len(log) -> rows]
    BY <1>1, <1>2
<1>4. \A m, n \in 1 .. Len(log) : f[m] = f[n] => m = n
    BY <1>1, <1>2
<1>5. \A row \in rows : \E n \in 1 .. Len(log) : f[n] = row
    <2> SUFFICES ASSUME NEW row \in rows PROVE \E n \in 1 .. Len(log) : f[n] = row
        OBVIOUS
    <2>1. Keyed(Db, row)
        BY DEF LiveInv, JobIsSound
    <2>2. PICK n \in DOMAIN log : Key(log[n]) = row
        BY <2>1 DEF Keyed, Db
    <2> QED BY <1>1, <2>2
<1> HIDE DEF f
<1>6. f \in Bijection(1 .. Len(log), rows)
    BY <1>3, <1>4, <1>5 DEF Bijection, Injection, Surjection, IsInjective
<1>7. ExistsBijection(1 .. Len(log), rows)
    BY <1>6 DEF ExistsBijection
<1> QED BY <1>1, <1>7, FS_CountingElements

\* Every row is applied at most once, no event up to the checkpoint is passed over
\* but what a full page left out, and no row stands without its effect unless a
\* replay crashed: whatever indexers run at once, crash and start over, however their
\* pages are cut, and however dead letters are replayed meanwhile.
THEOREM EffectsAlwaysAppliedOnce == LiveSpec => []EffectsAreAppliedOnce
<1>1. LiveInv => EffectsAreAppliedOnce
    <2> SUFFICES ASSUME LiveInv PROVE EffectsAreAppliedOnce
        OBVIOUS
    <2>1. AppliedOncePerKey
        BY LetterFacts DEF AppliedOncePerKey, DbSound, RowsGuard, Db
    <2>2. NothingSkipped
        BY AppliedIsCounted
        DEF NothingSkipped, AccountedFor, LiveInv, CursorsAreSettled, Settled
    <2>3. NoRowWithoutEffect
        BY RowsAreTheLog DEF NoRowWithoutEffect
    <2> QED BY <2>1, <2>2, <2>3 DEF EffectsAreAppliedOnce
<1> QED BY <1>1, LiveInvariant, PTL
=============================================================================
