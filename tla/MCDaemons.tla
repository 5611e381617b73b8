----------------------------- MODULE MCDaemons ------------------------------
(***************************************************************************)
(* The processes that run beside the chain, the indexer's and the oracle's,*)
(* each on a small instance of its own: a behaviour is one of the part     *)
(* that focus names.                                                       *)
(***************************************************************************)
EXTENDS OracleRunner, OracleKeys, ProviderCalls, LivePolling, IndexerProcess, Migrations

VARIABLES focus, scan, indexed, resumeAt, failures, node,
          endpoint, clock, poll, atomicDb, cursorAt, written, pollFaults,
          unresolved, pollLoop, aborted, working, loopFailures, lastFailed, alerted,
          visited, steady, polls

scanVars == <<scan, indexed, resumeAt, failures>>
pollVars == <<node, endpoint, clock, poll, atomicDb, cursorAt, written, pollFaults>>
loopVars == <<unresolved, pollLoop, aborted, working, loopFailures, lastFailed, alerted,
              visited, steady, polls>>

\* A market, then two bets in one transaction.
ChainOf == << [ledger |-> 1, tx |-> "a", bet |-> FALSE],
              [ledger |-> 2, tx |-> "b", bet |-> TRUE],
              [ledger |-> 2, tx |-> "b", bet |-> FALSE] >>
\* Ledgers 6 to 8 have no event; two events of ledger 5 meet a page's end.
Jobs == INSTANCE IndexerJobs WITH
    History <- <<1, 3, 4, 5, 5, 9>>, FirstLedger <- 1, HeadLedger <- 10,
    WindowLedgers <- 2, PageLimit <- 2, JobFailures <- 3,
    Endpoints <- 2, ClosedLedgers <- 3, CooldownTime <- 1, MaxClock <- 1, PollFaults <- 1

Moved(ledger, kind, from, to, amount) ==
    [ledger |-> ledger, kind |-> kind, from |-> from, to |-> to, amount |-> amount]
TokenMoves == << Moved(1, "mint", "none", "ann", 2), Moved(1, "transfer", "ann", "bob", 1),
                 Moved(2, "mint", "none", "bob", 1), Moved(3, "transfer", "bob", "ann", 2) >>

\* Two migrations share a number, one of them an accepted duplicate of the other.
Files == << <<"a">>, <<"b", "c">> >>
LegacyGroups == << <<>>, <<"b", "c">> >>
Repeats == [x \in {"c"} |-> "b"]

\* Two aggregators that a deployment runs side by side, and two queries.
Aggregators == <<"r1", "r2">>
Queries == <<"btc", "eth">>

\* Two markets that end together, whose texts are not in the order of their ids, and
\* one that ends later, listed in pages of one.
Loop == INSTANCE RunnerLoop WITH
    Expired <- {3, 9, 10}, EndTime <- [m \in {3, 9, 10} |-> IF m = 3 THEN 2 ELSE 1],
    BatchSize <- 1, FailureThreshold <- 2, PollBound <- 3, ListingBound <- 1, FailureBound <- 2,
    failures <- loopFailures

-----------------------------------------------------------------------------
Parts == {"live", "backfill", "poll", "process", "tables", "runner", "disputed", "loop",
          "rotation", "keys", "calls", "breaker"}

Only(part) ==
    /\ focus = part /\ UNCHANGED focus
    /\ IF part = "live" THEN TRUE ELSE UNCHANGED liveVars
    /\ IF part = "backfill" THEN TRUE ELSE UNCHANGED scanVars
    /\ IF part = "poll" THEN TRUE ELSE UNCHANGED pollVars
    /\ IF part = "process" THEN TRUE ELSE UNCHANGED ipVars
    /\ IF part = "tables" THEN TRUE ELSE UNCHANGED migVars
    /\ IF part \in {"runner", "disputed"} THEN TRUE ELSE UNCHANGED runVars
    /\ IF part = "loop" THEN TRUE ELSE UNCHANGED loopVars
    /\ IF part = "rotation" THEN TRUE ELSE UNCHANGED rotationVars
    /\ IF part = "keys" THEN TRUE ELSE UNCHANGED question
    /\ IF part = "calls" THEN TRUE ELSE UNCHANGED callVars
    /\ IF part = "breaker" THEN TRUE ELSE UNCHANGED breakerVars

\* Two aggregators on a market that nobody else touches; and one, without faults, on
\* a market that is never held, where a submission is disputed, settled and indexed
\* and the admin may decide.  That submission has a nonce: a row without one is like
\* a row whose nonce is never cleared away.
TwoAlone == UNCHANGED oracle
OneAmongOthers ==
    /\ UNCHANGED <<runnerFaults, held>> /\ runner'["r2"] = runner["r2"]
    /\ attempt = NoAttempt => attempt' = NoAttempt \/ attempt'.nonce \/ attempt'.tx # 0

Init ==
    /\ focus \in Parts
    /\ LiveInit
    /\ Jobs!BackfillInit /\ (focus # "backfill" => ~scan.reindex)
    /\ Jobs!PollInit /\ (focus # "poll" => atomicDb)
    /\ ProcessInit
    /\ MigInit
    /\ RunnerInit
    /\ Loop!LoopInit /\ (focus # "loop" => unresolved = {})
    /\ RotationInit /\ KeysInit
    /\ CallsInit
    /\ BreakerInit

Next ==
    \/ Only("live") /\ LiveNext
    \/ Only("backfill") /\ Jobs!BackfillNext
    \/ Only("poll") /\ Jobs!PollNext
    \/ Only("process") /\ ProcessNext
    \/ Only("tables") /\ MigNext
    \/ Only("runner") /\ RunnerNext /\ TwoAlone
    \/ Only("disputed") /\ RunnerNext /\ OneAmongOthers
    \/ Only("loop") /\ Loop!LoopNext
    \/ Only("rotation") /\ RotationNext
    \/ Only("keys") /\ KeysNext
    \/ Only("calls") /\ CallsNext
    \/ Only("breaker") /\ BreakerNext

vars == <<focus, liveVars, scanVars, pollVars, ipVars, migVars, runVars, loopVars,
          rotationVars, question, callVars, breakerVars>>

Explores(part) == <>[](focus = part)

\* The fairness of each part's own specification.  What is fair in one part is
\* fair in its behaviours alone, so that one formula states it of several parts.
Fairness ==
    /\ WF_vars(\/ Only("live") /\ CloseLedger
               \/ Only("backfill") /\ Jobs!BackfillWorks
               \/ Only("poll") /\ Jobs!PollAwaited
               \/ Only("process") /\ ProcessAwaited
               \/ Only("runner") /\ \E n \in DOMAIN txs : TxLands(n)
               \/ Only("disputed") /\ \E n \in DOMAIN txs : TxLands(n)
               \/ Only("loop") /\ Loop!LoopAwaited
               \/ Only("rotation") /\ RotationStep
               \/ Only("calls") /\ CallTick
               \/ Only("breaker") /\ (CallThrough \/ Probe))
    /\ WF_vars(\/ Only("live") /\ \E p \in {"p1", "p2"} : IndexerStep(p)
               \/ Only("breaker") /\ RecordSuccess)
    /\ WF_vars(\/ Only("live") /\ JobStep
               \/ Only("breaker") /\ ClockTick)
    /\ \A i \in {1, 2} :
        /\ WF_vars(\/ Only("poll") /\ Jobs!LedgerArrives(i)
                   \/ Only("tables") /\ Works(i)
                   \/ Only("runner") /\ ProcessMarket(Aggregators[i])
                   \/ Only("disputed") /\ ProcessMarket(Aggregators[i]) /\ OneAmongOthers
                   \/ Only("calls") /\ (\/ LoadDone(Queries[i])
                                        \/ LoadFails(Queries[i])))
        /\ SF_vars(\/ Only("tables") /\ TakeLock(i)
                   \/ Only("calls") /\ Acquire(Queries[i]))

Spec == Init /\ [][Next]_vars /\ Fairness

ShellInit == Init /\ focus = "tables"
ShellSpec == ShellInit /\ [][Next]_vars
ReplayInit == Init /\ focus = "live"
ReplaySpec == ReplayInit /\ [][Next]_vars
PagingInit == Init /\ focus = "loop"
PagingSpec == PagingInit /\ [][Next]_vars

-----------------------------------------------------------------------------
\* What listExpiredUnresolvedMarkets says of its pages.
NoMarketIsPassedOver == Loop!EveryMarketVisitedOnce

\* However a history or a list of markets is cut into pages, windows and polls, what
\* a resume point or a checkpoint says is done is done, and a market that stays
\* listed, and whose id is in order as a text, is taken once; alerts are for
\* failures in a row; the connection closes under no work that the grace period had
\* time for.
PollsAreOrderly ==
    /\ focus = "backfill" => Jobs!BackfillIsComplete /\ Jobs!ResumeSkipsNothing
    /\ focus = "poll" => Jobs!CheckpointCoversLedgers
    /\ focus = "loop" =>
        Loop!OrderedMarketsVisitedOnce /\ Loop!AlertsAreConsecutive /\ Loop!CloseWaitsForWork

\* Under outages and crashes that end, the indexer catches up, dead letters are
\* replayed, backfills, migration runs and shutdowns end, and a poll reaches the
\* newest ledger without ever taking its checkpoint back.  A council that agrees
\* has its market decided, unless it is held or blocked; a new key becomes the
\* signing key; every call is answered; a provider that recovered is used again.
DaemonsProgress ==
    /\ Jobs!CheckpointNeverRegresses
    /\ Explores("live") => LettersAreReplayed /\ IndexerCatchesUp
    /\ Explores("backfill") => Jobs!BackfillEnds
    /\ Explores("poll") => Jobs!PollReachesTip
    /\ Explores("process") => ShutdownCompletes
    /\ Explores("tables") => EveryRunEnds
    /\ Explores("runner") \/ Explores("disputed") => AgreedMarketsAreDecided
    /\ Explores("loop") => Loop!LoopShutsDown
    /\ Explores("rotation") => RotationCatchesUp
    /\ Explores("calls") => CallsAreAnswered
    /\ Explores("breaker") => RecoveredIsUsed
=============================================================================
