----------------------------- MODULE MCOffChain -----------------------------
(***************************************************************************)
(* The services around the contracts, each on a small instance of its own: *)
(* the tables the indexer fills and what the API and the pages read from   *)
(* them, the limits and the configuration around that, and what the oracle *)
(* decides, sends and tells its operators.  A behaviour is one of the part *)
(* that focus names, or asks the rules one question.  (The variables of    *)
(* parts that another run explores are given to focus.)                    *)
(***************************************************************************)
EXTENDS Integers, Sequences, CouncilBots

VARIABLES focus,
          onChain, emitted, nextEvent, delayed, seen, marketRow, positions,
          submission, dispute, reconcile, drifted, missed, indexRestarts,
          stored, board, rebuild, resumeAt, disturbed, rebuildFaults, lag,
          replicaUp, lagMs, health, retryIn, nextCheck, checks, writes, written,
          sinceMark, logLines, gathered, slowTotals, filters, shared, own,
          pending, limiterUp, letIn, promised, windows, admitted, told, rows,
          keyed, stampAge, request, times, guesses, others, triers, overflow,
          pruned, quiet, pattern, alerted, episode, booked, kept, fetching,
          client, listing, environ, ambient, disk, options, secretCall, summary

VARIABLES
          hour, submissions, disputes, watermark, paged, cycle, announced,
          pages, late, dropped, monitorFaults, alertClock, firedAt, inFlight,
          raises, raisedAt, sentAt, gaveUpAt, profile, sending, bond, chain,
          inflight, failed, sent, resolver, finalizedIds, ballots, exporter,
          exported, knownAtStart, submissionRows, lagTable, refreshing,
          refreshCount, snapshot, refreshErrors, lastRefreshOk, newestDone,
          pollClock, lagEntries, bucketCounts, lagSum, lagCount, lastPollAt,
          pollFailures, startedAt, category, answered, step, decision,
          reviewItems, payloadsKept, recordKept, storeFaults, samples, everSeen,
          trackTime, question

imVars == <<onChain, emitted, nextEvent, delayed, seen, marketRow, positions,
            submission, dispute, reconcile, drifted, missed, indexRestarts>>
lrVars == <<stored, board, rebuild, resumeAt, disturbed, rebuildFaults>>
routingVars == <<lag, replicaUp, lagMs, health, retryIn, nextCheck, checks, writes,
                 written, sinceMark>>
slowVars == <<logLines, gathered, slowTotals, filters>>
limiterVars == <<shared, own, pending, limiterUp, letIn, promised>>
clientVars == <<windows, admitted, told>>
intakeVars == <<rows, keyed, stampAge, request, times>>
authVars == <<guesses, others, triers, overflow, pruned, quiet, pattern, alerted,
              episode>>
pageVars == <<booked, kept, fetching, client>>
listVars == <<listing>>
secretsVars == <<environ, ambient, disk, options, secretCall, summary>>
monitorVars == <<hour, submissions, disputes, watermark, paged, cycle, announced,
                 pages, late, dropped, monitorFaults>>
alertVars == <<alertClock, firedAt, inFlight, raises, raisedAt, sentAt, gaveUpAt>>
retryVars == <<profile, sending>>
bondVars == <<bond>>
resolverVars == <<chain, inflight, failed, sent, resolver>>
auditVars == <<finalizedIds, ballots, exporter, exported, knownAtStart>>
oracleMetricsVars == <<submissionRows, lagTable, refreshing, refreshCount, snapshot,
                       refreshErrors, lastRefreshOk, newestDone>>
aggMetricsVars == <<pollClock, lagEntries, bucketCounts, lagSum, lagCount,
                    lastPollAt, pollFailures, startedAt>>
resolutionVars == <<category, answered, step, decision, reviewItems, payloadsKept,
                    recordKept, storeFaults>>
trackVars == <<samples, everSeen, trackTime>>
ruleVars == <<question>>

Scored(at, kind, user, other, won) ==
    [ledger |-> at, kind |-> kind, user |-> user, other |-> other, won |-> won]
ScoredEvents == << Scored(1, "registered", "ann", "none", FALSE),
                   Scored(2, "registered", "bob", "ann", FALSE),
                   Scored(2, "reward", "ann", "none", FALSE),
                   Scored(3, "points", "bob", "none", TRUE),
                   Scored(4, "points", "ann", "none", FALSE) >>

\* Every stage of a market and its dispute for one gambler; for two, its bets.
Markets == INSTANCE IndexedMarkets WITH
    Gamblers <- {"ann"}, ChainEvents <- 4, IndexRestarts <- 1, PointEvents <- ScoredEvents,
    Players <- {"ann", "bob"}, NoPlayer <- "none", RebuildFaults <- 2
Crowd == INSTANCE IndexedMarkets WITH
    Gamblers <- {"ann", "bob"}, ChainEvents <- 3, IndexRestarts <- 0, PointEvents <- ScoredEvents,
    Players <- {"ann", "bob"}, NoPlayer <- "none", RebuildFaults <- 2

\* A check takes as long as the interval between two, so that they overlap.
Pool == INSTANCE DatabasePool WITH
    Requests <- {}, Connections <- {},
    Sessions <- {1}, MaxLag <- 1, Poll <- 1, Cooldown <- 1, Window <- 1, MaxCheck <- 1,
    Shapes <- {1, 2, 3}, Durations <- {1, 3, 7}, Reservoir <- 2, MaxLines <- 3,
    holder <- focus, stage <- focus, gone <- focus, asked <- focus,
    sending <- focus, answer <- focus

Limits == INSTANCE RateLimits WITH
    Instances <- {1, 2}, Limit <- 2, Window <- 2, MaxDelay <- 1,
    Addresses <- {1, 2}, WindowLimit <- 2, WindowLength <- 3, MaxKeys <- 1, Second <- 2

\* A body with a nonce and a time, and one without.
Intake == INSTANCE OracleIntake WITH
    Bodies <- {[market |-> 1, nonce |-> 1, stamped |-> TRUE],
               [market |-> 2, nonce |-> 0, stamped |-> FALSE]},
    Keys <- {1}, Handlers <- {1, 2}, StampWindow <- 1, NonceRetention <- 2, KeyRetention <- 1,
    Origins <- {1, 2, 3}, Window <- 2, MinFailures <- 2, DistinctOrigins <- 2, Cooldown <- 3,
    MaxTracked <- 2, seen <- triers

Api == INSTANCE MarketApi WITH
    Clients <- {1, 2}, PageTtl <- 2, Slack <- 0, MaxHold <- 1, MaxBets <- 0, BetPages <- {1},
    question <- listing,
    MarketIds <- {1, 2}, ListNow <- 3, GraceTime <- 0, StalledTime <- 2, OddsScale <- 1000,
    OddsPlaces <- 20, MaxPool <- 30

Secrets == INSTANCE SecretsLoading WITH MaxLoads <- 2, call <- secretCall
Usual == /\ ambient = [n \in Secrets!EnvNames |-> ""] /\ disk.secret /\ disk.dotenv
         /\ disk.lines = ambient /\ options = [backend |-> "env", required |-> FALSE]

\* Three submissions, the bot's own among them.
EveryDeadline == [m \in {"s1", "s2", "s3"} |-> 2]
EveryStart == [m \in {"s1", "s2", "s3"} |-> 1]

\* Alerts of one market; one channel takes the severe ones only.
Monitor == INSTANCE OracleMonitor WITH
    Disputes <- {8}, Window <- 2, Inactivity <- 1, Warning <- 2, PageBefore <- 1,
    LastHour <- 3, LastSubmission <- 2, MonitorFaults <- 1,
    AlertMarkets <- {"m"}, Channels <- {"ops", "pager"},
    MinSeverity <- [c \in {"ops", "pager"} |-> IF c = "ops" THEN 3 ELSE 1],
    SendRetries <- 1, Cooldown <- 2, AlertTicks <- 3, Raises <- 2,
    LagMarkets <- {1, 2}, LagSeries <- 1, Refreshes <- 2, Rows <- 2,
    LagBuckets <- <<0, 2, 6>>, MaxEntries <- 2, Lags <- {-2, 1, 3, 9}, DegradedAfter <- 2,
    AlertAfter <- 3, MaxStale <- 1, PollTicks <- 4, Observed <- 3

Thrown(class, status, flag, after) ==
    [class |-> class, status |-> status, flag |-> flag, after |-> after]
Rpc == [maxRetries |-> 2, backoff |-> "exponential", jitter |-> "full", base |-> 1, maxDelay |-> 2,
        retryAfter |-> "cap", attemptTimeout |-> -1, totalTimeout |-> -1, guarded |-> FALSE]
Sender == INSTANCE OracleSubmitter WITH
    Failures <- {Thrown("http", 400, "unset", -1), Thrown("http", 429, "unset", 3),
                 Thrown("http", 503, "unset", 1), Thrown("http", 503, "no", -1),
                 Thrown("http", 400, "yes", -1), Thrown("http", 408, "unset", -1),
                 Thrown("permanent", 503, "no", -1), Thrown("named", -1, "unset", -1),
                 Thrown("timeoutCode", -1, "unset", -1), Thrown("unknown", -1, "unset", -1)},
    Profiles <- {Rpc, [Rpc EXCEPT !.guarded = TRUE],
                 [Rpc EXCEPT !.retryAfter = "strict", !.attemptTimeout = 2, !.totalTimeout = 5],
                 [Rpc EXCEPT !.retryAfter = "strict", !.totalTimeout = 4, !.jitter = "equal",
                             !.backoff = "linear"],
                 [Rpc EXCEPT !.retryAfter = "ignore", !.attemptTimeout = 2, !.jitter = "none",
                             !.backoff = "fixed"]},
    MaxDuration <- 3, SubmitRetries <- 3, AlertThreshold <- 4,
    Resolvers <- {"p1", "p2"}, MaxRetries <- 2, MaxRebuilds <- 2, SendBound <- 3,
    call <- sending

Records == INSTANCE CouncilRecords WITH
    AuditMarkets <- {9, 10, 11, 95}, AuditPageSize <- 2, LateVotes <- 1,
    Members <- {"a", "b", "c", "d"}, Outsider <- "x", MaxVotes <- 4, PayloadLimit <- 3

Sources == INSTANCE SourceResolution WITH
    StaleConfidence <- 50, StoreFaults <- 2,
    TrackWindow <- 2, MinNotFresh <- 2, MaxSamples <- 3, LastTime <- 5

Rules == INSTANCE AdapterRules WITH
    SweepWithin <- 2, MaxSwept <- 2, MaxAdapters <- 3, ReadAt <- 6, SecondsBound <- 3,
    FutureTolerance <- 1, ToFixed <- 2, MaxDigits <- 25

-----------------------------------------------------------------------------
Parts == {"market", "crowd", "rebuild", "routing", "queries", "windows", "client",
          "intake", "guesses", "pages", "listing", "secrets",
          "bot", "once", "monitor", "alerts", "retry", "submit", "resolver",
          "audit", "tables", "polls", "decision", "stale", "rules"}

\* s1 and s2 are alike, and of two verdicts that differ in their names one is
\* enough; the bot never evaluates its own s3.
AllAgree == [m \in {"s1", "s2", "s3"} |-> IF m = "s3" THEN "disagrees" ELSE "agrees"]
AlikeOnce ==
    /\ verdict["s3"] = "disagrees"
    /\ verdict["s2"] = "unsure" => verdict["s1"] = "unsure"
    /\ verdict["s2"] = "disagrees" => verdict["s1"] # "agrees"

Only(part) ==
    /\ focus = part /\ UNCHANGED focus
    /\ IF part \in {"market", "crowd"} THEN TRUE ELSE UNCHANGED imVars
    /\ IF part = "rebuild" THEN TRUE ELSE UNCHANGED lrVars
    /\ IF part = "routing" THEN TRUE ELSE UNCHANGED routingVars
    /\ IF part = "queries" THEN TRUE ELSE UNCHANGED slowVars
    /\ IF part = "windows" THEN TRUE ELSE UNCHANGED limiterVars
    /\ IF part = "client" THEN TRUE ELSE UNCHANGED clientVars
    /\ IF part = "intake" THEN TRUE ELSE UNCHANGED intakeVars
    /\ IF part = "guesses" THEN TRUE ELSE UNCHANGED authVars
    /\ IF part = "pages" THEN TRUE ELSE UNCHANGED pageVars
    /\ IF part = "listing" THEN TRUE ELSE UNCHANGED listVars
    /\ IF part = "secrets" THEN TRUE ELSE UNCHANGED secretsVars
    /\ IF part = "bot" THEN TRUE ELSE UNCHANGED botVars
    /\ IF part = "once" THEN TRUE ELSE UNCHANGED guardVars
    /\ IF part = "monitor" THEN TRUE ELSE UNCHANGED monitorVars
    /\ IF part = "alerts" THEN TRUE ELSE UNCHANGED alertVars
    /\ IF part = "retry" THEN TRUE ELSE UNCHANGED retryVars
    /\ IF part = "submit" THEN TRUE ELSE UNCHANGED bondVars
    /\ IF part = "resolver" THEN TRUE ELSE UNCHANGED resolverVars
    /\ IF part = "audit" THEN TRUE ELSE UNCHANGED auditVars
    /\ IF part = "tables" THEN TRUE ELSE UNCHANGED oracleMetricsVars
    /\ IF part = "polls" THEN TRUE ELSE UNCHANGED aggMetricsVars
    /\ IF part = "decision" THEN TRUE ELSE UNCHANGED resolutionVars
    /\ IF part = "stale" THEN TRUE ELSE UNCHANGED trackVars
    /\ IF part = "rules" THEN TRUE ELSE UNCHANGED ruleVars

Init ==
    /\ focus \in Parts
    /\ IF focus = "crowd" THEN Crowd!IndexedInit ELSE Markets!IndexedInit
    /\ Markets!RebuildInit
    /\ Pool!RoutingInit
    /\ Pool!SlowInit /\ (focus # "queries" => filters = [minDuration |-> 0, minCalls |-> 1])
    /\ Limits!LimiterInit
    /\ Limits!ClientInit
    /\ Intake!IntakeInit /\ (focus # "intake" => \A b \in DOMAIN stampAge : stampAge[b] >= -2)
    /\ Intake!AuthInit
    /\ Api!PagesInit /\ (focus # "pages" => booked = 0)
    /\ Api!ListingInit
    /\ Secrets!SecretsInit /\ (focus # "secrets" => Usual)
    /\ BotInit /\ AlikeOnce /\ (focus # "bot" => verdict = AllAgree)
    /\ GuardInit
    /\ Monitor!MonitorInit
    /\ Monitor!AlertInit
    /\ Sender!RetryInit /\ (focus # "retry" => profile = Rpc)
    /\ Sender!SubmitInit
    /\ Sender!ResolverInit
    /\ Records!AuditInit
    /\ Monitor!MetricsInit
    /\ Monitor!AggMetricsInit
    /\ Sources!ResolutionInit /\ (focus # "decision" => category = "crypto")
    /\ Sources!TrackInit
    /\ Rules!MappingInit

Next ==
    \/ Only("market") /\ Markets!IndexedNext
    \/ Only("crowd") /\ Crowd!IndexedNext
    \/ Only("rebuild") /\ Markets!RebuildNext
    \/ Only("routing") /\ Pool!RoutingNext
    \/ Only("queries") /\ Pool!SlowNext
    \/ Only("windows") /\ Limits!LimiterNext
    \/ Only("client") /\ Limits!ClientNext
    \/ Only("intake") /\ Intake!IntakeNext
    \/ Only("guesses") /\ Intake!AuthNext
    \/ Only("pages") /\ Api!PagesNext
    \/ Only("listing") /\ Api!ListingNext
    \/ Only("secrets") /\ Secrets!SecretsNext
    \/ Only("bot") /\ BotNext
    \/ Only("once") /\ GuardNext
    \/ Only("monitor") /\ Monitor!MonitorNext
    \/ Only("alerts") /\ Monitor!AlertNext
    \/ Only("retry") /\ Sender!RetryNext
    \/ Only("submit") /\ Sender!SubmitNext
    \/ Only("resolver") /\ Sender!ResolverNext
    \/ Only("audit") /\ Records!AuditNext
    \/ Only("tables") /\ Monitor!MetricsNext
    \/ Only("polls") /\ Monitor!AggMetricsNext
    \/ Only("decision") /\ Sources!ResolutionNext
    \/ Only("stale") /\ Sources!TrackNext
    \/ Only("rules") /\ Rules!MappingNext
    \/ Only("rules") /\ Rules!ReadingNext
    \/ Only("rules") /\ Records!ToolNext

vars == <<focus, imVars, lrVars, routingVars, slowVars, limiterVars, clientVars,
          intakeVars, authVars, pageVars, listVars, secretsVars, botVars,
          guardVars, monitorVars, alertVars, retryVars, bondVars, resolverVars,
          auditVars, oracleMetricsVars, aggMetricsVars, resolutionVars, trackVars,
          ruleVars>>

Spec == Init /\ [][Next]_vars

-----------------------------------------------------------------------------
\* The tables say what the chain did: positions are the bets, totals the
\* positions, a market's row its stage, and the leaderboard the fold of its events.
TablesFollowTheChain ==
    /\ focus = "market" =>
        Markets!PositionsMatchBets /\ Markets!TotalsMatchPositions /\ Markets!RowFollowsChain
    /\ focus = "crowd" =>
        Crowd!PositionsMatchBets /\ Crowd!TotalsMatchPositions /\ Crowd!RowFollowsChain
    /\ focus = "rebuild" => Markets!BoardIsFoldOfEvents

\* A read misses no more than it may: a session sees its own writes, the replica
\* and the cached pages are behind by a bounded time, a listing covers every
\* market once whatever its filter and order, and a report matches the log.
\* Limits hold across processes and full tables, no submission is taken twice
\* within its retention, guessing is noticed, and a pointer to a secret is followed.
BoundsHold ==
    /\ focus = "routing" => Pool!SessionReadsItsWrites /\ Pool!StaleReadsAreBounded
    /\ focus = "pages" => Api!AnswersAreRecent /\ Api!UnknownIsNotKeptTwice
    /\ focus = "listing" =>
        /\ Api!PagesCoverOnce /\ Api!FiltersPartition /\ Api!LongestWaitDecides
        /\ Api!ExpiredAreSweptFirst /\ Api!OddsAreFair
    /\ focus = "queries" =>
        Pool!ReportMatchesTheLog /\ Pool!TargetsCoverMost /\ Pool!PercentilesAreOrdered
    /\ focus = "windows" => Limits!SharedBudget
    /\ focus = "client" => Limits!BurstIsBounded
    /\ focus = "intake" => Intake!ReplaysAreRefused /\ Intake!AcceptedWasRecorded
    /\ focus = "guesses" => Intake!SpikesAreAlerted
    /\ focus = "secrets" => Secrets!AmbientWins /\ Secrets!PointersAreFollowed

\* Money moves once: no market is posted two bonds unless the chain could not
\* tell, and a resolver records what was decided.
BondsAreSpentOnce ==
    /\ focus = "submit" => Sender!NoBondTwice /\ Sender!AnswerIsTrue
    /\ focus = "resolver" => Sender!RecordedIsDecided /\ Sender!OneConfirmedTransaction

\* Operators are told, once: no alert is lost but with a cycle that failed, none
\* is repeated, and the counts and failures that the metrics show are those of the
\* tables and the polls.  (The resolution lags they show are none.)
OperatorsAreTold ==
    /\ focus = "monitor" =>
        /\ Monitor!NoAlertRepeated /\ Monitor!NothingElseIsLost /\ Monitor!AlertsAgree
        /\ Monitor!PagedWasEmitted /\ Monitor!PagedOncePerProcess
    /\ focus = "alerts" => Monitor!AlertsAccountedFor
    /\ focus = "tables" => Monitor!FailuresAreShown /\ Monitor!NoLagIsADuration
    /\ focus = "polls" => Monitor!HistogramIsValid /\ Monitor!RingKeepsRecent /\ Monitor!LiveIsNotDegraded
    /\ focus = "stale" =>
        Sources!PruningLosesNothing /\ Sources!OrderIsIrrelevant /\ Sources!AlertTellsTheRun

\* A market is decided on evidence: by two sources where bonds depend on it, never
\* turned round by a source that fails, kept before it is returned; retries keep
\* to their budget and to what may help; an export holds once every decision whose
\* id is in order as a text too.
\* Any question of the rules is answered soundly: which adapters can map a market
\* and what a quote says, what a council's votes, thresholds, bonds and evidence
\* amount to.
DecisionsAreSound ==
    /\ focus = "decision" =>
        /\ Sources!TwoSourcesForBonds /\ Sources!PoliticsNoNeedsReview
        /\ Sources!OneFailureNeverFlips /\ Sources!DecisionIsEvenHanded
        /\ Sources!EvidenceBeforeDecision
    /\ focus = "retry" =>
        Sender!OnlyHopefulIsRetried /\ Sender!BudgetKept /\ Sender!RetryAfterHonoured
    /\ focus = "audit" =>
        Records!ExportIsComplete /\ Records!ExportIsOrdered /\ Records!ExportedVotesAreItsOwn
    /\ focus = "rules" =>
        /\ Rules!AdditionsOnlyHelp /\ Rules!StoredCategoryIsRead /\ Rules!BlockedStaysBlocked
        /\ Rules!SweepIsComplete /\ Rules!TagsOnlyReorder /\ Rules!UnclassifiedIsReported
        /\ Rules!UnitsAgree /\ Rules!AgeNeverHelps /\ Rules!ComparatorsExclude
        /\ Rules!BrokenCarriesNothing /\ Rules!DecimalsAreExact /\ Rules!RetryRulesAgree
        /\ Records!ReplayAgreesWithFinalizer /\ Records!ValidatedHasOutcome
        /\ Records!ConflictHasTwoSides /\ Records!DryRunTellsTheTruth
        /\ Records!SourceConflictIsSymmetric /\ Records!AcceptedCouncilCannotSplit
        /\ Records!NoDivergenceMeansEqual /\ Records!EveryCategoryHasResolvers
        /\ Records!ReconciliationIsExact /\ Records!ShortenedEvidenceSaysSo

\* What was promised or shown stays true: a client that waits as told is let in,
\* no event takes a stage back, and an attack is called distributed on recent
\* guesses only.
PromisesHold ==
    /\ Limits!RetryAfterIsEnough /\ Limits!WaitIsEnough
    /\ Markets!StagesNeverRegress
    /\ Intake!DistributedIsRecent

\* No channel hears the same alert within its cooldown, totals fall only when a
\* refresh overtakes another, and a ring keeps the newest.
NeverTakenBack ==
    /\ Monitor!NoRepeatInCooldown
    /\ Monitor!OnlyOvertakingLowersTotals /\ Monitor!NewestIsKept
=============================================================================
