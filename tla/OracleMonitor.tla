--------------------------- MODULE OracleMonitor ----------------------------
(***************************************************************************)
(* The monitor that tells operators of new submissions, escalations and    *)
(* silent councils.  Every cycle it reads the database and then emits what *)
(* it found; a cycle of which one check fails emits nothing, and a restart *)
(* begins at the newest rows.  The checks of a cycle read the database at  *)
(* one moment.                                                             *)
(***************************************************************************)
EXTENDS Integers, FiniteSets, FiniteSetsExt, Functions, Sequences, SequencesExt, Folds

CONSTANTS
    Disputes,       \* markets that may be escalated to the council
    Window,         \* hours a council has
    Inactivity,     \* COUNCIL_INACTIVITY_HOURS
    Warning,        \* COUNCIL_DEADLINE_WARNING_HOURS
    PageBefore,     \* COUNCIL_NO_VOTE_PAGE_HOURS
    LastHour,       \* bound: the clock
    LastSubmission, \* bound: ids of oracle_submissions
    MonitorFaults   \* bound: failed cycles and restarts

VARIABLES
    hour,           \* the clock, from 1
    submissions,    \* ids in oracle_submissions
    disputes,       \* rows of oracle_disputes with their council votes
    watermark,      \* of the two watchers
    paged,          \* councilNoVotePaged
    cycle,          \* the running cycle and what it has read
    announced,      \* how often each submission and escalation was emitted
    pages,          \* how often each silent dispute was paged for
    late,         \* rows committed after a newer one, which a watermark may have passed
    dropped,        \* alerts that were read and lost with their cycle
    monitorFaults

monitorVars == <<hour, submissions, disputes, watermark, paged, cycle, announced, pages, late, dropped, monitorFaults>>

NotEscalated == [status |-> "none", at |-> 0, votes |-> FALSE]
Waiting == [step |-> "waiting", submissions |-> {}, escalations |-> {}, pages |-> {}, next |-> {},
            inactive |-> {}, exceeded |-> {}, approaching |-> {}]

Alerts == (1 .. LastSubmission) \union Disputes

MonitorInit ==
    /\ hour = 1 /\ submissions = {} /\ disputes = [d \in Disputes |-> NotEscalated]
    /\ watermark = [submission |-> 0, escalated |-> 0]
    /\ paged = {} /\ cycle = Waiting
    /\ announced = [a \in Alerts |-> 0] /\ pages = [d \in Disputes |-> 0]
    /\ late = {} /\ dropped = {} /\ monitorFaults = 0

rows == <<submissions, disputes>>

-----------------------------------------------------------------------------
(* What the indexer writes *)

HourPasses ==
    /\ hour < LastHour
    /\ hour' = hour + 1
    /\ UNCHANGED <<rows, watermark, paged, cycle, announced, pages, late, dropped, monitorFaults>>

\* Ids are drawn before the commit, so two writers may commit out of order.
CommitSubmission ==
    /\ \E id \in (1 .. LastSubmission) \ submissions :
          /\ submissions' = submissions \union {id}
          /\ late' = IF id < Max(submissions \union {0}) THEN late \union {id} ELSE late
    /\ UNCHANGED <<hour, disputes, watermark, paged, cycle, announced, pages, dropped, monitorFaults>>

\* An escalation may be indexed an hour after it happened.
CommitEscalation ==
    /\ \E d \in Disputes, at \in {hour, hour - 1} \ {0} :
          /\ disputes[d] = NotEscalated
          /\ disputes' = [disputes EXCEPT ![d] = [status |-> "escalated", at |-> at, votes |-> FALSE]]
          /\ late' = IF at <= Max({disputes[e].at : e \in Disputes}) THEN late \union {d} ELSE late
    /\ UNCHANGED <<hour, submissions, watermark, paged, cycle, announced, pages, dropped, monitorFaults>>

CommitVote ==
    /\ \E d \in Disputes : disputes[d].status = "escalated" /\ ~disputes[d].votes
                           /\ disputes' = [disputes EXCEPT ![d].votes = TRUE]
    /\ UNCHANGED <<hour, submissions, watermark, paged, cycle, announced, pages, late, dropped, monitorFaults>>

CommitResolution ==
    /\ \E d \in Disputes : disputes[d].status = "escalated"
                           /\ disputes' = [disputes EXCEPT ![d].status = "resolved"]
    /\ UNCHANGED <<hour, submissions, watermark, paged, cycle, announced, pages, late, dropped, monitorFaults>>

-----------------------------------------------------------------------------
(* The checks *)

Escalated == {d \in Disputes : disputes[d].status = "escalated"}
CouncilDeadline(d) == disputes[d].at + Window

DetectNewSubmissions == {id \in submissions : id > watermark.submission}
DetectDisputeEscalations == {d \in Escalated : disputes[d].at > watermark.escalated}

\* The query returns escalated rows only, so that votes do not matter here.
CheckCouncilInactivity == {d \in Escalated : hour >= disputes[d].at + Inactivity}
CheckCouncilWindowExceeded == {d \in Escalated : hour > CouncilDeadline(d)}

Within(hours, d) == hour < CouncilDeadline(d) /\ CouncilDeadline(d) <= hour + hours

CheckCouncilDeadlineApproaching_Late ==
    {d \in Escalated : ~disputes[d].votes /\ Within(Warning, d) /\ ~Within(PageBefore, d)}

CheckCouncilDeadlineApproaching == {d \in Escalated : ~disputes[d].votes /\ Within(Warning, d)}
CheckCouncilNoVotes == {d \in Escalated : ~disputes[d].votes /\ Within(PageBefore, d)}

Raised_Ahead(old, new) == Max(new \union {old}) + Cardinality(new)

Raised(old, new) == Max(new \union {old})

\* The set the cycle works on is a copy: it becomes `paged` when the cycle ends.
PollChecks ==
    /\ cycle.step = "waiting"
    /\ cycle' = [step |-> "emitting",
                 submissions |-> DetectNewSubmissions,
                 escalations |-> DetectDisputeEscalations,
                 pages |-> CheckCouncilNoVotes \ paged,
                 next |-> CheckCouncilNoVotes,
                 inactive |-> CheckCouncilInactivity,
                 exceeded |-> CheckCouncilWindowExceeded,
                 approaching |-> CheckCouncilDeadlineApproaching]
    /\ watermark' = [submission |-> Raised(watermark.submission, DetectNewSubmissions),
                     escalated |-> Raised(watermark.escalated, {disputes[d].at : d \in DetectDisputeEscalations})]
    /\ UNCHANGED <<hour, rows, paged, announced, pages, late, dropped, monitorFaults>>

\* One of the checks rejects.  A watcher that had its answer has moved on.
ChecksReject(kept) ==
    /\ cycle.step = "waiting" /\ monitorFaults < MonitorFaults
    /\ monitorFaults' = monitorFaults + 1
    /\ \E ids \in {{}, DetectNewSubmissions}, escalations \in {{}, DetectDisputeEscalations} :
          /\ watermark' = [submission |-> Raised(watermark.submission, ids),
                           escalated |-> Raised(watermark.escalated, {disputes[d].at : d \in escalations})]
          /\ dropped' = dropped \union ids \union escalations
    /\ paged' = kept
    /\ UNCHANGED <<hour, rows, cycle, announced, pages, late>>

CheckRejects_SharedSet == ChecksReject(CheckCouncilNoVotes)

CheckRejects == ChecksReject(paged)

Counted(count, emitted) == [a \in DOMAIN count |-> IF a \in emitted THEN count[a] + 1 ELSE count[a]]

\* A webhook that fails is logged and ends nothing.
EmitAlerts ==
    /\ cycle.step = "emitting"
    /\ announced' = Counted(announced, cycle.submissions \union cycle.escalations)
    /\ cycle' = [cycle EXCEPT !.step = "paging", !.submissions = {}, !.escalations = {}]
    /\ UNCHANGED <<hour, rows, watermark, paged, pages, late, dropped, monitorFaults>>

EmitPages ==
    /\ cycle.step = "paging"
    /\ pages' = Counted(pages, cycle.pages)
    /\ cycle' = [cycle EXCEPT !.step = "committing", !.pages = {}]
    /\ UNCHANGED <<hour, rows, watermark, paged, announced, late, dropped, monitorFaults>>

EndCycle_Forgets ==
    /\ cycle.step = "committing"
    /\ paged' = {}
    /\ cycle' = Waiting
    /\ UNCHANGED <<hour, rows, watermark, announced, pages, late, dropped, monitorFaults>>

EndCycle ==
    /\ cycle.step = "committing"
    /\ paged' = cycle.next
    /\ cycle' = Waiting
    /\ UNCHANGED <<hour, rows, watermark, announced, pages, late, dropped, monitorFaults>>

\* A new process reads the newest id and escalation and starts from there.
ReadWatermarks_FromZero ==
    [submission |-> 0, escalated |-> 0]

ReadWatermarks ==
    [submission |-> Max(submissions \union {0}),
     escalated |-> Max({disputes[d].at : d \in Disputes})]

RestartMonitor ==
    /\ monitorFaults < MonitorFaults
    /\ monitorFaults' = monitorFaults + 1
    /\ watermark' = ReadWatermarks
    /\ paged' = {} /\ cycle' = Waiting
    /\ dropped' = dropped \union cycle.submissions \union cycle.escalations
                  \union DetectNewSubmissions \union DetectDisputeEscalations
    /\ UNCHANGED <<hour, rows, announced, pages, late>>

MonitorNext ==
    \/ HourPasses \/ CommitSubmission \/ CommitEscalation \/ CommitVote \/ CommitResolution
    \/ PollChecks \/ CheckRejects \/ EmitAlerts \/ EmitPages \/ EndCycle \/ RestartMonitor

MonitorSpec == MonitorInit /\ [][MonitorNext]_monitorVars

-----------------------------------------------------------------------------

\* A submission or an escalation is announced once, also when the monitor is
\* restarted and whatever the other checks of its cycle do.
NoAlertRepeated == \A a \in Alerts : announced[a] <= 1

\* What lies at or below a watermark was announced or is about to be.  The
\* exceptions are the three ways the watchers do lose a row: a cycle that
\* failed after they had read it, a restart, and a row committed late.
NothingElseIsLost ==
    LET accounted == dropped \union late \union cycle.submissions \union cycle.escalations
    IN  /\ \A id \in submissions :
              id <= watermark.submission => announced[id] = 1 \/ id \in accounted
        /\ \A d \in Escalated :
              disputes[d].at <= watermark.escalated => announced[d] = 1 \/ d \in accounted

\* A dispute counts as paged only if its page was emitted, so that a cycle that
\* fails part of the way cannot swallow a page.
PagedWasEmitted == \A d \in paged : pages[d] > 0

\* The council is paged once for a dispute, and again only by a new process.
PagedOncePerProcess == \A d \in Disputes : pages[d] <= 1 + monitorFaults

\* The checks of a cycle agree: who is paged for was also warned of, and no
\* window is both about to end and over.
AlertsAgree ==
    /\ cycle.pages \subseteq cycle.approaching
    /\ cycle.approaching \intersect cycle.exceeded = {}

-----------------------------------------------------------------------------
(***************************************************************************)
(* createAlertRouter of alert.ts: an alert about a market whose submission *)
(* keeps failing is classified, and sent to every channel that takes its   *)
(* severity.  Per (severity, market, channel) the router suppresses what   *)
(* was delivered less than a cooldown ago, joins a delivery in flight, and *)
(* retries a failed send a bounded number of times.                        *)
(*                                                                         *)
(* Severities are ranks: 1 is SEV1, the most severe.                       *)
(***************************************************************************)

CONSTANTS AlertMarkets,    \* markets alerts are about
          Channels,        \* alert channels
          MinSeverity,     \* [Channels -> 1..3], the least severe rank a channel takes
          SendRetries,     \* maxRetries
          Cooldown,        \* cooldownMs, in ticks; 0 disables deduplication
          AlertTicks,      \* bound: the clock
          Raises           \* bound: alerts raised

VARIABLES alertClock,   \* Date.now()
          firedAt,      \* dedupeMap: the tick of the last delivery, or Never
          inFlight,     \* inFlight: the attempt under way, or Never
          raises,       \* alerts raised so far (for the bound)
          raisedAt,     \* history: when an alert was last addressed to the key
          sentAt,       \* history: when a channel last took it
          gaveUpAt      \* history: when the last retry failed and was logged

alertVars == <<alertClock, firedAt, inFlight, raises, raisedAt, sentAt, gaveUpAt>>

Never == -1
Severities == 1..3
DedupeKeys == AlertMarkets \X Severities \X Channels
Unset == [k \in DedupeKeys |-> Never]

AlertInit ==
    /\ alertClock = 0
    /\ firedAt = Unset
    /\ inFlight = Unset
    /\ raises = 0
    /\ raisedAt = Unset /\ sentAt = Unset /\ gaveUpAt = Unset

\* classifyAlertSeverity: funds at stake, or an error that names them, is SEV1.
ClassifyAlertSeverity(holdsFunds, fundKeyword, attempts) ==
    IF holdsFunds \/ fundKeyword THEN 1 ELSE IF attempts >= 5 THEN 2 ELSE 3

\* meetsMinSeverity: a lower rank is more severe.
MeetsMinSeverity(severity, least) == severity <= least

\* The key of a delivery: the severity is part of it, so that a market whose
\* alerts become more severe is not silenced by the milder ones.
MakeDedupeKey_NoSeverity(market, severity, channel) == <<market, 3, channel>>
MakeDedupeKey(market, severity, channel) == <<market, severity, channel>>

Suppressed_Never(key) == FALSE
Suppressed(key) == /\ Cooldown > 0
                   /\ firedAt[key] # Never
                   /\ alertClock - firedAt[key] < Cooldown

\* One call of the alert sender: every eligible channel is suppressed, joins
\* the delivery in flight or starts one, in the same turn of the event loop.
RaiseAlert(market, holdsFunds, fundKeyword, attempts) ==
    LET severity == ClassifyAlertSeverity(holdsFunds, fundKeyword, attempts)
        eligible == {c \in Channels : MeetsMinSeverity(severity, MinSeverity[c])}
        keys == {MakeDedupeKey(market, severity, c) : c \in eligible}
        starting == {k \in keys : ~Suppressed(k) /\ inFlight[k] = Never}
    IN /\ raises < Raises
       /\ raises' = raises + 1
       /\ inFlight' = [k \in DedupeKeys |-> IF k \in starting THEN 0 ELSE inFlight[k]]
       /\ raisedAt' = [k \in DedupeKeys |-> IF k[1] = market /\ k[2] = severity
                                            THEN alertClock ELSE raisedAt[k]]
       /\ UNCHANGED <<alertClock, firedAt, sentAt, gaveUpAt>>

\* ch.send() resolved.
ChannelTakes(key) ==
    /\ inFlight[key] # Never
    /\ inFlight' = [inFlight EXCEPT ![key] = Never]
    /\ firedAt' = IF Cooldown > 0 THEN [firedAt EXCEPT ![key] = alertClock] ELSE firedAt
    /\ sentAt' = [sentAt EXCEPT ![key] = alertClock]
    /\ UNCHANGED <<alertClock, raises, raisedAt, gaveUpAt>>

\* ch.send() rejected with attempts left: the router sleeps and sends again.
ChannelRefuses(key) ==
    /\ inFlight[key] \in 0 .. SendRetries - 1
    /\ inFlight' = [inFlight EXCEPT ![key] = @ + 1]
    /\ UNCHANGED <<alertClock, firedAt, raises, raisedAt, sentAt, gaveUpAt>>

\* The last attempt failed: logged, and the channel stays eligible.
ChannelGivesUp(key) ==
    /\ inFlight[key] = SendRetries
    /\ inFlight' = [inFlight EXCEPT ![key] = Never]
    /\ gaveUpAt' = [gaveUpAt EXCEPT ![key] = alertClock]
    /\ UNCHANGED <<alertClock, firedAt, raises, raisedAt, sentAt>>

AlertTick ==
    /\ alertClock < AlertTicks
    /\ alertClock' = alertClock + 1
    /\ UNCHANGED <<firedAt, inFlight, raises, raisedAt, sentAt, gaveUpAt>>

AlertNext ==
    \/ AlertTick
    \/ \E m \in AlertMarkets, holdsFunds, keyword \in BOOLEAN, attempts \in {1, 5} :
          RaiseAlert(m, holdsFunds, keyword, attempts)
    \/ \E key \in DedupeKeys : ChannelTakes(key) \/ ChannelRefuses(key) \/ ChannelGivesUp(key)

-----------------------------------------------------------------------------
\* Every alert is accounted for on every channel that takes its severity: it
\* is on its way, the channel took the same alert less than a cooldown before
\* it was raised (or after), or its failure was logged after it was raised.
\* A rise in severity is never silenced by milder alerts.
AlertsAccountedFor ==
    \A m \in AlertMarkets, s \in Severities, c \in Channels :
        LET k == <<m, s, c>> IN
        (s <= MinSeverity[c] /\ raisedAt[k] # Never) =>
            \/ inFlight[k] # Never
            \/ sentAt[k] # Never /\ (sentAt[k] >= raisedAt[k] \/ raisedAt[k] - sentAt[k] < Cooldown)
            \/ gaveUpAt[k] >= raisedAt[k]

\* A channel never takes the same alert twice within a cooldown, however the
\* deliveries and their retries overlap.
NoRepeatInCooldown ==
    [][\A k \in DedupeKeys :
         sentAt'[k] # sentAt[k] => sentAt[k] = Never \/ sentAt'[k] - sentAt[k] >= Cooldown]_alertVars

-----------------------------------------------------------------------------
(***************************************************************************)
(* The oracle's Prometheus endpoint, oracle/src/metrics: a collector that  *)
(* re-reads Postgres on a timer, keeps the last snapshot when a refresh    *)
(* fails, and a server that serves the snapshot.  setInterval does not     *)
(* wait for the previous refresh: a slow query lets refreshes overlap and  *)
(* finish in any order.                                                    *)
(***************************************************************************)

CONSTANTS LagMarkets,   \* markets in oracle_resolution_lag
          LagSeries,    \* ORACLE_METRICS_LAG_SERIES
          Refreshes,    \* bound: refreshes started
          Rows          \* bound: submissions recorded

VARIABLES submissionRows, \* COUNT(*) of oracle_submissions
          lagTable,       \* oracle_resolution_lag: [market -> [ended, resolved]]
          refreshing,     \* refreshes whose queries have not all answered
          refreshCount,   \* refreshes started
          snapshot,       \* collector.snapshot
          refreshErrors,  \* collector.errors
          lastRefreshOk,  \* what /health and oracle_up report
          newestDone      \* history: the latest started refresh that succeeded

oracleMetricsVars == <<submissionRows, lagTable, refreshing, refreshCount, snapshot,
                       refreshErrors, lastRefreshOk, newestDone>>

EmptySnapshot == [submissions |-> 0, lag |-> <<>>, errors |-> 0, refreshed |-> FALSE]

\* toNumber: an absent column counts as zero.
Absent == 0

\* collectResolutionLag: newest first, at most LagSeries.  The query selects
\* resolved_at_epoch; the row is read under the name finalized_at_epoch, which
\* is absent, so that every sample is minus the end of its market.
ResolutionLag ==
    LET newest == SetToSortSeq(DOMAIN lagTable,
                               LAMBDA a, b : \/ lagTable[a].resolved > lagTable[b].resolved
                                             \/ lagTable[a].resolved = lagTable[b].resolved /\ a < b)
        shown == SubSeq(newest, 1, Min({LagSeries, Len(newest)}))
    IN [i \in DOMAIN shown |->
          [market |-> shown[i], lag |-> Absent - lagTable[shown[i]].ended]]

MetricsInit ==
    /\ submissionRows = 0
    /\ lagTable = << >>
    /\ refreshing = {}
    /\ refreshCount = 0
    /\ snapshot = EmptySnapshot
    /\ refreshErrors = 0
    /\ lastRefreshOk = FALSE
    /\ newestDone = 0

RecordRow ==
    /\ submissionRows < Rows
    /\ submissionRows' = submissionRows + 1
    /\ UNCHANGED <<lagTable, refreshing, refreshCount, snapshot, refreshErrors, lastRefreshOk, newestDone>>

\* recordResolution: ON CONFLICT (market_id) DO NOTHING.
RecordResolutionLag(market, ended, resolved) ==
    /\ market \notin DOMAIN lagTable
    /\ lagTable' = [m \in DOMAIN lagTable \cup {market} |->
                      IF m = market THEN [ended |-> ended, resolved |-> resolved] ELSE lagTable[m]]
    /\ UNCHANGED <<submissionRows, refreshing, refreshCount, snapshot, refreshErrors, lastRefreshOk, newestDone>>

\* The timer fires: the queries are sent, and read the tables as they are.
StartRefresh ==
    /\ refreshCount < Refreshes
    /\ refreshCount' = refreshCount + 1
    /\ refreshing' = refreshing \cup
         {[id |-> refreshCount + 1, submissions |-> submissionRows, lag |-> ResolutionLag]}
    /\ UNCHANGED <<submissionRows, lagTable, snapshot, refreshErrors, lastRefreshOk, newestDone>>

RefreshDone(r) ==
    /\ refreshing' = refreshing \ {r}
    /\ snapshot' = [submissions |-> r.submissions, lag |-> r.lag,
                    errors |-> refreshErrors, refreshed |-> TRUE]
    /\ lastRefreshOk' = TRUE
    /\ newestDone' = Max({newestDone, r.id})
    /\ UNCHANGED <<submissionRows, lagTable, refreshCount, refreshErrors>>

\* A slip: a failed refresh blanks the snapshot.
RefreshFails_Blanks(r) ==
    /\ refreshing' = refreshing \ {r}
    /\ refreshErrors' = refreshErrors + 1
    /\ snapshot' = [EmptySnapshot EXCEPT !.errors = refreshErrors + 1]
    /\ lastRefreshOk' = FALSE
    /\ UNCHANGED <<submissionRows, lagTable, refreshCount, newestDone>>

\* A slip: the failure is counted and not shown.
RefreshFails_Silent(r) ==
    /\ refreshing' = refreshing \ {r}
    /\ refreshErrors' = refreshErrors + 1
    /\ lastRefreshOk' = FALSE
    /\ UNCHANGED <<submissionRows, lagTable, refreshCount, newestDone, snapshot>>

RefreshFails(r) ==
    /\ refreshing' = refreshing \ {r}
    /\ refreshErrors' = refreshErrors + 1
    /\ snapshot' = [snapshot EXCEPT !.errors = refreshErrors + 1]
    /\ lastRefreshOk' = FALSE
    /\ UNCHANGED <<submissionRows, lagTable, refreshCount, newestDone>>

MetricsNext ==
    \/ RecordRow
    \/ \E m \in LagMarkets, ended, resolved \in 1..3 : RecordResolutionLag(m, ended, resolved)
    \/ StartRefresh
    \/ \E r \in refreshing : RefreshDone(r) \/ RefreshFails(r)

-----------------------------------------------------------------------------
\* A scrape shows a total that went down only when a refresh overtook an older
\* one: no failure, and no restart of the queries, looks like a counter reset.
OnlyOvertakingLowersTotals ==
    [][snapshot'.submissions < snapshot.submissions
         => \E r \in refreshing : r.id < newestDone /\ snapshot'.submissions = r.submissions]_oracleMetricsVars

\* Every failed refresh shows in the next scrape, a success does not hide it.
FailuresAreShown == snapshot.errors = refreshErrors

\* The collector says that it shows "hours from expiry to finalization", which
\* would be row.resolved - row.ended.  No sample is that, whatever the table holds:
\* all are negative, although no time is (see ResolutionLag).
NoLagIsADuration == \A i \in DOMAIN snapshot.lag : snapshot.lag[i].lag < 0

-----------------------------------------------------------------------------
(***************************************************************************)
(* What the aggregator says of itself: the in-process registry of          *)
(* aggregator/metrics.ts (a ring of the last resolutions, a lag histogram, *)
(* the availability derived from the last completed poll) and the liveness *)
(* and readiness answers of aggregator/health.ts.                          *)
(***************************************************************************)

CONSTANTS LagBuckets,     \* upper bounds of the histogram but the last, +Inf
          MaxEntries,     \* AggregatorMetrics.MAX_ENTRIES
          Lags,           \* hours from end to resolution, negative if early
          DegradedAfter,  \* degradedAfterMs, in ticks
          AlertAfter,     \* alertAfterMs
          MaxStale,       \* MAX_POLL_STALE_MS of the health endpoint
          PollTicks,      \* bound: the clock
          Observed        \* bound: resolutions recorded

VARIABLES pollClock, lagEntries, bucketCounts, lagSum, lagCount,
          lastPollAt,     \* lastPollCompletedAt, or NeverPolled
          pollFailures,   \* consecutivePollFailures
          startedAt       \* history: when the process started or the registry was reset

aggMetricsVars == <<pollClock, lagEntries, bucketCounts, lagSum, lagCount, lastPollAt, pollFailures, startedAt>>

NeverPolled == -1
Bounds == Append(LagBuckets, 1000)

AggMetricsInit ==
    /\ pollClock = 0 /\ startedAt = 0
    /\ lagEntries = <<>>
    /\ bucketCounts = [i \in DOMAIN Bounds |-> 0]
    /\ lagSum = 0 /\ lagCount = 0
    /\ lastPollAt = NeverPolled /\ pollFailures = 0

\* A slip: a bucket counts what fell between its bound and the one below.
BucketsAfter_Disjoint(lag) ==
    [i \in DOMAIN Bounds |-> IF lag <= Bounds[i] /\ (i = 1 \/ lag > Bounds[i - 1])
                             THEN bucketCounts[i] + 1 ELSE bucketCounts[i]]

\* Buckets are cumulative.
BucketsAfter(lag) ==
    [i \in DOMAIN Bounds |-> IF lag <= Bounds[i] THEN bucketCounts[i] + 1 ELSE bucketCounts[i]]

\* push, and shift the oldest out past MAX_ENTRIES.
EntriesAfter_Drops(lag) == IF Len(lagEntries) = MaxEntries THEN lagEntries ELSE Append(lagEntries, lag)
EntriesAfter(lag) ==
    LET longer == Append(lagEntries, lag)
    IN IF Len(longer) > MaxEntries THEN Tail(longer) ELSE longer

RecordResolution(lag) ==
    /\ lagCount < Observed
    /\ lagEntries' = EntriesAfter(lag)
    /\ bucketCounts' = BucketsAfter(lag)
    /\ lagSum' = lagSum + (IF lag > 0 THEN lag ELSE 0)
    /\ lagCount' = lagCount + 1
    /\ UNCHANGED <<pollClock, lastPollAt, pollFailures, startedAt>>

RecordPollCompleted ==
    /\ lastPollAt' = pollClock
    /\ pollFailures' = 0
    /\ UNCHANGED <<pollClock, lagEntries, bucketCounts, lagSum, lagCount, startedAt>>

RecordPollFailure ==
    /\ pollFailures < 2
    /\ pollFailures' = pollFailures + 1
    /\ UNCHANGED <<pollClock, lagEntries, bucketCounts, lagSum, lagCount, lastPollAt, startedAt>>

\* A slip: the sum outlives the counts.
ResetMetrics_KeepsCount ==
    /\ lagEntries' = <<>>
    /\ bucketCounts' = [i \in DOMAIN Bounds |-> 0]
    /\ lagSum' = 0 /\ lastPollAt' = NeverPolled /\ pollFailures' = 0
    /\ startedAt' = pollClock
    /\ UNCHANGED <<pollClock, lagCount>>

ResetMetrics ==
    /\ lagEntries' = <<>>
    /\ bucketCounts' = [i \in DOMAIN Bounds |-> 0]
    /\ lagSum' = 0 /\ lagCount' = 0 /\ lastPollAt' = NeverPolled /\ pollFailures' = 0
    /\ startedAt' = pollClock
    /\ UNCHANGED pollClock

PollTick ==
    /\ pollClock < PollTicks
    /\ pollClock' = pollClock + 1
    /\ UNCHANGED <<lagEntries, bucketCounts, lagSum, lagCount, lastPollAt, pollFailures, startedAt>>

AggMetricsNext ==
    \/ \E lag \in Lags : RecordResolution(lag)
    \/ RecordPollCompleted \/ RecordPollFailure \/ ResetMetrics \/ PollTick

\* assessAggregatorAvailability: with no completed poll the stall is unbounded.
Stalled(limit) == lastPollAt = NeverPolled \/ pollClock - lastPollAt > limit
AvailabilityLevel == IF Stalled(AlertAfter) THEN "critical"
                     ELSE IF Stalled(DegradedAfter) THEN "degraded" ELSE "ok"

\* serializeAvailability: the gauge of the alert rule.
UnavailableSeconds ==
    IF Stalled(DegradedAfter) /\ lastPollAt # NeverPolled THEN pollClock - lastPollAt ELSE 0

\* /health/live: dead without a poll or with a stale one.
LiveAnswer_TrustsStart == IF lastPollAt # NeverPolled /\ pollClock - lastPollAt > MaxStale THEN 503 ELSE 200
LiveAnswer == IF lastPollAt = NeverPolled \/ pollClock - lastPollAt > MaxStale THEN 503 ELSE 200

\* snapshot(): the extremes of the entries kept.
MaxLag == FoldSeq(LAMBDA lag, most : IF lag > most THEN lag ELSE most, -1000, lagEntries)
MinLag == FoldSeq(LAMBDA lag, least : IF lag < least THEN lag ELSE least, 1000, lagEntries)

-----------------------------------------------------------------------------
\* The histogram is one Prometheus accepts after any resolutions and resets:
\* cumulative, its last bucket equal to its count, its sum not negative.
HistogramIsValid ==
    /\ \A i \in 1 .. Len(Bounds) - 1 : bucketCounts[i] <= bucketCounts[i + 1]
    /\ bucketCounts[Len(Bounds)] = lagCount
    /\ lagSum >= 0

\* The ring forgets old resolutions and never recent ones: it holds exactly as
\* many as were recorded, up to its size, and its extremes are recorded lags.
RingKeepsRecent ==
    /\ Len(lagEntries) = IF lagCount < MaxEntries THEN lagCount ELSE MaxEntries
    /\ lagEntries # <<>> => MaxLag >= MinLag /\ MaxLag \in Lags

\* The newest resolution is always in the ring.
NewestIsKept ==
    [][\A lag \in Lags : RecordResolution(lag) => Last(lagEntries') = lag]_aggMetricsVars

\* A process the orchestrator is told is alive is not one the availability
\* gauges call degraded, whatever failed since its start.
LiveIsNotDegraded == (LiveAnswer = 200 /\ MaxStale <= DegradedAfter) => AvailabilityLevel = "ok"
=============================================================================
