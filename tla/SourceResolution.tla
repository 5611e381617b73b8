-------------------------- MODULE SourceResolution --------------------------
(***************************************************************************)
(* resolveMarket of oracle/src/adapters/resolve.ts: the adapters of a      *)
(* market's category are asked one after the other, their answers weighed, *)
(* and the decision kept with its evidence before it is returned.  Each    *)
(* adapter turns whatever its provider says into an answer or a failure.   *)
(*                                                                         *)
(* Confidences and ratios are in percent.                                  *)
(***************************************************************************)
EXTENDS Integers, Sequences, FiniteSets, SequencesExt, FiniteSetsExt, Folds

CONSTANTS StaleConfidence, \* confidence ceiling of a stale or untimestamped quote
          StoreFaults      \* bound: saves of evidence that throw

VARIABLES category,    \* the category of the market being resolved
          answered,    \* sources: the answers of the adapters asked so far
          step,        \* where resolveMarket is
          decision,    \* the result about to be returned, or returned
          reviewItems, \* the manual review queue: reasons on file
          payloadsKept, recordKept, \* rawPayloadSink and provenanceStore took the decision
          storeFaults

resolutionVars == <<category, answered, step, decision, reviewItems, payloadsKept, recordKept, storeFaults>>

Categories == {"crypto", "sports", "politics"}

Failed == [kind |-> "failed"]
Cancels == [kind |-> "cancels"]
Says(outcome, confidence) == [kind |-> "says", outcome |-> outcome, confidence |-> confidence]

-----------------------------------------------------------------------------
\* The adapters.

\* assessQuote: the ceiling of a quote's age, an expired quote is refused.
Ceiling(age) == IF age = "fresh" THEN 100 ELSE StaleConfidence

\* normalizeCryptoQuote: the price is below (-1), at (0) or above the threshold.
CryptoOutcome(price, comparator) == IF comparator = "gte" THEN price >= 0 ELSE price < 0

CryptoAnswers ==
    {Failed} \cup {Says(CryptoOutcome(price, comparator), Ceiling(age)) :
        price \in -1..1, comparator \in {"gte", "lte"}, age \in {"fresh", "stale", "untimestamped"}}

\* SportDataApi: the final score against the selection; a draw by default.
ScoreOutcome(home, away, selected) ==
    CASE selected = "home" -> home > away
      [] selected = "away" -> away > home
      [] OTHER -> home = away
SportDataAnswers ==
    {Failed, Cancels} \cup {Says(ScoreOutcome(home, away, selected), 100) :
        home, away \in 0..1, selected \in {"home", "away", "draw"}}

\* TheOddsApi: the shorter price wins; the confidence is the probability the
\* two prices give the selection.
OddsAnswers ==
    {Failed, Cancels} \cup {Says(selected < opponent, (100 * opponent) \div (selected + opponent)) :
        selected, opponent \in 1..5}

\* Reuters: the share of ten articles that name the expected outcome, raised a
\* fifth and capped, against a threshold of 70.
NewsAnswers ==
    {Failed} \cup {LET confidence == Min({100, 12 * matches}) IN Says(confidence >= 70, confidence) :
        matches \in 0..10}

\* Polymarket: a resolved market, compared with the expected outcome.
FeedAnswers == {Failed} \cup {Says(outcome, 95) : outcome \in BOOLEAN}

\* selectAdaptersForMarket: the adapters of a category in registration order.
AdaptersFor ==
    [crypto |-> <<CryptoAnswers, CryptoAnswers, CryptoAnswers>>,
     sports |-> <<SportDataAnswers, OddsAnswers>>,
     politics |-> <<NewsAnswers, FeedAnswers>>]

\* DEFAULT_CATEGORY_CONFIG, and minWeightedMargin of DEFAULT_OPTIONS.
Policy == [crypto |-> [agreement |-> 2, conflict |-> 30, confidence |-> 70],
           sports |-> [agreement |-> 1, conflict |-> 30, confidence |-> 70],
           politics |-> [agreement |-> 2, conflict |-> 15, confidence |-> 85]]
MinMargin == 10

-----------------------------------------------------------------------------
\* The decision.

Answers(sources) == SelectSeq(sources, LAMBDA s : s.kind = "says")
Heads(answers, side) == Len(SelectSeq(answers, LAMBDA s : s.outcome = side))
Total(answers) == FoldSeq(LAMBDA s, sum : s.confidence + sum, 0, answers)
Raw(answers, side) == Total(SelectSeq(answers, LAMBDA s : s.outcome = side))

\* A slip: the no side is counted and not weighed.
WeightOf_Uneven(answers, side) == IF side THEN Raw(answers, side) ELSE Heads(answers, side)

\* The confidence behind a side; heads when nobody is confident at all.
WeightOf(answers, side) ==
    IF Total(answers) > 0 THEN Raw(answers, side) ELSE Heads(answers, side)

Undecided(why) == [status |-> why, outcome |-> FALSE]

\* A slip: a single answer is enough for every category.
Decide_AnyNumber(of, sources) ==
    LET says == Answers(sources)
        yes == WeightOf(says, TRUE) no == WeightOf(says, FALSE)
    IN IF \E i \in DOMAIN sources : sources[i] = Cancels THEN Undecided("cancelled")
       ELSE IF says = <<>> THEN Undecided("unresolvable")
       ELSE IF Min({yes, no}) * 100 > Policy[of].conflict * (yes + no) THEN Undecided("conflict")
       ELSE IF Total(says) < Policy[of].confidence * Len(says) THEN Undecided("low confidence")
       ELSE [status |-> "resolved", outcome |-> yes > no]

\* A slip: the outcome is that of the source asked first.
Decide_First(of, sources) ==
    LET says == Answers(sources) IN
    IF \E i \in DOMAIN sources : sources[i] = Cancels THEN Undecided("cancelled")
    ELSE IF Len(says) < Policy[of].agreement \/ says = <<>> THEN Undecided("unresolvable")
    ELSE [status |-> "resolved", outcome |-> says[1].outcome]

\* A slip: the confidence floor is dropped.
Decide_NoFloor(of, sources) ==
    LET says == Answers(sources)
        yes == WeightOf(says, TRUE) no == WeightOf(says, FALSE)
    IN IF \E i \in DOMAIN sources : sources[i] = Cancels THEN Undecided("cancelled")
       ELSE IF Len(says) < Policy[of].agreement \/ says = <<>> THEN Undecided("unresolvable")
       ELSE IF Min({yes, no}) * 100 > Policy[of].conflict * (yes + no) THEN Undecided("conflict")
       ELSE [status |-> "resolved", outcome |-> yes > no]

Decide(of, sources) ==
    LET says == Answers(sources)
        yes == WeightOf(says, TRUE) no == WeightOf(says, FALSE)
        bothSides == Heads(says, TRUE) > 0 /\ Heads(says, FALSE) > 0
        margin == IF yes > no THEN yes - no ELSE no - yes
    IN IF \E i \in DOMAIN sources : sources[i] = Cancels THEN Undecided("cancelled")
       ELSE IF says = <<>> THEN Undecided("unresolvable")
       ELSE IF Len(says) < Policy[of].agreement THEN Undecided("unresolvable")
       ELSE IF Min({yes, no}) * 100 > Policy[of].conflict * (yes + no) THEN Undecided("conflict")
       ELSE IF bothSides /\ margin * 100 < MinMargin * (yes + no) THEN Undecided("conflict")
       ELSE IF Total(says) < Policy[of].confidence * Len(says) THEN Undecided("low confidence")
       ELSE [status |-> "resolved", outcome |-> yes > no]

ForReview == {"conflict", "low confidence"}

ResolutionInit ==
    /\ category \in Categories
    /\ answered = <<>> /\ step = "asking" /\ decision = Undecided("none")
    /\ reviewItems = {} /\ payloadsKept = FALSE /\ recordKept = FALSE /\ storeFaults = 0

\* fetchSource: the next adapter answers, or its failure becomes its answer.
FetchSource(answer) ==
    /\ step = "asking"
    /\ Len(answered) < Len(AdaptersFor[category])
    /\ answer \in AdaptersFor[category][Len(answered) + 1]
    /\ answered' = Append(answered, answer)
    /\ UNCHANGED <<category, step, decision, reviewItems, payloadsKept, recordKept, storeFaults>>

\* Every adapter was asked: decide, and file what a person has to look at.
DecideMarket ==
    /\ step = "asking"
    /\ Len(answered) = Len(AdaptersFor[category])
    /\ decision' = Decide(category, answered)
    /\ reviewItems' = IF decision'.status \in ForReview
                      THEN reviewItems \cup {decision'.status} ELSE reviewItems
    /\ step' = "payloads"
    /\ UNCHANGED <<category, answered, payloadsKept, recordKept, storeFaults>>

\* A slip: an undecided market is not worth its evidence.
KeepPayloads_Resolved ==
    /\ step = "payloads"
    /\ payloadsKept' = (decision.status = "resolved")
    /\ step' = "record"
    /\ UNCHANGED <<category, answered, decision, reviewItems, recordKept, storeFaults>>

KeepPayloads ==
    /\ step = "payloads"
    /\ payloadsKept' = TRUE
    /\ step' = "record"
    /\ UNCHANGED <<category, answered, decision, reviewItems, recordKept, storeFaults>>

KeepRecord ==
    /\ step = "record"
    /\ recordKept' = TRUE
    /\ step' = "returned"
    /\ UNCHANGED <<category, answered, decision, reviewItems, payloadsKept, storeFaults>>

\* A store throws: the caller gets the error, and resolves the market again.
StoreThrows ==
    /\ step \in {"payloads", "record"}
    /\ storeFaults < StoreFaults
    /\ storeFaults' = storeFaults + 1
    /\ step' = "asking" /\ answered' = <<>> /\ decision' = Undecided("none")
    /\ payloadsKept' = FALSE
    /\ UNCHANGED <<category, reviewItems, recordKept>>

ResolutionNext ==
    \/ \E i \in DOMAIN AdaptersFor[category] :
          \E answer \in AdaptersFor[category][i] : FetchSource(answer)
    \/ DecideMarket \/ KeepPayloads \/ KeepRecord \/ StoreThrows

ResolutionSpec == ResolutionInit /\ [][ResolutionNext]_resolutionVars

-----------------------------------------------------------------------------
Resolved == decision.status = "resolved"

\* A crypto market, whose outcome moves bonds, is resolved only to what two
\* sources said, one of them with a fresh quote: no single provider decides,
\* and stale quotes never outvote a fresh one.
TwoSourcesForBonds ==
    (Resolved /\ category = "crypto") =>
        LET agreeing == {i \in DOMAIN answered : answered[i].kind = "says" /\ answered[i].outcome = decision.outcome}
        IN Cardinality(agreeing) >= 2 /\ \E i \in agreeing : answered[i].confidence = 100

\* A politics market is never resolved to no without a person: the news source
\* is confident only of what happened.
PoliticsNoNeedsReview == (Resolved /\ category = "politics") => decision.outcome

\* Losing one source can hold a decision back and never turn it round.
OneFailureNeverFlips ==
    Resolved => \A i \in DOMAIN answered :
        LET without == Decide(category, [answered EXCEPT ![i] = Failed])
        IN without.status = "resolved" => without.outcome = decision.outcome

\* The decision does not lean to one side: with every answer turned round, the
\* market is decided the same way round the other way.
DecisionIsEvenHanded ==
    step # "asking" =>
        LET mirrored == Decide(category, [i \in DOMAIN answered |->
                          IF answered[i].kind = "says" THEN [answered[i] EXCEPT !.outcome = ~@] ELSE answered[i]])
        IN /\ mirrored.status = decision.status
           /\ Resolved => mirrored.outcome = ~decision.outcome

\* No decision is returned without its evidence and its record, and none that
\* a person must look at without an item in the review queue.
EvidenceBeforeDecision ==
    step = "returned" => /\ payloadsKept /\ recordKept
                         /\ decision.status \in ForReview => decision.status \in reviewItems

-----------------------------------------------------------------------------
(***************************************************************************)
(* How the oracle notices an adapter whose quotes stay old,                *)
(* oracle/src/adapters: the observations the StalenessTracker of           *)
(* freshness.ts keeps per adapter, in any order of their times, the report *)
(* it makes of those in its window, and the alert of stalenessRegistry.ts. *)
(***************************************************************************)

CONSTANTS TrackWindow,   \* windowMs of the tracker
          MinNotFresh,   \* minNotFresh; minRatio is one half
          MaxSamples,    \* bound of the samples recorded
          LastTime       \* bound of the clock

VARIABLES samples,   \* observations: of one adapter, in the order they were recorded
          everSeen,  \* history: all of them
          trackTime  \* now
trackVars == <<samples, everSeen, trackTime>>

StatusRank == [fresh |-> 0, untimestamped |-> 1, stale |-> 2, expired |-> 3]
Statuses == DOMAIN StatusRank

TrackInit == samples = <<>> /\ everSeen = <<>> /\ trackTime = 0

\* record: an observation of now, or of a backlog that is replayed.
Record(status, at) ==
    /\ Len(everSeen) < MaxSamples /\ at <= trackTime
    /\ samples' = Append(samples, [at |-> at, status |-> status])
    /\ everSeen' = Append(everSeen, [at |-> at, status |-> status])
    /\ UNCHANGED trackTime

InWindow(list, now) == SelectSeq(list, LAMBDA o : o.at >= now - TrackWindow)
NotFresh(list) == SelectSeq(list, LAMBDA o : o.status # "fresh")
Times(list) == {list[i].at : i \in DOMAIN list}

\* A slip: the run starts at the first not-fresh sample that was recorded.
NotFreshFor_AsRecorded(list, now) ==
    IF NotFresh(list) = <<>> THEN 0 ELSE now - NotFresh(list)[1].at

\* consecutiveNotFreshMs: since the first not-fresh sample with no fresh one
\* after it, by time.
NotFreshFor(list, now) ==
    LET fresh == {list[i].at : i \in {j \in DOMAIN list : list[j].status = "fresh"}}
        run == {t \in Times(NotFresh(list)) : \A f \in fresh : t > f}
    IN IF run = {} THEN 0 ELSE now - Min(run)

\* evaluate: a report when enough of the window, and half of it, is not fresh.
Report(list, now) ==
    LET window == InWindow(list, now)
        bad == NotFresh(window)
    IN IF Len(bad) < MinNotFresh \/ 2 * Len(bad) < Len(window) THEN <<>>
       ELSE <<[total |-> Len(window), notFresh |-> Len(bad),
               worst |-> Max({StatusRank[window[i].status] : i \in DOMAIN window}),
               since |-> NotFreshFor(window, now)]>>

\* staleDataAlerts, alertStatus: what the alert of a report says.
Alert(report) == [status |-> IF report.worst >= StatusRank["stale"] THEN report.worst ELSE 1,
                  since |-> report.since, all |-> report.notFresh = report.total]

\* A slip: what is as old as the window is dropped.
Evaluate_DropEdge ==
    /\ samples' = SelectSeq(samples, LAMBDA o : o.at > trackTime - TrackWindow)
    /\ UNCHANGED <<everSeen, trackTime>>

\* evaluate: it reports on the window, and keeps a window more than that.
Evaluate ==
    /\ samples' = SelectSeq(samples, LAMBDA o : o.at >= trackTime - 2 * TrackWindow)
    /\ UNCHANGED <<everSeen, trackTime>>

TrackTick == /\ trackTime < LastTime /\ trackTime' = trackTime + 1
             /\ UNCHANGED <<samples, everSeen>>

TrackNext == \/ Evaluate \/ TrackTick
             \/ \E status \in Statuses, at \in 0..LastTime : Record(status, at)

-----------------------------------------------------------------------------
\* What is dropped never matters: at any later time the report is that of all
\* observations ever made.
PruningLosesNothing == \A t \in trackTime..LastTime : Report(samples, t) = Report(everSeen, t)

\* The report does not depend on the order the observations came in: a replayed
\* backlog reads as the live poll of the same data.
OrderIsIrrelevant == Report(Reverse(samples), trackTime) = Report(samples, trackTime)

\* An alert that says how long an adapter has not been fresh is right: no fresh
\* quote was observed since, and a report that says all are not fresh has none.
AlertTellsTheRun ==
    \A r \in Range(Report(samples, trackTime)), i \in DOMAIN everSeen :
       (everSeen[i].status = "fresh" /\ everSeen[i].at >= trackTime - TrackWindow) =>
           ~Alert(r).all /\ (everSeen[i].at < trackTime - Alert(r).since \/ Alert(r).since = 0)
=============================================================================
