--------------------------- MODULE CouncilRecords ---------------------------
(***************************************************************************)
(* The council audit export, council-audit.ts: iterateCouncilAudit reads   *)
(* the finalized markets a page at a time, then the council votes of the   *)
(* page, then its raw payloads, and yields one record per market.  The     *)
(* three reads are separate statements, and markets are finalized, and     *)
(* council members vote, while the export runs.                            *)
(***************************************************************************)
EXTENDS Naturals, Sequences, FiniteSets, SequencesExt, Integers, FiniteSetsExt, Functions

CONSTANTS AuditMarkets,   \* market ids
          AuditPageSize,  \* AUDIT_PAGE_SIZE
          LateVotes       \* bound: votes cast while the model runs

VARIABLES finalizedIds,  \* oracle_submissions rows with status 'finalized'
          ballots,       \* council_votes: [market -> number of votes recorded]
          exporter,      \* iterateCouncilAudit: its local variables
          exported,      \* the records yielded, in order
          knownAtStart   \* history: what was finalized when the export started

auditVars == <<finalizedIds, ballots, exporter, exported, knownAtStart>>

AuditIdle == [at |-> "idle", after |-> 0, rows |-> <<>>, tallies |-> <<>>]

AuditInit ==
    /\ finalizedIds = {}
    /\ ballots = [m \in AuditMarkets |-> 0]
    /\ exporter = AuditIdle
    /\ exported = <<>>
    /\ knownAtStart = {}

FinalizeInDb(m) ==
    /\ m \notin finalizedIds
    /\ finalizedIds' = finalizedIds \cup {m}
    /\ UNCHANGED <<ballots, exporter, exported, knownAtStart>>

\* The vote store accepts a member's vote at any time, also after the market
\* was finalized.
CastBallot(m) ==
    /\ ballots[m] < LateVotes
    /\ ballots' = [ballots EXCEPT ![m] = @ + 1]
    /\ UNCHANGED <<finalizedIds, exporter, exported, knownAtStart>>

\* ids of at most two digits as texts
TextBefore(a, b) ==
    LET digits(n) == IF n < 10 THEN <<n>> ELSE <<n \div 10, n % 10>>
        x == digits(a) y == digits(b)
    IN \/ x[1] < y[1]
       \/ x[1] = y[1] /\ Len(x) < Len(y)
       \/ x[1] = y[1] /\ Len(x) = 2 /\ Len(y) = 2 /\ x[2] < y[2]

\* A slip: the page is the most recent ids.
PageAfter_Latest(ids, after) ==
    LET sorted == SetToSortSeq({m \in ids : m > after}, LAMBDA a, b : a > b)
    IN SubSeq(sorted, 1, IF Len(sorted) < AuditPageSize THEN Len(sorted) ELSE AuditPageSize)

\* The finalized markets of a page: the order is that of the output column
\* market_id, a text; the keyset compares the column of the table, a number.
PageAfter(ids, after) ==
    LET sorted == SetToSortSeq({m \in ids : m > after}, TextBefore)
    IN SubSeq(sorted, 1, IF Len(sorted) < AuditPageSize THEN Len(sorted) ELSE AuditPageSize)

StartExport ==
    /\ exporter.at = "idle"
    /\ exporter' = [exporter EXCEPT !.at = "markets"]
    /\ knownAtStart' = finalizedIds
    /\ UNCHANGED <<finalizedIds, ballots, exported>>

ReadMarketsPage ==
    /\ exporter.at = "markets"
    /\ LET rows == PageAfter(finalizedIds, exporter.after)
       IN exporter' = [exporter EXCEPT !.at = IF rows = <<>> THEN "done" ELSE "votes",
                                       !.rows = rows]
    /\ UNCHANGED <<finalizedIds, ballots, exported, knownAtStart>>

\* A slip: every market of the page gets the votes of its first.
ReadVotes_Shifted ==
    /\ exporter.at = "votes"
    /\ exporter' = [exporter EXCEPT !.at = "payloads",
                      !.tallies = [i \in DOMAIN exporter.rows |-> <<exporter.rows[i], ballots[exporter.rows[1]]>>]]
    /\ UNCHANGED <<finalizedIds, ballots, exported, knownAtStart>>

\* The votes of exactly the markets of the page.
ReadVotes ==
    /\ exporter.at = "votes"
    /\ exporter' = [exporter EXCEPT !.at = "payloads",
                      !.tallies = [i \in DOMAIN exporter.rows |-> <<exporter.rows[i], ballots[exporter.rows[i]]>>]]
    /\ UNCHANGED <<finalizedIds, ballots, exported, knownAtStart>>

\* A slip: the next page starts at the last market of this one.
YieldPage_Inclusive ==
    /\ exporter.at = "payloads"
    /\ exported' = exported \o exporter.tallies
    /\ exporter' = IF Len(exporter.rows) < AuditPageSize
                   THEN [exporter EXCEPT !.at = "done"]
                   ELSE [exporter EXCEPT !.at = "markets", !.after = Last(exporter.rows) - 1]
    /\ UNCHANGED <<finalizedIds, ballots, knownAtStart>>

\* The payloads of the page are read and its records yielded; a short page is
\* the last one.
YieldPage ==
    /\ exporter.at = "payloads"
    /\ exported' = exported \o exporter.tallies
    /\ exporter' = IF Len(exporter.rows) < AuditPageSize
                   THEN [exporter EXCEPT !.at = "done"]
                   ELSE [exporter EXCEPT !.at = "markets", !.after = Last(exporter.rows)]
    /\ UNCHANGED <<finalizedIds, ballots, knownAtStart>>

AuditNext ==
    \/ \E m \in AuditMarkets : FinalizeInDb(m) \/ CastBallot(m)
    \/ StartExport \/ ReadMarketsPage \/ ReadVotes \/ YieldPage

-----------------------------------------------------------------------------
\* A market whose id comes at the same place in the order of the texts and of
\* the numbers, whatever other market is finalized.
InTextOrder(m) == \A other \in finalizedIds \ {m} : TextBefore(m, other) <=> m < other

\* A finished export holds every such market that was finalized when it started,
\* whatever was finalized meanwhile.  (Of others it may miss some, and yield some
\* twice: a page is cut in the order of the texts, the next one starts after its
\* last id as a number.  After 10, 11 there is no 9; after 10, 9 there is 10.)
ExportIsComplete ==
    exporter.at = "done" =>
        \A m \in knownAtStart : InTextOrder(m) => \E i \in DOMAIN exported : exported[i][1] = m

\* Such a market is exported once, after all smaller ids and before all larger.
ExportIsOrdered ==
    \A i, j \in DOMAIN exported :
        (i < j /\ (InTextOrder(exported[i][1]) \/ InTextOrder(exported[j][1])))
            => exported[i][1] < exported[j][1]

\* A record never shows more votes than were cast for that market.
ExportedVotesAreItsOwn ==
    \A i \in DOMAIN exported : exported[i][2] <= ballots[exported[i][1]]

-----------------------------------------------------------------------------
(***************************************************************************)
(* The pure decisions of the oracle aggregator around the council: the     *)
(* tally and what is read from it (the finalizer's outcome, the validator, *)
(* the conflict report, the member's dry run, the replay of an audit       *)
(* record), the council's configuration, the resolvers of a category, the  *)
(* bond reconciliation, and the size bound of stored evidence.             *)
(*                                                                         *)
(* question is one input of one of these functions; the properties compare *)
(* what two parts of the code say of the same input.                       *)
(***************************************************************************)

CONSTANTS Members,       \* council members
          Outsider,      \* a resolver that is no member
          MaxVotes,      \* bound: votes in a ballot list
          PayloadLimit   \* MAX_RAW_PAYLOAD_BYTES, in units

VARIABLE question

None == "none"
SeqsUpTo(S, n) == UNION {[1..k -> S] : k \in 0..n}

-----------------------------------------------------------------------------
\* Votes.  A blank member is dropped, a member's last vote is the one counted.

Votes == [member : Members \cup {""}, outcome : BOOLEAN]

LastWord(votes) ==
    [m \in {votes[i].member : i \in DOMAIN votes} \ {""} |->
        votes[Max({i \in DOMAIN votes : votes[i].member = m})].outcome]

TallyOf(word) == [yes |-> Cardinality({m \in DOMAIN word : word[m]}),
                  no |-> Cardinality({m \in DOMAIN word : ~word[m]})]

ComputeTally(votes) == TallyOf(LastWord(votes))

\* selectThresholdOutcome: the side that reached the threshold, if one did.
SelectThresholdOutcome(votes, threshold) ==
    LET t == ComputeTally(votes) IN
    IF t.yes >= threshold /\ t.no < threshold THEN "yes"
    ELSE IF t.no >= threshold /\ t.yes < threshold THEN "no" ELSE None

\* createDefault/Balanced/StrictValidationConfig: the votes a tally needs.
DefaultMinimum(threshold) == 1
BalancedMinimum(threshold) == threshold
StrictMinimum(size) == size

\* validateSubmissionData: enough votes, and exactly one side at the threshold.
ValidateSubmission_AnySide(t, minimum, threshold) ==
    t.yes + t.no >= minimum /\ (t.yes >= threshold \/ t.no >= threshold \/ minimum = 1)
ValidateSubmission(t, minimum, threshold) ==
    /\ t.yes + t.no >= minimum
    /\ (t.yes >= threshold) # (t.no >= threshold)

\* detectConflict: the minority's share reaches the threshold, in percent.
DetectConflict_Majority(votes, percent) ==
    LET t == ComputeTally(votes) IN Max({t.yes, t.no}) * 100 >= percent * (t.yes + t.no) /\ t.yes + t.no > 0
DetectConflict(votes, percent) ==
    LET t == ComputeTally(votes)
    IN IF t.yes + t.no = 0 THEN percent = 0
       ELSE Min({t.yes, t.no}) * 100 >= percent * (t.yes + t.no)

\* The submission store keeps one vote per member: an upsert.
UpsertVote(word, member, outcome) ==
    [m \in DOMAIN word \cup {member} |-> IF m = member THEN outcome ELSE word[m]]

\* simulateCouncilVote: the stored votes, then the new one at the end.
SimulateVote_Counted(word, member, outcome) ==
    LET t == TallyOf(word) IN IF outcome THEN [t EXCEPT !.yes = @ + 1] ELSE [t EXCEPT !.no = @ + 1]
SimulateVote(word, member, outcome) ==
    LET stored == SetToSeq({[member |-> m, outcome |-> word[m]] : m \in DOMAIN word})
    IN ComputeTally(Append(stored, [member |-> member, outcome |-> outcome]))

\* replayAuditRecord: the decision an auditor derives from a record's tally.
ReplayDecision_Loose(t, threshold) ==
    IF t.yes >= threshold THEN "yes" ELSE IF t.no >= threshold - 1 THEN "no" ELSE None
ReplayDecision(t, threshold) ==
    IF t.yes >= threshold /\ t.yes > t.no THEN "yes"
    ELSE IF t.no >= threshold /\ t.no > t.yes THEN "no" ELSE None

-----------------------------------------------------------------------------
\* Sources of an adapter resolution, their confidence in percent.

Sources == [outcome : BOOLEAN, confidence : {0, 50, 100}, failed : BOOLEAN]

WeightOf(sources, side) ==
    FoldFunctionOnSet(LAMBDA s, sum : s.confidence + sum, 0, sources,
                      {i \in DOMAIN sources : ~sources[i].failed /\ sources[i].outcome = side})
CountOf(sources, side) == Cardinality({i \in DOMAIN sources : ~sources[i].failed /\ sources[i].outcome = side})

\* detectAdapterConflict: both sides present, and the lighter one heavy enough
\* or the counts equal.
AdapterConflict_YesMinority(sources, percent) ==
    LET yes == WeightOf(sources, TRUE) no == WeightOf(sources, FALSE)
    IN /\ CountOf(sources, TRUE) > 0 /\ CountOf(sources, FALSE) > 0
       /\ yes * 100 >= percent * (yes + no)
AdapterConflict(sources, percent) ==
    LET yes == WeightOf(sources, TRUE) no == WeightOf(sources, FALSE)
        ratioReached == IF yes + no = 0 THEN percent = 0 ELSE Min({yes, no}) * 100 >= percent * (yes + no)
    IN /\ CountOf(sources, TRUE) > 0 /\ CountOf(sources, FALSE) > 0
       /\ ratioReached \/ CountOf(sources, TRUE) = CountOf(sources, FALSE)

-----------------------------------------------------------------------------
\* Configuration.

\* loadCouncilConfig / the aggregator's schema: the size is exact, the keys
\* distinct, the threshold a strict majority, the quorum between the two.
AcceptsCouncil_Half(keys, threshold, quorum) ==
    /\ Len(keys) = Cardinality(Members) /\ IsInjective(keys)
    /\ 2 * threshold >= Cardinality(Members) /\ threshold <= Cardinality(Members)
    /\ quorum >= threshold /\ quorum <= Cardinality(Members)
AcceptsCouncil(keys, threshold, quorum) ==
    /\ Len(keys) = Cardinality(Members) /\ IsInjective(keys)
    /\ 2 * threshold > Cardinality(Members) /\ threshold <= Cardinality(Members)
    /\ quorum >= threshold /\ quorum <= Cardinality(Members)

HasQuorum(quorum, votes) == votes >= quorum
MeetsThreshold(threshold, votes) == votes >= threshold

\* compareCouncilResolvers: the members the contract misses, and its others.
CompareResolvers_OneWay(keys, onChain) ==
    [missing |-> Range(keys) \ onChain, unconfigured |-> {}]
CompareResolvers(keys, onChain) ==
    [missing |-> Range(keys) \ onChain, unconfigured |-> onChain \ Range(keys)]

\* getResolversForCategory: an override with at least one key, or the default.
ResolversFor_EmptyOverride(defaults, overrides) == IF overrides = {} THEN defaults ELSE UNION overrides
ResolversFor(defaults, overrides) == IF UNION overrides = {} THEN defaults ELSE UNION overrides

-----------------------------------------------------------------------------
\* Bonds and evidence.

\* reconcileBonds: the lookup of settlements is by market.
ReconcileBonds_AnySettlement(terminal, settlements) == IF settlements = {} THEN terminal ELSE {}
ReconcileBonds(terminal, settlements) ==
    {t \in terminal : \A s \in settlements : s.market # t.market}

\* recordSettlement: ON CONFLICT (market_id, recipient) DO NOTHING.
RecordSettlement(settlements, market, recipient) ==
    settlements \cup {[market |-> market, recipient |-> recipient]}

\* boundRawPayload: a payload over the limit is replaced by a short marker.
BoundPayload_Clips(size) == [stored |-> Min({size, PayloadLimit}), bytes |-> size, truncated |-> FALSE]
BoundPayload(size) ==
    IF size <= PayloadLimit THEN [stored |-> size, bytes |-> size, truncated |-> FALSE]
                            ELSE [stored |-> 1, bytes |-> size, truncated |-> TRUE]

\* persistRawPayloads: one row per source that answered and can be attributed.
PersistedPayloads(sources) ==
    {[provider |-> s.provider, payload |-> BoundPayload(s.size)] :
        s \in {x \in sources : ~x.failed /\ x.provider # ""}}

-----------------------------------------------------------------------------
ToolQuestions ==
         [about : {"votes"}, votes : SeqsUpTo(Votes, MaxVotes), threshold : 2..3, percent : {30, 50}]
    \cup [about : {"dryRun"}, word : UNION {[D -> BOOLEAN] : D \in SUBSET Members},
          member : Members, outcome : BOOLEAN]
    \cup [about : {"sources"}, sources : SeqsUpTo(Sources, 2), percent : {30, 50}]
    \cup [about : {"council"}, keys : SeqsUpTo(Members, Cardinality(Members)), threshold : 0..4, quorum : 1..4]
    \cup [about : {"resolvers"}, keys : SeqsUpTo(Members, 2), onChain : SUBSET (Members \cup {Outsider})]
    \cup [about : {"category"}, defaults : (SUBSET Members) \ {{}},
          overrides : {{}, {{}}, {{Outsider}}}]
    \cup [about : {"bonds"}, terminal : SUBSET [market : 1..2, recipient : {"submitter"}],
          settlements : SUBSET [market : 1..2, recipient : {"submitter", "challenger"}]]
    \cup [about : {"payload"}, failed : BOOLEAN, provider : {"", "binance"}, size : 0 .. PayloadLimit + 2]

ToolInit == question = [about |-> "nothing"]
AskTool == question.about = "nothing" /\ question' \in ToolQuestions
ToolNext == AskTool

Majority(threshold) == 2 * threshold > Cardinality(Members)

-----------------------------------------------------------------------------
\* Whatever votes are on record, an auditor who replays the record under a
\* majority threshold derives the decision the finalizer took.
ReplayAgreesWithFinalizer ==
    (question.about = "votes" /\ Majority(question.threshold)) =>
        ReplayDecision(ComputeTally(question.votes), question.threshold)
            = SelectThresholdOutcome(question.votes, question.threshold)

\* The validator lets a tally through exactly when the finalizer finds an
\* outcome in it, under the default and the balanced minimum alike.
ValidatedHasOutcome ==
    question.about = "votes" =>
        LET t == ComputeTally(question.votes) th == question.threshold
            found == SelectThresholdOutcome(question.votes, th) # None
        IN /\ ValidateSubmission(t, DefaultMinimum(th), th) = found
           /\ ValidateSubmission(t, BalancedMinimum(th), th) = found
           /\ ValidateSubmission(t, StrictMinimum(Cardinality(Members)), th) =>
                 found /\ t.yes + t.no = Cardinality(Members)

\* A conflict report means both sides have a vote, and a unanimous council is
\* never reported (the thresholds a deployment uses are above zero).
ConflictHasTwoSides ==
    (question.about = "votes" /\ DetectConflict(question.votes, question.percent)) =>
        LET t == ComputeTally(question.votes) IN t.yes > 0 /\ t.no > 0

\* What the dry run shows a member is what the store holds after the vote,
\* also when the member changes an earlier vote.
DryRunTellsTheTruth ==
    question.about = "dryRun" =>
        SimulateVote(question.word, question.member, question.outcome)
            = TallyOf(UpsertVote(question.word, question.member, question.outcome))

\* A conflict of sources does not depend on which outcome is called yes.
SourceConflictIsSymmetric ==
    question.about = "sources" =>
        AdapterConflict(question.sources, question.percent)
            = AdapterConflict([i \in DOMAIN question.sources |->
                                 [question.sources[i] EXCEPT !.outcome = ~@]], question.percent)

\* No vote of a council the configuration accepts can put both outcomes at the
\* threshold, and a quorum of it can always decide.
AcceptedCouncilCannotSplit ==
    (question.about = "council" /\ AcceptsCouncil(question.keys, question.threshold, question.quorum)) =>
        /\ \A yes, no \in 0 .. Len(question.keys) :
              yes + no <= Len(question.keys) =>
                  ~(MeetsThreshold(question.threshold, yes) /\ MeetsThreshold(question.threshold, no))
        /\ HasQuorum(question.quorum, Len(question.keys))

\* Readiness sees no divergence only when the contract's resolvers are the
\* configured members.
NoDivergenceMeansEqual ==
    question.about = "resolvers" =>
        LET d == CompareResolvers(question.keys, question.onChain)
        IN (d.missing = {} /\ d.unconfigured = {}) <=> Range(question.keys) = question.onChain

\* Every category has someone who may resolve it.
EveryCategoryHasResolvers ==
    question.about = "category" => ResolversFor(question.defaults, question.overrides) # {}

\* A reconciliation never reports a bond that was returned to its submitter,
\* reports every bond of a market nothing was settled for, and falls silent once
\* the settlement is recorded.
ReconciliationIsExact ==
    question.about = "bonds" =>
        LET found == ReconcileBonds(question.terminal, question.settlements) IN
        /\ found \cap question.settlements = {}
        /\ \A t \in question.terminal :
              /\ (~\E s \in question.settlements : s.market = t.market) => t \in found
              /\ t \notin ReconcileBonds(question.terminal,
                           RecordSettlement(question.settlements, t.market, t.recipient))

\* Stored evidence is bounded, what was shortened says so, and only an answer
\* with a provider to its name is evidence.
ShortenedEvidenceSaysSo ==
    question.about = "payload" =>
        \A row \in PersistedPayloads({question}) :
            /\ row.payload.stored <= PayloadLimit
            /\ row.payload.truncated <=> row.payload.stored # question.size
            /\ ~question.failed /\ row.provider # ""
=============================================================================
