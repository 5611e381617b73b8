----------------------- MODULE OptimisticOracle_proofs -----------------------
(***************************************************************************)
(* What a dispute can count on, for any number of markets, members and     *)
(* amounts: stakes that stay, votes counted once, a life cycle that        *)
(* implements DisputeLifecycle, and bonds that are all there.              *)
(***************************************************************************)
EXTENDS OptimisticOracle, MarketMoney_proofs, FiniteSetTheorems, TLAPS

\* The invariant the others rest on.  An outcome is only posted for a market
\* that exists and has expired, and stays so although initialize resets the
\* count (VerdictInv); the challenger's fields are those of a challenge; and
\* votes only exist where there was one.
DisputeOK(id) ==
    /\ submission[id].state # "open" => Exists(id) /\ Expired(id)
    /\ submission[id].state \in {"open", "submitted"} =>
          submission[id].challenger = Nobody /\ submission[id].challengerBond = 0
    /\ submission[id].state = "escalated" => submission[id].challenger # Nobody
    /\ IsFiniteSet(Voters(id))
    /\ voteCount[id] = Cardinality(Voters(id))
    /\ voteCount[id] > 0 => submission[id].challenger # Nobody

DisputeInv ==
    /\ VerdictInv
    /\ OracleTypeOK
    /\ \A id \in MarketIds : DisputeOK(id)

-----------------------------------------------------------------------------
(* What a step does to the dispute of one market *)

Submission == [state : {"open", "submitted", "escalated", "finalized"},
               submitter : Address \cup {Nobody}, outcome : BOOLEAN, bond : Nat,
               challengeDeadline : Nat, challenger : Address \cup {Nobody},
               challengerBond : Nat, councilDeadline : Nat]

MarketsKept == market' = market /\ marketCount' = marketCount /\ now' = now /\ mktCfg' = mktCfg
VotesKept   == vote' = vote /\ voteCount' = voteCount

\* Nothing: markets, parameters or the clock move.
NoDispute ==
    AnyStep /\ params' \in OracleParams /\ submission' = submission /\ VotesKept

PostStep(id) ==
    /\ MarketsKept /\ VotesKept /\ params' = params
    /\ Exists(id) /\ Expired(id) /\ Undecided(id)
    /\ submission[id].state = "open"
    /\ \E s \in Submission :
          /\ submission' = [submission EXCEPT ![id] = s]
          /\ s.state = "submitted" /\ s.bond > 0
          /\ s.challenger = Nobody /\ s.challengerBond = 0

ChallengeStep(id) ==
    /\ MarketsKept /\ VotesKept /\ params' = params
    /\ Undecided(id)
    /\ submission[id].state = "submitted"
    /\ \E s \in Submission :
          /\ submission' = [submission EXCEPT ![id] = s]
          /\ s.state = "escalated" /\ s.bond = submission[id].bond
          /\ s.challenger # Nobody /\ s.challengerBond > s.bond

VoteStep(id) ==
    /\ MarketsKept /\ params' = params /\ submission' = submission
    /\ submission[id].state = "escalated"
    /\ \E m \in Address, v \in {"yes", "no"} :
          vote[id][m] = "none" /\ vote' = [vote EXCEPT ![id][m] = v]
    /\ voteCount' = [voteCount EXCEPT ![id] = @ + 1]

\* A settlement gives the verdict when there is none yet.
RulingOn(id) ==
    \/ ~Undecided(id) /\ MarketsKept
    \/ /\ Undecided(id)
       /\ \E outcome \in BOOLEAN : MarketResolvedTo(id, outcome)
       /\ marketCount' = marketCount /\ now' = now /\ mktCfg' = mktCfg

SettleStep(id) ==
    /\ RulingOn(id) /\ VotesKept /\ params' = params
    /\ InDispute(id)
    /\ submission' = [submission EXCEPT ![id].state = "finalized"]

AnyDisputeStep ==
    \/ NoDispute
    \/ \E id \in MarketIds :
          PostStep(id) \/ ChallengeStep(id) \/ VoteStep(id) \/ SettleStep(id)

-----------------------------------------------------------------------------
(* Every step is one of the five *)

LEMMA SubmissionTypes ==
    ASSUME OracleTypeOK, NEW id \in MarketIds
    PROVE  submission[id] \in Submission
BY DEF OracleTypeOK, Submission

LEMMA PostedSubmission ==
    ASSUME NEW who \in Address, NEW outcome \in BOOLEAN, NEW bond \in Nat, NEW due \in Nat
    PROVE  [NoSubmission EXCEPT !.state = "submitted", !.submitter = who, !.outcome = outcome,
                                !.bond = bond, !.challengeDeadline = due] \in Submission
BY DEF NoSubmission, Submission

LEMMA EscalatedSubmission ==
    ASSUME NEW r \in Submission, NEW who \in Address, NEW bond \in Nat, NEW due \in Nat
    PROVE  [r EXCEPT !.state = "escalated", !.challenger = who, !.challengerBond = bond,
                     !.councilDeadline = due] \in Submission
BY DEF Submission

LEMMA WindowsArePositive ==
    ASSUME OracleTypeOK
    PROVE  /\ params.submitterBond \in Nat \ {0} /\ params.disputerBond \in Nat \ {0}
           /\ params.challengeWindow \in Nat \ {0} /\ params.councilWindow \in Nat \ {0}
BY DEF OracleTypeOK, OracleParams

LEMMA MarketStepIsOneOfThem ==
    ASSUME DisputeInv, MarketStep
    PROVE  NoDispute
<1>1. AnyStep
    <2>1. [MarketNext]_allMarketVars
        BY DEF MarketStep, MarketNext
    <2> QED BY <2>1, StepIsOneOfThem DEF DisputeInv
<1> QED BY <1>1 DEF MarketStep, NoDispute, oracleVars, VotesKept, DisputeInv, OracleTypeOK

LEMMA ParamStepIsOneOfThem ==
    ASSUME DisputeInv, ParamStep
    PROVE  NoDispute
<1>1. params \in OracleParams
    BY DEF DisputeInv, OracleTypeOK
<1>2. ASSUME NEW p \in OracleParams, SetParams(Deployer, p)
      PROVE  NoDispute
    <2>1. AnyStep
        BY <1>2 DEF SetParams, allMarketVars, marketVars, roleVars, bookVars,
                    QuietStep, Kept, AnyStep
    <2> QED BY <1>2, <2>1 DEF SetParams, NoDispute, VotesKept
<1>3. CASE \E b \in BondChoices : SetBondMinimums(Deployer, b[1], b[2])
    <2>1. PICK b \in BondChoices : SetBondMinimums(Deployer, b[1], b[2])
        BY <1>3
    <2>2. b[1] \in Int /\ b[2] \in Int
        BY OracleConstants
    <2>3. b[1] \in Nat \ {0} /\ b[2] \in Nat \ {0}
        BY <2>1, <2>2 DEF SetBondMinimums
    <2>4. [params EXCEPT !.submitterBond = b[1], !.disputerBond = b[2]] \in OracleParams
        BY <1>1, <2>3 DEF OracleParams
    <2> QED BY <1>2, <2>1, <2>4 DEF SetBondMinimums
<1>4. CASE \E w \in WindowChoices :
               SetChallengeWindow(Deployer, w) \/ SetCouncilWindow(Deployer, w)
    <2>1. PICK w \in WindowChoices :
               SetChallengeWindow(Deployer, w) \/ SetCouncilWindow(Deployer, w)
        BY <1>4
    <2>2. w \in Nat \ {0}
        BY <2>1, OracleConstants DEF SetChallengeWindow, SetCouncilWindow
    <2>3. /\ [params EXCEPT !.challengeWindow = w] \in OracleParams
          /\ [params EXCEPT !.councilWindow = w] \in OracleParams
        BY <1>1, <2>2 DEF OracleParams
    <2> QED BY <1>2, <2>1, <2>3 DEF SetChallengeWindow, SetCouncilWindow
<1> QED BY <1>3, <1>4 DEF ParamStep

LEMMA SubmitIsPostStep ==
    ASSUME DisputeInv, NEW id \in MarketIds, NEW submitter \in Submitters,
           NEW outcome \in BOOLEAN, NEW bond \in BondAmounts,
           SubmitOutcome(submitter, id, outcome, bond)
    PROVE  PostStep(id)
<1> DEFINE s == [NoSubmission EXCEPT !.state = "submitted", !.submitter = submitter,
                        !.outcome = outcome, !.bond = bond,
                        !.challengeDeadline = now + params.challengeWindow]
<1>1. /\ submitter \in Address /\ bond \in Nat /\ now \in Nat
      /\ params.challengeWindow \in Nat /\ params.submitterBond \in Nat \ {0}
    BY OracleConstants, WindowsArePositive DEF DisputeInv, VerdictInv
<1>2. bond >= params.submitterBond
    BY DEF SubmitOutcome, MaySubmit
<1>3. s \in Submission
    <2>1. now + params.challengeWindow \in Nat
        BY <1>1
    <2> QED BY <1>1, <2>1, PostedSubmission
<1>4. s.state = "submitted" /\ s.bond > 0 /\ s.challenger = Nobody /\ s.challengerBond = 0
    BY <1>1, <1>2 DEF NoSubmission
<1>5. submission' = [submission EXCEPT ![id] = s]
    BY DEF SubmitOutcome
<1> HIDE DEF s
<1>6. MarketsKept /\ VotesKept /\ params' = params
    BY DEF SubmitOutcome, MarketsKept, VotesKept, marketVars, roleVars, bookVars
<1>7. Exists(id) /\ Expired(id) /\ Undecided(id) /\ submission[id].state = "open"
    BY DEF SubmitOutcome, MaySubmit
<1> QED BY <1>3, <1>4, <1>5, <1>6, <1>7 DEF PostStep

LEMMA ChallengeIsChallengeStep ==
    ASSUME DisputeInv, NEW id \in MarketIds, NEW challenger \in Challengers,
           NEW bond \in BondAmounts, Challenge(challenger, id, bond)
    PROVE  ChallengeStep(id)
<1> DEFINE s == [submission[id] EXCEPT !.state = "escalated", !.challenger = challenger,
                        !.challengerBond = bond,
                        !.councilDeadline = now + params.councilWindow]
<1>1. /\ challenger \in Address /\ Nobody \notin Address /\ bond \in Nat /\ now \in Nat
      /\ params.councilWindow \in Nat
    BY OracleConstants, TokenConstants, WindowsArePositive DEF DisputeInv, VerdictInv
<1>2. submission[id] \in Submission /\ submission \in [MarketIds -> Submission]
    BY SubmissionTypes DEF DisputeInv, OracleTypeOK, Submission
<1>3. s \in Submission
    <2>1. now + params.councilWindow \in Nat
        BY <1>1
    <2> QED BY <1>1, <1>2, <2>1, EscalatedSubmission
<1>4. /\ s.state = "escalated" /\ s.bond = submission[id].bond
      /\ s.challenger # Nobody /\ s.challengerBond > s.bond
    BY <1>1, <1>2 DEF Submission, Challenge, MayChallenge
<1>5. submission' = [submission EXCEPT ![id] = s]
    BY <1>2 DEF Challenge, Escalated
<1> HIDE DEF s
<1>6. MarketsKept /\ VotesKept /\ params' = params
    BY DEF Challenge, MarketsKept, VotesKept, marketVars, roleVars, bookVars
<1>7. Undecided(id) /\ submission[id].state = "submitted"
    BY DEF Challenge, MayChallenge
<1> QED BY <1>3, <1>4, <1>5, <1>6, <1>7 DEF ChallengeStep

LEMMA VoteIsVoteStep ==
    ASSUME DisputeInv, NEW id \in MarketIds, NEW member \in Council,
           NEW outcome \in BOOLEAN, VoteOnChallenge(member, id, outcome)
    PROVE  VoteStep(id)
<1>1. member \in Address
    BY MarketConstants, LeaderboardConstants DEF Council
<1>2. MarketsKept
    BY DEF VoteOnChallenge, allMarketVars, marketVars, roleVars, bookVars, MarketsKept
<1> QED BY <1>1, <1>2 DEF VoteOnChallenge, MayVote, VoteStep

\* The three settlements, which differ in what they pay.
LEMMA SettlementIsSettleStep ==
    ASSUME DisputeInv, NEW id \in MarketIds, NEW outcome \in BOOLEAN, NEW credit,
           InDispute(id), VerdictApplied(id, outcome, credit), Settled(id),
           UNCHANGED <<params, vote, voteCount, now, roleVars, marketCount>>
    PROVE  SettleStep(id)
<1>1. RulingOn(id)
    BY DEF VerdictApplied, RulingOn, MarketsKept, roleVars
<1> QED BY <1>1 DEF SettleStep, Settled, VotesKept

LEMMA DisputeStepIsOneOfThem ==
    ASSUME DisputeInv, NEW id \in MarketIds, DisputeStep(id)
    PROVE  AnyDisputeStep
<1>1. CASE \E s \in Submitters, o \in BOOLEAN, b \in BondAmounts : SubmitOutcome(s, id, o, b)
    BY <1>1, SubmitIsPostStep DEF AnyDisputeStep
<1>2. CASE \E c \in Challengers, b \in BondAmounts : Challenge(c, id, b)
    BY <1>2, ChallengeIsChallengeStep DEF AnyDisputeStep
<1>3. CASE \E m \in Council, o \in BOOLEAN : VoteOnChallenge(m, id, o)
    BY <1>3, VoteIsVoteStep DEF AnyDisputeStep
<1>4. CASE \E m \in Council, o \in BOOLEAN : ResolveChallenge(m, id, o)
    <2>1. PICK m \in Council, o \in BOOLEAN : ResolveChallenge(m, id, o)
        BY <1>4
    <2>2. SettleStep(id)
        BY <2>1, SettlementIsSettleStep DEF ResolveChallenge, InDispute
    <2> QED BY <2>2 DEF AnyDisputeStep
<1>5. submission[id].outcome \in BOOLEAN
    BY SubmissionTypes DEF DisputeInv, Submission
<1>6. CASE FinalizeOutcome(id)
    <2>1. SettleStep(id)
        BY <1>5, <1>6, SettlementIsSettleStep DEF FinalizeOutcome, Unchallenged, InDispute
    <2> QED BY <2>1 DEF AnyDisputeStep
<1>7. CASE FinalizeChallengeTimeout(id)
    <2>1. SettleStep(id)
        BY <1>5, <1>7, SettlementIsSettleStep DEF FinalizeChallengeTimeout, CouncilTimedOut,
                                                 InDispute
    <2> QED BY <2>1 DEF AnyDisputeStep
<1>8. CASE CancelUnsubmittedMarket(id)
    <2>1. /\ Exists(id) /\ Undecided(id)
          /\ market' = [market EXCEPT ![id].cancelled = TRUE]
          /\ marketCount' = marketCount /\ now' = now /\ mktCfg' = mktCfg
        BY <1>8 DEF CancelUnsubmittedMarket, MarketCancelledNow, MayCancel, roleVars
    <2>2. AnyStep
        BY <2>1, DecisionIsMarketStep DEF DisputeInv, AnyStep
    <2>3. params' = params /\ submission' = submission /\ VotesKept
        BY <1>8 DEF CancelUnsubmittedMarket, oracleVars, VotesKept
    <2> QED BY <2>2, <2>3 DEF NoDispute, AnyDisputeStep, DisputeInv, OracleTypeOK
<1> QED BY <1>1, <1>2, <1>3, <1>4, <1>6, <1>7, <1>8 DEF DisputeStep

LEMMA OracleStepIsOneOfThem ==
    ASSUME DisputeInv, [OracleNext]_systemVars
    PROVE  AnyDisputeStep
<1>1. CASE MarketStep
    BY <1>1, MarketStepIsOneOfThem DEF AnyDisputeStep
<1>2. CASE ParamStep
    BY <1>2, ParamStepIsOneOfThem DEF AnyDisputeStep
<1>3. CASE \E id \in MarketIds : DisputeStep(id)
    BY <1>3, DisputeStepIsOneOfThem
<1>4. CASE UNCHANGED systemVars
    <2>1. AnyStep
        BY <1>4 DEF systemVars, allMarketVars, marketVars, roleVars, bookVars,
                    QuietStep, Kept, AnyStep
    <2> QED BY <1>4, <2>1 DEF systemVars, oracleVars, NoDispute, VotesKept, AnyDisputeStep,
                              DisputeInv, OracleTypeOK
<1> QED BY <1>1, <1>2, <1>3, <1>4 DEF OracleNext

-----------------------------------------------------------------------------
(* The invariant *)

LEMMA DisputeInvInit ==
    ASSUME SystemInit
    PROVE  DisputeInv
<1>1. VerdictInv
    BY VerdictInvInit DEF SystemInit
<1>2. /\ params = DefaultParams
      /\ submission = [id \in MarketIds |-> NoSubmission]
      /\ vote = [id \in MarketIds |-> [m \in Address |-> "none"]]
      /\ voteCount = [id \in MarketIds |-> 0]
    BY DEF SystemInit, OracleInit
<1>3. NoSubmission \in Submission
    BY DEF NoSubmission, Submission
<1>4. OracleTypeOK
    BY <1>2, <1>3, OracleConstants DEF OracleTypeOK, Submission
<1>5. ASSUME NEW id \in MarketIds
      PROVE  DisputeOK(id)
    <2>1. Voters(id) = {} /\ voteCount[id] = 0 /\ submission[id] = NoSubmission
        BY <1>2 DEF Voters
    <2> QED BY <2>1, FS_EmptySet DEF DisputeOK, NoSubmission
<1> QED BY <1>1, <1>4, <1>5 DEF DisputeInv

\* Whatever happens to the dispute, the markets take one of their own steps.
LEMMA DisputeStepIsAnyStep ==
    ASSUME DisputeInv, AnyDisputeStep
    PROVE  AnyStep
<1>1. ASSUME MarketsKept
      PROVE  AnyStep
    BY <1>1 DEF MarketsKept, AnyStep, QuietStep, Kept
<1>2. ASSUME NEW id \in MarketIds, SettleStep(id), Undecided(id)
      PROVE  AnyStep
    <2>1. Exists(id)
        BY <1>2 DEF SettleStep, InDispute, DisputeInv, DisputeOK
    <2>2. PICK outcome \in BOOLEAN : MarketResolvedTo(id, outcome)
        BY <1>2 DEF SettleStep, RulingOn
    <2>3. marketCount' = marketCount /\ now' = now /\ mktCfg' = mktCfg
        BY <1>2 DEF SettleStep, RulingOn
    <2>4. MarketStepOf(id)
        BY <1>2, <2>1, <2>2, <2>3, DecisionIsMarketStep DEF DisputeInv
    <2> QED BY <2>4 DEF AnyStep
<1>3. ASSUME NEW id \in MarketIds, SettleStep(id), ~Undecided(id)
      PROVE  AnyStep
    BY <1>1, <1>3 DEF SettleStep, RulingOn
<1> QED BY <1>1, <1>2, <1>3 DEF AnyDisputeStep, NoDispute, PostStep, ChallengeStep, VoteStep

\* An expired market stays, and only its verdict can still change.
LEMMA OnceExpired ==
    ASSUME VerdictInv, AnyStep, NEW id \in MarketIds, Exists(id), Expired(id)
    PROVE  /\ Exists(id)' /\ Expired(id)'
           /\ market'[id].endTime = market[id].endTime
           /\ SameTotals(market'[id], market[id])
<1>1. /\ now \in Nat /\ MaxMarkets \in Nat /\ marketCount \in 0 .. MaxMarkets
      /\ market \in [MarketIds -> MarketRecord]
      /\ id \in Nat /\ id <= marketCount /\ market[id].endTime \in Nat
    <2>1. /\ now \in Nat /\ marketCount \in 0 .. MaxMarkets
          /\ market \in [MarketIds -> MarketRecord]
        BY DEF VerdictInv
    <2>2. MaxMarkets \in Nat
        BY MarketConstants
    <2>3. id \in Nat /\ id <= marketCount
        BY <2>1, <2>2 DEF Exists
    <2>4. market[id].endTime \in Nat
        BY <2>1 DEF MarketRecord
    <2> QED BY <2>1, <2>2, <2>3, <2>4
<1>2. CASE QuietStep
    BY <1>1, <1>2 DEF QuietStep, Kept, Exists, Expired, SameTotals
<1>3. CASE InitializeStep
    BY <1>1, <1>3 DEF InitializeStep, VerdictInv, Exists
<1>4. CASE CreateStep
    <2>1. market'[id] = market[id]
        BY <1>1, <1>4 DEF CreateStep
    <2> QED BY <1>1, <1>4, <2>1 DEF CreateStep, Exists, Expired, SameTotals
<1>5. CASE \E other \in MarketIds : MarketStepOf(other)
    <2>1. PICK other \in MarketIds : MarketStepOf(other)
        BY <1>5
    <2>2. PICK m \in MarketRecord :
              /\ market' = [market EXCEPT ![other] = m]
              /\ m.endTime = market[other].endTime
              /\ SameTotals(m, market[other]) \/ (SameVerdict(m, market[other]) /\ ~Expired(other))
        BY <2>1 DEF MarketStepOf
    <2>3. marketCount' = marketCount /\ now' = now
        BY <2>1 DEF MarketStepOf
    <2>4. market'[id] = IF id = other THEN m ELSE market[id]
        BY <1>1, <2>2
    <2> QED BY <1>1, <2>2, <2>3, <2>4 DEF Exists, Expired, SameTotals
<1> QED BY <1>2, <1>3, <1>4, <1>5 DEF AnyStep

\* A dispute that a step leaves alone stays in order.
LEMMA UntouchedDispute ==
    ASSUME DisputeInv, AnyStep, NEW id \in MarketIds,
           submission'[id] = submission[id], vote'[id] = vote[id], voteCount'[id] = voteCount[id]
    PROVE  DisputeOK(id)'
<1>1. DisputeOK(id) /\ VerdictInv
    BY DEF DisputeInv
<1>2. Voters(id)' = Voters(id)
    BY DEF Voters
<1>3. submission[id].state # "open" => Exists(id)' /\ Expired(id)'
    BY <1>1, OnceExpired DEF DisputeOK
<1> QED BY <1>1, <1>2, <1>3 DEF DisputeOK

\* A vote adds one member to the voters.
LEMMA VoteIsCounted ==
    ASSUME DisputeInv, AnyStep, NEW id \in MarketIds, VoteStep(id)
    PROVE  DisputeOK(id)' /\ OracleTypeOK'
<1>1. DisputeOK(id) /\ VerdictInv /\ OracleTypeOK
    BY DEF DisputeInv
<1>2. PICK m \in Address, v \in {"yes", "no"} :
          vote[id][m] = "none" /\ vote' = [vote EXCEPT ![id][m] = v]
    BY DEF VoteStep
<1>3. /\ voteCount' = [voteCount EXCEPT ![id] = @ + 1]
      /\ submission' = submission /\ params' = params
      /\ submission[id].state = "escalated"
    BY DEF VoteStep
<1>4. vote \in [MarketIds -> [Address -> {"none", "yes", "no"}]]
    BY <1>1 DEF OracleTypeOK
<1>5. Voters(id)' = Voters(id) \cup {m}
    BY <1>2, <1>4 DEF Voters
<1>6. m \notin Voters(id)
    BY <1>2 DEF Voters
<1>7. IsFiniteSet(Voters(id)') /\ Cardinality(Voters(id)') = Cardinality(Voters(id)) + 1
    BY <1>1, <1>5, <1>6, FS_AddElement DEF DisputeOK
<1>8. voteCount'[id] = voteCount[id] + 1
    BY <1>1, <1>3 DEF OracleTypeOK
<1>9. Exists(id)' /\ Expired(id)'
    BY <1>1, <1>3, OnceExpired DEF DisputeOK
<1>10. DisputeOK(id)'
    BY <1>1, <1>3, <1>7, <1>8, <1>9 DEF DisputeOK
<1>11. vote' \in [MarketIds -> [Address -> {"none", "yes", "no"}]]
    BY <1>2, <1>4
<1>12. voteCount' \in [MarketIds -> Nat]
    BY <1>1, <1>3 DEF OracleTypeOK
<1> QED BY <1>1, <1>3, <1>10, <1>11, <1>12 DEF OracleTypeOK

LEMMA StepKeepsDisputes ==
    ASSUME DisputeInv, AnyDisputeStep
    PROVE  DisputeInv'
<1>1. AnyStep
    BY DisputeStepIsAnyStep
<1>2. VerdictInv'
    BY <1>1, StepKeepsVerdicts DEF DisputeInv
<1>3. /\ OracleTypeOK
      /\ submission \in [MarketIds -> Submission]
      /\ vote \in [MarketIds -> [Address -> {"none", "yes", "no"}]]
      /\ voteCount \in [MarketIds -> Nat]
    BY DEF DisputeInv, OracleTypeOK, Submission
<1>4. CASE NoDispute
    <2>1. \A id \in MarketIds : DisputeOK(id)'
        BY <1>1, <1>4, UntouchedDispute DEF NoDispute, VotesKept
    <2>2. OracleTypeOK'
        BY <1>3, <1>4 DEF NoDispute, VotesKept, OracleTypeOK
    <2> QED BY <1>2, <2>1, <2>2 DEF DisputeInv
<1>5. ASSUME NEW id \in MarketIds, VotesKept, params' = params,
             NEW s \in Submission, submission' = [submission EXCEPT ![id] = s],
             DisputeOK(id)'
      PROVE  DisputeInv'
    <2>1. ASSUME NEW other \in MarketIds, other # id
          PROVE  DisputeOK(other)'
        <3>1. submission'[other] = submission[other]
            BY <1>3, <1>5, <2>1
        <3> QED BY <1>1, <1>5, <3>1, UntouchedDispute DEF VotesKept
    <2>2. submission' \in [MarketIds -> Submission]
        BY <1>3, <1>5
    <2>3. OracleTypeOK'
        BY <1>3, <1>5, <2>2 DEF VotesKept, OracleTypeOK, Submission
    <2> QED BY <1>2, <1>5, <2>1, <2>3 DEF DisputeInv
<1>6. ASSUME NEW id \in MarketIds, PostStep(id)
      PROVE  DisputeInv'
    <2>1. PICK s \in Submission :
              /\ submission' = [submission EXCEPT ![id] = s]
              /\ s.state = "submitted" /\ s.bond > 0
              /\ s.challenger = Nobody /\ s.challengerBond = 0
        BY <1>6 DEF PostStep
    <2>2. submission'[id] = s
        BY <1>3, <2>1
    <2>3. DisputeOK(id) /\ Exists(id)' /\ Expired(id)'
        BY <1>1, <1>6, OnceExpired DEF PostStep, DisputeInv
    <2>4. Voters(id)' = Voters(id) /\ voteCount'[id] = 0
        BY <1>3, <1>6, <2>3 DEF PostStep, VotesKept, Voters, DisputeOK
    <2>5. DisputeOK(id)'
        BY <1>6, <2>1, <2>2, <2>3, <2>4 DEF PostStep, VotesKept, DisputeOK
    <2> QED BY <1>5, <1>6, <2>1, <2>5 DEF PostStep
<1>7. ASSUME NEW id \in MarketIds, ChallengeStep(id)
      PROVE  DisputeInv'
    <2>1. PICK s \in Submission :
              /\ submission' = [submission EXCEPT ![id] = s]
              /\ s.state = "escalated" /\ s.challenger # Nobody
        BY <1>7 DEF ChallengeStep
    <2>2. submission'[id] = s
        BY <1>3, <2>1
    <2>3. DisputeOK(id) /\ Exists(id)' /\ Expired(id)'
        BY <1>1, <1>7, OnceExpired DEF ChallengeStep, DisputeInv, DisputeOK
    <2>4. Voters(id)' = Voters(id)
        BY <1>7 DEF ChallengeStep, VotesKept, Voters
    <2>5. DisputeOK(id)'
        BY <1>7, <2>1, <2>2, <2>3, <2>4 DEF ChallengeStep, VotesKept, DisputeOK
    <2> QED BY <1>5, <1>7, <2>1, <2>5 DEF ChallengeStep
<1>8. ASSUME NEW id \in MarketIds, SettleStep(id)
      PROVE  DisputeInv'
    <2> DEFINE s == [submission[id] EXCEPT !.state = "finalized"]
    <2>1. s \in Submission /\ s.state = "finalized" /\ s.challenger = submission[id].challenger
        <3>1. submission[id] \in Submission
            BY <1>3
        <3> QED BY <3>1 DEF Submission
    <2>2. submission' = [submission EXCEPT ![id] = s]
        BY <1>8 DEF SettleStep
    <2> HIDE DEF s
    <2>3. submission'[id] = s
        BY <1>3, <2>2
    <2>4. DisputeOK(id) /\ Exists(id)' /\ Expired(id)'
        BY <1>1, <1>8, OnceExpired DEF SettleStep, InDispute, DisputeInv, DisputeOK
    <2>5. Voters(id)' = Voters(id)
        BY <1>8 DEF SettleStep, VotesKept, Voters
    <2>6. DisputeOK(id)'
        BY <1>8, <2>1, <2>3, <2>4, <2>5 DEF SettleStep, VotesKept, DisputeOK
    <2> QED BY <1>5, <1>8, <2>1, <2>2, <2>6 DEF SettleStep
<1>9. ASSUME NEW id \in MarketIds, VoteStep(id)
      PROVE  DisputeInv'
    <2>1. DisputeOK(id)' /\ OracleTypeOK'
        BY <1>1, <1>9, VoteIsCounted
    <2>2. ASSUME NEW other \in MarketIds, other # id
          PROVE  DisputeOK(other)'
        <3>1. /\ submission'[other] = submission[other]
              /\ vote'[other] = vote[other] /\ voteCount'[other] = voteCount[other]
            BY <1>3, <1>9, <2>2 DEF VoteStep
        <3> QED BY <1>1, <3>1, UntouchedDispute
    <2> QED BY <1>2, <2>1, <2>2 DEF DisputeInv
<1> QED BY <1>4, <1>6, <1>7, <1>8, <1>9 DEF AnyDisputeStep

\* The invariant of the whole contract.
THEOREM DisputeInvariant == OracleSpec => []DisputeInv
<1>1. SystemInit => DisputeInv
    BY DisputeInvInit
<1>2. DisputeInv /\ [OracleNext]_systemVars => DisputeInv'
    BY OracleStepIsOneOfThem, StepKeepsDisputes
<1> QED BY <1>1, <1>2, PTL DEF OracleSpec

\* The count that vote_on_challenge raises, and that the council's threshold is
\* compared with, is the number of members with a recorded vote, and nobody
\* votes where there was no challenge.
THEOREM VotesAlwaysCounted == OracleSpec => []VotesAreCounted
<1>1. DisputeInv => VotesAreCounted
    BY DEF DisputeInv, DisputeOK, VotesAreCounted
<1> QED BY <1>1, DisputeInvariant, PTL

\* The oracle's calls leave a decided market as it is, too.
THEOREM DisputedVerdictsAreFinal == OracleSpec => [][\A id \in MarketIds :
                                        ~Undecided(id) => market'[id] = market[id]]_systemVars
<1> DEFINE Final == \A id \in MarketIds : ~Undecided(id) => market'[id] = market[id]
<1>1. DisputeInv /\ [OracleNext]_systemVars => [Final]_systemVars
    BY OracleStepIsOneOfThem, DisputeStepIsAnyStep, StepKeepsVerdicts DEF DisputeInv
<1> QED BY <1>1, DisputeInvariant, PTL DEF OracleSpec

LEMMA RecordsWithoutVerdict ==
    ASSUME NEW r \in MarketRecord, NEW s \in MarketRecord,
           r.endTime = s.endTime, SameTotals(r, s)
    PROVE  [r EXCEPT !.resolved = FALSE, !.outcome = FALSE, !.cancelled = FALSE]
         = [s EXCEPT !.resolved = FALSE, !.outcome = FALSE, !.cancelled = FALSE]
BY DEF MarketRecord, SameTotals

\* The stakes a submitter looked at are those the settlement divides: once an
\* outcome is posted, place_bet takes nothing more.
THEOREM StakesStayFrozen == OracleSpec => SubmissionFreezesStakes
<1> DEFINE Frozen == \A id \in MarketIds : submission[id].state # "open" =>
          [market'[id] EXCEPT !.resolved = FALSE, !.outcome = FALSE, !.cancelled = FALSE]
        = [market[id] EXCEPT !.resolved = FALSE, !.outcome = FALSE, !.cancelled = FALSE]
<1>1. ASSUME DisputeInv, [OracleNext]_systemVars
      PROVE  Frozen
    <2> SUFFICES ASSUME NEW id \in MarketIds, submission[id].state # "open"
                 PROVE  [market'[id] EXCEPT !.resolved = FALSE, !.outcome = FALSE,
                                            !.cancelled = FALSE]
                      = [market[id] EXCEPT !.resolved = FALSE, !.outcome = FALSE,
                                           !.cancelled = FALSE]
        OBVIOUS
    <2>1. AnyStep /\ DisputeInv'
        BY <1>1, OracleStepIsOneOfThem, DisputeStepIsAnyStep, StepKeepsDisputes
    <2>2. market'[id].endTime = market[id].endTime /\ SameTotals(market'[id], market[id])
        BY <1>1, <2>1, OnceExpired DEF DisputeInv, DisputeOK
    <2>3. market[id] \in MarketRecord /\ market'[id] \in MarketRecord
        BY <1>1, <2>1 DEF DisputeInv, VerdictInv
    <2> QED BY <2>2, <2>3, RecordsWithoutVerdict
<1>2. DisputeInv /\ [OracleNext]_systemVars => [Frozen]_systemVars
    BY <1>1
<1> QED BY <1>2, DisputeInvariant, PTL DEF OracleSpec, SubmissionFreezesStakes

-----------------------------------------------------------------------------
(* The contract implements DisputeLifecycle *)

LEMMA LifecycleInit ==
    ASSUME SystemInit
    PROVE  Lifecycle!Init
<1>1. \A id \in MarketIds : submission[id] = NoSubmission /\ market[id] = NewMarket(0)
    BY DEF SystemInit, OracleInit, DeployedInit, MarketInit
<1>2. \A id \in MarketIds : Verdict(id) = "none" /\ Escrow(id) = 0
                            /\ submission[id].state = "open"
    BY <1>1 DEF Verdict, Escrow, InDispute, NoSubmission, NewMarket
<1> QED BY <1>2 DEF Lifecycle!Init

\* An undecided market has no verdict, and one it has says how it was decided.
LEMMA VerdictMeaning ==
    ASSUME VerdictInv, NEW id \in MarketIds
    PROVE  /\ Undecided(id) <=> Verdict(id) = "none"
           /\ Verdict(id) \in Lifecycle!Verdicts \cup {"none"}
BY DEF VerdictInv, MarketRecord, Undecided, Verdict, Lifecycle!Verdicts

\* A step of the markets gives at most one verdict, where there was none.
LEMMA VerdictsGivenOnce ==
    ASSUME VerdictInv, AnyStep
    PROVE  \/ \A id \in MarketIds : Verdict(id)' = Verdict(id)
           \/ \E id \in MarketIds :
                 /\ Verdict(id) = "none" /\ Verdict(id)' \in Lifecycle!Verdicts
                 /\ \A other \in MarketIds \ {id} : Verdict(other)' = Verdict(other)
<1>1. /\ market \in [MarketIds -> MarketRecord] /\ marketCount \in Nat
      /\ \A id \in MarketIds : id > marketCount => Undecided(id)
      /\ VerdictInv'
    BY StepKeepsVerdicts, MarketConstants DEF VerdictInv
<1>2. CASE QuietStep \/ InitializeStep
    BY <1>2 DEF QuietStep, Kept, InitializeStep, Verdict
<1>3. CASE CreateStep
    <2>1. PICK d \in Nat : market' = [market EXCEPT ![marketCount + 1] = NewMarket(now + d)]
        BY <1>3 DEF CreateStep
    <2>2. ASSUME NEW id \in MarketIds
          PROVE  Verdict(id)' = Verdict(id)
        <3>1. CASE id # marketCount + 1
            BY <1>1, <2>1, <3>1 DEF Verdict
        <3>2. CASE id = marketCount + 1
            <4>1. Verdict(id) = "none"
                BY <1>1, <3>2, VerdictMeaning
            <4>2. market'[id] = NewMarket(now + d)
                BY <1>1, <2>1, <3>2
            <4> QED BY <4>1, <4>2 DEF Verdict, NewMarket
        <3> QED BY <3>1, <3>2
    <2> QED BY <2>2
<1>4. CASE \E id \in MarketIds : MarketStepOf(id)
    <2>1. PICK id \in MarketIds : MarketStepOf(id)
        BY <1>4
    <2>2. \A other \in MarketIds \ {id} : Verdict(other)' = Verdict(other)
        BY <1>1, <2>1 DEF MarketStepOf, Verdict
    <2>3. Verdict(id) = "none"
        BY <2>1, VerdictMeaning DEF MarketStepOf
    <2>4. Verdict(id)' \in Lifecycle!Verdicts \cup {"none"}
        BY <1>1 DEF VerdictInv, MarketRecord, Verdict, Lifecycle!Verdicts
    <2> QED BY <2>2, <2>3, <2>4
<1> QED BY <1>2, <1>3, <1>4 DEF AnyStep

LEMMA NoDisputeImplements ==
    ASSUME DisputeInv, AnyStep, submission' = submission
    PROVE  [Lifecycle!Next]_Lifecycle!vars
<1>1. \A id \in MarketIds : submission'[id].state = submission[id].state
                            /\ Escrow(id)' = Escrow(id)
    BY DEF Escrow, InDispute
<1>2. CASE \A id \in MarketIds : Verdict(id)' = Verdict(id)
    BY <1>1, <1>2 DEF Lifecycle!vars
<1>3. CASE \E id \in MarketIds :
               /\ Verdict(id) = "none" /\ Verdict(id)' \in Lifecycle!Verdicts
               /\ \A other \in MarketIds \ {id} : Verdict(other)' = Verdict(other)
    <2>1. PICK id \in MarketIds :
               /\ Verdict(id) = "none" /\ Verdict(id)' \in Lifecycle!Verdicts
               /\ \A other \in MarketIds \ {id} : Verdict(other)' = Verdict(other)
        BY <1>3
    <2>2. [m \in MarketIds |-> Verdict(m)'] = [[m \in MarketIds |-> Verdict(m)] EXCEPT
                                                  ![id] = Verdict(id)']
        BY <2>1
    <2>3. Lifecycle!Decide(id)
        BY <1>1, <2>1, <2>2 DEF Lifecycle!Decide, Lifecycle!Given
    <2> QED BY <2>3 DEF Lifecycle!Next
<1> QED BY <1>2, <1>3, VerdictsGivenOnce DEF DisputeInv

\* What the posting, the challenge and the settlement of a market's dispute do
\* to stages and escrows; VoteStep moves neither.
LEMMA StageMoves ==
    ASSUME DisputeInv, NEW id \in MarketIds, NEW s \in Submission,
           submission' = [submission EXCEPT ![id] = s]
    PROVE  /\ [m \in MarketIds |-> submission'[m].state]
                 = [[m \in MarketIds |-> submission[m].state] EXCEPT ![id] = s.state]
           /\ [m \in MarketIds |-> Escrow(m)']
                 = [[m \in MarketIds |-> Escrow(m)] EXCEPT ![id] = Escrow(id)']
           /\ submission'[id] = s
           /\ Escrow(id)' = IF s.state \in {"submitted", "escalated"}
                            THEN s.bond + s.challengerBond ELSE 0
<1>1. submission \in [MarketIds -> Submission]
    BY DEF DisputeInv, OracleTypeOK, Submission
<1>2. \A m \in MarketIds : submission'[m] = IF m = id THEN s ELSE submission[m]
    BY <1>1
<1>3. \A m \in MarketIds \ {id} : Escrow(m)' = Escrow(m)
    BY <1>2 DEF Escrow, InDispute
<1> QED BY <1>1, <1>2, <1>3 DEF Escrow, InDispute

LEMMA PostImplements ==
    ASSUME DisputeInv, NEW id \in MarketIds, PostStep(id)
    PROVE  Lifecycle!Post(id)
<1>1. PICK s \in Submission :
          /\ submission' = [submission EXCEPT ![id] = s]
          /\ s.state = "submitted" /\ s.bond > 0
          /\ s.challenger = Nobody /\ s.challengerBond = 0
    BY DEF PostStep
<1>2. Escrow(id)' > 0
    <2>1. s.bond \in Nat
        BY DEF Submission
    <2>2. Escrow(id)' = s.bond + s.challengerBond
        BY <1>1, StageMoves
    <2> QED BY <1>1, <2>1, <2>2
<1>3. \A m \in MarketIds : Verdict(m)' = Verdict(m)
    BY DEF PostStep, MarketsKept, Verdict
<1>4. Verdict(id) = "none" /\ submission[id].state = "open"
    BY VerdictMeaning DEF PostStep, DisputeInv
<1>5. /\ [m \in MarketIds |-> submission'[m].state]
            = [[m \in MarketIds |-> submission[m].state] EXCEPT ![id] = "submitted"]
      /\ [m \in MarketIds |-> Escrow(m)']
            = [[m \in MarketIds |-> Escrow(m)] EXCEPT ![id] = Escrow(id)']
    BY <1>1, StageMoves
<1> QED BY <1>2, <1>3, <1>4, <1>5 DEF Lifecycle!Post, Lifecycle!Moved, Lifecycle!Held

LEMMA ChallengeImplements ==
    ASSUME DisputeInv, NEW id \in MarketIds, ChallengeStep(id)
    PROVE  Lifecycle!Dispute(id)
<1>1. PICK s \in Submission :
          /\ submission' = [submission EXCEPT ![id] = s]
          /\ s.state = "escalated" /\ s.bond = submission[id].bond
          /\ s.challenger # Nobody /\ s.challengerBond > s.bond
    BY DEF ChallengeStep
<1>2. submission[id].state = "submitted" /\ submission[id].challengerBond = 0
    BY DEF ChallengeStep, DisputeInv, DisputeOK
<1>3. Escrow(id) = submission[id].bond /\ submission[id].bond \in Nat
    BY <1>2, SubmissionTypes DEF Escrow, InDispute, DisputeInv, Submission
<1>4. Escrow(id)' > 2 * Escrow(id)
    <2>1. s.challengerBond \in Nat
        BY DEF Submission
    <2>2. Escrow(id)' = s.bond + s.challengerBond
        BY <1>1, StageMoves
    <2> QED BY <1>1, <1>3, <2>1, <2>2
<1>5. \A m \in MarketIds : Verdict(m)' = Verdict(m)
    BY DEF ChallengeStep, MarketsKept, Verdict
<1>6. Verdict(id) = "none"
    BY VerdictMeaning DEF ChallengeStep, DisputeInv
<1>7. /\ [m \in MarketIds |-> submission'[m].state]
            = [[m \in MarketIds |-> submission[m].state] EXCEPT ![id] = "escalated"]
      /\ [m \in MarketIds |-> Escrow(m)']
            = [[m \in MarketIds |-> Escrow(m)] EXCEPT ![id] = Escrow(id)']
    <2>1. /\ [m \in MarketIds |-> submission'[m].state]
                = [[m \in MarketIds |-> submission[m].state] EXCEPT ![id] = s.state]
          /\ [m \in MarketIds |-> Escrow(m)']
                = [[m \in MarketIds |-> Escrow(m)] EXCEPT ![id] = Escrow(id)']
        BY <1>1, StageMoves
    <2> QED BY <1>1, <2>1
<1> QED BY <1>2, <1>4, <1>5, <1>6, <1>7 DEF Lifecycle!Dispute, Lifecycle!Moved, Lifecycle!Held

LEMMA SettleImplements ==
    ASSUME DisputeInv, NEW id \in MarketIds, SettleStep(id)
    PROVE  Lifecycle!Settle(id)
<1> DEFINE s == [submission[id] EXCEPT !.state = "finalized"]
<1>1. s \in Submission /\ s.state = "finalized"
    BY SubmissionTypes DEF DisputeInv, Submission
<1>2. submission' = [submission EXCEPT ![id] = s]
    BY DEF SettleStep
<1> HIDE DEF s
<1>3. Escrow(id)' = 0
    BY <1>1, <1>2, StageMoves
<1>4. /\ [m \in MarketIds |-> submission'[m].state]
            = [[m \in MarketIds |-> submission[m].state] EXCEPT ![id] = "finalized"]
      /\ [m \in MarketIds |-> Escrow(m)']
            = [[m \in MarketIds |-> Escrow(m)] EXCEPT ![id] = 0]
    <2>1. /\ [m \in MarketIds |-> submission'[m].state]
                = [[m \in MarketIds |-> submission[m].state] EXCEPT ![id] = s.state]
          /\ [m \in MarketIds |-> Escrow(m)']
                = [[m \in MarketIds |-> Escrow(m)] EXCEPT ![id] = Escrow(id)']
        BY <1>1, <1>2, StageMoves
    <2> QED BY <1>1, <1>3, <2>1
<1>5. IF Verdict(id) = "none"
      THEN \E v \in {"yes", "no"} : Lifecycle!Given(id, v)
      ELSE UNCHANGED [m \in MarketIds |-> Verdict(m)]
    <2>1. CASE ~Undecided(id)
        <3>1. Verdict(id) # "none"
            BY <2>1, VerdictMeaning DEF DisputeInv
        <3>2. \A m \in MarketIds : Verdict(m)' = Verdict(m)
            BY <2>1 DEF SettleStep, RulingOn, MarketsKept, Verdict
        <3> QED BY <3>1, <3>2
    <2>2. CASE Undecided(id)
        <3>1. PICK outcome \in BOOLEAN : MarketResolvedTo(id, outcome)
            BY <2>2 DEF SettleStep, RulingOn
        <3>2. market \in [MarketIds -> MarketRecord]
            BY DEF DisputeInv, VerdictInv
        <3>3. \A m \in MarketIds \ {id} : Verdict(m)' = Verdict(m)
            BY <3>1, <3>2 DEF MarketResolvedTo, Verdict
        <3>4. Verdict(id)' = IF outcome THEN "yes" ELSE "no"
            BY <2>2, <3>1, <3>2 DEF MarketResolvedTo, Verdict, MarketRecord, Undecided
        <3>5. [m \in MarketIds |-> Verdict(m)'] = [[m \in MarketIds |-> Verdict(m)] EXCEPT
                                                     ![id] = IF outcome THEN "yes" ELSE "no"]
            BY <3>3, <3>4
        <3>6. Verdict(id) = "none"
            BY <2>2, VerdictMeaning DEF DisputeInv
        <3> QED BY <3>5, <3>6 DEF Lifecycle!Given
    <2> QED BY <2>1, <2>2
<1>6. submission[id].state \in {"submitted", "escalated"}
    BY DEF SettleStep, InDispute
<1> QED BY <1>4, <1>5, <1>6 DEF Lifecycle!Settle, Lifecycle!Moved, Lifecycle!Held

LEMMA StepImplements ==
    ASSUME DisputeInv, AnyDisputeStep
    PROVE  [Lifecycle!Next]_Lifecycle!vars
<1>1. AnyStep
    BY DisputeStepIsAnyStep
<1>2. CASE NoDispute
    BY <1>1, <1>2, NoDisputeImplements DEF NoDispute
<1>3. CASE \E id \in MarketIds : VoteStep(id)
    BY <1>1, <1>3, NoDisputeImplements DEF VoteStep
<1>4. CASE \E id \in MarketIds : PostStep(id)
    BY <1>4, PostImplements DEF Lifecycle!Next
<1>5. CASE \E id \in MarketIds : ChallengeStep(id)
    BY <1>5, ChallengeImplements DEF Lifecycle!Next
<1>6. CASE \E id \in MarketIds : SettleStep(id)
    BY <1>6, SettleImplements DEF Lifecycle!Next
<1> QED BY <1>2, <1>3, <1>4, <1>5, <1>6 DEF AnyDisputeStep

\* The dispute of each market only moves forward, its verdict is given once,
\* and its bonds are held from the posting to the settlement: the contract,
\* with all its other calls in between, is an implementation of DisputeLifecycle.
THEOREM ImplementsLifecycle == OracleSpec => FollowsLifecycle
<1>1. SystemInit => Lifecycle!Init
    BY LifecycleInit
<1>2. DisputeInv /\ [OracleNext]_systemVars => [Lifecycle!Next]_Lifecycle!vars
    BY OracleStepIsOneOfThem, StepImplements
<1> QED BY <1>1, <1>2, DisputeInvariant, PTL DEF OracleSpec, FollowsLifecycle, Lifecycle!Spec

-----------------------------------------------------------------------------
(* The bonds in the contract's balance *)

\* Bonds go back to those who posted them, and these are not the contract.
BondersOK(id) ==
    /\ InDispute(id) => submission[id].submitter \in Submitters
    /\ submission[id].state = "escalated" => submission[id].challenger \in Challengers

\* Stakes, bonds and the fee pot lie in one balance, and nothing else does.
Covered ==
    /\ AllStakes + AllEscrow <= Held
    /\ PaysOthers =>
          Held <= AllStakes + AllEscrow + InitialXlm[MarketContract] + RoundingSteps

BondInv ==
    /\ DisputeInv /\ BooksInv /\ FundsOK
    /\ \A id \in MarketIds : BondersOK(id)
    /\ NoneCancelled => Covered

\* The stakes and bonds of one market move no further than the money.
Nets(id) ==
    /\ \A other \in MarketIds \ {id} :
          /\ Stakes(other)' = Stakes(other) /\ Steps(other)' = Steps(other)
          /\ Escrow(other)' = Escrow(other)
    /\ Stakes(id)' \in Nat /\ Steps(id)' \in Nat /\ Escrow(id)' \in Nat
    /\ (Stakes(id)' - Stakes(id)) + (Escrow(id)' - Escrow(id)) <= Held' - Held
    /\ PaysOthers => Held' - Held <= (Stakes(id)' - Stakes(id)) + (Escrow(id)' - Escrow(id))
                                      + (Steps(id)' - Steps(id))

EscrowKept == submission' = submission

BondStep ==
    /\ BooksInv' /\ FundsOK'
    /\ \A id \in MarketIds : BondersOK(id)'
    /\ NoneCancelled /\ NoneCancelled' =>
          (EscrowKept /\ Rests) \/ \E id \in MarketIds : Nets(id)

LEMMA EscrowIsNatural ==
    ASSUME DisputeInv, NEW id \in MarketIds
    PROVE  /\ Escrow(id) \in Nat
           /\ submission[id].bond \in Nat /\ submission[id].challengerBond \in Nat
           /\ submission[id].outcome \in BOOLEAN
           /\ submission[id].state = "submitted" => Escrow(id) = submission[id].bond
           /\ submission[id].state = "escalated" =>
                 Escrow(id) = submission[id].bond + submission[id].challengerBond
<1>1. submission[id] \in Submission /\ DisputeOK(id)
    BY SubmissionTypes DEF DisputeInv
<1>2. submission[id].bond \in Nat /\ submission[id].challengerBond \in Nat
      /\ submission[id].outcome \in BOOLEAN
    BY <1>1 DEF Submission
<1> QED BY <1>1, <1>2 DEF Escrow, InDispute, DisputeOK

LEMMA EscrowUnmoved ==
    ASSUME NEW id \in MarketIds, submission'[id] = submission[id]
    PROVE  Escrow(id)' = Escrow(id) /\ (BondersOK(id) => BondersOK(id)')
BY DEF Escrow, InDispute, BondersOK

\* The submission of one market changes.
LEMMA OneEscrowMoves ==
    ASSUME BondInv, NEW id \in MarketIds, NEW s, submission' = [submission EXCEPT ![id] = s]
    PROVE  /\ submission'[id] = s
           /\ \A other \in MarketIds \ {id} :
                 Escrow(other)' = Escrow(other) /\ BondersOK(other)'
<1>1. submission \in [MarketIds -> Submission]
    BY DEF BondInv, DisputeInv, OracleTypeOK, Submission
<1>2. submission'[id] = s /\ \A other \in MarketIds \ {id} : submission'[other] = submission[other]
    BY <1>1
<1> QED BY <1>2, EscrowUnmoved DEF BondInv

-----------------------------------------------------------------------------
(* Bonds in *)

\* Nothing but a submission and the contract's balance changes.
LEMMA MarketsKeptKeepsBooks ==
    ASSUME BooksInv, MarketsKept, EntriesKept
    PROVE  BooksInv'
<1>1. QuietStep
    BY DEF MarketsKept, QuietStep, Kept
<1> QED BY <1>1, EntriesKeptKeepsBooks DEF AnyStep

LEMMA BondComesIn ==
    ASSUME BondInv, NEW id \in MarketIds, NEW from \in Submitters \cup Challengers,
           NEW bond \in Nat, NEW s, BondEscrowed(from, bond),
           submission' = [submission EXCEPT ![id] = s],
           s.bond \in Nat, s.challengerBond \in Nat,
           s.bond + s.challengerBond = Escrow(id) + bond,
           s.state \in {"submitted", "escalated"}, s.submitter \in Submitters,
           s.state = "escalated" => s.challenger \in Challengers,
           UNCHANGED <<marketVars, rewardVars>>
    PROVE  BondStep
<1> DEFINE M == MarketContract
<1>1. /\ market' = market /\ bet' = bet /\ bettors' = bettors /\ accFees' = accFees
      /\ profile' = profile /\ mktCfg' = mktCfg /\ marketCount' = marketCount /\ now' = now
    BY DEF marketVars, roleVars, bookVars, rewardVars, refVars
<1>2. BooksInv'
    BY <1>1, MarketsKeptKeepsBooks DEF BondInv, MarketsKept, EntriesKept
<1>3. /\ from \in Address /\ from # M /\ M \in Address
      /\ xlm \in [Address -> Nat] /\ accFees \in Nat
    BY OracleConstants, ContractsDiffer DEF BondInv, FundsOK
<1>4. xlm[from] >= bond /\ xlm' = Transferred(xlm, from, M, bond)
    BY DEF BondEscrowed, XlmTransfer, Affordable
<1>5. xlm' \in [Address -> Nat] /\ xlm'[M] = xlm[M] + bond
    BY <1>3, <1>4, TransferFacts
<1>6. FundsOK'
    BY <1>1, <1>5 DEF BondInv, FundsOK
<1>7. xlm[M] \in Nat
    BY <1>3
<1>8. Held' = Held + bond /\ Held \in Int
    BY <1>1, <1>3, <1>5, <1>7 DEF Held
<1>9. /\ submission'[id] = s
      /\ \A other \in MarketIds \ {id} : Escrow(other)' = Escrow(other) /\ BondersOK(other)'
    BY OneEscrowMoves
<1>10. Escrow(id)' = s.bond + s.challengerBond /\ BondersOK(id)'
    BY <1>9 DEF Escrow, InDispute, BondersOK
<1>11. \A other \in MarketIds : Stakes(other)' = Stakes(other) /\ Steps(other)' = Steps(other)
    BY <1>1, SameStakes
<1>12. Escrow(id) \in Nat /\ Escrow(id)' \in Nat /\ Escrow(id)' - Escrow(id) = bond
    BY <1>10, EscrowIsNatural DEF BondInv
<1>13. ASSUME NoneCancelled
       PROVE  Nets(id)
    <2>1. Stakes(id) \in Nat /\ Steps(id) \in Nat
        BY <1>13, StakesAreNatural, CountsAreNatural DEF NoneCancelled, BondInv, BooksInv,
                                                         VerdictInv
    <2>2. /\ Held' - Held = bond /\ Stakes(id)' - Stakes(id) = 0 /\ Steps(id)' - Steps(id) = 0
        BY <1>8, <1>11, <2>1
    <2> QED BY <1>9, <1>11, <1>12, <2>1, <2>2 DEF Nets
<1> QED BY <1>2, <1>6, <1>9, <1>10, <1>13 DEF BondStep

LEMMA SubmissionBringsBond ==
    ASSUME BondInv, NEW id \in MarketIds, NEW submitter \in Submitters,
           NEW outcome \in BOOLEAN, NEW bond \in BondAmounts,
           SubmitOutcome(submitter, id, outcome, bond)
    PROVE  BondStep
<1> DEFINE s == [NoSubmission EXCEPT !.state = "submitted", !.submitter = submitter,
                        !.outcome = outcome, !.bond = bond,
                        !.challengeDeadline = now + params.challengeWindow]
<1>1. /\ BondEscrowed(submitter, bond) /\ submission' = [submission EXCEPT ![id] = s]
      /\ UNCHANGED <<marketVars, rewardVars>> /\ submission[id].state = "open"
    BY DEF SubmitOutcome, MaySubmit
<1>2. /\ s.bond = bond /\ s.challengerBond = 0 /\ s.state = "submitted"
      /\ s.submitter = submitter
    BY DEF NoSubmission
<1> HIDE DEF s
<1>3. bond \in Nat /\ Escrow(id) = 0
    BY <1>1, OracleConstants DEF Escrow, InDispute
<1>4. s.bond \in Nat /\ s.challengerBond \in Nat /\ s.bond + s.challengerBond = Escrow(id) + bond
    BY <1>2, <1>3
<1> QED BY <1>1, <1>2, <1>3, <1>4, BondComesIn

LEMMA ChallengeBringsBond ==
    ASSUME BondInv, NEW id \in MarketIds, NEW challenger \in Challengers,
           NEW bond \in BondAmounts, Challenge(challenger, id, bond)
    PROVE  BondStep
<1> DEFINE s == [submission[id] EXCEPT !.state = "escalated", !.challenger = challenger,
                        !.challengerBond = bond,
                        !.councilDeadline = now + params.councilWindow]
<1>1. submission \in [MarketIds -> Submission] /\ submission[id] \in Submission
    BY DEF BondInv, DisputeInv, OracleTypeOK, Submission
<1>2. /\ BondEscrowed(challenger, bond) /\ submission' = [submission EXCEPT ![id] = s]
      /\ UNCHANGED <<marketVars, rewardVars>> /\ submission[id].state = "submitted"
    BY <1>1 DEF Challenge, MayChallenge, Escalated
<1>3. /\ s.bond = submission[id].bond /\ s.challengerBond = bond /\ s.state = "escalated"
      /\ s.submitter = submission[id].submitter /\ s.challenger = challenger
    BY <1>1 DEF Submission
<1> HIDE DEF s
<1>4. bond \in Nat /\ Escrow(id) = submission[id].bond /\ submission[id].bond \in Nat
    BY <1>2, OracleConstants, EscrowIsNatural DEF BondInv
<1>5. submission[id].submitter \in Submitters
    BY <1>2 DEF BondInv, BondersOK, InDispute
<1>6. s.bond \in Nat /\ s.challengerBond \in Nat /\ s.bond + s.challengerBond = Escrow(id) + bond
    BY <1>3, <1>4
<1> QED BY <1>2, <1>3, <1>4, <1>5, <1>6, BondComesIn

-----------------------------------------------------------------------------
(* Bonds out *)

\* Two payments take what they add up to out of the contract.
LEMMA BondsLeave ==
    ASSUME FundsOK, NEW first \in Address \ {MarketContract},
           NEW second \in Address \ {MarketContract},
           NEW m \in Nat, NEW n \in Nat, BondsPaid(first, m, second, n)
    PROVE  /\ xlm' \in [Address -> Nat]
           /\ xlm'[MarketContract] = xlm[MarketContract] - (m + n)
<1> DEFINE M       == MarketContract
           between == Transferred(xlm, M, first, m)
<1>1. M \in Address /\ xlm \in [Address -> Nat] /\ xlm[M] \in Nat
    BY ContractsDiffer DEF FundsOK
<1>2. xlm[M] >= m
    BY <1>1 DEF BondsPaid, Affordable
<1>3. between \in [Address -> Nat] /\ between[M] = xlm[M] - m
    BY <1>1, <1>2, TransferFacts
<1>4. (n > 0 => between[M] >= n) /\ xlm' = Transferred(between, M, second, n)
    BY DEF BondsPaid, Affordable
<1> HIDE DEF between
<1>5. between[M] \in Nat /\ between[M] >= n
    BY <1>1, <1>3, <1>4
<1>6. xlm' \in [Address -> Nat] /\ xlm'[M] = between[M] - n
    BY <1>1, <1>3, <1>4, <1>5, TransferFacts
<1> QED BY <1>1, <1>3, <1>6

\* What a ruling pays out and credits is the two bonds.
LEMMA RulingSplitsBonds ==
    ASSUME DisputeInv, NEW id \in MarketIds, NEW outcome \in BOOLEAN,
           submission[id].state = "escalated"
    PROVE  /\ SubmitterPayout(id, outcome) \in Nat /\ ChallengerPayout(id, outcome) \in Nat
           /\ ProtocolCredit(id, outcome) \in Nat
           /\ SubmitterPayout(id, outcome) + ChallengerPayout(id, outcome)
                  = Escrow(id) - ProtocolCredit(id, outcome)
<1> DEFINE b == submission[id].bond
           c == submission[id].challengerBond
<1>1. b \in Nat /\ c \in Nat /\ Escrow(id) = b + c
    BY EscrowIsNatural
<1> HIDE DEF b, c
<1>2. CASE SubmitterWon(id, outcome)
    <2>1. LoserBond(id, outcome) = c
        BY <1>2 DEF LoserBond, c
    <2>2. /\ WinnerShare(id, outcome) = c \div 2
          /\ ProtocolCredit(id, outcome) = c - c \div 2
          /\ SubmitterPayout(id, outcome) = b + c \div 2
          /\ ChallengerPayout(id, outcome) = 0
        BY <1>2, <2>1 DEF WinnerShare, ProtocolCredit, SubmitterPayout, ChallengerPayout, b
    <2>3. c \div 2 \in Nat /\ c - c \div 2 \in Nat
        BY <1>1
    <2> QED BY <1>1, <2>2, <2>3
<1>3. CASE ~SubmitterWon(id, outcome)
    <2>1. LoserBond(id, outcome) = b
        BY <1>3 DEF LoserBond, b
    <2>2. /\ WinnerShare(id, outcome) = b - CouncilFee(b)
          /\ ProtocolCredit(id, outcome) = b - (b - CouncilFee(b))
          /\ SubmitterPayout(id, outcome) = 0
          /\ ChallengerPayout(id, outcome) = c + (b - CouncilFee(b))
        BY <1>3, <2>1 DEF WinnerShare, ProtocolCredit, SubmitterPayout, ChallengerPayout, c
    <2>3. CouncilFee(b) \in Nat /\ b - CouncilFee(b) \in Nat
        BY <1>1 DEF CouncilFee
    <2> QED BY <1>1, <2>2, <2>3
<1> QED BY <1>2, <1>3

\* A settlement empties the escrow of one market, and resolves it if it has no
\* verdict; what it does not pay out it credits to the pot.
LEMMA SettlementNets ==
    ASSUME BondInv, NEW id \in MarketIds, InDispute(id), NEW outcome \in BOOLEAN,
           NEW credit \in Nat, VerdictApplied(id, outcome, credit), Settled(id),
           xlm' \in [Address -> Nat],
           xlm'[MarketContract] = xlm[MarketContract] - (Escrow(id) - credit),
           UNCHANGED <<now, roleVars, marketCount, bet, bettors, rewardVars>>
    PROVE  BondStep
<1> DEFINE M == MarketContract
           s == [submission[id] EXCEPT !.state = "finalized"]
<1>1. /\ bet' = bet /\ bettors' = bettors /\ now' = now /\ mktCfg' = mktCfg
      /\ marketCount' = marketCount /\ profile' = profile
    BY DEF roleVars, rewardVars, refVars
<1>2. M \in Address /\ xlm[M] \in Nat /\ xlm'[M] \in Nat /\ accFees \in Nat
    BY ContractsDiffer DEF BondInv, FundsOK
<1>3. submission[id] \in Submission /\ submission' = [submission EXCEPT ![id] = s]
    BY SubmissionTypes DEF BondInv, DisputeInv, Settled
<1>4. s.state = "finalized"
    BY <1>3 DEF Submission
<1> HIDE DEF s
<1>5. /\ submission'[id].state = "finalized"
      /\ \A other \in MarketIds \ {id} : Escrow(other)' = Escrow(other) /\ BondersOK(other)'
    BY <1>3, <1>4, OneEscrowMoves
<1>6. Escrow(id)' = 0 /\ BondersOK(id)' /\ Escrow(id) \in Nat
    BY <1>5, EscrowIsNatural DEF Escrow, InDispute, BondersOK, BondInv
<1>7. mktCfg.admin # Nobody /\ Exists(id)
    BY ExistingMarketHasAdmin DEF BondInv, DisputeInv, DisputeOK, InDispute
<1>8. CASE Undecided(id)
    <2>1. MarketResolvedTo(id, outcome) /\ accFees' = accFees + credit + Swept(id, outcome)
        BY <1>8 DEF VerdictApplied
    <2>2. /\ Stakes(id) \in Nat /\ Stakes(id)' \in Nat /\ Swept(id, outcome) \in Nat
          /\ Steps(id) \in Nat /\ Steps(id)' \in Nat
          /\ Stakes(id)' + Swept(id, outcome) <= Stakes(id)
          /\ Stakes(id) <= Stakes(id)' + Swept(id, outcome) + (Steps(id)' - Steps(id))
          /\ \A other \in MarketIds \ {id} :
                Stakes(other)' = Stakes(other) /\ Steps(other)' = Steps(other)
        BY <1>1, <1>8, <2>1, ResolutionStakes DEF BondInv
    <2>3. accFees' \in Nat /\ Held \in Int /\ Held' - Held = -(Escrow(id) + Swept(id, outcome))
        BY <1>2, <1>6, <2>1, <2>2 DEF Held
    <2>4. Nets(id)
        BY <1>5, <1>6, <2>2, <2>3 DEF Nets
    <2>5. DecisionOf(id)
        BY <1>1, <1>7, <1>8, <2>1, DecisionIsDecisionOf DEF BondInv, BooksInv
    <2>6. BooksInv'
        BY <1>1, <2>5, EntriesKeptKeepsBooks DEF BondInv, EntriesKept, AnyStep, DecisionOf
    <2>7. FundsOK'
        BY <1>1, <1>7, <2>3 DEF BondInv, FundsOK
    <2> QED BY <1>5, <1>6, <2>4, <2>6, <2>7 DEF BondStep
<1>9. CASE ~Undecided(id)
    <2>1. market' = market /\ accFees' = accFees + credit
        BY <1>9 DEF VerdictApplied
    <2>2. \A other \in MarketIds : Stakes(other)' = Stakes(other) /\ Steps(other)' = Steps(other)
        BY <1>1, <2>1, SameStakes
    <2>3. accFees' \in Nat /\ Held \in Int /\ Held' - Held = -Escrow(id)
        BY <1>2, <1>6, <2>1 DEF Held
    <2>4. ASSUME NoneCancelled
          PROVE  Nets(id)
        <3>1. Stakes(id) \in Nat /\ Steps(id) \in Nat
            BY <2>4, StakesAreNatural, CountsAreNatural DEF NoneCancelled, BondInv, BooksInv,
                                                            VerdictInv
        <3> QED BY <1>5, <1>6, <2>2, <2>3, <3>1 DEF Nets
    <2>5. BooksInv'
        BY <1>1, <2>1, MarketsKeptKeepsBooks DEF BondInv, MarketsKept, EntriesKept
    <2>6. FundsOK'
        BY <1>1, <1>7, <2>3 DEF BondInv, FundsOK
    <2> QED BY <1>5, <1>6, <2>4, <2>5, <2>6 DEF BondStep
<1> QED BY <1>8, <1>9

LEMMA Bonders ==
    ASSUME BondInv, NEW id \in MarketIds
    PROVE  /\ InDispute(id) => submission[id].submitter \in Address \ {MarketContract}
           /\ submission[id].state = "escalated" =>
                 submission[id].challenger \in Address \ {MarketContract}
BY OracleConstants DEF BondInv, BondersOK

LEMMA FinalizationNets ==
    ASSUME BondInv, NEW id \in MarketIds, FinalizeOutcome(id)
    PROVE  BondStep
<1> DEFINE to == submission[id].submitter
<1>1. /\ submission[id].state = "submitted" /\ InDispute(id)
      /\ XlmTransfer(MarketContract, to, submission[id].bond)
      /\ VerdictApplied(id, submission[id].outcome, 0) /\ Settled(id)
      /\ UNCHANGED <<now, roleVars, marketCount, bet, bettors, rewardVars>>
    BY DEF FinalizeOutcome, Unchallenged, InDispute
<1>2. /\ submission[id].bond \in Nat /\ submission[id].outcome \in BOOLEAN
      /\ Escrow(id) = submission[id].bond
    BY <1>1, EscrowIsNatural DEF BondInv
<1>3. to \in Address /\ to # MarketContract
    BY <1>1, Bonders
<1>4. xlm \in [Address -> Nat] /\ MarketContract \in Address
    BY ContractsDiffer DEF BondInv, FundsOK
<1>5. xlm' \in [Address -> Nat] /\ xlm'[MarketContract] = xlm[MarketContract] - Escrow(id)
    BY <1>1, <1>2, <1>3, <1>4, TransferFacts DEF XlmTransfer, Affordable
<1>6. xlm[MarketContract] - Escrow(id) = xlm[MarketContract] - (Escrow(id) - 0)
    BY <1>2
<1> QED BY <1>1, <1>2, <1>5, <1>6, SettlementNets

LEMMA TimeoutNets ==
    ASSUME BondInv, NEW id \in MarketIds, FinalizeChallengeTimeout(id)
    PROVE  BondStep
<1>1. /\ submission[id].state = "escalated" /\ InDispute(id)
      /\ BondsPaid(submission[id].submitter, submission[id].bond,
                   submission[id].challenger, submission[id].challengerBond)
      /\ VerdictApplied(id, submission[id].outcome, 0) /\ Settled(id)
      /\ UNCHANGED <<now, roleVars, marketCount, bet, bettors, rewardVars>>
    BY DEF FinalizeChallengeTimeout, CouncilTimedOut, InDispute
<1>2. /\ submission[id].bond \in Nat /\ submission[id].challengerBond \in Nat
      /\ submission[id].outcome \in BOOLEAN
      /\ Escrow(id) = submission[id].bond + submission[id].challengerBond
    BY <1>1, EscrowIsNatural DEF BondInv
<1>3. /\ submission[id].submitter \in Address \ {MarketContract}
      /\ submission[id].challenger \in Address \ {MarketContract}
    BY <1>1, Bonders
<1>4. xlm' \in [Address -> Nat] /\ xlm'[MarketContract] = xlm[MarketContract] - Escrow(id)
    BY <1>1, <1>2, <1>3, BondsLeave DEF BondInv
<1>5. xlm[MarketContract] - Escrow(id) = xlm[MarketContract] - (Escrow(id) - 0)
    BY <1>2
<1> QED BY <1>1, <1>2, <1>4, <1>5, SettlementNets

LEMMA RulingNets ==
    ASSUME BondInv, NEW id \in MarketIds, NEW caller, NEW outcome \in BOOLEAN,
           ResolveChallenge(caller, id, outcome)
    PROVE  BondStep
<1>1. /\ submission[id].state = "escalated" /\ InDispute(id)
      /\ BondsPaid(submission[id].submitter, SubmitterPayout(id, outcome),
                   submission[id].challenger, ChallengerPayout(id, outcome))
      /\ VerdictApplied(id, outcome, ProtocolCredit(id, outcome)) /\ Settled(id)
      /\ UNCHANGED <<now, roleVars, marketCount, bet, bettors, rewardVars>>
    BY DEF ResolveChallenge, InDispute
<1>2. /\ SubmitterPayout(id, outcome) \in Nat /\ ChallengerPayout(id, outcome) \in Nat
      /\ ProtocolCredit(id, outcome) \in Nat
      /\ SubmitterPayout(id, outcome) + ChallengerPayout(id, outcome)
             = Escrow(id) - ProtocolCredit(id, outcome)
    BY <1>1, RulingSplitsBonds DEF BondInv
<1>3. /\ submission[id].submitter \in Address \ {MarketContract}
      /\ submission[id].challenger \in Address \ {MarketContract}
    BY <1>1, Bonders
<1>4. /\ xlm' \in [Address -> Nat]
      /\ xlm'[MarketContract] = xlm[MarketContract] - (Escrow(id) - ProtocolCredit(id, outcome))
    BY <1>1, <1>2, <1>3, BondsLeave DEF BondInv
<1> QED BY <1>1, <1>2, <1>4, SettlementNets

-----------------------------------------------------------------------------
(* Every step *)

\* A step of the markets does what it does without the oracle.
LEMMA MarketMovesBeside ==
    ASSUME BondInv, [MarketNext]_allMarketVars, submission' = submission
    PROVE  BondStep
<1>1. BooksInv' /\ MoneyStep
    BY StepKeepsBooks, StepMovesMoney DEF BondInv
<1>2. \A id \in MarketIds : Escrow(id)' = Escrow(id) /\ BondersOK(id)'
    BY EscrowUnmoved DEF BondInv
<1>3. ASSUME NEW id \in MarketIds, Settles(id), NoneCancelled
      PROVE  Nets(id)
    <2> DEFINE d == Stakes(id)' - Stakes(id)
               r == Steps(id)' - Steps(id)
               h == Held' - Held
               e == Escrow(id)' - Escrow(id)
    <2>1. Escrow(id)' \in Nat /\ e = 0
        BY <1>2, EscrowIsNatural DEF BondInv
    <2>2. d \in Int /\ r \in Int
        BY <1>3, StakesAreNatural, CountsAreNatural DEF NoneCancelled, BondInv, BooksInv,
                                                       VerdictInv, Settles
    <2>3. d <= h /\ (PaysOthers => h <= d + r)
        BY <1>3 DEF Settles
    <2> HIDE DEF d, r, h, e
    <2>4. d + e <= h /\ (PaysOthers => h <= d + e + r)
        BY <2>1, <2>2, <2>3
    <2> QED BY <1>2, <1>3, <2>1, <2>4 DEF Nets, Settles, d, r, h, e
<1> QED BY <1>1, <1>2, <1>3 DEF MoneyStep, BondStep, EscrowKept

LEMMA UnsubmittedCancellation ==
    ASSUME BondInv, NEW id \in MarketIds, CancelUnsubmittedMarket(id)
    PROVE  BondStep
<1>1. /\ MarketCancelledNow(id) /\ submission' = submission
    BY DEF CancelUnsubmittedMarket, oracleVars
<1>2. /\ Exists(id) /\ Undecided(id) /\ market' = [market EXCEPT ![id].cancelled = TRUE]
      /\ marketCount' = marketCount /\ now' = now /\ mktCfg' = mktCfg /\ EntriesKept
    BY <1>1 DEF MarketCancelledNow, MayCancel, roleVars, EntriesKept
<1>3. ~NoneCancelled' /\ xlm' = xlm /\ accFees' \in Nat /\ profile' = profile
    BY <1>1, CancellationKeepsFunds DEF BondInv
<1>4. mktCfg.admin # Nobody
    BY <1>2, ExistingMarketHasAdmin DEF BondInv
<1>5. FundsOK'
    BY <1>2, <1>3, <1>4 DEF BondInv, FundsOK
<1>6. DecisionOf(id)
    BY <1>2, DecisionIsDecisionOf DEF BondInv, DisputeInv
<1>7. BooksInv'
    BY <1>2, <1>6, EntriesKeptKeepsBooks DEF BondInv, AnyStep, DecisionOf
<1>8. \A other \in MarketIds : BondersOK(other)'
    BY <1>1, EscrowUnmoved DEF BondInv
<1> QED BY <1>3, <1>5, <1>7, <1>8 DEF BondStep

LEMMA StepMovesBonds ==
    ASSUME BondInv, [OracleNext]_systemVars
    PROVE  BondStep
<1>1. CASE MarketStep
    BY <1>1, MarketMovesBeside DEF MarketStep, MarketNext, oracleVars
<1>2. CASE ParamStep
    <2>1. UNCHANGED allMarketVars /\ submission' = submission
        BY <1>2 DEF ParamStep, SetBondMinimums, SetChallengeWindow, SetCouncilWindow, SetParams
    <2> QED BY <2>1, MarketMovesBeside
<1>3. ASSUME NEW id \in MarketIds, DisputeStep(id)
      PROVE  BondStep
    <2>1. CASE \E s \in Submitters, o \in BOOLEAN, b \in BondAmounts : SubmitOutcome(s, id, o, b)
        BY <2>1, SubmissionBringsBond
    <2>2. CASE \E c \in Challengers, b \in BondAmounts : Challenge(c, id, b)
        BY <2>2, ChallengeBringsBond
    <2>3. CASE \E m \in Council, o \in BOOLEAN : VoteOnChallenge(m, id, o)
        BY <2>3, MarketMovesBeside DEF VoteOnChallenge
    <2>4. CASE \E m \in Council, o \in BOOLEAN : ResolveChallenge(m, id, o)
        BY <2>4, RulingNets
    <2>5. CASE FinalizeOutcome(id)
        BY <2>5, FinalizationNets
    <2>6. CASE FinalizeChallengeTimeout(id)
        BY <2>6, TimeoutNets
    <2>7. CASE CancelUnsubmittedMarket(id)
        BY <2>7, UnsubmittedCancellation
    <2> QED BY <1>3, <2>1, <2>2, <2>3, <2>4, <2>5, <2>6, <2>7 DEF DisputeStep
<1>4. CASE UNCHANGED systemVars
    BY <1>4, MarketMovesBeside DEF systemVars, oracleVars
<1> QED BY <1>1, <1>2, <1>3, <1>4 DEF OracleNext

-----------------------------------------------------------------------------
(* The contract holds stakes, bonds and fees at the same time *)

LEMMA EscrowsSumUp ==
    ASSUME DisputeInv
    PROVE  AllEscrow \in Nat
<1> DEFINE e == [id \in MarketIds |-> Escrow(id)]
<1>1. \A id \in MarketIds : e[id] \in Nat
    BY EscrowIsNatural
<1>2. AllEscrow = SumFunction(e) /\ DOMAIN e = MarketIds
    BY DEF AllEscrow
<1>3. IsFiniteSet(MarketIds)
    BY MarketConstants, FS_Interval DEF MarketIds
<1> HIDE DEF e
<1> QED BY <1>1, <1>2, <1>3, SumIsNatural DEF SumFunction

LEMMA NettingKeepsCover ==
    ASSUME BondInv, FundsOK', NoneCancelled, Covered, NEW a \in MarketIds, Nets(a)
    PROVE  Covered'
<1> DEFINE f == [id \in MarketIds |-> Stakes(id)]
           g == [id \in MarketIds |-> Stakes(id)']
           e == [id \in MarketIds |-> Escrow(id)]
           h == [id \in MarketIds |-> Escrow(id)']
           p == [id \in MarketIds |-> Steps(id)]
           q == [id \in MarketIds |-> Steps(id)']
<1>1. \A id \in MarketIds : Stakes(id) \in Nat /\ Steps(id) \in Nat /\ Escrow(id) \in Nat
    BY StakesAreNatural, CountsAreNatural, EscrowIsNatural
    DEF NoneCancelled, BondInv, BooksInv, VerdictInv
<1>2. /\ AllStakes = SumFunction(f) /\ AllStakes' = SumFunction(g)
      /\ AllEscrow = SumFunction(e) /\ AllEscrow' = SumFunction(h)
      /\ RoundingSteps = SumFunction(p) /\ RoundingSteps' = SumFunction(q)
    BY DEF AllStakes, AllEscrow, RoundingSteps, Steps, Counted
<1>3. Held \in Int /\ Held' \in Int /\ InitialXlm[MarketContract] \in Nat
    BY ContractsDiffer, MarketConstants DEF Held, BondInv, FundsOK
<1>4. /\ \A id \in MarketIds : /\ f[id] \in Nat /\ g[id] \in Nat /\ e[id] \in Nat
                               /\ h[id] \in Nat /\ p[id] \in Nat /\ q[id] \in Nat
      /\ \A id \in MarketIds \ {a} : g[id] = f[id] /\ h[id] = e[id] /\ q[id] = p[id]
      /\ DOMAIN f = MarketIds /\ DOMAIN g = MarketIds /\ DOMAIN e = MarketIds
      /\ DOMAIN h = MarketIds /\ DOMAIN p = MarketIds /\ DOMAIN q = MarketIds
    BY <1>1 DEF Nets
<1>5. /\ (g[a] - f[a]) + (h[a] - e[a]) <= Held' - Held
      /\ PaysOthers => Held' - Held <= (g[a] - f[a]) + (h[a] - e[a]) + (q[a] - p[a])
    BY DEF Nets
<1> HIDE DEF f, g, e, h, p, q
<1>6. /\ AllStakes \in Nat /\ AllStakes' \in Nat /\ AllStakes' = AllStakes + (g[a] - f[a])
    BY <1>2, <1>4, MarketSumMoves
<1>7. /\ AllEscrow \in Nat /\ AllEscrow' \in Nat /\ AllEscrow' = AllEscrow + (h[a] - e[a])
    BY <1>2, <1>4, MarketSumMoves
<1>8. /\ RoundingSteps \in Nat /\ RoundingSteps' \in Nat
      /\ RoundingSteps' = RoundingSteps + (q[a] - p[a])
    BY <1>2, <1>4, MarketSumMoves
<1>9. g[a] - f[a] \in Int /\ h[a] - e[a] \in Int /\ q[a] - p[a] \in Int
    BY <1>4
<1>10. AllStakes + AllEscrow <= Held
    BY DEF Covered
<1>11. AllStakes' + AllEscrow' <= Held'
    BY <1>3, <1>5, <1>6, <1>7, <1>9, <1>10
<1>12. ASSUME PaysOthers
       PROVE  Held' <= AllStakes' + AllEscrow' + InitialXlm[MarketContract] + RoundingSteps'
    <2>1. Held <= AllStakes + AllEscrow + InitialXlm[MarketContract] + RoundingSteps
        BY <1>12 DEF Covered
    <2>2. Held' - Held <= (g[a] - f[a]) + (h[a] - e[a]) + (q[a] - p[a])
        BY <1>5, <1>12
    <2> QED BY <1>3, <1>6, <1>7, <1>8, <1>9, <2>1, <2>2
<1> QED BY <1>11, <1>12 DEF Covered

LEMMA RestingKeepsCover ==
    ASSUME BondInv, FundsOK', NoneCancelled, Covered, EscrowKept, Rests
    PROVE  Covered'
<1> DEFINE f == [id \in MarketIds |-> Stakes(id)]
           g == [id \in MarketIds |-> Stakes(id)']
           e == [id \in MarketIds |-> Escrow(id)]
           h == [id \in MarketIds |-> Escrow(id)']
           p == [id \in MarketIds |-> Steps(id)]
           q == [id \in MarketIds |-> Steps(id)']
<1>1. /\ AllStakes = SumFunction(f) /\ AllStakes' = SumFunction(g)
      /\ AllEscrow = SumFunction(e) /\ AllEscrow' = SumFunction(h)
      /\ RoundingSteps = SumFunction(p) /\ RoundingSteps' = SumFunction(q)
    BY DEF AllStakes, AllEscrow, RoundingSteps, Steps, Counted
<1>2. \A id \in MarketIds : Escrow(id)' = Escrow(id)
    BY EscrowUnmoved DEF EscrowKept
<1>3. f = g /\ p = q /\ e = h
    BY <1>2 DEF Rests
<1>4. AllStakes' = AllStakes /\ AllEscrow' = AllEscrow /\ RoundingSteps' = RoundingSteps
    BY <1>1, <1>3
<1>5. Held <= Held' /\ (PaysOthers => Held' = Held)
    BY DEF Rests
<1>6. Held \in Int /\ Held' \in Int /\ AllStakes \in Int /\ AllEscrow \in Int
    BY ContractsDiffer, StakesSumUp, EscrowsSumUp DEF Held, BondInv, FundsOK
<1> HIDE DEF f, g, e, h, p, q
<1> QED BY <1>4, <1>5, <1>6 DEF Covered

LEMMA CancellationsLast ==
    ASSUME DisputeInv, AnyStep, NoneCancelled'
    PROVE  NoneCancelled
<1>1. VerdictInv' /\ \A id \in MarketIds : ~Undecided(id) => market'[id] = market[id]
    BY StepKeepsVerdicts DEF DisputeInv
<1>2. DOMAIN market = MarketIds /\ DOMAIN market' = MarketIds
    BY <1>1 DEF DisputeInv, VerdictInv
<1> QED BY <1>1, <1>2 DEF NoneCancelled, Undecided

LEMMA StepKeepsBonds ==
    ASSUME BondInv, [OracleNext]_systemVars
    PROVE  BondInv'
<1>1. AnyDisputeStep /\ AnyStep /\ DisputeInv'
    BY OracleStepIsOneOfThem, DisputeStepIsAnyStep, StepKeepsDisputes DEF BondInv
<1>2. BondStep
    BY StepMovesBonds
<1>3. ASSUME NoneCancelled'
      PROVE  Covered'
    <2>1. NoneCancelled
        BY <1>1, <1>3, CancellationsLast DEF BondInv
    <2> QED BY <1>2, <1>3, <2>1, NettingKeepsCover, RestingKeepsCover DEF BondStep, BondInv
<1> QED BY <1>1, <1>2, <1>3 DEF BondInv, BondStep

LEMMA BondInvInit ==
    ASSUME SystemInit
    PROVE  BondInv
<1>1. DisputeInv /\ MoneyInv
    BY DisputeInvInit, MoneyInvInit DEF SystemInit
<1>2. \A id \in MarketIds : submission[id].state = "open"
    BY DEF SystemInit, OracleInit, NoSubmission
<1> DEFINE e == [id \in MarketIds |-> Escrow(id)]
<1>3. DOMAIN e = MarketIds /\ \A id \in MarketIds : e[id] = 0
    BY <1>2 DEF Escrow, InDispute
<1>4. AllEscrow = SumFunction(e) /\ IsFiniteSet(MarketIds)
    BY MarketConstants, FS_Interval DEF AllEscrow, MarketIds
<1> HIDE DEF e
<1>5. AllEscrow = 0
    BY <1>3, <1>4, SumOfZeros DEF SumFunction
<1>6. ASSUME NoneCancelled
      PROVE  Covered
    <2>1. AllStakes \in Nat /\ RoundingSteps \in Nat
        BY <1>1, <1>6, StakesSumUp DEF MoneyInv
    <2>2. Solvent
        BY <1>1, <1>6 DEF MoneyInv
    <2> QED BY <1>5, <2>1, <2>2 DEF Solvent, Covered
<1>7. \A id \in MarketIds : BondersOK(id)
    BY <1>2 DEF BondersOK, InDispute
<1> QED BY <1>1, <1>6, <1>7 DEF BondInv, MoneyInv

\* The invariant of the contract's money with bonds in it.
THEOREM BondInvariant == OracleSpec => []BondInv
<1>1. SystemInit => BondInv
    BY BondInvInit
<1>2. BondInv /\ [OracleNext]_systemVars => BondInv'
    BY StepKeepsBonds
<1> QED BY <1>1, <1>2, PTL DEF OracleSpec

\* Until something is cancelled the one balance covers every stake, every bond
\* and the fee pot, and holds nothing else but the roundings: whatever is
\* disputed, ruled, timed out or decided by the admin in mid-dispute, and in
\* whatever order (check_invariant in tests.rs).
THEOREM BondsAlwaysExact == OracleSpec => []BondsAreExact
<1>1. BondInv => BondsAreExact
    <2> SUFFICES ASSUME BondInv, NoneCancelled
                 PROVE  /\ xlm[MarketContract] >= AllStakes + AllEscrow + accFees
                        /\ PaysOthers =>
                              xlm[MarketContract] - (AllStakes + AllEscrow + accFees)
                                  <= InitialXlm[MarketContract] + RoundingSteps
        BY DEF BondsAreExact, BondsAndStakesCovered, EscrowNetsToZero
    <2>1. xlm[MarketContract] \in Nat /\ accFees \in Nat /\ InitialXlm[MarketContract] \in Nat
        BY ContractsDiffer, MarketConstants DEF BondInv, FundsOK
    <2>2. AllStakes \in Nat /\ RoundingSteps \in Nat /\ AllEscrow \in Nat
        BY StakesSumUp, EscrowsSumUp DEF BondInv
    <2>3. Covered
        BY DEF BondInv
    <2> QED BY <2>1, <2>2, <2>3 DEF Covered, Held
<1> QED BY <1>1, BondInvariant, PTL

\* With the oracle's calls between them, too, the totals and indexes of every
\* market are those of its bets.
THEOREM DisputedBooksAgree == OracleSpec => []BooksAgree
<1>1. BondInv => BooksAgree
    BY DEF BondInv, BooksInv, Agrees, BooksAgree
<1> QED BY <1>1, BondInvariant, PTL

-----------------------------------------------------------------------------
(* The records of the other contracts *)

\* A dispute moves XLM and the market, and reaches none of the other contracts.
LEMMA DisputeKeepsRecords ==
    ASSUME NEW id \in MarketIds, DisputeStep(id)
    PROVE  RecordsKept
<1>1. bet' = bet /\ UNCHANGED rewardVars
    BY DEF DisputeStep, SubmitOutcome, Challenge, VoteOnChallenge, ResolveChallenge,
           FinalizeOutcome, FinalizeChallengeTimeout, CancelUnsubmittedMarket,
           MarketCancelledNow, allMarketVars, marketVars, bookVars
<1> QED BY <1>1, SameBetsSameClaims DEF rewardVars, refVars, RecordsKept, CountsKept

LEMMA OracleStepKeepsRecords ==
    ASSUME BondInv, RecordsInv, [OracleNext]_systemVars
    PROVE  RecordsInv'
<1>1. CASE MarketStep
    BY <1>1, StepKeepsRecords DEF MarketStep, MarketNext
<1>2. CASE ParamStep
    <2>1. UNCHANGED allMarketVars
        BY <1>2 DEF ParamStep, SetBondMinimums, SetChallengeWindow, SetCouncilWindow, SetParams
    <2> QED BY <2>1, StepKeepsRecords
<1>3. CASE \E id \in MarketIds : DisputeStep(id)
    <2>1. BooksInv'
        BY StepMovesBonds DEF BondStep
    <2> QED BY <1>3, <2>1, DisputeKeepsRecords, IdleStepKeepsRecords
<1>4. CASE UNCHANGED systemVars
    BY <1>4, StepKeepsRecords DEF systemVars
<1> QED BY <1>1, <1>2, <1>3, <1>4 DEF OracleNext

\* Whatever is disputed, ruled or cancelled between the calls, claims, points,
\* won and lost bets, tokens and referral counts tell the same story, and the
\* leaderboard's list, index and cut-off stay consistent.
THEOREM DisputedRecordsAgree ==
    OracleSpec => [](RewardsMatchClaims /\ ReferralCountsMatch /\ SlotIndexConsistent
                     /\ ListedPointsCurrent /\ CutoffIsLowerBound)
<1>1. SystemInit => RecordsInv
    BY RecordsInvInit DEF SystemInit
<1>2. BondInv /\ RecordsInv /\ [OracleNext]_systemVars => RecordsInv'
    BY OracleStepKeepsRecords
<1>3. RecordsInv => RewardsMatchClaims /\ ReferralCountsMatch /\ SlotIndexConsistent
                    /\ ListedPointsCurrent /\ CutoffIsLowerBound
    BY DEF RecordsInv, ListInv
<1> QED BY <1>1, <1>2, <1>3, BondInvariant, PTL DEF OracleSpec
=============================================================================
