-------------------------- MODULE OptimisticOracle --------------------------
(***************************************************************************)
(* The whole market contract: PredictionMarket plus its optimistic oracle. *)
(* Anyone posts an outcome for an expired market with a bond; a larger bond*)
(* within the challenge window escalates it to the council; otherwise it   *)
(* finalizes.  The admin may resolve or cancel the market at any point of  *)
(* a dispute, and anyone may cancel a market nobody submitted for.         *)
(* submitted_at, escalated_at and finalized_at are written and never read  *)
(* by the contract; they are left out.                                     *)
(***************************************************************************)
EXTENDS PredictionMarket

CONSTANTS
    CancellationDeadline,               \* CANCELLATION_DEADLINE
    DefaultParams,                      \* SUBMITTER_BOND .. COUNCIL_WINDOW
    \* who takes part in OracleNext, and with what
    Submitters, Challengers, BondAmounts,
    BondChoices, WindowChoices          \* what the admin sets the minimums and windows to

OracleParams == [submitterBond : Nat \ {0}, disputerBond : Nat \ {0},
                 challengeWindow : Nat \ {0}, councilWindow : Nat \ {0}]

ASSUME OracleConstants ==
    /\ CancellationDeadline \in Nat
    /\ DefaultParams \in OracleParams
    /\ Submitters \cup Challengers \subseteq Address
    /\ BondAmounts \subseteq Nat
    /\ BondChoices \subseteq Int \X Int /\ WindowChoices \subseteq Nat
    \* as bettors do
    /\ MarketContract \notin Submitters \cup Challengers

VARIABLES
    params,         \* SubmitterBond, DisputerBond, ChallengeWindow, CouncilWindow
    submission,     \* Submission(id), NoSubmission when absent
    vote,           \* CouncilVote(id, member)
    voteCount       \* CouncilVoteCount(id)

oracleVars == <<params, submission, vote, voteCount>>
systemVars == <<allMarketVars, oracleVars>>

NoSubmission == [state |-> "open", submitter |-> Nobody, outcome |-> FALSE, bond |-> 0,
                 challengeDeadline |-> 0, challenger |-> Nobody, challengerBond |-> 0,
                 councilDeadline |-> 0]

OracleInit ==
    /\ params = DefaultParams
    /\ submission = [id \in MarketIds |-> NoSubmission]
    /\ vote = [id \in MarketIds |-> [m \in Address |-> "none"]]
    /\ voteCount = [id \in MarketIds |-> 0]

-----------------------------------------------------------------------------
(* Parameters *)

SetParams(admin, newParams) ==
    /\ mktCfg.admin = admin
    /\ params' = newParams
    /\ UNCHANGED <<submission, vote, voteCount, allMarketVars>>

\* A slip: a submitter bond of zero is accepted.
SetBondMinimums_Free(admin, submitterBond, disputerBond) ==
    /\ disputerBond > submitterBond
    /\ SetParams(admin, [params EXCEPT !.submitterBond = submitterBond,
                                       !.disputerBond = disputerBond])

SetBondMinimums(admin, submitterBond, disputerBond) ==
    /\ submitterBond > 0 /\ disputerBond > submitterBond
    /\ SetParams(admin, [params EXCEPT !.submitterBond = submitterBond,
                                       !.disputerBond = disputerBond])

SetChallengeWindow(admin, window) ==
    window # 0 /\ SetParams(admin, [params EXCEPT !.challengeWindow = window])

SetCouncilWindow(admin, window) ==
    window # 0 /\ SetParams(admin, [params EXCEPT !.councilWindow = window])

-----------------------------------------------------------------------------
(* Submission and challenge *)

BondEscrowed(from, amount) ==
    mktCfg.xlm = XlmContract /\ XlmTransfer(from, MarketContract, amount)

\* A slip: an outcome may be posted while bets are still taken.
MaySubmit_Early(id, bond) ==
    /\ bond >= params.submitterBond
    /\ Exists(id) /\ Undecided(id)
    /\ submission[id].state = "open"

MaySubmit(id, bond) ==
    /\ bond >= params.submitterBond
    /\ Exists(id) /\ Undecided(id) /\ Expired(id)
    /\ submission[id].state = "open"

SubmitOutcome(submitter, id, outcome, bond) ==
    /\ MaySubmit(id, bond)
    /\ BondEscrowed(submitter, bond)
    /\ submission' = [submission EXCEPT ![id] =
          [NoSubmission EXCEPT !.state = "submitted", !.submitter = submitter,
                               !.outcome = outcome, !.bond = bond,
                               !.challengeDeadline = now + params.challengeWindow]]
    /\ UNCHANGED <<params, vote, voteCount, marketVars, rewardVars>>

Escalated(id, challenger, bond) ==
    submission' = [submission EXCEPT ![id] =
        [@ EXCEPT !.state = "escalated", !.challenger = challenger, !.challengerBond = bond,
                  !.councilDeadline = now + params.councilWindow]]

\* A slip: a challenge is taken whatever became of the market meanwhile.
MayChallenge_Undecided(id, bond) ==
    /\ submission[id].state = "submitted"
    /\ now < submission[id].challengeDeadline
    /\ bond >= params.disputerBond /\ bond > submission[id].bond

MayChallenge(id, bond) ==
    /\ submission[id].state = "submitted"
    /\ now < submission[id].challengeDeadline
    /\ bond >= params.disputerBond /\ bond > submission[id].bond
    /\ Undecided(id)

Challenge(challenger, id, bond) ==
    /\ MayChallenge(id, bond)
    /\ BondEscrowed(challenger, bond)
    /\ Escalated(id, challenger, bond)
    /\ UNCHANGED <<params, vote, voteCount, marketVars, rewardVars>>

-----------------------------------------------------------------------------
(* Settlement: bonds leave the escrow, then the verdict is applied unless   *)
(* the admin decided the market while the dispute was open.                 *)

Settled(id) == submission' = [submission EXCEPT ![id].state = "finalized"]

VerdictApplied(id, outcome, credit) ==
    IF Undecided(id)
    THEN MarketResolvedTo(id, outcome) /\ accFees' = accFees + credit + Swept(id, outcome)
    ELSE UNCHANGED market /\ accFees' = accFees + credit

\* Two payments out of the escrow, in this order; one of 0 is not made.
BondsPaid(first, firstAmount, second, secondAmount) ==
    LET between == Transferred(xlm, MarketContract, first, firstAmount) IN
    /\ mktCfg.xlm = XlmContract
    /\ firstAmount > 0 => Affordable(xlm, MarketContract, firstAmount)
    /\ secondAmount > 0 => Affordable(between, MarketContract, secondAmount)
    /\ xlm' = Transferred(between, MarketContract, second, secondAmount)

\* A slip: the finalizer refuses a market the admin has decided meanwhile.
Unchallenged_Undecided(id) ==
    /\ submission[id].state = "submitted"
    /\ now >= submission[id].challengeDeadline
    /\ Undecided(id)

Unchallenged(id) ==
    /\ submission[id].state = "submitted"
    /\ now >= submission[id].challengeDeadline

FinalizeOutcome(id) ==
    /\ Unchallenged(id)
    /\ mktCfg.xlm = XlmContract
    /\ XlmTransfer(MarketContract, submission[id].submitter, submission[id].bond)
    /\ VerdictApplied(id, submission[id].outcome, 0)
    /\ Settled(id)
    /\ UNCHANGED <<params, vote, voteCount, now, roleVars, marketCount, bet, bettors,
                   hasReferrer, rateWindow, rewardVars>>

\* A slip: a member may vote again.
MayVote_Again(member, id) ==
    /\ member \in AdminOrResolver
    /\ submission[id].state = "escalated"
    /\ voteCount[id] < 4

MayVote(member, id) ==
    /\ member \in AdminOrResolver
    /\ submission[id].state = "escalated"
    /\ vote[id][member] = "none"

VoteOnChallenge(member, id, outcome) ==
    /\ MayVote(member, id)
    /\ vote' = [vote EXCEPT ![id][member] = IF outcome THEN "yes" ELSE "no"]
    /\ voteCount' = [voteCount EXCEPT ![id] = @ + 1]
    /\ UNCHANGED <<params, submission, allMarketVars>>

CouncilSize      == Cardinality(resolvers)
CouncilThreshold == IF CouncilSize > 0 THEN CouncilSize \div 2 + 1 ELSE 1
SubmitterWon(id, outcome) == outcome = submission[id].outcome
LoserBond(id, outcome) == IF SubmitterWon(id, outcome) THEN submission[id].challengerBond
                                                       ELSE submission[id].bond
CouncilFee(bond) == (bond * 1000) \div 10000
WinnerShare(id, outcome) ==
    IF SubmitterWon(id, outcome) THEN LoserBond(id, outcome) \div 2
    ELSE LoserBond(id, outcome) - CouncilFee(LoserBond(id, outcome))
SubmitterPayout(id, outcome) ==
    IF SubmitterWon(id, outcome) THEN submission[id].bond + WinnerShare(id, outcome) ELSE 0
ChallengerPayout(id, outcome) ==
    IF SubmitterWon(id, outcome) THEN 0
    ELSE submission[id].challengerBond + WinnerShare(id, outcome)

\* A slip: the whole losing bond is credited, the winner's share included.
ProtocolCredit_All(id, outcome) == LoserBond(id, outcome)

\* A slip: the remainder is credited to nobody.
ProtocolCredit_None(id, outcome) == 0

ProtocolCredit(id, outcome) == LoserBond(id, outcome) - WinnerShare(id, outcome)

ResolveChallenge(caller, id, outcome) ==
    /\ caller \in AdminOrResolver
    /\ submission[id].state = "escalated"
    /\ now >= submission[id].councilDeadline
    /\ voteCount[id] >= CouncilThreshold
    /\ BondsPaid(submission[id].submitter, SubmitterPayout(id, outcome),
                 submission[id].challenger, ChallengerPayout(id, outcome))
    /\ VerdictApplied(id, outcome, ProtocolCredit(id, outcome))
    /\ Settled(id)
    /\ UNCHANGED <<params, vote, voteCount, now, roleVars, marketCount, bet, bettors,
                   hasReferrer, rateWindow, rewardVars>>

\* A slip: the timeout waits for the votes that a ruling needs.
CouncilTimedOut_Voted(id) ==
    /\ submission[id].state = "escalated"
    /\ now >= submission[id].councilDeadline
    /\ voteCount[id] >= CouncilThreshold

CouncilTimedOut(id) ==
    /\ submission[id].state = "escalated"
    /\ now >= submission[id].councilDeadline

FinalizeChallengeTimeout(id) ==
    /\ CouncilTimedOut(id)
    /\ BondsPaid(submission[id].submitter, submission[id].bond,
                 submission[id].challenger, submission[id].challengerBond)
    /\ VerdictApplied(id, submission[id].outcome, 0)
    /\ Settled(id)
    /\ UNCHANGED <<params, vote, voteCount, now, roleVars, marketCount, bet, bettors,
                   hasReferrer, rateWindow, rewardVars>>

CancelUnsubmittedMarket(id) ==
    /\ Expired(id)
    /\ submission[id].state = "open"
    /\ now >= market[id].endTime + CancellationDeadline
    /\ MarketCancelledNow(id)
    /\ UNCHANGED oracleVars

-----------------------------------------------------------------------------
(* The whole contract *)

SystemInit == DeployedInit /\ OracleInit

Council == {Deployer} \cup Officials

\* Bounds of the model: a market, a submission and a challenge are only taken
\* while the clock can still reach every deadline they lead to.
InTime(duration) == now + duration <= MaxTime

MarketStep ==
    /\ AdminStep \/ CallerStep \/ Tick
    /\ UNCHANGED oracleVars

ParamStep ==
    \/ \E b \in BondChoices : SetBondMinimums(Deployer, b[1], b[2])
    \/ \E w \in WindowChoices : SetChallengeWindow(Deployer, w) \/ SetCouncilWindow(Deployer, w)

DisputeStep(id) ==
    \/ \E s \in Submitters, o \in BOOLEAN, b \in BondAmounts :
          InTime(params.challengeWindow + params.councilWindow) /\ SubmitOutcome(s, id, o, b)
    \/ \E c \in Challengers, b \in BondAmounts :
          InTime(params.councilWindow) /\ Challenge(c, id, b)
    \/ \E m \in Council, o \in BOOLEAN :
          VoteOnChallenge(m, id, o) \/ ResolveChallenge(m, id, o)
    \/ FinalizeOutcome(id)
    \/ FinalizeChallengeTimeout(id)
    \/ CancelUnsubmittedMarket(id)

OracleNext == MarketStep \/ ParamStep \/ (\E id \in MarketIds : DisputeStep(id))

OracleSpec == SystemInit /\ [][OracleNext]_systemVars

\* Ledgers keep closing, and somebody makes the calls that anyone may make
\* once they are due.  No admin, resolver, bettor or bonder has to act.
OracleFairness ==
    /\ WF_systemVars(Tick /\ UNCHANGED oracleVars)
    /\ \A id \in MarketIds :
          /\ WF_systemVars(FinalizeOutcome(id))
          /\ WF_systemVars(FinalizeChallengeTimeout(id))
          /\ WF_systemVars(CancelUnsubmittedMarket(id))

FairOracleSpec == OracleSpec /\ OracleFairness

-----------------------------------------------------------------------------
(* Properties *)

OracleTypeOK ==
    /\ params \in OracleParams
    /\ submission \in [MarketIds ->
          [state : {"open", "submitted", "escalated", "finalized"},
           submitter : Address \cup {Nobody}, outcome : BOOLEAN, bond : Nat,
           challengeDeadline : Nat, challenger : Address \cup {Nobody},
           challengerBond : Nat, councilDeadline : Nat]]
    /\ vote \in [MarketIds -> [Address -> {"none", "yes", "no"}]]
    /\ voteCount \in [MarketIds -> Nat]

InDispute(id) == submission[id].state \in {"submitted", "escalated"}
Escrow(id) == IF InDispute(id) THEN submission[id].bond + submission[id].challengerBond ELSE 0
AllEscrow  == SumFunction([id \in MarketIds |-> Escrow(id)])

\* check_invariant (tests.rs:103) with bonds, while nothing is cancelled: the
\* escrowed bonds, the stakes and the fee pot are all there at the same time...
BondsAndStakesCovered ==
    NoneCancelled => xlm[MarketContract] >= AllStakes + AllEscrow + accFees

\* ... and a settlement leaves nothing of the bonds behind but what it credits
\* to the pot: what is held beyond that is the rounding of fees and payouts.
EscrowNetsToZero ==
    NoneCancelled /\ PaysOthers =>
        xlm[MarketContract] - (AllStakes + AllEscrow + accFees)
            <= InitialXlm[MarketContract] + RoundingSteps

BondsAreExact == BondsAndStakesCovered /\ EscrowNetsToZero

\* Bonds are only escrowed on expired markets, so no bet is taken once an
\* outcome is posted: the stakes a submitter looked at are those it settles.
SubmissionFreezesStakes ==
    [][\A id \in MarketIds : submission[id].state # "open" =>
          [market'[id] EXCEPT !.resolved = FALSE, !.outcome = FALSE, !.cancelled = FALSE]
        = [market[id] EXCEPT !.resolved = FALSE, !.outcome = FALSE, !.cancelled = FALSE]]_systemVars

\* The count the council threshold is compared with is the number of distinct
\* members whose vote is recorded, and votes only exist for escalated disputes.
Voters(id) == {m \in Address : vote[id][m] # "none"}
VotesAreCounted ==
    /\ OracleTypeOK
    /\ \A id \in MarketIds :
          /\ voteCount[id] = Cardinality(Voters(id))
          /\ voteCount[id] > 0 => submission[id].challenger # Nobody

\* The contract implements DisputeLifecycle, whatever bets, claims, refunds,
\* withdrawals and parameter changes happen in between.
Verdict(id) == IF market[id].cancelled THEN "cancelled"
               ELSE IF ~market[id].resolved THEN "none"
               ELSE IF market[id].outcome THEN "yes" ELSE "no"

Lifecycle == INSTANCE DisputeLifecycle WITH
    Markets <- MarketIds,
    stage   <- [id \in MarketIds |-> submission[id].state],
    verdict <- [id \in MarketIds |-> Verdict(id)],
    escrow  <- [id \in MarketIds |-> Escrow(id)]

FollowsLifecycle == Lifecycle!Spec

\* Whatever the admin and the council do or fail to do, every market is decided.
EveryMarketDecided ==
    \A id \in MarketIds : Exists(id) ~> ~Undecided(id)

\* ORACLE_AND_BACKEND.md: the finalizers still run when the admin decides the
\* market in mid-dispute, so bonds are never stranded in escrow.
BondsReleased ==
    \A id \in MarketIds : InDispute(id) ~> ~InDispute(id)
=============================================================================
