------------------------- MODULE MCPredictionMarket -------------------------
(***************************************************************************)
(* The market contract with the contracts it calls.  A behaviour is one of *)
(* the part that focus names, of those in Parts:                           *)
(*   "pool"     one market, two bettors with two bets each, a referrer and *)
(*              a treasury;                                                *)
(*   "markets"  two markets over one fee pot;                              *)
(*   "admin"    the setup calls and the creation of four markets;          *)
(*   "deployment"  a user who calls while Script deploys the contracts.    *)
(* Amounts are in units small enough for the rounding of the 2% fee to     *)
(* show: 50 pays its whole fee to the referral part, 199 loses a unit.     *)
(***************************************************************************)
EXTENDS Deployment, TLC

CONSTANTS Parts, Contracts, Users, Funds, Guest, Officer

VARIABLE focus

MCAddress    == Contracts \cup Users \cup {Deployer}
MCInitialXlm == [a \in MCAddress |-> IF a \in Bettors \cup {Guest} THEN Funds ELSE 0]
NoConfigChoices == {}

RightConfig == [referral |-> ReferralContract, leaderboard |-> LeaderboardContract,
                xlm |-> XlmContract]
\* Addresses that no leaderboard and no XLM contract answers at, and the fix.
ConfigMistakes == {RightConfig, [RightConfig EXCEPT !.leaderboard = TokenContract,
                                                    !.xlm = TokenContract]}

Symmetry == Permutations(Bettors)

Markets == INSTANCE PredictionMarket WITH
    MaxBetsPerUser <- 1, BetAmounts <- {199}, Referrers <- {},
    MaxMarkets <- 2, MaxMarketsPerWindow <- 2,
    InitialXlm <- [a \in MCAddress |-> IF a \in Bettors THEN 398 ELSE 0]

Admin == INSTANCE PredictionMarket WITH
    Bettors <- {Guest}, BetAmounts <- {50}, Referrers <- {}, Durations <- {2},
    Officials <- {Officer}, Collectors <- {Officer}, Treasuries <- {Officer},
    ConfigChoices <- ConfigMistakes, MaxMarkets <- 4, LastCreation <- 4, MaxTime <- 4,
    InitialXlm <- [a \in MCAddress |-> IF a = Guest THEN 50 ELSE 0]

Deployed == INSTANCE Deployment WITH
    Bettors <- {Guest}, Referrers <- {Officer, Nobody}, BetAmounts <- {100}, MaxBetsPerUser <- 1

-----------------------------------------------------------------------------
Init ==
    /\ focus \in Parts
    /\ \/ focus = "pool" /\ DeployedInit /\ done = 0
       \/ focus = "markets" /\ Markets!DeployedInit /\ done = 0
       \/ focus = "admin" /\ Admin!DeployedInit /\ done = 0
       \/ focus = "deployment" /\ Deployed!DeploymentInit

Next ==
    \/ focus = "pool" /\ MarketNext /\ UNCHANGED <<focus, done>>
    \/ focus = "markets" /\ Markets!MarketNext /\ UNCHANGED <<focus, done>>
    \/ focus = "admin" /\ Admin!MarketNext /\ UNCHANGED <<focus, done>>
    \/ focus = "deployment" /\ Deployed!DeploymentNext /\ UNCHANGED focus

Spec == Init /\ [][Next]_<<deployVars, focus>>

-----------------------------------------------------------------------------
\* With every variable in its type, no balance and no refusing contract stands
\* between a bettor and a claim, and when all are paid no more than dust is left.
\* Over one fee pot the markets stay solvent in any order of cancellations,
\* refunds, sweeps, claims and withdrawals: as long as none is cancelled, or
\* no fee has left the contract.
PoolPaysClaims ==
    /\ focus = "pool" => MarketTypeOK /\ ClaimsNeverBlocked /\ OnlyDustIsStranded
    /\ focus = "markets" => Markets!SolventUntilCancelled /\ Markets!SolventWhileFeesStay

\* After the last transaction of Script users can register and claim, although
\* they may have called from the first transaction on.
ScriptServesUsers == focus = "deployment" => Deployed!DeployedServesUsers
=============================================================================
