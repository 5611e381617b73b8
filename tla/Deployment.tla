----------------------------- MODULE Deployment -----------------------------
(***************************************************************************)
(* Bringing the four contracts up, one transaction at a time, while users  *)
(* may already call them: the sequence of scripts/deploy-testnet.sh, and   *)
(* that of the contract tests' setup.                                      *)
(***************************************************************************)
EXTENDS PredictionMarket

CONSTANT Script     \* the sequence of deployment transactions that is run

VARIABLE done       \* how many of them are

deployVars == <<allMarketVars, done>>

\* scripts/deploy-testnet.sh
TestnetScript == <<"token", "leaderboard", "referral", "market",
                   "mint: market", "mint: referral">>
\* setup in tests.rs
SetupScript == <<"token", "market", "leaderboard", "referral",
                 "set_token", "mint: leaderboard", "mint: market", "mint: referral">>

TokenStep(step) ==
    /\ \/ step = "token" /\ TokenInitialize(Deployer)
       \/ step = "mint: leaderboard" /\ SetMinter(LeaderboardContract)
       \/ step = "mint: market" /\ SetMinter(MarketContract)
       \/ step = "mint: referral" /\ SetMinter(ReferralContract)
    /\ UNCHANGED <<marketVars, lbVars, refVars, xlm>>

\* A slip: set_token answers without storing the address.
LeaderboardStep_TokenLost(step) ==
    /\ \/ step = "leaderboard" /\ LbInitialize(Deployer, MarketContract, ReferralContract)
       \/ step = "set_token" /\ UNCHANGED <<lbVars, tokenVars>>
    /\ UNCHANGED <<marketVars, refVars, xlm>>

LeaderboardStep(step) ==
    /\ \/ step = "leaderboard" /\ LbInitialize(Deployer, MarketContract, ReferralContract)
       \/ step = "set_token" /\ SetToken(Deployer, TokenContract)
    /\ UNCHANGED <<marketVars, refVars, xlm>>

Deploy ==
    /\ done < Len(Script)
    /\ done' = done + 1
    /\ \/ TokenStep(Script[done + 1])
       \/ LeaderboardStep(Script[done + 1])
       \/ Script[done + 1] = "referral" /\ RegistryDeployed
       \/ Script[done + 1] = "market" /\ MarketDeployed

\* The setup calls are made by the script alone.
Operate ==
    /\ \/ \E d \in Durations : MayCreate /\ CreateMarket(Deployer, d)
       \/ CallerStep
       \/ Tick
    /\ UNCHANGED done

DeploymentInit ==
    /\ TokenInit
    /\ LeaderboardInit
    /\ ReferralInit
    /\ MarketInit
    /\ xlm = InitialXlm
    /\ done = 0

DeploymentNext == Deploy \/ Operate

DeploymentSpec == DeploymentInit /\ [][DeploymentNext]_deployVars

-----------------------------------------------------------------------------

\* Whatever was called before the last transaction of the script, once it is in
\* the system serves its users: a registration that is not there yet succeeds,
\* and so does the claim of every bet on a resolved market.
RegistrationsNeverBlocked ==
    \A u \in Bettors, r \in Referrers : ~profile[u].registered => ENABLED Register(u, r)
DeployedServesUsers ==
    done = Len(Script) => RegistrationsNeverBlocked /\ ClaimsNeverBlocked
=============================================================================
