------------------------- MODULE MCOptimisticOracle -------------------------
(***************************************************************************)
(* The whole market contract, with its optimistic oracle.  A behaviour is  *)
(* one of the part that focus names, of those in Parts:                    *)
(*   "dispute"  a bet, a dispute over it and the calls anyone may make,    *)
(*              which somebody makes once they are due;                    *)
(*   "council"  two council members, and an admin who changes the bonds    *)
(*              and windows at any time; nobody has to act.                *)
(***************************************************************************)
EXTENDS OptimisticOracle, TLC

CONSTANTS Parts, Contracts, Users, Member, BetFunds, BondFunds

VARIABLE focus

MCAddress    == Contracts \cup Users \cup {Deployer}
MCInitialXlm == [a \in MCAddress |->
                    IF a \in Bettors THEN BetFunds
                    ELSE IF a \in Submitters \cup Challengers THEN BondFunds ELSE 0]

MCDefaultParams == [submitterBond |-> 10, disputerBond |-> 20,
                    challengeWindow |-> 1, councilWindow |-> 2]
NoBondChoices == {}
NoConfigChoices == {}

Sitting == INSTANCE OptimisticOracle WITH
    Bettors <- {}, Officials <- Officials \cup {Member}, MaxTime <- 4,
    BondAmounts <- {10, 15, 21}, WindowChoices <- {0, 2},
    BondChoices <- {<<10, 20>>, <<20, 10>>, <<15, 21>>, <<0, 20>>}

-----------------------------------------------------------------------------
Init == focus \in Parts /\ SystemInit

Next == \/ focus = "dispute" /\ OracleNext /\ UNCHANGED focus
        \/ focus = "council" /\ Sitting!OracleNext /\ UNCHANGED focus

vars == <<systemVars, focus>>

Fairness ==
    /\ WF_vars(focus = "dispute" /\ Tick /\ UNCHANGED <<oracleVars, focus>>)
    /\ \A id \in MarketIds :
          /\ WF_vars(focus = "dispute" /\ FinalizeOutcome(id) /\ UNCHANGED focus)
          /\ WF_vars(focus = "dispute" /\ FinalizeChallengeTimeout(id) /\ UNCHANGED focus)
          /\ WF_vars(focus = "dispute" /\ CancelUnsubmittedMarket(id) /\ UNCHANGED focus)

Spec == Init /\ [][Next]_vars /\ Fairness

-----------------------------------------------------------------------------
\* With the calls anyone may make, no market stays undecided and no bond held.
DisputesEnd == focus = "dispute" => EveryMarketDecided /\ BondsReleased
=============================================================================
