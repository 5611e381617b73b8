--------------------------- MODULE MCLeaderboard ---------------------------
(***************************************************************************)
(* The reward contracts on their own.  "leaderboard": four players compete *)
(* for three slots, two to a page - fills, updates, evictions, ties, a     *)
(* short last page - and U64Max is small enough for a total to reach it.   *)
(* "token": three holders pass the IPRED token around.  A behaviour is one *)
(* of the part that focus names.                                           *)
(***************************************************************************)
EXTENDS Leaderboard

VARIABLE focus

rewardVars == <<lbVars, tokenVars>>

\* Amounts include zero and a negative one.
Token == INSTANCE IPredictToken WITH
    Address <- {LeaderboardContract, MarketContract, ReferralContract},
    TokenAmounts <- {-1, 0, 1, 2}, SupplyCap <- 4

Init == \/ focus = "leaderboard" /\ LeaderboardInit /\ TokenInit
        \/ focus = "token" /\ LeaderboardInit /\ Token!TokenInit

Next == \/ focus = "leaderboard" /\ LeaderboardNext /\ UNCHANGED focus
        \/ focus = "token" /\ Token!TokenNext /\ UNCHANGED <<lbVars, focus>>

Spec == Init /\ [][Next]_<<rewardVars, focus>>

Symmetry == Permutations(Players)

-----------------------------------------------------------------------------
\* The two ways in which clients read the list agree with it and each other.
ViewsAgree == PagesCoverTheList /\ RankIsPlaceInListing
=============================================================================
