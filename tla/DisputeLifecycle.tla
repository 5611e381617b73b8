-------------------------- MODULE DisputeLifecycle --------------------------
(***************************************************************************)
(* What the optimistic oracle promises about each market: a dispute only   *)
(* ever moves forward, a verdict is given once and stays, an outcome that  *)
(* was posted and challenged is settled together with a verdict, and the   *)
(* bonds are held from the posting to the settlement, no longer and no     *)
(* less.  The admin may give the verdict at any time before.               *)
(***************************************************************************)
EXTENDS Integers

CONSTANT Markets

VARIABLES
    stage,      \* how far the dispute of each market is
    verdict,    \* "none" until given
    escrow      \* the bonds held

vars == <<stage, verdict, escrow>>

Verdicts == {"yes", "no", "cancelled"}

Init ==
    /\ stage = [m \in Markets |-> "open"]
    /\ verdict = [m \in Markets |-> "none"]
    /\ escrow = [m \in Markets |-> 0]

Moved(m, to) == stage' = [stage EXCEPT ![m] = to]
Held(m, amount) == escrow' = [escrow EXCEPT ![m] = amount]
Given(m, v) == verdict' = [verdict EXCEPT ![m] = v]

Post(m) ==
    /\ stage[m] = "open" /\ verdict[m] = "none"
    /\ Moved(m, "submitted")
    /\ escrow'[m] > 0 /\ Held(m, escrow'[m])
    /\ UNCHANGED verdict

\* The challenger's bond is larger than the submitter's.
Dispute(m) ==
    /\ stage[m] = "submitted" /\ verdict[m] = "none"
    /\ Moved(m, "escalated")
    /\ escrow'[m] > 2 * escrow[m] /\ Held(m, escrow'[m])
    /\ UNCHANGED verdict

\* Settling gives the verdict unless there is one: a settlement never cancels.
Settle(m) ==
    /\ stage[m] \in {"submitted", "escalated"}
    /\ Moved(m, "finalized")
    /\ Held(m, 0)
    /\ IF verdict[m] = "none" THEN \E v \in {"yes", "no"} : Given(m, v) ELSE UNCHANGED verdict

Decide(m) ==
    /\ verdict[m] = "none"
    /\ \E v \in Verdicts : Given(m, v)
    /\ UNCHANGED <<stage, escrow>>

Next == \E m \in Markets : Post(m) \/ Dispute(m) \/ Settle(m) \/ Decide(m)

Spec == Init /\ [][Next]_vars
=============================================================================
