--------------------------- MODULE PlanLifecycle ---------------------------
(***************************************************************************)
(* What the approval of replenishment plans promises, without lines, locks *)
(* or sessions: a plan is decided once, its purchase orders are made once, *)
(* only after approval, and a plan is replaced only before that.           *)
(***************************************************************************)

CONSTANT Plans

VARIABLES
    status,    \* status of each plan, "none" before it is drafted
    hasOrder   \* whether purchase orders were made from the plan

vars == <<status, hasOrder>>

Init ==
    /\ status = [k \in Plans |-> "none"]
    /\ hasOrder = [k \in Plans |-> FALSE]

Draft(k) ==
    /\ status[k] = "none"
    /\ status' = [status EXCEPT ![k] = "pending_approval"]
    /\ UNCHANGED hasOrder

Decide(k) ==
    /\ status[k] = "pending_approval"
    /\ \E outcome \in {"approved", "rejected"} : status' = [status EXCEPT ![k] = outcome]
    /\ UNCHANGED hasOrder

CreateOrders(k) ==
    /\ status[k] = "approved" /\ ~hasOrder[k]
    /\ hasOrder' = [hasOrder EXCEPT ![k] = TRUE]
    /\ UNCHANGED status

\* The revision appears in the step that ends the old plan.
Replace(old, new) ==
    /\ status[old] \in {"pending_approval", "approved"} /\ ~hasOrder[old]
    /\ status[new] = "none"
    /\ status' = [status EXCEPT ![old] = "superseded", ![new] = "pending_approval"]
    /\ UNCHANGED hasOrder

Next ==
    \/ \E k \in Plans : Draft(k) \/ Decide(k) \/ CreateOrders(k)
    \/ \E old, new \in Plans : Replace(old, new)

Spec == Init /\ [][Next]_vars
=============================================================================
