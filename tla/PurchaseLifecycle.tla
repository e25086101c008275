------------------------- MODULE PurchaseLifecycle -------------------------
(***************************************************************************)
(* What placing a purchase order promises, without sessions, attempts or   *)
(* messages: the order moves along the table of permitted transitions, the *)
(* supplier holds at most one order for it, and the status tells the truth *)
(* about that order whenever it claims to know.                            *)
(***************************************************************************)
EXTENDS Naturals

VARIABLES
    status,    \* status of the purchase order
    external   \* number of orders the supplier holds for it

vars == <<status, external>>

Open == {"ordering", "order_unknown"}

Init == status = "po_created" /\ external = 0

Place ==
    /\ status = "po_created" /\ external = 0
    /\ status' = "ordering"
    /\ UNCHANGED external

\* The supplier creates the order: once, and only while the outcome is open.
Accept ==
    /\ status \in Open /\ external = 0
    /\ external' = 1
    /\ UNCHANGED status

LoseTrack == status = "ordering" /\ status' = "order_unknown" /\ UNCHANGED external

Confirm ==
    /\ status \in Open /\ external = 1
    /\ status' = "ordered"
    /\ UNCHANGED external

\* Back to po_created only when the supplier holds no order, for good.
GiveUp ==
    /\ status \in Open /\ external = 0
    /\ status' = "po_created"
    /\ UNCHANGED external

Cancel ==
    /\ status = "po_created" /\ external = 0
    /\ status' = "cancelled"
    /\ UNCHANGED external

Receive ==
    /\ status \in {"ordered", "partially_received"} /\ external = 1
    /\ status' \in {"partially_received", "received"}
    /\ UNCHANGED external

Close == status = "received" /\ status' = "closed" /\ UNCHANGED external

Settle == Confirm \/ GiveUp

Next ==
    \/ Place \/ Accept \/ LoseTrack \/ Settle
    \/ Cancel \/ Receive \/ Close

Spec == Init /\ [][Next]_vars
=============================================================================
