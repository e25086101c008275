-------------------------- MODULE MCPurchaseOrder --------------------------
(* Small instances of PurchaseOrder for TLC. *)
EXTENDS PurchaseOrder, TLC

CONSTANTS l1, l2, l3

\* A line of two units, so that it can be received in parts, and one of one.
TwoLineQty == (l1 :> 2) @@ (l2 :> 1)

\* ... and one of no units, which older orders may have.
ThreeLineQty == TwoLineQty @@ (l3 :> 0)
OneLineQty == (l1 :> 1)

HandlerSymmetry == Permutations(Handlers)

\* The starving run needs no more than three versions of the order.
EarlyVersions == po.version <= 3
=============================================================================
