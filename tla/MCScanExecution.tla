--------------------------- MODULE MCScanExecution ---------------------------
(* An instance of ScanExecution for TLC. *)
EXTENDS ScanExecution, TLC

Once == {{1}}
Twice == {{1, 2}}

\* A sparse schedule and a dense one.
SparseAndDense == {{3}, {1, 2, 3}}

CONSTANTS p1, p2

AnyInputs == [Products -> {"ok", "blocked", "broken"}]
OneBroken == {(p1 :> "ok") @@ (p2 :> "broken")}
=============================================================================
