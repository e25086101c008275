------------------------ MODULE MCReplenishmentPlan ------------------------
(* Instances of ReplenishmentPlan for TLC. *)
EXTENDS ReplenishmentPlan, TLC

OneProduct == {1}
TwoProducts == {1, 2}
\* Line 2 of plan 1 has quantity 0.
OneZeroLine == {<<1, 2>>}
NoZeroLine == {}

AllCommands == {"draft", "decide", "create", "supersede"}
PlainCommands == {"draft", "decide", "create"}
Drafting == {"draft"}
DraftingAndDeciding == {"draft", "decide"}
DraftingAndRevising == {"draft", "supersede"}

\* Alerts are written and never read: a VIEW for properties that do not name them,
\* under which states that differ only in the open alerts are explored once.
WithoutAlerts == <<plan, line, ordered, inputs, resume, sess>>

HandlerSymmetry == Permutations(Handlers)
=============================================================================
