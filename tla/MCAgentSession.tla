--------------------------- MODULE MCAgentSession ---------------------------
(* Instances of AgentSession for TLC. *)
EXTENDS AgentSession, TLC

\* Messages of every kind; the scope of an incomplete one does not matter.
AnyScope == CHOOSE s \in Scopes : TRUE
Complete == [kind : {"complete"}, scope : Scopes]
AllInputs ==
    Complete \cup [kind : {"other", "incomplete", "no_warehouse", "no_window"},
                   scope : {AnyScope}]

\* Complete requests, and one without a warehouse.
PoisonInputs ==
    Complete \cup [kind : {"no_warehouse"}, scope : {AnyScope}]
=============================================================================
