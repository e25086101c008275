----------------------------- MODULE AgentGraph -----------------------------
(***************************************************************************)
(* The nodes and routes of the assistant's state graph (agent/graph.py) as *)
(* functions on the channel values that LangGraph saves in a checkpoint.   *)
(* A node that fails before it returns leaves the values as they were.     *)
(***************************************************************************)
EXTENDS Integers

CONSTANTS
    Plans,           \* ids of replenishment plans
    Scopes,          \* what a draft may ask for: a warehouse and products
    DuplicateLimit,  \* AGENT_TOOL_DUPLICATE_LIMIT
    MaxSteps         \* AGENT_MAX_STEPS

ASSUME GraphConstants ==
    /\ Scopes # {}
    /\ DuplicateLimit \in Nat
    /\ MaxSteps \in Nat

NoPlan == "no plan"
NoDecision == [plan |-> NoPlan, status |-> "none", version |-> 0]

PlanStatus == {"none", "pending_approval", "approved", "rejected", "superseded"}
Decisions == [plan : Plans \cup {NoPlan}, status : PlanStatus, version : Nat]

\* What a message is understood as.  The language model may leave out the
\* warehouse or the window without listing it as missing.
Requests == [kind : {"other", "incomplete", "no_warehouse", "no_window", "complete"},
             scope : Scopes]

Nodes == {"classify", "clarify", "gather_evidence", "draft", "wait", "finalize",
          "respond", "escalate"}
Outcomes == {"none", "clarified", "answered", "approved", "blocked",
             "draft_created", "escalated"}

\* said: the plan and the status in the reply of node_finalize.
Values ==
    [request : Requests, plan : Plans \cup {NoPlan}, needsApproval : BOOLEAN,
     decision : Decisions, outcome : Outcomes, blocked : BOOLEAN, steps : Nat,
     reads : [Scopes -> Nat], drafts : [Scopes -> Nat], said : Decisions]

EmptyValues ==
    [request |-> [kind |-> "other", scope |-> CHOOSE s \in Scopes : TRUE],
     plan |-> NoPlan, needsApproval |-> FALSE, decision |-> NoDecision,
     outcome |-> "none", blocked |-> FALSE, steps |-> 0,
     reads |-> [s \in Scopes |-> 0], drafts |-> [s \in Scopes |-> 0],
     said |-> NoDecision]

\* Faulty: the steps of all turns add up, or a new message lifts the block.
NewTurnCounting(v) == v
NewTurnUnblocked(v) == [v EXCEPT !.steps = 0, !.blocked = FALSE]

\* A new message keeps the values of the earlier turns, but for these.
NewTurn(v) == [v EXCEPT !.steps = 0]

----------------------------------------------------------------------------
(* The guard around every node but escalate *)

GuardTrips(v) == v.blocked \/ v.steps + 1 > MaxSteps

ShortCircuit(v) ==
    [v EXCEPT !.steps = @ + 1, !.blocked = TRUE, !.outcome = "escalated",
              !.needsApproval = FALSE, !.said = NoDecision]

Guarded(v, result) ==
    IF GuardTrips(v) THEN ShortCircuit(v) ELSE [result EXCEPT !.steps = v.steps + 1]

\* Faulty: the call is judged before it is counted.
OverLimitUncounted(count) == count > DuplicateLimit

\* A call with the same tool and arguments is counted before it is judged.
OverLimit(count) == count + 1 > DuplicateLimit

----------------------------------------------------------------------------
(* The nodes *)

Classified(v, request) == Guarded(v, [v EXCEPT !.request = request])

Clarified(v) == Guarded(v, [v EXCEPT !.outcome = "clarified", !.said = NoDecision])

\* Stock, suppliers, demand and rules of the requested products: the calls of
\* one scope are counted, and refused, together.
Gathered(v) ==
    LET s == v.request.scope
        counted == [v EXCEPT !.reads[s] = @ + 1]
    IN  Guarded(v, IF OverLimit(v.reads[s])
                   THEN [counted EXCEPT !.blocked = TRUE, !.outcome = "escalated",
                                        !.said = NoDecision]
                   ELSE counted)

\* The request lacks what the node asserts.
Raises(node, v) ==
    ~GuardTrips(v) /\ node = "gather_evidence" /\ v.request.kind = "no_warehouse"

\* The guards let node_draft call the domain service.
DraftRuns(v) == ~GuardTrips(v) /\ ~OverLimit(v.drafts[v.request.scope])

CountDraft(v) == [v EXCEPT !.drafts[v.request.scope] = @ + 1, !.said = NoDecision]

DraftRefused(v) ==
    Guarded(v, [CountDraft(v) EXCEPT !.blocked = TRUE, !.outcome = "escalated",
                                     !.plan = NoPlan, !.needsApproval = FALSE])

DraftCreated(v, p) ==
    Guarded(v, [CountDraft(v) EXCEPT !.plan = p, !.needsApproval = TRUE,
                                     !.outcome = "draft_created"])

\* The service refuses (say, a missing window) or finds nothing to order:
\* plan_id and needs_approval keep what an earlier turn left in them.
DraftBlocked(v) == Guarded(v, [CountDraft(v) EXCEPT !.outcome = "blocked"])

Waited(v, decision) == Guarded(v, [v EXCEPT !.decision = decision])

\* The reply names the plan of the thread and the status of the decision.
Finalized(v) ==
    Guarded(v, [v EXCEPT !.said = [v.decision EXCEPT !.plan = v.plan],
                         !.outcome = IF v.decision.status = "approved"
                                     THEN "approved" ELSE "answered"])

Responded(v) == Guarded(v, [v EXCEPT !.outcome = "answered", !.said = NoDecision])

Escalated(v) ==
    [v EXCEPT !.outcome = "escalated", !.needsApproval = FALSE, !.blocked = TRUE,
              !.said = NoDecision]

----------------------------------------------------------------------------
(* The routes *)

AfterClassify(v) ==
    IF v.outcome = "escalated" THEN "escalate"
    ELSE CASE v.request.kind = "other"         -> "respond"
           [] v.request.kind = "incomplete"    -> "clarify"
           [] OTHER                            -> "gather_evidence"

AfterEvidence(v) == IF v.outcome = "escalated" THEN "escalate" ELSE "draft"

\* A blocked draft goes to the waiting point too.
AfterDraft(v) == IF v.outcome = "escalated" THEN "escalate" ELSE "wait"
=============================================================================
