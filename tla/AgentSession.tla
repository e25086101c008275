---------------------------- MODULE AgentSession ----------------------------
(***************************************************************************)
(* Conversations with the assistant: turns and resumes of the state graph  *)
(* of AgentGraph over the checkpoints of their threads, the plans they     *)
(* draft, the decisions taken on those plans, and the workflow_resume rows *)
(* a beat task works off (api/agent.py, api/conversations.py,              *)
(* agent/graph.py, agent/tools.py, tasks/resume_trigger.py).               *)
(*                                                                         *)
(* A run of the graph loads the checkpoint of its thread when it starts    *)
(* and keeps the channel values to itself; after each node it saves them   *)
(* with the node to execute next.  Nothing locks a thread: two runs of one *)
(* thread overwrite each other's checkpoint.  node_draft commits its plan  *)
(* in a transaction of its own before its values are saved.                *)
(***************************************************************************)
EXTENDS AgentGraph, Sequences, FiniteSets

CONSTANTS
    Threads,   \* conversations
    Clients,   \* request handlers that run the graph
    Workers,   \* celery workers that run trigger_workflow_resume
    Inputs,    \* requests the messages may express
    MaxTurns,  \* bound on the turns of a thread
    Batch,     \* rows one run of the task takes
    Faults,    \* which of "error", "crash" and "lost" happen
    MaxFaults, \* bound on how many happen
    Overlap    \* FALSE: no two runs of one thread at a time

ASSUME SessionConstants ==
    /\ Clients \cap Workers = {}
    /\ NoPlan \notin Plans
    /\ Inputs \subseteq Requests
    /\ MaxTurns \in Nat
    /\ Batch \in Nat \ {0}
    /\ Faults \subseteq {"error", "crash", "lost"}
    /\ MaxFaults \in Nat
    /\ Overlap \in BOOLEAN

Procs == Clients \cup Workers

VARIABLES
    conv,   \* conversation rows: the threads that exist
    plan,   \* replenishment_plan rows, as far as a conversation sees them
    rows,   \* workflow_resume rows, oldest first
    ckpt,   \* latest checkpoint of each thread
    run,    \* the graph run of each process
    todo,   \* indices of the rows a worker has read and not yet worked off
    turns,  \* history: turns started in each thread
    calls,  \* history: executed generate_draft calls of each thread and scope
    faults  \* history: faults so far

vars == <<conv, plan, rows, ckpt, run, todo, turns, calls, faults>>

----------------------------------------------------------------------------
(* Values *)

NoPlanRow == [status |-> "none", version |-> 0, thread |-> "none", scope |-> "none",
              ordered |-> FALSE, by |-> "none"]

Decided == {"approved", "rejected", "superseded"}

\* A suggestion for the scope is active until it is ordered or its plan ends.
Active(s) ==
    \E p \in Plans : /\ plan[p].scope = s
                     /\ \/ plan[p].status = "pending_approval"
                        \/ plan[p].status = "approved" /\ ~plan[p].ordered

NoCheckpoint == [next |-> "none", v |-> EmptyValues]

\* decision: the resume value, for the node the run starts with.
\* drafted: the plan node_draft has committed and not yet put into its values.
\* told: the plan whose approval the LIVE stream of the run says it waits for.
Idle == [at |-> "idle", kind |-> "none", thread |-> "none", v |-> EmptyValues,
         decision |-> NoDecision, drafted |-> NoPlan, told |-> NoPlan]

Busy(t) == \E r \in Procs : run[r].at # "idle" /\ run[r].thread = t
MayStart(t) == Overlap \/ ~Busy(t)

\* What everybody else says the conversation waits for (the done of a replay, the
\* state a client asks for, run_turn): it is read from the values, where it stays
\* until a turn drafts again, is refused or is handed over.
Reported(v) == IF v.needsApproval THEN v.plan ELSE NoPlan

DecisionOf(p) == [plan |-> p, status |-> plan[p].status, version |-> plan[p].version]

----------------------------------------------------------------------------
Init ==
    /\ conv = {}
    /\ plan = [p \in Plans |-> NoPlanRow]
    /\ rows = <<>>
    /\ ckpt = [t \in Threads |-> NoCheckpoint]
    /\ run = [r \in Procs |-> Idle]
    /\ todo = [w \in Workers |-> {}]
    /\ turns = [t \in Threads |-> 0]
    /\ calls = [t \in Threads |-> [s \in Scopes |-> 0]]
    /\ faults = 0

----------------------------------------------------------------------------
(* Starting a run *)

\* create_conversation.
CreateConversation(t) ==
    /\ t \notin conv
    /\ conv' = conv \cup {t}
    /\ UNCHANGED <<plan, rows, ckpt, run, todo, turns, calls, faults>>

\* send_message, agent_start (in a new thread) and agent_resume with content:
\* the input is saved as a checkpoint of its own, which forgets a waiting node.
StartTurn(c, t) ==
    /\ run[c] = Idle
    /\ MayStart(t)
    /\ turns[t] < MaxTurns
    /\ conv' = conv \cup {t}
    /\ turns' = [turns EXCEPT ![t] = @ + 1]
    /\ LET v == NewTurn(ckpt[t].v)
       IN  /\ ckpt' = [ckpt EXCEPT ![t] = [next |-> "classify", v |-> v]]
           /\ run' = [run EXCEPT ![c] = [Idle EXCEPT !.at = "classify", !.kind = "turn",
                                                     !.thread = t, !.v = v]]
    /\ UNCHANGED <<plan, rows, todo, calls, faults>>

\* The checkpoint continues at its next node; the decision is there for the
\* first node only.  A thread at its end has nothing to run.
Continue(r, t, p) ==
    IF ckpt[t].next = "end"
    THEN run' = [run EXCEPT ![r] = [Idle EXCEPT !.at = "end", !.kind = "resume",
                                                !.thread = t]]
    ELSE run' = [run EXCEPT ![r] = [Idle EXCEPT !.at = ckpt[t].next, !.kind = "resume",
                                                !.thread = t, !.v = ckpt[t].v,
                                                !.decision = DecisionOf(p)]]

\* agent_resume with plan_id and decision_version: the checks ...
CheckResume(c, t, p) ==
    /\ run[c] = Idle
    /\ MayStart(t)
    /\ plan[p].thread = t
    /\ plan[p].status \in Decided
    /\ ckpt[t].next \notin {"none", "end"}
    /\ ckpt[t].v.plan = p
    /\ run' = [run EXCEPT ![c] = [Idle EXCEPT !.at = "checked", !.kind = "resume",
                                              !.thread = t, !.decision.plan = p]]
    /\ UNCHANGED <<conv, plan, rows, ckpt, todo, turns, calls, faults>>

\* ... and, later, the resume.
StartResume(c) ==
    /\ run[c].at = "checked"
    /\ IF ckpt[run[c].thread].next = "none"
       THEN run' = [run EXCEPT ![c] = Idle]
       ELSE Continue(c, run[c].thread, run[c].decision.plan)
    /\ UNCHANGED <<conv, plan, rows, ckpt, todo, turns, calls, faults>>

\* trigger_workflow_resume reads the oldest pending rows, without a claim ...
Pending == {i \in DOMAIN rows : rows[i].status = "pending"}

OldestPending == {i \in Pending : Cardinality({j \in Pending : j <= i}) <= Batch}

Trigger(w) ==
    /\ run[w] = Idle
    /\ todo[w] = {}
    /\ Pending # {}
    /\ todo' = [todo EXCEPT ![w] = OldestPending]
    /\ UNCHANGED <<conv, plan, rows, ckpt, run, turns, calls, faults>>

\* ... and resumes the threads of those rows one after the other, the oldest first.
First(ids) == {i \in ids : \A j \in ids : i <= j}

TakeRow(w) ==
    /\ run[w] = Idle
    /\ \E i \in First(todo[w]) :
          /\ MayStart(rows[i].thread)
          /\ ckpt[rows[i].thread].next # "none"
          /\ Continue(w, rows[i].thread, rows[i].plan)
    /\ UNCHANGED <<conv, plan, rows, ckpt, todo, turns, calls, faults>>

\* Without a checkpoint the library refuses the resume: the row stays pending.
TakeLostRow(w) ==
    /\ run[w] = Idle
    /\ \E i \in First(todo[w]) : ckpt[rows[i].thread].next = "none"
    /\ todo' = [todo EXCEPT ![w] = @ \ First(@)]
    /\ UNCHANGED <<conv, plan, rows, ckpt, run, turns, calls, faults>>

----------------------------------------------------------------------------
(* Executing the nodes *)

\* Faulty: the live stream, too, says what the values of earlier turns say.
SaveStale(r, v, next) ==
    /\ ckpt' = [ckpt EXCEPT ![run[r].thread] = [next |-> next, v |-> v]]
    /\ run' = [run EXCEPT ![r] =
                  [@ EXCEPT !.at = next, !.v = v, !.decision = NoDecision, !.drafted = NoPlan,
                            !.told = Reported(v)]]

\* The node has returned: its values are saved with the node that follows.
Save(r, v, next) ==
    /\ ckpt' = [ckpt EXCEPT ![run[r].thread] = [next |-> next, v |-> v]]
    /\ run' = [run EXCEPT ![r] =
                  [@ EXCEPT !.at = next, !.v = v, !.decision = NoDecision, !.drafted = NoPlan,
                            !.told = IF run[r].drafted # NoPlan THEN run[r].drafted
                                     ELSE IF v.blocked THEN NoPlan ELSE run[r].told]]

Classify(r) ==
    /\ run[r].at = "classify"
    /\ \E request \in Inputs :
          LET v == Classified(run[r].v, request)
          IN  Save(r, v, AfterClassify(v))
    /\ UNCHANGED <<conv, plan, rows, todo, turns, calls, faults>>

Clarify(r) ==
    /\ run[r].at = "clarify"
    /\ Save(r, Clarified(run[r].v), "end")
    /\ UNCHANGED <<conv, plan, rows, todo, turns, calls, faults>>

GatherEvidence(r) ==
    /\ run[r].at = "gather_evidence"
    /\ ~Raises("gather_evidence", run[r].v)
    /\ LET v == Gathered(run[r].v)
       IN  Save(r, v, AfterEvidence(v))
    /\ UNCHANGED <<conv, plan, rows, todo, turns, calls, faults>>

\* node_draft calls the domain service, which commits the plan ...
CommitDraft(r, p) ==
    /\ run[r].at = "draft"
    /\ run[r].drafted = NoPlan
    /\ DraftRuns(run[r].v)
    /\ run[r].v.request.kind # "no_window"
    /\ plan[p] = NoPlanRow
    /\ LET s == run[r].v.request.scope
       IN  /\ ~Active(s)
           /\ plan' = [plan EXCEPT ![p] = [status |-> "pending_approval", version |-> 1,
                                           thread |-> run[r].thread, scope |-> s,
                                           ordered |-> FALSE, by |-> run[r].kind]]
           /\ calls' = [calls EXCEPT ![run[r].thread][s] = @ + 1]
    /\ run' = [run EXCEPT ![r].drafted = p]
    /\ UNCHANGED <<conv, rows, ckpt, todo, turns, faults>>

\* ... and then returns.
ReturnDraft(r) ==
    /\ run[r].at = "draft"
    /\ run[r].drafted # NoPlan
    /\ Save(r, DraftCreated(run[r].v, run[r].drafted), "wait")
    /\ UNCHANGED <<conv, plan, rows, todo, turns, calls, faults>>

\* The guards refuse the call, or the service refuses the request or finds
\* nothing to order.
RefuseDraft(r) ==
    /\ run[r].at = "draft"
    /\ run[r].drafted = NoPlan
    /\ LET runs == DraftRuns(run[r].v)
           v == IF runs THEN DraftBlocked(run[r].v) ELSE DraftRefused(run[r].v)
       IN  /\ Save(r, v, AfterDraft(v))
           /\ calls' = [calls EXCEPT ![run[r].thread][run[r].v.request.scope] =
                                       IF runs THEN @ + 1 ELSE @]
    /\ UNCHANGED <<conv, plan, rows, todo, turns, faults>>

\* interrupt() ends the run unless a decision came with the resume.
Wait(r) ==
    /\ run[r].at = "wait"
    /\ IF run[r].decision = NoDecision /\ ~GuardTrips(run[r].v)
       THEN run' = [run EXCEPT ![r].at = "end"] /\ UNCHANGED ckpt
       ELSE Save(r, Waited(run[r].v, run[r].decision), "finalize")
    /\ UNCHANGED <<conv, plan, rows, todo, turns, calls, faults>>

Finalize(r) ==
    /\ run[r].at = "finalize"
    /\ Save(r, Finalized(run[r].v), "end")
    /\ UNCHANGED <<conv, plan, rows, todo, turns, calls, faults>>

Respond(r) ==
    /\ run[r].at = "respond"
    /\ Save(r, Responded(run[r].v), "end")
    /\ UNCHANGED <<conv, plan, rows, todo, turns, calls, faults>>

Escalate(r) ==
    /\ run[r].at = "escalate"
    /\ Save(r, Escalated(run[r].v), "end")
    /\ UNCHANGED <<conv, plan, rows, todo, turns, calls, faults>>

\* The run is over: a client gets message and done, a row has succeeded.
Finish(r) ==
    /\ run[r].at = "end"
    /\ run' = [run EXCEPT ![r] = Idle]
    /\ IF r \in Workers
       THEN /\ rows' = [i \in DOMAIN rows |->
                          IF i \in First(todo[r]) THEN [rows[i] EXCEPT !.status = "succeeded"]
                          ELSE rows[i]]
            /\ todo' = [todo EXCEPT ![r] = @ \ First(@)]
       ELSE UNCHANGED <<rows, todo>>
    /\ UNCHANGED <<conv, plan, ckpt, turns, calls, faults>>

\* The node raises: the checkpoint stays before it, a row stays pending.
Abort(r) ==
    /\ run' = [run EXCEPT ![r] = Idle]
    /\ IF r \in Workers
       THEN todo' = [todo EXCEPT ![r] = @ \ First(@)]
       ELSE UNCHANGED todo
    /\ UNCHANGED <<conv, plan, rows, ckpt, turns, calls>>

Raise(r) == Raises(run[r].at, run[r].v) /\ Abort(r) /\ UNCHANGED faults

----------------------------------------------------------------------------
(* Decisions on the plans: plan_service, in one transaction each *)

\* Faulty: the row does not name the conversation, or is not left to the task.
NewRowAnonymous(p, version) == [thread |-> "none", plan |-> p, version |-> version,
                                status |-> "pending"]
NewRowDone(p, version) == [thread |-> plan[p].thread, plan |-> p, version |-> version,
                           status |-> "succeeded"]

NewRow(p, version) == [thread |-> plan[p].thread, plan |-> p, version |-> version,
                       status |-> "pending"]

\* decide_plan, with the resume row of the conversation.
Decide(p, status) ==
    /\ plan[p].status = "pending_approval"
    /\ status \in {"approved", "rejected"}
    /\ plan' = [plan EXCEPT ![p].status = status, ![p].version = @ + 1]
    /\ rows' = Append(rows, NewRow(p, plan[p].version + 1))
    /\ UNCHANGED <<conv, ckpt, run, todo, turns, calls, faults>>

\* create_purchase_orders.
CreateOrders(p) ==
    /\ plan[p].status = "approved"
    /\ ~plan[p].ordered
    /\ plan' = [plan EXCEPT ![p].ordered = TRUE, ![p].version = @ + 1]
    /\ UNCHANGED <<conv, rows, ckpt, run, todo, turns, calls, faults>>

\* supersede_plan: the revision belongs to the same conversation.
Supersede(p, q, s) ==
    /\ plan[p].status \in {"pending_approval", "approved"}
    /\ ~plan[p].ordered
    /\ plan[q] = NoPlanRow
    /\ s = plan[p].scope \/ ~Active(s)
    /\ plan' = [plan EXCEPT
                  ![p].status = "superseded", ![p].version = @ + 1,
                  ![q] = [status |-> "pending_approval", version |-> 1,
                          thread |-> plan[p].thread, scope |-> s,
                          ordered |-> FALSE, by |-> "revision"]]
    /\ UNCHANGED <<conv, rows, ckpt, run, todo, turns, calls, faults>>

----------------------------------------------------------------------------
(* Faults *)

Fault(kind) == kind \in Faults /\ faults < MaxFaults /\ faults' = faults + 1

\* A tool, the domain service or the database fails inside a node.
Fail(r) ==
    /\ Fault("error")
    /\ run[r].at \in Nodes
    /\ run[r].drafted = NoPlan
    /\ Abort(r)

\* The process dies; a worker's message is delivered again by the next beat.
Crash(r) ==
    /\ Fault("crash")
    /\ run[r].at # "idle"
    /\ run' = [run EXCEPT ![r] = Idle]
    /\ IF r \in Workers
       THEN todo' = [todo EXCEPT ![r] = {}]
       ELSE UNCHANGED todo
    /\ UNCHANGED <<conv, plan, rows, ckpt, turns, calls>>

\* The checkpoints were in memory, or their tables were rebuilt.
LoseCheckpoint(t) ==
    /\ Fault("lost")
    /\ ckpt[t].next # "none"
    /\ ckpt' = [ckpt EXCEPT ![t] = NoCheckpoint]
    /\ UNCHANGED <<conv, plan, rows, run, todo, turns, calls>>

----------------------------------------------------------------------------
Step(r) ==
    \/ Classify(r) \/ Clarify(r) \/ GatherEvidence(r)
    \/ \E p \in Plans : CommitDraft(r, p)
    \/ ReturnDraft(r) \/ RefuseDraft(r)
    \/ Wait(r) \/ Finalize(r) \/ Respond(r) \/ Escalate(r)
    \/ Finish(r) \/ Raise(r)

Task(w) == Trigger(w) \/ TakeRow(w) \/ TakeLostRow(w)

Business ==
    \/ \E p \in Plans, status \in {"approved", "rejected"} : Decide(p, status)
    \/ \E p \in Plans : CreateOrders(p)
    \/ \E p, q \in Plans, s \in Scopes : Supersede(p, q, s)

Next ==
    \/ \E t \in Threads : CreateConversation(t) \/ LoseCheckpoint(t)
    \/ \E c \in Clients, t \in Threads :
          StartTurn(c, t) \/ \E p \in Plans : CheckResume(c, t, p)
    \/ \E c \in Clients : StartResume(c)
    \/ \E w \in Workers : Task(w)
    \/ \E r \in Procs : Step(r) \/ Fail(r) \/ Crash(r)
    \/ Business

Spec == Init /\ [][Next]_vars

\* A request handler runs its graph to the end, and the beat keeps sending the
\* task every minute.  Nobody has to write or to decide.
Fairness ==
    /\ \A r \in Procs : WF_vars(Step(r))
    /\ \A c \in Clients : WF_vars(StartResume(c))
    /\ \A w \in Workers : WF_vars(Task(w))

FairSpec == Spec /\ Fairness

----------------------------------------------------------------------------
(* Properties *)

Checkpoint == [next : Nodes \cup {"none", "end"}, v : Values]

PlanRow ==
    [status : PlanStatus, version : Nat, thread : Threads \cup {"none"},
     scope : Scopes \cup {"none"}, ordered : BOOLEAN,
     by : {"none", "turn", "resume", "revision"}]

Run ==
    [at : Nodes \cup {"idle", "checked", "end"}, kind : {"none", "turn", "resume"},
     thread : Threads \cup {"none"}, v : Values, decision : Decisions,
     drafted : Plans \cup {NoPlan}, told : Plans \cup {NoPlan}]

Row == [thread : Threads, plan : Plans, version : Nat, status : {"pending", "succeeded"}]

\* Every table, checkpoint and run has a value of its kind.
TypeOK ==
    /\ conv \subseteq Threads
    /\ plan \in [Plans -> PlanRow]
    /\ rows \in Seq(Row)
    /\ ckpt \in [Threads -> Checkpoint]
    /\ run \in [Procs -> Run]
    /\ todo \in [Workers -> SUBSET DOMAIN rows]
    /\ turns \in [Threads -> Nat]
    /\ calls \in [Threads -> [Scopes -> Nat]]
    /\ faults \in Nat
    /\ \A p \in Plans : plan[p] # NoPlanRow => /\ plan[p].status # "none"
                                             /\ plan[p].thread \in Threads
    /\ \A r \in Procs : IF run[r].at = "idle" THEN run[r] = Idle
                        ELSE run[r].thread \in Threads
    /\ \A r \in Procs : run[r].at = "checked" => run[r].decision.plan \in Plans

\* Resuming a conversation has no business effect: no plan is ever drafted by
\* a run that a decision, rather than a message, has started.
ResumeNeverDrafts == \A p \in Plans : plan[p].by # "resume"

\* The limit on equal tool calls holds for the one tool that writes, over all
\* turns and resumes of a conversation; a fault that loses counts allows no more
\* than as many again.
DraftCallsBounded ==
    \A t \in Threads, s \in Scopes : calls[t][s] <= DuplicateLimit * (faults + 1)

\* A conversation handed over to people stays so: later turns and resumes call
\* no tool that writes.  Only the loss of its checkpoint makes it forget.
HandedOverStays ==
    \A t \in Threads : ckpt[t].v.blocked
        => /\ ckpt'[t].v.blocked \/ ckpt'[t] = NoCheckpoint
           /\ calls'[t] = calls[t]

BlockedThreadIsInert == [][HandedOverStays]_vars

\* Only repeated calls hand a conversation over: no path through the graph, with
\* a failed node resumed in between, uses up the steps of one turn.
BlockedOnlyByRepetition ==
    \A t \in Threads : ckpt[t].v.blocked
        => \E s \in Scopes : ckpt[t].v.reads[s] > DuplicateLimit

\* A client whose live stream ends interrupted for a plan can count on the
\* conversation waiting for the decision on that plan of its own.  This is said of
\* the live stream only (_astream_graph collects what the nodes of its own run
\* return); what is read from the checkpoint is ReportsMeanWaiting, below.
LiveInterruptMeansWaiting ==
    \A c \in Clients : run[c].at = "end" /\ run[c].told # NoPlan
        => LET t == run[c].thread
           IN  /\ plan[run[c].told].thread = t
               /\ \/ ckpt[t].next = "wait" /\ ckpt[t].v.plan = run[c].told
                  \/ ckpt[t] = NoCheckpoint

----------------------------------------------------------------------------
(* The inductive invariant behind these *)

\* The nodes of the longest turn, and the steps used when it comes to a node.
LongestTurn == 5
StepsBefore(next) ==
    IF next \in {"none", "classify"} THEN 0
    ELSE IF next \in {"clarify", "gather_evidence", "respond"} THEN 1
    ELSE IF next = "draft" THEN 2
    ELSE IF next = "wait" THEN 3
    ELSE IF next = "finalize" THEN 4
    ELSE LongestTurn

\* What the values say where the graph is about to go on: a draft is counted after
\* the reads of its scope, and only what was counted too often blocks.
Sound(next, v) ==
    /\ v.outcome = "escalated" \/ next = "escalate" => v.blocked
    /\ \A s \in Scopes : v.drafts[s] <= v.reads[s]
    /\ next = "draft" /\ ~v.blocked => v.drafts[v.request.scope] < v.reads[v.request.scope]
    /\ ~v.blocked => v.steps <= StepsBefore(next)
    /\ v.blocked /\ MaxSteps >= LongestTurn => \E s \in Scopes : v.reads[s] > DuplicateLimit

\* A plan that is committed and not yet among the values.
DraftedIsCommitted(r) ==
    run[r].drafted # NoPlan =>
        /\ run[r].at = "draft" /\ DraftRuns(run[r].v)
        /\ plan[run[r].drafted] # NoPlanRow
        /\ plan[run[r].drafted].thread = run[r].thread

SoundSession ==
    /\ \A t \in Threads : Sound(ckpt[t].next, ckpt[t].v)
    /\ \A r \in Procs : /\ run[r].at \in Nodes => Sound(run[r].at, run[r].v)
                        /\ DraftedIsCommitted(r)

\* One run of a thread at a time.
Alone ==
    \A q, r \in Procs :
        q # r /\ run[q].at # "idle" /\ run[r].at # "idle" => run[q].thread # run[r].thread

\* From node_draft to the end of the run the thread waits for what is told.
ToldIsWaiting(r) ==
    run[r].told # NoPlan =>
        LET t == run[r].thread
        IN  /\ \/ run[r].at = "wait" /\ run[r].decision = NoDecision
               \/ run[r].at = "end"
            /\ plan[run[r].told] # NoPlanRow
            /\ plan[run[r].told].thread = t
            /\ \/ ckpt[t].next = "wait" /\ ckpt[t].v.plan = run[r].told
               \/ ckpt[t] = NoCheckpoint

\* A call of generate_draft is counted in the values, or its plan is in the run,
\* or a fault has made the thread forget it.
Forgotten == DuplicateLimit * faults
Uncounted(r, s) == IF run[r].drafted # NoPlan /\ s = run[r].v.request.scope THEN 1 ELSE 0

CallsAreCounted ==
    /\ \A t \in Threads :
          (\A r \in Procs : run[r].thread = t => run[r].drafted = NoPlan) =>
              \A s \in Scopes : calls[t][s] <= ckpt[t].v.drafts[s] + Forgotten
    /\ \A r \in Procs : run[r].at \in Nodes =>
          \A s \in Scopes :
              calls[run[r].thread][s] <= run[r].v.drafts[s] + Uncounted(r, s) + Forgotten

SerialSession ==
    /\ Alone
    /\ \A r \in Procs : ToldIsWaiting(r)
    /\ CallsAreCounted
    /\ DraftCallsBounded

IInv == TypeOK /\ SoundSession /\ (~Overlap => SerialSession)

\* Where runs follow one another, the one under way knows that its thread is blocked.
BlockIsSeen ==
    \A r \in Procs :
        run[r].at \in Nodes /\ ckpt[run[r].thread].v.blocked => run[r].v.blocked

----------------------------------------------------------------------------
(* Liveness, and what is documented *)

\* The conversation waits for the decision on a plan it has drafted.
WaitsFor(t, p) ==
    ckpt[t].next = "wait" /\ ckpt[t].v.plan = p /\ ckpt[t].v.outcome = "draft_created"

\* Once the plan is approved or rejected the conversation does not wait on.
DecisionEndsWait ==
    \A t \in Threads, p \in Plans :
        (WaitsFor(t, p) /\ plan[p].status \in {"approved", "rejected"})
            ~> ~WaitsFor(t, p)

\* Whoever reads of a conversation between its runs that it needs an approval can
\* count on its waiting for it.  Not so: a turn leaves what an earlier turn, or
\* one that was decided since, has put into the values.
ReportsMeanWaiting ==
    \A t \in Threads :
        ~Busy(t) /\ Reported(ckpt[t].v) # NoPlan => ckpt[t].next = "wait"

\* What a conversation is told of a plan is what was decided about that plan.
ExplainedAsDecided ==
    \A t \in Threads :
        LET said == ckpt[t].v.said
        IN  said.plan # NoPlan =>
                \/ said.status = plan[said.plan].status
                \/ said.status = "approved" /\ plan[said.plan].status = "superseded"
=============================================================================
