-------------------------- MODULE AgentSessionProofs --------------------------
(***************************************************************************)
(* The safety properties of AgentSession, proved for any number of threads, *)
(* processes, plans, scopes and faults.                                     *)
(***************************************************************************)
EXTENDS AgentSession, TLAPS

----------------------------------------------------------------------------
(* The nodes, as functions on the values *)

LEMMA EmptyType == EmptyValues \in Values /\ NoDecision \in Decisions
<1>1. (CHOOSE s \in Scopes : TRUE) \in Scopes
    BY GraphConstants
<1>2. NoDecision \in Decisions
    BY DEF NoDecision, Decisions, PlanStatus
<1>3. EmptyValues.request \in Requests
    BY <1>1 DEF EmptyValues, Requests
<1>4. EmptyValues.reads \in [Scopes -> Nat] /\ EmptyValues.drafts \in [Scopes -> Nat]
    BY DEF EmptyValues
<1> QED
    BY <1>1, <1>2 DEF EmptyValues, Values, Outcomes, Requests

\* The short circuit of a guard blocks; otherwise the node's result is taken, one step on.
LEMMA GuardedResult ==
    ASSUME NEW v \in Values, NEW result \in Values
    PROVE  /\ Guarded(v, result) \in Values
           /\ GuardTrips(v) =>
                /\ Guarded(v, result).blocked
                /\ Guarded(v, result).reads = v.reads /\ Guarded(v, result).drafts = v.drafts
           /\ ~GuardTrips(v) =>
                /\ Guarded(v, result).steps = v.steps + 1
                /\ Guarded(v, result).blocked = result.blocked
                /\ Guarded(v, result).outcome = result.outcome
                /\ Guarded(v, result).request = result.request
                /\ Guarded(v, result).plan = result.plan
                /\ Guarded(v, result).reads = result.reads
                /\ Guarded(v, result).drafts = result.drafts
<1> DEFINE short == [v EXCEPT !.steps = v.steps + 1, !.blocked = TRUE, !.outcome = "escalated",
                              !.needsApproval = FALSE, !.said = NoDecision]
           next == [result EXCEPT !.steps = v.steps + 1]
<1>1. v.steps + 1 \in Nat /\ NoDecision \in Decisions
    BY EmptyType DEF Values
<1>2. short \in Values /\ short.blocked /\ short.reads = v.reads /\ short.drafts = v.drafts
    BY <1>1 DEF Values, Outcomes
<1>3. /\ next \in Values /\ next.steps = v.steps + 1 /\ next.blocked = result.blocked
      /\ next.outcome = result.outcome /\ next.request = result.request
      /\ next.plan = result.plan /\ next.reads = result.reads /\ next.drafts = result.drafts
    BY <1>1 DEF Values
<1>4. Guarded(v, result) = IF GuardTrips(v) THEN short ELSE next
    BY DEF Guarded, ShortCircuit
<1> HIDE DEF short, next
<1> QED
    BY <1>2, <1>3, <1>4

\* Values a guard may leave behind at the next node: blocked, and sound where the
\* node stood.
LEMMA TrippedIsSound ==
    ASSUME NEW v \in Values, NEW at \in Nodes \ {"escalate"}, Sound(at, v), GuardTrips(v),
           NEW result \in Values, NEW next
    PROVE  Sound(next, Guarded(v, result))
<1>1. /\ Guarded(v, result).blocked
      /\ Guarded(v, result).reads = v.reads /\ Guarded(v, result).drafts = v.drafts
    BY GuardedResult
<1>2. StepsBefore(at) <= 4
    BY DEF StepsBefore, Nodes
<1>3. MaxSteps >= LongestTurn => v.blocked
  <2>1. v.steps \in Nat /\ MaxSteps \in Nat /\ StepsBefore(at) \in Nat
      BY GraphConstants DEF Values, StepsBefore, LongestTurn
  <2> QED
      BY <1>2, <2>1 DEF Sound, GuardTrips, LongestTurn
<1> QED
    BY <1>1, <1>3 DEF Sound

\* Values a node returns that the guard has let through.
LEMMA PassedIsSound ==
    ASSUME NEW v \in Values, NEW at \in Nodes \ {"escalate"}, ~GuardTrips(v), Sound(at, v),
           NEW result \in Values, NEW next \in Nodes \cup {"end"},
           StepsBefore(at) < StepsBefore(next),
           result.outcome = "escalated" \/ next = "escalate" => result.blocked,
           \A s \in Scopes : result.drafts[s] <= result.reads[s],
           next = "draft" /\ ~result.blocked =>
               result.drafts[result.request.scope] < result.reads[result.request.scope],
           result.blocked => \E s \in Scopes : result.reads[s] > DuplicateLimit
    PROVE  Sound(next, Guarded(v, result))
<1>1. v.steps + 1 <= StepsBefore(next)
    BY DEF Sound, GuardTrips, StepsBefore, LongestTurn, Values
<1> QED
    BY <1>1, GuardedResult DEF Sound

\* What the session needs to know of the values v a node leaves: their type and
\* soundness at the next node, and the calls of generate_draft they count.
NodeResult(next, v, drafts) ==
    /\ v \in Values
    /\ next \in Nodes \cup {"end"}
    /\ Sound(next, v)
    /\ \A s \in Scopes : drafts[s] <= v.drafts[s]

LEMMA ClassifiedIsSound ==
    ASSUME NEW v \in Values, NEW request \in Requests, Sound("classify", v),
           NEW w, w = Classified(v, request)
    PROVE  NodeResult(AfterClassify(w), w, v.drafts)
<1> DEFINE result == [v EXCEPT !.request = request]
<1>1. /\ result \in Values /\ result.reads = v.reads /\ result.drafts = v.drafts
      /\ result.blocked = v.blocked /\ result.outcome = v.outcome
    BY DEF Values
<1>2. w = Guarded(v, result)
    BY DEF Classified
<1>3. /\ "classify" \in Nodes \ {"escalate"} /\ AfterClassify(w) \in Nodes
      /\ AfterClassify(w) \in {"escalate", "respond", "clarify", "gather_evidence"}
      /\ AfterClassify(w) = "escalate" => w.outcome = "escalated"
    BY DEF Nodes, AfterClassify
<1> HIDE DEF result
<1>4. w \in Values /\ w.drafts = v.drafts
    BY <1>1, <1>2, GuardedResult
<1>5. \A s \in Scopes : v.drafts[s] \in Nat /\ v.drafts[s] <= v.reads[s]
    BY DEF Values, Sound
<1>6. CASE GuardTrips(v)
    BY <1>1, <1>2, <1>3, <1>4, <1>5, <1>6, TrippedIsSound DEF NodeResult
<1>7. CASE ~GuardTrips(v)
  <2>1. ~v.blocked /\ v.outcome # "escalated"
      BY <1>7 DEF GuardTrips, Sound
  <2>2. AfterClassify(w) # "escalate"
      BY <1>1, <1>2, <1>3, <1>7, <2>1, GuardedResult
  <2>3. StepsBefore("classify") < StepsBefore(AfterClassify(w))
      BY <1>3, <2>2 DEF StepsBefore
  <2>4. Sound(AfterClassify(w), w)
      BY <1>1, <1>2, <1>3, <1>5, <1>7, <2>1, <2>2, <2>3, PassedIsSound
  <2> QED
      BY <1>3, <1>4, <1>5, <2>4 DEF NodeResult
<1> QED
    BY <1>6, <1>7

\* clarify, wait, finalize and respond change neither request nor counts.
LEMMA PlainIsSound ==
    ASSUME NEW v \in Values, NEW at \in {"clarify", "wait", "finalize", "respond"}, Sound(at, v),
           NEW result \in Values, result.reads = v.reads, result.drafts = v.drafts,
           result.blocked = v.blocked, result.outcome # "escalated" \/ result.outcome = v.outcome,
           NEW w, w = Guarded(v, result),
           NEW next, next = IF at = "wait" THEN "finalize" ELSE "end"
    PROVE  NodeResult(next, w, v.drafts)
<1>1. /\ at \in Nodes \ {"escalate"} /\ next \in Nodes \cup {"end"}
      /\ next # "draft" /\ next # "escalate" /\ StepsBefore(at) < StepsBefore(next)
    BY DEF Nodes, StepsBefore, LongestTurn
<1>2. w \in Values /\ w.drafts = v.drafts
    BY GuardedResult
<1>3. \A s \in Scopes : v.drafts[s] \in Nat /\ v.drafts[s] <= v.reads[s]
    BY DEF Values, Sound
<1>4. CASE GuardTrips(v)
    BY <1>1, <1>2, <1>3, <1>4, TrippedIsSound DEF NodeResult
<1>5. CASE ~GuardTrips(v)
  <2>1. ~v.blocked /\ v.outcome # "escalated"
      BY <1>5 DEF GuardTrips, Sound
  <2>2. Sound(next, w)
      BY <1>1, <1>3, <1>5, <2>1, PassedIsSound
  <2> QED
      BY <1>1, <1>2, <1>3, <2>2 DEF NodeResult
<1> QED
    BY <1>4, <1>5

LEMMA ClarifiedIsSound ==
    ASSUME NEW v \in Values, Sound("clarify", v)
    PROVE  NodeResult("end", Clarified(v), v.drafts)
<1> DEFINE result == [v EXCEPT !.outcome = "clarified", !.said = NoDecision]
<1>1. /\ result \in Values /\ result.reads = v.reads /\ result.drafts = v.drafts
      /\ result.blocked = v.blocked /\ result.outcome # "escalated"
    BY EmptyType DEF Values, Outcomes
<1>2. Clarified(v) = Guarded(v, result)
    BY DEF Clarified
<1> HIDE DEF result
<1> QED
    BY <1>1, <1>2, PlainIsSound

LEMMA WaitedIsSound ==
    ASSUME NEW v \in Values, NEW decision \in Decisions, Sound("wait", v)
    PROVE  NodeResult("finalize", Waited(v, decision), v.drafts)
<1> DEFINE result == [v EXCEPT !.decision = decision]
<1>1. /\ result \in Values /\ result.reads = v.reads /\ result.drafts = v.drafts
      /\ result.blocked = v.blocked /\ result.outcome = v.outcome
    BY DEF Values
<1>2. Waited(v, decision) = Guarded(v, result)
    BY DEF Waited
<1> HIDE DEF result
<1> QED
    BY <1>1, <1>2, PlainIsSound

LEMMA FinalizedIsSound ==
    ASSUME NEW v \in Values, Sound("finalize", v)
    PROVE  NodeResult("end", Finalized(v), v.drafts)
<1> DEFINE said == [v.decision EXCEPT !.plan = v.plan]
           outcome == IF v.decision.status = "approved" THEN "approved" ELSE "answered"
           result == [v EXCEPT !.said = said, !.outcome = outcome]
<1>1. said \in Decisions /\ outcome \in Outcomes /\ outcome # "escalated"
    BY DEF Values, Decisions, Outcomes
<1>2. Finalized(v) = Guarded(v, result)
    BY DEF Finalized
<1> HIDE DEF said, outcome
<1>3. /\ result \in Values /\ result.reads = v.reads /\ result.drafts = v.drafts
      /\ result.blocked = v.blocked /\ result.outcome # "escalated"
    BY <1>1 DEF Values
<1> HIDE DEF result
<1> QED
    BY <1>2, <1>3, PlainIsSound

LEMMA RespondedIsSound ==
    ASSUME NEW v \in Values, Sound("respond", v)
    PROVE  NodeResult("end", Responded(v), v.drafts)
<1> DEFINE result == [v EXCEPT !.outcome = "answered", !.said = NoDecision]
<1>1. /\ result \in Values /\ result.reads = v.reads /\ result.drafts = v.drafts
      /\ result.blocked = v.blocked /\ result.outcome # "escalated"
    BY EmptyType DEF Values, Outcomes
<1>2. Responded(v) = Guarded(v, result)
    BY DEF Responded
<1> HIDE DEF result
<1> QED
    BY <1>1, <1>2, PlainIsSound

LEMMA EscalatedIsSound ==
    ASSUME NEW v \in Values, Sound("escalate", v)
    PROVE  NodeResult("end", Escalated(v), v.drafts)
<1> DEFINE w == [v EXCEPT !.outcome = "escalated", !.needsApproval = FALSE, !.blocked = TRUE,
                          !.said = NoDecision]
<1>1. w \in Values /\ w.blocked /\ w.reads = v.reads /\ w.drafts = v.drafts
    BY EmptyType DEF Values, Outcomes
<1>2. Escalated(v) = w
    BY DEF Escalated
<1> HIDE DEF w
<1>3. v.blocked /\ \A s \in Scopes : v.drafts[s] \in Nat
    BY DEF Sound, Values
<1>4. Sound("end", w)
    BY <1>1, <1>3 DEF Sound
<1> QED
    BY <1>1, <1>2, <1>3, <1>4 DEF NodeResult

LEMMA GatheredIsSound ==
    ASSUME NEW v \in Values, Sound("gather_evidence", v), NEW w, w = Gathered(v)
    PROVE  NodeResult(AfterEvidence(w), w, v.drafts)
<1> DEFINE scope == v.request.scope
           counted == [v EXCEPT !.reads[scope] = @ + 1]
           over == [counted EXCEPT !.blocked = TRUE, !.outcome = "escalated", !.said = NoDecision]
           result == IF OverLimit(v.reads[scope]) THEN over ELSE counted
<1>0. scope \in Scopes /\ v.reads \in [Scopes -> Nat] /\ v.drafts \in [Scopes -> Nat]
    BY DEF Values, Requests
<1>1. w = Guarded(v, result)
    BY DEF Gathered
<1> HIDE DEF scope
<1>2. /\ counted \in Values /\ counted.reads = [v.reads EXCEPT ![scope] = @ + 1]
      /\ counted.drafts = v.drafts /\ counted.blocked = v.blocked
      /\ counted.outcome = v.outcome /\ counted.request = v.request
    BY <1>0 DEF Values
<1> HIDE DEF counted
<1>3. /\ over \in Values /\ over.reads = counted.reads /\ over.drafts = counted.drafts
      /\ over.blocked /\ over.outcome = "escalated"
    BY <1>2, EmptyType DEF Values, Outcomes
<1> HIDE DEF over
<1>4. result \in Values /\ result.reads = counted.reads /\ result.drafts = v.drafts
    BY <1>2, <1>3
<1>5. \A s \in Scopes : /\ v.drafts[s] \in Nat /\ v.drafts[s] <= v.reads[s]
                        /\ result.drafts[s] <= result.reads[s]
    BY <1>0, <1>2, <1>4 DEF Sound
<1>6. result.drafts[scope] < result.reads[scope]
    BY <1>0, <1>2, <1>4, <1>5
<1>7. w \in Values /\ w.drafts = v.drafts
    BY <1>1, <1>4, GuardedResult
<1>8. /\ "gather_evidence" \in Nodes \ {"escalate"} /\ AfterEvidence(w) \in Nodes
      /\ StepsBefore("gather_evidence") < StepsBefore(AfterEvidence(w))
      /\ AfterEvidence(w) = "escalate" => w.outcome = "escalated"
    BY DEF Nodes, AfterEvidence, StepsBefore, LongestTurn
<1>9. CASE GuardTrips(v)
    BY <1>1, <1>4, <1>5, <1>7, <1>8, <1>9, TrippedIsSound DEF NodeResult
<1>10. CASE ~GuardTrips(v)
  <2>1. ~v.blocked /\ v.outcome # "escalated"
      BY <1>10 DEF GuardTrips, Sound
  <2>2. w.outcome = result.outcome
      BY <1>1, <1>4, <1>10, GuardedResult
  <2>3. result.outcome = "escalated" <=> result.blocked
      BY <1>2, <1>3, <2>1
  <2>4. ~result.blocked => result.request.scope = scope
      BY <1>2, <1>3 DEF scope
  <2>5. result.blocked => result.reads[scope] > DuplicateLimit
      BY <1>0, <1>2, <1>3, <2>1 DEF OverLimit
  <2> HIDE DEF result
  <2>6. Sound(AfterEvidence(w), w)
      BY <1>0, <1>1, <1>4, <1>5, <1>6, <1>8, <1>10, <2>2, <2>3, <2>4, <2>5, PassedIsSound
  <2> QED
      BY <1>5, <1>7, <1>8, <2>6 DEF NodeResult
<1> QED
    BY <1>9, <1>10

LEMMA CountDraftResult ==
    ASSUME NEW v \in Values
    PROVE  /\ CountDraft(v) \in Values
           /\ CountDraft(v).drafts = [v.drafts EXCEPT ![v.request.scope] = @ + 1]
           /\ CountDraft(v).reads = v.reads /\ CountDraft(v).request = v.request
           /\ CountDraft(v).blocked = v.blocked /\ CountDraft(v).outcome = v.outcome
<1> DEFINE drafts == [v.drafts EXCEPT ![v.request.scope] = @ + 1]
           counted == [v EXCEPT !.drafts = drafts, !.said = NoDecision]
<1>1. drafts \in [Scopes -> Nat]
    BY DEF Values, Requests
<1>2. CountDraft(v) = counted
    BY DEF CountDraft
<1> HIDE DEF drafts
<1>3. /\ counted \in Values /\ counted.drafts = drafts
      /\ counted.reads = v.reads /\ counted.request = v.request
      /\ counted.blocked = v.blocked /\ counted.outcome = v.outcome
    BY <1>1, EmptyType DEF Values
<1> QED
    BY <1>2, <1>3 DEF drafts

\* A call of generate_draft that the guards let through counts one.
DraftCounted(v, w) ==
    /\ w.drafts = [v.drafts EXCEPT ![v.request.scope] = @ + 1]
    /\ w.drafts[v.request.scope] <= DuplicateLimit

\* node_draft, whatever comes of it, on values it was right to come with.
LEMMA DraftIsSound ==
    ASSUME NEW v \in Values, Sound("draft", v), NEW result \in Values,
           result.drafts = [v.drafts EXCEPT ![v.request.scope] = @ + 1],
           result.reads = v.reads,
           result.blocked => OverLimit(v.drafts[v.request.scope]),
           result.outcome = "escalated" => result.blocked \/ v.outcome = "escalated",
           NEW w, w = Guarded(v, result),
           NEW next, next = "wait" \/ (next = "escalate" /\ w.outcome = "escalated")
    PROVE  NodeResult(next, w, v.drafts)
<1> DEFINE scope == v.request.scope
<1>0. scope \in Scopes /\ v.reads \in [Scopes -> Nat] /\ v.drafts \in [Scopes -> Nat]
    BY DEF Values, Requests
<1>1. w \in Values
    BY GuardedResult
<1>2. \A s \in Scopes : v.drafts[s] \in Nat /\ v.drafts[s] <= result.drafts[s]
    BY <1>0
<1>3. "draft" \in Nodes \ {"escalate"} /\ next \in Nodes /\ next # "draft"
      /\ StepsBefore("draft") < StepsBefore(next)
    BY DEF Nodes, StepsBefore, LongestTurn
<1>4. CASE GuardTrips(v)
    BY <1>1, <1>2, <1>3, <1>4, GuardedResult, TrippedIsSound DEF NodeResult
<1>5. CASE ~GuardTrips(v)
  <2>1. ~v.blocked /\ v.outcome # "escalated"
      BY <1>5 DEF GuardTrips, Sound
  <2>2. v.drafts[scope] < v.reads[scope]
      BY <2>1 DEF Sound
  <2>3. \A s \in Scopes : result.drafts[s] <= result.reads[s]
      BY <1>0, <2>2 DEF Sound
  <2>4. result.blocked => result.reads[scope] > DuplicateLimit
      BY <1>0, <2>2, GraphConstants DEF OverLimit
  <2>5. w.drafts = result.drafts /\ w.outcome = result.outcome
      BY <1>5, GuardedResult
  <2>6. Sound(next, w)
      BY <1>0, <1>3, <1>5, <2>1, <2>3, <2>4, <2>5, PassedIsSound
  <2> QED
      BY <1>1, <1>2, <1>3, <2>5, <2>6 DEF NodeResult
<1> QED
    BY <1>4, <1>5

LEMMA DraftCreatedIsSound ==
    ASSUME NEW v \in Values, Sound("draft", v), DraftRuns(v), NEW p \in Plans,
           NEW w, w = DraftCreated(v, p)
    PROVE  NodeResult("wait", w, v.drafts) /\ DraftCounted(v, w) /\ w.plan = p /\ ~w.blocked
<1> DEFINE counted == CountDraft(v)
           result == [counted EXCEPT !.plan = p, !.needsApproval = TRUE,
                                     !.outcome = "draft_created"]
<1>1. w = Guarded(v, result)
    BY DEF DraftCreated
<1>2. /\ counted \in Values /\ counted.reads = v.reads /\ counted.blocked = v.blocked
      /\ counted.drafts = [v.drafts EXCEPT ![v.request.scope] = @ + 1]
    BY CountDraftResult
<1> HIDE DEF counted
<1>3. /\ result \in Values /\ result.reads = v.reads /\ result.blocked = v.blocked
      /\ result.drafts = [v.drafts EXCEPT ![v.request.scope] = @ + 1]
      /\ result.outcome = "draft_created" /\ result.plan = p
    BY <1>2 DEF Values, Outcomes
<1> HIDE DEF result
<1>4. ~GuardTrips(v) /\ ~v.blocked /\ ~OverLimit(v.drafts[v.request.scope])
    BY DEF DraftRuns, GuardTrips
<1>5. NodeResult("wait", w, v.drafts)
    BY <1>1, <1>3, <1>4, DraftIsSound
<1>6. w.drafts = result.drafts /\ w.plan = p /\ ~w.blocked
    BY <1>1, <1>3, <1>4, GuardedResult
<1>7. v.request.scope \in Scopes /\ v.drafts \in [Scopes -> Nat]
    BY DEF Values, Requests
<1> QED
    BY <1>3, <1>4, <1>5, <1>6, <1>7, GraphConstants DEF DraftCounted, OverLimit

LEMMA DraftBlockedIsSound ==
    ASSUME NEW v \in Values, Sound("draft", v), DraftRuns(v), NEW w, w = DraftBlocked(v)
    PROVE  NodeResult(AfterDraft(w), w, v.drafts) /\ DraftCounted(v, w)
<1> DEFINE counted == CountDraft(v)
           result == [counted EXCEPT !.outcome = "blocked"]
<1>1. w = Guarded(v, result)
    BY DEF DraftBlocked
<1>2. /\ counted \in Values /\ counted.reads = v.reads /\ counted.blocked = v.blocked
      /\ counted.drafts = [v.drafts EXCEPT ![v.request.scope] = @ + 1]
    BY CountDraftResult
<1> HIDE DEF counted
<1>3. /\ result \in Values /\ result.reads = v.reads /\ result.blocked = v.blocked
      /\ result.drafts = [v.drafts EXCEPT ![v.request.scope] = @ + 1]
      /\ result.outcome = "blocked"
    BY <1>2 DEF Values, Outcomes
<1> HIDE DEF result
<1>4. ~GuardTrips(v) /\ ~v.blocked /\ ~OverLimit(v.drafts[v.request.scope])
    BY DEF DraftRuns, GuardTrips
<1>5. NodeResult(AfterDraft(w), w, v.drafts)
    BY <1>1, <1>3, <1>4, DraftIsSound DEF AfterDraft
<1>6. w.drafts = result.drafts
    BY <1>1, <1>3, <1>4, GuardedResult
<1>7. v.request.scope \in Scopes /\ v.drafts \in [Scopes -> Nat]
    BY DEF Values, Requests
<1> QED
    BY <1>3, <1>4, <1>5, <1>6, <1>7, GraphConstants DEF DraftCounted, OverLimit

LEMMA DraftRefusedIsSound ==
    ASSUME NEW v \in Values, Sound("draft", v), ~DraftRuns(v), NEW w, w = DraftRefused(v)
    PROVE  NodeResult(AfterDraft(w), w, v.drafts)
<1> DEFINE counted == CountDraft(v)
           result == [counted EXCEPT !.blocked = TRUE, !.outcome = "escalated",
                                     !.plan = NoPlan, !.needsApproval = FALSE]
<1>1. w = Guarded(v, result)
    BY DEF DraftRefused
<1>2. /\ counted \in Values /\ counted.reads = v.reads
      /\ counted.drafts = [v.drafts EXCEPT ![v.request.scope] = @ + 1]
    BY CountDraftResult
<1> HIDE DEF counted
<1>3. /\ result \in Values /\ result.reads = v.reads /\ result.blocked
      /\ result.drafts = [v.drafts EXCEPT ![v.request.scope] = @ + 1]
    BY <1>2 DEF Values, Outcomes
<1> HIDE DEF result
<1>4. CASE GuardTrips(v)
  <2>1. w \in Values /\ w.drafts = v.drafts
      BY <1>1, <1>3, <1>4, GuardedResult
  <2>2. \A s \in Scopes : v.drafts[s] <= w.drafts[s]
      BY <2>1 DEF Values
  <2>3. Sound(AfterDraft(w), w)
      BY <1>1, <1>3, <1>4, TrippedIsSound DEF Nodes
  <2> QED
      BY <2>1, <2>2, <2>3 DEF NodeResult, AfterDraft, Nodes
<1>5. CASE ~GuardTrips(v)
    BY <1>1, <1>3, <1>5, DraftIsSound DEF AfterDraft, DraftRuns
<1> QED
    BY <1>4, <1>5

----------------------------------------------------------------------------
(* What a step does to its run *)

OneRunMoves(r) ==
    /\ run' \in [Procs -> Run]
    /\ \A q \in Procs \ {r} : run'[q] = run[q]

LEMMA RunMoves ==
    ASSUME TypeOK, NEW r \in Procs, NEW n \in Run, run' = [run EXCEPT ![r] = n]
    PROVE  OneRunMoves(r) /\ run'[r] = n
BY DEF TypeOK, OneRunMoves

LEMMA IdleType == Idle \in Run /\ NoPlanRow \in PlanRow /\ NoCheckpoint \in Checkpoint
BY EmptyType DEF Idle, Run, NoPlanRow, PlanRow, PlanStatus, NoCheckpoint, Checkpoint

LEMMA EndMoves ==
    ASSUME TypeOK, NEW r \in Procs, run' = [run EXCEPT ![r] = Idle]
    PROVE  OneRunMoves(r) /\ run'[r] = Idle
BY IdleType, RunMoves

LEMMA SaveMoves ==
    ASSUME TypeOK, NEW r \in Procs, NEW v \in Values, NEW next \in Nodes \cup {"end"},
           Save(r, v, next)
    PROVE  /\ OneRunMoves(r)
           /\ run'[r].at = next /\ run'[r].v = v /\ run'[r].thread = run[r].thread
           /\ run'[r].decision = NoDecision /\ run'[r].drafted = NoPlan
           /\ run'[r].told = IF run[r].drafted # NoPlan THEN run[r].drafted
                             ELSE IF v.blocked THEN NoPlan ELSE run[r].told
<1> DEFINE told == IF run[r].drafted # NoPlan THEN run[r].drafted
                   ELSE IF v.blocked THEN NoPlan ELSE run[r].told
           n == [run[r] EXCEPT !.at = next, !.v = v, !.decision = NoDecision,
                               !.drafted = NoPlan, !.told = told]
<1>1. run[r] \in Run
    BY DEF TypeOK
<1>2. told \in Plans \cup {NoPlan}
    BY <1>1 DEF Run
<1>3. run' = [run EXCEPT ![r] = n]
    BY DEF Save
<1> HIDE DEF told
<1>4. /\ n \in Run /\ n.at = next /\ n.v = v /\ n.thread = run[r].thread
      /\ n.decision = NoDecision /\ n.drafted = NoPlan /\ n.told = told
    BY <1>1, <1>2, EmptyType DEF Run
<1> HIDE DEF n
<1>5. OneRunMoves(r) /\ run'[r] = n
    BY <1>3, <1>4, RunMoves
<1> QED
    BY <1>4, <1>5 DEF told

LEMMA AtMoves ==
    ASSUME TypeOK, NEW r \in Procs, run' = [run EXCEPT ![r].at = "end"]
    PROVE  /\ OneRunMoves(r)
           /\ run'[r].at = "end" /\ run'[r].v = run[r].v /\ run'[r].thread = run[r].thread
           /\ run'[r].drafted = run[r].drafted /\ run'[r].told = run[r].told
<1> DEFINE n == [run[r] EXCEPT !.at = "end"]
<1>1. run[r] \in Run
    BY DEF TypeOK
<1>2. /\ n \in Run /\ n.at = "end" /\ n.v = run[r].v /\ n.thread = run[r].thread
      /\ n.drafted = run[r].drafted /\ n.told = run[r].told
    BY <1>1 DEF Run
<1>3. run' = [run EXCEPT ![r] = n]
    OBVIOUS
<1> HIDE DEF n
<1> QED
    BY <1>2, <1>3, RunMoves

LEMMA DraftedMoves ==
    ASSUME TypeOK, NEW r \in Procs, NEW p \in Plans, run' = [run EXCEPT ![r].drafted = p]
    PROVE  /\ OneRunMoves(r)
           /\ run'[r].at = run[r].at /\ run'[r].v = run[r].v /\ run'[r].thread = run[r].thread
           /\ run'[r].drafted = p /\ run'[r].told = run[r].told
<1> DEFINE n == [run[r] EXCEPT !.drafted = p]
<1>1. run[r] \in Run
    BY DEF TypeOK
<1>2. /\ n \in Run /\ n.at = run[r].at /\ n.v = run[r].v /\ n.thread = run[r].thread
      /\ n.drafted = p /\ n.told = run[r].told
    BY <1>1 DEF Run
<1>3. run' = [run EXCEPT ![r] = n]
    OBVIOUS
<1> HIDE DEF n
<1> QED
    BY <1>2, <1>3, RunMoves

----------------------------------------------------------------------------
(* Steps of a kind *)

LEMMA ForgottenGrows ==
    \A f \in Nat : /\ DuplicateLimit * f \in Nat
                   /\ DuplicateLimit * (f + 1) = DuplicateLimit * f + DuplicateLimit
<1>1. \A d, f \in Nat : d * f \in Nat /\ d * (f + 1) = d * f + d
    OBVIOUS
<1> QED
    BY <1>1, GraphConstants

LEMMA BusyHasThread ==
    ASSUME TypeOK, NEW r \in Procs, run[r].at # "idle"
    PROVE  run[r].thread \in Threads
BY DEF TypeOK

LEMMA IdleHoldsNothing ==
    ASSUME TypeOK, NEW r \in Procs, run[r].at = "idle"
    PROVE  run[r].drafted = NoPlan /\ run[r].told = NoPlan
BY DEF TypeOK, Idle

\* A node returns and its values are saved.
LEMMA NodeSaved ==
    ASSUME IInv, NEW r \in Procs, run[r].at \in Nodes,
           NEW v, NEW next, NodeResult(next, v, run[r].v.drafts), Save(r, v, next),
           UNCHANGED <<conv, plan, rows, todo, turns, faults>>,
           NEW t, t = run[r].thread,
           calls' \in [Threads -> [Scopes -> Nat]],
           \A u \in Threads \ {t} : calls'[u] = calls[u],
           ~Overlap => \A s \in Scopes : /\ calls'[t][s] <= v.drafts[s] + Forgotten
                                         /\ calls'[t][s] <= DuplicateLimit * (faults + 1),
           run[r].drafted # NoPlan => next = "wait" /\ v.plan = run[r].drafted,
           ~Overlap /\ run[r].drafted = NoPlan => v.blocked \/ run[r].told = NoPlan
    PROVE  IInv'
<1>1. TypeOK /\ SoundSession /\ (~Overlap => SerialSession)
    BY DEF IInv
<1>2. v \in Values /\ next \in Nodes \cup {"end"} /\ Sound(next, v)
    BY DEF NodeResult
<1>3. /\ run[r].at # "idle" /\ t \in Threads
      /\ next # "idle" /\ next # "checked"
    BY <1>1, <1>2, BusyHasThread DEF Nodes
<1>4. /\ OneRunMoves(r)
      /\ run'[r].at = next /\ run'[r].v = v /\ run'[r].thread = t
      /\ run'[r].decision = NoDecision /\ run'[r].drafted = NoPlan
      /\ run'[r].told = IF run[r].drafted # NoPlan THEN run[r].drafted
                        ELSE IF v.blocked THEN NoPlan ELSE run[r].told
    BY <1>1, <1>2, SaveMoves
<1>5. /\ ckpt' \in [Threads -> Checkpoint]
      /\ ckpt'[t].next = next /\ ckpt'[t].v = v
      /\ \A u \in Threads \ {t} : ckpt'[u] = ckpt[u]
  <2>1. [next |-> next, v |-> v] \in Checkpoint
      BY <1>2 DEF Checkpoint
  <2>2. ckpt' = [ckpt EXCEPT ![t] = [next |-> next, v |-> v]]
      BY DEF Save
  <2> QED
      BY <1>1, <1>3, <2>1, <2>2 DEF TypeOK
<1>6. TypeOK'
    BY <1>1, <1>3, <1>4, <1>5 DEF TypeOK, OneRunMoves
<1>7. SoundSession'
  <2>1. \A u \in Threads : Sound(ckpt'[u].next, ckpt'[u].v)
      BY <1>1, <1>2, <1>5 DEF SoundSession
  <2>2. \A q \in Procs : run'[q].at \in Nodes => Sound(run'[q].at, run'[q].v)
      BY <1>1, <1>2, <1>4 DEF SoundSession, OneRunMoves
  <2>3. \A q \in Procs : DraftedIsCommitted(q)'
      BY <1>1, <1>4 DEF SoundSession, OneRunMoves, DraftedIsCommitted
  <2> QED
      BY <2>1, <2>2, <2>3 DEF SoundSession
<1>8. ASSUME ~Overlap PROVE SerialSession'
  <2>1. SerialSession
      BY <1>1, <1>8
  <2>2. \A q \in Procs \ {r} : run[q].at # "idle" => run[q].thread \in Threads \ {t}
      BY <1>1, <1>3, <2>1, BusyHasThread DEF SerialSession, Alone
  <2>3. Alone'
      BY <1>3, <1>4, <2>1 DEF SerialSession, Alone, OneRunMoves
  <2>4. ASSUME NEW q \in Procs, q # r PROVE ToldIsWaiting(q)'
    <3>1. ToldIsWaiting(q) /\ run'[q] = run[q]
        BY <1>4, <2>1, <2>4 DEF SerialSession, OneRunMoves
    <3>2. run[q].told # NoPlan => run[q].at # "idle"
        BY <1>1, IdleHoldsNothing
    <3> QED
        BY <1>5, <2>2, <2>4, <3>1, <3>2 DEF ToldIsWaiting
  <2>5. ToldIsWaiting(r)'
    <3>1. run'[r].told # NoPlan => run'[r].told = run[r].drafted /\ run[r].drafted # NoPlan
        BY <1>4, <1>8
    <3>2. DraftedIsCommitted(r)
        BY <1>1 DEF SoundSession
    <3> QED
        BY <1>4, <1>5, <3>1, <3>2 DEF ToldIsWaiting, DraftedIsCommitted
  <2>6. Forgotten' = Forgotten
      BY DEF Forgotten
  <2>7. ASSUME NEW u \in Threads,
               \A q \in Procs : run'[q].thread = u => run'[q].drafted = NoPlan,
               NEW s \in Scopes
        PROVE  calls'[u][s] <= ckpt'[u].v.drafts[s] + Forgotten'
    <3>1. CASE u = t
        BY <1>5, <1>8, <2>6, <3>1
    <3>2. CASE u # t
      <4>1. \A q \in Procs : run[q].thread = u => run[q].drafted = NoPlan
          BY <1>4, <2>7, <3>2 DEF OneRunMoves
      <4> QED
          BY <1>5, <2>1, <2>6, <3>2, <4>1 DEF SerialSession, CallsAreCounted
    <3> QED
        BY <3>1, <3>2
  <2>8. ASSUME NEW q \in Procs, run'[q].at \in Nodes, NEW s \in Scopes
        PROVE  calls'[run'[q].thread][s] <= run'[q].v.drafts[s] + Uncounted(q, s)' + Forgotten'
    <3>1. CASE q = r
      <4>1. Uncounted(r, s)' = 0
          BY <1>4 DEF Uncounted
      <4>2. v.drafts[s] + 0 = v.drafts[s]
          BY <1>2 DEF Values
      <4> QED
          BY <1>4, <1>8, <2>6, <3>1, <4>1, <4>2
    <3>2. CASE q # r
      <4>1. run'[q] = run[q] /\ Uncounted(q, s)' = Uncounted(q, s)
          BY <1>4, <3>2 DEF OneRunMoves, Uncounted
      <4>2. run[q].thread \in Threads \ {t}
          BY <2>2, <2>8, <3>2, <4>1 DEF Nodes
      <4> QED
          BY <2>1, <2>6, <2>8, <4>1, <4>2 DEF SerialSession, CallsAreCounted
    <3> QED
        BY <3>1, <3>2
  <2>9. DraftCallsBounded'
      BY <1>8, <2>1 DEF SerialSession, DraftCallsBounded
  <2>10. CallsAreCounted'
      BY <2>7, <2>8 DEF CallsAreCounted
  <2> QED
      BY <2>3, <2>4, <2>5, <2>9, <2>10 DEF SerialSession
<1> QED
    BY <1>6, <1>7, <1>8 DEF IInv

\* Nothing happens to runs and checkpoints; plans do not vanish or change threads.
PlansStay ==
    \A p \in Plans : plan[p] # NoPlanRow =>
                       plan'[p] # NoPlanRow /\ plan'[p].thread = plan[p].thread

LEMMA OthersStep ==
    ASSUME IInv, TypeOK', PlansStay, UNCHANGED <<ckpt, run, calls, faults>>
    PROVE  IInv'
<1>1. ASSUME NEW r \in Procs, DraftedIsCommitted(r) PROVE DraftedIsCommitted(r)'
  <2>1. run[r].drafted \in Plans \cup {NoPlan}
      BY DEF IInv, TypeOK, Run
  <2> QED
      BY <1>1, <2>1 DEF DraftedIsCommitted, PlansStay
<1>2. ASSUME NEW r \in Procs, ToldIsWaiting(r) PROVE ToldIsWaiting(r)'
  <2>1. run[r].told \in Plans \cup {NoPlan}
      BY DEF IInv, TypeOK, Run
  <2> QED
      BY <1>2, <2>1 DEF ToldIsWaiting, PlansStay
<1>3. SoundSession'
    BY <1>1 DEF IInv, SoundSession
<1>4. SerialSession => SerialSession'
    BY <1>2 DEF SerialSession, Alone, CallsAreCounted, DraftCallsBounded, Uncounted, Forgotten
<1> QED
    BY <1>3, <1>4 DEF IInv

OneCheckpointMoves(t) == \A u \in Threads \ {t} : ckpt'[u] = ckpt[u]

\* A run starts, or goes on, at the checkpoint of its thread.
LEMMA RunStarts ==
    ASSUME IInv, TypeOK', NEW r \in Procs, NEW t \in Threads,
           OneRunMoves(r), OneCheckpointMoves(t), UNCHANGED <<plan, calls, faults>>,
           run'[r].thread = t, run'[r].drafted = NoPlan, run'[r].told = NoPlan,
           run'[r].at \in Nodes => run'[r].at = ckpt'[t].next /\ run'[r].v = ckpt'[t].v,
           Sound(ckpt'[t].next, ckpt'[t].v), ckpt'[t].v.drafts = ckpt[t].v.drafts,
           run[r].drafted = NoPlan,
           ~Overlap => \A q \in Procs \ {r} : run[q].at # "idle" => run[q].thread # t
    PROVE  IInv'
<1>1. TypeOK /\ SoundSession /\ (~Overlap => SerialSession)
    BY DEF IInv
<1>2. \A q \in Procs \ {r} : run'[q] = run[q]
    BY DEF OneRunMoves
<1>3. \A u \in Threads \ {t} : ckpt'[u] = ckpt[u]
    BY DEF OneCheckpointMoves
<1>4. SoundSession'
  <2>1. \A u \in Threads : Sound(ckpt'[u].next, ckpt'[u].v)
      BY <1>1, <1>3 DEF SoundSession
  <2>2. \A q \in Procs : run'[q].at \in Nodes => Sound(run'[q].at, run'[q].v)
      BY <1>1, <1>2 DEF SoundSession
  <2>3. \A q \in Procs : DraftedIsCommitted(q)'
      BY <1>1, <1>2 DEF SoundSession, DraftedIsCommitted
  <2> QED
      BY <2>1, <2>2, <2>3 DEF SoundSession
<1>5. ASSUME ~Overlap PROVE SerialSession'
  <2>1. SerialSession
      BY <1>1, <1>5
  <2>2. Alone'
      BY <1>2, <1>5, <2>1 DEF SerialSession, Alone
  <2>3. ASSUME NEW q \in Procs PROVE ToldIsWaiting(q)'
    <3>1. CASE q = r
        BY <1>2, <3>1 DEF ToldIsWaiting
    <3>2. CASE q # r
      <4>1. ToldIsWaiting(q) /\ run'[q] = run[q]
          BY <1>2, <2>1, <3>2 DEF SerialSession
      <4>2. run[q].told # NoPlan => run[q].thread \in Threads \ {t}
          BY <1>1, <1>5, <3>2, IdleHoldsNothing, BusyHasThread
      <4> QED
          BY <1>3, <4>1, <4>2 DEF ToldIsWaiting
    <3> QED
        BY <3>1, <3>2
  <2>4. Forgotten' = Forgotten /\ \A u \in Threads : ckpt'[u].v.drafts = ckpt[u].v.drafts
      BY <1>3 DEF Forgotten
  <2>5. \A q \in Procs : run[q].thread = t => run[q].drafted = NoPlan
      BY <1>1, <1>5, IdleHoldsNothing
  <2>6. ASSUME NEW u \in Threads,
               \A q \in Procs : run'[q].thread = u => run'[q].drafted = NoPlan
        PROVE  \A q \in Procs : run[q].thread = u => run[q].drafted = NoPlan
      BY <1>2, <2>5, <2>6
  <2>7. ASSUME NEW q \in Procs, run'[q].at \in Nodes, NEW s \in Scopes
        PROVE  calls'[run'[q].thread][s] <= run'[q].v.drafts[s] + Uncounted(q, s)' + Forgotten'
    <3>1. CASE q = r
      <4>1. Uncounted(r, s)' = 0
          BY <1>2 DEF Uncounted
      <4>2. calls[t][s] <= ckpt[t].v.drafts[s] + Forgotten
          BY <2>1, <2>5 DEF SerialSession, CallsAreCounted
      <4>3. ckpt[t].v.drafts[s] + 0 = ckpt[t].v.drafts[s]
        <5>1. ckpt[t].v \in Values
            BY <1>1 DEF TypeOK, Checkpoint
        <5> QED
            BY <5>1 DEF Values
      <4> QED
          BY <2>4, <2>7, <3>1, <4>1, <4>2, <4>3
    <3>2. CASE q # r
      <4>1. run'[q] = run[q] /\ Uncounted(q, s)' = Uncounted(q, s)
          BY <1>2, <3>2 DEF Uncounted
      <4> QED
          BY <2>1, <2>4, <2>7, <4>1 DEF SerialSession, CallsAreCounted
    <3> QED
        BY <3>1, <3>2
  <2>8. CallsAreCounted'
      BY <2>1, <2>4, <2>6, <2>7 DEF SerialSession, CallsAreCounted
  <2>9. DraftCallsBounded'
      BY <2>1 DEF SerialSession, DraftCallsBounded
  <2> QED
      BY <2>2, <2>3, <2>8, <2>9 DEF SerialSession
<1> QED
    BY <1>4, <1>5 DEF IInv

\* A run ends; a plan it has not put into its values is forgotten by a fault only.
LEMMA RunEnds ==
    ASSUME IInv, NEW r \in Procs, run' = [run EXCEPT ![r] = Idle], TypeOK',
           UNCHANGED <<plan, ckpt, calls>>,
           faults' = faults + 1 \/ (faults' = faults /\ run[r].drafted = NoPlan)
    PROVE  IInv'
<1>1. TypeOK /\ SoundSession /\ (~Overlap => SerialSession)
    BY DEF IInv
<1>2. /\ OneRunMoves(r)
      /\ run'[r].at = "idle" /\ run'[r].drafted = NoPlan /\ run'[r].told = NoPlan
  <2>1. OneRunMoves(r) /\ run'[r] = Idle
      BY <1>1, EndMoves
  <2> QED
      BY <2>1 DEF Idle
<1>3. SoundSession'
  <2>1. \A q \in Procs : run'[q].at \in Nodes => Sound(run'[q].at, run'[q].v)
      BY <1>1, <1>2 DEF SoundSession, OneRunMoves, Nodes
  <2>2. \A q \in Procs : DraftedIsCommitted(q)'
      BY <1>1, <1>2 DEF SoundSession, OneRunMoves, DraftedIsCommitted
  <2> QED
      BY <1>1, <2>1, <2>2 DEF SoundSession
<1>4. ASSUME ~Overlap PROVE SerialSession'
  <2>1. SerialSession
      BY <1>1, <1>4
  <2>2. Alone' /\ \A q \in Procs : ToldIsWaiting(q)'
      BY <1>2, <2>1 DEF SerialSession, Alone, ToldIsWaiting, OneRunMoves
  <2>3. /\ Forgotten \in Nat /\ Forgotten' \in Nat /\ DuplicateLimit \in Nat
        /\ DuplicateLimit * (faults + 1) = Forgotten + DuplicateLimit
        /\ DuplicateLimit * (faults' + 1) = Forgotten' + DuplicateLimit
        /\ faults' = faults => Forgotten' = Forgotten
        /\ faults' = faults + 1 => Forgotten' = Forgotten + DuplicateLimit
    <3>1. faults \in Nat /\ faults' \in Nat
        BY <1>1 DEF TypeOK
    <3> QED
        BY <3>1, ForgottenGrows, GraphConstants DEF Forgotten
  <2>4. \A u \in Threads, s \in Scopes :
            calls[u][s] \in Nat /\ ckpt[u].v.drafts[s] \in Nat
      BY <1>1 DEF TypeOK, Checkpoint, Values
  <2>5. ASSUME NEW u \in Threads,
               \A q \in Procs : run'[q].thread = u => run'[q].drafted = NoPlan,
               NEW s \in Scopes
        PROVE  calls[u][s] <= ckpt[u].v.drafts[s] + Forgotten'
    <3>1. CASE faults' = faults + 1
      <4>1. calls[u][s] <= DuplicateLimit * (faults + 1)
          BY <2>1 DEF SerialSession, DraftCallsBounded
      <4> QED
          BY <2>3, <2>4, <3>1, <4>1
    <3>2. CASE faults' = faults /\ run[r].drafted = NoPlan
      <4>1. \A q \in Procs : run[q].thread = u => run[q].drafted = NoPlan
          BY <1>2, <2>5, <3>2 DEF OneRunMoves
      <4> QED
          BY <2>1, <2>3, <3>2, <4>1 DEF SerialSession, CallsAreCounted
    <3> QED
        BY <3>1, <3>2
  <2>6. ASSUME NEW q \in Procs, run'[q].at \in Nodes, NEW s \in Scopes
        PROVE  calls'[run'[q].thread][s] <= run'[q].v.drafts[s] + Uncounted(q, s)' + Forgotten'
    <3>1. q # r
        BY <1>2, <2>6 DEF Nodes
    <3>2. run'[q] = run[q] /\ Uncounted(q, s)' = Uncounted(q, s) /\ Uncounted(q, s) \in Nat
        BY <1>2, <3>1 DEF OneRunMoves, Uncounted
    <3>3. calls[run[q].thread][s] <= run[q].v.drafts[s] + Uncounted(q, s) + Forgotten
        BY <2>1, <2>6, <3>2 DEF SerialSession, CallsAreCounted
    <3>4. run[q].v.drafts[s] \in Nat /\ calls[run[q].thread][s] \in Nat
      <4>1. run[q] \in Run /\ run[q].thread \in Threads
          BY <1>1, <2>6, <3>2, BusyHasThread DEF TypeOK, Nodes
      <4> QED
          BY <2>4, <4>1 DEF Run, Values
    <3> QED
        BY <2>3, <3>2, <3>3, <3>4
  <2>7. CallsAreCounted'
      BY <2>5, <2>6 DEF CallsAreCounted
  <2>8. DraftCallsBounded'
      BY <2>1, <2>3, <2>4 DEF SerialSession, DraftCallsBounded
  <2> QED
      BY <2>2, <2>7, <2>8 DEF SerialSession
<1> QED
    BY <1>3, <1>4 DEF IInv

LEMMA EmptyIsSound == \A next \in {"none", "classify"} : Sound(next, EmptyValues)
BY GraphConstants DEF Sound, EmptyValues, StepsBefore

LEMMA LoseCheckpointKeeps ==
    ASSUME IInv, NEW t \in Threads, LoseCheckpoint(t), TypeOK'
    PROVE  IInv'
<1>1. TypeOK /\ SoundSession /\ (~Overlap => SerialSession)
    BY DEF IInv
<1>2. /\ ckpt'[t] = NoCheckpoint /\ \A u \in Threads \ {t} : ckpt'[u] = ckpt[u]
      /\ faults' = faults + 1 /\ UNCHANGED <<plan, run, calls>>
    BY <1>1 DEF LoseCheckpoint, Fault, TypeOK
<1>3. SoundSession'
  <2>1. \A u \in Threads : Sound(ckpt'[u].next, ckpt'[u].v)
      BY <1>1, <1>2, EmptyIsSound DEF SoundSession, NoCheckpoint
  <2> QED
      BY <1>1, <1>2, <2>1 DEF SoundSession, DraftedIsCommitted
<1>4. ASSUME ~Overlap PROVE SerialSession'
  <2>1. SerialSession
      BY <1>1, <1>4
  <2>2. Alone'
      BY <1>2, <2>1 DEF SerialSession, Alone
  <2>3. \A q \in Procs : ToldIsWaiting(q)'
    <3>1. \A q \in Procs : run[q].told # NoPlan => run[q].thread \in Threads
        BY <1>1, IdleHoldsNothing, BusyHasThread
    <3> QED
        BY <1>2, <2>1, <3>1 DEF SerialSession, ToldIsWaiting
  <2>4. /\ Forgotten \in Nat /\ Forgotten' = Forgotten + DuplicateLimit
        /\ DuplicateLimit \in Nat
        /\ DuplicateLimit * (faults + 1) = Forgotten'
        /\ DuplicateLimit * (faults' + 1) = Forgotten' + DuplicateLimit
    <3>1. faults \in Nat /\ faults' \in Nat
        BY <1>1 DEF TypeOK
    <3> QED
        BY <1>2, <3>1, ForgottenGrows, GraphConstants DEF Forgotten
  <2>5. \A u \in Threads, s \in Scopes :
            calls[u][s] \in Nat /\ ckpt'[u].v.drafts[s] \in Nat
    <3>1. calls \in [Threads -> [Scopes -> Nat]] /\ \A u \in Threads : ckpt'[u] \in Checkpoint
        BY <1>1 DEF TypeOK
    <3>2. \A u \in Threads : ckpt'[u].v.drafts \in [Scopes -> Nat]
        BY <3>1 DEF Checkpoint, Values
    <3> QED
        BY <3>1, <3>2
  <2>6. \A u \in Threads, s \in Scopes :
            /\ calls'[u][s] <= DuplicateLimit * (faults' + 1)
            /\ calls'[u][s] <= ckpt'[u].v.drafts[s] + Forgotten'
      BY <1>2, <2>1, <2>4, <2>5 DEF SerialSession, DraftCallsBounded
  <2>7. ASSUME NEW q \in Procs, run[q].at \in Nodes, NEW s \in Scopes
        PROVE  calls[run[q].thread][s] <= run[q].v.drafts[s] + Uncounted(q, s)' + Forgotten'
    <3>1. Uncounted(q, s)' = Uncounted(q, s) /\ Uncounted(q, s) \in Nat
        BY <1>2 DEF Uncounted
    <3>2. calls[run[q].thread][s] <= run[q].v.drafts[s] + Uncounted(q, s) + Forgotten
        BY <2>1, <2>7 DEF SerialSession, CallsAreCounted
    <3>3. run[q].v.drafts[s] \in Nat /\ calls[run[q].thread][s] \in Nat
      <4>1. run[q] \in Run /\ run[q].thread \in Threads
          BY <1>1, <2>7, BusyHasThread DEF TypeOK, Nodes
      <4> QED
          BY <2>5, <4>1 DEF Run, Values
    <3> QED
        BY <2>4, <3>1, <3>2, <3>3
  <2>8. CallsAreCounted'
      BY <1>2, <2>6, <2>7 DEF CallsAreCounted
  <2>9. DraftCallsBounded'
      BY <2>6 DEF DraftCallsBounded
  <2> QED
      BY <2>2, <2>3, <2>8, <2>9 DEF SerialSession
<1> QED
    BY <1>3, <1>4 DEF IInv

----------------------------------------------------------------------------
(* The actions *)

LEMMA InitIInv == Init => IInv
<1> SUFFICES ASSUME Init PROVE IInv
    OBVIOUS
<1>1. TypeOK
  <2>1. plan \in [Plans -> PlanRow] /\ ckpt \in [Threads -> Checkpoint] /\ run \in [Procs -> Run]
      BY IdleType DEF Init
  <2>2. conv = {} /\ rows \in Seq(Row) /\ todo \in [Workers -> SUBSET DOMAIN rows]
      BY DEF Init
  <2>3. turns \in [Threads -> Nat] /\ calls \in [Threads -> [Scopes -> Nat]] /\ faults \in Nat
      BY DEF Init
  <2>4. (\A p \in Plans : plan[p] = NoPlanRow) /\ \A r \in Procs : run[r] = Idle
      BY DEF Init
  <2>5. Idle.at = "idle"
      BY DEF Idle
  <2> QED
      BY <2>1, <2>2, <2>3, <2>4, <2>5 DEF TypeOK
<1>2. \A r \in Procs : run[r].at = "idle" /\ run[r].drafted = NoPlan /\ run[r].told = NoPlan
    BY DEF Init, Idle
<1>3. SoundSession
  <2>1. \A t \in Threads : Sound(ckpt[t].next, ckpt[t].v)
      BY EmptyIsSound DEF Init, NoCheckpoint
  <2> QED
      BY <1>2, <2>1 DEF SoundSession, DraftedIsCommitted, Nodes
<1>4. SerialSession
  <2>1. \A t \in Threads, s \in Scopes : calls[t][s] = 0 /\ ckpt[t].v.drafts[s] \in Nat
    <3>1. \A t \in Threads : ckpt[t].v.drafts \in [Scopes -> Nat]
        BY <1>1 DEF TypeOK, Checkpoint, Values
    <3> QED
        BY <3>1 DEF Init
  <2>2. Forgotten \in Nat /\ DuplicateLimit * (faults + 1) \in Nat
    <3>1. faults = 0
        BY DEF Init
    <3> QED
        BY <3>1, ForgottenGrows, GraphConstants DEF Forgotten
  <2>3. DraftCallsBounded /\ CallsAreCounted
      BY <1>2, <2>1, <2>2 DEF DraftCallsBounded, CallsAreCounted, Nodes
  <2> QED
      BY <1>2, <2>3 DEF SerialSession, Alone, ToldIsWaiting
<1> QED
    BY <1>1, <1>3, <1>4 DEF IInv

LEMMA BusinessKeeps == IInv /\ Business => IInv'
<1> SUFFICES ASSUME IInv, Business PROVE IInv'
    OBVIOUS
<1>0. TypeOK
    BY DEF IInv
<1>1. ASSUME NEW p \in Plans, NEW status \in {"approved", "rejected"}, Decide(p, status)
      PROVE  IInv'
  <2> DEFINE version == plan[p].version + 1
             n == [plan[p] EXCEPT !.status = status, !.version = version]
             row == NewRow(p, plan[p].version + 1)
  <2>1. plan[p] \in PlanRow /\ plan[p] # NoPlanRow /\ plan[p].thread \in Threads
      BY <1>0, <1>1 DEF Decide, TypeOK, NoPlanRow
  <2>2. plan' = [plan EXCEPT ![p] = n] /\ rows' = Append(rows, row)
      BY <1>1 DEF Decide
  <2>3. n \in PlanRow /\ n.thread = plan[p].thread /\ n.status = status
    <3>1. version \in Nat
        BY <2>1 DEF PlanRow
    <3> HIDE DEF version
    <3> QED
        BY <2>1, <3>1 DEF PlanRow, PlanStatus
  <2>4. row \in Row
      BY <2>1 DEF NewRow, Row, PlanRow
  <2>5. n # NoPlanRow
      BY <2>3 DEF NoPlanRow
  <2> HIDE DEF n, row
  <2>6. PlansStay /\ plan' \in [Plans -> PlanRow]
      BY <1>0, <2>1, <2>2, <2>3, <2>5 DEF TypeOK, PlansStay
  <2>7. rows' \in Seq(Row) /\ DOMAIN rows \subseteq DOMAIN rows'
      BY <1>0, <2>2, <2>4 DEF TypeOK
  <2>8. TypeOK'
      BY <1>0, <1>1, <2>1, <2>2, <2>3, <2>6, <2>7 DEF TypeOK, Decide
  <2> QED
      BY <1>1, <2>6, <2>8, OthersStep DEF Decide
<1>2. ASSUME NEW p \in Plans, CreateOrders(p) PROVE IInv'
  <2> DEFINE version == plan[p].version + 1
             n == [plan[p] EXCEPT !.ordered = TRUE, !.version = version]
  <2>1. plan[p] \in PlanRow /\ plan[p] # NoPlanRow /\ plan[p].thread \in Threads
      BY <1>0, <1>2 DEF CreateOrders, TypeOK, NoPlanRow
  <2>2. plan' = [plan EXCEPT ![p] = n]
      BY <1>2 DEF CreateOrders
  <2>3. n \in PlanRow /\ n.thread = plan[p].thread /\ n.status = "approved"
    <3>1. version \in Nat
        BY <2>1 DEF PlanRow
    <3> HIDE DEF version
    <3> QED
        BY <1>2, <2>1, <3>1 DEF PlanRow, CreateOrders
  <2>4. n # NoPlanRow
      BY <2>3 DEF NoPlanRow
  <2> HIDE DEF n
  <2>5. PlansStay /\ plan' \in [Plans -> PlanRow]
      BY <1>0, <2>1, <2>2, <2>3, <2>4 DEF TypeOK, PlansStay
  <2>6. TypeOK'
      BY <1>0, <1>2, <2>1, <2>2, <2>3, <2>5 DEF TypeOK, CreateOrders
  <2> QED
      BY <1>2, <2>5, <2>6, OthersStep DEF CreateOrders
<1>3. ASSUME NEW p \in Plans, NEW q \in Plans, NEW s \in Scopes, Supersede(p, q, s)
      PROVE  IInv'
  <2> DEFINE version == plan[p].version + 1
             n == [plan[p] EXCEPT !.status = "superseded", !.version = version]
             new == [status |-> "pending_approval", version |-> 1, thread |-> plan[p].thread,
                     scope |-> s, ordered |-> FALSE, by |-> "revision"]
  <2>1. /\ plan[p] \in PlanRow /\ plan[p] # NoPlanRow /\ plan[p].thread \in Threads
        /\ plan[q] = NoPlanRow /\ p # q
      BY <1>0, <1>3 DEF Supersede, TypeOK, NoPlanRow
  <2>2. plan' = [plan EXCEPT ![p] = n, ![q] = new]
    <3>1. plan' = [plan EXCEPT ![p].status = "superseded", ![p].version = @ + 1, ![q] = new]
        BY <1>3 DEF Supersede
    <3>2. [plan EXCEPT ![p].status = "superseded", ![p].version = @ + 1] = [plan EXCEPT ![p] = n]
        BY <1>0, <2>1 DEF TypeOK
    <3> QED
        BY <3>1, <3>2
  <2>3. n \in PlanRow /\ n.thread = plan[p].thread /\ n.status = "superseded"
    <3>1. version \in Nat
        BY <2>1 DEF PlanRow
    <3> HIDE DEF version
    <3> QED
        BY <2>1, <3>1 DEF PlanRow, PlanStatus
  <2>4. new \in PlanRow /\ new.thread = plan[p].thread /\ new.status = "pending_approval"
      BY <2>1 DEF PlanRow, PlanStatus
  <2>5. n # NoPlanRow /\ new # NoPlanRow
      BY <2>3, <2>4 DEF NoPlanRow
  <2> HIDE DEF n, new
  <2>6. PlansStay /\ plan' \in [Plans -> PlanRow]
      BY <1>0, <2>1, <2>2, <2>3, <2>4, <2>5 DEF TypeOK, PlansStay
  <2>7. TypeOK'
      BY <1>0, <1>3, <2>1, <2>2, <2>3, <2>4, <2>6 DEF TypeOK, Supersede
  <2> QED
      BY <1>3, <2>6, <2>7, OthersStep DEF Supersede
<1> QED
    BY <1>1, <1>2, <1>3 DEF Business

LEMMA QuietKeeps ==
    ASSUME IInv,
           \/ \E t \in Threads : CreateConversation(t)
           \/ \E w \in Workers : Trigger(w) \/ TakeLostRow(w)
           \/ UNCHANGED vars
    PROVE  IInv'
<1>0. TypeOK
    BY DEF IInv
<1>1. UNCHANGED <<plan, rows, ckpt, run, turns, calls, faults>> /\ PlansStay
    BY DEF CreateConversation, Trigger, TakeLostRow, vars, PlansStay
<1>2. conv' \subseteq Threads
    BY <1>0 DEF CreateConversation, Trigger, TakeLostRow, vars, TypeOK
<1>3. todo' \in [Workers -> SUBSET DOMAIN rows]
  <2>1. ASSUME NEW w \in Workers, Trigger(w) PROVE todo' \in [Workers -> SUBSET DOMAIN rows]
      BY <1>0, <2>1 DEF TypeOK, Trigger, OldestPending, Pending
  <2>2. ASSUME NEW w \in Workers, TakeLostRow(w) PROVE todo' \in [Workers -> SUBSET DOMAIN rows]
      BY <1>0, <2>2 DEF TypeOK, TakeLostRow
  <2> QED
      BY <1>0, <2>1, <2>2 DEF CreateConversation, vars, TypeOK
<1>4. TypeOK'
    BY <1>0, <1>1, <1>2, <1>3 DEF TypeOK
<1> QED
    BY <1>1, <1>4, OthersStep

LEMMA StartTurnKeeps ==
    ASSUME IInv, NEW c \in Clients, NEW t \in Threads, StartTurn(c, t)
    PROVE  IInv'
<1> DEFINE v == NewTurn(ckpt[t].v)
           point == [next |-> "classify", v |-> v]
           n == [Idle EXCEPT !.at = "classify", !.kind = "turn", !.thread = t, !.v = v]
<1>0. TypeOK /\ SoundSession /\ c \in Procs /\ run[c] = Idle
    BY DEF IInv, Procs, StartTurn
<1>1. ckpt[t].v \in Values /\ Sound(ckpt[t].next, ckpt[t].v)
    BY <1>0 DEF TypeOK, Checkpoint, SoundSession
<1>2. /\ v \in Values /\ v.drafts = ckpt[t].v.drafts /\ v.reads = ckpt[t].v.reads
      /\ v.blocked = ckpt[t].v.blocked /\ v.outcome = ckpt[t].v.outcome /\ v.steps = 0
    BY <1>1 DEF NewTurn, Values
<1>3. Sound("classify", v)
    BY <1>1, <1>2 DEF Sound, StepsBefore
<1>4. ckpt' = [ckpt EXCEPT ![t] = point] /\ run' = [run EXCEPT ![c] = n]
    BY DEF StartTurn
<1> HIDE DEF v
<1>5. point \in Checkpoint /\ point.next = "classify" /\ point.v = v
    BY <1>2 DEF Checkpoint, Nodes
<1>6. /\ n \in Run /\ n.at = "classify" /\ n.thread = t /\ n.v = v
      /\ n.drafted = NoPlan /\ n.told = NoPlan
    BY <1>2, IdleType DEF Idle, Run, Nodes
<1> HIDE DEF point, n
<1>7. OneRunMoves(c) /\ run'[c] = n
    BY <1>0, <1>4, <1>6, RunMoves
<1>8. TypeOK' /\ OneCheckpointMoves(t) /\ ckpt'[t] = point
    BY <1>0, <1>4, <1>5, <1>6, <1>7 DEF TypeOK, StartTurn, OneRunMoves, OneCheckpointMoves
<1>9. ~Overlap => \A q \in Procs \ {c} : run[q].at # "idle" => run[q].thread # t
    BY DEF StartTurn, MayStart, Busy
<1>10. run[c].drafted = NoPlan
    BY <1>0 DEF Idle
<1>11. UNCHANGED <<plan, calls, faults>>
    BY DEF StartTurn
<1> QED
    BY <1>0, <1>2, <1>3, <1>5, <1>6, <1>7, <1>8, <1>9, <1>10, <1>11, RunStarts

\* A resume goes on where the checkpoint of its thread stands.
LEMMA ContinueKeeps ==
    ASSUME IInv, NEW r \in Procs, NEW t \in Threads, NEW p \in Plans, Continue(r, t, p),
           ckpt[t].next # "none", run[r].drafted = NoPlan,
           UNCHANGED <<conv, plan, rows, ckpt, todo, turns, calls, faults>>,
           ~Overlap => \A q \in Procs \ {r} : run[q].at # "idle" => run[q].thread # t
    PROVE  IInv'
<1> DEFINE decision == DecisionOf(p)
           over == [Idle EXCEPT !.at = "end", !.kind = "resume", !.thread = t]
           on == [Idle EXCEPT !.at = ckpt[t].next, !.kind = "resume", !.thread = t,
                              !.v = ckpt[t].v, !.decision = decision]
           n == IF ckpt[t].next = "end" THEN over ELSE on
<1>0. TypeOK /\ SoundSession
    BY DEF IInv
<1>1. ckpt[t] \in Checkpoint /\ Sound(ckpt[t].next, ckpt[t].v)
    BY <1>0 DEF TypeOK, SoundSession
<1>2. plan[p] \in PlanRow
    BY <1>0 DEF TypeOK
<1>3. decision \in Decisions
    BY <1>2 DEF DecisionOf, Decisions, PlanRow
<1>4. run' = [run EXCEPT ![r] = n]
    BY DEF Continue
<1> HIDE DEF decision
<1>5. /\ over \in Run /\ over.thread = t /\ over.drafted = NoPlan /\ over.told = NoPlan
      /\ over.at = "end"
    BY IdleType DEF Idle, Run
<1>6. ckpt[t].next # "end" =>
        /\ on \in Run /\ on.thread = t /\ on.drafted = NoPlan /\ on.told = NoPlan
        /\ on.at = ckpt[t].next /\ on.v = ckpt[t].v /\ on.at \in Nodes
    BY <1>1, <1>3, IdleType DEF Idle, Run, Checkpoint
<1> HIDE DEF over, on
<1>7. /\ n \in Run /\ n.thread = t /\ n.drafted = NoPlan /\ n.told = NoPlan
      /\ n.at \in Nodes => n.at = ckpt[t].next /\ n.v = ckpt[t].v
      /\ n.at # "idle" /\ n.at # "checked"
    BY <1>5, <1>6 DEF Nodes
<1> HIDE DEF n
<1>8. OneRunMoves(r) /\ run'[r] = n /\ OneCheckpointMoves(t)
    BY <1>0, <1>4, <1>7, RunMoves DEF OneCheckpointMoves
<1>9. TypeOK'
    BY <1>0, <1>7, <1>8 DEF TypeOK, OneRunMoves
<1> QED
    BY <1>1, <1>7, <1>8, <1>9, RunStarts

LEMMA CheckResumeKeeps ==
    ASSUME IInv, NEW c \in Clients, NEW t \in Threads, NEW p \in Plans, CheckResume(c, t, p)
    PROVE  IInv'
<1> DEFINE decision == [NoDecision EXCEPT !.plan = p]
           n == [Idle EXCEPT !.at = "checked", !.kind = "resume", !.thread = t,
                             !.decision = decision]
<1>0. TypeOK /\ SoundSession /\ c \in Procs /\ run[c] = Idle
    BY DEF IInv, Procs, CheckResume
<1>1. decision \in Decisions /\ decision.plan = p
    BY EmptyType DEF Decisions
<1>2. run' = [run EXCEPT ![c] = n]
    BY DEF CheckResume, Idle
<1> HIDE DEF decision
<1>3. /\ n \in Run /\ n.at = "checked" /\ n.thread = t /\ n.drafted = NoPlan
      /\ n.told = NoPlan /\ n.decision = decision
    BY <1>1, IdleType DEF Idle, Run
<1> HIDE DEF n
<1>4. OneRunMoves(c) /\ run'[c] = n
    BY <1>0, <1>2, <1>3, RunMoves
<1>5. UNCHANGED <<conv, plan, rows, ckpt, todo, turns, calls, faults>>
    BY DEF CheckResume
<1>6. OneCheckpointMoves(t) /\ ckpt'[t] = ckpt[t] /\ Sound(ckpt[t].next, ckpt[t].v)
    BY <1>0, <1>5 DEF OneCheckpointMoves, SoundSession
<1>7. TypeOK'
    BY <1>0, <1>1, <1>3, <1>4, <1>5 DEF TypeOK, OneRunMoves
<1>8. ~Overlap => \A q \in Procs \ {c} : run[q].at # "idle" => run[q].thread # t
    BY DEF CheckResume, MayStart, Busy
<1>9. run[c].drafted = NoPlan /\ run'[c].at \notin Nodes
    BY <1>0, <1>3, <1>4 DEF Idle, Nodes
<1> QED
    BY <1>0, <1>3, <1>4, <1>5, <1>6, <1>7, <1>8, <1>9, RunStarts

LEMMA StartResumeKeeps ==
    ASSUME IInv, NEW c \in Clients, StartResume(c)
    PROVE  IInv'
<1> DEFINE t == run[c].thread
           p == run[c].decision.plan
<1>0. TypeOK /\ SoundSession /\ (~Overlap => SerialSession) /\ c \in Procs
    BY DEF IInv, Procs
<1>1. run[c].at = "checked" /\ t \in Threads /\ p \in Plans
    BY <1>0 DEF StartResume, TypeOK
<1>2. run[c].drafted = NoPlan
    BY <1>0, <1>1 DEF SoundSession, DraftedIsCommitted
<1>3. ~Overlap => \A q \in Procs \ {c} : run[q].at # "idle" => run[q].thread # t
    BY <1>0, <1>1 DEF SerialSession, Alone
<1>4. UNCHANGED <<conv, plan, rows, ckpt, todo, turns, calls, faults>>
    BY DEF StartResume
<1>5. CASE ckpt[t].next # "none" /\ Continue(c, t, p)
    BY <1>0, <1>1, <1>2, <1>3, <1>4, <1>5, ContinueKeeps
<1>6. CASE run' = [run EXCEPT ![c] = Idle]
  <2>1. OneRunMoves(c) /\ run'[c] = Idle
      BY <1>0, <1>6, EndMoves
  <2>2. Idle.at = "idle"
      BY DEF Idle
  <2>3. TypeOK'
      BY <1>0, <1>4, <2>1, <2>2 DEF TypeOK, OneRunMoves
  <2> QED
      BY <1>0, <1>2, <1>4, <1>6, <2>3, RunEnds
<1> QED
    BY <1>5, <1>6 DEF StartResume

LEMMA TakeRowKeeps ==
    ASSUME IInv, NEW w \in Workers, TakeRow(w)
    PROVE  IInv'
<1>0. TypeOK /\ w \in Procs /\ run[w] = Idle
    BY DEF IInv, Procs, TakeRow
<1>1. PICK i \in First(todo[w]) :
          /\ MayStart(rows[i].thread)
          /\ ckpt[rows[i].thread].next # "none"
          /\ Continue(w, rows[i].thread, rows[i].plan)
    BY DEF TakeRow
<1> DEFINE t == rows[i].thread
           p == rows[i].plan
<1>2. t \in Threads /\ p \in Plans
  <2>1. i \in DOMAIN rows /\ rows \in Seq(Row)
      BY <1>0 DEF First, TypeOK
  <2>2. rows[i] \in Row
      BY <2>1
  <2> QED
      BY <2>2 DEF Row
<1>3. ~Overlap => \A q \in Procs \ {w} : run[q].at # "idle" => run[q].thread # t
    BY <1>1 DEF MayStart, Busy
<1>4. UNCHANGED <<conv, plan, rows, ckpt, todo, turns, calls, faults>>
    BY DEF TakeRow
<1>5. run[w].drafted = NoPlan
    BY <1>0 DEF Idle
<1> HIDE DEF t, p
<1>6. Continue(w, t, p) /\ ckpt[t].next # "none"
    BY <1>1 DEF t, p
<1> QED
    BY <1>0, <1>2, <1>3, <1>4, <1>5, <1>6, ContinueKeeps

\* A node other than draft: it counts no call and tells of no new plan.
LEMMA QuietNodeKeeps ==
    ASSUME IInv, NEW r \in Procs, run[r].at \in Nodes \ {"draft"},
           NEW v, NEW next, NodeResult(next, v, run[r].v.drafts), Save(r, v, next),
           UNCHANGED <<conv, plan, rows, todo, turns, calls, faults>>,
           run[r].at = "wait" /\ run[r].decision = NoDecision => v.blocked
    PROVE  IInv'
<1> DEFINE t == run[r].thread
<1>0. TypeOK /\ SoundSession /\ (~Overlap => SerialSession)
    BY DEF IInv
<1>1. run[r].drafted = NoPlan
    BY <1>0 DEF SoundSession, DraftedIsCommitted
<1>2. ~Overlap => v.blocked \/ run[r].told = NoPlan
    BY <1>0 DEF SerialSession, ToldIsWaiting, Nodes
<1>3. ASSUME ~Overlap, NEW s \in Scopes
      PROVE  /\ calls[t][s] <= v.drafts[s] + Forgotten
             /\ calls[t][s] <= DuplicateLimit * (faults + 1)
  <2>1. run[r].at # "idle" /\ t \in Threads
      BY <1>0, BusyHasThread DEF Nodes
  <2>2. /\ calls[t][s] <= run[r].v.drafts[s] + Uncounted(r, s) + Forgotten
        /\ calls[t][s] <= DuplicateLimit * (faults + 1)
      BY <1>0, <1>3, <2>1 DEF SerialSession, CallsAreCounted, DraftCallsBounded
  <2>3. Uncounted(r, s) = 0
      BY <1>1 DEF Uncounted
  <2>4. run[r].v.drafts[s] <= v.drafts[s] /\ v.drafts[s] \in Nat
      BY DEF NodeResult, Values
  <2>5. run[r].v.drafts[s] \in Nat /\ calls[t][s] \in Nat /\ Forgotten \in Nat
    <3>1. run[r].v \in Values /\ faults \in Nat
        BY <1>0 DEF TypeOK, Run
    <3>2. run[r].v.drafts[s] \in Nat /\ calls[t][s] \in Nat
        BY <1>0, <2>1, <3>1 DEF TypeOK, Values
    <3> QED
        BY <3>1, <3>2, ForgottenGrows DEF Forgotten
  <2> QED
      BY <2>2, <2>3, <2>4, <2>5
<1>4. calls \in [Threads -> [Scopes -> Nat]]
    BY <1>0 DEF TypeOK
<1> QED
    BY <1>1, <1>2, <1>3, <1>4, NodeSaved

LEMMA RunValues ==
    ASSUME IInv, NEW r \in Procs
    PROVE  run[r].v \in Values /\ run[r].decision \in Decisions
BY DEF IInv, TypeOK, Run

LEMMA PlainNodesKeep ==
    ASSUME IInv, NEW r \in Procs,
           Classify(r) \/ Clarify(r) \/ GatherEvidence(r) \/ Finalize(r) \/ Respond(r) \/ Escalate(r)
    PROVE  IInv'
<1> DEFINE v == run[r].v
<1>0. v \in Values /\ (run[r].at \in Nodes => Sound(run[r].at, v))
    BY RunValues DEF IInv, SoundSession
<1>1. CASE Classify(r)
  <2>1. PICK request \in Inputs :
            Save(r, Classified(v, request), AfterClassify(Classified(v, request)))
      BY <1>1 DEF Classify
  <2> DEFINE w == Classified(v, request)
  <2>2. request \in Requests
      BY SessionConstants
  <2> HIDE DEF w
  <2>3. Save(r, w, AfterClassify(w)) /\ w = Classified(v, request)
      BY <2>1 DEF w
  <2>4. NodeResult(AfterClassify(w), w, v.drafts)
      BY <1>0, <1>1, <2>2, <2>3, ClassifiedIsSound DEF Classify, Nodes
  <2> QED
      BY <1>1, <2>3, <2>4, QuietNodeKeeps DEF Classify, Nodes
<1>2. CASE Clarify(r)
  <2>1. NodeResult("end", Clarified(v), v.drafts)
      BY <1>0, <1>2, ClarifiedIsSound DEF Clarify, Nodes
  <2> QED
      BY <1>2, <2>1, QuietNodeKeeps DEF Clarify, Nodes
<1>3. CASE GatherEvidence(r)
  <2> DEFINE w == Gathered(v)
  <2>1. Save(r, w, AfterEvidence(w)) /\ w = Gathered(v)
      BY <1>3 DEF GatherEvidence
  <2> HIDE DEF w
  <2>2. NodeResult(AfterEvidence(w), w, v.drafts)
      BY <1>0, <1>3, <2>1, GatheredIsSound DEF GatherEvidence, Nodes
  <2> QED
      BY <1>3, <2>1, <2>2, QuietNodeKeeps DEF GatherEvidence, Nodes
<1>4. CASE Finalize(r)
  <2>1. NodeResult("end", Finalized(v), v.drafts)
      BY <1>0, <1>4, FinalizedIsSound DEF Finalize, Nodes
  <2> QED
      BY <1>4, <2>1, QuietNodeKeeps DEF Finalize, Nodes
<1>5. CASE Respond(r)
  <2>1. NodeResult("end", Responded(v), v.drafts)
      BY <1>0, <1>5, RespondedIsSound DEF Respond, Nodes
  <2> QED
      BY <1>5, <2>1, QuietNodeKeeps DEF Respond, Nodes
<1>6. CASE Escalate(r)
  <2>1. NodeResult("end", Escalated(v), v.drafts)
      BY <1>0, <1>6, EscalatedIsSound DEF Escalate, Nodes
  <2> QED
      BY <1>6, <2>1, QuietNodeKeeps DEF Escalate, Nodes
<1> QED
    BY <1>1, <1>2, <1>3, <1>4, <1>5, <1>6

LEMMA WaitKeeps ==
    ASSUME IInv, NEW r \in Procs, Wait(r)
    PROVE  IInv'
<1> DEFINE v == run[r].v
           w == Waited(v, run[r].decision)
<1>0. TypeOK /\ SoundSession /\ (~Overlap => SerialSession) /\ run[r].at = "wait"
    BY DEF IInv, Wait
<1>1. v \in Values /\ run[r].decision \in Decisions /\ Sound("wait", v)
    BY <1>0, RunValues DEF SoundSession, Nodes
<1>2. UNCHANGED <<conv, plan, rows, todo, turns, calls, faults>>
    BY DEF Wait
<1>3. CASE (run[r].decision # NoDecision \/ GuardTrips(v)) /\ Save(r, w, "finalize")
  <2>1. NodeResult("finalize", w, v.drafts)
      BY <1>1, WaitedIsSound
  <2>2. GuardTrips(v) => w.blocked
      BY <1>1, GuardedResult DEF Waited, ShortCircuit, Guarded
  <2> HIDE DEF w
  <2> QED
      BY <1>0, <1>2, <1>3, <2>1, <2>2, QuietNodeKeeps DEF Nodes
<1>4. CASE run' = [run EXCEPT ![r].at = "end"] /\ UNCHANGED ckpt
        /\ run[r].decision = NoDecision
  <2>1. /\ OneRunMoves(r)
        /\ run'[r].at = "end" /\ run'[r].v = v /\ run'[r].thread = run[r].thread
        /\ run'[r].drafted = run[r].drafted /\ run'[r].told = run[r].told
      BY <1>0, <1>4, AtMoves
  <2>2. run[r].drafted = NoPlan
      BY <1>0 DEF SoundSession, DraftedIsCommitted
  <2>3. TypeOK'
      BY <1>0, <1>2, <1>4, <2>1 DEF TypeOK, OneRunMoves
  <2>4. SoundSession'
      BY <1>0, <1>2, <1>4, <2>1, <2>2 DEF SoundSession, DraftedIsCommitted, OneRunMoves, Nodes
  <2>5. SerialSession => SerialSession'
    <3> SUFFICES ASSUME SerialSession PROVE SerialSession'
        OBVIOUS
    <3>1. Alone'
        BY <1>0, <2>1 DEF SerialSession, Alone, OneRunMoves
    <3>2. \A q \in Procs : ToldIsWaiting(q)'
        BY <1>0, <1>2, <1>4, <2>1 DEF SerialSession, ToldIsWaiting, OneRunMoves
    <3>3. \A q \in Procs : run'[q].thread = run[q].thread /\ run'[q].drafted = run[q].drafted
        BY <2>1 DEF OneRunMoves
    <3>4. \A q \in Procs : run'[q].at \in Nodes => run'[q] = run[q]
        BY <2>1 DEF OneRunMoves, Nodes
    <3>5. CallsAreCounted'
      <4>1. \A q \in Procs, s \in Scopes :
                run'[q].at \in Nodes => Uncounted(q, s)' = Uncounted(q, s)
          BY <3>4 DEF Uncounted
      <4>2. CallsAreCounted /\ Forgotten' = Forgotten /\ calls' = calls /\ ckpt' = ckpt
          BY <1>2, <1>4 DEF SerialSession, Forgotten
      <4>3. ASSUME NEW t \in Threads,
                   \A q \in Procs : run'[q].thread = t => run'[q].drafted = NoPlan
            PROVE  \A s \in Scopes : calls'[t][s] <= ckpt'[t].v.drafts[s] + Forgotten'
          BY <3>3, <4>2, <4>3 DEF CallsAreCounted
      <4>4. ASSUME NEW q \in Procs, run'[q].at \in Nodes, NEW s \in Scopes
            PROVE  calls'[run'[q].thread][s]
                        <= run'[q].v.drafts[s] + Uncounted(q, s)' + Forgotten'
          BY <3>4, <4>1, <4>2, <4>4 DEF CallsAreCounted
      <4> QED
          BY <4>3, <4>4 DEF CallsAreCounted
    <3>6. DraftCallsBounded'
        BY <1>2 DEF SerialSession, DraftCallsBounded
    <3> QED
        BY <3>1, <3>2, <3>5, <3>6 DEF SerialSession
  <2> QED
      BY <1>0, <2>3, <2>4, <2>5 DEF IInv
<1> QED
    BY <1>3, <1>4 DEF Wait

LEMMA CommitDraftKeeps ==
    ASSUME IInv, NEW r \in Procs, NEW p \in Plans, CommitDraft(r, p)
    PROVE  IInv'
<1> DEFINE v == run[r].v
           t == run[r].thread
           scope == v.request.scope
           new == [status |-> "pending_approval", version |-> 1, thread |-> t, scope |-> scope,
                   ordered |-> FALSE, by |-> run[r].kind]
<1>0. /\ TypeOK /\ SoundSession /\ (~Overlap => SerialSession)
      /\ run[r].at = "draft" /\ run[r].drafted = NoPlan /\ DraftRuns(v) /\ plan[p] = NoPlanRow
      /\ UNCHANGED <<conv, rows, ckpt, todo, turns, faults>>
    BY DEF IInv, CommitDraft
<1>1. t \in Threads /\ v \in Values /\ p # NoPlan
    BY <1>0, RunValues, BusyHasThread, SessionConstants
<1>2. scope \in Scopes /\ v.drafts \in [Scopes -> Nat]
    BY <1>1 DEF Values, Requests
<1>3. /\ OneRunMoves(r)
      /\ run'[r].at = "draft" /\ run'[r].v = v /\ run'[r].thread = t
      /\ run'[r].drafted = p /\ run'[r].told = run[r].told
    BY <1>0, DraftedMoves DEF CommitDraft
<1>4. plan' = [plan EXCEPT ![p] = new] /\ calls' = [calls EXCEPT ![t][scope] = @ + 1]
    BY DEF CommitDraft
<1>5. new \in PlanRow /\ new # NoPlanRow /\ new.thread = t /\ new.status # "none"
  <2>1. run[r].kind \in {"none", "turn", "resume"}
      BY <1>0 DEF TypeOK, Run
  <2>2. new \in PlanRow /\ new.thread = t /\ new.status = "pending_approval"
      BY <1>1, <1>2, <2>1 DEF PlanRow, PlanStatus
  <2> HIDE DEF new
  <2> QED
      BY <2>2 DEF NoPlanRow
<1> HIDE DEF new, scope, t, v
<1>6. /\ plan' \in [Plans -> PlanRow] /\ plan'[p] = new /\ PlansStay
      /\ \A q \in Plans \ {p} : plan'[q] = plan[q]
    BY <1>0, <1>4, <1>5 DEF TypeOK, PlansStay
<1>7. /\ calls' \in [Threads -> [Scopes -> Nat]]
      /\ calls'[t][scope] = calls[t][scope] + 1
      /\ \A s \in Scopes \ {scope} : calls'[t][s] = calls[t][s]
      /\ \A u \in Threads \ {t} : calls'[u] = calls[u]
    BY <1>0, <1>1, <1>2, <1>4 DEF TypeOK
<1>8. TypeOK'
  <2>1. \A q \in Plans : plan'[q] # NoPlanRow =>
            plan'[q].status # "none" /\ plan'[q].thread \in Threads
      BY <1>0, <1>1, <1>5, <1>6 DEF TypeOK
  <2>2. \A q \in Procs : /\ IF run'[q].at = "idle" THEN run'[q] = Idle
                            ELSE run'[q].thread \in Threads
                         /\ run'[q].at = "checked" => run'[q].decision.plan \in Plans
      BY <1>0, <1>1, <1>3 DEF TypeOK, OneRunMoves
  <2>3. run' \in [Procs -> Run]
      BY <1>3 DEF OneRunMoves
  <2> QED
      BY <1>0, <1>6, <1>7, <2>1, <2>2, <2>3 DEF TypeOK
<1>9. ASSUME NEW q \in Procs, q # r PROVE DraftedIsCommitted(q)'
  <2>1. DraftedIsCommitted(q) /\ run'[q] = run[q] /\ run[q].drafted \in Plans \cup {NoPlan}
      BY <1>0, <1>3, <1>9 DEF SoundSession, OneRunMoves, TypeOK, Run
  <2> QED
      BY <1>6, <2>1 DEF DraftedIsCommitted, PlansStay
<1>10. DraftedIsCommitted(r)'
    BY <1>0, <1>3, <1>5, <1>6 DEF DraftedIsCommitted, v
<1>11. SoundSession'
  <2>1. \A q \in Procs : run'[q].at \in Nodes => Sound(run'[q].at, run'[q].v)
      BY <1>0, <1>3 DEF SoundSession, OneRunMoves, Nodes, v
  <2> QED
      BY <1>0, <1>9, <1>10, <2>1 DEF SoundSession
<1>12. ASSUME ~Overlap PROVE SerialSession'
  <2>1. SerialSession
      BY <1>0, <1>12
  <2>2. Alone'
      BY <1>0, <1>3, <2>1 DEF SerialSession, Alone, OneRunMoves, t
  <2>3. run[r].told = NoPlan
      BY <1>0, <2>1 DEF SerialSession, ToldIsWaiting
  <2>4. ASSUME NEW q \in Procs PROVE ToldIsWaiting(q)'
    <3>1. CASE q = r
        BY <1>3, <2>3, <3>1 DEF ToldIsWaiting
    <3>2. CASE q # r
      <4>1. ToldIsWaiting(q) /\ run'[q] = run[q] /\ run[q].told \in Plans \cup {NoPlan}
          BY <1>0, <1>3, <2>1, <3>2 DEF SerialSession, OneRunMoves, TypeOK, Run
      <4> QED
          BY <1>0, <1>6, <4>1 DEF ToldIsWaiting, PlansStay
    <3> QED
        BY <3>1, <3>2
  <2>5. \A s \in Scopes : calls[t][s] \in Nat /\ v.drafts[s] \in Nat
      BY <1>0, <1>1, <1>2 DEF TypeOK
  <2>6. /\ Forgotten \in Nat /\ Forgotten' = Forgotten
        /\ DuplicateLimit * (faults + 1) = Forgotten + DuplicateLimit
      BY <1>0, ForgottenGrows DEF TypeOK, Forgotten
  <2>7. \A s \in Scopes : calls[t][s] <= v.drafts[s] + Forgotten
    <3>1. \A s \in Scopes : Uncounted(r, s) = 0
        BY <1>0 DEF Uncounted
    <3>2. \A s \in Scopes : calls[t][s] <= v.drafts[s] + Uncounted(r, s) + Forgotten
        BY <1>0, <2>1 DEF SerialSession, CallsAreCounted, Nodes, v, t
    <3> QED
        BY <2>5, <2>6, <3>1, <3>2
  <2>8. v.drafts[scope] + 1 <= DuplicateLimit
      BY <1>0, <1>2, <2>5, GraphConstants DEF DraftRuns, OverLimit, scope
  <2>9. ASSUME NEW u \in Threads,
               \A q \in Procs : run'[q].thread = u => run'[q].drafted = NoPlan,
               NEW s \in Scopes
        PROVE  calls'[u][s] <= ckpt'[u].v.drafts[s] + Forgotten'
    <3>1. u # t
        BY <1>1, <1>3, <2>9
    <3>2. \A q \in Procs : run[q].thread = u => run[q].drafted = NoPlan
        BY <1>0, <1>3, <2>9 DEF OneRunMoves
    <3> QED
        BY <1>0, <1>7, <2>1, <2>6, <3>1, <3>2 DEF SerialSession, CallsAreCounted
  <2>10. ASSUME NEW q \in Procs, run'[q].at \in Nodes, NEW s \in Scopes
         PROVE  calls'[run'[q].thread][s] <= run'[q].v.drafts[s] + Uncounted(q, s)' + Forgotten'
    <3>1. CASE q = r
      <4>1. Uncounted(r, s)' = IF s = scope THEN 1 ELSE 0
          BY <1>1, <1>3 DEF Uncounted, scope
      <4> QED
          BY <1>3, <1>7, <2>5, <2>6, <2>7, <3>1, <4>1
    <3>2. CASE q # r
      <4>1. run'[q] = run[q] /\ Uncounted(q, s)' = Uncounted(q, s)
          BY <1>3, <3>2 DEF OneRunMoves, Uncounted
      <4>2. run[q].at \in Nodes /\ run[q].at # "idle" /\ run[q].thread \in Threads
          BY <1>0, <2>10, <4>1, BusyHasThread DEF Nodes
      <4>3. run[q].thread # t
          BY <1>0, <2>1, <3>2, <4>2 DEF SerialSession, Alone, t
      <4> QED
          BY <1>7, <2>1, <2>6, <4>1, <4>2, <4>3 DEF SerialSession, CallsAreCounted
    <3> QED
        BY <3>1, <3>2
  <2>11. CallsAreCounted'
      BY <2>9, <2>10 DEF CallsAreCounted
  <2>12. \A s \in Scopes : calls'[t][s] <= DuplicateLimit * (faults + 1)
    <3>1. \A s \in Scopes : calls[t][s] <= DuplicateLimit * (faults + 1)
        BY <1>1, <2>1 DEF SerialSession, DraftCallsBounded
    <3>2. calls'[t][scope] <= DuplicateLimit * (faults + 1)
        BY <1>2, <1>7, <2>5, <2>6, <2>7, <2>8, GraphConstants
    <3> QED
        BY <1>7, <3>1, <3>2
  <2>13. DraftCallsBounded'
      BY <1>0, <1>7, <2>1, <2>12 DEF SerialSession, DraftCallsBounded
  <2> QED
      BY <2>2, <2>4, <2>11, <2>13 DEF SerialSession
<1> QED
    BY <1>8, <1>11, <1>12 DEF IInv

\* A call that is counted, or refused before it is, changes one number at most.
LEMMA OneCountMoves ==
    ASSUME NEW count \in [Threads -> [Scopes -> Nat]], NEW t \in Threads, NEW scope \in Scopes,
           NEW counted \in BOOLEAN, NEW after,
           after = [count EXCEPT ![t][scope] = IF counted THEN @ + 1 ELSE @]
    PROVE  /\ after \in [Threads -> [Scopes -> Nat]]
           /\ after[t][scope] = IF counted THEN count[t][scope] + 1 ELSE count[t][scope]
           /\ \A s \in Scopes \ {scope} : after[t][s] = count[t][s]
           /\ \A u \in Threads \ {t} : after[u] = count[u]
<1>1. CASE counted
    BY <1>1
<1>2. CASE ~counted
    BY <1>2
<1> QED
    BY <1>1, <1>2

LEMMA ReturnDraftKeeps ==
    ASSUME IInv, NEW r \in Procs, ReturnDraft(r)
    PROVE  IInv'
<1> DEFINE v == run[r].v
           p == run[r].drafted
           t == run[r].thread
           w == DraftCreated(v, p)
<1>0. /\ TypeOK /\ SoundSession /\ (~Overlap => SerialSession)
      /\ run[r].at = "draft" /\ p # NoPlan /\ Save(r, w, "wait")
      /\ UNCHANGED <<conv, plan, rows, todo, turns, calls, faults>>
    BY DEF IInv, ReturnDraft
<1>1. v \in Values /\ p \in Plans /\ t \in Threads
  <2>1. run[r] \in Run
      BY <1>0 DEF TypeOK
  <2> QED
      BY <1>0, <2>1, BusyHasThread DEF Run
<1>2. Sound("draft", v) /\ DraftRuns(v)
    BY <1>0 DEF SoundSession, DraftedIsCommitted, Nodes
<1>3. NodeResult("wait", w, v.drafts) /\ DraftCounted(v, w) /\ w.plan = p /\ ~w.blocked
    BY <1>1, <1>2, DraftCreatedIsSound
<1> HIDE DEF w
<1>4. ASSUME ~Overlap, NEW s \in Scopes
      PROVE  /\ calls[t][s] <= w.drafts[s] + Forgotten
             /\ calls[t][s] <= DuplicateLimit * (faults + 1)
  <2>1. /\ calls[t][s] <= v.drafts[s] + Uncounted(r, s) + Forgotten
        /\ calls[t][s] <= DuplicateLimit * (faults + 1)
      BY <1>0, <1>1, <1>4 DEF SerialSession, CallsAreCounted, DraftCallsBounded, Nodes
  <2>2. Uncounted(r, s) = IF s = v.request.scope THEN 1 ELSE 0
      BY <1>0 DEF Uncounted
  <2>3. w.drafts[s] = IF s = v.request.scope THEN v.drafts[s] + 1 ELSE v.drafts[s]
      BY <1>1, <1>3 DEF DraftCounted, Values
  <2>4. v.drafts[s] \in Nat
      BY <1>1 DEF Values
  <2> QED
      BY <2>1, <2>2, <2>3, <2>4
<1>5. calls' \in [Threads -> [Scopes -> Nat]] /\ calls' = calls
  <2>1. calls \in [Threads -> [Scopes -> Nat]]
      BY <1>0 DEF TypeOK
  <2>2. calls' = calls
      BY <1>0
  <2> QED
      BY <2>1, <2>2
<1> QED
    BY <1>0, <1>3, <1>4, <1>5, NodeSaved DEF Nodes

LEMMA RefuseDraftKeeps ==
    ASSUME IInv, NEW r \in Procs, RefuseDraft(r)
    PROVE  IInv'
<1> DEFINE v == run[r].v
           t == run[r].thread
           scope == v.request.scope
           w == IF DraftRuns(v) THEN DraftBlocked(v) ELSE DraftRefused(v)
<1>0. /\ TypeOK /\ SoundSession /\ (~Overlap => SerialSession)
      /\ run[r].at = "draft" /\ run[r].drafted = NoPlan /\ Save(r, w, AfterDraft(w))
      /\ UNCHANGED <<conv, plan, rows, todo, turns, faults>>
      /\ calls' = [calls EXCEPT ![t][scope] = IF DraftRuns(v) THEN @ + 1 ELSE @]
    BY DEF IInv, RefuseDraft
<1>1. v \in Values /\ t \in Threads /\ scope \in Scopes /\ v.drafts \in [Scopes -> Nat]
  <2>1. v \in Values
      BY RunValues
  <2> QED
      BY <1>0, <2>1, BusyHasThread DEF Values, Requests
<1>2. Sound("draft", v)
    BY <1>0 DEF SoundSession, Nodes
<1>3. /\ NodeResult(AfterDraft(w), w, v.drafts)
      /\ DraftRuns(v) => DraftCounted(v, w)
    BY <1>1, <1>2, DraftBlockedIsSound, DraftRefusedIsSound
<1> HIDE DEF w
<1>4. /\ calls' \in [Threads -> [Scopes -> Nat]]
      /\ calls'[t][scope] = IF DraftRuns(v) THEN calls[t][scope] + 1 ELSE calls[t][scope]
      /\ \A s \in Scopes \ {scope} : calls'[t][s] = calls[t][s]
      /\ \A u \in Threads \ {t} : calls'[u] = calls[u]
  <2>1. calls \in [Threads -> [Scopes -> Nat]] /\ DraftRuns(v) \in BOOLEAN
      BY <1>0 DEF TypeOK, DraftRuns
  <2>2. calls' = [calls EXCEPT ![t][scope] = IF DraftRuns(v) THEN @ + 1 ELSE @]
      BY <1>0
  <2> HIDE DEF t, scope, v
  <2> QED
      BY <1>1, <2>1, <2>2, OneCountMoves
<1>5. ASSUME ~Overlap, NEW s \in Scopes
      PROVE  /\ calls'[t][s] <= w.drafts[s] + Forgotten
             /\ calls'[t][s] <= DuplicateLimit * (faults + 1)
  <2>1. /\ calls[t][s] <= v.drafts[s] + Uncounted(r, s) + Forgotten
        /\ calls[t][s] <= DuplicateLimit * (faults + 1)
      BY <1>0, <1>1, <1>5 DEF SerialSession, CallsAreCounted, DraftCallsBounded, Nodes
  <2>2. Uncounted(r, s) = 0
      BY <1>0 DEF Uncounted
  <2>3. v.drafts[s] \in Nat /\ calls[t][s] \in Nat /\ w.drafts[s] \in Nat
    <3>1. w.drafts \in [Scopes -> Nat]
        BY <1>3 DEF NodeResult, Values
    <3> QED
        BY <1>0, <1>1, <3>1 DEF TypeOK
  <2>4. /\ Forgotten \in Nat
        /\ DuplicateLimit * (faults + 1) = Forgotten + DuplicateLimit
      BY <1>0, ForgottenGrows DEF TypeOK, Forgotten
  <2>5. v.drafts[s] <= w.drafts[s]
      BY <1>3 DEF NodeResult
  <2>6. DraftRuns(v) /\ s = scope =>
            w.drafts[s] = v.drafts[s] + 1 /\ w.drafts[s] <= DuplicateLimit
      BY <1>1, <1>3 DEF DraftCounted
  <2> QED
      BY <1>4, <2>1, <2>2, <2>3, <2>4, <2>5, <2>6, GraphConstants
<1>6. ~Overlap => run[r].told = NoPlan
    BY <1>0 DEF SerialSession, ToldIsWaiting
<1> QED
    BY <1>0, <1>3, <1>4, <1>5, <1>6, NodeSaved DEF Nodes

LEMMA EndingsKeep ==
    ASSUME IInv, NEW r \in Procs, Finish(r) \/ Raise(r) \/ Fail(r) \/ Crash(r)
    PROVE  IInv'
<1>0. TypeOK /\ SoundSession
    BY DEF IInv
<1>1. /\ run' = [run EXCEPT ![r] = Idle]
      /\ UNCHANGED <<conv, plan, ckpt, turns, calls>>
    BY DEF Finish, Raise, Fail, Crash, Abort
<1>2. faults' = faults + 1 \/ (faults' = faults /\ run[r].drafted = NoPlan)
  <2>1. Finish(r) \/ Raise(r) => faults' = faults /\ run[r].at # "draft"
      BY DEF Finish, Raise, Raises
  <2>2. Fail(r) \/ Crash(r) => faults' = faults + 1
      BY DEF Fail, Crash, Fault
  <2> QED
      BY <1>0, <2>1, <2>2 DEF SoundSession, DraftedIsCommitted
<1>3. OneRunMoves(r) /\ run'[r] = Idle /\ Idle.at = "idle"
    BY <1>0, <1>1, EndMoves DEF Idle
<1>4. rows' \in Seq(Row) /\ DOMAIN rows' = DOMAIN rows
  <2>1. CASE rows' = rows
      BY <1>0, <2>1 DEF TypeOK
  <2>2. CASE rows' = [i \in DOMAIN rows |->
                        IF i \in First(todo[r]) THEN [rows[i] EXCEPT !.status = "succeeded"]
                        ELSE rows[i]]
    <3>1. rows \in Seq(Row) /\ Len(rows) \in Nat /\ DOMAIN rows = 1 .. Len(rows)
        BY <1>0 DEF TypeOK
    <3>2. \A row \in Row : [row EXCEPT !.status = "succeeded"] \in Row
        BY DEF Row
    <3>3. \A i \in DOMAIN rows : rows[i] \in Row
        BY <3>1
    <3>4. rows' \in [1 .. Len(rows) -> Row]
        BY <2>2, <3>1, <3>2, <3>3
    <3> QED
        BY <3>1, <3>4
  <2> QED
      BY <2>1, <2>2 DEF Finish, Raise, Fail, Crash, Abort
<1>5. todo' \in [Workers -> SUBSET DOMAIN rows]
  <2>1. \/ todo' = todo
        \/ r \in Workers /\ todo' = [todo EXCEPT ![r] = todo[r] \ First(todo[r])]
        \/ r \in Workers /\ todo' = [todo EXCEPT ![r] = {}]
      BY DEF Finish, Raise, Fail, Crash, Abort
  <2> QED
      BY <1>0, <2>1 DEF TypeOK
<1>6. TypeOK'
    BY <1>0, <1>1, <1>2, <1>3, <1>4, <1>5 DEF TypeOK, OneRunMoves
<1> QED
    BY <1>1, <1>2, <1>6, RunEnds

LEMMA LoseCheckpointTyped ==
    ASSUME TypeOK, NEW t \in Threads, LoseCheckpoint(t)
    PROVE  TypeOK'
<1>1. ckpt' \in [Threads -> Checkpoint] /\ faults' \in Nat
    BY IdleType DEF LoseCheckpoint, Fault, TypeOK
<1> QED
    BY <1>1 DEF LoseCheckpoint, TypeOK

----------------------------------------------------------------------------
(* The theorems *)

LEMMA NextIInv == IInv /\ [Next]_vars => IInv'
<1> SUFFICES ASSUME IInv, [Next]_vars PROVE IInv'
    OBVIOUS
<1>1. ASSUME NEW t \in Threads, CreateConversation(t) PROVE IInv'
    BY <1>1, QuietKeeps
<1>2. ASSUME NEW t \in Threads, LoseCheckpoint(t) PROVE IInv'
    BY <1>2, LoseCheckpointKeeps, LoseCheckpointTyped DEF IInv
<1>3. ASSUME NEW c \in Clients, NEW t \in Threads, StartTurn(c, t) PROVE IInv'
    BY <1>3, StartTurnKeeps
<1>4. ASSUME NEW c \in Clients, NEW t \in Threads, NEW p \in Plans, CheckResume(c, t, p)
      PROVE  IInv'
    BY <1>4, CheckResumeKeeps
<1>5. ASSUME NEW c \in Clients, StartResume(c) PROVE IInv'
    BY <1>5, StartResumeKeeps
<1>6. ASSUME NEW w \in Workers, Task(w) PROVE IInv'
    BY <1>6, QuietKeeps, TakeRowKeeps DEF Task
<1>7. ASSUME NEW r \in Procs, Step(r) PROVE IInv'
    BY <1>7, PlainNodesKeep, CommitDraftKeeps, ReturnDraftKeeps, RefuseDraftKeeps, WaitKeeps,
       EndingsKeep DEF Step
<1>8. ASSUME NEW r \in Procs, Fail(r) \/ Crash(r) PROVE IInv'
    BY <1>8, EndingsKeep
<1>9. CASE Business
    BY <1>9, BusinessKeeps
<1>10. CASE UNCHANGED vars
    BY <1>10, QuietKeeps
<1> QED
    BY <1>1, <1>2, <1>3, <1>4, <1>5, <1>6, <1>7, <1>8, <1>9, <1>10 DEF Next

\* Every reachable state satisfies the inductive invariant: the values of every
\* checkpoint and run are what the routes of the graph can have left, and, when the
\* runs of a thread follow one another, the calls are counted where they were made.
THEOREM Invariance == Spec => []IInv
<1> QED
    BY InitIInv, NextIInv, PTL DEF Spec

\* Only repeated calls hand a conversation over, as soon as the step limit leaves
\* room for the longest turn (agent_max_steps is 10), also where runs overlap.
THEOREM HandedOverForRepetition ==
    ASSUME MaxSteps >= LongestTurn
    PROVE  Spec => []BlockedOnlyByRepetition
<1>1. IInv => BlockedOnlyByRepetition
    BY DEF IInv, SoundSession, Sound, BlockedOnlyByRepetition
<1> QED
    BY <1>1, Invariance, PTL

\* The tool that writes is called at most as often as its limit, and as often again
\* after each fault, in conversations whose runs follow one another.
THEOREM DraftsAreLimited ==
    ASSUME ~Overlap
    PROVE  Spec => []DraftCallsBounded
<1>1. IInv => DraftCallsBounded
    BY DEF IInv, SerialSession
<1> QED
    BY <1>1, Invariance, PTL

\* A client whose live stream ended interrupted finds the conversation waiting for the
\* plan the stream named, where runs follow one another.  Nothing follows for what
\* is read from the checkpoint instead (ReportsMeanWaiting is refuted).
THEOREM LiveInterruptsWait ==
    ASSUME ~Overlap
    PROVE  Spec => []LiveInterruptMeansWaiting
<1>1. IInv => LiveInterruptMeansWaiting
    BY DEF IInv, SerialSession, ToldIsWaiting, LiveInterruptMeansWaiting, Procs
<1> QED
    BY <1>1, Invariance, PTL
----------------------------------------------------------------------------
(* Conversations that were handed over *)

\* No node lifts the block of a conversation.
LEMMA BlockedStays ==
    ASSUME NEW v \in Values, v.blocked
    PROVE  /\ \A result \in Values : Guarded(v, result).blocked
           /\ GuardTrips(v) /\ ~DraftRuns(v)
<1>1. GuardTrips(v)
    BY DEF GuardTrips
<1> QED
    BY <1>1, GuardedResult DEF DraftRuns

\* A step that leaves the calls alone, and the checkpoints but for lost ones; a run it
\* starts has the values of the checkpoint.
LEMMA SeenByOthers ==
    ASSUME BlockIsSeen, UNCHANGED calls,
           \A t \in Threads : ckpt'[t] = ckpt[t] \/ ckpt'[t] = NoCheckpoint,
           \A q \in Procs : run'[q].at \in Nodes =>
               /\ run'[q].thread \in Threads
               /\ \/ run'[q].v = ckpt'[run'[q].thread].v
                  \/ /\ run[q].at \in Nodes /\ run'[q].v = run[q].v
                     /\ run'[q].thread = run[q].thread
    PROVE  BlockIsSeen' /\ HandedOverStays
<1>1. ~NoCheckpoint.v.blocked
    BY DEF NoCheckpoint, EmptyValues
<1>2. \A t \in Threads : ckpt'[t].v.blocked => ckpt'[t] = ckpt[t]
    BY <1>1
<1> QED
    BY <1>2 DEF BlockIsSeen, HandedOverStays

LEMMA SeenByRest ==
    ASSUME IInv, BlockIsSeen, UNCHANGED <<ckpt, run, calls>>
    PROVE  BlockIsSeen' /\ HandedOverStays
<1>1. \A q \in Procs : run[q].at \in Nodes => run[q].thread \in Threads
    BY BusyHasThread DEF IInv, Nodes
<1> QED
    BY <1>1, SeenByOthers

\* A run that ends, or is checked and not under way yet.
LEMMA SeenByEnded ==
    ASSUME IInv, BlockIsSeen, NEW r \in Procs, OneRunMoves(r), run'[r].at \notin Nodes,
           UNCHANGED <<ckpt, calls>>
    PROVE  BlockIsSeen' /\ HandedOverStays
<1>1. \A q \in Procs : run[q].at \in Nodes => run[q].thread \in Threads
    BY BusyHasThread DEF IInv, Nodes
<1>2. \A q \in Procs : run'[q].at \in Nodes => run'[q] = run[q]
    BY DEF OneRunMoves
<1> QED
    BY <1>1, <1>2, SeenByOthers

LEMMA SeenByContinued ==
    ASSUME IInv, BlockIsSeen, NEW r \in Procs, NEW t \in Threads, NEW p, Continue(r, t, p),
           UNCHANGED <<ckpt, calls>>
    PROVE  BlockIsSeen' /\ HandedOverStays
<1>1. \A q \in Procs : run[q].at \in Nodes => run[q].thread \in Threads
    BY BusyHasThread DEF IInv, Nodes
<1>2. \A q \in Procs \ {r} : run'[q] = run[q]
    BY DEF Continue, IInv, TypeOK
<1>3. run'[r].at \in Nodes => run'[r].thread = t /\ run'[r].v = ckpt[t].v
  <2> DEFINE over == [Idle EXCEPT !.at = "end", !.kind = "resume", !.thread = t]
             on == [Idle EXCEPT !.at = ckpt[t].next, !.kind = "resume", !.thread = t,
                                !.v = ckpt[t].v, !.decision = DecisionOf(p)]
  <2>1. over.at = "end" /\ on.thread = t /\ on.v = ckpt[t].v
      BY DEF Idle
  <2>2. run' = [run EXCEPT ![r] = over] \/ run' = [run EXCEPT ![r] = on]
      BY DEF Continue
  <2> HIDE DEF over, on
  <2>3. run'[r] = over \/ run'[r] = on
      BY <2>2 DEF IInv, TypeOK
  <2> QED
      BY <2>1, <2>3 DEF Nodes
<1>4. ASSUME NEW q \in Procs, run'[q].at \in Nodes
      PROVE  /\ run'[q].thread \in Threads
             /\ \/ run'[q].v = ckpt'[run'[q].thread].v
                \/ /\ run[q].at \in Nodes /\ run'[q].v = run[q].v
                   /\ run'[q].thread = run[q].thread
  <2>1. CASE q = r
      BY <1>3, <1>4, <2>1
  <2>2. CASE q # r
      BY <1>1, <1>2, <1>4, <2>2
  <2> QED
      BY <2>1, <2>2
<1> QED
    BY <1>4, SeenByOthers

LEMMA SeenByTurn ==
    ASSUME IInv, BlockIsSeen, ~Overlap, NEW c \in Clients, NEW t \in Threads, StartTurn(c, t)
    PROVE  BlockIsSeen' /\ HandedOverStays
<1> DEFINE v == NewTurn(ckpt[t].v)
           n == [Idle EXCEPT !.at = "classify", !.kind = "turn", !.thread = t, !.v = v]
<1>1. c \in Procs /\ TypeOK
    BY DEF Procs, IInv
<1>2. v.blocked = ckpt[t].v.blocked
  <2>1. ckpt[t].v \in Values
      BY <1>1 DEF TypeOK, Checkpoint
  <2> QED
      BY <2>1 DEF NewTurn, Values
<1>3. /\ ckpt' = [ckpt EXCEPT ![t] = [next |-> "classify", v |-> v]]
      /\ run' = [run EXCEPT ![c] = n] /\ calls' = calls
    BY DEF StartTurn
<1> HIDE DEF v
<1>4. n.thread = t /\ n.v = v
    BY DEF Idle
<1> HIDE DEF n
<1>5. ckpt'[t].v = v /\ \A u \in Threads \ {t} : ckpt'[u] = ckpt[u]
    BY <1>1, <1>3 DEF TypeOK
<1>6. run'[c] = n /\ \A q \in Procs \ {c} : run'[q] = run[q]
    BY <1>1, <1>3 DEF TypeOK
<1>7. \A q \in Procs : run[q].at \in Nodes => run[q].thread \in Threads \ {t}
    BY <1>1, BusyHasThread DEF StartTurn, MayStart, Busy, Nodes
<1>8. BlockIsSeen'
    BY <1>4, <1>5, <1>6, <1>7 DEF BlockIsSeen
<1>9. HandedOverStays
    BY <1>2, <1>3, <1>5 DEF HandedOverStays
<1> QED
    BY <1>8, <1>9

\* A node that saves its values: blocked if those it was given are, without a call then.
LEMMA SeenBySaved ==
    ASSUME IInv, BlockIsSeen, ~Overlap, NEW r \in Procs, run[r].at \in Nodes,
           NEW v \in Values, NEW next \in Nodes \cup {"end"}, Save(r, v, next),
           run[r].v.blocked => v.blocked /\ calls' = calls,
           \A u \in Threads \ {run[r].thread} : calls'[u] = calls[u]
    PROVE  BlockIsSeen' /\ HandedOverStays
<1> DEFINE t == run[r].thread
<1>1. TypeOK /\ Alone
    BY DEF IInv, SerialSession
<1>2. run[r].at # "idle" /\ t \in Threads
    BY <1>1, BusyHasThread DEF Nodes
<1>3. OneRunMoves(r) /\ run'[r].v = v /\ run'[r].thread = t
    BY <1>1, SaveMoves
<1>4. ckpt'[t].v = v /\ \A u \in Threads \ {t} : ckpt'[u] = ckpt[u]
    BY <1>1, <1>2 DEF Save, TypeOK
<1>5. ckpt[t].v.blocked => v.blocked /\ calls' = calls
    BY DEF BlockIsSeen
<1>6. \A q \in Procs \ {r} : run[q].at \in Nodes => run[q].thread \in Threads \ {t}
    BY <1>1, <1>2, BusyHasThread DEF Alone, Nodes
<1>7. BlockIsSeen'
  <2>1. ASSUME NEW q \in Procs, run'[q].at \in Nodes, ckpt'[run'[q].thread].v.blocked
        PROVE  run'[q].v.blocked
    <3>1. CASE q = r
        BY <1>3, <1>4, <2>1, <3>1
    <3>2. CASE q # r
        BY <1>3, <1>4, <1>6, <2>1, <3>2 DEF BlockIsSeen, OneRunMoves
    <3> QED
        BY <3>1, <3>2
  <2> QED
      BY <2>1 DEF BlockIsSeen
<1>8. HandedOverStays
    BY <1>4, <1>5 DEF HandedOverStays
<1> QED
    BY <1>7, <1>8
LEMMA SeenByNodes ==
    ASSUME IInv, BlockIsSeen, ~Overlap, NEW r \in Procs,
           Classify(r) \/ Clarify(r) \/ GatherEvidence(r) \/ Finalize(r) \/ Respond(r) \/ Escalate(r)
    PROVE  BlockIsSeen' /\ HandedOverStays
<1> DEFINE v == run[r].v
           Holds(w, next) == /\ w \in Values /\ next \in Nodes \cup {"end"}
                             /\ Save(r, w, next) /\ (v.blocked => w.blocked)
<1>0. /\ v \in Values /\ (run[r].at \in Nodes => Sound(run[r].at, v))
      /\ run[r].at \in Nodes /\ calls' = calls
    BY RunValues DEF IInv, SoundSession, Classify, Clarify, GatherEvidence, Finalize, Respond,
                     Escalate, Nodes
<1>1. ASSUME NEW request \in Inputs PROVE v.blocked => Classified(v, request).blocked
  <2>1. [v EXCEPT !.request = request] \in Values
      BY <1>0, SessionConstants DEF Values
  <2> QED
      BY <1>0, <2>1, BlockedStays DEF Classified
<1>2. v.blocked => Clarified(v).blocked /\ Responded(v).blocked
  <2>1. /\ [v EXCEPT !.outcome = "clarified", !.said = NoDecision] \in Values
        /\ [v EXCEPT !.outcome = "answered", !.said = NoDecision] \in Values
      BY <1>0, EmptyType DEF Values, Outcomes
  <2> QED
      BY <1>0, <2>1, BlockedStays DEF Clarified, Responded
<1>3. v.blocked => Gathered(v).blocked /\ Finalized(v).blocked
    BY <1>0, BlockedStays DEF Gathered, Finalized, Guarded, ShortCircuit, Values
<1>4. Escalated(v).blocked
    BY <1>0 DEF Escalated, Values
<1>5. \E w, next : Holds(w, next)
  <2>1. CASE Classify(r)
    <3>1. PICK request \in Inputs :
              Save(r, Classified(v, request), AfterClassify(Classified(v, request)))
        BY <2>1 DEF Classify
    <3>2. NodeResult(AfterClassify(Classified(v, request)), Classified(v, request), v.drafts)
        BY <1>0, <2>1, ClassifiedIsSound, SessionConstants DEF Classify
    <3> QED
        BY <1>1, <3>1, <3>2 DEF NodeResult
  <2>2. CASE Clarify(r)
      BY <1>0, <1>2, <2>2, ClarifiedIsSound DEF Clarify, NodeResult
  <2>3. CASE GatherEvidence(r)
    <3>1. NodeResult(AfterEvidence(Gathered(v)), Gathered(v), v.drafts)
        BY <1>0, <2>3, GatheredIsSound DEF GatherEvidence
    <3>2. Save(r, Gathered(v), AfterEvidence(Gathered(v)))
        BY <2>3 DEF GatherEvidence
    <3> QED
        BY <1>3, <3>1, <3>2 DEF NodeResult
  <2>4. CASE Finalize(r)
      BY <1>0, <1>3, <2>4, FinalizedIsSound DEF Finalize, NodeResult
  <2>5. CASE Respond(r)
      BY <1>0, <1>2, <2>5, RespondedIsSound DEF Respond, NodeResult
  <2>6. CASE Escalate(r)
      BY <1>0, <1>4, <2>6, EscalatedIsSound DEF Escalate, NodeResult
  <2> QED
      BY <2>1, <2>2, <2>3, <2>4, <2>5, <2>6
<1>6. PICK w, next : Holds(w, next)
    BY <1>5
<1> QED
    BY <1>0, <1>6, SeenBySaved

LEMMA SeenByWait ==
    ASSUME IInv, BlockIsSeen, ~Overlap, NEW r \in Procs, Wait(r)
    PROVE  BlockIsSeen' /\ HandedOverStays
<1> DEFINE v == run[r].v
           w == Waited(v, run[r].decision)
<1>1. /\ v \in Values /\ run[r].decision \in Decisions /\ Sound("wait", v) /\ TypeOK
      /\ run[r].at = "wait" /\ run[r].at \in Nodes /\ calls' = calls
    BY RunValues DEF IInv, SoundSession, Wait, Nodes
<1>2. CASE Save(r, w, "finalize")
  <2>1. NodeResult("finalize", w, v.drafts)
      BY <1>1, WaitedIsSound
  <2>2. v.blocked => w.blocked
    <3>1. [v EXCEPT !.decision = run[r].decision] \in Values
        BY <1>1 DEF Values
    <3> QED
        BY <1>1, <3>1, BlockedStays DEF Waited
  <2> HIDE DEF w
  <2>3. w \in Values /\ "finalize" \in Nodes
      BY <2>1 DEF NodeResult, Nodes
  <2> QED
      BY <1>1, <1>2, <2>2, <2>3, SeenBySaved
<1>3. CASE run' = [run EXCEPT ![r].at = "end"] /\ UNCHANGED ckpt
  <2>1. OneRunMoves(r) /\ run'[r].at = "end"
      BY <1>1, <1>3, AtMoves
  <2> QED
      BY <1>1, <1>3, <2>1, SeenByEnded DEF Nodes
<1> QED
    BY <1>2, <1>3 DEF Wait

\* A blocked conversation is past the guards that lead to generate_draft.
LEMMA SeenByDraft ==
    ASSUME IInv, BlockIsSeen, ~Overlap, NEW r \in Procs,
           (\E p \in Plans : CommitDraft(r, p)) \/ ReturnDraft(r) \/ RefuseDraft(r)
    PROVE  BlockIsSeen' /\ HandedOverStays
<1> DEFINE v == run[r].v
           t == run[r].thread
<1>1. /\ v \in Values /\ TypeOK /\ SoundSession /\ run[r].at = "draft" /\ run[r].at \in Nodes
      /\ run[r].drafted \in Plans \cup {NoPlan} /\ Sound("draft", v)
    BY RunValues DEF IInv, SoundSession, CommitDraft, ReturnDraft, RefuseDraft, Nodes,
                     TypeOK, Run
<1>2. t \in Threads /\ v.request.scope \in Scopes
    BY <1>1, BusyHasThread DEF Values, Requests
<1>3. ASSUME NEW p \in Plans, CommitDraft(r, p) PROVE BlockIsSeen' /\ HandedOverStays
  <2>1. ~v.blocked
      BY <1>1, <1>3, BlockedStays DEF CommitDraft
  <2>2. ~ckpt[t].v.blocked
      BY <1>1, <2>1 DEF BlockIsSeen
  <2>3. /\ run' = [run EXCEPT ![r].drafted = p] /\ ckpt' = ckpt
        /\ calls' = [calls EXCEPT ![t][v.request.scope] = @ + 1]
      BY <1>3 DEF CommitDraft
  <2>4. OneRunMoves(r) /\ run'[r].at = run[r].at /\ run'[r].v = v /\ run'[r].thread = t
      BY <1>1, <2>3, DraftedMoves
  <2>5. \A u \in Threads \ {t} : calls'[u] = calls[u]
      BY <1>1, <1>2, <2>3 DEF TypeOK
  <2>6. BlockIsSeen'
      BY <2>3, <2>4 DEF BlockIsSeen, OneRunMoves
  <2>7. HandedOverStays
      BY <2>2, <2>3, <2>5 DEF HandedOverStays
  <2> QED
      BY <2>6, <2>7
<1>4. CASE ReturnDraft(r)
  <2> DEFINE w == DraftCreated(v, run[r].drafted)
  <2>1. DraftRuns(v) /\ run[r].drafted \in Plans
      BY <1>1, <1>4 DEF ReturnDraft, SoundSession, DraftedIsCommitted
  <2>2. NodeResult("wait", w, v.drafts) /\ ~v.blocked
      BY <1>1, <2>1, DraftCreatedIsSound, BlockedStays
  <2>3. Save(r, w, "wait") /\ calls' = calls
      BY <1>4 DEF ReturnDraft
  <2> HIDE DEF w
  <2>4. w \in Values /\ "wait" \in Nodes \cup {"end"}
      BY <2>2 DEF NodeResult, Nodes
  <2>5. /\ v.blocked => w.blocked /\ calls' = calls
        /\ \A u \in Threads \ {t} : calls'[u] = calls[u]
      BY <2>2, <2>3, Zenon
  <2> QED
      BY <1>1, <2>3, <2>4, <2>5, SeenBySaved
<1>5. CASE RefuseDraft(r)
  <2> DEFINE w == IF DraftRuns(v) THEN DraftBlocked(v) ELSE DraftRefused(v)
  <2>1. /\ Save(r, w, AfterDraft(w))
        /\ calls' = [calls EXCEPT ![t][v.request.scope] = IF DraftRuns(v) THEN @ + 1 ELSE @]
      BY <1>5 DEF RefuseDraft
  <2>2. NodeResult(AfterDraft(w), w, v.drafts)
      BY <1>1, DraftBlockedIsSound, DraftRefusedIsSound
  <2>3. v.blocked => w.blocked /\ calls' = calls
    <3> SUFFICES ASSUME v.blocked PROVE w.blocked /\ calls' = calls
        OBVIOUS
    <3>1. GuardTrips(v) /\ ~DraftRuns(v)
        BY <1>1, BlockedStays
    <3>2. w.blocked
        BY <1>1, <3>1 DEF DraftRefused, Guarded, ShortCircuit, Values
    <3>3. calls' = calls
        BY <1>1, <1>2, <2>1, <3>1 DEF TypeOK
    <3> QED
        BY <3>2, <3>3
  <2>4. \A u \in Threads \ {t} : calls'[u] = calls[u]
      BY <1>1, <1>2, <2>1 DEF TypeOK
  <2> HIDE DEF w
  <2>5. w \in Values /\ AfterDraft(w) \in Nodes \cup {"end"}
      BY <2>2 DEF NodeResult
  <2> QED
      BY <1>1, <2>1, <2>3, <2>4, <2>5, SeenBySaved
<1> QED
    BY <1>3, <1>4, <1>5

LEMMA NextBlockIsSeen ==
    ASSUME IInv, BlockIsSeen, ~Overlap, [Next]_vars
    PROVE  BlockIsSeen' /\ HandedOverStays
<1>0. TypeOK
    BY DEF IInv
<1>1. ASSUME NEW t \in Threads, LoseCheckpoint(t) PROVE BlockIsSeen' /\ HandedOverStays
  <2>1. ckpt' = [ckpt EXCEPT ![t] = NoCheckpoint] /\ UNCHANGED <<run, calls>>
      BY <1>1 DEF LoseCheckpoint
  <2>2. \A u \in Threads : ckpt'[u] = ckpt[u] \/ ckpt'[u] = NoCheckpoint
      BY <1>0, <2>1 DEF TypeOK
  <2>3. \A q \in Procs : run[q].at \in Nodes => run[q].thread \in Threads
      BY <1>0, BusyHasThread DEF Nodes
  <2> QED
      BY <2>1, <2>2, <2>3, SeenByOthers
<1>2. ASSUME NEW c \in Clients, NEW t \in Threads, NEW p \in Plans, CheckResume(c, t, p)
      PROVE  BlockIsSeen' /\ HandedOverStays
  <2> DEFINE n == [Idle EXCEPT !.at = "checked", !.kind = "resume", !.thread = t,
                               !.decision = [NoDecision EXCEPT !.plan = p]]
  <2>1. c \in Procs /\ run' = [run EXCEPT ![c] = n] /\ UNCHANGED <<ckpt, calls>>
      BY <1>2 DEF CheckResume, Procs, Idle
  <2>2. n \in Run /\ n.at = "checked"
    <3>1. [NoDecision EXCEPT !.plan = p] \in Decisions
        BY EmptyType DEF Decisions
    <3> QED
        BY <3>1, IdleType DEF Idle, Run
  <2> HIDE DEF n
  <2>3. OneRunMoves(c) /\ run'[c] = n
      BY <1>0, <2>1, <2>2, RunMoves
  <2> QED
      BY <2>1, <2>2, <2>3, SeenByEnded DEF Nodes
<1>3. ASSUME NEW r \in Procs, run' = [run EXCEPT ![r] = Idle], UNCHANGED <<ckpt, calls>>
      PROVE  BlockIsSeen' /\ HandedOverStays
  <2>1. OneRunMoves(r) /\ run'[r] = Idle
      BY <1>0, <1>3, EndMoves
  <2>2. Idle.at \notin Nodes
      BY DEF Idle, Nodes
  <2> QED
      BY <1>3, <2>1, <2>2, SeenByEnded
<1>4. ASSUME NEW c \in Clients, StartResume(c) PROVE BlockIsSeen' /\ HandedOverStays
  <2>1. c \in Procs /\ run[c].thread \in Threads /\ UNCHANGED <<ckpt, calls>>
      BY <1>0, <1>4, BusyHasThread DEF StartResume, Procs
  <2> QED
      BY <1>3, <1>4, <2>1, SeenByContinued DEF StartResume
<1>5. ASSUME NEW w \in Workers, TakeRow(w) PROVE BlockIsSeen' /\ HandedOverStays
  <2>1. PICK i \in First(todo[w]) : Continue(w, rows[i].thread, rows[i].plan)
      BY <1>5 DEF TakeRow
  <2>2. rows[i].thread \in Threads
    <3>1. i \in DOMAIN rows /\ rows \in Seq(Row)
        BY <1>0 DEF First, TypeOK
    <3>2. rows[i] \in Row
        BY <3>1
    <3> QED
        BY <3>2 DEF Row
  <2>3. w \in Procs /\ UNCHANGED <<ckpt, calls>>
      BY <1>5 DEF TakeRow, Procs
  <2> QED
      BY <2>1, <2>2, <2>3, SeenByContinued
<1>6. ASSUME UNCHANGED <<ckpt, run, calls>> PROVE BlockIsSeen' /\ HandedOverStays
    BY <1>6, SeenByRest
<1>7. ASSUME NEW r \in Procs, Step(r) PROVE BlockIsSeen' /\ HandedOverStays
  <2>1. CASE Finish(r) \/ Raise(r)
      BY <1>3, <2>1 DEF Finish, Raise, Abort
  <2> QED
      BY <1>7, <2>1, SeenByNodes, SeenByWait, SeenByDraft DEF Step
<1>8. ASSUME NEW r \in Procs, Fail(r) \/ Crash(r) PROVE BlockIsSeen' /\ HandedOverStays
    BY <1>3, <1>8 DEF Fail, Crash, Abort
<1>9. ASSUME NEW w \in Workers, Task(w) PROVE BlockIsSeen' /\ HandedOverStays
    BY <1>5, <1>6, <1>9 DEF Task, Trigger, TakeLostRow
<1>10. CASE Business \/ UNCHANGED vars \/ \E t \in Threads : CreateConversation(t)
    BY <1>6, <1>10 DEF Business, Decide, CreateOrders, Supersede, CreateConversation, vars
<1> QED
    BY <1>1, <1>2, <1>4, <1>7, <1>8, <1>9, <1>10, SeenByTurn DEF Next

\* A conversation handed over to people stays so and calls the writing tool no more,
\* whatever is sent to it later; only the loss of its checkpoint makes it forget.
\* Its runs have to follow one another.
THEOREM BlockedConversationIsInert ==
    ASSUME ~Overlap
    PROVE  Spec => BlockedThreadIsInert
<1>1. Init => BlockIsSeen
    BY DEF Init, BlockIsSeen, Idle, Nodes
<1>2. IInv /\ BlockIsSeen /\ [Next]_vars => BlockIsSeen' /\ HandedOverStays
    BY NextBlockIsSeen
<1> QED
    BY <1>1, <1>2, Invariance, PTL DEF Spec, BlockedThreadIsInert
=============================================================================
