------------------------- MODULE ReplenishmentPlan -------------------------
(***************************************************************************)
(* The replenishment plans of ONE warehouse (services/plan_service.py,     *)
(* services/locks.py and the drafting part of execution_service.run_scan): *)
(* drafting, approving or rejecting, creating the purchase orders and      *)
(* replacing a plan by a revision.                                         *)
(*                                                                         *)
(* A process is a request handler or a scan.  Its command is one database  *)
(* transaction under READ COMMITTED: it reads the plan and its lines, then *)
(* takes an advisory lock per product, one by one, then reads the decision *)
(* inputs again, then writes over what it read first and commits.  The     *)
(* locks are held to the end of the transaction.  What else changes the    *)
(* decision inputs (receipts, the progress of orders) takes no such lock.  *)
(***************************************************************************)
EXTENDS Integers

CONSTANTS
    Handlers,     \* API request handlers (and the agent's draft tool)
    Scanners,     \* runs of the scheduled scan
    Products,     \* products of the warehouse, in the order of their ids
    NeedNothing,  \* <<plan, product>> whose computed order quantity is 0
    MaxPlans,     \* bound on the plans explored
    MaxInputs,    \* bound on the changes of a product's inputs
    Commands,     \* the commands the handlers give
    Overlap       \* FALSE: a command starts only when no other is under way

ASSUME ConstantsAssumption ==
    /\ Handlers \cap Scanners = {}
    /\ Products \subseteq Nat
    /\ NeedNothing \subseteq (1 .. MaxPlans) \X Products
    /\ MaxPlans \in Nat
    /\ MaxInputs \in Nat
    /\ Commands \subseteq {"draft", "decide", "create", "supersede"}
    /\ Overlap \in BOOLEAN

Plans == 1 .. MaxPlans
Procs == Handlers \cup Scanners

VARIABLES
    plan,     \* replenishment_plan rows
    line,     \* plan_line rows: line[k][p] of plan k and product p
    ordered,  \* purchase_order_line made from line[k][p]: none, open, gone, or
              \* back: open again
    inputs,   \* version of the stock and of the open orders of each product
    alert,    \* products with an open `blocked' alert
    resume,   \* workflow_resume rows: [plan, version]
    sess      \* the sessions

evidence == <<inputs, alert>>
vars == <<plan, line, ordered, inputs, alert, resume, sess>>

----------------------------------------------------------------------------
(* Values *)

PlanStatus == {"pending_approval", "approved", "rejected", "superseded"}

NoPlan == [status |-> "none", version |-> 0, thread |-> FALSE, revises |-> 0]

\* A plan exists in pending_approval from the start; thread: it belongs to a
\* conversation; revises: the plan it replaces, or 0.
NewPlanRow(thread, revises) ==
    [status |-> "pending_approval", version |-> 1, thread |-> thread, revises |-> revises]

\* What decision_input_hash tells apart: the inputs' version, and from which
\* plans the product has open purchase orders.
NoBasis == [inputs |-> 0, inbound |-> {}]

NoLine == [flag |-> "none", active |-> FALSE, basis |-> NoBasis]

IdleSession ==
    [op |-> "none", step |-> "idle", plan |-> 0, seen |-> 0,
     prods |-> {}, want |-> {}, held |-> {}, basis |-> [p \in Products |-> NoBasis]]

Exists(k) == plan[k].status # "none"

ValidLines(k) == {p \in Products : line[k][p].flag = "valid"}
ActiveLines(k) == {p \in Products : line[k][p].active}

HasOrder(k) == \E p \in Products : ordered[k][p] # "none"

\* The lines of plan k whose quantity is 0.
ZeroLines(k) == {p \in Products : <<k, p>> \in NeedNothing}

\* A product with an active line in a plan other than k (k = 0: in any plan).
ActiveElsewhere(p, k) == \E j \in Plans \ {k} : line[j][p].active

\* The orders of p in INBOUND_PO_STATES, and those that have never left them.
Inbound(p) == {k \in Plans : ordered[k][p] \in {"open", "back"}}
OpenSince(p) == {k \in Plans : ordered[k][p] = "open"}
CurrentBasis(p) == [inputs |-> inputs[p], inbound |-> Inbound(p)]

\* Faulty: the hash leaves out the open orders.
FreshStockOnly(k, p) == line[k][p].basis.inputs = inputs[p]

\* recompute_line_hash finds no change
Fresh(k, p) == line[k][p].basis = CurrentBasis(p)

----------------------------------------------------------------------------
Init ==
    /\ plan = [k \in Plans |-> NoPlan]
    /\ line = [k \in Plans |-> [p \in Products |-> NoLine]]
    /\ ordered = [k \in Plans |-> [p \in Products |-> "none"]]
    /\ inputs = [p \in Products |-> 0]
    /\ alert = {}
    /\ resume = {}
    /\ sess = [h \in Procs |-> IdleSession]

At(h, op, step) == sess[h].op = op /\ sess[h].step = step

Go(h, session) == sess' = [sess EXCEPT ![h] = session]

Quiet == \A h \in Procs : sess[h].step = "idle"

MayStart(h) == sess[h].step = "idle" /\ (Overlap \/ Quiet)

\* Read and lock steps write nothing.
NoWrite == UNCHANGED <<plan, line, ordered, evidence, resume>>

----------------------------------------------------------------------------
(* Advisory locks: acquire_warehouse_product_locks *)

\* Faulty: the products are locked in no particular order.
NextLockAny(h, p) == p \in sess[h].want \ sess[h].held

\* The products are locked in ascending order.
NextLock(h, p) ==
    /\ p \in sess[h].want \ sess[h].held
    /\ \A q \in sess[h].want \ sess[h].held : p <= q

TakeLock(h) ==
    /\ sess[h].step \in {"locking", "relocking"}
    /\ \E p \in Products :
        /\ NextLock(h, p)
        /\ \A g \in Procs : p \notin sess[g].held
        /\ Go(h, [sess[h] EXCEPT !.held = @ \cup {p}])
    /\ NoWrite

\* Faulty: nobody waits for the locks.
LockedAlways(h) == TRUE

Locked(h) == sess[h].want \subseteq sess[h].held

----------------------------------------------------------------------------
(* Drafting: generate_draft *)

\* Refused when a product already has an active line.
DraftRead(h) ==
    /\ MayStart(h)
    /\ \E Q \in (SUBSET Products) \ {{}} :
        /\ \A p \in Q : ~ActiveElsewhere(p, 0)
        /\ Go(h, [IdleSession EXCEPT !.op = "draft", !.step = "locking",
                                     !.prods = Q, !.want = Q])
    /\ NoWrite

WithBasis(Q) == [p \in Products |-> IF p \in Q THEN CurrentBasis(p) ELSE NoBasis]

\* _compute_line for every product, under the locks; also for a revision.
DraftCompute(h) ==
    /\ At(h, "draft", "locking") \/ At(h, "supersede", "relocking")
    /\ Locked(h)
    /\ Go(h, [sess[h] EXCEPT !.step = "computed", !.basis = WithBasis(sess[h].prods)])
    /\ NoWrite

\* The lines of a new plan for the products in Q.
NewLines(h, Q) ==
    [p \in Products |->
        IF p \in Q THEN [flag |-> "valid", active |-> TRUE, basis |-> sess[h].basis[p]]
        ELSE NoLine]

\* Faulty: the partial unique index is missing.
InsertableAlways(Q, k) == TRUE

\* uq_plan_line_active_dedupe
Insertable(Q, k) == \A p \in Q : ~ActiveElsewhere(p, k)

NextPlan(k) == ~Exists(k) /\ \A j \in 1 .. k - 1 : Exists(j)

\* Every product is blocked: alerts are opened, no plan is left.
DraftBlocked(h) ==
    /\ At(h, "draft", "computed")
    /\ alert' = alert \cup sess[h].prods
    /\ Go(h, IdleSession)
    /\ UNCHANGED <<plan, line, ordered, inputs, resume>>

\* Some products may be blocked (no rule, no supplier, illegal input) and get an
\* alert; close_open_alert with code "*" matches no alert of the others.
DraftCommit(h) ==
    /\ At(h, "draft", "computed")
    /\ \E Q \in (SUBSET sess[h].prods) \ {{}}, k \in Plans :
        /\ NextPlan(k)
        /\ Insertable(Q, 0)
        /\ plan' = [plan EXCEPT ![k] = NewPlanRow(TRUE, 0)]
        /\ line' = [line EXCEPT ![k] = NewLines(h, Q)]
        /\ alert' = alert \cup (sess[h].prods \ Q)
    /\ Go(h, IdleSession)
    /\ UNCHANGED <<ordered, inputs, resume>>

----------------------------------------------------------------------------
(* The scan: run_scan *)

\* The lines are computed BEFORE the locks are taken; Q are the products with
\* a valid line.  A line's basis is what its hash saw: LineComputation looks at
\* the readings one by one.
ScanCompute(w) ==
    /\ MayStart(w)
    /\ \E Q \in SUBSET Products :
        Go(w, [IdleSession EXCEPT !.op = "scan", !.step = "locking", !.prods = Q,
                                  !.want = Q, !.basis = WithBasis(Q)])
    /\ NoWrite

\* Faulty: the plan is kept although no line could be inserted.
KeepScanPlanAlways(Q) == TRUE

KeepScanPlan(Q) == Q # {}

\* A product with an active line is skipped with an alert; of the products not
\* computed, the blocked ones get an alert and the failed ones do not.
ScanCommit(w) ==
    /\ At(w, "scan", "locking")
    /\ Locked(w)
    /\ LET Q == {p \in sess[w].prods : Insertable({p}, 0)}
       IN  /\ \E B \in SUBSET (Products \ sess[w].prods) :
                alert' = alert \cup B \cup (sess[w].prods \ Q)
           /\ IF sess[w].prods # {} /\ KeepScanPlan(Q)
                THEN \E k \in Plans :
                        /\ NextPlan(k)
                        /\ plan' = [plan EXCEPT ![k] = NewPlanRow(FALSE, 0)]
                        /\ line' = [line EXCEPT ![k] = NewLines(w, Q)]
                ELSE UNCHANGED <<plan, line>>
    /\ Go(w, IdleSession)
    /\ UNCHANGED <<ordered, inputs, resume>>

----------------------------------------------------------------------------
(* Commands on a plan: its status is read before anything is locked *)

\* Faulty: a plan that was decided may be decided again.
StatusForAgain(op) ==
    IF op = "create" THEN {"approved"} ELSE {"pending_approval", "approved"}

StatusFor(op) ==
    CASE op = "decide"    -> {"pending_approval"}
      [] op = "create"    -> {"approved"}
      [] op = "supersede" -> {"pending_approval", "approved"}

PlanRead(h, op) ==
    /\ MayStart(h)
    /\ \E k \in Plans :
        /\ plan[k].status \in StatusFor(op)
        /\ Go(h, [IdleSession EXCEPT !.op = op, !.step = "plan_read", !.plan = k,
                                     !.seen = plan[k].version])
    /\ NoWrite

\* The write of a command: status and version as computed from what was read.
Rewrite(h, status) ==
    [plan[sess[h].plan] EXCEPT !.status = status, !.version = sess[h].seen + 1]

----------------------------------------------------------------------------
(* Approving and rejecting: decide_plan *)

DecideLines(h) ==
    /\ At(h, "decide", "plan_read")
    /\ Go(h, [sess[h] EXCEPT !.step = "locking", !.want = ValidLines(sess[h].plan)])
    /\ NoWrite

\* prods: the lines to approve, every one of them unchanged.
DecideCheck(h) ==
    /\ At(h, "decide", "locking")
    /\ Locked(h) /\ sess[h].want # {}
    /\ \E A \in SUBSET sess[h].want :
        /\ \A p \in A : Fresh(sess[h].plan, p)
        /\ Go(h, [sess[h] EXCEPT !.step = "checked", !.prods = A])
    /\ NoWrite

\* _write_resume_if_manual
ResumeRow(h) ==
    IF plan[sess[h].plan].thread
    THEN {[plan |-> sess[h].plan, version |-> sess[h].seen + 1]} ELSE {}

\* Faulty: a rejection is not reported to the conversation.
ResumeAfterForgetful(h, status) == IF status = "approved" THEN ResumeRow(h) ELSE {}

ResumeAfter(h, status) == ResumeRow(h)

Decide(h, status) ==
    /\ plan' = [plan EXCEPT ![sess[h].plan] = Rewrite(h, status)]
    /\ resume' = resume \cup ResumeAfter(h, status)
    /\ Go(h, IdleSession)
    /\ UNCHANGED <<ordered, evidence>>

\* Faulty: a plan without an approved line becomes `approved' too; it gets the
\* flag meant for its lines.
OutcomeAlways(A) == "approved"
OutcomeWrongConstant(A) == IF A # {} THEN "approved" ELSE "excluded"

Outcome(A) == IF A # {} THEN "approved" ELSE "rejected"

Exclude(l) == [l EXCEPT !.flag = "excluded", !.active = FALSE]
Release(l) == [l EXCEPT !.active = FALSE]

\* Faulty: an approved line is released at once.
DecidedLinesReleased(h) ==
    [p \in Products |-> IF p \in sess[h].want \ sess[h].prods
                        THEN Exclude(line[sess[h].plan][p])
                        ELSE Release(line[sess[h].plan][p])]

\* Every valid line that is not approved is excluded.
DecidedLines(h) ==
    [p \in Products |-> IF p \in sess[h].want \ sess[h].prods
                        THEN Exclude(line[sess[h].plan][p]) ELSE line[sess[h].plan][p]]

ApproveCommit(h) ==
    /\ At(h, "decide", "checked")
    /\ Decide(h, Outcome(sess[h].prods))
    /\ line' = [line EXCEPT ![sess[h].plan] = DecidedLines(h)]

\* Faulty: the lines of a plan that ends stay active.
OldLinesKept(h) == line[sess[h].plan]

\* The lines of a plan that ends (rejected, superseded).  No line that was
\* inactive when it was read can be active now.
OldLines(h) == [p \in Products |-> Release(line[sess[h].plan][p])]

RejectCommit(h) ==
    /\ At(h, "decide", "locking")
    /\ Locked(h)
    /\ Decide(h, "rejected")
    /\ line' = [line EXCEPT ![sess[h].plan] = OldLines(h)]

----------------------------------------------------------------------------
(* Purchase orders of an approved plan: create_purchase_orders *)

CreateLines(h) ==
    /\ At(h, "create", "plan_read")
    /\ ValidLines(sess[h].plan) \ ZeroLines(sess[h].plan) # {}
    /\ ~HasOrder(sess[h].plan)
    /\ Go(h, [sess[h] EXCEPT !.step = "locking", !.want = ValidLines(sess[h].plan)])
    /\ NoWrite

\* Faulty: the hash is not recomputed.
AllFreshUnchecked(h) == TRUE

AllFresh(h) == \A p \in sess[h].want : Fresh(sess[h].plan, p)

CreateCheck(h) ==
    /\ At(h, "create", "locking")
    /\ Locked(h)
    /\ AllFresh(h)
    /\ Go(h, [sess[h] EXCEPT !.step = "checked"])
    /\ NoWrite

\* The lines to order, of those read.
Purchasable(h) == sess[h].want \ ZeroLines(sess[h].plan)

\* Faulty: the ordered lines stay active.
ReleaseOrderedNever(h) == line[sess[h].plan]

\* Lines that are ordered are released; a line of quantity 0 is not.
ReleaseOrdered(h) ==
    [p \in Products |->
        IF p \in Purchasable(h)
        THEN Release(line[sess[h].plan][p]) ELSE line[sess[h].plan][p]]

\* uq_po_line_plan_line: a line is ordered once.  The status is not written.
CreateCommit(h) ==
    /\ At(h, "create", "checked")
    /\ \A p \in Purchasable(h) : ordered[sess[h].plan][p] = "none"
    /\ ordered' = [ordered EXCEPT ![sess[h].plan] = [p \in Products |->
                     IF p \in Purchasable(h) THEN "open" ELSE @[p]]]
    /\ line' = [line EXCEPT ![sess[h].plan] = ReleaseOrdered(h)]
    /\ plan' = [plan EXCEPT ![sess[h].plan].version = sess[h].seen + 1]
    /\ Go(h, IdleSession)
    /\ UNCHANGED <<evidence, resume>>

----------------------------------------------------------------------------
(* Revisions: supersede_plan *)

\* Faulty: it is not checked whether the plan has led to orders.
ReplaceableAlways(h) == TRUE

Replaceable(h) == ~HasOrder(sess[h].plan)

\* prods: the products of the revision; the locks are those of the old plan.
SupersedeLines(h) ==
    /\ At(h, "supersede", "plan_read")
    /\ Replaceable(h)
    /\ \E Q \in (SUBSET Products) \ {{}} :
        Go(h, [sess[h] EXCEPT !.step = "locking", !.prods = Q,
                              !.want = ActiveLines(sess[h].plan)])
    /\ NoWrite

\* The old lines are released (not yet committed); generate_draft then looks
\* for active lines and locks the new products.
SupersedeRelease(h) ==
    /\ At(h, "supersede", "locking")
    /\ Locked(h)
    /\ \A p \in sess[h].prods : ~ActiveElsewhere(p, sess[h].plan)
    /\ Go(h, [sess[h] EXCEPT !.step = "relocking", !.want = sess[h].prods])
    /\ NoWrite

\* One transaction: the old plan is released and superseded, the new one made.
SupersedeCommit(h) ==
    /\ At(h, "supersede", "computed")
    /\ \E Q \in (SUBSET sess[h].prods) \ {{}}, k \in Plans :
        /\ NextPlan(k)
        /\ Insertable(Q, sess[h].plan)
        /\ plan' = [plan EXCEPT
                      ![sess[h].plan] = Rewrite(h, "superseded"),
                      ![k] = NewPlanRow(plan[sess[h].plan].thread, sess[h].plan)]
        /\ line' = [line EXCEPT ![sess[h].plan] = OldLines(h), ![k] = NewLines(h, Q)]
        /\ alert' = alert \cup (sess[h].prods \ Q)
    /\ Go(h, IdleSession)
    /\ UNCHANGED <<ordered, inputs, resume>>

----------------------------------------------------------------------------
(* Everything else *)

\* A command ends without effect: a lock times out, a check refuses, the
\* process crashes.  Its transaction is rolled back and its locks are free.
Abandon(h) ==
    /\ sess[h].step # "idle"
    /\ Go(h, IdleSession)
    /\ NoWrite

\* Stock, supplier terms or the state of an open order change.
InputsChange(p) ==
    /\ Overlap \/ Quiet
    /\ inputs[p] < MaxInputs
    /\ inputs' = [inputs EXCEPT ![p] = @ + 1]
    /\ UNCHANGED <<plan, line, ordered, alert, resume, sess>>

\* A purchase order leaves the inbound states: its last goods come in, or it is
\* cancelled.
OrderGone(k, p) ==
    /\ Overlap \/ Quiet
    /\ k \in Inbound(p)
    /\ ordered' = [ordered EXCEPT ![k][p] = "gone"]
    /\ UNCHANGED <<plan, line, evidence, resume, sess>>

\* query_unknown_order has read the order before it was received or cancelled,
\* and overwrites that status with `ordered' or `po_created' (PurchaseOrder has
\* the steps): it locks neither the order's row nor its products.  place_order,
\* which reads the order before it locks, can undo a cancellation in the same way.
OrderBack(k, p) ==
    /\ Overlap \/ Quiet
    /\ ordered[k][p] = "gone"
    /\ ordered' = [ordered EXCEPT ![k][p] = "back"]
    /\ UNCHANGED <<plan, line, evidence, resume, sess>>

GenerateDraft(h) == DraftRead(h) \/ DraftCompute(h) \/ DraftBlocked(h) \/ DraftCommit(h)

RunScan(w) == ScanCompute(w) \/ ScanCommit(w)

DecidePlan(h) ==
    \/ PlanRead(h, "decide")
    \/ DecideLines(h)
    \/ DecideCheck(h)
    \/ ApproveCommit(h)
    \/ RejectCommit(h)

CreatePurchaseOrders(h) ==
    \/ PlanRead(h, "create")
    \/ CreateLines(h)
    \/ CreateCheck(h)
    \/ CreateCommit(h)

SupersedePlan(h) ==
    \/ PlanRead(h, "supersede")
    \/ SupersedeLines(h)
    \/ SupersedeRelease(h)
    \/ DraftCompute(h)
    \/ SupersedeCommit(h)

Next ==
    \/ \E h \in Handlers :
        \/ "draft" \in Commands /\ GenerateDraft(h)
        \/ "decide" \in Commands /\ DecidePlan(h)
        \/ "create" \in Commands /\ CreatePurchaseOrders(h)
        \/ "supersede" \in Commands /\ SupersedePlan(h)
    \/ \E w \in Scanners : RunScan(w)
    \/ \E h \in Procs : TakeLock(h) \/ Abandon(h)
    \/ \E p \in Products : InputsChange(p)
    \/ \E k \in Plans, p \in Products : OrderGone(k, p) \/ OrderBack(k, p)

Spec == Init /\ [][Next]_vars

----------------------------------------------------------------------------
(* Properties that hold under every interleaving *)

BasisType == [inputs : 0 .. MaxInputs, inbound : SUBSET Plans]

PlanType ==
    [status : PlanStatus, version : Nat \ {0}, thread : BOOLEAN, revises : {0} \cup Plans]

LineType == [flag : {"none", "valid", "excluded"}, active : BOOLEAN, basis : BasisType]

SessionType ==
    [op : {"none", "draft", "scan", "decide", "create", "supersede"},
     step : {"idle", "plan_read", "locking", "relocking", "computed", "checked"},
     plan : {0} \cup Plans, seen : Nat,
     prods : SUBSET Products, want : SUBSET Products, held : SUBSET Products,
     basis : [Products -> BasisType]]

\* Every row and session has the shape the tables and the code give it.
TypeOK ==
    /\ plan \in [Plans -> PlanType \cup {NoPlan}]
    /\ line \in [Plans -> [Products -> LineType]]
    /\ ordered \in [Plans -> [Products -> {"none", "open", "gone", "back"}]]
    /\ inputs \in [Products -> 0 .. MaxInputs]
    /\ alert \subseteq Products
    /\ resume \subseteq [plan : Plans, version : Nat]
    /\ sess \in [Procs -> SessionType]

\* A product never has two active suggestions, in whichever order drafts, scans
\* and revisions looked for one and inserted theirs (generate_draft, run_scan
\* and supersede_plan look before they lock).
OneActiveLine ==
    \A p \in Products : \A j, k \in Plans :
        line[j][p].active /\ line[k][p].active => j = k

\* A suggestion that became a purchase order no longer counts as active: the
\* product is covered by the suggestion or by the order, never by both.
OrderedIsReleased ==
    \A k \in Plans, p \in Products : ordered[k][p] # "none" => ~line[k][p].active

Orders(k, p) == ordered[k][p] = "none" /\ ordered'[k][p] = "open"

\* No two commands order a product in ignorance of each other: an order is made
\* only on a hash that counts every order of the product that is open and has
\* been since it was made.  Those made since the line was computed change its
\* hash, and no other command can make one between the check and the commit
\* (create_purchase_orders checks and writes under the product's lock).  Orders
\* that a late answer has put back (OrderBack) are not covered.
KnowsCommitments ==
    [][\A k \in Plans, p \in Products :
          Orders(k, p) => OpenSince(p) \subseteq line[k][p].basis.inbound]_vars

\* A conversation whose plan was decided has a resume row for it, whichever of
\* two competing decisions was written last (decide_plan writes both at once).
DecisionIsDelivered ==
    \A k \in Plans :
        plan[k].thread /\ plan[k].status \in {"approved", "rejected"}
            => \E r \in resume : r.plan = k

\* There is no plan without lines, neither from a scan all of whose lines lost
\* the race against active suggestions, nor from a revision.
PlanHasLines ==
    \A k \in Plans : Exists(k) => \E p \in Products : line[k][p].flag # "none"

\* Rejected and superseded plans hold no active line, even when the rejection or
\* the revision was overtaken by another decision, or overtook one: nothing makes
\* a released line active again (decide_plan, supersede_plan).
EndedPlanIsReleased ==
    \A k \in Plans : plan[k].status \in {"rejected", "superseded"} => ActiveLines(k) = {}

\* No suggestion outlives its end: a line that became an order, or whose plan was
\* rejected or replaced, holds its product back no longer, however the commands
\* raced (decide_plan, create_purchase_orders, supersede_plan).
SuggestionsEnd == OrderedIsReleased /\ EndedPlanIsReleased

\* g waits for a lock that h holds.
WaitsFor(g, h) ==
    /\ sess[g].step \in {"locking", "relocking"}
    /\ \E p \in sess[h].held : NextLock(g, p)

\* Commands never wait for each other in a circle: the products are locked in
\* one order (acquire_warehouse_product_locks).
NoDeadlock ==
    \A S \in (SUBSET Procs) \ {{}} : \E g \in S : \A h \in S : ~WaitsFor(g, h)

----------------------------------------------------------------------------
(* The invariants that make the properties above inductive *)

\* What a session still lacks is above all it has; a revision, which locks a
\* second set of products, is excluded.
LocksAscend(h) ==
    /\ sess[h].op # "supersede" /\ sess[h].step # "relocking"
    /\ sess[h].step = "plan_read" => sess[h].held = {}
    /\ \A p \in sess[h].held, q \in sess[h].want \ sess[h].held : p < q

LocksExclusive ==
    \A g, h \in Procs : g # h => sess[g].held \cap sess[h].held = {}

\* An active line is valid; lines and orders belong to plans that exist.
RowsConsistent ==
    \A k \in Plans, p \in Products :
        /\ line[k][p].active => line[k][p].flag = "valid"
        /\ ordered[k][p] # "none" => Exists(k)

OnPlan(h) == sess[h].op \in {"decide", "create", "supersede"}

\* What a session still holds of the rows it read: its plan exists, the lines
\* it saw as valid include those that are, and, once it has checked the lines it
\* will order, no order it does not know can be made (one can come back).
SessionSound(h) ==
    /\ OnPlan(h) => sess[h].plan \in Plans /\ Exists(sess[h].plan)
    /\ At(h, "decide", "locking") \/ At(h, "decide", "checked") =>
        ValidLines(sess[h].plan) \subseteq sess[h].want
    /\ At(h, "create", "checked") =>
        /\ sess[h].want \subseteq sess[h].held
        /\ \A p \in sess[h].want : OpenSince(p) \subseteq line[sess[h].plan][p].basis.inbound

IInv ==
    /\ TypeOK
    /\ LocksExclusive
    /\ RowsConsistent
    /\ \A h \in Procs : SessionSound(h)
    /\ OneActiveLine
    /\ OrderedIsReleased
    /\ DecisionIsDelivered
    /\ EndedPlanIsReleased
    /\ PlanHasLines

----------------------------------------------------------------------------
(* Properties the documentation states; they need Overlap = FALSE *)

Lifecycle == INSTANCE PlanLifecycle WITH
    status <- [k \in Plans |-> plan[k].status],
    hasOrder <- [k \in Plans |-> HasOrder(k)]

\* One command at a time, the plans behave as PlanLifecycle says.
ImplementsLifecycle == Lifecycle!Spec

\* A line is ordered only on the inputs it was computed from.
OrderedWhenFresh ==
    [][\A k \in Plans, p \in Products : Orders(k, p) => Fresh(k, p)]_vars

\* An approved plan has at least one approved line.
ApprovedHasLine == \A k \in Plans : plan[k].status = "approved" => ValidLines(k) # {}

\* A plan that was replaced by a revision leads to no purchase order.
SupersededHasNoOrder == \A k \in Plans : plan[k].status = "superseded" => ~HasOrder(k)

\* From approval to its purchase order a line stays active, so that the product
\* is not suggested again meanwhile.
ApprovedStaysActive ==
    \A k \in Plans : plan[k].status = "approved" =>
        \A p \in ValidLines(k) : ordered[k][p] = "none" => line[k][p].active

----------------------------------------------------------------------------
(* The invariant behind these: what holds besides when Overlap = FALSE *)

\* Only an approved plan has orders, and its other valid lines are active.
PlansInOrder ==
    /\ \A k \in Plans : HasOrder(k) => plan[k].status = "approved"
    /\ ApprovedHasLine
    /\ \A k \in Plans : plan[k].status \in {"pending_approval", "approved"} =>
        \A p \in ValidLines(k) : ordered[k][p] = "none" => line[k][p].active

\* What a session has read and checked is so still.
SessionFresh(h) ==
    LET k == sess[h].plan
    IN  /\ sess[h].step = "idle" => ~OnPlan(h)
        /\ OnPlan(h) => plan[k].status \in StatusFor(sess[h].op)
        /\ sess[h].op \in {"decide", "create"} /\ sess[h].step # "plan_read" =>
            sess[h].want = ValidLines(k)
        /\ At(h, "decide", "checked") => sess[h].prods \subseteq sess[h].want
        /\ sess[h].op = "create" /\ sess[h].step # "plan_read" =>
            sess[h].want \ ZeroLines(k) # {} /\ ~HasOrder(k)
        /\ At(h, "create", "checked") => AllFresh(h)
        /\ sess[h].op = "supersede" /\ sess[h].step # "plan_read" => ~HasOrder(k)

OneCommand ==
    \A g, h \in Procs : sess[g].step # "idle" /\ sess[h].step # "idle" => g = h

SerialInv == PlansInOrder /\ OneCommand /\ \A h \in Procs : SessionFresh(h)

----------------------------------------------------------------------------
(* Documented too, and not so without a condition *)

\* No purchase order is made without knowing every open order of the product.
\* Not so while a late answer can put a received or cancelled order back between
\* the check and the commit.
KnowsEveryCommitment ==
    [][\A k \in Plans, p \in Products :
          Orders(k, p) => Inbound(p) \subseteq line[k][p].basis.inbound]_vars

\* The status moves only along PLAN_ALLOWED_TRANSITIONS.
LegalTransitions ==
    [][\A k \in Plans : plan'[k].status # plan[k].status =>
          \/ plan[k].status = "none" /\ plan'[k].status = "pending_approval"
          \/ plan[k].status = "pending_approval"
          \/ plan[k].status = "approved" /\ plan'[k].status = "superseded"]_plan

\* When a valid line is made for a product, no alert of a blocked computation
\* of it stays open.
AlertsCloseOnRecovery ==
    [][\A k \in Plans, p \in Products :
          line[k][p].flag = "none" /\ line'[k][p].flag = "valid" => p \notin alert']_vars

\* A conversation whose plan was decided or replaced has a resume row for it.
ReplacementIsDelivered ==
    \A k \in Plans :
        plan[k].thread /\ plan[k].status \in {"approved", "rejected", "superseded"}
            => \E r \in resume : r.plan = k
=============================================================================
