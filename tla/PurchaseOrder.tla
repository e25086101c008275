--------------------------- MODULE PurchaseOrder ---------------------------
(***************************************************************************)
(* The life of ONE purchase order of StockMind: placing it with the        *)
(* supplier, recovering an unknown outcome, receiving goods, closing and   *)
(* cancelling (services/purchase_service.py, tasks/recovery.py), together  *)
(* with the supplier's side of the HTTP calls (supplier_adapter.py,        *)
(* mock_supplier/app.py).  No command touches two purchase orders, so one  *)
(* order is enough.                                                        *)
(*                                                                         *)
(* A process is an API request handler or a run of the Celery recovery     *)
(* task.  Each works in a database session of its own under READ           *)
(* COMMITTED: what it read stays in the session's identity map while the   *)
(* row may move on, and its UPDATE overwrites status and version with      *)
(* values computed from what it read (there is no version check on write). *)
(* A process is therefore a sequence of steps: what it reads, the call it  *)
(* makes outside the transaction, and the commit.                          *)
(***************************************************************************)
EXTENDS Integers, FiniteSets

CONSTANTS
    Handlers,     \* API request handlers
    Workers,      \* runs of the recovery task
    Lines,        \* lines of the purchase order
    OrderQty,     \* OrderQty[l]: ordered quantity of line l
    Events,       \* receipt_event_ids clients use
    MaxAttempts,  \* bound on the placing attempts explored
    Overlap       \* FALSE: a command starts only when no other is under way
                  \* and no request is on the wire

ASSUME ConstantsAssumption ==
    /\ Handlers \cap Workers = {}
    /\ OrderQty \in [Lines -> Nat]
    /\ MaxAttempts \in Nat
    /\ Overlap \in BOOLEAN

Attempts == 1 .. MaxAttempts
Procs == Handlers \cup Workers

VARIABLES
    po,        \* the purchase_order row: status and version
    attempt,   \* purchase_order_attempt rows: attempt_no -> status
    requests,  \* attempts whose POST to the supplier is on the wire
    orders,    \* attempts for which the supplier created an order
    rejected,  \* attempts the supplier answered with created = false
    received,  \* received_qty of each line
    onHand,    \* stock on hand of each line's product since the order's creation
    receipt,   \* receipt_event rows: event -> [line, qty], or NoReceipt
    recovered, \* versions v whose key system-recover:{po}:{v} has succeeded
    sess       \* the sessions: step reached and what was read before

supplierVars == <<requests, orders, rejected>>
stockVars == <<received, onHand, receipt>>
vars == <<po, attempt, supplierVars, stockVars, recovered, sess>>

----------------------------------------------------------------------------
(* Values *)

Status == {"po_created", "ordering", "ordered", "order_unknown",
           "partially_received", "received", "closed", "cancelled"}

AttemptStatus == {"attempting", "succeeded", "failed", "unknown",
                  "queried_created", "queried_not_found"}

\* PO_ALLOWED_TRANSITIONS
Allowed(s) ==
    CASE s = "po_created"         -> {"ordering", "cancelled"}
      [] s = "ordering"           -> {"ordered", "po_created", "order_unknown"}
      [] s = "order_unknown"      -> {"ordered", "po_created"}
      [] s = "ordered"            -> {"partially_received", "received"}
      [] s = "partially_received" -> {"partially_received", "received"}
      [] s = "received"           -> {"closed"}
      [] OTHER                    -> {}

Step == {"idle", "place_read", "place_committed", "place_sent",
         "query_read", "query_begun", "query_answered",
         "cancel_read", "cancel_checked", "close_read"}

\* seen: version of the order row the session holds; att, was: number and
\* status of the attempt row it holds; found: the supplier's answer to it.
Local(step, seen, att, was, found) ==
    [step |-> step, seen |-> seen, att |-> att, was |-> was, found |-> found]

IdleSession == Local("idle", 0, 0, "none", FALSE)
Reading(step) == Local(step, po.version, 0, "none", FALSE)
Placing(step, n) == Local(step, 0, n, "none", FALSE)

NoReceipt == [line |-> "none", qty |-> 0]

Existing == {n \in Attempts : attempt[n] # "none"}

----------------------------------------------------------------------------
Init ==
    /\ po = [status |-> "po_created", version |-> 1]
    /\ attempt = [n \in Attempts |-> "none"]
    /\ requests = {}
    /\ orders = {}
    /\ rejected = {}
    /\ received = [l \in Lines |-> 0]
    /\ onHand = [l \in Lines |-> 0]
    /\ receipt = [e \in Events |-> NoReceipt]
    /\ recovered = {}
    /\ sess = [p \in Procs |-> IdleSession]

At(p, step) == sess[p].step = step

Go(p, local) == sess' = [sess EXCEPT ![p] = local]

Quiet == requests = {} /\ \A p \in Procs : At(p, "idle")

MayStart(p) == At(p, "idle") /\ (Overlap \/ Quiet)

SetPo(status, version) == po' = [status |-> status, version |-> version]

\* _po_transition: the target is legal from the status the session READ
PoTransition(from, to) == to \in Allowed(from)

----------------------------------------------------------------------------
(* Placing: place_order and the supplier *)

\* Faulty: an order of unknown outcome may simply be placed again.
PlaceableBlindly == po.status \in {"po_created", "order_unknown"}

Placeable == po.status = "po_created"

\* The order is read and checked before the advisory lock is requested.
PlaceRead(h) ==
    /\ MayStart(h)
    /\ Placeable
    /\ Go(h, Reading("place_read"))
    /\ UNCHANGED <<po, attempt, supplierVars, stockVars, recovered>>

\* Faulty: an attempt that was looked up and not found is used again.
AttemptNoReused(n) ==
    /\ attempt[n] \in {"none", "queried_not_found"}
    /\ \A m \in 1 .. n - 1 : attempt[m] # "none"

\* attempt_no is max + 1
NextAttemptNo(n) == attempt[n] = "none" /\ \A m \in 1 .. n - 1 : attempt[m] # "none"

\* Faulty: the commit before the call is missing.
PlaceCommitMissing(h) ==
    /\ At(h, "place_read")
    /\ \E n \in Attempts : NextAttemptNo(n) /\ Go(h, Placing("place_committed", n))
    /\ UNCHANGED <<po, attempt, supplierVars, stockVars, recovered>>

\* _create_attempt_and_ordering, under the advisory lock, then commit: the
\* attempt number is fresh, the status checked is the one read before.
PlaceCommit(h) ==
    /\ At(h, "place_read")
    /\ PoTransition("po_created", "ordering")
    /\ \E n \in Attempts :
        /\ NextAttemptNo(n)
        /\ attempt' = [attempt EXCEPT ![n] = "attempting"]
        /\ Go(h, Placing("place_committed", n))
    /\ SetPo("ordering", sess[h].seen + 1)
    /\ UNCHANGED <<supplierVars, stockVars, recovered>>

\* The POST leaves, outside any transaction, with key po:{id}:att:{n}.
PlaceSend(h) ==
    /\ At(h, "place_committed")
    /\ requests' = requests \cup {sess[h].att}
    /\ Go(h, Placing("place_sent", sess[h].att))
    /\ UNCHANGED <<po, attempt, orders, rejected, stockVars, recovered>>

\* The supplier creates the order (modes normal, timeout_but_created).
SupplierCreate(n) ==
    /\ n \in requests
    /\ requests' = requests \ {n}
    /\ orders' = orders \cup {n}
    /\ UNCHANGED <<po, attempt, rejected, stockVars, recovered, sess>>

\* The supplier answers created = false (mode explicit_failure).
SupplierReject(n) ==
    /\ n \in requests
    /\ requests' = requests \ {n}
    /\ rejected' = rejected \cup {n}
    /\ UNCHANGED <<po, attempt, orders, stockVars, recovered, sess>>

\* The request never reaches the supplier.
LoseRequest(n) ==
    /\ n \in requests
    /\ requests' = requests \ {n}
    /\ UNCHANGED <<po, attempt, orders, rejected, stockVars, recovered, sess>>

\* Faulty: the attempt receives the status meant for the order.
WriteBackWrongColumn(h, outcome, from, to) ==
    /\ At(h, "place_sent")
    /\ attempt' = [attempt EXCEPT ![sess[h].att] = to]
    /\ IF po.status \in from THEN SetPo(to, po.version + 1) ELSE UNCHANGED po
    /\ Go(h, IdleSession)
    /\ UNCHANGED <<supplierVars, stockVars, recovered>>

\* _write_back locks and re-reads the row in a new session.  It is not tied to
\* the attempt that put the order into its current status.
WriteBack(h, outcome, from, to) ==
    /\ At(h, "place_sent")
    /\ attempt' = [attempt EXCEPT ![sess[h].att] = outcome]
    /\ IF po.status \in from /\ PoTransition(po.status, to)
         THEN SetPo(to, po.version + 1)
         ELSE UNCHANGED po
    /\ Go(h, IdleSession)
    /\ UNCHANGED <<supplierVars, stockVars, recovered>>

WriteBackSuccess(h) ==
    /\ sess[h].att \in orders
    /\ WriteBack(h, "succeeded", {"ordering", "order_unknown"}, "ordered")

\* Faulty: a transport error is taken for an explicit failure.
WriteBackFailureUnproved(h) == WriteBack(h, "failed", {"ordering"}, "po_created")

WriteBackFailure(h) ==
    /\ sess[h].att \in rejected
    /\ WriteBack(h, "failed", {"ordering"}, "po_created")

\* Faulty: a timeout is taken for success; a timeout leads back to po_created.
WriteBackUnknownOrdered(h) == WriteBack(h, "unknown", {"ordering"}, "ordered")
WriteBackUnknownCreated(h) == WriteBack(h, "unknown", {"ordering"}, "po_created")

\* A timeout, a transport error or an unreadable answer: possible whatever
\* became of the request.
WriteBackUnknown(h) ==
    WriteBack(h, "unknown", {"ordering"}, "order_unknown")

----------------------------------------------------------------------------
(* Recovery: query_unknown_order, by a buyer or by the recovery task *)

\* Faulty: the task leaves stale `ordering' orders alone.
QueryableUnknownOnly(p) == {"order_unknown"}

\* A buyer may query order_unknown only; the task also takes an order that has
\* been `ordering' longer than the timeout.  Time is not modelled: any order
\* in `ordering' may have become stale.
QueryableBy(p) ==
    IF p \in Workers THEN {"ordering", "order_unknown"} ELSE {"order_unknown"}

QueryRead(p) ==
    /\ MayStart(p)
    /\ po.status \in QueryableBy(p)
    /\ Go(p, Reading("query_read"))
    /\ UNCHANGED <<po, attempt, supplierVars, stockVars, recovered>>

\* The task's idempotency key is system-recover:{po}:{version read}.
HoldsKey(w, version) ==
    sess[w].step \in {"query_begun", "query_answered"} /\ sess[w].seen = version

\* Faulty: no unique key makes the second run of the task wait.
KeyFreeUnguarded(p) == p \in Workers => sess[p].seen \notin recovered

\* begin(): the insert of the guard's row waits for an uncommitted row of the
\* same key.  A buyer's key is their own and always fresh.
KeyFree(p) == p \in Workers =>
    /\ sess[p].seen \notin recovered
    /\ \A w \in Workers \ {p} : ~HoldsKey(w, sess[p].seen)

\* The latest attempt is read and the guard's row inserted.
QueryBegin(p) ==
    /\ At(p, "query_read")
    /\ KeyFree(p)
    /\ \E n \in Existing :
        /\ \A m \in Existing : m <= n
        /\ Go(p, Local("query_begun", sess[p].seen, n, attempt[n], FALSE))
    /\ UNCHANGED <<po, attempt, supplierVars, stockVars, recovered>>

\* The key has already succeeded: the saved result is replayed, or the key is
\* refused because the attempt is another one.  Nothing is written.
QueryReplayed(p) ==
    /\ At(p, "query_read")
    /\ p \in Workers
    /\ sess[p].seen \in recovered
    /\ Go(p, IdleSession)
    /\ UNCHANGED <<po, attempt, supplierVars, stockVars, recovered>>

\* GET /orders/{key} is answered.
QueryAnswer(p) ==
    /\ At(p, "query_begun")
    /\ Go(p, Local("query_answered", sess[p].seen, sess[p].att, sess[p].was,
                   sess[p].att \in orders))
    /\ UNCHANGED <<po, attempt, supplierVars, stockVars, recovered>>

\* The answer is written over the order as it was read, and committed.  The
\* attempt row is updated only when its status differs from the one loaded.
QueryCommit(p) ==
    /\ At(p, "query_answered")
    /\ LET s == sess[p]
           outcome == IF s.found THEN "queried_created" ELSE "queried_not_found"
       IN  /\ SetPo(IF s.found THEN "ordered" ELSE "po_created", s.seen + 1)
           /\ attempt' = IF s.was = outcome THEN attempt
                         ELSE [attempt EXCEPT ![s.att] = outcome]
           /\ recovered' = IF p \in Workers THEN recovered \cup {s.seen} ELSE recovered
    /\ Go(p, IdleSession)
    /\ UNCHANGED <<supplierVars, stockVars>>

----------------------------------------------------------------------------
(* Receiving: receive_goods *)

Remaining(l) == OrderQty[l] - received[l]

\* _all_lines_received: zero-quantity lines carry no obligation.
AllLinesReceived(got) ==
    /\ \E l \in Lines : OrderQty[l] > 0
    /\ \A l \in Lines : OrderQty[l] > 0 => got[l] >= OrderQty[l]

\* Faulty: the event id is not looked up.
NewReceiptUnchecked(e) == TRUE

NewReceipt(e) == receipt[e] = NoReceipt

\* Faulty: a full line is enough; the lines are checked before the update.
ReceiptTargetOneLine(l, q) ==
    IF received[l] + q = OrderQty[l] THEN "received" ELSE "partially_received"
ReceiptTargetStaleLines(l, q) ==
    IF AllLinesReceived(received) THEN "received" ELSE "partially_received"

ReceiptTarget(l, q) ==
    IF /\ received[l] + q = OrderQty[l]
       /\ AllLinesReceived([received EXCEPT ![l] = @ + q])
    THEN "received" ELSE "partially_received"

\* One transaction, with the line, the order and the stock rows locked and
\* freshly read.  A repeated event id changes nothing.
ReceiveGoods(e, l, q) ==
    /\ Overlap \/ Quiet
    /\ NewReceipt(e)
    /\ po.status \in {"ordered", "partially_received"}
    /\ q > 0 /\ q <= Remaining(l)
    /\ PoTransition(po.status, ReceiptTarget(l, q))
    /\ SetPo(ReceiptTarget(l, q), po.version + 1)
    /\ received' = [received EXCEPT ![l] = @ + q]
    /\ onHand' = [onHand EXCEPT ![l] = @ + q]
    /\ receipt' = [receipt EXCEPT ![e] = [line |-> l, qty |-> q]]
    /\ UNCHANGED <<attempt, supplierVars, recovered, sess>>

----------------------------------------------------------------------------
(* Cancelling and closing: the row is read without a lock and overwritten *)

CancelRead(h) ==
    /\ MayStart(h)
    /\ PoTransition(po.status, "cancelled")
    /\ Go(h, Reading("cancel_read"))
    /\ UNCHANGED <<po, attempt, supplierVars, stockVars, recovered>>

\* No attempt may be under way, unknown or successful.
CancelCheck(h) ==
    /\ At(h, "cancel_read")
    /\ \A n \in Attempts : attempt[n] \notin {"attempting", "succeeded", "unknown"}
    /\ Go(h, Local("cancel_checked", sess[h].seen, 0, "none", FALSE))
    /\ UNCHANGED <<po, attempt, supplierVars, stockVars, recovered>>

CancelCommit(h) ==
    /\ At(h, "cancel_checked")
    /\ SetPo("cancelled", sess[h].seen + 1)
    /\ Go(h, IdleSession)
    /\ UNCHANGED <<attempt, supplierVars, stockVars, recovered>>

CloseRead(h) ==
    /\ MayStart(h)
    /\ PoTransition(po.status, "closed")
    /\ Go(h, Reading("close_read"))
    /\ UNCHANGED <<po, attempt, supplierVars, stockVars, recovered>>

CloseCommit(h) ==
    /\ At(h, "close_read")
    /\ SetPo("closed", sess[h].seen + 1)
    /\ Go(h, IdleSession)
    /\ UNCHANGED <<attempt, supplierVars, stockVars, recovered>>

\* A process ends early: it crashes, a lock times out, the supplier cannot be
\* reached for a query, a guard refuses.  Its open transaction is rolled back;
\* what it committed stays, and so does a request it sent.  For the recovery
\* task this is also the rollback that expires the rows it loaded: QueryRead
\* then reads them again.
Abandon(p) ==
    /\ ~At(p, "idle")
    /\ Go(p, IdleSession)
    /\ UNCHANGED <<po, attempt, supplierVars, stockVars, recovered>>

----------------------------------------------------------------------------
PlaceOrder(h) ==
    \/ PlaceRead(h)
    \/ PlaceCommit(h)
    \/ PlaceSend(h)
    \/ WriteBackSuccess(h)
    \/ WriteBackFailure(h)
    \/ WriteBackUnknown(h)

QueryUnknownOrder(p) ==
    \/ QueryRead(p)
    \/ QueryBegin(p)
    \/ QueryReplayed(p)
    \/ QueryAnswer(p)
    \/ QueryCommit(p)

CancelPurchaseOrder(h) == CancelRead(h) \/ CancelCheck(h) \/ CancelCommit(h)

ClosePurchaseOrder(h) == CloseRead(h) \/ CloseCommit(h)

Supplier(n) == SupplierCreate(n) \/ SupplierReject(n) \/ LoseRequest(n)

Next ==
    \/ \E h \in Handlers : PlaceOrder(h) \/ CancelPurchaseOrder(h) \/ ClosePurchaseOrder(h)
    \/ \E p \in Procs : QueryUnknownOrder(p) \/ Abandon(p)
    \/ \E n \in Attempts : Supplier(n)
    \/ \E e \in Events, l \in Lines : \E q \in 1 .. OrderQty[l] : ReceiveGoods(e, l, q)

Spec == Init /\ [][Next]_vars

----------------------------------------------------------------------------
(* Properties that hold under every interleaving, crash and lost message *)

SessionType ==
    [step : Step, seen : Nat, att : {0} \cup Attempts,
     was : AttemptStatus \cup {"none"}, found : BOOLEAN]

ReceiptType == [line : Lines, qty : Nat \ {0}] \cup {NoReceipt}

\* Every row, message and session has the shape the tables and the code give it.
TypeOK ==
    /\ po \in [status : Status, version : Nat]
    /\ attempt \in [Attempts -> AttemptStatus \cup {"none"}]
    /\ requests \subseteq Attempts
    /\ orders \subseteq Attempts
    /\ rejected \subseteq Attempts
    /\ received \in [Lines -> Nat]
    /\ onHand \in [Lines -> Nat]
    /\ receipt \in [Events -> ReceiptType]
    /\ recovered \subseteq Nat
    /\ sess \in [Procs -> SessionType]

\* Nothing reaches the supplier under a key that is not already on record: the
\* attempt is committed before the call leaves (place_order, "first persist,
\* then call"), so a crash can never leave an order nobody can query.
AttemptOnRecordBeforeCall ==
    requests \cup orders \cup rejected \subseteq Existing

\* What an attempt row claims about the supplier is true: `failed' means no
\* order exists and none can appear, `succeeded' and `queried_created' mean it
\* exists.  (`unknown' and `queried_not_found' claim nothing that lasts.)
AttemptEvidenceSound ==
    \A n \in Attempts :
        /\ attempt[n] = "failed" => n \notin orders \cup requests
        /\ attempt[n] \in {"succeeded", "queried_created"} => n \in orders

\* However stale the session that wrote it, `ordered' and every status after it
\* rest on an order that exists at the supplier.
OrderedHasExternalOrder ==
    po.status \in {"ordered", "partially_received", "received", "closed"} => orders # {}

\* The order is received, and closed, only with every line received in full:
\* the check reads the other lines while a receipt of another line commits.
ReceivedOnlyInFull ==
    po.status \in {"received", "closed"} => AllLinesReceived(received)

\* The units of a line the receipt events tell of.
QtyOf(e, l) == IF receipt[e].line = l THEN receipt[e].qty ELSE 0
UnitsOf(e, l) == {e} \X (1 .. QtyOf(e, l))
Units(l) == UNION {UnitsOf(e, l) : e \in Events}

\* received_qty, the stock on hand and the receipt events of a line always tell
\* the same quantity, never more than was ordered, and goods come in only for
\* an order the supplier has.
StockConserved ==
    /\ \A l \in Lines :
        /\ received[l] = Cardinality(Units(l))
        /\ onHand[l] = received[l]
        /\ received[l] <= OrderQty[l]
    /\ (\E e \in Events : receipt[e] # NoReceipt) => orders # {}

\* A recovery key is held by one run of the task at a time and is never used
\* again once it succeeded: overlapping runs settle a version of the order once.
RecoveryKeyExclusive ==
    \A w \in Workers : HoldsKey(w, sess[w].seen) =>
        /\ sess[w].seen \notin recovered
        /\ \A x \in Workers : HoldsKey(x, sess[w].seen) => x = w

----------------------------------------------------------------------------
(* The invariant that makes the properties above inductive *)

\* An attempt's request is sent once, so the supplier gives it one verdict.
OneVerdict ==
    /\ requests \cap orders = {}
    /\ requests \cap rejected = {}
    /\ orders \cap rejected = {}
    /\ \A p, q \in Procs :
        At(p, "place_committed") /\ At(q, "place_committed") /\ p # q
            => sess[p].att # sess[q].att

\* `failed' is written on the supplier's own word.
FailedIsRejected == \A n \in Attempts : attempt[n] = "failed" => n \in rejected

\* What a session still holds of the rows it read, when everything else may
\* have moved on.
SessionSound(p) ==
    /\ At(p, "place_committed") =>
        sess[p].att \in Existing \ (requests \cup orders \cup rejected)
    /\ sess[p].step \in {"place_sent", "query_begun", "query_answered"} =>
        sess[p].att \in Existing
    /\ At(p, "query_answered") /\ sess[p].found => sess[p].att \in orders
    /\ At(p, "close_read") => orders # {} /\ AllLinesReceived(received)

\* What a process does later rests on what it read before: its attempt is on
\* record, its request was not sent, its answer and the full receipt still hold
\* (place_order, query_unknown_order and close_purchase_order act on rows read
\* in an earlier step).
StaleReadsSound ==
    /\ OneVerdict
    /\ FailedIsRejected
    /\ \A p \in Procs : SessionSound(p)

IInv ==
    /\ TypeOK
    /\ AttemptOnRecordBeforeCall
    /\ AttemptEvidenceSound
    /\ StaleReadsSound
    /\ OrderedHasExternalOrder
    /\ ReceivedOnlyInFull
    /\ RecoveryKeyExclusive

----------------------------------------------------------------------------
(* Properties the documentation states; they need Overlap = FALSE *)

Lifecycle == INSTANCE PurchaseLifecycle
                WITH status <- po.status, external <- Cardinality(orders)

\* One command at a time, whatever crashes and whichever messages are lost, the
\* order behaves as PurchaseLifecycle says.
ImplementsLifecycle == Lifecycle!Spec

\* One purchase order leads to at most one order at the supplier.
AtMostOneExternalOrder == Cardinality(orders) <= 1

\* The status moves only along PO_ALLOWED_TRANSITIONS.
LegalTransitions ==
    [][po'.status # po.status => po'.status \in Allowed(po.status)]_po

\* A new attempt, hence a new supplier key, is made only when every earlier one
\* is known to have failed or has been looked up and not found.
NewKeyOnlyAfterSettled ==
    [][\A n \in Attempts : attempt[n] = "none" /\ attempt'[n] # "none" =>
          \A m \in 1 .. n - 1 : attempt[m] \in {"failed", "queried_not_found"}]_attempt

\* A cancelled order is not, and will not be, an order at the supplier.
CancelledIsNotOrdered == po.status = "cancelled" => requests \cup orders = {}

\* An order whose lines have all come in is `received' (or closed): it can be
\* closed, and it no longer counts as inbound.
FullyReceivedIsReceived ==
    AllLinesReceived(received) => po.status \in {"received", "closed"}

----------------------------------------------------------------------------
(* The invariant behind these: what holds besides when Overlap = FALSE *)

\* Nothing is at the supplier, or on its way there, for the attempt.
Settled(n) == attempt[n] \in {"failed", "queried_not_found"}

\* Attempts are numbered on, and all but the last are over and done with; so is
\* the last when the order may be placed or cancelled.
AttemptsInOrder ==
    /\ \A n \in Existing : \A m \in 1 .. n - 1 : m \in Existing /\ Settled(m)
    /\ \A n \in Attempts : Settled(n) => n \notin requests \cup orders
    /\ po.status \in {"po_created", "cancelled"} => \A n \in Existing : Settled(n)
    /\ requests # {} => po.status \in {"ordering", "order_unknown"}

\* A session's reads are not stale yet.
SessionFresh(p) ==
    /\ sess[p].step \notin {"idle", "place_sent"} => requests = {}
    /\ sess[p].step \in {"place_read", "cancel_read", "cancel_checked"} =>
        po.status = "po_created"
    /\ sess[p].step \in {"place_committed", "place_sent"} =>
        po.status = "ordering" /\ attempt[sess[p].att] = "attempting"
    /\ sess[p].step \in {"query_read", "query_begun", "query_answered"} =>
        po.status \in {"ordering", "order_unknown"}
    /\ sess[p].step \in {"query_begun", "query_answered"} =>
        /\ \A m \in Existing : m <= sess[p].att
        /\ sess[p].was = attempt[sess[p].att]
    /\ At(p, "query_answered") => sess[p].found = (sess[p].att \in orders)
    /\ At(p, "close_read") => po.status = "received"

OneCommand == \A p, q \in Procs : ~At(p, "idle") /\ ~At(q, "idle") => p = q

SerialInv ==
    /\ AttemptsInOrder
    /\ OneCommand
    /\ \A p \in Procs : SessionFresh(p)
    /\ FullyReceivedIsReceived

----------------------------------------------------------------------------
(* Liveness *)

\* Fairness.  A request handler never stays in the middle of a command: it goes
\* on or ends (the adapter and the locks have timeouts).  A request on the wire
\* arrives or is lost.  Celery beat starts the recovery task again and again,
\* and a supplier asked again and again answers in the end.  Nothing is assumed
\* of buyers: no command has to be given.
HandlerMoves(h) == ~At(h, "idle") /\ (PlaceOrder(h) \/ QueryUnknownOrder(h) \/ Abandon(h)
                                       \/ CancelPurchaseOrder(h) \/ ClosePurchaseOrder(h))

Fairness ==
    /\ \A n \in Attempts : WF_vars(Supplier(n))
    /\ \A h \in Handlers : WF_vars(HandlerMoves(h))
    /\ \A w \in Workers :
        /\ SF_vars(QueryRead(w))
        /\ SF_vars(QueryBegin(w))
        /\ SF_vars(QueryAnswer(w))
        /\ SF_vars(QueryCommit(w))
        /\ WF_vars(QueryReplayed(w))

FairSpec == Spec /\ Fairness

\* An order whose outcome is unknown, or that a crash left in `ordering', does
\* not stay so: the recovery task settles it.
UnknownIsSettled ==
    po.status \in {"ordering", "order_unknown"}
        ~> po.status \notin {"ordering", "order_unknown"}
=============================================================================
