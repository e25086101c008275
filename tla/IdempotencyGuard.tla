-------------------------- MODULE IdempotencyGuard --------------------------
(***************************************************************************)
(* The idempotency records of StockMind's commands (services/idempotency)   *)
(* and the ways its commands use them.  One aggregate and one scope of keys: *)
(* keys of other scopes are other records.  A behaviour is about one of      *)
(*                                                                         *)
(*   draft   generate_draft         guard, lock, effect                    *)
(*   create  create_purchase_orders status, guard, lock, effect            *)
(*   decide  decide_plan, supersede_plan  likewise, and the status changes *)
(*   close   close_, cancel_purchase_order  guard over the status, effect  *)
(*   import  import_evidence_document  guard, look for document, effect    *)
(*   place   place_order            status, lock, guard, COMMIT, call,     *)
(*                                  write back                             *)
(*                                                                         *)
(* The guard shares the command's transaction.  Only place commits a record *)
(* before it is done; what it marks on the record after the call is lost,   *)
(* as the session that holds the record commits no more.                    *)
(***************************************************************************)
EXTENDS Naturals, Sequences, FiniteSets

CONSTANTS
    Requests,  \* actions of clients, each sent until it is answered for good
    Keys,      \* idempotency keys
    Payloads,  \* contents of a command
    Commands,  \* which commands are considered
    MaxFaults  \* bound on crashes and lost answers

ASSUME GuardConstants ==
    /\ Commands \subseteq {"draft", "create", "decide", "close", "import", "place"}
    /\ "free" \notin Requests
    /\ MaxFaults \in Nat

VARIABLES
    command,  \* the command of this behaviour
    status,   \* the aggregate: before the command, after it, or in between
    record,   \* committed idempotency_operation rows
    effects,  \* payloads of the effects committed under each key
    lock,     \* holder of the aggregate's advisory lock
    req,      \* requests
    faults    \* history: faults so far

vars == <<command, status, record, effects, lock, req, faults>>

----------------------------------------------------------------------------
(* Values *)

NoRecord == [hash |-> <<"none", "none">>, status |-> "none", leased |-> FALSE]

\* seen: the status read, or whether the document is there.
\* rolled: begin() has rolled the transaction back.
Unsent == [step |-> "idle", key |-> "none", payload |-> "none", seen |-> "none",
           rolled |-> FALSE, answer |-> "none"]

\* What is hashed: closing hashes the status it reads as well.
Hash(r) == <<req[r].payload, IF command = "close" THEN req[r].seen ELSE "none">>

Final == {"done", "saved", "failed", "unknown", "refused", "reused"}

\* Transactions that have inserted or taken over the record of key k.
Holders(k) == {r \in Requests : req[r].key = k /\ req[r].step \in {"begun", "ready"}}

Calling(k) == {r \in Requests : req[r].key = k /\ req[r].step = "calling"}

Init ==
    /\ command \in Commands
    /\ status = "before"
    /\ record = [k \in Keys |-> NoRecord]
    /\ effects = [k \in Keys |-> <<>>]
    /\ lock = "free"
    /\ req = [r \in Requests |-> Unsent]
    /\ faults = 0

At(r, step) == req[r].step = step

Move(r, to) == req' = [req EXCEPT ![r] = to]

Go(r, step) == Move(r, [req[r] EXCEPT !.step = step])

\* The transaction ends, committed or rolled back; so do its locks.
Released(r) == IF lock = r THEN "free" ELSE lock

Answer(r, answer) == Move(r, [req[r] EXCEPT !.step = "answered", !.answer = answer])

----------------------------------------------------------------------------
(* Requests *)

Send(r, k, p) ==
    /\ At(r, "idle")
    /\ Move(r, [Unsent EXCEPT !.step = "sent", !.key = k, !.payload = p])
    /\ UNCHANGED <<command, status, record, effects, lock, faults>>

\* Draft and close do not look at the status before the guard; the status
\* create asks for is not changed by it.
CheckedFirst == command \in {"decide", "place"}

Read(r) ==
    /\ At(r, "sent")
    /\ IF CheckedFirst /\ status # "before"
       THEN Answer(r, "refused")
       ELSE Move(r, [req[r] EXCEPT !.step = IF command = "place" THEN "locking" ELSE "finding",
                                   !.seen = status, !.rolled = FALSE])
    /\ UNCHANGED <<command, status, record, effects, lock, faults>>

\* acquire_warehouse_product_locks: before the guard, or after it.
TakeLock(r) ==
    /\ lock = "free"
    /\ \/ At(r, "locking") /\ Go(r, "finding")
       \/ At(r, "begun") /\ command \in {"draft", "create", "decide"} /\ Go(r, "ready")
    /\ lock' = r
    /\ UNCHANGED <<command, status, record, effects, faults>>

----------------------------------------------------------------------------
(* begin() *)

\* Faulty: the payload is not compared.
VerdictAnyPayload(r, saved) ==
    CASE saved.status = "succeeded"                    -> "saved"
      [] saved.status = "in_progress" /\ saved.leased  -> "in_progress"
      [] OTHER                                         -> "proceed"

\* Faulty: the lease is not looked at.
VerdictNoLease(r, saved) ==
    IF saved.hash # Hash(r) THEN "reused"
    ELSE IF saved.status = "succeeded" THEN "saved"
    ELSE "proceed"

\* Faulty: an operation in progress is never taken over.
VerdictNoTakeover(r, saved) ==
    IF saved.hash # Hash(r) THEN "reused"
    ELSE IF saved.status = "succeeded" THEN "saved"
    ELSE "in_progress"

\* What a row that is found means for a request.
Verdict(r, saved) ==
    IF saved.hash # Hash(r) THEN "reused"
    ELSE CASE saved.status = "succeeded"                     -> "saved"
           [] saved.status = "failed"                        -> "failed"
           [] saved.status = "unknown"                       -> "unknown"
           [] saved.status = "in_progress" /\ saved.leased   -> "in_progress"
           [] OTHER                                          -> "proceed"

\* The row is taken over, or the command ends here.
Judge(r, rolled) ==
    LET verdict == Verdict(r, record[req[r].key])
        free == rolled \/ verdict # "proceed"
    IN  /\ Move(r, [req[r] EXCEPT
                      !.step = IF verdict = "proceed" THEN "begun" ELSE "answered",
                      !.answer = IF verdict = "proceed" THEN @ ELSE verdict,
                      !.rolled = rolled])
        /\ lock' = IF free THEN Released(r) ELSE lock

Find(r) ==
    /\ At(r, "finding")
    /\ record[req[r].key] # NoRecord
    /\ Judge(r, FALSE)
    /\ UNCHANGED <<command, status, record, effects, faults>>

FindNothing(r) ==
    /\ At(r, "finding")
    /\ record[req[r].key] = NoRecord
    /\ Go(r, "inserting")
    /\ UNCHANGED <<command, status, record, effects, lock, faults>>

\* Faulty: no unique constraint.
MayInsertAnyway(r) == TRUE

\* uq_idem_op_scope_key: the insert waits for another one of the same key.
MayInsert(r) == Holders(req[r].key) = {} /\ record[req[r].key] = NoRecord

Insert(r) ==
    /\ At(r, "inserting")
    /\ MayInsert(r)
    /\ Go(r, "begun")
    /\ UNCHANGED <<command, status, record, effects, lock, faults>>

\* ... and fails when that one has committed: everything is rolled back, and
\* the row is read again.
Collide(r) ==
    /\ At(r, "inserting")
    /\ record[req[r].key] # NoRecord
    /\ Judge(r, TRUE)
    /\ UNCHANGED <<command, status, record, effects, faults>>

----------------------------------------------------------------------------
(* Commands done in one transaction *)

\* Closing goes by the status it has read.
CheckClose(r) ==
    /\ At(r, "begun")
    /\ command = "close"
    /\ req[r].seen = "before"
    /\ Go(r, "ready")
    /\ UNCHANGED <<command, status, record, effects, lock, faults>>

\* A document's id is the digest of its content.
Imported(p) == \E k \in Keys : p \in {effects[k][i] : i \in DOMAIN effects[k]}

\* Importing looks for the document after the guard.
LookForDocument(r) ==
    /\ At(r, "begun")
    /\ command = "import"
    /\ Move(r, [req[r] EXCEPT !.step = "ready",
                   !.seen = IF Imported(req[r].payload) THEN "there" ELSE "missing"])
    /\ UNCHANGED <<command, status, record, effects, lock, faults>>

\* Faulty: a document is inserted whether or not it is there by now.
NoDuplicateUnchecked(r) == TRUE

\* The document's primary key: the insert waits for another one and then fails.
NoDuplicate(r) == req[r].seen = "missing" => ~Imported(req[r].payload)

\* A document that is there already is only reported.
Effect(r) == IF req[r].seen = "there" THEN <<>> ELSE <<req[r].payload>>

\* A plan has its orders once; the lines of one that has them are stale.
Created == \E k \in Keys : effects[k] # <<>>

\* Effect, succeed() and commit.
Commit(r) ==
    /\ At(r, "ready")
    /\ ~(command = "create" /\ Created)
    /\ NoDuplicate(r)
    /\ effects' = [effects EXCEPT ![req[r].key] = @ \o Effect(r)]
    /\ record' = [record EXCEPT ![req[r].key] =
                    [hash |-> Hash(r), status |-> "succeeded", leased |-> FALSE]]
    /\ status' = IF command \in {"decide", "close"} THEN "after" ELSE status
    /\ lock' = Released(r)
    /\ Answer(r, "done")
    /\ UNCHANGED <<command, faults>>

\* A check fails after the guard (a stale line, a status, a document that is there
\* by now), or a lock times out.
Refuse(r) ==
    /\ \/ req[r].step \in {"begun", "ready"} /\ command # "place"
       \/ At(r, "locking")
    /\ lock' = Released(r)
    /\ Answer(r, "refused")
    /\ UNCHANGED <<command, status, record, effects, faults>>

----------------------------------------------------------------------------
(* Placing an order *)

\* The attempt and the record are committed, the order is under way.
CommitAttempt(r) ==
    /\ At(r, "begun")
    /\ command = "place"
    /\ effects' = [effects EXCEPT ![req[r].key] = Append(@, req[r].payload)]
    /\ record' = [record EXCEPT ![req[r].key] =
                    [hash |-> Hash(r), status |-> "in_progress", leased |-> TRUE]]
    /\ status' = "between"
    /\ lock' = Released(r)
    /\ Go(r, "calling")
    /\ UNCHANGED <<command, faults>>

\* _write_back: success, explicit failure, or unknown.  The record is not written.
WriteBack(r, outcome) ==
    /\ At(r, "calling")
    /\ status' = CASE outcome = "success" /\ status # "before" -> "after"
                   [] outcome = "failure" /\ status = "between" -> "before"
                   [] OTHER -> status
    /\ Answer(r, "done")
    /\ UNCHANGED <<command, record, effects, lock, faults>>

\* query_unknown_order, once the call is over: the order exists, or it does not.
Recover(to) ==
    /\ status = "between"
    /\ \A r \in Requests : ~At(r, "calling")
    /\ status' = to
    /\ UNCHANGED <<command, record, effects, lock, req, faults>>

\* LEASE_TTL is ten minutes; the call under a lease times out in seconds.
LeaseEnds(k) ==
    /\ record[k].leased
    /\ Holders(k) = {} /\ Calling(k) = {}
    /\ record' = [record EXCEPT ![k].leased = FALSE]
    /\ UNCHANGED <<command, status, effects, lock, req, faults>>

----------------------------------------------------------------------------
(* Clients and faults *)

\* 202: the client asks again, with the same key and payload.
AskAgain(r) ==
    /\ At(r, "answered")
    /\ req[r].answer = "in_progress"
    /\ Go(r, "sent")
    /\ UNCHANGED <<command, status, record, effects, lock, faults>>

\* The transaction is lost, or the answer is: the client sends the same again.
Break(r) ==
    /\ faults < MaxFaults
    /\ req[r].step \notin {"idle", "sent"}
    /\ faults' = faults + 1
    /\ lock' = Released(r)
    /\ Move(r, [req[r] EXCEPT !.step = "sent", !.answer = "none"])
    /\ UNCHANGED <<command, status, record, effects>>

----------------------------------------------------------------------------
Serve(r) ==
    \/ Read(r) \/ TakeLock(r) \/ Find(r) \/ FindNothing(r) \/ Insert(r) \/ Collide(r)
    \/ CheckClose(r) \/ LookForDocument(r) \/ Commit(r) \/ Refuse(r) \/ CommitAttempt(r)
    \/ \E outcome \in {"success", "failure", "unknown"} : WriteBack(r, outcome)

Next ==
    \/ \E r \in Requests : Serve(r) \/ AskAgain(r) \/ Break(r)
    \/ \E r \in Requests, k \in Keys, p \in Payloads : Send(r, k, p)
    \/ \E to \in {"before", "after"} : Recover(to)
    \/ \E k \in Keys : LeaseEnds(k)

Spec == Init /\ [][Next]_vars

\* A request ends (everything it waits for has a timeout), a client asks on,
\* and time passes.
Fairness ==
    /\ \A r \in Requests : SF_vars(Serve(r)) /\ WF_vars(AskAgain(r))
    /\ \A k \in Keys : WF_vars(LeaseEnds(k))

FairSpec == Spec /\ Fairness

----------------------------------------------------------------------------
(* Properties *)

Steps == {"idle", "sent", "locking", "finding", "inserting", "begun", "ready",
          "calling", "answered"}
Seen == {"none", "before", "between", "after", "there", "missing"}

RequestType ==
    [step : Steps, key : Keys \cup {"none"}, payload : Payloads \cup {"none"}, seen : Seen,
     rolled : BOOLEAN, answer : Final \cup {"none", "in_progress"}]

RecordType ==
    [hash : (Payloads \cup {"none"}) \X Seen, status : {"none", "in_progress", "succeeded"},
     leased : BOOLEAN]

\* Records, locks and requests have values of their kinds.
TypeOK ==
    /\ command \in Commands
    /\ status \in {"before", "between", "after"}
    /\ record \in [Keys -> RecordType]
    /\ effects \in [Keys -> Seq(Payloads)]
    /\ lock \in Requests \cup {"free"}
    /\ req \in [Requests -> RequestType]
    /\ \A r \in Requests : IF At(r, "idle") THEN req[r] = Unsent
                          ELSE req[r].key \in Keys /\ req[r].payload \in Payloads
    /\ faults \in 0 .. MaxFaults

\* However often and however concurrently it is sent, a command of one
\* transaction takes effect at most once for each key; and a document is
\* imported once under all keys together.
EffectOncePerKey ==
    /\ command # "place" => \A k \in Keys : Len(effects[k]) <= 1
    /\ command = "import" => \A j, k \in Keys :
                                effects[j] = effects[k] /\ effects[k] # <<>> => j = k

\* Two requests of the same key are never both at the supplier, although the
\* record of a placing command is taken over once its lease has ended.
OneCallPerKey == \A k \in Keys : Cardinality(Calling(k)) <= 1

\* The saved result a client is given is that of its own command, or for an
\* import tells of a document with its content.
AnswerIsOwn ==
    \A r \in Requests : req[r].answer = "saved" =>
        IF command = "import" THEN Imported(req[r].payload)
        ELSE effects[req[r].key] = <<req[r].payload>>

\* begin() may roll the caller's locks and reads away; a request it did that to
\* never goes on to change anything.
RollbackEndsCommand ==
    \A r \in Requests : req[r].rolled => req[r].step \in {"sent", "answered"}

----------------------------------------------------------------------------
(* The inductive invariant behind them *)

\* An effect and the record of its key are committed together: the record names
\* the payload.  An import may have found its document under another key.
RecordTellsEffect(k) ==
    LET p == record[k].hash[1]
    IN  IF record[k] = NoRecord THEN effects[k] = <<>>
        ELSE /\ record[k].status = "succeeded"
             /\ p \in Payloads
             /\ IF command = "import" THEN effects[k] \in {<<>>, <<p>>} /\ Imported(p)
                ELSE effects[k] = <<p>>

\* A transaction that goes on under a key is alone, and the key has no record.
HoldsAlone(r) ==
    req[r].step \in {"begun", "ready"} =>
        /\ record[req[r].key] = NoRecord
        /\ \A s \in Requests \ {r} :
               req[s].step \in {"begun", "ready"} => req[s].key # req[r].key

\* Importing goes on once it has looked; a document that was there is still there.
LookedForDocument(r) ==
    /\ command = "import" /\ At(r, "ready") => req[r].seen \in {"there", "missing"}
    /\ req[r].seen = "there" => command = "import" /\ Imported(req[r].payload)

InOneTransaction ==
    /\ \A k \in Keys : RecordTellsEffect(k)
    /\ \A r \in Requests : HoldsAlone(r) /\ LookedForDocument(r) /\ ~At(r, "calling")

\* From the look at the record on, placing holds the lock; so nobody commits an
\* attempt between the look, the insert or takeover, and one's own commit.
PlacesUnderLock(r) ==
    LET saved == record[req[r].key]
    IN  /\ req[r].step \in {"finding", "inserting", "begun"} => lock = r
        /\ At(r, "inserting") => saved = NoRecord
        /\ At(r, "begun") => ~saved.leased
        /\ ~At(r, "ready")
        /\ req[r].answer # "saved"

\* Who is at the supplier has a lease, alone.
CallsAlone(r) ==
    At(r, "calling") =>
        /\ record[req[r].key].leased
        /\ \A s \in Requests \ {r} : At(s, "calling") => req[s].key # req[r].key

InThreeTransactions ==
    /\ \A k \in Keys :
           /\ record[k].status # "succeeded"
           /\ record[k].leased => record[k].status = "in_progress"
    /\ \A r \in Requests : PlacesUnderLock(r) /\ CallsAlone(r)

IInv ==
    /\ TypeOK
    /\ IF command = "place" THEN InThreeTransactions ELSE InOneTransaction
    /\ EffectOncePerKey
    /\ AnswerIsOwn
    /\ RollbackEndsCommand

----------------------------------------------------------------------------
(* Liveness, and what is documented *)

\* A client that repeats its command until it is answered for good is answered.
RetryIsSettled ==
    \A r \in Requests : (req[r].step # "idle") ~> (req[r].answer \in Final)

Effected(r) == req[r].payload \in {effects[req[r].key][i] : i \in DOMAIN effects[req[r].key]}

\* Documented, and not so: a command that has succeeded is answered with the
\* saved result when it is sent again.
RepeatGetsResult ==
    [][\A r \in Requests :
        /\ At(r, "sent") \/ At(r, "finding") \/ At(r, "inserting")
        /\ req'[r].answer \in {"refused", "reused"}
        /\ status = "after"
        => ~Effected(r)]_vars

\* Documented, and not so: a command that has failed for good is not executed
\* again under its key.
PlacedOncePerKey == \A k \in Keys : Len(effects[k]) <= 1
=============================================================================
