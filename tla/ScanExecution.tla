--------------------------- MODULE ScanExecution ---------------------------
(***************************************************************************)
(* The scheduled scan: the beat that dispatches a schedule's due times       *)
(* (tasks/scan.py), the Celery queue, the workers and administrators that    *)
(* run a scan (services/execution_service.py, api/governance.py), its        *)
(* records and its alerts (services/alert_service.py).                       *)
(*                                                                         *)
(* One schedule and one warehouse.  A scan is one transaction: the execution *)
(* is inserted first, the lines are computed without locks, then the plan,   *)
(* its lines, the items and the alerts are written under the locks and       *)
(* committed.  A plan is only the set of its lines here; what becomes of     *)
(* plans is ReplenishmentPlan's subject.                                     *)
(***************************************************************************)
EXTENDS Integers, FiniteSets

CONSTANTS
    Workers,      \* Celery workers
    Admins,       \* handlers of `run now' and `rerun'
    Products,     \* products of the warehouse
    StartInputs,  \* states of the products' data to start from
    Crons,        \* cron expressions, each the set of its due times
    AdminKeys,    \* idempotency keys administrators send
    MaxTime,      \* last moment considered
    MaxQueue,     \* bound on waiting messages of one due time
    MaxManual,    \* bound on the runs of administrators
    Faults,       \* which of "crash", "error" happen
    MaxFaults,    \* bound on how many happen
    Changing      \* products whose data may change once, and "schedule"

ASSUME ScanConstants ==
    /\ Workers \cap Admins = {}
    /\ MaxTime \in Nat
    /\ StartInputs \subseteq [Products -> {"ok", "blocked", "broken"}]
    /\ Crons \subseteq SUBSET (1 .. MaxTime)
    /\ Faults \subseteq {"crash", "error"}
    /\ Changing \subseteq Products \cup {"schedule"}
    /\ {MaxQueue, MaxManual, MaxFaults} \subseteq Nat

VARIABLES
    now,        \* the time
    beaten,     \* the beat has run since the time last changed
    schedule,   \* the schedule row: cron and enabled
    queue,      \* messages scan_schedule, by due time
    execution,  \* execution rows with their items, committed
    suggestion, \* active plan lines: [product, by], by the execution's number
    alert,      \* open alerts: [product, code]
    input,      \* state of each product's data
    run,        \* the scans under way
    faults,     \* history: faults so far
    changed     \* history: what has changed

data == <<suggestion, alert>>
vars == <<now, beaten, schedule, queue, execution, data, input, run, faults, changed>>

----------------------------------------------------------------------------
(* Values *)

Runners == Workers \cup Admins
Times == 0 .. MaxTime

\* ok: a line can be computed; blocked: a rule, a supplier or data is missing;
\* broken: computing raises something unforeseen.
Inputs == {"ok", "blocked", "broken"}

\* at: due time, or the time of a manual run.  computed: what each product came to.
NoRun == [step |-> "idle", at |-> 0, key |-> "none", due |-> FALSE,
          computed |-> [p \in Products |-> "none"]]

Init ==
    /\ now = 0
    /\ beaten = FALSE
    /\ \E c \in Crons : schedule = [cron |-> c, enabled |-> TRUE]
    /\ queue = [t \in Times |-> 0]
    /\ execution = {}
    /\ suggestion = {}
    /\ alert = {}
    /\ input \in StartInputs
    /\ run = [w \in Runners |-> NoRun]
    /\ faults = [kind \in {"crash", "error"} |-> 0]
    /\ changed = {}

At(w, step) == run[w].step = step

----------------------------------------------------------------------------
(* The beat *)

Due == {t \in schedule.cron : t > now}

\* croniter.get_next: the next due time, the present one excluded.
NextDue == CHOOSE t \in Due : \A u \in Due : t <= u

Scheduled == {e.at : e \in execution}

\* Faulty: any execution counts as the one of the due time.
NotYetRunAtAll == execution = {}

NotYetRun == \A t \in Scheduled : NextDue > t

\* dispatch_due_schedules sends the next due time as soon as no execution has it
\* or a later one: it does not wait for it, and it sends it again and again until
\* the execution is committed.
Beat ==
    /\ beaten' = TRUE
    /\ queue' = IF schedule.enabled /\ Due # {} /\ NotYetRun /\ queue[NextDue] < MaxQueue
                THEN [queue EXCEPT ![NextDue] = @ + 1] ELSE queue
    /\ UNCHANGED <<now, schedule, execution, data, input, run, faults, changed>>

\* The beat's 30 seconds are shorter than the minute between two due times.
Tick ==
    /\ now < MaxTime
    /\ beaten
    /\ now' = now + 1
    /\ beaten' = FALSE
    /\ UNCHANGED <<schedule, queue, execution, data, input, run, faults, changed>>

Change(x) == x \in Changing \ changed /\ changed' = changed \cup {x}

\* update_schedule
UpdateSchedule(c, enabled) ==
    /\ schedule # [cron |-> c, enabled |-> enabled]
    /\ Change("schedule")
    /\ schedule' = [cron |-> c, enabled |-> enabled]
    /\ UNCHANGED <<now, beaten, queue, execution, data, input, run, faults>>

----------------------------------------------------------------------------
(* run_scan *)

\* The number of the next execution row.
Fresh == Cardinality(execution) + 1

Start(w, at, key, due) ==
    run' = [run EXCEPT ![w] = [NoRun EXCEPT !.step = "inserting", !.at = at,
                                            !.key = key, !.due = due]]

\* A worker takes a message; it is acknowledged when the task is over.
Take(w, t) ==
    /\ At(w, "idle")
    /\ queue[t] > 0
    /\ queue' = [queue EXCEPT ![t] = @ - 1]
    /\ Start(w, t, "scan", TRUE)
    /\ UNCHANGED <<now, beaten, schedule, execution, data, input, faults, changed>>

\* Runs of administrators, done or under way.
Manual == {e.no : e \in {f \in execution : ~f.due}} \cup {w \in Admins : ~At(w, "idle")}

\* run_schedule_now, rerun_execution: for the present moment, which no other
\* execution has.  The key is only written down.
RunNow(w, k) ==
    /\ At(w, "idle")
    /\ Cardinality(Manual) < MaxManual
    /\ Start(w, now, k, FALSE)
    /\ UNCHANGED <<now, beaten, schedule, queue, execution, data, input, faults, changed>>

SameSlot(t) == {e \in execution : e.due /\ e.at = t}

\* Faulty: nothing keeps a second execution of a due time away.
SlotTakenNever(w) == FALSE

\* uq_execution_schedule_time
SlotTaken(w) == run[w].due /\ SameSlot(run[w].at) # {}

SlotAwaited(w) ==
    /\ run[w].due
    /\ \E v \in Runners \ {w} : run[v].due /\ run[v].at = run[w].at
                                 /\ run[v].step \in {"computing", "locking", "writing"}

\* The execution is inserted: the insert waits for one that is not committed yet.
Insert(w) ==
    /\ At(w, "inserting")
    /\ ~SlotTaken(w)
    /\ ~SlotAwaited(w)
    /\ run' = [run EXCEPT ![w].step = "computing"]
    /\ UNCHANGED <<now, beaten, schedule, queue, execution, data, input, faults, changed>>

\* ConflictError: the task ends.
Refuse(w) ==
    /\ At(w, "inserting")
    /\ SlotTaken(w)
    /\ run' = [run EXCEPT ![w] = NoRun]
    /\ UNCHANGED <<now, beaten, schedule, queue, execution, data, input, faults, changed>>

\* Faulty: what one product raises ends the computation of them all.
OutcomesTogether ==
    IF \E p \in Products : input[p] = "broken"
    THEN [p \in Products |-> "broken"] ELSE input

\* compute_line_for_sku, product by product: no exception leaves it.
Outcomes == input

Compute(w) ==
    /\ At(w, "computing")
    /\ run' = [run EXCEPT ![w] = [@ EXCEPT !.step = "locking", !.computed = Outcomes]]
    /\ UNCHANGED <<now, beaten, schedule, queue, execution, data, input, faults, changed>>

Valid(w) == {p \in Products : run[w].computed[p] = "ok"}

\* acquire_warehouse_product_locks for the products with a line.
TakeLocks(w) ==
    /\ At(w, "locking")
    /\ \A v \in Runners \ {w} : At(v, "writing") => Valid(v) \cap Valid(w) = {}
    /\ run' = [run EXCEPT ![w].step = "writing"]
    /\ UNCHANGED <<now, beaten, schedule, queue, execution, data, input, faults, changed>>

Suggested == {s.product : s \in suggestion}

\* Faulty: uq_plan_line_active_dedupe is not there.
InsertedAll(w) == Valid(w)

\* The lines whose savepoint is kept: uq_plan_line_active_dedupe refuses others.
Inserted(w) == Valid(w) \ Suggested

\* Item and error code of a product.
ItemOf(w, p) ==
    CASE p \in Inserted(w)                 -> "success"
      [] run[w].computed[p] = "broken"     -> "failed"
      [] OTHER                             -> "blocked"

CodeOf(w, p) == IF p \in Valid(w) THEN "ACTIVE_REPLENISHMENT_EXISTS" ELSE "cause"

Blocked(w) == {p \in Products : ItemOf(w, p) = "blocked"}

\* close_open_alert(blocker_code = "*"): no alert has that code.
Closed(p) == {a \in alert : a.product = p /\ a.code = "*"}

\* Faulty: a line that lost to an active suggestion is only counted.
RaisedForCauses(w) ==
    {[product |-> p, code |-> "cause"] : p \in Blocked(w) \ Valid(w)}

\* upsert_open_alert: one open alert for a product and a code.
Raised(w) == {[product |-> p, code |-> CodeOf(w, p)] : p \in Blocked(w)}

StatusOf(w) ==
    IF \A p \in Products : ItemOf(w, p) # "failed" THEN "succeeded"
    ELSE IF Inserted(w) # {} THEN "partial" ELSE "failed"

Row(w) ==
    [no |-> Fresh, at |-> run[w].at, key |-> run[w].key, due |-> run[w].due,
     started |-> now, status |-> StatusOf(w),
     item |-> [p \in Products |-> ItemOf(w, p)]]

\* Lines, items, alerts and the summary, and the commit.
Finish(w) ==
    /\ At(w, "writing")
    /\ suggestion' = suggestion \cup {[product |-> p, by |-> Fresh] : p \in Inserted(w)}
    /\ alert' = (alert \ UNION {Closed(p) : p \in Inserted(w)}) \cup Raised(w)
    /\ execution' = execution \cup {Row(w)}
    /\ run' = [run EXCEPT ![w] = NoRun]
    /\ UNCHANGED <<now, beaten, schedule, queue, input, faults, changed>>

----------------------------------------------------------------------------
(* The world, and faults *)

\* A suggestion is decided against, ordered or superseded.
Release(s) ==
    /\ s \in suggestion
    /\ suggestion' = suggestion \ {s}
    /\ UNCHANGED <<now, beaten, schedule, queue, execution, alert, input, run, faults, changed>>

InputChange(p, i) ==
    /\ input[p] # i
    /\ Change(p)
    /\ input' = [input EXCEPT ![p] = i]
    /\ UNCHANGED <<now, beaten, schedule, queue, execution, data, run, faults>>

Fault(kind) ==
    /\ kind \in Faults
    /\ faults["crash"] + faults["error"] < MaxFaults
    /\ faults' = [faults EXCEPT ![kind] = @ + 1]

\* A worker dies: its message is delivered again (acks_late); so does a server.
Crash(w) ==
    /\ Fault("crash")
    /\ ~At(w, "idle")
    /\ queue' = IF w \in Workers THEN [queue EXCEPT ![run[w].at] = @ + 1] ELSE queue
    /\ run' = [run EXCEPT ![w] = NoRun]
    /\ UNCHANGED <<now, beaten, schedule, execution, data, input, changed>>

\* The scan raises (a lock timeout, a failed statement): it is rolled back, and
\* the task has failed.
Fail(w) ==
    /\ Fault("error")
    /\ ~At(w, "idle")
    /\ run' = [run EXCEPT ![w] = NoRun]
    /\ UNCHANGED <<now, beaten, schedule, queue, execution, data, input, changed>>

----------------------------------------------------------------------------
Scan(w) ==
    Insert(w) \/ Refuse(w) \/ Compute(w) \/ TakeLocks(w) \/ Finish(w)

Next ==
    \/ Beat \/ Tick
    \/ \E c \in Crons, e \in BOOLEAN : UpdateSchedule(c, e)
    \/ \E w \in Workers, t \in Times : Take(w, t)
    \/ \E w \in Admins, k \in AdminKeys : RunNow(w, k)
    \/ \E w \in Runners : Scan(w) \/ Crash(w) \/ Fail(w)
    \/ \E s \in suggestion : Release(s)
    \/ \E p \in Products, i \in Inputs : InputChange(p, i)

Spec == Init /\ [][Next]_vars

\* The beat beats, and workers take messages and go on with their scans.
Fairness ==
    /\ WF_vars(Beat)
    /\ WF_vars(Tick)
    /\ \A t \in Times : SF_vars(\E w \in Workers : Take(w, t))
    /\ \A w \in Runners : SF_vars(Scan(w))

FairSpec == Spec /\ Fairness

----------------------------------------------------------------------------
(* Properties *)

Item == {"success", "blocked", "failed"}
Key == AdminKeys \cup {"scan"}

Execution ==
    [no : Nat, at : Times, key : Key, due : BOOLEAN, started : Times,
     status : {"succeeded", "partial", "failed"}, item : [Products -> Item]]

Run ==
    [step : {"idle", "inserting", "computing", "locking", "writing"}, at : Times,
     key : Key \cup {"none"}, due : BOOLEAN, computed : [Products -> Inputs \cup {"none"}]]

\* Schedule, queue, records and runs have values of their kinds.
TypeOK ==
    /\ now \in Times
    /\ beaten \in BOOLEAN
    /\ schedule \in [cron : Crons, enabled : BOOLEAN]
    /\ queue \in [Times -> Nat]
    /\ execution \subseteq Execution /\ IsFiniteSet(execution)
    /\ suggestion \subseteq [product : Products, by : Nat]
    /\ alert \subseteq [product : Products, code : {"cause", "ACTIVE_REPLENISHMENT_EXISTS"}]
    /\ input \in [Products -> Inputs]
    /\ run \in [Runners -> Run]
    /\ \A w \in Runners : ~At(w, "idle") => run[w].key \in Key
    /\ faults \in [{"crash", "error"} -> Nat]
    /\ changed \subseteq Changing

\* However often a due time is dispatched or delivered again, and whatever
\* crashes, it is scanned once.
OncePerSlot ==
    \A e, f \in execution : (e.due /\ f.due /\ e.at = f.at) => e = f

\* Scans that overlap make one suggestion of a product between them, and it
\* belongs to an execution that counts it as a success.
SuggestionHasItem ==
    \A s \in suggestion :
        /\ \E e \in execution : e.no = s.by /\ e.item[s.product] = "success"
        /\ \A u \in suggestion : u.product = s.product => u = s

\* Whatever else a scan meets, a product it could not draft has an open alert.
BlockedIsAlerted ==
    \A e \in execution, p \in Products :
        e.item[p] = "blocked" => \E a \in alert : a.product = p

\* A product that raises takes nothing away from the others of its scan: a product
\* whose data are in order gets its suggestion, or has had one.
FailureIsIsolated ==
    \A e \in execution, p \in Products :
        (input[p] = "ok" /\ p \notin changed /\ e.item[p] # "success") =>
            \E f \in execution : f.no < e.no /\ f.item[p] = "success"

\* Executions are numbered in the order they are committed.
NumberedInOrder ==
    /\ \A e \in execution : e.no \in 1 .. Cardinality(execution)
    /\ \A e, f \in execution : e.no = f.no => e = f

Inserting(w) == run[w].due /\ run[w].step \in {"computing", "locking", "writing"}

\* A scan that holds the inserted row of a due time is the only one of it.
HoldsSlotAlone(w) ==
    Inserting(w) =>
        /\ SameSlot(run[w].at) = {}
        /\ \A v \in Runners \ {w} : Inserting(v) => run[v].at # run[w].at

\* What was computed is what the data still say, unless they have changed.
ComputedAsIs(w) ==
    run[w].step \in {"locking", "writing"} =>
        \A p \in Products \ changed : run[w].computed[p] = input[p]

\* The inductive invariant behind these.
IInv ==
    /\ TypeOK
    /\ NumberedInOrder
    /\ \A w \in Runners : HoldsSlotAlone(w) /\ ComputedAsIs(w)
    /\ OncePerSlot
    /\ SuggestionHasItem
    /\ BlockedIsAlerted
    /\ FailureIsIsolated

Missed(t) ==
    /\ SameSlot(t) = {} /\ faults["error"] = 0
    /\ schedule.enabled /\ t \in schedule.cron

\* Every due time is scanned, unless a scan raised or the schedule was changed.
EverySlotScanned ==
    \A t \in 1 .. MaxTime : (t \in Due) ~> (~Missed(t) \/ "schedule" \in changed)

\* Documented, and not so: failures raise alerts too.
FailedIsAlerted ==
    \A e \in execution, p \in Products :
        e.item[p] = "failed" => \E a \in alert : a.product = p

\* Documented, and not so: a due time is dispatched when it has come.
ScannedWhenDue == \A e \in execution : e.due => e.started >= e.at

\* Documented, and not so: no two executions of one idempotency key.
OncePerKey ==
    \A e, f \in execution : (~e.due /\ ~f.due /\ e.key = f.key) => e = f

\* Documented, and not so: a changed schedule is followed.
ChangeIsFollowed == \A t \in 1 .. MaxTime : (t \in Due) ~> ~Missed(t)
=============================================================================
