------------------------- MODULE ScanExecutionProofs -------------------------
(***************************************************************************)
(* The safety properties of ScanExecution, proved for any number of workers, *)
(* administrators, products, due times, crashes and errors.                 *)
(***************************************************************************)
EXTENDS ScanExecution, FiniteSetTheorems, TLAPS

LEMMA FreshIsNat == TypeOK => Cardinality(execution) \in Nat /\ Fresh = Cardinality(execution) + 1
BY FS_CardinalityType DEF TypeOK, Fresh

LEMMA NoRunType == 0 \in Times /\ NoRun \in Run
BY ScanConstants DEF NoRun, Run, Times, Inputs

LEMMA InitIInv == Init => IInv
<1> SUFFICES ASSUME Init PROVE IInv
    OBVIOUS
<1>1. \A w \in Runners : run[w] = NoRun
    BY DEF Init
<1>2. TypeOK
  <2>1. run \in [Runners -> Run]
      BY NoRunType DEF Init
  <2>2. schedule \in [cron : Crons, enabled : BOOLEAN] /\ queue \in [Times -> Nat] /\ now \in Times
      BY NoRunType DEF Init
  <2>3. input \in [Products -> Inputs] /\ faults \in [{"crash", "error"} -> Nat]
      BY ScanConstants DEF Init, Inputs
  <2>4. execution = {} /\ suggestion = {} /\ alert = {} /\ changed = {} /\ beaten = FALSE
      BY DEF Init
  <2>5. \A w \in Runners : At(w, "idle")
      BY <1>1 DEF At, NoRun
  <2> QED
      BY <2>1, <2>2, <2>3, <2>4, <2>5, FS_EmptySet DEF TypeOK
<1>3. execution = {} /\ suggestion = {}
    BY DEF Init
<1>4. NumberedInOrder /\ OncePerSlot /\ SuggestionHasItem /\ BlockedIsAlerted /\ FailureIsIsolated
    BY <1>3 DEF NumberedInOrder, OncePerSlot, SuggestionHasItem, BlockedIsAlerted, FailureIsIsolated
<1>5. \A w \in Runners : HoldsSlotAlone(w) /\ ComputedAsIs(w)
    BY <1>1 DEF HoldsSlotAlone, Inserting, ComputedAsIs, NoRun
<1> QED
    BY <1>2, <1>4, <1>5 DEF IInv

----------------------------------------------------------------------------
(* What a step does to its run *)

OneRunMoves(w) ==
    /\ run' \in [Runners -> Run]
    /\ \A v \in Runners \ {w} : run'[v] = run[v]

LEMMA RunMoves ==
    ASSUME TypeOK, NEW w \in Runners, NEW n \in Run, run' = [run EXCEPT ![w] = n]
    PROVE  OneRunMoves(w) /\ run'[w] = n
BY DEF TypeOK, OneRunMoves

LEMMA StartMoves ==
    ASSUME TypeOK, NEW w \in Runners, NEW at \in Times, NEW key \in Key, NEW due \in BOOLEAN,
           Start(w, at, key, due)
    PROVE  /\ OneRunMoves(w)
           /\ run'[w].step = "inserting" /\ run'[w].key = key
<1> DEFINE n == [NoRun EXCEPT !.step = "inserting", !.at = at, !.key = key, !.due = due]
<1>1. n \in Run /\ n.step = "inserting" /\ n.key = key
    BY NoRunType DEF Run
<1>2. run' = [run EXCEPT ![w] = n]
    BY DEF Start
<1> HIDE DEF n
<1> QED
    BY <1>1, <1>2, RunMoves

LEMMA StepMoves ==
    ASSUME TypeOK, NEW w \in Runners, NEW step \in {"computing", "writing"},
           run' = [run EXCEPT ![w].step = step]
    PROVE  /\ OneRunMoves(w)
           /\ run'[w].step = step /\ run'[w].key = run[w].key /\ run'[w].at = run[w].at
           /\ run'[w].due = run[w].due /\ run'[w].computed = run[w].computed
<1> DEFINE n == [run[w] EXCEPT !.step = step]
<1>1. run[w] \in Run
    BY DEF TypeOK
<1>2. /\ n \in Run /\ n.step = step /\ n.key = run[w].key /\ n.at = run[w].at
      /\ n.due = run[w].due /\ n.computed = run[w].computed
    BY <1>1 DEF Run
<1>3. run' = [run EXCEPT ![w] = n]
    OBVIOUS
<1> HIDE DEF n
<1> QED
    BY <1>2, <1>3, RunMoves

LEMMA ComputeMoves ==
    ASSUME TypeOK, NEW w \in Runners, Compute(w)
    PROVE  /\ OneRunMoves(w)
           /\ run'[w].step = "locking" /\ run'[w].key = run[w].key /\ run'[w].at = run[w].at
           /\ run'[w].due = run[w].due /\ run'[w].computed = input
<1> DEFINE n == [run[w] EXCEPT !.step = "locking", !.computed = input]
<1>1. run[w] \in Run /\ input \in [Products -> Inputs \cup {"none"}]
    BY DEF TypeOK
<1>2. /\ n \in Run /\ n.step = "locking" /\ n.key = run[w].key /\ n.at = run[w].at
      /\ n.due = run[w].due /\ n.computed = input
    BY <1>1 DEF Run
<1>3. run' = [run EXCEPT ![w] = n]
    BY DEF Compute, Outcomes
<1> HIDE DEF n
<1> QED
    BY <1>2, <1>3, RunMoves

LEMMA EndMoves ==
    ASSUME TypeOK, NEW w \in Runners, run' = [run EXCEPT ![w] = NoRun]
    PROVE  OneRunMoves(w) /\ run'[w] = NoRun /\ run'[w].step = "idle"
<1>1. OneRunMoves(w) /\ run'[w] = NoRun
    BY NoRunType, RunMoves
<1> QED
    BY <1>1 DEF NoRun

LEMMA RowType ==
    ASSUME TypeOK, NEW w \in Runners, ~At(w, "idle")
    PROVE  Row(w) \in Execution
<1>1. Fresh \in Nat
    BY FreshIsNat
<1>2. run[w].at \in Times /\ run[w].key \in Key /\ run[w].due \in BOOLEAN /\ now \in Times
    BY DEF TypeOK, Run
<1>3. [p \in Products |-> ItemOf(w, p)] \in [Products -> Item]
    BY DEF ItemOf, Item
<1>4. StatusOf(w) \in {"succeeded", "partial", "failed"}
    BY DEF StatusOf
<1> QED
    BY <1>1, <1>2, <1>3, <1>4 DEF Row, Execution

LEMMA NextTypeOK == TypeOK /\ Next => TypeOK'
<1> SUFFICES ASSUME TypeOK, Next PROVE TypeOK'
    OBVIOUS
<1>0. ASSUME NEW w \in Runners, OneRunMoves(w), run'[w].step = "idle" \/ run'[w].key \in Key
      PROVE  /\ run' \in [Runners -> Run]
             /\ \A v \in Runners : ~At(v, "idle")' => run'[v].key \in Key
    BY <1>0 DEF TypeOK, OneRunMoves, At
<1>1. CASE Beat
  <2>1. queue' \in [Times -> Nat]
    <3> DEFINE next == NextDue
    <3>1. queue' = queue \/ queue' = [queue EXCEPT ![next] = @ + 1]
        BY <1>1 DEF Beat
    <3> HIDE DEF next
    <3> QED
        BY <3>1 DEF TypeOK
  <2> QED
      BY <1>1, <2>1 DEF Beat, TypeOK, data, At
<1>2. CASE Tick
  <2>1. now' \in Times
      BY <1>2, ScanConstants DEF Tick, TypeOK, Times
  <2> QED
      BY <1>2, <2>1 DEF Tick, TypeOK, data, At
<1>3. ASSUME NEW c \in Crons, NEW e \in BOOLEAN, UpdateSchedule(c, e) PROVE TypeOK'
    BY <1>3 DEF UpdateSchedule, Change, TypeOK, data, At
<1>4. ASSUME NEW w \in Workers, NEW t \in Times, Take(w, t) PROVE TypeOK'
  <2>1. w \in Runners /\ "scan" \in Key
      BY DEF Runners, Key
  <2>2. OneRunMoves(w) /\ run'[w].key = "scan"
      BY <1>4, <2>1, StartMoves DEF Take
  <2>3. queue' \in [Times -> Nat]
    <3>1. queue[t] - 1 \in Nat
        BY <1>4 DEF Take, TypeOK
    <3> QED
        BY <1>4, <3>1 DEF Take, TypeOK
  <2> QED
      BY <1>4, <1>0, <2>1, <2>2, <2>3 DEF Take, TypeOK, data
<1>5. ASSUME NEW w \in Admins, NEW k \in AdminKeys, RunNow(w, k) PROVE TypeOK'
  <2>1. w \in Runners /\ k \in Key /\ now \in Times
      BY DEF Runners, Key, TypeOK
  <2>2. OneRunMoves(w) /\ run'[w].key = k
      BY <1>5, <2>1, StartMoves DEF RunNow
  <2> QED
      BY <1>5, <1>0, <2>1, <2>2 DEF RunNow, TypeOK, data
<1>6. ASSUME NEW w \in Runners, Insert(w) \/ TakeLocks(w) \/ Compute(w) PROVE TypeOK'
  <2>1. OneRunMoves(w) /\ run'[w].key = run[w].key
      BY <1>6, StepMoves, ComputeMoves DEF Insert, TakeLocks
  <2>2. run[w].key \in Key
      BY <1>6 DEF Insert, TakeLocks, Compute, TypeOK, At
  <2> QED
      BY <1>6, <1>0, <2>1, <2>2 DEF Insert, TakeLocks, Compute, TypeOK, data
<1>7. ASSUME NEW w \in Runners, Refuse(w) \/ Fail(w) PROVE TypeOK'
  <2>1. OneRunMoves(w) /\ run'[w].step = "idle"
      BY <1>7, EndMoves DEF Refuse, Fail
  <2>2. faults' \in [{"crash", "error"} -> Nat]
      BY <1>7 DEF Refuse, Fail, Fault, TypeOK
  <2> QED
      BY <1>7, <1>0, <2>1, <2>2 DEF Refuse, Fail, TypeOK, data
<1>8. ASSUME NEW w \in Runners, Crash(w) PROVE TypeOK'
  <2>1. OneRunMoves(w) /\ run'[w].step = "idle"
      BY <1>8, EndMoves DEF Crash
  <2>2. faults' \in [{"crash", "error"} -> Nat]
      BY <1>8 DEF Crash, Fault, TypeOK
  <2>3. queue' \in [Times -> Nat]
    <3>1. run[w].at \in Times
        BY DEF TypeOK, Run
    <3> QED
        BY <1>8, <3>1 DEF Crash, TypeOK
  <2> QED
      BY <1>8, <1>0, <2>1, <2>2, <2>3 DEF Crash, TypeOK, data
<1>9. ASSUME NEW w \in Runners, Finish(w) PROVE TypeOK'
  <2>1. OneRunMoves(w) /\ run'[w].step = "idle"
      BY <1>9, EndMoves DEF Finish
  <2>2. execution' \subseteq Execution
      BY <1>9, RowType DEF Finish, TypeOK, At
  <2>3. IsFiniteSet(execution')
      BY <1>9, FS_AddElement DEF Finish, TypeOK
  <2>4. suggestion' \subseteq [product : Products, by : Nat]
    <3>1. Fresh \in Nat /\ Inserted(w) \subseteq Products
        BY FreshIsNat DEF Inserted, Valid
    <3> QED
        BY <1>9, <3>1 DEF Finish, TypeOK
  <2>5. alert' \subseteq [product : Products, code : {"cause", "ACTIVE_REPLENISHMENT_EXISTS"}]
      BY <1>9 DEF Finish, Raised, Blocked, CodeOf, TypeOK
  <2> QED
      BY <1>9, <1>0, <2>1, <2>2, <2>3, <2>4, <2>5 DEF Finish, TypeOK
<1>10. ASSUME NEW x \in suggestion, Release(x) PROVE TypeOK'
    BY <1>10 DEF Release, TypeOK, At
<1>11. ASSUME NEW p \in Products, NEW i \in Inputs, InputChange(p, i) PROVE TypeOK'
    BY <1>11 DEF InputChange, Change, TypeOK, data, At
<1> QED
    BY <1>1, <1>2, <1>3, <1>4, <1>5, <1>6, <1>7, <1>8, <1>9, <1>10, <1>11 DEF Next, Scan

----------------------------------------------------------------------------
(* The invariant *)

Records ==
    /\ NumberedInOrder /\ OncePerSlot /\ SuggestionHasItem
    /\ BlockedIsAlerted /\ FailureIsIsolated

Runs == \A w \in Runners : HoldsSlotAlone(w) /\ ComputedAsIs(w)

LEMMA RecordsKept ==
    ASSUME Records, UNCHANGED <<execution, suggestion, alert, input>>, changed \subseteq changed'
    PROVE  Records'
BY DEF Records, NumberedInOrder, OncePerSlot, SuggestionHasItem, BlockedIsAlerted, FailureIsIsolated

\* A step of a run that writes nothing: what it must see to.
LEMMA RunsKept ==
    ASSUME Runs, NEW w \in Runners, OneRunMoves(w), UNCHANGED <<execution, input, changed>>,
           run'[w].due /\ run'[w].step \in {"computing", "locking", "writing"} =>
               /\ SameSlot(run'[w].at) = {}
               /\ \A v \in Runners \ {w} : Inserting(v) => run[v].at # run'[w].at,
           run'[w].step \in {"locking", "writing"} =>
               \A p \in Products \ changed : run'[w].computed[p] = input[p]
    PROVE  Runs'
<1>1. \A t : SameSlot(t)' = SameSlot(t)
    BY DEF SameSlot
<1>2. \A v \in Runners : HoldsSlotAlone(v)'
    BY <1>1 DEF Runs, HoldsSlotAlone, Inserting, OneRunMoves
<1>3. \A v \in Runners : ComputedAsIs(v)'
    BY DEF Runs, ComputedAsIs, OneRunMoves
<1> QED
    BY <1>2, <1>3 DEF Runs

LEMMA FinishKeeps ==
    ASSUME TypeOK, Records, Runs, NEW w \in Runners, Finish(w)
    PROVE  Records' /\ Runs'
<1> DEFINE n == Cardinality(execution) + 1
           row == Row(w)
<1>1. /\ execution' = execution \cup {row} /\ UNCHANGED <<input, changed>>
      /\ suggestion' = suggestion \cup {[product |-> p, by |-> n] : p \in Inserted(w)}
      /\ run[w].step = "writing"
    BY FreshIsNat DEF Finish, At
<1>2. /\ row.no = n /\ row.due = run[w].due /\ row.at = run[w].at
      /\ row.item = [p \in Products |-> ItemOf(w, p)] /\ row \in Execution
    BY <1>1, RowType, FreshIsNat DEF Row, At
<1>3. OneRunMoves(w) /\ run'[w].step = "idle"
    BY EndMoves DEF Finish
<1> HIDE DEF row
<1>4. \A e \in execution : e.no \in Nat /\ e.no < n
    BY FreshIsNat DEF Records, NumberedInOrder
<1>5. Cardinality(execution') = n /\ n \in Nat
  <2>1. IsFiniteSet(execution) /\ Cardinality(execution) \in Nat
      BY FreshIsNat DEF TypeOK
  <2>2. row \notin execution
      BY <1>2, <1>4, <2>1
  <2>3. Cardinality(execution \cup {row}) = Cardinality(execution) + 1
      BY <2>1, <2>2, FS_AddElement, Zenon
  <2> QED
      BY <1>1, <2>1, <2>3
<1>6. NumberedInOrder'
    BY <1>1, <1>2, <1>4, <1>5, FreshIsNat DEF Records, NumberedInOrder
<1>7. OncePerSlot'
  <2>1. row.due => \A e \in execution : ~(e.due /\ e.at = row.at)
      BY <1>1, <1>2 DEF Runs, HoldsSlotAlone, Inserting, SameSlot
  <2> QED
      BY <1>1, <2>1 DEF Records, OncePerSlot
<1>8. SuggestionHasItem'
  <2>1. ASSUME NEW s \in suggestion'
        PROVE  \E e \in execution' : e.no = s.by /\ e.item[s.product] = "success"
    <3>1. CASE s \in suggestion
        BY <1>1, <3>1 DEF Records, SuggestionHasItem
    <3>2. CASE s \notin suggestion
      <4>1. PICK p \in Inserted(w) : s = [product |-> p, by |-> n]
          BY <1>1, <2>1, <3>2
      <4>2. p \in Products /\ ItemOf(w, p) = "success"
          BY DEF Inserted, Valid, ItemOf
      <4> QED
          BY <1>1, <1>2, <4>1, <4>2
    <3> QED
        BY <3>1, <3>2
  <2>2. ASSUME NEW s \in suggestion', NEW u \in suggestion', u.product = s.product
        PROVE  u = s
    <3>1. \A x \in suggestion' :
              \/ x \in suggestion
              \/ /\ x.product \in Inserted(w) /\ x.by = n
                 /\ x = [product |-> x.product, by |-> n]
        BY <1>1
    <3>2. \A x \in suggestion : x.product \notin Inserted(w)
        BY DEF Inserted, Suggested
    <3> QED
        BY <2>2, <3>1, <3>2 DEF Records, SuggestionHasItem
  <2> QED
      BY <2>1, <2>2 DEF SuggestionHasItem
<1>9. BlockedIsAlerted'
  <2>1. \A p : Closed(p) = {}
      BY DEF Closed, TypeOK
  <2>2. alert' = alert \cup Raised(w)
      BY <2>1 DEF Finish
  <2>3. ASSUME NEW p \in Products, row.item[p] = "blocked" PROVE \E a \in alert' : a.product = p
    <3>1. [product |-> p, code |-> CodeOf(w, p)] \in Raised(w)
        BY <1>2, <2>3 DEF Raised, Blocked
    <3> QED
        BY <2>2, <3>1
  <2> QED
      BY <1>1, <2>2, <2>3 DEF Records, BlockedIsAlerted
<1>10. FailureIsIsolated'
  <2>1. ASSUME NEW p \in Products, input[p] = "ok", p \notin changed, row.item[p] # "success"
        PROVE  \E f \in execution : f.no < row.no /\ f.item[p] = "success"
    <3>1. run[w].computed[p] = "ok"
        BY <1>1, <2>1 DEF Runs, ComputedAsIs
    <3>2. p \notin Inserted(w)
        BY <1>2, <2>1, <3>1 DEF ItemOf
    <3>3. PICK s \in suggestion : s.product = p
        BY <3>1, <3>2 DEF Inserted, Valid, Suggested
    <3>4. PICK e \in execution : e.item[p] = "success"
        BY <3>3 DEF Records, SuggestionHasItem
    <3> QED
        BY <1>2, <1>4, <3>4
  <2> QED
      BY <1>1, <2>1 DEF Records, FailureIsIsolated
<1>11. Runs'
  <2>1. \A v \in Runners \ {w} : Inserting(v) => run[v].at # row.at \/ ~row.due
      BY <1>1, <1>2 DEF Runs, HoldsSlotAlone, Inserting
  <2>2. \A v \in Runners : HoldsSlotAlone(v)'
      BY <1>1, <1>3, <2>1 DEF Runs, HoldsSlotAlone, Inserting, SameSlot, OneRunMoves
  <2>3. \A v \in Runners : ComputedAsIs(v)'
      BY <1>1, <1>3 DEF Runs, ComputedAsIs, OneRunMoves
  <2> QED
      BY <2>2, <2>3 DEF Runs
<1> QED
    BY <1>6, <1>7, <1>8, <1>9, <1>10, <1>11 DEF Records

LEMMA NextIInv == IInv /\ [Next]_vars => IInv'
<1> SUFFICES ASSUME TypeOK, Records, Runs, [Next]_vars PROVE TypeOK' /\ Records' /\ Runs'
    BY DEF IInv, Records, Runs
<1>1. CASE UNCHANGED vars
    BY <1>1 DEF vars, data, TypeOK, Records, Runs, NumberedInOrder, OncePerSlot, SuggestionHasItem,
                BlockedIsAlerted, FailureIsIsolated, HoldsSlotAlone, Inserting, SameSlot,
                ComputedAsIs, At
<1>2. TypeOK'
    BY <1>1, NextTypeOK
<1>3. ASSUME UNCHANGED <<execution, data, input, run>>, changed \subseteq changed'
      PROVE  Records' /\ Runs'
  <2>1. Records'
      BY <1>3, RecordsKept DEF data
  <2>2. Runs'
      BY <1>3 DEF Runs, HoldsSlotAlone, Inserting, SameSlot, ComputedAsIs
  <2> QED
      BY <2>1, <2>2
<1>4. CASE Beat \/ Tick
    BY <1>2, <1>3, <1>4 DEF Beat, Tick
<1>5. ASSUME NEW c, NEW e, UpdateSchedule(c, e) PROVE Records' /\ Runs'
    BY <1>3, <1>5 DEF UpdateSchedule, Change
<1>6. ASSUME NEW w \in Runners, OneRunMoves(w), UNCHANGED <<execution, data, input, changed>>,
             run'[w].step \in {"idle", "inserting"}
      PROVE  Records' /\ Runs'
    BY <1>6, RecordsKept, RunsKept DEF data
<1>7. ASSUME NEW w \in Workers, NEW t \in Times, Take(w, t) PROVE Records' /\ Runs'
  <2>1. w \in Runners /\ "scan" \in Key
      BY DEF Runners, Key
  <2> QED
      BY <1>6, <1>7, <2>1, StartMoves DEF Take
<1>8. ASSUME NEW w \in Admins, NEW k \in AdminKeys, RunNow(w, k) PROVE Records' /\ Runs'
  <2>1. w \in Runners /\ k \in Key /\ now \in Times
      BY DEF Runners, Key, TypeOK
  <2> QED
      BY <1>6, <1>8, <2>1, StartMoves DEF RunNow
<1>9. ASSUME NEW w \in Runners, Insert(w) PROVE Records' /\ Runs'
  <2>1. /\ OneRunMoves(w) /\ run'[w].step = "computing"
        /\ run'[w].at = run[w].at /\ run'[w].due = run[w].due
      BY <1>9, StepMoves DEF Insert
  <2>2. run[w].due => /\ SameSlot(run[w].at) = {}
                      /\ \A v \in Runners \ {w} : Inserting(v) => run[v].at # run[w].at
      BY <1>9 DEF Insert, SlotTaken, SlotAwaited, Inserting
  <2> QED
      BY <1>9, <2>1, <2>2, RecordsKept, RunsKept DEF Insert, data
<1>10. ASSUME NEW w \in Runners, TakeLocks(w) \/ Compute(w) PROVE Records' /\ Runs'
  <2>1. /\ OneRunMoves(w) /\ run'[w].at = run[w].at /\ run'[w].due = run[w].due
        /\ run[w].step \in {"computing", "locking"}
      BY <1>10, StepMoves, ComputeMoves DEF TakeLocks, Compute, At
  <2>2. run[w].due => /\ SameSlot(run[w].at) = {}
                      /\ \A v \in Runners \ {w} : Inserting(v) => run[v].at # run[w].at
      BY <2>1 DEF Runs, HoldsSlotAlone, Inserting
  <2>3. \A p \in Products \ changed : run'[w].computed[p] = input[p]
      BY <1>10, StepMoves, ComputeMoves DEF TakeLocks, Runs, ComputedAsIs, At
  <2> QED
      BY <1>10, <2>1, <2>2, <2>3, RecordsKept, RunsKept DEF TakeLocks, Compute, data
<1>11. ASSUME NEW w \in Runners, Refuse(w) \/ Crash(w) \/ Fail(w) PROVE Records' /\ Runs'
    BY <1>6, <1>11, EndMoves DEF Refuse, Crash, Fail
<1>12. ASSUME NEW x \in suggestion, Release(x) PROVE Records' /\ Runs'
    BY <1>12 DEF Release, Records, NumberedInOrder, OncePerSlot, SuggestionHasItem,
                 BlockedIsAlerted, FailureIsIsolated, Runs, HoldsSlotAlone, Inserting, SameSlot,
                 ComputedAsIs
<1>13. ASSUME NEW p \in Products, NEW i \in Inputs, InputChange(p, i) PROVE Records' /\ Runs'
  <2>1. /\ changed' = changed \cup {p} /\ \A q \in Products \ {p} : input'[q] = input[q]
        /\ UNCHANGED <<execution, suggestion, alert, run>>
      BY <1>13 DEF InputChange, Change, TypeOK, data
  <2>2. Records'
      BY <2>1 DEF Records, NumberedInOrder, OncePerSlot, SuggestionHasItem, BlockedIsAlerted,
                  FailureIsIsolated
  <2>3. Runs'
      BY <2>1 DEF Runs, HoldsSlotAlone, Inserting, SameSlot, ComputedAsIs
  <2> QED
      BY <2>2, <2>3
<1> QED
    BY <1>1, <1>2, <1>4, <1>5, <1>7, <1>8, <1>9, <1>10, <1>11, <1>12, <1>13, FinishKeeps
    DEF Next, Scan

----------------------------------------------------------------------------
(* The theorems *)

\* Every reachable state satisfies the inductive invariant.
THEOREM Invariance == Spec => []IInv
<1> QED
    BY InitIInv, NextIInv, PTL DEF Spec

\* A due time is scanned at most once, whatever is delivered again or crashes.
THEOREM SlotsAreScannedOnce == Spec => []OncePerSlot
<1>1. IInv => OncePerSlot
    BY DEF IInv
<1> QED
    BY <1>1, Invariance, PTL

\* A product has one active suggestion, of an execution that counts it a success.
THEOREM SuggestionsHaveItems == Spec => []SuggestionHasItem
<1>1. IInv => SuggestionHasItem
    BY DEF IInv
<1> QED
    BY <1>1, Invariance, PTL

\* A product whose computation is in order is never lost to another's failure.
THEOREM FailuresAreIsolated == Spec => []FailureIsIsolated
<1>1. IInv => FailureIsIsolated
    BY DEF IInv
<1> QED
    BY <1>1, Invariance, PTL

\* A product a scan could not draft has an open alert from then on.
THEOREM BlockedAreAlerted == Spec => []BlockedIsAlerted
<1>1. IInv => BlockedIsAlerted
    BY DEF IInv
<1> QED
    BY <1>1, Invariance, PTL

=============================================================================
