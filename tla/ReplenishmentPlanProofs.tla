---------------------- MODULE ReplenishmentPlanProofs ----------------------
(***************************************************************************)
(* The safety properties of ReplenishmentPlan, proved for any number of    *)
(* handlers, scans, products and plans: those that hold under every        *)
(* interleaving, then those that hold when a command runs to its end       *)
(* before the next one starts, with the lifecycle a plan then follows, and *)
(* that handlers who take their locks in order never wait in a circle.     *)
(***************************************************************************)
EXTENDS ReplenishmentPlan, NumberFacts

USE DEF Procs

LEMMA IdleIsSession == IdleSession \in SessionType
BY ConstantsAssumption DEF IdleSession, SessionType, BasisType, NoBasis

\* A step of a session replaces its own record and no other.
LEMMA GoMovesOneSession ==
    ASSUME TypeOK, NEW h \in Procs, NEW s \in SessionType, Go(h, s)
    PROVE  /\ sess' \in [Procs -> SessionType]
           /\ sess'[h] = s
           /\ \A g \in Procs \ {h} : sess'[g] = sess[g]
BY DEF Go, TypeOK

Steps == {"idle", "plan_read", "locking", "relocking", "computed", "checked"}
OpsOnPlan == {"decide", "create", "supersede"}
Bases == [Products -> BasisType]

\* The updates of a session record, as far as later steps look at it.
LEMMA LockedSession ==
    ASSUME NEW r \in SessionType, NEW H \in SUBSET Products
    PROVE  LET s == [r EXCEPT !.held = H]
           IN  /\ s \in SessionType
               /\ s.op = r.op /\ s.step = r.step /\ s.plan = r.plan
               /\ s.want = r.want /\ s.held = H
BY DEF SessionType

LEMMA CheckedSession ==
    ASSUME NEW r \in SessionType, NEW step \in Steps, NEW Q \in SUBSET Products
    PROVE  LET s == [r EXCEPT !.step = step, !.prods = Q]
           IN  /\ s \in SessionType
               /\ s.op = r.op /\ s.step = step /\ s.plan = r.plan
               /\ s.want = r.want /\ s.held = r.held
BY DEF SessionType, Steps

LEMMA SteppedSession ==
    ASSUME NEW r \in SessionType, NEW step \in Steps
    PROVE  LET s == [r EXCEPT !.step = step]
           IN  /\ s \in SessionType
               /\ s.op = r.op /\ s.step = step /\ s.plan = r.plan
               /\ s.want = r.want /\ s.held = r.held
BY DEF SessionType, Steps

LEMMA WantingSession ==
    ASSUME NEW r \in SessionType, NEW step \in Steps, NEW W \in SUBSET Products
    PROVE  LET s == [r EXCEPT !.step = step, !.want = W]
           IN  /\ s \in SessionType
               /\ s.op = r.op /\ s.step = step /\ s.plan = r.plan
               /\ s.want = W /\ s.held = r.held
BY DEF SessionType, Steps

LEMMA DraftingSession ==
    ASSUME NEW r \in SessionType, NEW Q \in SUBSET Products
    PROVE  LET s == [r EXCEPT !.op = "draft", !.step = "locking", !.prods = Q, !.want = Q]
           IN  s \in SessionType /\ s.op = "draft" /\ s.held = r.held
BY DEF SessionType

LEMMA ScanningSession ==
    ASSUME NEW r \in SessionType, NEW Q \in SUBSET Products, NEW b \in Bases
    PROVE  LET s == [r EXCEPT !.op = "scan", !.step = "locking", !.prods = Q,
                              !.want = Q, !.basis = b]
           IN  s \in SessionType /\ s.op = "scan" /\ s.held = r.held
BY DEF SessionType, Bases

LEMMA NoLineIsLine == NoLine \in LineType
BY ConstantsAssumption DEF LineType, NoLine, NoBasis, BasisType

LEMMA InitIInv == Init => IInv
<1> SUFFICES ASSUME Init PROVE IInv
    OBVIOUS
<1>1. TypeOK
    BY IdleIsSession, NoLineIsLine, ConstantsAssumption DEF Init, TypeOK
<1>2. \A h \in Procs : sess[h] = IdleSession
    BY DEF Init
<1>3. LocksExclusive /\ \A h \in Procs : SessionSound(h)
    BY <1>2 DEF LocksExclusive, SessionSound, OnPlan, At, IdleSession
<1>4. RowsConsistent /\ OneActiveLine /\ OrderedIsReleased
    BY DEF Init, RowsConsistent, OneActiveLine, OrderedIsReleased, NoLine
<1>5. \A k \in Plans : plan[k].status = "none"
    BY DEF Init, NoPlan
<1>6. DecisionIsDelivered /\ EndedPlanIsReleased /\ PlanHasLines
    BY <1>5 DEF DecisionIsDelivered, EndedPlanIsReleased, PlanHasLines, Exists
<1> QED
    BY <1>1, <1>3, <1>4, <1>6 DEF IInv

----------------------------------------------------------------------------
(* Steps that read or lock and move one session, but write nothing *)

LEMMA ReadPreservesIInv ==
    ASSUME IInv, NEW h \in Procs, NEW s \in SessionType, Go(h, s), NoWrite,
           \A g \in Procs \ {h} : s.held \cap sess[g].held = {},
           SessionSound(h)'
    PROVE  IInv'
<1>0. /\ sess' \in [Procs -> SessionType]
      /\ sess'[h] = s
      /\ \A g \in Procs \ {h} : sess'[g] = sess[g]
    BY GoMovesOneSession DEF IInv
<1>1. TypeOK'
    BY <1>0 DEF IInv, TypeOK, NoWrite, evidence
<1>2. LocksExclusive'
    BY <1>0 DEF IInv, LocksExclusive
<1>3. RowsConsistent' /\ OneActiveLine' /\ OrderedIsReleased' /\ DecisionIsDelivered'
    BY DEF IInv, RowsConsistent, OneActiveLine, OrderedIsReleased, DecisionIsDelivered,
           Exists, NoWrite
<1>4. EndedPlanIsReleased' /\ PlanHasLines'
    BY DEF IInv, EndedPlanIsReleased, ActiveLines, PlanHasLines, Exists, NoWrite
<1>5. ASSUME NEW g \in Procs PROVE SessionSound(g)'
  <2>1. CASE g = h
      BY <2>1
  <2>2. CASE g # h
      BY <2>2, <1>0 DEF IInv, SessionSound, OnPlan, At, Exists, ValidLines, OpenSince, NoWrite
  <2> QED
      BY <2>1, <2>2
<1> QED
    BY <1>1, <1>2, <1>3, <1>4, <1>5 DEF IInv

LEMMA AbandonPreserves == ASSUME IInv, NEW h \in Procs, Abandon(h) PROVE IInv'
<1>1. Go(h, IdleSession) /\ NoWrite
    BY DEF Abandon
<1>2. SessionSound(h)'
    BY <1>1, IdleIsSession, GoMovesOneSession DEF IInv, SessionSound, OnPlan, At, IdleSession
<1>3. \A g \in Procs \ {h} : IdleSession.held \cap sess[g].held = {}
    BY DEF IdleSession
<1> QED
    BY <1>1, <1>2, <1>3, IdleIsSession, ReadPreservesIInv

\* A lock is granted only when nobody holds it.
LEMMA TakeLockPreserves == ASSUME IInv, NEW h \in Procs, TakeLock(h) PROVE IInv'
<1>1. PICK p \in Products :
        /\ \A g \in Procs : p \notin sess[g].held
        /\ Go(h, [sess[h] EXCEPT !.held = @ \cup {p}])
    BY DEF TakeLock
<1> DEFINE s == [sess[h] EXCEPT !.held = sess[h].held \cup {p}]
<1>2. sess[h] \in SessionType /\ sess[h].held \cup {p} \in SUBSET Products
    BY DEF IInv, TypeOK, SessionType
<1>3. /\ s \in SessionType
      /\ s.op = sess[h].op /\ s.step = sess[h].step /\ s.plan = sess[h].plan
      /\ s.want = sess[h].want /\ s.held = sess[h].held \cup {p}
    BY <1>2, LockedSession
<1>4. Go(h, s)
    BY <1>1
<1> HIDE DEF s
<1>5. NoWrite /\ sess[h].step \in {"locking", "relocking"}
    BY DEF TakeLock
<1>6. sess'[h] = s
    BY <1>3, <1>4, GoMovesOneSession DEF IInv
<1>7. SessionSound(h)'
    BY <1>3, <1>5, <1>6 DEF IInv, SessionSound, OnPlan, At, Exists, ValidLines, NoWrite
<1>8. \A g \in Procs \ {h} : s.held \cap sess[g].held = {}
    BY <1>1, <1>3 DEF IInv, LocksExclusive
<1> QED
    BY <1>3, <1>4, <1>5, <1>7, <1>8, ReadPreservesIInv

LEMMA DraftReadPreserves == ASSUME IInv, NEW h \in Procs, DraftRead(h) PROVE IInv'
<1>1. PICK Q \in (SUBSET Products) \ {{}} :
        Go(h, [IdleSession EXCEPT !.op = "draft", !.step = "locking", !.prods = Q, !.want = Q])
    BY DEF DraftRead
<1> DEFINE s == [IdleSession EXCEPT !.op = "draft", !.step = "locking", !.prods = Q, !.want = Q]
<1>2. s \in SessionType /\ s.op = "draft" /\ s.held = IdleSession.held
    BY IdleIsSession, DraftingSession
<1>3. Go(h, s) /\ NoWrite
    BY <1>1 DEF DraftRead
<1> HIDE DEF s
<1>4. SessionSound(h)'
    BY <1>2, <1>3, GoMovesOneSession DEF IInv, SessionSound, OnPlan, At
<1>5. \A g \in Procs \ {h} : s.held \cap sess[g].held = {}
    BY <1>2 DEF IdleSession
<1> QED
    BY <1>2, <1>3, <1>4, <1>5, ReadPreservesIInv

LEMMA CurrentBasisType ==
    ASSUME TypeOK, NEW Q \in SUBSET Products PROVE WithBasis(Q) \in Bases
BY ConstantsAssumption DEF TypeOK, Bases, WithBasis, CurrentBasis, Inbound, BasisType, NoBasis

LEMMA ScanComputePreserves == ASSUME IInv, NEW h \in Procs, ScanCompute(h) PROVE IInv'
<1>1. PICK Q \in SUBSET Products :
        Go(h, [IdleSession EXCEPT !.op = "scan", !.step = "locking", !.prods = Q,
                                  !.want = Q, !.basis = WithBasis(Q)])
    BY DEF ScanCompute
<1> DEFINE s == [IdleSession EXCEPT !.op = "scan", !.step = "locking", !.prods = Q,
                                    !.want = Q, !.basis = WithBasis(Q)]
<1>2. s \in SessionType /\ s.op = "scan" /\ s.held = IdleSession.held
    BY IdleIsSession, ScanningSession, CurrentBasisType DEF IInv
<1>3. Go(h, s) /\ NoWrite
    BY <1>1 DEF ScanCompute
<1> HIDE DEF s
<1>4. SessionSound(h)'
    BY <1>2, <1>3, GoMovesOneSession DEF IInv, SessionSound, OnPlan, At
<1>5. \A g \in Procs \ {h} : s.held \cap sess[g].held = {}
    BY <1>2 DEF IdleSession
<1> QED
    BY <1>2, <1>3, <1>4, <1>5, ReadPreservesIInv

LEMMA PlanReadPreserves ==
    ASSUME IInv, NEW h \in Procs, NEW op \in OpsOnPlan, PlanRead(h, op)
    PROVE  IInv'
<1>1. PICK k \in Plans :
        /\ plan[k].status \in StatusFor(op)
        /\ Go(h, [IdleSession EXCEPT !.op = op, !.step = "plan_read", !.plan = k,
                                     !.seen = plan[k].version])
    BY DEF PlanRead
<1> DEFINE v == plan[k].version
           s == [IdleSession EXCEPT !.op = op, !.step = "plan_read", !.plan = k, !.seen = v]
<1>2. v \in Nat /\ Exists(k)
    BY <1>1 DEF OpsOnPlan, IInv, TypeOK, PlanType, NoPlan, StatusFor, Exists
<1>3. /\ s \in SessionType
      /\ s.op = op /\ s.step = "plan_read" /\ s.plan = k /\ s.held = IdleSession.held
  <2> HIDE DEF v
  <2> QED
      BY <1>2, IdleIsSession DEF SessionType, OpsOnPlan
<1>4. Go(h, s) /\ NoWrite
    BY <1>1 DEF PlanRead
<1> HIDE DEF s
<1>5. SessionSound(h)'
    BY <1>2, <1>3, <1>4, GoMovesOneSession DEF IInv, SessionSound, OnPlan, At, Exists, NoWrite
<1>6. \A g \in Procs \ {h} : s.held \cap sess[g].held = {}
    BY <1>3 DEF IdleSession
<1> QED
    BY <1>3, <1>4, <1>5, <1>6, ReadPreservesIInv

\* A session that moves on with the locks it has.
LEMMA MovePreservesIInv ==
    ASSUME IInv, NEW h \in Procs, NEW s \in SessionType, Go(h, s), NoWrite,
           s.held = sess[h].held, SessionSound(h)'
    PROVE  IInv'
<1>1. \A g \in Procs \ {h} : s.held \cap sess[g].held = {}
    BY DEF IInv, LocksExclusive
<1> QED
    BY <1>1, ReadPreservesIInv

LEMMA DraftComputePreserves == ASSUME IInv, NEW h \in Procs, DraftCompute(h) PROVE IInv'
<1> DEFINE b == WithBasis(sess[h].prods)
           r == sess[h]
           s == [r EXCEPT !.step = "computed", !.basis = b]
<1>1. sess[h] \in SessionType /\ b \in Bases
    BY CurrentBasisType DEF IInv, TypeOK, SessionType
<1>2. /\ s \in SessionType
      /\ s.op = sess[h].op /\ s.step = "computed" /\ s.plan = sess[h].plan
      /\ s.want = sess[h].want /\ s.held = sess[h].held
  <2>1. r \in SessionType /\ b \in Bases
      BY <1>1
  <2> HIDE DEF b, r
  <2>2. /\ s \in SessionType
        /\ s.op = r.op /\ s.step = "computed" /\ s.plan = r.plan
        /\ s.want = r.want /\ s.held = r.held
      BY <2>1 DEF SessionType, Bases
  <2> QED
      BY <2>2 DEF r
<1>3. Go(h, s) /\ NoWrite
    BY DEF DraftCompute
<1> HIDE DEF s
<1>4. SessionSound(h)'
    BY <1>2, <1>3, GoMovesOneSession DEF IInv, SessionSound, OnPlan, At, Exists, NoWrite
<1> QED
    BY <1>2, <1>3, <1>4, MovePreservesIInv

LEMMA DecideLinesPreserves == ASSUME IInv, NEW h \in Procs, DecideLines(h) PROVE IInv'
<1> DEFINE W == ValidLines(sess[h].plan)
           s == [sess[h] EXCEPT !.step = "locking", !.want = W]
<1>1. sess[h] \in SessionType /\ W \in SUBSET Products
    BY DEF IInv, TypeOK, ValidLines
<1>2. /\ s \in SessionType
      /\ s.op = sess[h].op /\ s.step = "locking" /\ s.plan = sess[h].plan
      /\ s.want = W /\ s.held = sess[h].held
  <2> HIDE DEF W
  <2> QED
      BY <1>1, WantingSession DEF Steps
<1>3. Go(h, s) /\ NoWrite /\ sess[h].op = "decide"
    BY DEF DecideLines, At
<1> HIDE DEF s
<1>4. SessionSound(h)'
    BY <1>2, <1>3, GoMovesOneSession
    DEF IInv, SessionSound, OnPlan, At, Exists, NoWrite, ValidLines
<1> QED
    BY <1>2, <1>3, <1>4, MovePreservesIInv

LEMMA CreateLinesPreserves == ASSUME IInv, NEW h \in Procs, CreateLines(h) PROVE IInv'
<1> DEFINE W == ValidLines(sess[h].plan)
           s == [sess[h] EXCEPT !.step = "locking", !.want = W]
<1>1. sess[h] \in SessionType /\ W \in SUBSET Products
    BY DEF IInv, TypeOK, ValidLines
<1>2. /\ s \in SessionType
      /\ s.op = sess[h].op /\ s.step = "locking" /\ s.plan = sess[h].plan
      /\ s.want = W /\ s.held = sess[h].held
  <2> HIDE DEF W
  <2> QED
      BY <1>1, WantingSession DEF Steps
<1>3. Go(h, s) /\ NoWrite /\ sess[h].op = "create"
    BY DEF CreateLines, At
<1> HIDE DEF s
<1>4. SessionSound(h)'
    BY <1>2, <1>3, GoMovesOneSession DEF IInv, SessionSound, OnPlan, At, Exists, NoWrite
<1> QED
    BY <1>2, <1>3, <1>4, MovePreservesIInv

LEMMA SupersedeReleasePreserves ==
    ASSUME IInv, NEW h \in Procs, SupersedeRelease(h) PROVE IInv'
<1> DEFINE W == sess[h].prods
           s == [sess[h] EXCEPT !.step = "relocking", !.want = W]
<1>1. sess[h] \in SessionType /\ W \in SUBSET Products
    BY DEF IInv, TypeOK, SessionType
<1>2. /\ s \in SessionType
      /\ s.op = sess[h].op /\ s.step = "relocking" /\ s.plan = sess[h].plan
      /\ s.want = W /\ s.held = sess[h].held
  <2> HIDE DEF W
  <2> QED
      BY <1>1, WantingSession DEF Steps
<1>3. Go(h, s) /\ NoWrite
    BY DEF SupersedeRelease
<1> HIDE DEF s
<1>4. SessionSound(h)'
    BY <1>2, <1>3, GoMovesOneSession DEF IInv, SessionSound, OnPlan, At, Exists, NoWrite
<1> QED
    BY <1>2, <1>3, <1>4, MovePreservesIInv

LEMMA SupersedeLinesPreserves == ASSUME IInv, NEW h \in Procs, SupersedeLines(h) PROVE IInv'
<1> DEFINE W == ActiveLines(sess[h].plan)
           r == sess[h]
           t(Q) == [r EXCEPT !.step = "locking", !.prods = Q, !.want = W]
<1>1. PICK Q \in SUBSET Products : Go(h, t(Q))
    BY DEF SupersedeLines
<1> DEFINE s == t(Q)
<1>2. sess[h] \in SessionType /\ W \in SUBSET Products
    BY DEF IInv, TypeOK, ActiveLines
<1>3. /\ s \in SessionType
      /\ s.op = sess[h].op /\ s.step = "locking" /\ s.plan = sess[h].plan
      /\ s.want = W /\ s.held = sess[h].held
  <2>1. r \in SessionType /\ W \in SUBSET Products
      BY <1>2
  <2> HIDE DEF W, r
  <2>2. /\ s \in SessionType
        /\ s.op = r.op /\ s.step = "locking" /\ s.plan = r.plan
        /\ s.want = W /\ s.held = r.held
      BY <2>1 DEF SessionType
  <2> QED
      BY <2>2 DEF r
<1>4. Go(h, s) /\ NoWrite /\ sess[h].op = "supersede"
    BY <1>1 DEF SupersedeLines, At
<1> HIDE DEF s
<1>5. SessionSound(h)'
    BY <1>3, <1>4, GoMovesOneSession DEF IInv, SessionSound, OnPlan, At, Exists, NoWrite
<1> QED
    BY <1>3, <1>4, <1>5, MovePreservesIInv

LEMMA DecideCheckPreserves == ASSUME IInv, NEW h \in Procs, DecideCheck(h) PROVE IInv'
<1> DEFINE t(A) == [sess[h] EXCEPT !.step = "checked", !.prods = A]
<1>1. PICK A \in SUBSET sess[h].want : Go(h, t(A))
    BY DEF DecideCheck
<1> DEFINE s == t(A)
<1>2. sess[h] \in SessionType /\ A \in SUBSET Products
    BY DEF IInv, TypeOK, SessionType
<1>3. /\ s \in SessionType
      /\ s.op = sess[h].op /\ s.step = "checked" /\ s.plan = sess[h].plan
      /\ s.want = sess[h].want /\ s.held = sess[h].held
    BY <1>2, CheckedSession DEF Steps
<1>4. Go(h, s) /\ NoWrite /\ At(h, "decide", "locking")
    BY <1>1 DEF DecideCheck
<1> HIDE DEF s
<1>5. SessionSound(h)'
    BY <1>3, <1>4, GoMovesOneSession
    DEF IInv, SessionSound, OnPlan, At, Exists, ValidLines, NoWrite
<1> QED
    BY <1>3, <1>4, <1>5, MovePreservesIInv

\* What the check saw under the locks stays true until the commit.
LEMMA CreateCheckPreserves == ASSUME IInv, NEW h \in Procs, CreateCheck(h) PROVE IInv'
<1> DEFINE s == [sess[h] EXCEPT !.step = "checked"]
<1>1. sess[h] \in SessionType
    BY DEF IInv, TypeOK
<1>2. /\ s \in SessionType
      /\ s.op = sess[h].op /\ s.step = "checked" /\ s.plan = sess[h].plan
      /\ s.want = sess[h].want /\ s.held = sess[h].held
    BY <1>1, SteppedSession DEF Steps
<1>3. Go(h, s) /\ NoWrite /\ At(h, "create", "locking")
    BY DEF CreateCheck
<1> HIDE DEF s
<1>4. sess[h].want \subseteq sess[h].held
    BY DEF CreateCheck, Locked
<1>5. \A p \in sess[h].want : OpenSince(p) \subseteq line[sess[h].plan][p].basis.inbound
  <2> SUFFICES ASSUME NEW p \in sess[h].want
               PROVE  OpenSince(p) \subseteq line[sess[h].plan][p].basis.inbound
      OBVIOUS
  <2>1. line[sess[h].plan][p].basis = [inputs |-> inputs[p], inbound |-> Inbound(p)]
      BY DEF CreateCheck, AllFresh, Fresh, CurrentBasis
  <2> QED
      BY <2>1 DEF Inbound, OpenSince
<1>6. SessionSound(h)'
    BY <1>2, <1>3, <1>4, <1>5, GoMovesOneSession
    DEF IInv, SessionSound, OnPlan, At, Exists, OpenSince, NoWrite
<1> QED
    BY <1>2, <1>3, <1>6, MovePreservesIInv

----------------------------------------------------------------------------
(* Steps that write *)

\* A step may release or exclude the lines of a plan that exists, and add new
\* ones; it leaves the basis of a line alone.
RowsOnlyShrink ==
    \A k \in Plans : Exists(k) =>
        /\ Exists(k)'
        /\ \A p \in Products :
            /\ line'[k][p].active => line[k][p].active
            /\ line'[k][p].flag = "valid" => line[k][p].flag = "valid"
            /\ line'[k][p].basis = line[k][p].basis
            /\ line[k][p].flag # "none" => line'[k][p].flag # "none"

\* A session ends or goes on; what it has locked is not ordered by others.
SessionsUndisturbed ==
    \A g \in Procs :
        \/ sess'[g] = IdleSession
        \/ /\ sess'[g] = sess[g]
           /\ \A p \in sess[g].held : OpenSince(p)' \subseteq OpenSince(p)

\* What the sessions hold of the rows they read survives such a step.
LEMMA OthersStaySound ==
    ASSUME IInv, RowsOnlyShrink, SessionsUndisturbed
    PROVE  LocksExclusive' /\ \A g \in Procs : SessionSound(g)'
<1>1. LocksExclusive'
    BY DEF IInv, LocksExclusive, SessionsUndisturbed, IdleSession
<1>2. ASSUME NEW g \in Procs PROVE SessionSound(g)'
  <2>1. CASE sess'[g] = IdleSession
      BY <2>1 DEF SessionSound, OnPlan, At, IdleSession
  <2>2. CASE sess'[g] = sess[g] /\ \A p \in sess[g].held : OpenSince(p)' \subseteq OpenSince(p)
    <3>1. SessionSound(g) /\ sess[g] \in SessionType
        BY DEF IInv, TypeOK
    <3>2. OnPlan(g)' => sess'[g].plan \in Plans /\ Exists(sess[g].plan) /\ Exists(sess[g].plan)'
        BY <2>2, <3>1 DEF SessionSound, OnPlan, RowsOnlyShrink
    <3>3. At(g, "decide", "locking")' \/ At(g, "decide", "checked")' =>
            ValidLines(sess[g].plan)' \subseteq sess'[g].want
        BY <2>2, <3>1, <3>2 DEF SessionSound, OnPlan, At, RowsOnlyShrink, ValidLines
    <3>4. At(g, "create", "checked")' =>
            /\ sess'[g].want \subseteq sess'[g].held
            /\ \A p \in sess'[g].want :
                 OpenSince(p)' \subseteq line'[sess'[g].plan][p].basis.inbound
      <4> SUFFICES ASSUME At(g, "create", "checked")'
                   PROVE  /\ sess[g].want \subseteq sess[g].held
                          /\ \A p \in sess[g].want :
                               OpenSince(p)' \subseteq line'[sess[g].plan][p].basis.inbound
          BY <2>2
      <4>1. At(g, "create", "checked") /\ OnPlan(g) /\ sess[g].want \subseteq Products
          BY <2>2, <3>1 DEF At, OnPlan, SessionType
      <4>2. /\ sess[g].want \subseteq sess[g].held
            /\ \A p \in sess[g].want : OpenSince(p) \subseteq line[sess[g].plan][p].basis.inbound
          BY <3>1, <4>1 DEF SessionSound
      <4>3. \A p \in Products :
              line'[sess[g].plan][p].basis = line[sess[g].plan][p].basis
          BY <3>1, <4>1 DEF SessionSound, RowsOnlyShrink
      <4> QED
          BY <2>2, <4>1, <4>2, <4>3
    <3>5. sess'[g].plan = sess[g].plan
        BY <2>2
    <3> QED
        BY <3>2, <3>3, <3>4, <3>5 DEF SessionSound
  <2> QED
      BY <2>1, <2>2 DEF SessionsUndisturbed
<1> QED
    BY <1>1, <1>2

LEMMA CommitEndsSession ==
    ASSUME TypeOK, NEW h \in Procs, Go(h, IdleSession)
    PROVE  /\ sess' \in [Procs -> SessionType]
           /\ sess'[h] = IdleSession
           /\ \A g \in Procs \ {h} : sess'[g] = sess[g]
BY IdleIsSession, GoMovesOneSession

\* A commit that makes no order disturbs no other session.
LEMMA CommitIsUndisturbing ==
    ASSUME TypeOK, NEW h \in Procs, Go(h, IdleSession), UNCHANGED ordered
    PROVE  SessionsUndisturbed
BY CommitEndsSession DEF SessionsUndisturbed, OpenSince

\* A commit that opens alerts and writes nothing else.
LEMMA AlertingPreserves ==
    ASSUME IInv, NEW h \in Procs, Go(h, IdleSession), alert' \subseteq Products,
           UNCHANGED <<plan, line, ordered, inputs, resume>>
    PROVE  IInv'
<1>1. TypeOK'
  <2>1. sess' \in [Procs -> SessionType]
      BY CommitEndsSession DEF IInv
  <2> QED
      BY <2>1 DEF IInv, TypeOK
<1>2. LocksExclusive' /\ \A g \in Procs : SessionSound(g)'
    BY CommitIsUndisturbing, OthersStaySound DEF IInv, RowsOnlyShrink, Exists
<1>3. RowsConsistent' /\ OneActiveLine' /\ OrderedIsReleased' /\ DecisionIsDelivered'
    BY DEF IInv, RowsConsistent, OneActiveLine, OrderedIsReleased, DecisionIsDelivered, Exists
<1>4. EndedPlanIsReleased' /\ PlanHasLines'
    BY DEF IInv, EndedPlanIsReleased, ActiveLines, PlanHasLines, Exists
<1> QED
    BY <1>1, <1>2, <1>3, <1>4 DEF IInv

LEMMA DraftBlockedPreserves == ASSUME IInv, NEW h \in Procs, DraftBlocked(h) PROVE IInv'
<1>1. Go(h, IdleSession) /\ UNCHANGED <<plan, line, ordered, inputs, resume>>
    BY DEF DraftBlocked
<1>2. alert' \subseteq Products
    BY DEF DraftBlocked, IInv, TypeOK, SessionType
<1> QED
    BY <1>1, <1>2, AlertingPreserves

\* Stock and supplier terms change: no row and no session does.
LEMMA InputsChangePreserves == ASSUME IInv, NEW p \in Products, InputsChange(p) PROVE IInv'
<1>1. UNCHANGED <<plan, line, ordered, alert, resume, sess>>
    BY DEF InputsChange
<1>2. TypeOK'
  <2>1. inputs' \in [Products -> 0 .. MaxInputs]
      BY ConstantsAssumption DEF InputsChange, IInv, TypeOK
  <2> QED
      BY <1>1, <2>1 DEF IInv, TypeOK
<1>3. LocksExclusive' /\ \A g \in Procs : SessionSound(g)'
    BY <1>1, OthersStaySound DEF IInv, RowsOnlyShrink, Exists, SessionsUndisturbed, OpenSince
<1>4. RowsConsistent' /\ OneActiveLine' /\ OrderedIsReleased' /\ DecisionIsDelivered'
    BY <1>1 DEF IInv, RowsConsistent, OneActiveLine, OrderedIsReleased, DecisionIsDelivered,
                Exists
<1>5. EndedPlanIsReleased' /\ PlanHasLines'
    BY <1>1 DEF IInv, EndedPlanIsReleased, ActiveLines, PlanHasLines, Exists
<1> QED
    BY <1>2, <1>3, <1>4, <1>5 DEF IInv

\* An order that leaves the inbound states, or is put back among them, has not
\* been open all along.
LEMMA OrderProgress ==
    ASSUME TypeOK, NEW k \in Plans, NEW p \in Products, OrderGone(k, p) \/ OrderBack(k, p)
    PROVE  /\ ordered' \in [Plans -> [Products -> {"none", "open", "gone", "back"}]]
           /\ \A j \in Plans, q \in Products :
                /\ ordered'[j][q] = "none" <=> ordered[j][q] = "none"
                /\ ordered'[j][q] = "open" => ordered[j][q] = "open"
<1>1. ordered[k][p] # "none"
    BY DEF OrderGone, OrderBack, Inbound
<1>2. PICK v \in {"gone", "back"} : ordered' = [ordered EXCEPT ![k][p] = v]
    BY DEF OrderGone, OrderBack
<1>3. ordered \in [Plans -> [Products -> {"none", "open", "gone", "back"}]]
    BY DEF TypeOK
<1> QED
    BY <1>1, <1>2, <1>3

LEMMA OrderProgressPreserves ==
    ASSUME IInv, NEW k \in Plans, NEW p \in Products, OrderGone(k, p) \/ OrderBack(k, p)
    PROVE  IInv'
<1>1. UNCHANGED <<plan, line, inputs, alert, resume, sess>>
    BY DEF OrderGone, OrderBack, evidence
<1>2. /\ ordered' \in [Plans -> [Products -> {"none", "open", "gone", "back"}]]
      /\ \A j \in Plans, q \in Products :
           /\ ordered'[j][q] = "none" <=> ordered[j][q] = "none"
           /\ ordered'[j][q] = "open" => ordered[j][q] = "open"
    BY OrderProgress DEF IInv
<1>3. TypeOK'
    BY <1>1, <1>2 DEF IInv, TypeOK
<1>4. LocksExclusive' /\ \A g \in Procs : SessionSound(g)'
  <2>1. \A g \in Procs : sess[g].held \subseteq Products
      BY DEF IInv, TypeOK, SessionType
  <2>2. SessionsUndisturbed
      BY <1>1, <1>2, <2>1 DEF SessionsUndisturbed, OpenSince
  <2> QED
      BY <1>1, <2>2, OthersStaySound DEF RowsOnlyShrink, Exists
<1>5. RowsConsistent' /\ OneActiveLine' /\ OrderedIsReleased' /\ DecisionIsDelivered'
    BY <1>1, <1>2 DEF IInv, RowsConsistent, OneActiveLine, OrderedIsReleased,
                      DecisionIsDelivered, Exists
<1>6. EndedPlanIsReleased' /\ PlanHasLines'
    BY <1>1 DEF IInv, EndedPlanIsReleased, ActiveLines, PlanHasLines, Exists
<1> QED
    BY <1>3, <1>4, <1>5, <1>6 DEF IInv

----------------------------------------------------------------------------
(* Commits that rewrite one plan and its lines *)

LEMMA ReleasedLine ==
    ASSUME NEW l \in LineType
    PROVE  /\ Release(l) \in LineType
           /\ ~Release(l).active
           /\ Release(l).flag = l.flag /\ Release(l).basis = l.basis
BY DEF LineType, Release

LEMMA ExcludedLine ==
    ASSUME NEW l \in LineType
    PROVE  /\ Exclude(l) \in LineType
           /\ ~Exclude(l).active
           /\ Exclude(l).flag = "excluded" /\ Exclude(l).basis = l.basis
BY DEF LineType, Exclude

\* L is what a commit may make of the lines of plan k.
Shrinks(L, k) ==
    /\ L \in [Products -> LineType]
    /\ \A p \in Products :
        /\ L[p].active => line[k][p].active
        /\ L[p].flag = "valid" => line[k][p].flag = "valid"
        /\ L[p].active => L[p].flag = "valid"
        /\ L[p].basis = line[k][p].basis
        /\ line[k][p].flag # "none" => L[p].flag # "none"

LEMMA LinesOfPlan ==
    ASSUME IInv, NEW k \in Plans
    PROVE  \A p \in Products :
             line[k][p] \in LineType /\ (line[k][p].active => line[k][p].flag = "valid")
BY DEF IInv, TypeOK, RowsConsistent

LEMMA OldLinesShrink ==
    ASSUME IInv, NEW h \in Procs, sess[h].plan \in Plans
    PROVE  Shrinks(OldLines(h), sess[h].plan) /\ \A p \in Products : ~OldLines(h)[p].active
<1>1. \A p \in Products : line[sess[h].plan][p] \in LineType
    BY LinesOfPlan
<1>2. \A p \in Products : OldLines(h)[p] = Release(line[sess[h].plan][p])
    BY DEF OldLines
<1>3. OldLines(h) \in [Products -> LineType]
    BY <1>1, ReleasedLine DEF OldLines
<1> QED
    BY <1>1, <1>2, <1>3, ReleasedLine DEF Shrinks

LEMMA DecidedLinesShrink ==
    ASSUME IInv, NEW h \in Procs, sess[h].plan \in Plans
    PROVE  /\ Shrinks(DecidedLines(h), sess[h].plan)
           /\ \A p \in sess[h].want \ sess[h].prods : ~DecidedLines(h)[p].active
<1>1. \A p \in Products :
        line[sess[h].plan][p] \in LineType
        /\ (line[sess[h].plan][p].active => line[sess[h].plan][p].flag = "valid")
    BY LinesOfPlan
<1>2. \A p \in Products :
        DecidedLines(h)[p] = IF p \in sess[h].want \ sess[h].prods
                             THEN Exclude(line[sess[h].plan][p]) ELSE line[sess[h].plan][p]
    BY DEF DecidedLines
<1>3. DecidedLines(h) \in [Products -> LineType]
    BY <1>1, ExcludedLine DEF DecidedLines
<1>4. \A p \in Products : p \in sess[h].want \ sess[h].prods => ~DecidedLines(h)[p].active
    BY <1>1, <1>2, ExcludedLine
<1>5. sess[h].want \subseteq Products
    BY DEF IInv, TypeOK, SessionType
<1>6. Shrinks(DecidedLines(h), sess[h].plan)
    BY <1>1, <1>2, <1>3, ExcludedLine DEF Shrinks
<1> QED
    BY <1>4, <1>5, <1>6

LEMMA ReleaseOrderedShrinks ==
    ASSUME IInv, NEW h \in Procs, sess[h].plan \in Plans
    PROVE  /\ Shrinks(ReleaseOrdered(h), sess[h].plan)
           /\ \A p \in Purchasable(h) : ~ReleaseOrdered(h)[p].active
<1>1. \A p \in Products :
        line[sess[h].plan][p] \in LineType
        /\ (line[sess[h].plan][p].active => line[sess[h].plan][p].flag = "valid")
    BY LinesOfPlan
<1>2. \A p \in Products :
        ReleaseOrdered(h)[p] = IF p \in Purchasable(h)
                               THEN Release(line[sess[h].plan][p]) ELSE line[sess[h].plan][p]
    BY DEF ReleaseOrdered
<1>3. ReleaseOrdered(h) \in [Products -> LineType]
    BY <1>1, ReleasedLine DEF ReleaseOrdered
<1>4. \A p \in Products : p \in Purchasable(h) => ~ReleaseOrdered(h)[p].active
    BY <1>1, <1>2, ReleasedLine
<1>5. sess[h].want \subseteq Products
    BY DEF IInv, TypeOK, SessionType
<1>6. Shrinks(ReleaseOrdered(h), sess[h].plan)
    BY <1>1, <1>2, <1>3, ReleasedLine DEF Shrinks
<1> QED
    BY <1>4, <1>5, <1>6 DEF Purchasable

Versions == Nat \ {0}

\* The row a command writes for its plan: a plan that exists stays one.
LEMMA RewrittenPlan ==
    ASSUME NEW r \in PlanType, NEW status \in PlanStatus, NEW w \in Versions
    PROVE  /\ [r EXCEPT !.status = status, !.version = w] \in PlanType
           /\ [r EXCEPT !.status = status, !.version = w].status = status
           /\ [r EXCEPT !.status = status, !.version = w].thread = r.thread
BY DEF PlanType, Versions

LEMMA ReversionedPlan ==
    ASSUME NEW r \in PlanType, NEW w \in Versions
    PROVE  /\ [r EXCEPT !.version = w] \in PlanType
           /\ [r EXCEPT !.version = w].status = r.status
           /\ [r EXCEPT !.version = w].thread = r.thread
BY DEF PlanType, Versions

LEMMA ExistingPlan == ASSUME TypeOK, NEW k \in Plans, Exists(k) PROVE plan[k] \in PlanType
BY DEF TypeOK, Exists, NoPlan

LEMMA RewriteType ==
    ASSUME IInv, NEW h \in Procs, NEW status \in PlanStatus, OnPlan(h)
    PROVE  /\ sess[h].plan \in Plans /\ Exists(sess[h].plan)
           /\ Rewrite(h, status) \in PlanType
           /\ Rewrite(h, status).status = status
           /\ Rewrite(h, status).thread = plan[sess[h].plan].thread
<1>1. sess[h].plan \in Plans /\ Exists(sess[h].plan) /\ SessionSound(h)
    BY DEF IInv, SessionSound
<1> DEFINE r == plan[sess[h].plan]
           w == sess[h].seen + 1
<1>2. r \in PlanType /\ sess[h].seen \in Nat
    BY <1>1, ExistingPlan DEF IInv, TypeOK, SessionType
<1>3. Rewrite(h, status) = [r EXCEPT !.status = status, !.version = w]
    BY DEF Rewrite
<1>a. w \in Versions
    BY <1>2 DEF Versions
<1>4. r.thread = plan[sess[h].plan].thread
    OBVIOUS
<1> HIDE DEF r, w
<1>5. /\ [r EXCEPT !.status = status, !.version = w] \in PlanType
      /\ [r EXCEPT !.status = status, !.version = w].status = status
      /\ [r EXCEPT !.status = status, !.version = w].thread = r.thread
    BY <1>2, <1>a, RewrittenPlan
<1> QED
    BY <1>1, <1>3, <1>4, <1>5

\* What every command that rewrites a plan and its lines leaves intact.
LEMMA OnePlanRewritten ==
    ASSUME IInv, NEW k \in Plans, Exists(k), NEW row \in PlanType, NEW L, Shrinks(L, k),
           plan' = [plan EXCEPT ![k] = row], line' = [line EXCEPT ![k] = L]
    PROVE  /\ plan' \in [Plans -> PlanType \cup {NoPlan}]
           /\ line' \in [Plans -> [Products -> LineType]]
           /\ RowsOnlyShrink
           /\ \A j \in Plans, p \in Products :
                line'[j][p].active => line[j][p].active /\ line'[j][p].flag = "valid"
           /\ \A j \in Plans : Exists(j)' <=> Exists(j)
           /\ OneActiveLine' /\ PlanHasLines'
<1>1. plan \in [Plans -> PlanType \cup {NoPlan}] /\ line \in [Plans -> [Products -> LineType]]
    BY DEF IInv, TypeOK
<1>2. plan' \in [Plans -> PlanType \cup {NoPlan}] /\ line' \in [Plans -> [Products -> LineType]]
    BY <1>1 DEF Shrinks
<1>3. /\ plan'[k] = row /\ line'[k] = L
      /\ \A j \in Plans \ {k} : plan'[j] = plan[j] /\ line'[j] = line[j]
    BY <1>1
<1>4. row.status # "none"
    BY DEF PlanType, PlanStatus
<1>5. \A j \in Plans : Exists(j)' <=> Exists(j)
    BY <1>3, <1>4 DEF Exists
<1>6. \A j \in Plans, p \in Products :
        /\ line'[j][p].active => line[j][p].active /\ line'[j][p].flag = "valid"
        /\ line'[j][p].flag = "valid" => line[j][p].flag = "valid"
        /\ line'[j][p].basis = line[j][p].basis
        /\ line[j][p].flag # "none" => line'[j][p].flag # "none"
  <2>1. \A p \in Products :
          /\ L[p].active => line[k][p].active /\ L[p].flag = "valid"
          /\ L[p].flag = "valid" => line[k][p].flag = "valid"
          /\ L[p].basis = line[k][p].basis
          /\ line[k][p].flag # "none" => L[p].flag # "none"
      BY DEF Shrinks
  <2>2. \A j \in Plans \ {k}, p \in Products : line[j][p].active => line[j][p].flag = "valid"
      BY LinesOfPlan
  <2> QED
      BY <1>3, <2>1, <2>2
<1>7. RowsOnlyShrink
    BY <1>5, <1>6 DEF RowsOnlyShrink
<1>8. OneActiveLine' /\ PlanHasLines'
    BY <1>5, <1>6 DEF IInv, OneActiveLine, PlanHasLines
<1> QED
    BY <1>2, <1>5, <1>6, <1>7, <1>8

\* A decision writes the status, the lines and the resume row at once.
LEMMA DecisionPreserves ==
    ASSUME IInv, NEW h \in Procs, NEW status \in {"approved", "rejected"}, OnPlan(h),
           Decide(h, status), NEW L, Shrinks(L, sess[h].plan),
           line' = [line EXCEPT ![sess[h].plan] = L],
           status = "rejected" => \A p \in Products : ~L[p].active
    PROVE  IInv'
<1> DEFINE k == sess[h].plan
           row == Rewrite(h, status)
<1>1. /\ k \in Plans /\ Exists(k)
      /\ row \in PlanType /\ row.status = status /\ row.thread = plan[k].thread
    BY RewriteType DEF PlanStatus
<1>2. /\ plan' = [plan EXCEPT ![k] = row]
      /\ resume' = resume \cup ResumeAfter(h, status)
      /\ Go(h, IdleSession) /\ UNCHANGED <<ordered, inputs, alert>>
    BY DEF Decide, evidence
<1>3. /\ plan' \in [Plans -> PlanType \cup {NoPlan}]
      /\ line' \in [Plans -> [Products -> LineType]]
      /\ RowsOnlyShrink
      /\ \A j \in Plans, p \in Products :
           line'[j][p].active => line[j][p].active /\ line'[j][p].flag = "valid"
      /\ \A j \in Plans : Exists(j)' <=> Exists(j)
      /\ OneActiveLine' /\ PlanHasLines'
  <2>1. Shrinks(L, k) /\ line' = [line EXCEPT ![k] = L]
      OBVIOUS
  <2> HIDE DEF k, row
  <2> QED
      BY <1>1, <1>2, <2>1, OnePlanRewritten
<1>4. /\ plan'[k] = row /\ line'[k] = L
      /\ \A j \in Plans \ {k} : plan'[j] = plan[j] /\ line'[j] = line[j]
    BY <1>1, <1>2 DEF IInv, TypeOK
<1>5. sess' \in [Procs -> SessionType]
    BY <1>2, CommitEndsSession DEF IInv
<1>6. /\ resume \subseteq resume' /\ resume' \subseteq [plan : Plans, version : Nat]
      /\ plan[k].thread => \E r \in resume' : r.plan = k
  <2>1. sess[h].seen \in Nat
      BY DEF IInv, TypeOK, SessionType
  <2> DEFINE x == [plan |-> k, version |-> sess[h].seen + 1]
  <2>2. x \in [plan : Plans, version : Nat] /\ x.plan = k
      BY <1>1, <2>1
  <2>3. resume' = resume \cup (IF plan[k].thread THEN {x} ELSE {})
      BY <1>2 DEF ResumeAfter, ResumeRow
  <2>4. resume \subseteq [plan : Plans, version : Nat]
      BY DEF IInv, TypeOK
  <2> HIDE DEF x, k
  <2> QED
      BY <2>2, <2>3, <2>4
<1>7. TypeOK'
    BY <1>2, <1>3, <1>5, <1>6 DEF IInv, TypeOK
<1>8. LocksExclusive' /\ \A g \in Procs : SessionSound(g)'
    BY <1>2, <1>3, CommitIsUndisturbing, OthersStaySound DEF IInv
<1>9. RowsConsistent' /\ OrderedIsReleased'
    BY <1>2, <1>3 DEF IInv, RowsConsistent, OrderedIsReleased
<1>10. DecisionIsDelivered'
  <2> SUFFICES ASSUME NEW j \in Plans, plan'[j].thread,
                      plan'[j].status \in {"approved", "rejected"}
               PROVE  \E r \in resume' : r.plan = j
      BY DEF DecisionIsDelivered
  <2>1. CASE j = k
      BY <1>1, <1>4, <1>6, <2>1
  <2>2. CASE j # k
    <3>1. \E r \in resume : r.plan = j
        BY <1>4, <2>2 DEF IInv, DecisionIsDelivered
    <3> QED
        BY <1>6, <3>1
  <2> QED
      BY <2>1, <2>2
<1>11. EndedPlanIsReleased'
  <2> SUFFICES ASSUME NEW j \in Plans, plan'[j].status \in {"rejected", "superseded"},
                      NEW p \in Products, line'[j][p].active
               PROVE  FALSE
      BY DEF EndedPlanIsReleased, ActiveLines
  <2>1. CASE j = k
    <3>1. status = "rejected" /\ L[p].active
        BY <1>1, <1>4, <2>1
    <3> QED
        BY <3>1
  <2>2. CASE j # k
    <3>1. plan[j].status \in {"rejected", "superseded"} /\ line[j][p].active
        BY <1>4, <2>2
    <3> QED
        BY <3>1 DEF IInv, EndedPlanIsReleased, ActiveLines
  <2> QED
      BY <2>1, <2>2
<1> QED
    BY <1>3, <1>7, <1>8, <1>9, <1>10, <1>11 DEF IInv

LEMMA RejectCommitPreserves == ASSUME IInv, NEW h \in Procs, RejectCommit(h) PROVE IInv'
<1>1. OnPlan(h) /\ Decide(h, "rejected") /\ line' = [line EXCEPT ![sess[h].plan] = OldLines(h)]
    BY DEF RejectCommit, At, OnPlan
<1>2. sess[h].plan \in Plans
    BY <1>1, RewriteType DEF PlanStatus
<1>3. Shrinks(OldLines(h), sess[h].plan) /\ \A p \in Products : ~OldLines(h)[p].active
    BY <1>2, OldLinesShrink
<1> QED
    BY <1>1, <1>3, DecisionPreserves

\* When no line is approved, every line that was valid is excluded: a line that
\* is active is valid, and a valid line was so when the command read the lines.
LEMMA ApproveCommitPreserves == ASSUME IInv, NEW h \in Procs, ApproveCommit(h) PROVE IInv'
<1> DEFINE status == Outcome(sess[h].prods)
           L == DecidedLines(h)
<1>1. /\ OnPlan(h) /\ At(h, "decide", "checked")
      /\ Decide(h, status) /\ line' = [line EXCEPT ![sess[h].plan] = L]
    BY DEF ApproveCommit, At, OnPlan
<1>2. sess[h].plan \in Plans
    BY <1>1, RewriteType DEF PlanStatus
<1>3. Shrinks(L, sess[h].plan) /\ \A p \in sess[h].want \ sess[h].prods : ~L[p].active
    BY <1>2, DecidedLinesShrink
<1>4. status \in {"approved", "rejected"} /\ (status = "rejected" => sess[h].prods = {})
    BY DEF Outcome
<1>5. ValidLines(sess[h].plan) \subseteq sess[h].want
    BY <1>1 DEF IInv, SessionSound
<1>6. ASSUME status = "rejected", NEW p \in Products PROVE ~L[p].active
  <2>1. CASE p \in sess[h].want
      BY <1>3, <1>4, <1>6, <2>1
  <2>2. CASE p \notin sess[h].want
    <3>1. line[sess[h].plan][p].flag # "valid"
        BY <1>5, <2>2 DEF ValidLines
    <3> QED
        BY <1>3, <3>1 DEF Shrinks
  <2> QED
      BY <2>1, <2>2
<1> HIDE DEF status, L
<1> QED
    BY <1>1, <1>3, <1>4, <1>6, DecisionPreserves

\* The orders go to the products checked under the locks, which no other session
\* can hold; the status is not written.
LEMMA CreateCommitPreserves == ASSUME IInv, NEW h \in Procs, CreateCommit(h) PROVE IInv'
<1> DEFINE k == sess[h].plan
           Q == Purchasable(h)
           L == ReleaseOrdered(h)
           w == sess[h].seen + 1
           row == [plan[k] EXCEPT !.version = w]
<1>1. /\ At(h, "create", "checked") /\ Go(h, IdleSession)
      /\ plan' = [plan EXCEPT ![k] = row] /\ line' = [line EXCEPT ![k] = L]
      /\ ordered' = [ordered EXCEPT ![k] =
                       [p \in Products |-> IF p \in Q THEN "open" ELSE ordered[k][p]]]
      /\ UNCHANGED <<inputs, alert, resume>>
    BY DEF CreateCommit, evidence
<1>2. k \in Plans /\ Exists(k)
    BY <1>1 DEF IInv, SessionSound, OnPlan, At
<1>3. sess[h].seen \in Nat /\ Q \subseteq Products /\ plan[k] \in PlanType
    BY <1>2, ExistingPlan DEF IInv, TypeOK, SessionType, Purchasable
<1>4. row \in PlanType /\ row.status = plan[k].status /\ row.thread = plan[k].thread
  <2> DEFINE r == plan[k]
  <2>1. w \in Versions /\ r \in PlanType
      BY <1>3 DEF Versions
  <2>2. row = [r EXCEPT !.version = w]
      OBVIOUS
  <2> HIDE DEF r, w, row
  <2>3. row \in PlanType /\ row.status = r.status /\ row.thread = r.thread
      BY <2>1, <2>2, ReversionedPlan
  <2> QED
      BY <2>3 DEF r
<1>5. Shrinks(L, k) /\ \A p \in Q : ~L[p].active
    BY <1>2, ReleaseOrderedShrinks
<1>6. /\ plan' \in [Plans -> PlanType \cup {NoPlan}]
      /\ line' \in [Plans -> [Products -> LineType]]
      /\ RowsOnlyShrink
      /\ \A j \in Plans, p \in Products :
           line'[j][p].active => line[j][p].active /\ line'[j][p].flag = "valid"
      /\ \A j \in Plans : Exists(j)' <=> Exists(j)
      /\ OneActiveLine' /\ PlanHasLines'
  <2> HIDE DEF k, row, L
  <2> QED
      BY <1>1, <1>2, <1>4, <1>5, OnePlanRewritten
<1>7. /\ plan'[k] = row /\ line'[k] = L
      /\ \A j \in Plans \ {k} : plan'[j] = plan[j]
    BY <1>1, <1>2 DEF IInv, TypeOK
<1>8. /\ ordered' \in [Plans -> [Products -> {"none", "open", "gone", "back"}]]
      /\ \A p \in Products : ordered'[k][p] = IF p \in Q THEN "open" ELSE ordered[k][p]
      /\ \A j \in Plans \ {k} : ordered'[j] = ordered[j]
  <2>1. ordered \in [Plans -> [Products -> {"none", "open", "gone", "back"}]]
      BY DEF IInv, TypeOK
  <2> HIDE DEF k, Q
  <2> QED
      BY <1>1, <1>2, <2>1
<1>9. TypeOK'
  <2>1. sess' \in [Procs -> SessionType]
      BY <1>1, CommitEndsSession DEF IInv
  <2> QED
      BY <1>1, <1>6, <1>8, <2>1 DEF IInv, TypeOK
<1>10. LocksExclusive' /\ \A g \in Procs : SessionSound(g)'
  <2>1. Q \subseteq sess[h].held
      BY <1>1 DEF IInv, SessionSound, Purchasable
  <2>2. ASSUME NEW g \in Procs \ {h}, NEW p \in sess[g].held
        PROVE  OpenSince(p)' \subseteq OpenSince(p)
    <3>1. p \in Products /\ p \notin Q
        BY <2>1 DEF IInv, TypeOK, SessionType, LocksExclusive
    <3>2. \A j \in Plans : ordered'[j][p] = ordered[j][p]
        BY <1>8, <3>1
    <3> QED
        BY <3>2 DEF OpenSince
  <2>3. SessionsUndisturbed
      BY <1>1, <2>2, CommitEndsSession DEF IInv, SessionsUndisturbed
  <2> QED
      BY <1>6, <2>3, OthersStaySound
<1>11. RowsConsistent'
  <2> SUFFICES ASSUME NEW j \in Plans, NEW p \in Products
               PROVE  /\ line'[j][p].active => line'[j][p].flag = "valid"
                      /\ ordered'[j][p] # "none" => Exists(j)'
      BY DEF RowsConsistent
  <2>1. ordered'[j][p] # "none" => Exists(j)
      BY <1>2, <1>8 DEF IInv, RowsConsistent
  <2> QED
      BY <1>6, <2>1
<1>12. OrderedIsReleased'
  <2> SUFFICES ASSUME NEW j \in Plans, NEW p \in Products, ordered'[j][p] # "none"
               PROVE  ~line'[j][p].active
      BY DEF OrderedIsReleased
  <2>1. CASE j = k /\ p \in Q
      BY <1>5, <1>7, <2>1
  <2>2. CASE ~(j = k /\ p \in Q)
    <3>1. ordered[j][p] # "none"
        BY <1>8, <2>2
    <3> QED
        BY <1>6, <3>1 DEF IInv, OrderedIsReleased
  <2> QED
      BY <2>1, <2>2
<1>13. \A j \in Plans : plan'[j].status = plan[j].status /\ plan'[j].thread = plan[j].thread
    BY <1>4, <1>7
<1>14. DecisionIsDelivered'
    BY <1>1, <1>13 DEF IInv, DecisionIsDelivered
<1>15. EndedPlanIsReleased'
    BY <1>6, <1>13 DEF IInv, EndedPlanIsReleased, ActiveLines
<1> QED
    BY <1>6, <1>9, <1>10, <1>11, <1>12, <1>14, <1>15 DEF IInv

----------------------------------------------------------------------------
(* Commits that add a plan *)

LEMMA AddedPlanType ==
    ASSUME NEW thread \in BOOLEAN, NEW revises \in {0} \cup Plans
    PROVE  /\ NewPlanRow(thread, revises) \in PlanType
           /\ NewPlanRow(thread, revises).status = "pending_approval"
BY DEF NewPlanRow, PlanType, PlanStatus

LEMMA AddedLines ==
    ASSUME TypeOK, NEW h \in Procs, NEW Q \in SUBSET Products
    PROVE  /\ NewLines(h, Q) \in [Products -> LineType]
           /\ \A p \in Products :
                /\ NewLines(h, Q)[p].active <=> p \in Q
                /\ NewLines(h, Q)[p].flag = "valid" <=> p \in Q
<1> DEFINE new(p) == [flag |-> "valid", active |-> TRUE, basis |-> sess[h].basis[p]]
<1>1. \A p \in Products : sess[h].basis[p] \in BasisType
    BY DEF TypeOK, SessionType
<1>2. \A p \in Products :
        new(p) \in LineType /\ new(p).active = TRUE /\ new(p).flag = "valid"
    BY <1>1 DEF LineType
<1>3. NewLines(h, Q) = [p \in Products |-> IF p \in Q THEN new(p) ELSE NoLine]
    BY DEF NewLines
<1>4. NoLine \in LineType /\ NoLine.active = FALSE /\ NoLine.flag = "none"
    BY NoLineIsLine DEF NoLine
<1> HIDE DEF new
<1> QED
    BY <1>2, <1>3, <1>4

\* A new plan is inserted for products that nothing else suggests; another plan
\* may be superseded in the same transaction.
LEMMA PlanAdded ==
    ASSUME IInv, NEW h \in Procs, Go(h, IdleSession),
           NEW k \in Plans, ~Exists(k), NEW Q \in SUBSET Products, Q # {},
           plan' \in [Plans -> PlanType \cup {NoPlan}],
           line' \in [Plans -> [Products -> LineType]],
           plan'[k].status = "pending_approval", line'[k] = NewLines(h, Q),
           \A j \in Plans \ {k} :
             /\ Exists(j)' <=> Exists(j)
             /\ Shrinks(line'[j], j)
             /\ \/ plan'[j] = plan[j]
                \/ plan'[j].status = "superseded" /\ \A p \in Products : ~line'[j][p].active,
           \A p \in Q, j \in Plans \ {k} : ~line'[j][p].active,
           alert' \subseteq Products, UNCHANGED <<ordered, inputs, resume>>
    PROVE  IInv'
<1>1. \A p \in Products :
        /\ line'[k][p].active <=> p \in Q
        /\ line'[k][p].flag = "valid" <=> p \in Q
    BY AddedLines DEF IInv
<1>2. \A j \in Plans \ {k}, p \in Products :
        /\ line'[j][p].active => line[j][p].active /\ line'[j][p].flag = "valid"
        /\ line'[j][p].flag = "valid" => line[j][p].flag = "valid"
        /\ line'[j][p].basis = line[j][p].basis
        /\ line[j][p].flag # "none" => line'[j][p].flag # "none"
    BY DEF Shrinks
<1>3. Exists(k)'
    BY DEF Exists
<1>4. RowsOnlyShrink
    BY <1>2 DEF RowsOnlyShrink
<1>5. TypeOK'
  <2>1. sess' \in [Procs -> SessionType]
      BY CommitEndsSession DEF IInv
  <2> QED
      BY <2>1 DEF IInv, TypeOK
<1>6. LocksExclusive' /\ \A g \in Procs : SessionSound(g)'
    BY <1>4, CommitIsUndisturbing, OthersStaySound DEF IInv
<1>7. RowsConsistent'
  <2> SUFFICES ASSUME NEW j \in Plans, NEW p \in Products
               PROVE  /\ line'[j][p].active => line'[j][p].flag = "valid"
                      /\ ordered'[j][p] # "none" => Exists(j)'
      BY DEF RowsConsistent
  <2>1. ordered'[j][p] # "none" => Exists(j)
      BY DEF IInv, RowsConsistent
  <2> QED
      BY <1>1, <1>2, <1>3, <2>1
<1>8. OneActiveLine'
  <2> SUFFICES ASSUME NEW p \in Products, NEW i \in Plans, NEW j \in Plans,
                      line'[i][p].active, line'[j][p].active
               PROVE  i = j
      BY DEF OneActiveLine
  <2> QED
      BY <1>1, <1>2 DEF IInv, OneActiveLine
<1>9. OrderedIsReleased'
  <2> SUFFICES ASSUME NEW j \in Plans, NEW p \in Products, ordered[j][p] # "none"
               PROVE  ~line'[j][p].active
      BY DEF OrderedIsReleased
  <2>1. j # k
      BY DEF IInv, RowsConsistent
  <2> QED
      BY <1>2, <2>1 DEF IInv, OrderedIsReleased
<1>10. DecisionIsDelivered'
    BY DEF IInv, DecisionIsDelivered
<1>11. EndedPlanIsReleased'
  <2> SUFFICES ASSUME NEW j \in Plans, plan'[j].status \in {"rejected", "superseded"},
                      NEW p \in Products, line'[j][p].active
               PROVE  FALSE
      BY DEF EndedPlanIsReleased, ActiveLines
  <2>1. j # k
      OBVIOUS
  <2>2. plan'[j] = plan[j] /\ line[j][p].active
      BY <1>2, <2>1
  <2> QED
      BY <2>2 DEF IInv, EndedPlanIsReleased, ActiveLines
<1>12. PlanHasLines'
  <2> SUFFICES ASSUME NEW j \in Plans, Exists(j)'
               PROVE  \E p \in Products : line'[j][p].flag # "none"
      BY DEF PlanHasLines
  <2>1. CASE j = k
      BY <1>1, <2>1
  <2>2. CASE j # k
    <3>1. Exists(j)
        BY <2>2
    <3> QED
        BY <1>2, <2>2, <3>1 DEF IInv, PlanHasLines
  <2> QED
      BY <2>1, <2>2
<1> QED
    BY <1>5, <1>6, <1>7, <1>8, <1>9, <1>10, <1>11, <1>12 DEF IInv

\* Lines that no command touches.
LEMMA SameLinesShrink == ASSUME IInv, NEW k \in Plans PROVE Shrinks(line[k], k)
BY LinesOfPlan DEF IInv, TypeOK, Shrinks

LEMMA OnlyPlanAdded ==
    ASSUME IInv, NEW h \in Procs, Go(h, IdleSession),
           NEW k \in Plans, NextPlan(k), NEW Q \in SUBSET Products, Q # {}, Insertable(Q, 0),
           NEW thread \in BOOLEAN,
           plan' = [plan EXCEPT ![k] = NewPlanRow(thread, 0)],
           line' = [line EXCEPT ![k] = NewLines(h, Q)],
           alert' \subseteq Products, UNCHANGED <<ordered, inputs, resume>>
    PROVE  IInv'
<1>1. ~Exists(k)
    BY DEF NextPlan
<1>2. /\ plan' \in [Plans -> PlanType \cup {NoPlan}]
      /\ line' \in [Plans -> [Products -> LineType]]
    BY AddedPlanType, AddedLines DEF IInv, TypeOK
<1>3. /\ plan'[k].status = "pending_approval" /\ line'[k] = NewLines(h, Q)
      /\ \A j \in Plans \ {k} : plan'[j] = plan[j] /\ line'[j] = line[j]
    BY AddedPlanType DEF IInv, TypeOK
<1>4. \A j \in Plans \ {k} : (Exists(j)' <=> Exists(j)) /\ Shrinks(line'[j], j)
    BY <1>3, SameLinesShrink DEF Exists
<1>5. \A p \in Q, j \in Plans \ {k} : ~line'[j][p].active
    BY <1>3 DEF Insertable, ActiveElsewhere, Plans
<1> QED
    BY <1>1, <1>2, <1>3, <1>4, <1>5, PlanAdded

LEMMA DraftCommitPreserves == ASSUME IInv, NEW h \in Procs, DraftCommit(h) PROVE IInv'
<1>1. PICK Q \in (SUBSET sess[h].prods) \ {{}}, k \in Plans :
        /\ NextPlan(k)
        /\ Insertable(Q, 0)
        /\ plan' = [plan EXCEPT ![k] = NewPlanRow(TRUE, 0)]
        /\ line' = [line EXCEPT ![k] = NewLines(h, Q)]
        /\ alert' = alert \cup (sess[h].prods \ Q)
    BY DEF DraftCommit
<1>2. Go(h, IdleSession) /\ UNCHANGED <<ordered, inputs, resume>>
    BY DEF DraftCommit
<1>3. sess[h].prods \subseteq Products
    BY DEF IInv, TypeOK, SessionType
<1>4. Q \in SUBSET Products /\ Q # {} /\ alert' \subseteq Products
  <2>1. alert \subseteq Products
      BY DEF IInv, TypeOK
  <2>2. alert' = alert \cup (sess[h].prods \ Q)
      BY <1>1
  <2> QED
      BY <1>3, <2>1, <2>2
<1>5. TRUE \in BOOLEAN
    OBVIOUS
<1> QED
    BY <1>1, <1>2, <1>4, <1>5, OnlyPlanAdded

LEMMA ScanCommitPreserves == ASSUME IInv, NEW h \in Procs, ScanCommit(h) PROVE IInv'
<1> DEFINE Q == {p \in sess[h].prods : Insertable({p}, 0)}
<1>1. Go(h, IdleSession) /\ UNCHANGED <<ordered, inputs, resume>>
    BY DEF ScanCommit
<1>2. sess[h].prods \subseteq Products
    BY DEF IInv, TypeOK, SessionType
<1>3. Q \in SUBSET Products /\ alert' \subseteq Products
    BY <1>2 DEF ScanCommit, IInv, TypeOK
<1>4. CASE UNCHANGED <<plan, line>>
    BY <1>1, <1>3, <1>4, AlertingPreserves
<1>5. CASE /\ Q # {}
           /\ \E k \in Plans :
                /\ NextPlan(k)
                /\ plan' = [plan EXCEPT ![k] = NewPlanRow(FALSE, 0)]
                /\ line' = [line EXCEPT ![k] = NewLines(h, Q)]
  <2>1. Insertable(Q, 0)
      BY DEF Insertable
  <2>2. FALSE \in BOOLEAN
      OBVIOUS
  <2>3. PICK k \in Plans :
          /\ NextPlan(k)
          /\ plan' = [plan EXCEPT ![k] = NewPlanRow(FALSE, 0)]
          /\ line' = [line EXCEPT ![k] = NewLines(h, Q)]
      BY <1>5
  <2> HIDE DEF Q
  <2> QED
      BY <1>1, <1>3, <1>5, <2>1, <2>2, <2>3, OnlyPlanAdded
<1> QED
    BY <1>4, <1>5 DEF ScanCommit, KeepScanPlan

\* One transaction releases and supersedes the old plan and adds the revision.
LEMMA SupersedeCommitPreserves ==
    ASSUME IInv, NEW h \in Procs, SupersedeCommit(h) PROVE IInv'
<1> DEFINE old == sess[h].plan
           row == Rewrite(h, "superseded")
           L == OldLines(h)
<1>1. PICK Q \in (SUBSET sess[h].prods) \ {{}}, k \in Plans :
        /\ NextPlan(k)
        /\ Insertable(Q, old)
        /\ plan' = [plan EXCEPT ![old] = row, ![k] = NewPlanRow(plan[old].thread, old)]
        /\ line' = [line EXCEPT ![old] = L, ![k] = NewLines(h, Q)]
        /\ alert' = alert \cup (sess[h].prods \ Q)
    BY DEF SupersedeCommit
<1>2. Go(h, IdleSession) /\ UNCHANGED <<ordered, inputs, resume>> /\ OnPlan(h)
    BY DEF SupersedeCommit, OnPlan, At
<1>3. sess[h].prods \subseteq Products
    BY DEF IInv, TypeOK, SessionType
<1>4. Q \in SUBSET Products /\ Q # {} /\ alert' \subseteq Products /\ ~Exists(k)
  <2>1. alert \subseteq Products
      BY DEF IInv, TypeOK
  <2>2. ~Exists(k)
      BY <1>1 DEF NextPlan
  <2>3. alert' = alert \cup (sess[h].prods \ Q)
      BY <1>1
  <2> QED
      BY <1>3, <2>1, <2>2, <2>3
<1>5. /\ old \in Plans /\ Exists(old)
      /\ row \in PlanType /\ row.status = "superseded"
    BY <1>2, RewriteType DEF PlanStatus
<1>6. plan[old].thread \in BOOLEAN
    BY <1>5, ExistingPlan DEF IInv, PlanType
<1>7. Shrinks(L, old) /\ \A p \in Products : ~L[p].active
    BY <1>5, OldLinesShrink
<1>8. /\ NewPlanRow(plan[old].thread, old) \in PlanType
      /\ NewPlanRow(plan[old].thread, old).status = "pending_approval"
      /\ NewLines(h, Q) \in [Products -> LineType]
  <2>1. old \in {0} \cup Plans /\ TypeOK
      BY <1>5 DEF IInv
  <2> HIDE DEF old
  <2> QED
      BY <1>4, <1>6, <2>1, AddedPlanType, AddedLines
<1>9. old # k
    BY <1>4, <1>5
<1>10. /\ plan \in [Plans -> PlanType \cup {NoPlan}]
       /\ line \in [Plans -> [Products -> LineType]]
       /\ L \in [Products -> LineType]
    BY <1>7 DEF IInv, TypeOK, Shrinks
<1> HIDE DEF old, row, L
<1>11. /\ plan' \in [Plans -> PlanType \cup {NoPlan}]
       /\ line' \in [Plans -> [Products -> LineType]]
    BY <1>1, <1>5, <1>8, <1>10
<1>12. /\ plan'[k].status = "pending_approval" /\ line'[k] = NewLines(h, Q)
       /\ plan'[old] = row /\ line'[old] = L
       /\ \A j \in Plans \ {k, old} : plan'[j] = plan[j] /\ line'[j] = line[j]
    BY <1>1, <1>5, <1>8, <1>9, <1>10
<1>13. \A j \in Plans \ {k} :
         /\ Exists(j)' <=> Exists(j)
         /\ Shrinks(line'[j], j)
         /\ \/ plan'[j] = plan[j]
            \/ plan'[j].status = "superseded" /\ \A p \in Products : ~line'[j][p].active
  <2> SUFFICES ASSUME NEW j \in Plans \ {k}
               PROVE  /\ Exists(j)' <=> Exists(j)
                      /\ Shrinks(line'[j], j)
                      /\ \/ plan'[j] = plan[j]
                         \/ /\ plan'[j].status = "superseded"
                            /\ \A p \in Products : ~line'[j][p].active
      OBVIOUS
  <2>1. CASE j = old
      BY <1>5, <1>7, <1>12, <2>1 DEF Exists
  <2>2. CASE j # old
      BY <1>12, <2>2, SameLinesShrink DEF Exists
  <2> QED
      BY <2>1, <2>2
<1>14. \A p \in Q, j \in Plans \ {k} : ~line'[j][p].active
  <2> SUFFICES ASSUME NEW p \in Q, NEW j \in Plans \ {k} PROVE ~line'[j][p].active
      OBVIOUS
  <2>1. CASE j = old
      BY <1>4, <1>7, <1>12, <2>1
  <2>2. CASE j # old
      BY <1>1, <1>12, <2>2 DEF Insertable, ActiveElsewhere
  <2> QED
      BY <2>1, <2>2
<1> QED
    BY <1>2, <1>4, <1>11, <1>12, <1>13, <1>14, PlanAdded

----------------------------------------------------------------------------
(* The theorems *)

LEMMA StutterPreserves == ASSUME IInv, UNCHANGED vars PROVE IInv'
<1>1. UNCHANGED <<plan, line, ordered, inputs, alert, resume, sess>>
    BY DEF vars, evidence
<1>2. TypeOK'
    BY <1>1 DEF IInv, TypeOK
<1>3. LocksExclusive' /\ \A g \in Procs : SessionSound(g)'
    BY <1>1, OthersStaySound DEF IInv, RowsOnlyShrink, Exists, SessionsUndisturbed, OpenSince
<1>4. RowsConsistent' /\ OneActiveLine' /\ OrderedIsReleased' /\ DecisionIsDelivered'
    BY <1>1 DEF IInv, RowsConsistent, OneActiveLine, OrderedIsReleased, DecisionIsDelivered,
                Exists
<1>5. EndedPlanIsReleased' /\ PlanHasLines'
    BY <1>1 DEF IInv, EndedPlanIsReleased, ActiveLines, PlanHasLines, Exists
<1> QED
    BY <1>2, <1>3, <1>4, <1>5 DEF IInv

LEMMA NextPreserves == ASSUME IInv, Next PROVE IInv'
<1>1. ASSUME NEW h \in Handlers, GenerateDraft(h) PROVE IInv'
    BY <1>1, DraftReadPreserves, DraftComputePreserves, DraftBlockedPreserves,
       DraftCommitPreserves DEF GenerateDraft
<1>2. ASSUME NEW h \in Handlers, DecidePlan(h) PROVE IInv'
  <2>1. "decide" \in OpsOnPlan
      BY DEF OpsOnPlan
  <2> QED
      BY <1>2, <2>1, PlanReadPreserves, DecideLinesPreserves, DecideCheckPreserves,
         ApproveCommitPreserves, RejectCommitPreserves DEF DecidePlan
<1>3. ASSUME NEW h \in Handlers, CreatePurchaseOrders(h) PROVE IInv'
  <2>1. "create" \in OpsOnPlan
      BY DEF OpsOnPlan
  <2> QED
      BY <1>3, <2>1, PlanReadPreserves, CreateLinesPreserves, CreateCheckPreserves,
         CreateCommitPreserves DEF CreatePurchaseOrders
<1>4. ASSUME NEW h \in Handlers, SupersedePlan(h) PROVE IInv'
  <2>1. "supersede" \in OpsOnPlan
      BY DEF OpsOnPlan
  <2> QED
      BY <1>4, <2>1, PlanReadPreserves, SupersedeLinesPreserves, SupersedeReleasePreserves,
         DraftComputePreserves, SupersedeCommitPreserves DEF SupersedePlan
<1>5. ASSUME NEW w \in Scanners, RunScan(w) PROVE IInv'
    BY <1>5, ScanComputePreserves, ScanCommitPreserves DEF RunScan
<1>6. ASSUME NEW h \in Procs, TakeLock(h) \/ Abandon(h) PROVE IInv'
    BY <1>6, TakeLockPreserves, AbandonPreserves
<1>7. ASSUME NEW p \in Products, InputsChange(p) PROVE IInv'
    BY <1>7, InputsChangePreserves
<1>8. ASSUME NEW k \in Plans, NEW p \in Products, OrderGone(k, p) \/ OrderBack(k, p)
      PROVE  IInv'
    BY <1>8, OrderProgressPreserves
<1> QED
    BY <1>1, <1>2, <1>3, <1>4, <1>5, <1>6, <1>7, <1>8 DEF Next

\* Everything a session relies on holds in every reachable state.
THEOREM Invariance == Spec => []IInv
<1>1. IInv /\ [Next]_vars => IInv'
    BY NextPreserves, StutterPreserves
<1> QED
    BY InitIInv, <1>1, PTL DEF Spec

\* Rows and sessions always have the shape of the tables and of the code.
THEOREM TypeCorrect == Spec => []TypeOK
<1>1. IInv => TypeOK
    BY DEF IInv
<1> QED
    BY Invariance, <1>1, PTL

\* No two active suggestions for a product, for any number of drafts, scans and
\* revisions at once.
THEOREM OneActiveSuggestion == Spec => []OneActiveLine
<1>1. IInv => OneActiveLine
    BY DEF IInv
<1> QED
    BY Invariance, <1>1, PTL

\* A suggestion ends with its order and with its plan, whichever commands raced.
THEOREM SuggestionsAreEnded == Spec => []SuggestionsEnd
<1>1. IInv => SuggestionsEnd
    BY DEF IInv, SuggestionsEnd
<1> QED
    BY Invariance, <1>1, PTL

\* Every decision of a plan that came from a conversation reaches it.
THEOREM DecisionsAreDelivered == Spec => []DecisionIsDelivered
<1>1. IInv => DecisionIsDelivered
    BY DEF IInv
<1> QED
    BY Invariance, <1>1, PTL

\* No plan is ever left without lines.
THEOREM PlansHaveLines == Spec => []PlanHasLines
<1>1. IInv => PlanHasLines
    BY DEF IInv
<1> QED
    BY Invariance, <1>1, PTL

\* The orders a step adds, and what was known of the products they are for.
OrdersAreInformed ==
    \A k \in Plans, p \in Products :
        Orders(k, p)
            => OpenSince(p) \subseteq line[k][p].basis.inbound

LEMMA NoNewOrder == ASSUME UNCHANGED ordered PROVE OrdersAreInformed
BY DEF OrdersAreInformed, Orders

LEMMA CreateCommitIsInformed ==
    ASSUME IInv, NEW h \in Procs, CreateCommit(h) PROVE OrdersAreInformed
<1> SUFFICES ASSUME NEW k \in Plans, NEW p \in Products,
                    ordered[k][p] = "none", ordered'[k][p] = "open"
             PROVE  OpenSince(p) \subseteq line[k][p].basis.inbound
    BY DEF OrdersAreInformed, Orders
<1>1. At(h, "create", "checked")
    BY DEF CreateCommit
<1>2. sess[h].plan \in Plans
    BY <1>1 DEF IInv, SessionSound, OnPlan, At
<1>3. ordered' = [ordered EXCEPT ![sess[h].plan] = [q \in Products |->
                    IF q \in Purchasable(h) THEN "open"
                    ELSE ordered[sess[h].plan][q]]]
    BY DEF CreateCommit
<1>4. k = sess[h].plan /\ p \in sess[h].want
    BY <1>2, <1>3 DEF IInv, TypeOK, Purchasable
<1> QED
    BY <1>1, <1>4 DEF IInv, SessionSound

LEMMA NextIsInformed == ASSUME IInv, Next PROVE OrdersAreInformed
<1>1. ASSUME NEW h \in Handlers, GenerateDraft(h) PROVE UNCHANGED ordered
    BY <1>1 DEF GenerateDraft, DraftRead, DraftCompute, DraftBlocked, DraftCommit, NoWrite
<1>2. ASSUME NEW h \in Handlers, DecidePlan(h) PROVE UNCHANGED ordered
    BY <1>2 DEF DecidePlan, PlanRead, DecideLines, DecideCheck, ApproveCommit, RejectCommit,
                Decide, NoWrite
<1>3. ASSUME NEW h \in Handlers, CreatePurchaseOrders(h) PROVE OrdersAreInformed
  <2>1. CASE CreateCommit(h)
      BY <2>1, CreateCommitIsInformed
  <2>2. CASE ~CreateCommit(h)
    <3>1. UNCHANGED ordered
        BY <1>3, <2>2 DEF CreatePurchaseOrders, PlanRead, CreateLines, CreateCheck, NoWrite
    <3> QED
        BY <3>1, NoNewOrder
  <2> QED
      BY <2>1, <2>2
<1>4. ASSUME NEW h \in Handlers, SupersedePlan(h) PROVE UNCHANGED ordered
    BY <1>4 DEF SupersedePlan, PlanRead, SupersedeLines, SupersedeRelease, DraftCompute,
                SupersedeCommit, NoWrite
<1>5. ASSUME NEW w \in Scanners, RunScan(w) PROVE UNCHANGED ordered
    BY <1>5 DEF RunScan, ScanCompute, ScanCommit, NoWrite
<1>6. ASSUME NEW h \in Procs, TakeLock(h) \/ Abandon(h) PROVE UNCHANGED ordered
    BY <1>6 DEF TakeLock, Abandon, NoWrite
<1>7. ASSUME NEW p \in Products, InputsChange(p) PROVE UNCHANGED ordered
    BY <1>7 DEF InputsChange
<1>8. ASSUME NEW k \in Plans, NEW p \in Products, OrderGone(k, p) \/ OrderBack(k, p)
      PROVE  OrdersAreInformed
  <2>1. \A j \in Plans, q \in Products :
          ordered'[j][q] = "open" => ordered[j][q] = "open"
      BY <1>8, OrderProgress DEF IInv
  <2> QED
      BY <2>1 DEF OrdersAreInformed, Orders
<1> QED
    BY <1>1, <1>2, <1>3, <1>4, <1>5, <1>6, <1>7, <1>8, NoNewOrder DEF Next

\* No order is ever made for a product in ignorance of another order of it that is
\* open and never left the inbound states, whatever else overlaps: the check and
\* the commit of create_purchase_orders are under the product's advisory lock, and
\* so is every other step that makes an order.  (One that a late answer puts back
\* may be missed: KnowsEveryCommitment is refuted.)
THEOREM OrdersKnowCommitments == Spec => KnowsCommitments
<1>1. IInv /\ [Next]_vars => [OrdersAreInformed]_vars
    BY NextIsInformed
<1>2. Spec => [][OrdersAreInformed]_vars
    BY Invariance, <1>1, PTL DEF Spec
<1> QED
    BY <1>2 DEF KnowsCommitments, OrdersAreInformed

----------------------------------------------------------------------------
(* One command at a time *)

\* What PlansInOrder says of one plan.
PlanInOrder(k) ==
    /\ HasOrder(k) => plan[k].status = "approved"
    /\ plan[k].status = "approved" => ValidLines(k) # {}
    /\ plan[k].status \in {"pending_approval", "approved"} =>
        \A p \in ValidLines(k) : ordered[k][p] = "none" => line[k][p].active

LEMMA PlanByPlan == PlansInOrder <=> \A k \in Plans : PlanInOrder(k)
BY DEF PlansInOrder, ApprovedHasLine, PlanInOrder

LEMMA PlanByPlanNext == (\A k \in Plans : PlanInOrder(k)') => PlansInOrder'
BY DEF PlansInOrder, ApprovedHasLine, PlanInOrder

LEMMA SamePlanInOrder ==
    ASSUME NEW k \in Plans, PlanInOrder(k), ordered'[k] = ordered[k],
           plan'[k] = plan[k], line'[k] = line[k]
    PROVE  PlanInOrder(k)'
BY DEF PlanInOrder, HasOrder, ValidLines

\* Nobody else has a command under way.
LEMMA SessionMovesAlone ==
    ASSUME IInv, SerialInv, NEW h \in Procs, NEW s \in SessionType, Go(h, s),
           Quiet \/ sess[h].step # "idle", PlansInOrder', SessionFresh(h)'
    PROVE  SerialInv'
<1>1. \A g \in Procs \ {h} : sess[g].step = "idle" /\ ~OnPlan(g)
    BY DEF SerialInv, OneCommand, Quiet, SessionFresh
<1>2. \A g \in Procs \ {h} : sess'[g] = sess[g]
    BY GoMovesOneSession DEF IInv
<1>3. OneCommand'
    BY <1>1, <1>2 DEF OneCommand
<1>4. ASSUME NEW g \in Procs \ {h} PROVE SessionFresh(g)'
    BY <1>1, <1>2, <1>4 DEF SessionFresh, OnPlan, At
<1> QED
    BY <1>3, <1>4 DEF SerialInv

LEMMA SerialRead ==
    ASSUME IInv, SerialInv, NEW h \in Procs, NEW s \in SessionType, Go(h, s), NoWrite,
           Quiet \/ sess[h].step # "idle", SessionFresh(h)'
    PROVE  SerialInv'
<1>1. PlansInOrder'
    BY DEF SerialInv, PlansInOrder, ApprovedHasLine, HasOrder, ValidLines, NoWrite
<1> QED
    BY <1>1, SessionMovesAlone

LEMMA SerialEnd ==
    ASSUME IInv, SerialInv, NEW h \in Procs, Go(h, IdleSession), sess[h].step # "idle",
           PlansInOrder'
    PROVE  SerialInv'
<1>1. sess'[h] = IdleSession
    BY CommitEndsSession DEF IInv
<1>2. IdleSession.op = "none"
    BY DEF IdleSession
<1>3. SessionFresh(h)'
    BY <1>1, <1>2 DEF SessionFresh, OnPlan, At
<1> QED
    BY <1>3, IdleIsSession, SessionMovesAlone

LEMMA SerialInit == Init => SerialInv
<1> SUFFICES ASSUME Init PROVE SerialInv
    OBVIOUS
<1>1. PlansInOrder
    BY DEF Init, PlansInOrder, ApprovedHasLine, HasOrder, NoPlan
<1>2. \A h \in Procs : sess[h] = IdleSession
    BY DEF Init
<1> QED
    BY <1>1, <1>2 DEF SerialInv, OneCommand, SessionFresh, OnPlan, At, IdleSession

\* The commands that start.
LEMMA SerialDraftRead ==
    ASSUME IInv, SerialInv, ~Overlap, NEW h \in Procs, DraftRead(h) PROVE SerialInv'
<1> DEFINE s(Q) == [IdleSession EXCEPT !.op = "draft", !.step = "locking",
                                       !.prods = Q, !.want = Q]
<1>1. PICK Q \in SUBSET Products : Go(h, s(Q)) /\ NoWrite /\ Quiet
    BY DEF DraftRead, MayStart
<1>2. s(Q) \in SessionType /\ s(Q).op = "draft" /\ s(Q).step = "locking"
    BY IdleIsSession DEF SessionType
<1>3. sess'[h] = s(Q)
    BY <1>1, <1>2, GoMovesOneSession DEF IInv
<1> HIDE DEF s
<1>4. SessionFresh(h)'
    BY <1>2, <1>3 DEF SessionFresh, OnPlan, At
<1> QED
    BY <1>1, <1>2, <1>4, SerialRead

LEMMA SerialScanCompute ==
    ASSUME IInv, SerialInv, ~Overlap, NEW h \in Procs, ScanCompute(h) PROVE SerialInv'
<1> DEFINE s(Q, b) == [IdleSession EXCEPT !.op = "scan", !.step = "locking", !.prods = Q,
                                          !.want = Q, !.basis = b]
<1>1. PICK Q \in SUBSET Products : Go(h, s(Q, WithBasis(Q))) /\ NoWrite /\ Quiet
    BY DEF ScanCompute, MayStart
<1>2. PICK b \in Bases : b = WithBasis(Q)
    BY CurrentBasisType DEF IInv
<1>3. s(Q, b) \in SessionType /\ s(Q, b).op = "scan" /\ s(Q, b).step = "locking"
    BY IdleIsSession DEF SessionType, Bases
<1>4. Go(h, s(Q, b))
    BY <1>1, <1>2
<1> HIDE DEF s
<1>5. sess'[h] = s(Q, b)
    BY <1>3, <1>4, GoMovesOneSession DEF IInv
<1>6. SessionFresh(h)'
    BY <1>3, <1>5 DEF SessionFresh, OnPlan, At
<1> QED
    BY <1>1, <1>3, <1>4, <1>6, SerialRead

LEMMA SerialPlanRead ==
    ASSUME IInv, SerialInv, ~Overlap, NEW h \in Procs, NEW op \in OpsOnPlan, PlanRead(h, op)
    PROVE  SerialInv'
<1> DEFINE s(k, v) == [IdleSession EXCEPT !.op = op, !.step = "plan_read", !.plan = k,
                                          !.seen = v]
<1>1. PICK k \in Plans :
        /\ plan[k].status \in StatusFor(op) /\ Go(h, s(k, plan[k].version))
        /\ NoWrite /\ Quiet
    BY DEF PlanRead, MayStart
<1>2. PICK v \in Nat : v = plan[k].version
  <2>1. plan[k] \in PlanType \/ plan[k] = NoPlan
      BY DEF IInv, TypeOK
  <2>2. plan[k].version \in Nat
      BY <2>1 DEF PlanType, NoPlan
  <2> QED
      BY <2>2
<1>3. /\ s(k, v) \in SessionType
      /\ s(k, v).op = op /\ s(k, v).step = "plan_read" /\ s(k, v).plan = k
    BY IdleIsSession DEF SessionType, OpsOnPlan
<1>4. Go(h, s(k, v))
    BY <1>1, <1>2
<1> HIDE DEF s
<1>5. sess'[h] = s(k, v)
    BY <1>3, <1>4, GoMovesOneSession DEF IInv
<1>6. SessionFresh(h)'
    BY <1>1, <1>3, <1>5 DEF SessionFresh, OnPlan, At, NoWrite
<1> QED
    BY <1>1, <1>3, <1>4, <1>6, SerialRead

\* Reads and checks under way.
LEMMA SerialTakeLock ==
    ASSUME IInv, SerialInv, NEW h \in Procs, TakeLock(h) PROVE SerialInv'
<1>1. PICK p \in Products : Go(h, [sess[h] EXCEPT !.held = @ \cup {p}])
    BY DEF TakeLock
<1>2. PICK r \in SessionType : r = sess[h]
    BY DEF IInv, TypeOK
<1>3. PICK H \in SUBSET Products : H = r.held \cup {p}
    BY DEF SessionType
<1> DEFINE s == [r EXCEPT !.held = H]
<1>4. /\ s \in SessionType
      /\ s.op = r.op /\ s.step = r.step /\ s.plan = r.plan /\ s.want = r.want
    BY LockedSession
<1>5. Go(h, s) /\ NoWrite /\ sess[h].step \in {"locking", "relocking"}
    BY <1>1, <1>2, <1>3 DEF TakeLock
<1> HIDE DEF s
<1>6. sess'[h] = s
    BY <1>4, <1>5, GoMovesOneSession DEF IInv
<1>7. SessionFresh(h)
    BY DEF SerialInv
<1>8. SessionFresh(h)'
  <2>1. /\ plan' = plan /\ ValidLines(r.plan)' = ValidLines(r.plan)
        /\ HasOrder(r.plan)' <=> HasOrder(r.plan)
      BY <1>5 DEF ValidLines, HasOrder, NoWrite
  <2> QED
      BY <1>2, <1>4, <1>5, <1>6, <1>7, <2>1 DEF SessionFresh, OnPlan, At, ZeroLines
<1> QED
    BY <1>4, <1>5, <1>8, SerialRead

LEMMA SerialLines ==
    ASSUME IInv, SerialInv, NEW h \in Procs, DecideLines(h) \/ CreateLines(h)
    PROVE  SerialInv'
<1>1. PICK r \in SessionType : r = sess[h]
    BY DEF IInv, TypeOK
<1>2. PICK W \in SUBSET Products : W = ValidLines(r.plan)
    BY DEF ValidLines
<1> DEFINE s == [r EXCEPT !.step = "locking", !.want = W]
<1>3. /\ s \in SessionType
      /\ s.op = r.op /\ s.step = "locking" /\ s.plan = r.plan /\ s.want = W
    BY DEF SessionType
<1>4. Go(h, s) /\ NoWrite /\ sess[h].step # "idle" /\ r.op \in {"decide", "create"}
    BY <1>1, <1>2 DEF DecideLines, CreateLines, At
<1> HIDE DEF s
<1>5. sess'[h] = s
    BY <1>3, <1>4, GoMovesOneSession DEF IInv
<1>6. SessionFresh(h) /\ ValidLines(r.plan)' = W
    BY <1>2, <1>4 DEF SerialInv, ValidLines, NoWrite
<1>7. r.op = "create" => W \ ZeroLines(r.plan) # {} /\ ~HasOrder(r.plan)'
    BY <1>1, <1>2, <1>4 DEF DecideLines, CreateLines, At, HasOrder, NoWrite
<1>8. OnPlan(h) /\ plan'[r.plan].status = plan[r.plan].status
    BY <1>1, <1>4 DEF OnPlan, NoWrite
<1>9. SessionFresh(h)'
    BY <1>1, <1>3, <1>4, <1>5, <1>6, <1>7, <1>8 DEF SessionFresh, OnPlan, At, ZeroLines
<1> QED
    BY <1>3, <1>4, <1>9, SerialRead

LEMMA SerialDecideCheck ==
    ASSUME IInv, SerialInv, NEW h \in Procs, DecideCheck(h) PROVE SerialInv'
<1>1. PICK A \in SUBSET sess[h].want :
        Go(h, [sess[h] EXCEPT !.step = "checked", !.prods = A])
    BY DEF DecideCheck
<1>2. PICK r \in SessionType : r = sess[h]
    BY DEF IInv, TypeOK
<1> DEFINE s == [r EXCEPT !.step = "checked", !.prods = A]
<1>3. /\ s \in SessionType
      /\ s.op = r.op /\ s.step = "checked" /\ s.plan = r.plan
      /\ s.want = r.want /\ s.prods = A
  <2>1. A \in SUBSET Products
      BY <1>2 DEF SessionType
  <2> QED
      BY <2>1 DEF SessionType
<1>4. Go(h, s) /\ NoWrite /\ r.step = "locking" /\ r.op = "decide"
    BY <1>1, <1>2 DEF DecideCheck, At
<1> HIDE DEF s
<1>5. sess'[h] = s
    BY <1>3, <1>4, GoMovesOneSession DEF IInv
<1>6. SessionFresh(h)
    BY DEF SerialInv
<1>7. SessionFresh(h)'
    BY <1>1, <1>2, <1>3, <1>4, <1>5, <1>6 DEF SessionFresh, OnPlan, At, ValidLines, NoWrite
<1> QED
    BY <1>2, <1>3, <1>4, <1>7, SerialRead

LEMMA SerialCreateCheck ==
    ASSUME IInv, SerialInv, NEW h \in Procs, CreateCheck(h) PROVE SerialInv'
<1>1. PICK r \in SessionType : r = sess[h]
    BY DEF IInv, TypeOK
<1> DEFINE s == [r EXCEPT !.step = "checked"]
<1>2. /\ s \in SessionType
      /\ s.op = r.op /\ s.step = "checked" /\ s.plan = r.plan /\ s.want = r.want
    BY SteppedSession DEF Steps
<1>3. Go(h, s) /\ NoWrite /\ r.step = "locking" /\ r.op = "create"
    BY <1>1 DEF CreateCheck, At
<1> HIDE DEF s
<1>4. sess'[h] = s
    BY <1>2, <1>3, GoMovesOneSession DEF IInv
<1>5. SessionFresh(h)
    BY DEF SerialInv
<1>6. AllFresh(h)'
    BY <1>1, <1>2, <1>3, <1>4
       DEF CreateCheck, AllFresh, Fresh, CurrentBasis, Inbound, NoWrite, evidence
<1>7. /\ plan[r.plan].status \in StatusFor("create")
      /\ r.want = ValidLines(r.plan) /\ r.want \ ZeroLines(r.plan) # {} /\ ~HasOrder(r.plan)
    BY <1>1, <1>3, <1>5 DEF SessionFresh, OnPlan
<1>8. /\ plan' = plan /\ ValidLines(r.plan)' = ValidLines(r.plan)
      /\ HasOrder(r.plan)' <=> HasOrder(r.plan)
    BY <1>3 DEF ValidLines, HasOrder, NoWrite
<1>9. SessionFresh(h)'
    BY <1>2, <1>3, <1>4, <1>6, <1>7, <1>8 DEF SessionFresh, OnPlan, At, ZeroLines
<1> QED
    BY <1>1, <1>2, <1>3, <1>9, SerialRead

\* The steps of a revision, and the computation it shares with a draft.
LEMMA SerialRevision ==
    ASSUME IInv, SerialInv, NEW h \in Procs, NEW s \in SessionType, Go(h, s), NoWrite,
           s.op = sess[h].op, s.plan = sess[h].plan, s.op \in {"draft", "supersede"},
           sess[h].step # "idle", s.step # "idle",
           s.op = "supersede" => ~HasOrder(s.plan)
    PROVE  SerialInv'
<1>1. sess'[h] = s
    BY GoMovesOneSession DEF IInv
<1>2. SessionFresh(h)
    BY DEF SerialInv
<1>3. SessionFresh(h)'
    BY <1>1, <1>2 DEF SessionFresh, OnPlan, At, HasOrder, NoWrite
<1> QED
    BY <1>3, SerialRead

LEMMA SerialSupersedeLines ==
    ASSUME IInv, SerialInv, NEW h \in Procs, SupersedeLines(h) PROVE SerialInv'
<1>1. PICK r \in SessionType : r = sess[h]
    BY DEF IInv, TypeOK
<1>2. PICK W \in SUBSET Products : W = ActiveLines(r.plan)
    BY DEF ActiveLines
<1> DEFINE s(Q) == [r EXCEPT !.step = "locking", !.prods = Q, !.want = W]
<1>3. PICK Q \in SUBSET Products : Go(h, s(Q))
    BY <1>1, <1>2 DEF SupersedeLines
<1>4. s(Q) \in SessionType /\ s(Q).op = r.op /\ s(Q).step = "locking" /\ s(Q).plan = r.plan
    BY DEF SessionType
<1>5. NoWrite /\ r.op = "supersede" /\ r.step = "plan_read" /\ ~HasOrder(r.plan)
    BY <1>1 DEF SupersedeLines, Replaceable, At
<1> HIDE DEF s
<1> QED
    BY <1>1, <1>3, <1>4, <1>5, SerialRevision

LEMMA SerialSupersedeRelease ==
    ASSUME IInv, SerialInv, NEW h \in Procs, SupersedeRelease(h) PROVE SerialInv'
<1>1. PICK r \in SessionType : r = sess[h]
    BY DEF IInv, TypeOK
<1>2. PICK W \in SUBSET Products : W = r.prods
    BY DEF SessionType
<1> DEFINE s == [r EXCEPT !.step = "relocking", !.want = W]
<1>3. s \in SessionType /\ s.op = r.op /\ s.step = "relocking" /\ s.plan = r.plan
    BY DEF SessionType
<1>4. Go(h, s) /\ NoWrite /\ r.op = "supersede" /\ r.step = "locking"
    BY <1>1, <1>2 DEF SupersedeRelease, At
<1> HIDE DEF s
<1>5. ~HasOrder(r.plan)
    BY <1>1, <1>4 DEF SerialInv, SessionFresh
<1> QED
    BY <1>1, <1>3, <1>4, <1>5, SerialRevision

LEMMA SerialDraftCompute ==
    ASSUME IInv, SerialInv, NEW h \in Procs, DraftCompute(h) PROVE SerialInv'
<1>1. PICK r \in SessionType : r = sess[h]
    BY DEF IInv, TypeOK
<1>2. PICK b \in Bases : b = WithBasis(r.prods)
    BY CurrentBasisType DEF IInv, SessionType
<1> DEFINE s == [r EXCEPT !.step = "computed", !.basis = b]
<1>3. s \in SessionType /\ s.op = r.op /\ s.step = "computed" /\ s.plan = r.plan
    BY DEF SessionType, Bases
<1>4. /\ Go(h, s) /\ NoWrite
      /\ \/ r.op = "draft" /\ r.step = "locking"
         \/ r.op = "supersede" /\ r.step = "relocking"
    BY <1>1, <1>2 DEF DraftCompute, At
<1> HIDE DEF s
<1>5. r.op = "supersede" => ~HasOrder(r.plan)
    BY <1>1, <1>4 DEF SerialInv, SessionFresh
<1> QED
    BY <1>1, <1>3, <1>4, <1>5, SerialRevision

LEMMA SerialAbandon ==
    ASSUME IInv, SerialInv, NEW h \in Procs, Abandon(h) PROVE SerialInv'
<1>1. PlansInOrder'
    BY DEF Abandon, SerialInv, PlansInOrder, ApprovedHasLine, HasOrder, ValidLines, NoWrite
<1> QED
    BY <1>1, SerialEnd DEF Abandon

\* The commits.
LEMMA SerialDraftBlocked ==
    ASSUME IInv, SerialInv, NEW h \in Procs, DraftBlocked(h) PROVE SerialInv'
<1>1. PlansInOrder'
    BY DEF DraftBlocked, SerialInv, PlansInOrder, ApprovedHasLine, HasOrder, ValidLines
<1> QED
    BY <1>1, SerialEnd DEF DraftBlocked, At

\* A new plan is pending and all its lines are active.
LEMMA NewPlanInOrder ==
    ASSUME IInv, NEW h \in Procs, NEW k \in Plans, ~Exists(k), NEW Q \in SUBSET Products,
           plan'[k].status = "pending_approval", line'[k] = NewLines(h, Q), UNCHANGED ordered
    PROVE  PlanInOrder(k)'
<1>1. \A p \in Products : line'[k][p].flag = "valid" => line'[k][p].active
    BY AddedLines DEF IInv
<1>2. ~HasOrder(k)'
    BY DEF HasOrder, IInv, RowsConsistent
<1> QED
    BY <1>1, <1>2 DEF PlanInOrder, ValidLines

LEMMA SerialPlanAdded ==
    ASSUME IInv, SerialInv, NEW h \in Procs, NEW k \in Plans, NextPlan(k),
           NEW Q \in SUBSET Products, NEW thread \in BOOLEAN,
           plan' = [plan EXCEPT ![k] = NewPlanRow(thread, 0)],
           line' = [line EXCEPT ![k] = NewLines(h, Q)], UNCHANGED ordered
    PROVE  PlansInOrder'
<1>1. /\ plan'[k].status = "pending_approval" /\ line'[k] = NewLines(h, Q)
      /\ \A j \in Plans \ {k} : plan'[j] = plan[j] /\ line'[j] = line[j]
    BY AddedPlanType DEF IInv, TypeOK
<1>2. PlanInOrder(k)'
    BY <1>1, NewPlanInOrder DEF NextPlan
<1>3. ASSUME NEW j \in Plans \ {k} PROVE PlanInOrder(j)'
    BY <1>1, <1>3, PlanByPlan, SamePlanInOrder DEF SerialInv
<1> QED
    BY <1>2, <1>3, PlanByPlanNext

LEMMA SerialDraftCommit ==
    ASSUME IInv, SerialInv, NEW h \in Procs, DraftCommit(h) PROVE SerialInv'
<1>1. PICK Q \in (SUBSET sess[h].prods) \ {{}}, k \in Plans :
        /\ NextPlan(k)
        /\ plan' = [plan EXCEPT ![k] = NewPlanRow(TRUE, 0)]
        /\ line' = [line EXCEPT ![k] = NewLines(h, Q)]
    BY DEF DraftCommit
<1>2. /\ Q \in SUBSET Products /\ TRUE \in BOOLEAN
      /\ UNCHANGED ordered /\ Go(h, IdleSession) /\ sess[h].step # "idle"
    BY <1>1 DEF IInv, TypeOK, SessionType, DraftCommit, At
<1>3. PlansInOrder'
    BY <1>1, <1>2, SerialPlanAdded
<1> QED
    BY <1>2, <1>3, SerialEnd

LEMMA SerialScanCommit ==
    ASSUME IInv, SerialInv, NEW h \in Procs, ScanCommit(h) PROVE SerialInv'
<1>1. UNCHANGED ordered /\ Go(h, IdleSession) /\ sess[h].step # "idle"
    BY DEF ScanCommit, At
<1>2. CASE UNCHANGED <<plan, line>>
  <2>1. PlansInOrder'
      BY <1>1, <1>2 DEF SerialInv, PlansInOrder, ApprovedHasLine, HasOrder, ValidLines
  <2> QED
      BY <1>1, <2>1, SerialEnd
<1>3. CASE \E k \in Plans, Q \in SUBSET Products :
             /\ NextPlan(k)
             /\ plan' = [plan EXCEPT ![k] = NewPlanRow(FALSE, 0)]
             /\ line' = [line EXCEPT ![k] = NewLines(h, Q)]
  <2>1. FALSE \in BOOLEAN
      OBVIOUS
  <2>2. PlansInOrder'
      BY <1>1, <1>3, <2>1, SerialPlanAdded
  <2> QED
      BY <1>1, <2>2, SerialEnd
<1>4. UNCHANGED <<plan, line>> \/ \E k \in Plans, Q \in SUBSET Products :
             /\ NextPlan(k)
             /\ plan' = [plan EXCEPT ![k] = NewPlanRow(FALSE, 0)]
             /\ line' = [line EXCEPT ![k] = NewLines(h, Q)]
  <2>1. {p \in sess[h].prods : Insertable({p}, 0)} \in SUBSET Products
      BY DEF IInv, TypeOK, SessionType
  <2> QED
      BY <2>1 DEF ScanCommit
<1> QED
    BY <1>2, <1>3, <1>4

\* A decision finds the plan as it was read: pending, with the same valid lines.
LEMMA DecidedPlanInOrder ==
    ASSUME IInv, SerialInv, NEW h \in Procs, NEW status \in {"approved", "rejected"},
           sess[h].op = "decide", Decide(h, status), NEW L,
           line' = [line EXCEPT ![sess[h].plan] = L],
           status = "approved" =>
             /\ \E p \in ValidLines(sess[h].plan) : L[p] = line[sess[h].plan][p]
             /\ \A p \in Products : L[p].flag = "valid" => L[p] = line[sess[h].plan][p]
    PROVE  PlansInOrder'
<1>1. PICK k \in Plans : k = sess[h].plan /\ plan[k].status = "pending_approval"
    BY DEF IInv, SessionSound, SerialInv, SessionFresh, OnPlan, StatusFor
<1>2. /\ plan'[k].status = status /\ line'[k] = L /\ UNCHANGED ordered
      /\ \A j \in Plans \ {k} : plan'[j] = plan[j] /\ line'[j] = line[j]
  <2>1. Rewrite(h, status).status = status
      BY RewriteType DEF PlanStatus, OnPlan
  <2>2. plan' = [plan EXCEPT ![k] = Rewrite(h, status)] /\ UNCHANGED ordered
      BY <1>1 DEF Decide
  <2> QED
      BY <1>1, <2>1, <2>2 DEF IInv, TypeOK
<1>3. PlanInOrder(k) /\ \A j \in Plans \ {k} : PlanInOrder(j)
    BY <1>1, PlanByPlan DEF SerialInv
<1>4. PlanInOrder(k)'
  <2>1. ~HasOrder(k)' /\ \A p \in Products : ordered'[k][p] = "none"
      BY <1>1, <1>2, <1>3 DEF PlanInOrder, HasOrder
  <2>2. CASE status = "rejected"
      BY <1>2, <2>1, <2>2 DEF PlanInOrder
  <2>3. CASE status = "approved"
    <3>1. /\ \E p \in ValidLines(k) : L[p] = line[k][p]
          /\ \A p \in Products : L[p].flag = "valid" => L[p] = line[k][p]
        BY <1>1, <2>3
    <3>2. \A p \in ValidLines(k) : line[k][p].active
        BY <1>1, <1>2, <1>3, <2>1 DEF PlanInOrder, ValidLines
    <3> QED
        BY <1>2, <2>1, <3>1, <3>2 DEF PlanInOrder, ValidLines
  <2> QED
      BY <2>2, <2>3
<1>5. ASSUME NEW j \in Plans \ {k} PROVE PlanInOrder(j)'
    BY <1>2, <1>3, <1>5, SamePlanInOrder
<1> QED
    BY <1>4, <1>5, PlanByPlanNext

LEMMA SerialRejectCommit ==
    ASSUME IInv, SerialInv, NEW h \in Procs, RejectCommit(h) PROVE SerialInv'
<1>1. /\ sess[h].op = "decide" /\ sess[h].step # "idle" /\ Decide(h, "rejected")
      /\ line' = [line EXCEPT ![sess[h].plan] = OldLines(h)]
    BY DEF RejectCommit, At
<1>2. PlansInOrder'
    BY <1>1, DecidedPlanInOrder
<1> QED
    BY <1>1, <1>2, SerialEnd DEF Decide

LEMMA SerialApproveCommit ==
    ASSUME IInv, SerialInv, NEW h \in Procs, ApproveCommit(h) PROVE SerialInv'
<1> DEFINE k == sess[h].plan
           L == DecidedLines(h)
           status == Outcome(sess[h].prods)
<1>1. /\ sess[h].op = "decide" /\ sess[h].step = "checked" /\ Decide(h, status)
      /\ line' = [line EXCEPT ![k] = L]
    BY DEF ApproveCommit, At
<1>2. /\ sess[h].want = ValidLines(k) /\ sess[h].prods \subseteq sess[h].want
      /\ sess[h].want \subseteq Products /\ k \in Plans
    BY <1>1 DEF SerialInv, SessionFresh, At, ValidLines, IInv, SessionSound, OnPlan
<1>3. \A p \in Products :
        L[p] = IF p \in sess[h].want \ sess[h].prods THEN Exclude(line[k][p]) ELSE line[k][p]
    BY DEF DecidedLines
<1>4. \A p \in Products : Exclude(line[k][p]).flag = "excluded"
    BY <1>2, LinesOfPlan, ExcludedLine
<1>5. status \in {"approved", "rejected"} /\ (status = "approved" => sess[h].prods # {})
    BY DEF Outcome
<1>6. status = "approved" =>
        /\ \E p \in ValidLines(k) : L[p] = line[k][p]
        /\ \A p \in Products : L[p].flag = "valid" => L[p] = line[k][p]
  <2> HIDE DEF k, L, status
  <2> QED
      BY <1>2, <1>3, <1>4, <1>5
<1> HIDE DEF L, status
<1>7. PlansInOrder'
    BY <1>1, <1>5, <1>6, DecidedPlanInOrder
<1> QED
    BY <1>1, <1>7, SerialEnd DEF Decide

LEMMA SerialCreateCommit ==
    ASSUME IInv, SerialInv, NEW h \in Procs, CreateCommit(h) PROVE SerialInv'
<1>1. PICK k, Q, L :
        /\ At(h, "create", "checked") /\ Go(h, IdleSession)
        /\ k = sess[h].plan /\ Q = Purchasable(h) /\ L = ReleaseOrdered(h)
        /\ ordered' = [ordered EXCEPT ![k] =
                         [p \in Products |-> IF p \in Q THEN "open" ELSE ordered[k][p]]]
        /\ line' = [line EXCEPT ![k] = L]
    BY DEF CreateCommit
<1>2. k \in Plans /\ plan[k].status = "approved"
    BY <1>1 DEF IInv, SessionSound, SerialInv, SessionFresh, OnPlan, At, StatusFor
<1>3. /\ plan'[k].status = plan[k].status
      /\ \A j \in Plans \ {k} : plan'[j] = plan[j]
  <2> DEFINE row == [plan[k] EXCEPT !.version = sess[h].seen + 1]
  <2>1. plan' = [plan EXCEPT ![k] = row]
      BY <1>1 DEF CreateCommit
  <2>2. row.status = plan[k].status
    <3>1. PICK r \in PlanType : r = plan[k]
        BY <1>2, ExistingPlan DEF IInv, Exists
    <3> QED
        BY <3>1 DEF PlanType
  <2> HIDE DEF row
  <2> QED
      BY <1>2, <2>1, <2>2 DEF IInv, TypeOK
<1>4. /\ line'[k] = L /\ \A j \in Plans \ {k} : line'[j] = line[j] /\ ordered'[j] = ordered[j]
      /\ \A p \in Products : ordered'[k][p] = IF p \in Q THEN "open" ELSE ordered[k][p]
  <2> QED
      BY <1>1, <1>2 DEF IInv, TypeOK
<1>5. \A p \in Products :
        L[p].flag = line[k][p].flag /\ (p \notin Q => L[p] = line[k][p])
    BY <1>1, <1>2, LinesOfPlan, ReleasedLine DEF ReleaseOrdered
<1>6. PlanInOrder(k) /\ \A j \in Plans \ {k} : PlanInOrder(j)
    BY <1>2, PlanByPlan DEF SerialInv
<1>7. PlanInOrder(k)'
  <2>1. ValidLines(k)' = ValidLines(k)
      BY <1>4, <1>5 DEF ValidLines
  <2>2. ASSUME NEW p \in ValidLines(k), ordered'[k][p] = "none" PROVE line'[k][p].active
      BY <1>2, <1>4, <1>5, <1>6, <2>2 DEF PlanInOrder, ValidLines
  <2> QED
      BY <1>2, <1>3, <1>6, <2>1, <2>2 DEF PlanInOrder
<1>8. ASSUME NEW j \in Plans \ {k} PROVE PlanInOrder(j)'
    BY <1>3, <1>4, <1>6, <1>8, SamePlanInOrder
<1>9. PlansInOrder'
    BY <1>7, <1>8, PlanByPlanNext
<1> QED
    BY <1>1, <1>9, SerialEnd DEF At

LEMMA SerialSupersedeCommit ==
    ASSUME IInv, SerialInv, NEW h \in Procs, SupersedeCommit(h) PROVE SerialInv'
<1>0. PICK old, row, L :
        old = sess[h].plan /\ row = Rewrite(h, "superseded") /\ L = OldLines(h)
    OBVIOUS
<1>1. PICK Q \in (SUBSET sess[h].prods) \ {{}}, k \in Plans :
        /\ ~Exists(k)
        /\ plan' = [plan EXCEPT ![old] = row, ![k] = NewPlanRow(plan[old].thread, old)]
        /\ line' = [line EXCEPT ![old] = L, ![k] = NewLines(h, Q)]
    BY <1>0 DEF SupersedeCommit, NextPlan
<1>2. /\ Go(h, IdleSession) /\ UNCHANGED ordered
      /\ sess[h].op = "supersede" /\ sess[h].step = "computed"
    BY DEF SupersedeCommit, At
<1>3. old \in Plans /\ Exists(old) /\ row.status = "superseded" /\ old # k
    BY <1>0, <1>1, <1>2, RewriteType DEF PlanStatus, OnPlan
<1>4. Q \in SUBSET Products
    BY <1>1 DEF IInv, TypeOK, SessionType
<1>5. NewPlanRow(plan[old].thread, old).status = "pending_approval"
    BY DEF NewPlanRow
<1>6. ~HasOrder(old)
    BY <1>0, <1>2 DEF SerialInv, SessionFresh
<1>7. /\ plan'[k].status = "pending_approval" /\ line'[k] = NewLines(h, Q)
      /\ plan'[old].status = "superseded"
      /\ \A j \in Plans \ {k, old} : plan'[j] = plan[j] /\ line'[j] = line[j]
    BY <1>1, <1>3, <1>5 DEF IInv, TypeOK
<1>8. PlanInOrder(k)'
    BY <1>1, <1>2, <1>4, <1>7, NewPlanInOrder
<1>9. PlanInOrder(old)'
    BY <1>2, <1>6, <1>7 DEF PlanInOrder, HasOrder
<1>10. ASSUME NEW j \in Plans \ {k, old} PROVE PlanInOrder(j)'
    BY <1>2, <1>7, <1>10, PlanByPlan, SamePlanInOrder DEF SerialInv
<1>11. PlansInOrder'
    BY <1>8, <1>9, <1>10, PlanByPlanNext
<1> QED
    BY <1>2, <1>11, SerialEnd

\* Stock, terms and orders change between the commands.
LEMMA SerialQuietStep ==
    ASSUME IInv, SerialInv, ~Overlap, NEW p \in Products,
           InputsChange(p) \/ \E k \in Plans : OrderGone(k, p) \/ OrderBack(k, p)
    PROVE  SerialInv'
<1>1. Quiet /\ UNCHANGED <<plan, line, sess>>
    BY DEF InputsChange, OrderGone, OrderBack
<1>2. \A j \in Plans, q \in Products : ordered'[j][q] = "none" <=> ordered[j][q] = "none"
    BY OrderProgress DEF InputsChange, IInv
<1>3. PlansInOrder'
    BY <1>1, <1>2 DEF SerialInv, PlansInOrder, ApprovedHasLine, HasOrder, ValidLines
<1>4. \A g \in Procs : sess[g].step = "idle" /\ ~OnPlan(g)
    BY <1>1 DEF Quiet, SerialInv, SessionFresh
<1>5. \A g \in Procs : SessionFresh(g)'
    BY <1>1, <1>4 DEF SessionFresh, OnPlan, At
<1> QED
    BY <1>1, <1>3, <1>5 DEF SerialInv, OneCommand

LEMMA SerialNext ==
    ASSUME IInv, SerialInv, ~Overlap, [Next]_vars PROVE SerialInv'
<1>1. ASSUME NEW h \in Handlers, GenerateDraft(h) PROVE SerialInv'
    BY <1>1, SerialDraftRead, SerialDraftCompute, SerialDraftBlocked, SerialDraftCommit
       DEF GenerateDraft
<1>2. ASSUME NEW h \in Handlers, DecidePlan(h) PROVE SerialInv'
    BY <1>2, SerialPlanRead, SerialLines, SerialDecideCheck, SerialApproveCommit,
       SerialRejectCommit DEF DecidePlan, OpsOnPlan
<1>3. ASSUME NEW h \in Handlers, CreatePurchaseOrders(h) PROVE SerialInv'
    BY <1>3, SerialPlanRead, SerialLines, SerialCreateCheck, SerialCreateCommit
       DEF CreatePurchaseOrders, OpsOnPlan
<1>4. ASSUME NEW h \in Handlers, SupersedePlan(h) PROVE SerialInv'
    BY <1>4, SerialPlanRead, SerialSupersedeLines, SerialSupersedeRelease, SerialDraftCompute,
       SerialSupersedeCommit DEF SupersedePlan, OpsOnPlan
<1>5. ASSUME NEW w \in Scanners, RunScan(w) PROVE SerialInv'
    BY <1>5, SerialScanCompute, SerialScanCommit DEF RunScan
<1>6. ASSUME NEW h \in Procs, TakeLock(h) \/ Abandon(h) PROVE SerialInv'
    BY <1>6, SerialTakeLock, SerialAbandon
<1>7. CASE UNCHANGED vars
  <2>1. \A h \in Procs : SessionFresh(h)'
    <3> SUFFICES ASSUME NEW h \in Procs PROVE SessionFresh(h)'
        OBVIOUS
    <3>1. SessionFresh(h)
        BY DEF SerialInv
    <3>2. UNCHANGED <<plan, line, ordered, inputs, sess>>
        BY <1>7 DEF vars, evidence
    <3> QED
        BY <3>1, <3>2 DEF SessionFresh, OnPlan, At, ValidLines, ZeroLines, HasOrder, AllFresh,
                          Fresh, CurrentBasis, Inbound
  <2>2. PlansInOrder' /\ OneCommand'
      BY <1>7 DEF SerialInv, PlansInOrder, ApprovedHasLine, HasOrder, ValidLines, OneCommand,
                  vars, evidence
  <2> QED
      BY <2>1, <2>2 DEF SerialInv
<1> QED
    BY <1>1, <1>2, <1>3, <1>4, <1>5, <1>6, <1>7, SerialQuietStep DEF Next

\* One command at a time, nothing a command has read changes under it.
LEMMA SerialInvariance ==
    ASSUME ~Overlap
    PROVE  Spec => [](IInv /\ SerialInv)
<1>1. IInv /\ SerialInv /\ [Next]_vars => SerialInv'
    BY SerialNext
<1> QED
    BY SerialInit, <1>1, Invariance, PTL DEF Spec

\* A plan that was replaced by a revision leads to no purchase order.
THEOREM SupersededIsNotOrdered ==
    ASSUME ~Overlap
    PROVE  Spec => []SupersededHasNoOrder
<1>1. SerialInv => SupersededHasNoOrder
    BY DEF SerialInv, PlansInOrder, SupersededHasNoOrder
<1> QED
    BY <1>1, SerialInvariance, PTL

\* An approved plan has an approved line, which stays active up to its order.
THEOREM ApprovedLinesAreHeld ==
    ASSUME ~Overlap
    PROVE  Spec => [](ApprovedHasLine /\ ApprovedStaysActive)
<1>1. SerialInv => ApprovedHasLine /\ ApprovedStaysActive
    BY DEF SerialInv, PlansInOrder, ApprovedStaysActive
<1> QED
    BY <1>1, SerialInvariance, PTL

----------------------------------------------------------------------------
(* One command at a time: every step is one of PlanLifecycle, or none *)

AbstractStep == [Lifecycle!Next]_(Lifecycle!vars)

LEMMA StutterIsAbstract ==
    ASSUME \A k \in Plans : plan'[k].status = plan[k].status,
           \A k \in Plans, p \in Products : ordered'[k][p] = "none" <=> ordered[k][p] = "none"
    PROVE  AbstractStep
BY DEF AbstractStep, Lifecycle!vars, HasOrder

LEMMA DraftIsAbstract ==
    ASSUME IInv, NEW k \in Plans, NextPlan(k), NEW thread \in BOOLEAN,
           plan' = [plan EXCEPT ![k] = NewPlanRow(thread, 0)], UNCHANGED ordered
    PROVE  AbstractStep
<1>1. plan[k].status = "none" /\ plan'[k].status = "pending_approval"
    BY AddedPlanType DEF NextPlan, Exists, IInv, TypeOK
<1>2. \A j \in Plans \ {k} : plan'[j].status = plan[j].status
    BY DEF IInv, TypeOK
<1>3. Lifecycle!Draft(k)
    BY <1>1, <1>2 DEF Lifecycle!Draft, HasOrder
<1> QED
    BY <1>3 DEF AbstractStep, Lifecycle!Next

LEMMA DecideIsAbstract ==
    ASSUME IInv, SerialInv, NEW h \in Procs, NEW status \in {"approved", "rejected"},
           sess[h].op = "decide", Decide(h, status)
    PROVE  AbstractStep
<1>1. PICK k \in Plans : k = sess[h].plan /\ plan[k].status = "pending_approval"
    BY DEF IInv, SessionSound, SerialInv, SessionFresh, OnPlan, StatusFor
<1>2. /\ plan'[k].status = status /\ UNCHANGED ordered
      /\ \A j \in Plans \ {k} : plan'[j].status = plan[j].status
  <2>1. Rewrite(h, status).status = status
      BY RewriteType DEF PlanStatus, OnPlan
  <2>2. plan' = [plan EXCEPT ![k] = Rewrite(h, status)] /\ UNCHANGED ordered
      BY <1>1 DEF Decide
  <2> QED
      BY <1>1, <2>1, <2>2 DEF IInv, TypeOK
<1>3. Lifecycle!Decide(k)
    BY <1>1, <1>2 DEF Lifecycle!Decide, HasOrder
<1> QED
    BY <1>1, <1>3 DEF AbstractStep, Lifecycle!Next

\* Orders are made once: the commit finds the plan approved and without any.
LEMMA CreateIsAbstract ==
    ASSUME IInv, SerialInv, NEW h \in Procs, CreateCommit(h) PROVE AbstractStep
<1>1. PICK k, Q : At(h, "create", "checked") /\ k = sess[h].plan /\ Q = Purchasable(h)
    BY DEF CreateCommit
<1>2. /\ k \in Plans /\ plan[k].status = "approved" /\ ~HasOrder(k)
      /\ Q # {} /\ Q \subseteq Products
  <2>1. OnPlan(h)
      BY <1>1 DEF OnPlan, At
  <2>2. SessionSound(h) /\ SessionFresh(h) /\ sess[h].want \subseteq Products
      BY DEF IInv, SerialInv, TypeOK, SessionType
  <2> QED
      BY <1>1, <2>1, <2>2 DEF SessionSound, SessionFresh, At, StatusFor, Purchasable
<1>3. ordered' = [ordered EXCEPT ![k] =
                    [p \in Products |-> IF p \in Q THEN "open" ELSE ordered[k][p]]]
    BY <1>1 DEF CreateCommit
<1>4. \A j \in Plans : plan'[j].status = plan[j].status
  <2> DEFINE row == [plan[k] EXCEPT !.version = sess[h].seen + 1]
  <2>1. plan' = [plan EXCEPT ![k] = row]
      BY <1>1 DEF CreateCommit
  <2>2. row.status = plan[k].status
    <3>1. PICK r \in PlanType : r = plan[k]
        BY <1>2, ExistingPlan DEF IInv, Exists
    <3> QED
        BY <3>1 DEF PlanType
  <2> HIDE DEF row
  <2> QED
      BY <1>2, <2>1, <2>2 DEF IInv, TypeOK
<1>5. /\ \A p \in Q : ordered'[k][p] = "open"
      /\ \A j \in Plans \ {k} : ordered'[j] = ordered[j]
    BY <1>2, <1>3 DEF IInv, TypeOK
<1>6. HasOrder(k)' /\ \A j \in Plans \ {k} : HasOrder(j)' = HasOrder(j)
    BY <1>2, <1>5 DEF HasOrder
<1>7. Lifecycle!CreateOrders(k)
  <2>1. [j \in Plans |-> HasOrder(j)'] = [[j \in Plans |-> HasOrder(j)] EXCEPT ![k] = TRUE]
      BY <1>2, <1>6
  <2>2. [j \in Plans |-> plan'[j].status] = [j \in Plans |-> plan[j].status]
      BY <1>4
  <2> QED
      BY <1>2, <2>1, <2>2 DEF Lifecycle!CreateOrders
<1> QED
    BY <1>2, <1>7 DEF AbstractStep, Lifecycle!Next

LEMMA SupersedeIsAbstract ==
    ASSUME IInv, SerialInv, NEW h \in Procs, SupersedeCommit(h) PROVE AbstractStep
<1>0. PICK old, row : old = sess[h].plan /\ row = Rewrite(h, "superseded")
    OBVIOUS
<1>1. PICK k \in Plans :
        /\ ~Exists(k)
        /\ plan' = [plan EXCEPT ![old] = row, ![k] = NewPlanRow(plan[old].thread, old)]
    BY <1>0 DEF SupersedeCommit, NextPlan
<1>2. UNCHANGED ordered /\ sess[h].op = "supersede" /\ sess[h].step = "computed"
    BY DEF SupersedeCommit, At
<1>3. /\ old \in Plans /\ row.status = "superseded" /\ old # k
      /\ NewPlanRow(plan[old].thread, old).status = "pending_approval"
    BY <1>0, <1>1, <1>2, RewriteType DEF PlanStatus, OnPlan, NewPlanRow
<1>4. plan[old].status \in {"pending_approval", "approved"} /\ ~HasOrder(old)
    BY <1>0, <1>2 DEF SerialInv, SessionFresh, OnPlan, StatusFor
<1>5. /\ plan[k].status = "none" /\ plan'[k].status = "pending_approval"
      /\ plan'[old].status = "superseded"
      /\ \A j \in Plans \ {k, old} : plan'[j] = plan[j]
    BY <1>1, <1>3 DEF IInv, TypeOK, Exists
<1>6. Lifecycle!Replace(old, k)
    BY <1>2, <1>3, <1>4, <1>5 DEF Lifecycle!Replace, HasOrder
<1> QED
    BY <1>3, <1>6 DEF AbstractStep, Lifecycle!Next

LEMMA ScanIsAbstract ==
    ASSUME IInv, NEW w \in Procs, ScanCommit(w) PROVE AbstractStep
<1>1. UNCHANGED ordered
    BY DEF ScanCommit
<1>2. CASE UNCHANGED <<plan, line>>
    BY <1>1, <1>2, StutterIsAbstract
<1>3. CASE \E k \in Plans : NextPlan(k) /\ plan' = [plan EXCEPT ![k] = NewPlanRow(FALSE, 0)]
  <2>1. FALSE \in BOOLEAN
      OBVIOUS
  <2> QED
      BY <1>1, <1>3, <2>1, DraftIsAbstract
<1> QED
    BY <1>2, <1>3 DEF ScanCommit

LEMMA NextIsAbstract ==
    ASSUME IInv, SerialInv, [Next]_vars PROVE AbstractStep
<1>1. ASSUME NEW h \in Handlers, GenerateDraft(h) PROVE AbstractStep
  <2>1. CASE DraftCommit(h)
    <3>1. TRUE \in BOOLEAN
        OBVIOUS
    <3> QED
        BY <2>1, <3>1, DraftIsAbstract DEF DraftCommit
  <2>2. CASE DraftRead(h) \/ DraftCompute(h) \/ DraftBlocked(h)
      BY <2>2, StutterIsAbstract DEF DraftRead, DraftCompute, DraftBlocked, NoWrite
  <2> QED
      BY <1>1, <2>1, <2>2 DEF GenerateDraft
<1>2. ASSUME NEW h \in Handlers, DecidePlan(h) PROVE AbstractStep
  <2>1. CASE ApproveCommit(h)
      BY <2>1, DecideIsAbstract DEF ApproveCommit, At, Outcome
  <2>2. CASE RejectCommit(h)
      BY <2>2, DecideIsAbstract DEF RejectCommit, At
  <2>3. CASE PlanRead(h, "decide") \/ DecideLines(h) \/ DecideCheck(h)
      BY <2>3, StutterIsAbstract DEF PlanRead, DecideLines, DecideCheck, NoWrite
  <2> QED
      BY <1>2, <2>1, <2>2, <2>3 DEF DecidePlan
<1>3. ASSUME NEW h \in Handlers, CreatePurchaseOrders(h) PROVE AbstractStep
  <2>1. CASE PlanRead(h, "create") \/ CreateLines(h) \/ CreateCheck(h)
      BY <2>1, StutterIsAbstract DEF PlanRead, CreateLines, CreateCheck, NoWrite
  <2> QED
      BY <1>3, <2>1, CreateIsAbstract DEF CreatePurchaseOrders
<1>4. ASSUME NEW h \in Handlers, SupersedePlan(h) PROVE AbstractStep
  <2>1. CASE ~SupersedeCommit(h)
      BY <1>4, <2>1, StutterIsAbstract
         DEF SupersedePlan, PlanRead, SupersedeLines, SupersedeRelease, DraftCompute, NoWrite
  <2> QED
      BY <2>1, SupersedeIsAbstract
<1>5. ASSUME NEW w \in Scanners, RunScan(w) PROVE AbstractStep
  <2>1. CASE ScanCompute(w)
      BY <2>1, StutterIsAbstract DEF ScanCompute, NoWrite
  <2> QED
      BY <1>5, <2>1, ScanIsAbstract DEF RunScan
<1>6. ASSUME NEW h \in Procs, TakeLock(h) \/ Abandon(h) PROVE AbstractStep
    BY <1>6, StutterIsAbstract DEF TakeLock, Abandon, NoWrite
<1>7. ASSUME NEW p \in Products, InputsChange(p) PROVE AbstractStep
    BY <1>7, StutterIsAbstract DEF InputsChange
<1>8. ASSUME NEW k \in Plans, NEW p \in Products, OrderGone(k, p) \/ OrderBack(k, p)
      PROVE  AbstractStep
  <2>1. \A j \in Plans, q \in Products : ordered'[j][q] = "none" <=> ordered[j][q] = "none"
      BY <1>8, OrderProgress DEF IInv
  <2> QED
      BY <1>8, <2>1, StutterIsAbstract DEF OrderGone, OrderBack
<1>9. CASE UNCHANGED vars
    BY <1>9, StutterIsAbstract DEF vars
<1> QED
    BY <1>1, <1>2, <1>3, <1>4, <1>5, <1>6, <1>7, <1>8, <1>9 DEF Next

LEMMA InitIsAbstract == Init => Lifecycle!Init
BY DEF Init, Lifecycle!Init, NoPlan, HasOrder

\* One command at a time, the plans do what PlanLifecycle promises.
THEOREM LifecycleIsKept ==
    ASSUME ~Overlap
    PROVE  Spec => ImplementsLifecycle
<1>1. IInv /\ SerialInv /\ [Next]_vars => [Lifecycle!Next]_(Lifecycle!vars)
    BY NextIsAbstract DEF AbstractStep
<1> QED
    BY <1>1, InitIsAbstract, SerialInvariance, PTL DEF Spec, ImplementsLifecycle, Lifecycle!Spec

\* The status moves only along PLAN_ALLOWED_TRANSITIONS.
THEOREM TransitionsAreLegal ==
    ASSUME ~Overlap
    PROVE  Spec => LegalTransitions
<1> DEFINE Legal == \A k \in Plans : plan'[k].status # plan[k].status =>
                      \/ plan[k].status = "none" /\ plan'[k].status = "pending_approval"
                      \/ plan[k].status = "pending_approval"
                      \/ plan[k].status = "approved" /\ plan'[k].status = "superseded"
<1>1. ASSUME IInv, SerialInv, [Next]_vars PROVE [Legal]_plan
  <2>1. AbstractStep
      BY <1>1, NextIsAbstract
  <2> QED
      BY <2>1 DEF AbstractStep, Lifecycle!Next, Lifecycle!vars, Lifecycle!Draft, Lifecycle!Decide,
                  Lifecycle!CreateOrders, Lifecycle!Replace
<1> QED
    BY <1>1, SerialInvariance, PTL DEF Spec, LegalTransitions

\* A line is ordered only on the inputs it was computed from: those checked
\* under the locks are those of the commit.
OrdersAreFresh ==
    \A k \in Plans, p \in Products :
        ordered[k][p] = "none" /\ ordered'[k][p] = "open" => Fresh(k, p)

LEMMA NoOrderIsFresh == ASSUME UNCHANGED ordered PROVE OrdersAreFresh
BY DEF OrdersAreFresh

LEMMA CreateCommitIsFresh ==
    ASSUME IInv, SerialInv, NEW h \in Procs, CreateCommit(h) PROVE OrdersAreFresh
<1> SUFFICES ASSUME NEW k \in Plans, NEW p \in Products,
                    ordered[k][p] = "none", ordered'[k][p] = "open"
             PROVE  Fresh(k, p)
    BY DEF OrdersAreFresh
<1>1. /\ At(h, "create", "checked")
      /\ ordered' = [ordered EXCEPT ![sess[h].plan] = [q \in Products |->
                        IF q \in Purchasable(h) THEN "open" ELSE ordered[sess[h].plan][q]]]
    BY DEF CreateCommit
<1>2. k = sess[h].plan /\ p \in sess[h].want
    BY <1>1 DEF IInv, TypeOK, Purchasable
<1> QED
    BY <1>1, <1>2 DEF SerialInv, SessionFresh, AllFresh

LEMMA NextIsFresh == ASSUME IInv, SerialInv, [Next]_vars PROVE OrdersAreFresh
<1>1. ASSUME NEW h \in Handlers, GenerateDraft(h) \/ DecidePlan(h) \/ SupersedePlan(h)
      PROVE  UNCHANGED ordered
    BY <1>1 DEF GenerateDraft, DraftRead, DraftCompute, DraftBlocked, DraftCommit, NoWrite,
                DecidePlan, PlanRead, DecideLines, DecideCheck, ApproveCommit, RejectCommit,
                Decide, SupersedePlan, SupersedeLines, SupersedeRelease, SupersedeCommit
<1>2. ASSUME NEW h \in Handlers, CreatePurchaseOrders(h), ~CreateCommit(h)
      PROVE  UNCHANGED ordered
    BY <1>2 DEF CreatePurchaseOrders, PlanRead, CreateLines, CreateCheck, NoWrite
<1>3. ASSUME NEW h \in Procs, RunScan(h) \/ TakeLock(h) \/ Abandon(h) PROVE UNCHANGED ordered
    BY <1>3 DEF RunScan, ScanCompute, ScanCommit, TakeLock, Abandon, NoWrite
<1>4. ASSUME NEW p \in Products, InputsChange(p) PROVE UNCHANGED ordered
    BY <1>4 DEF InputsChange
<1>5. ASSUME NEW k \in Plans, NEW p \in Products, OrderGone(k, p) \/ OrderBack(k, p)
      PROVE  OrdersAreFresh
  <2>1. \A j \in Plans, q \in Products : ordered'[j][q] = "open" => ordered[j][q] = "open"
      BY <1>5, OrderProgress DEF IInv
  <2> QED
      BY <2>1 DEF OrdersAreFresh
<1>6. CASE UNCHANGED vars
    BY <1>6, NoOrderIsFresh DEF vars
<1>7. ASSUME NEW h \in Handlers, CreatePurchaseOrders(h) PROVE OrdersAreFresh
  <2>1. CASE CreateCommit(h)
      BY <2>1, CreateCommitIsFresh DEF Procs
  <2> QED
      BY <1>2, <1>7, <2>1, NoOrderIsFresh
<1>8. CASE Next /\ ~UNCHANGED ordered
    BY <1>1, <1>3, <1>4, <1>5, <1>7, <1>8, ZenonT(30) DEF Next
<1> QED
    BY <1>6, <1>8, NoOrderIsFresh, Zenon

\* With one command at a time no line is ordered on inputs that have changed since
\* it was computed (create_purchase_orders compares hashes under the locks).
THEOREM OrdersAreMadeFresh ==
    ASSUME ~Overlap
    PROVE  Spec => OrderedWhenFresh
<1>1. IInv /\ SerialInv /\ [Next]_vars => [OrdersAreFresh]_vars
    BY NextIsFresh
<1>2. Spec => [][OrdersAreFresh]_vars
    BY <1>1, SerialInvariance, PTL DEF Spec
<1> QED
    BY <1>2 DEF OrderedWhenFresh, OrdersAreFresh, Orders

----------------------------------------------------------------------------
(* Nobody waits in a circle *)

\* A session that starts has no lock and wants W; one that moves on keeps both.
LEMMA LocksMove ==
    ASSUME IInv, \A g \in Procs : LocksAscend(g), NEW h \in Procs, NEW s \in SessionType,
           Go(h, s), s.op # "supersede", s.step # "relocking",
           s.step = "plan_read" => s.held = {},
           s.held = {} \/ (s.want = sess[h].want /\ s.held = sess[h].held)
    PROVE  \A g \in Procs : LocksAscend(g)'
<1>1. sess'[h] = s /\ \A g \in Procs \ {h} : sess'[g] = sess[g]
    BY GoMovesOneSession DEF IInv
<1>2. LocksAscend(h)'
    BY <1>1 DEF LocksAscend
<1>3. ASSUME NEW g \in Procs \ {h} PROVE LocksAscend(g)'
    BY <1>1, <1>3 DEF LocksAscend
<1> QED
    BY <1>2, <1>3

LEMMA LocksFreed ==
    ASSUME IInv, \A g \in Procs : LocksAscend(g), NEW h \in Procs, Go(h, IdleSession)
    PROVE  \A g \in Procs : LocksAscend(g)'
<1>1. /\ IdleSession.op = "none" /\ IdleSession.step = "idle"
      /\ IdleSession.held = {} /\ IdleSession \in SessionType
    BY IdleIsSession DEF IdleSession
<1> QED
    BY <1>1, LocksMove

\* The next lock is the least one the session lacks.
LEMMA LockTakenInOrder ==
    ASSUME IInv, \A g \in Procs : LocksAscend(g), NEW h \in Procs, TakeLock(h)
    PROVE  \A g \in Procs : LocksAscend(g)'
<1>1. PICK p \in Products :
        NextLock(h, p) /\ Go(h, [sess[h] EXCEPT !.held = @ \cup {p}])
    BY DEF TakeLock
<1>2. PICK r \in SessionType : r = sess[h]
    BY DEF IInv, TypeOK
<1>3. PICK H \in SUBSET Products : H = r.held \cup {p}
    BY DEF SessionType
<1> DEFINE s == [r EXCEPT !.held = H]
<1>4. /\ s \in SessionType
      /\ s.op = r.op /\ s.step = r.step /\ s.want = r.want /\ s.held = H
    BY LockedSession
<1>5. Go(h, s) /\ r.step \in {"locking", "relocking"}
    BY <1>1, <1>2, <1>3 DEF TakeLock
<1> HIDE DEF s
<1>6. sess'[h] = s /\ \A g \in Procs \ {h} : sess'[g] = sess[g]
    BY <1>4, <1>5, GoMovesOneSession DEF IInv
<1>7. LocksAscend(h)'
  <2>1. \A a \in H, b \in r.want \ H : a < b
    <3> SUFFICES ASSUME NEW a \in H, NEW b \in r.want \ H PROVE a < b
        OBVIOUS
    <3>1. a \in Nat /\ b \in Nat /\ p \in Nat
        BY ConstantsAssumption DEF SessionType
    <3>2. b \in r.want \ r.held /\ b # p
        BY <1>3
    <3>3. CASE a = p
      <4>1. p <= b
          BY <1>1, <1>2, <3>2 DEF NextLock
      <4> QED
          BY <3>1, <3>2, <3>3, <4>1
    <3>4. CASE a \in r.held
        BY <1>2, <3>2, <3>4 DEF LocksAscend
    <3> QED
        BY <1>3, <3>3, <3>4
  <2>2. LocksAscend(h)
      OBVIOUS
  <2> QED
      BY <1>2, <1>4, <1>5, <1>6, <2>1, <2>2 DEF LocksAscend
<1>8. ASSUME NEW g \in Procs \ {h} PROVE LocksAscend(g)'
    BY <1>6, <1>8 DEF LocksAscend
<1> QED
    BY <1>7, <1>8

\* The commands that start, and what they do before they commit.
LEMMA ReadsKeepOrder ==
    ASSUME IInv, \A g \in Procs : LocksAscend(g), NEW h \in Procs,
           \/ DraftRead(h) \/ DraftCompute(h) \/ ScanCompute(h)
           \/ \E op \in {"decide", "create"} : PlanRead(h, op)
           \/ DecideLines(h) \/ CreateLines(h) \/ DecideCheck(h) \/ CreateCheck(h)
    PROVE  \A g \in Procs : LocksAscend(g)'
<1>1. PICK r \in SessionType : r = sess[h]
    BY DEF IInv, TypeOK
<1>2. LocksAscend(h)
    OBVIOUS
<1>3. CASE DraftRead(h)
  <2> DEFINE s(Q) == [IdleSession EXCEPT !.op = "draft", !.step = "locking",
                                         !.prods = Q, !.want = Q]
  <2>1. PICK Q \in SUBSET Products : Go(h, s(Q))
      BY <1>3 DEF DraftRead
  <2>2. s(Q) \in SessionType /\ s(Q).op = "draft" /\ s(Q).step = "locking"
        /\ s(Q).held = IdleSession.held
      BY IdleIsSession DEF SessionType
  <2>3. IdleSession.held = {}
      BY DEF IdleSession
  <2> HIDE DEF s
  <2> QED
      BY <2>1, <2>2, <2>3, LocksMove
<1>4. CASE ScanCompute(h)
  <2> DEFINE s(Q, b) == [IdleSession EXCEPT !.op = "scan", !.step = "locking", !.prods = Q,
                                            !.want = Q, !.basis = b]
  <2>1. PICK Q \in SUBSET Products, b \in Bases : Go(h, s(Q, b))
      BY <1>4, CurrentBasisType DEF ScanCompute, IInv
  <2>2. s(Q, b) \in SessionType /\ s(Q, b).op = "scan" /\ s(Q, b).step = "locking"
        /\ s(Q, b).held = IdleSession.held
      BY IdleIsSession DEF SessionType, Bases
  <2>3. IdleSession.held = {}
      BY DEF IdleSession
  <2> HIDE DEF s
  <2> QED
      BY <2>1, <2>2, <2>3, LocksMove
<1>5. ASSUME NEW op \in {"decide", "create"}, PlanRead(h, op)
      PROVE  \A g \in Procs : LocksAscend(g)'
  <2> DEFINE s(k, v) == [IdleSession EXCEPT !.op = op, !.step = "plan_read", !.plan = k,
                                            !.seen = v]
  <2>1. PICK k \in Plans : Go(h, s(k, plan[k].version))
      BY <1>5 DEF PlanRead
  <2>2. PICK v \in Nat : v = plan[k].version
    <3>1. plan[k] \in PlanType \/ plan[k] = NoPlan
        BY DEF IInv, TypeOK
    <3>2. plan[k].version \in Nat
        BY <3>1 DEF PlanType, NoPlan
    <3> QED
        BY <3>2
  <2>3. s(k, v) \in SessionType /\ s(k, v).op = op /\ s(k, v).held = IdleSession.held
      BY IdleIsSession DEF SessionType
  <2>4. s(k, v).step = "plan_read" /\ IdleSession.held = {}
      BY DEF IdleSession
  <2>5. Go(h, s(k, v))
      BY <2>1, <2>2
  <2> HIDE DEF s
  <2> QED
      BY <2>3, <2>4, <2>5, LocksMove
<1>6. CASE DecideLines(h) \/ CreateLines(h)
  <2> DEFINE s(W) == [r EXCEPT !.step = "locking", !.want = W]
  <2>1. PICK W \in SUBSET Products : Go(h, s(W))
      BY <1>1, <1>6 DEF DecideLines, CreateLines, ValidLines
  <2>2. s(W) \in SessionType /\ s(W).op = r.op /\ s(W).step = "locking" /\ s(W).held = r.held
      BY DEF SessionType
  <2>3. r.held = {} /\ r.op # "supersede"
      BY <1>1, <1>2, <1>6 DEF DecideLines, CreateLines, At, LocksAscend
  <2> HIDE DEF s
  <2> QED
      BY <2>1, <2>2, <2>3, LocksMove
<1>7. CASE DraftCompute(h)
  <2> DEFINE s(b) == [r EXCEPT !.step = "computed", !.basis = b]
  <2>1. PICK b \in Bases : Go(h, s(b))
    <3>1. WithBasis(r.prods) \in Bases
        BY CurrentBasisType DEF IInv, SessionType
    <3> QED
        BY <1>1, <1>7, <3>1 DEF DraftCompute
  <2>2. s(b) \in SessionType /\ s(b).op = r.op /\ s(b).step = "computed"
        /\ s(b).held = r.held /\ s(b).want = r.want
      BY DEF SessionType, Bases
  <2> HIDE DEF s
  <2> QED
      BY <1>1, <1>2, <2>1, <2>2, LocksMove DEF LocksAscend
<1>8. CASE DecideCheck(h)
  <2> DEFINE s(A) == [r EXCEPT !.step = "checked", !.prods = A]
  <2>1. PICK A \in SUBSET Products : Go(h, s(A))
      BY <1>1, <1>8 DEF DecideCheck, SessionType
  <2>2. s(A) \in SessionType /\ s(A).op = r.op /\ s(A).step = "checked"
        /\ s(A).held = r.held /\ s(A).want = r.want
      BY DEF SessionType
  <2> HIDE DEF s
  <2> QED
      BY <1>1, <1>2, <2>1, <2>2, LocksMove DEF LocksAscend
<1>9. CASE CreateCheck(h)
  <2> DEFINE s == [r EXCEPT !.step = "checked"]
  <2>1. s \in SessionType /\ s.op = r.op /\ s.step = "checked"
        /\ s.held = r.held /\ s.want = r.want
      BY DEF SessionType
  <2>2. Go(h, s)
      BY <1>1, <1>9 DEF CreateCheck
  <2> HIDE DEF s
  <2> QED
      BY <1>1, <1>2, <2>1, <2>2, LocksMove DEF LocksAscend
<1> QED
    BY <1>3, <1>4, <1>5, <1>6, <1>7, <1>8, <1>9

LEMMA NextKeepsOrder ==
    ASSUME IInv, \A g \in Procs : LocksAscend(g), "supersede" \notin Commands, [Next]_vars
    PROVE  \A g \in Procs : LocksAscend(g)'
<1>1. ASSUME NEW h \in Handlers, GenerateDraft(h) PROVE \A g \in Procs : LocksAscend(g)'
    BY <1>1, ReadsKeepOrder, LocksFreed DEF GenerateDraft, DraftBlocked, DraftCommit
<1>2. ASSUME NEW h \in Handlers, DecidePlan(h) PROVE \A g \in Procs : LocksAscend(g)'
    BY <1>2, ReadsKeepOrder, LocksFreed DEF DecidePlan, ApproveCommit, RejectCommit, Decide
<1>3. ASSUME NEW h \in Handlers, CreatePurchaseOrders(h)
      PROVE  \A g \in Procs : LocksAscend(g)'
    BY <1>3, ReadsKeepOrder, LocksFreed DEF CreatePurchaseOrders, CreateCommit
<1>4. ASSUME NEW h \in Procs, RunScan(h) \/ TakeLock(h) \/ Abandon(h)
      PROVE  \A g \in Procs : LocksAscend(g)'
    BY <1>4, ReadsKeepOrder, LockTakenInOrder, LocksFreed DEF RunScan, ScanCommit, Abandon
<1>5. CASE UNCHANGED sess
    BY <1>5 DEF LocksAscend
<1> QED
    BY <1>1, <1>2, <1>3, <1>4, <1>5 DEF Next, InputsChange, OrderGone, OrderBack, vars

\* The session that waits for the greatest product held in S waits for a session
\* that waits for a greater one.
LEMMA AscendingNeverCircles ==
    ASSUME TypeOK, \A g \in Procs : LocksAscend(g), IsFiniteSet(Products) PROVE NoDeadlock
<1> SUFFICES ASSUME NEW S \in SUBSET Procs, S # {},
                    \A g \in S : \E h \in S : WaitsFor(g, h)
             PROVE  FALSE
    BY DEF NoDeadlock
<1> DEFINE T == {p \in Products : \E g, h \in S : WaitsFor(g, h) /\ p \in sess[h].held
                                                /\ NextLock(g, p)}
<1>1. T \subseteq Nat /\ IsFiniteSet(T)
    BY ConstantsAssumption, FS_Subset
<1>2. ASSUME NEW g \in S PROVE \E h \in S, q \in T : q \in sess[h].held /\ NextLock(g, q)
    BY <1>2 DEF WaitsFor, NextLock, TypeOK, SessionType
<1>3. T # {}
    BY <1>2
<1>4. PICK p \in T : \A q \in T : q <= p
  <2>1. T \subseteq Int
      BY <1>1
  <2> HIDE DEF T
  <2> QED
      BY <1>1, <1>3, <2>1, LargestNumber DEF HasLargest
<1>5. PICK h \in S : p \in sess[h].held
    OBVIOUS
<1>6. PICK q \in T : NextLock(h, q)
    BY <1>2
<1>7. p < q
    BY <1>5, <1>6 DEF NextLock, LocksAscend
<1>8. p \in Nat /\ q \in Nat /\ q <= p
    BY <1>1, <1>4
<1> QED
    BY <1>7, <1>8

\* Commands never wait for each other in a circle, whatever products each of them
\* locks: but for revisions, which lock twice.
THEOREM NobodyWaitsInCircle ==
    ASSUME IsFiniteSet(Products), "supersede" \notin Commands
    PROVE  Spec => []NoDeadlock
<1> DEFINE Ascend == \A g \in Procs : LocksAscend(g)
<1>1. Init => Ascend
    BY DEF Init, LocksAscend, IdleSession
<1>2. IInv /\ Ascend /\ [Next]_vars => Ascend'
    BY NextKeepsOrder
<1>3. IInv /\ Ascend => NoDeadlock
    BY AscendingNeverCircles DEF IInv
<1> QED
    BY <1>1, <1>2, <1>3, Invariance, PTL DEF Spec
=============================================================================
