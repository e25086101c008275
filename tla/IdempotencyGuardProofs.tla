----------------------- MODULE IdempotencyGuardProofs -----------------------
(***************************************************************************)
(* The safety properties of IdempotencyGuard, proved for any number of      *)
(* requests, keys and payloads, and any selection of the commands.          *)
(***************************************************************************)
EXTENDS IdempotencyGuard, FiniteSetTheorems, TLAPS

LEMMA InitIInv == Init => IInv
<1> SUFFICES ASSUME Init PROVE IInv
    OBVIOUS
<1>1. TypeOK
    BY GuardConstants DEF Init, TypeOK, RecordType, RequestType, NoRecord, Unsent, Seen, Steps, Final, At
<1>2. \A r \in Requests : req[r] = Unsent
    BY DEF Init
<1>3. \A k \in Keys : record[k] = NoRecord /\ effects[k] = <<>>
    BY DEF Init
<1>4. EffectOncePerKey /\ AnswerIsOwn /\ RollbackEndsCommand
    BY <1>2, <1>3 DEF Unsent, EffectOncePerKey, AnswerIsOwn, RollbackEndsCommand
<1>5. InOneTransaction
    BY <1>2, <1>3 DEF Unsent, InOneTransaction, RecordTellsEffect, HoldsAlone, LookedForDocument, At
<1>6. InThreeTransactions
    BY <1>2, <1>3 DEF Unsent, InThreeTransactions, PlacesUnderLock, CallsAlone, At, NoRecord
<1> QED
    BY <1>1, <1>4, <1>5, <1>6 DEF IInv

----------------------------------------------------------------------------
(* What a step does to its request *)

LEMMA MoveMovesOneRequest ==
    ASSUME req \in [Requests -> RequestType], NEW r \in Requests, NEW q \in RequestType,
           Move(r, q)
    PROVE  /\ req' \in [Requests -> RequestType]
           /\ req'[r] = q
           /\ \A s \in Requests \ {r} : req'[s] = req[s]
BY DEF Move

OneRequestMoves(r) ==
    /\ req' \in [Requests -> RequestType]
    /\ \A s \in Requests \ {r} : req'[s] = req[s]

Answers == Final \cup {"none", "in_progress"}

Verdicts == {"reused", "saved", "failed", "unknown", "in_progress", "proceed"}

LEMMA VerdictType == ASSUME NEW r, NEW saved PROVE Verdict(r, saved) \in Verdicts
BY DEF Verdict, Verdicts

LEMMA GoMoves ==
    ASSUME TypeOK, NEW r \in Requests, NEW step \in Steps, Go(r, step)
    PROVE  /\ OneRequestMoves(r)
           /\ req'[r].step = step
           /\ req'[r].key = req[r].key /\ req'[r].payload = req[r].payload
           /\ req'[r].seen = req[r].seen /\ req'[r].rolled = req[r].rolled /\ req'[r].answer = req[r].answer
<1> DEFINE n == [req[r] EXCEPT !.step = step]
<1>1. req \in [Requests -> RequestType] /\ req[r] \in RequestType
    BY DEF TypeOK
<1>2. n \in RequestType
    BY <1>1 DEF RequestType
<1>3. /\ n.step = step
      /\ n.key = req[r].key /\ n.payload = req[r].payload
      /\ n.seen = req[r].seen /\ n.rolled = req[r].rolled /\ n.answer = req[r].answer
    BY <1>1 DEF RequestType
<1>4. Move(r, n)
    BY DEF Go
<1>5. OneRequestMoves(r) /\ req'[r] = n
    BY <1>1, <1>2, <1>4, MoveMovesOneRequest DEF OneRequestMoves
<1> QED
    BY <1>3, <1>5

LEMMA AnswerMoves ==
    ASSUME TypeOK, NEW r \in Requests, NEW answer \in Answers, Answer(r, answer)
    PROVE  /\ OneRequestMoves(r)
           /\ req'[r].step = "answered" /\ req'[r].answer = answer
           /\ req'[r].key = req[r].key /\ req'[r].payload = req[r].payload
           /\ req'[r].seen = req[r].seen /\ req'[r].rolled = req[r].rolled
<1> DEFINE n == [req[r] EXCEPT !.step = "answered", !.answer = answer]
<1>1. req \in [Requests -> RequestType] /\ req[r] \in RequestType /\ "answered" \in Steps
    BY DEF TypeOK, Steps
<1>2. n \in RequestType
    BY <1>1 DEF RequestType, Answers
<1>3. /\ n.step = "answered" /\ n.answer = answer
      /\ n.key = req[r].key /\ n.payload = req[r].payload
      /\ n.seen = req[r].seen /\ n.rolled = req[r].rolled
    BY <1>1 DEF RequestType, Answers
<1>4. Move(r, n)
    BY DEF Answer
<1>5. OneRequestMoves(r) /\ req'[r] = n
    BY <1>1, <1>2, <1>4, MoveMovesOneRequest DEF OneRequestMoves
<1> QED
    BY <1>3, <1>5

LEMMA SendMoves ==
    ASSUME TypeOK, NEW r \in Requests, NEW k \in Keys, NEW p \in Payloads, Send(r, k, p)
    PROVE  /\ OneRequestMoves(r)
           /\ req'[r].step = "sent" /\ req'[r].key = k /\ req'[r].payload = p
           /\ req'[r].answer = "none" /\ ~req'[r].rolled /\ req'[r].seen = "none"
<1> DEFINE n == [Unsent EXCEPT !.step = "sent", !.key = k, !.payload = p]
<1>1. req \in [Requests -> RequestType] /\ req[r] \in RequestType
    BY DEF TypeOK
<1>2. n \in RequestType
    BY <1>1 DEF RequestType, Unsent, Steps, Seen, Final
<1>3. /\ n.step = "sent" /\ n.key = k /\ n.payload = p
      /\ n.answer = "none" /\ ~n.rolled /\ n.seen = "none"
    BY <1>1 DEF RequestType, Unsent, Steps, Seen, Final
<1>4. Move(r, n)
    BY DEF Send
<1>5. OneRequestMoves(r) /\ req'[r] = n
    BY <1>1, <1>2, <1>4, MoveMovesOneRequest DEF OneRequestMoves
<1> QED
    BY <1>3, <1>5

LEMMA BreakMoves ==
    ASSUME TypeOK, NEW r \in Requests, Break(r)
    PROVE  /\ OneRequestMoves(r)
           /\ req'[r].step = "sent" /\ req'[r].answer = "none"
           /\ req'[r].key = req[r].key /\ req'[r].payload = req[r].payload
           /\ req'[r].seen = req[r].seen /\ req'[r].rolled = req[r].rolled
<1> DEFINE n == [req[r] EXCEPT !.step = "sent", !.answer = "none"]
<1>1. req \in [Requests -> RequestType] /\ req[r] \in RequestType
    BY DEF TypeOK
<1>2. n \in RequestType
    BY <1>1 DEF RequestType, Steps
<1>3. /\ n.step = "sent" /\ n.answer = "none"
      /\ n.key = req[r].key /\ n.payload = req[r].payload
      /\ n.seen = req[r].seen /\ n.rolled = req[r].rolled
    BY <1>1 DEF RequestType, Steps
<1>4. Move(r, n)
    BY DEF Break
<1>5. OneRequestMoves(r) /\ req'[r] = n
    BY <1>1, <1>2, <1>4, MoveMovesOneRequest DEF OneRequestMoves
<1> QED
    BY <1>3, <1>5

LEMMA LookMoves ==
    ASSUME TypeOK, NEW r \in Requests, LookForDocument(r)
    PROVE  /\ OneRequestMoves(r)
           /\ req'[r].step = "ready" /\ req'[r].seen = IF Imported(req[r].payload) THEN "there" ELSE "missing"
           /\ req'[r].key = req[r].key /\ req'[r].payload = req[r].payload
           /\ req'[r].rolled = req[r].rolled /\ req'[r].answer = req[r].answer
<1> DEFINE n == [req[r] EXCEPT !.step = "ready",
                   !.seen = IF Imported(req[r].payload) THEN "there" ELSE "missing"]
<1>1. req \in [Requests -> RequestType] /\ req[r] \in RequestType
    BY DEF TypeOK
<1>2. n \in RequestType
    BY <1>1 DEF RequestType, Steps, Seen
<1>3. /\ n.step = "ready" /\ n.seen = IF Imported(req[r].payload) THEN "there" ELSE "missing"
      /\ n.key = req[r].key /\ n.payload = req[r].payload
      /\ n.rolled = req[r].rolled /\ n.answer = req[r].answer
    BY <1>1 DEF RequestType, Steps, Seen
<1>4. Move(r, n)
    BY DEF LookForDocument
<1>5. OneRequestMoves(r) /\ req'[r] = n
    BY <1>1, <1>2, <1>4, MoveMovesOneRequest DEF OneRequestMoves
<1> QED
    BY <1>3, <1>5

LEMMA JudgeMoves ==
    ASSUME TypeOK, NEW r \in Requests, NEW rolled \in BOOLEAN, NEW verdict \in Verdicts,
           verdict = Verdict(r, record[req[r].key]), Judge(r, rolled)
    PROVE  /\ OneRequestMoves(r)
           /\ req'[r].step = IF verdict = "proceed" THEN "begun" ELSE "answered"
           /\ req'[r].answer = IF verdict = "proceed" THEN req[r].answer ELSE verdict
           /\ req'[r].key = req[r].key /\ req'[r].payload = req[r].payload
           /\ req'[r].rolled = rolled /\ req'[r].seen = req[r].seen
<1> DEFINE n == [req[r] EXCEPT !.step = IF verdict = "proceed" THEN "begun" ELSE "answered",
                   !.answer = IF verdict = "proceed" THEN @ ELSE verdict,
                   !.rolled = rolled]
<1>1. req \in [Requests -> RequestType] /\ req[r] \in RequestType
    BY DEF TypeOK
<1>2. n \in RequestType
  <2> DEFINE step == IF verdict = "proceed" THEN "begun" ELSE "answered"
             answer == IF verdict = "proceed" THEN req[r].answer ELSE verdict
  <2>1. step \in Steps
      BY DEF Steps
  <2>2. answer \in Final \cup {"none", "in_progress"}
      BY <1>1 DEF RequestType, Verdicts, Final
  <2>3. n = [req[r] EXCEPT !.step = step, !.answer = answer, !.rolled = rolled]
      BY <1>1 DEF RequestType
  <2> HIDE DEF n, step, answer
  <2> QED
      BY <1>1, <2>1, <2>2, <2>3 DEF RequestType
<1>3. /\ n.step = IF verdict = "proceed" THEN "begun" ELSE "answered"
      /\ n.answer = IF verdict = "proceed" THEN req[r].answer ELSE verdict
      /\ n.key = req[r].key /\ n.payload = req[r].payload
      /\ n.rolled = rolled /\ n.seen = req[r].seen
    BY <1>1 DEF RequestType, Verdicts, Steps, Final
<1>4. Move(r, n)
    BY DEF Judge
<1>5. OneRequestMoves(r) /\ req'[r] = n
    BY <1>1, <1>2, <1>4, MoveMovesOneRequest DEF OneRequestMoves
<1> QED
    BY <1>3, <1>5

LEMMA ReadMoves ==
    ASSUME TypeOK, NEW r \in Requests, Read(r), ~(CheckedFirst /\ status # "before")
    PROVE  /\ OneRequestMoves(r)
           /\ req'[r].step = IF command = "place" THEN "locking" ELSE "finding"
           /\ req'[r].key = req[r].key /\ req'[r].payload = req[r].payload
           /\ req'[r].seen = status /\ ~req'[r].rolled /\ req'[r].answer = req[r].answer
<1> DEFINE n == [req[r] EXCEPT !.step = IF command = "place" THEN "locking" ELSE "finding",
                   !.seen = status, !.rolled = FALSE]
<1>1. req \in [Requests -> RequestType] /\ req[r] \in RequestType /\ status \in Seen
    BY DEF TypeOK, Seen
<1>2. n \in RequestType
    BY <1>1 DEF RequestType, Steps
<1>3. /\ n.step = IF command = "place" THEN "locking" ELSE "finding"
      /\ n.key = req[r].key /\ n.payload = req[r].payload
      /\ n.seen = status /\ ~n.rolled /\ n.answer = req[r].answer
    BY <1>1 DEF RequestType, Steps
<1>4. Move(r, n)
    BY DEF Read
<1>5. OneRequestMoves(r) /\ req'[r] = n
    BY <1>1, <1>2, <1>4, MoveMovesOneRequest DEF OneRequestMoves
<1> QED
    BY <1>3, <1>5

LEMMA RequestsKeepTheirType ==
    ASSUME TypeOK, NEW r \in Requests, OneRequestMoves(r),
           req'[r].step # "idle", req'[r].key \in Keys, req'[r].payload \in Payloads
    PROVE  /\ req' \in [Requests -> RequestType]
           /\ \A s \in Requests :
                  IF At(s, "idle")' THEN req'[s] = Unsent
                  ELSE req'[s].key \in Keys /\ req'[s].payload \in Payloads
BY DEF TypeOK, OneRequestMoves, At

LEMMA NextTypeOK == TypeOK /\ Next => TypeOK'
<1> SUFFICES ASSUME TypeOK, Next PROVE TypeOK'
    OBVIOUS
<1>1. ASSUME NEW r \in Requests, NEW k \in Keys, NEW p \in Payloads, Send(r, k, p)
      PROVE  TypeOK'
  <2>1. OneRequestMoves(r) /\ req'[r].step = "sent" /\ req'[r].key = k /\ req'[r].payload = p
      BY <1>1, SendMoves
  <2> QED
      BY <1>1, <2>1, RequestsKeepTheirType DEF TypeOK, Send
<1>2. ASSUME NEW r \in Requests, Read(r) PROVE TypeOK'
  <2>1. /\ OneRequestMoves(r) /\ req'[r].step # "idle"
        /\ req'[r].key = req[r].key /\ req'[r].payload = req[r].payload
    <3>1. CASE CheckedFirst /\ status # "before"
        BY <1>2, <3>1, AnswerMoves DEF Read, Answers, Final
    <3>2. CASE ~(CheckedFirst /\ status # "before")
        BY <1>2, <3>2, ReadMoves
    <3> QED
        BY <3>1, <3>2
  <2> QED
      BY <1>2, <2>1, RequestsKeepTheirType DEF TypeOK, Read, At
<1>3. ASSUME NEW r \in Requests, TakeLock(r) PROVE TypeOK'
  <2>1. /\ OneRequestMoves(r) /\ req'[r].step # "idle"
        /\ req'[r].key = req[r].key /\ req'[r].payload = req[r].payload
      BY <1>3, GoMoves DEF TakeLock, Steps
  <2> QED
      BY <1>3, <2>1, RequestsKeepTheirType DEF TypeOK, TakeLock, At
<1>4. ASSUME NEW r \in Requests, NEW rolled \in BOOLEAN, Judge(r, rolled), ~At(r, "idle"),
             UNCHANGED <<command, status, record, effects, faults>>
      PROVE  TypeOK'
  <2>1. /\ OneRequestMoves(r) /\ req'[r].step # "idle"
        /\ req'[r].key = req[r].key /\ req'[r].payload = req[r].payload
      BY <1>4, VerdictType, JudgeMoves
  <2>2. lock' \in Requests \cup {"free"}
      BY <1>4 DEF Judge, Released, TypeOK
  <2> QED
      BY <1>4, <2>1, <2>2, RequestsKeepTheirType DEF TypeOK
<1>5. ASSUME NEW r \in Requests, FindNothing(r) \/ Insert(r) \/ CheckClose(r) \/ AskAgain(r)
      PROVE TypeOK'
  <2>1. /\ OneRequestMoves(r) /\ req'[r].step # "idle"
        /\ req'[r].key = req[r].key /\ req'[r].payload = req[r].payload
      BY <1>5, GoMoves DEF FindNothing, Insert, CheckClose, AskAgain, Steps
  <2> QED
      BY <1>5, <2>1, RequestsKeepTheirType
      DEF TypeOK, FindNothing, Insert, CheckClose, AskAgain, At
<1>6. ASSUME NEW r \in Requests, LookForDocument(r) PROVE TypeOK'
    BY <1>6, LookMoves, RequestsKeepTheirType DEF TypeOK, LookForDocument, At
<1>7. ASSUME NEW r \in Requests, Commit(r) PROVE TypeOK'
  <2>1. /\ OneRequestMoves(r) /\ req'[r].step # "idle"
        /\ req'[r].key = req[r].key /\ req'[r].payload = req[r].payload
      BY <1>7, AnswerMoves DEF Commit, Answers, Final
  <2>2. req[r] \in RequestType /\ req[r].key \in Keys /\ req[r].payload \in Payloads
      BY <1>7 DEF Commit, TypeOK, At
  <2>3. record' \in [Keys -> RecordType]
    <3>1. [hash |-> Hash(r), status |-> "succeeded", leased |-> FALSE] \in RecordType
        BY <2>2 DEF Hash, RecordType, RequestType, Seen
    <3> QED
        BY <1>7, <2>2, <3>1 DEF Commit, TypeOK
  <2>4. effects' \in [Keys -> Seq(Payloads)]
    <3>1. Effect(r) \in Seq(Payloads)
        BY <2>2 DEF Effect
    <3>2. effects[req[r].key] \o Effect(r) \in Seq(Payloads)
        BY <2>2, <3>1 DEF TypeOK
    <3> QED
        BY <1>7, <2>2, <3>2 DEF Commit, TypeOK
  <2>5. lock' \in Requests \cup {"free"}
      BY <1>7 DEF Commit, Released, TypeOK
  <2> QED
      BY <1>7, <2>1, <2>2, <2>3, <2>4, <2>5, RequestsKeepTheirType DEF TypeOK, Commit
<1>8. ASSUME NEW r \in Requests, Refuse(r) PROVE TypeOK'
  <2>1. /\ OneRequestMoves(r) /\ req'[r].step # "idle"
        /\ req'[r].key = req[r].key /\ req'[r].payload = req[r].payload
      BY <1>8, AnswerMoves DEF Refuse, Answers, Final
  <2>2. lock' \in Requests \cup {"free"}
      BY <1>8 DEF Refuse, Released, TypeOK
  <2> QED
      BY <1>8, <2>1, <2>2, RequestsKeepTheirType DEF TypeOK, Refuse, At
<1>9. ASSUME NEW r \in Requests, CommitAttempt(r) PROVE TypeOK'
  <2>1. /\ OneRequestMoves(r) /\ req'[r].step # "idle"
        /\ req'[r].key = req[r].key /\ req'[r].payload = req[r].payload
      BY <1>9, GoMoves DEF CommitAttempt, Steps
  <2>2. req[r] \in RequestType /\ req[r].key \in Keys /\ req[r].payload \in Payloads
      BY <1>9 DEF CommitAttempt, TypeOK, At
  <2>3. record' \in [Keys -> RecordType]
    <3>1. [hash |-> Hash(r), status |-> "in_progress", leased |-> TRUE] \in RecordType
        BY <2>2 DEF Hash, RecordType, RequestType, Seen
    <3> QED
        BY <1>9, <2>2, <3>1 DEF CommitAttempt, TypeOK
  <2>4. effects' \in [Keys -> Seq(Payloads)]
      BY <1>9, <2>2 DEF CommitAttempt, TypeOK
  <2>5. lock' \in Requests \cup {"free"}
      BY <1>9 DEF CommitAttempt, Released, TypeOK
  <2> QED
      BY <1>9, <2>1, <2>2, <2>3, <2>4, <2>5, RequestsKeepTheirType DEF TypeOK, CommitAttempt
<1>10. ASSUME NEW r \in Requests, NEW outcome, WriteBack(r, outcome) PROVE TypeOK'
  <2>1. /\ OneRequestMoves(r) /\ req'[r].step # "idle"
        /\ req'[r].key = req[r].key /\ req'[r].payload = req[r].payload
      BY <1>10, AnswerMoves DEF WriteBack, Answers, Final
  <2>2. status' \in {"before", "between", "after"}
      BY <1>10 DEF WriteBack, TypeOK
  <2> QED
      BY <1>10, <2>1, <2>2, RequestsKeepTheirType DEF TypeOK, WriteBack, At
<1>11. ASSUME NEW to \in {"before", "after"}, Recover(to) PROVE TypeOK'
    BY <1>11 DEF Recover, TypeOK, At
<1>12. ASSUME NEW k \in Keys, LeaseEnds(k) PROVE TypeOK'
  <2>1. [record[k] EXCEPT !.leased = FALSE] \in RecordType
    <3> DEFINE Hashes == (Payloads \cup {"none"}) \X Seen
    <3>1. record[k] \in [hash : Hashes, status : {"none", "in_progress", "succeeded"}, leased : BOOLEAN]
        BY DEF TypeOK, RecordType
    <3> HIDE DEF Hashes
    <3>2. [record[k] EXCEPT !.leased = FALSE]
              \in [hash : Hashes, status : {"none", "in_progress", "succeeded"}, leased : BOOLEAN]
        BY <3>1
    <3> QED
        BY <3>2 DEF Hashes, RecordType
  <2>2. record' \in [Keys -> RecordType]
      BY <1>12, <2>1 DEF LeaseEnds, TypeOK
  <2> QED
      BY <1>12, <2>2 DEF LeaseEnds, TypeOK, At
<1>13. ASSUME NEW r \in Requests, Break(r) PROVE TypeOK'
  <2>1. lock' \in Requests \cup {"free"} /\ faults' \in 0 .. MaxFaults
      BY <1>13, GuardConstants DEF Break, Released, TypeOK
  <2> QED
      BY <1>13, <2>1, BreakMoves, RequestsKeepTheirType DEF TypeOK, Break, At
<1> QED
    BY <1>1, <1>2, <1>3, <1>4, <1>5, <1>6, <1>7, <1>8, <1>9, <1>10, <1>11, <1>12, <1>13
    DEF Next, Serve, Find, Collide, At
----------------------------------------------------------------------------
(* Commands of one transaction *)

InvariantOfOne == InOneTransaction /\ EffectOncePerKey /\ AnswerIsOwn /\ RollbackEndsCommand

LEMMA ImportedUnderKey ==
    ASSUME NEW k \in Keys, NEW p, effects[k] = <<p>> PROVE Imported(p)
<1>1. 1 \in DOMAIN effects[k] /\ effects[k][1] = p
    OBVIOUS
<1> QED
    BY <1>1 DEF Imported

\* A step that writes no record and no effect: what it must see to for its request.
LEMMA QuietStepOfOne ==
    ASSUME TypeOK, InvariantOfOne, NEW r \in Requests, OneRequestMoves(r),
           UNCHANGED <<command, record, effects>>,
           req'[r].step \in {"begun", "ready"} =>
               /\ req'[r].key = req[r].key
               /\ \/ req[r].step \in {"begun", "ready"}
                  \/ record[req[r].key] = NoRecord /\ Holders(req[r].key) = {},
           req'[r].step # "calling",
           command = "import" /\ req'[r].step = "ready" => req'[r].seen \in {"there", "missing"},
           req'[r].seen = "there" => command = "import" /\ Imported(req'[r].payload),
           req'[r].answer = "saved" =>
               IF command = "import" THEN Imported(req'[r].payload)
               ELSE effects[req'[r].key] = <<req'[r].payload>>,
           req'[r].rolled => req'[r].step \in {"sent", "answered"}
    PROVE  InvariantOfOne'
<1>1. \A p : Imported(p)' <=> Imported(p)
    BY DEF Imported
<1>2. \A k \in Keys : RecordTellsEffect(k)'
    BY <1>1 DEF InvariantOfOne, InOneTransaction, RecordTellsEffect
<1>3. \A s \in Requests : HoldsAlone(s)'
    BY DEF InvariantOfOne, InOneTransaction, HoldsAlone, Holders, OneRequestMoves
<1>4. \A s \in Requests : LookedForDocument(s)' /\ ~At(s, "calling")'
    BY <1>1 DEF InvariantOfOne, InOneTransaction, LookedForDocument, At, OneRequestMoves
<1>5. EffectOncePerKey'
    BY DEF InvariantOfOne, EffectOncePerKey
<1>6. AnswerIsOwn'
    BY <1>1 DEF InvariantOfOne, AnswerIsOwn, OneRequestMoves
<1>7. RollbackEndsCommand'
    BY DEF InvariantOfOne, RollbackEndsCommand, OneRequestMoves
<1> QED
    BY <1>2, <1>3, <1>4, <1>5, <1>6, <1>7 DEF InvariantOfOne, InOneTransaction

LEMMA JudgeOfOne ==
    ASSUME TypeOK, command # "place", InvariantOfOne, NEW r \in Requests, NEW rolled \in BOOLEAN,
           ~At(r, "idle"), record[req[r].key] # NoRecord, Judge(r, rolled),
           UNCHANGED <<command, record, effects>>
    PROVE  InvariantOfOne'
<1> DEFINE k == req[r].key
           verdict == Verdict(r, record[k])
<1>1. k \in Keys /\ verdict \in Verdicts
    BY VerdictType DEF TypeOK
<1>2. record[k].status = "succeeded" /\ RecordTellsEffect(k)
    BY <1>1 DEF InvariantOfOne, InOneTransaction, RecordTellsEffect
<1>3. verdict \in {"reused", "saved"}
    BY <1>2 DEF Verdict
<1>4. verdict = "saved" => record[k].hash = Hash(r)
    BY DEF Verdict
<1>5. verdict = "saved" => IF command = "import" THEN Imported(req[r].payload)
                           ELSE effects[k] = <<req[r].payload>>
  <2>1. Hash(r)[1] = req[r].payload
      BY DEF Hash
  <2> QED
      BY <1>2, <1>4, <2>1 DEF RecordTellsEffect
<1> HIDE DEF verdict
<1>6. /\ OneRequestMoves(r)
      /\ req'[r].step = "answered" /\ req'[r].answer = verdict
      /\ req'[r].key = k /\ req'[r].payload = req[r].payload
      /\ req'[r].rolled = rolled /\ req'[r].seen = req[r].seen
    BY <1>1, <1>3, JudgeMoves DEF verdict
<1>7. req[r].seen = "there" => command = "import" /\ Imported(req[r].payload)
    BY DEF InvariantOfOne, InOneTransaction, LookedForDocument
<1> QED
    BY <1>5, <1>6, <1>7, QuietStepOfOne

LEMMA Singleton == ASSUME NEW x PROVE <<x>> # <<>> /\ Len(<<x>>) <= 1 /\ Len(<<>>) <= 1
OBVIOUS

LEMMA CommitOfOne ==
    ASSUME TypeOK, command # "place", InvariantOfOne, NEW r \in Requests, Commit(r),
           NEW k \in Keys, NEW p \in Payloads, k = req[r].key, p = req[r].payload
    PROVE  InvariantOfOne'
<1> DEFINE there == req[r].seen = "there"
<1>1. req[r].step = "ready" /\ command' = command
    BY DEF Commit, At
<1>2. record[k] = NoRecord /\ effects[k] = <<>>
    BY <1>1 DEF InvariantOfOne, InOneTransaction, HoldsAlone, RecordTellsEffect
<1>3. /\ there => command = "import" /\ Imported(p)
      /\ command = "import" /\ ~there => ~Imported(p)
    BY <1>1 DEF InvariantOfOne, InOneTransaction, LookedForDocument, Commit, NoDuplicate, At
<1>4. /\ \A j \in Keys \ {k} : effects'[j] = effects[j]
      /\ effects'[k] = IF there THEN <<>> ELSE <<p>>
    BY <1>1, <1>2 DEF Commit, Effect, TypeOK
<1>5. /\ \A j \in Keys \ {k} : record'[j] = record[j]
      /\ record'[k] = [hash |-> Hash(r), status |-> "succeeded", leased |-> FALSE]
    BY <1>1 DEF Commit, TypeOK
<1>6. \A q : Imported(q) => Imported(q)'
    BY <1>2, <1>4 DEF Imported
<1>7. Imported(p)'
  <2>1. CASE there
      BY <1>3, <1>6, <2>1
  <2>2. CASE ~there
    <3>1. 1 \in DOMAIN effects'[k] /\ effects'[k][1] = p
        BY <1>4, <2>2
    <3> QED
        BY <1>1, <3>1 DEF Imported
  <2> QED
      BY <2>1, <2>2
<1>8. /\ OneRequestMoves(r)
      /\ req'[r].step = "answered" /\ req'[r].answer = "done"
      /\ req'[r].key = k /\ req'[r].payload = p
      /\ req'[r].rolled = req[r].rolled /\ req'[r].seen = req[r].seen
    BY AnswerMoves DEF Commit, Answers, Final
<1> HIDE DEF there
<1>9. \A j \in Keys : RecordTellsEffect(j)'
  <2> SUFFICES ASSUME NEW j \in Keys PROVE RecordTellsEffect(j)'
      OBVIOUS
  <2>1. CASE j = k
    <3>1. record'[k] # NoRecord /\ record'[k].status = "succeeded" /\ record'[k].hash[1] = p
        BY <1>5 DEF NoRecord, Hash
    <3> QED
        BY <1>1, <1>3, <1>4, <1>7, <2>1, <3>1 DEF RecordTellsEffect
  <2>2. CASE j # k
    <3>1. RecordTellsEffect(j) /\ record'[j] = record[j] /\ effects'[j] = effects[j]
        BY <1>4, <1>5, <2>2 DEF InvariantOfOne, InOneTransaction
    <3> QED
        BY <1>1, <1>6, <3>1 DEF RecordTellsEffect
  <2> QED
      BY <2>1, <2>2
<1>10. \A s \in Requests : HoldsAlone(s)'
  <2> SUFFICES ASSUME NEW s \in Requests, s # r, req[s].step \in {"begun", "ready"}
               PROVE  /\ record'[req[s].key] = NoRecord
                      /\ \A t \in Requests \ {r, s} :
                             req[t].step \in {"begun", "ready"} => req[t].key # req[s].key
      BY <1>8 DEF HoldsAlone, OneRequestMoves
  <2>1. HoldsAlone(s) /\ req[s].key \in Keys
      BY DEF InvariantOfOne, InOneTransaction, TypeOK, At
  <2>2. req[s].key # k
      BY <1>1, <2>1 DEF HoldsAlone
  <2> QED
      BY <1>5, <2>1, <2>2 DEF HoldsAlone
<1>11. \A s \in Requests : LookedForDocument(s)' /\ ~At(s, "calling")'
  <2>1. \A s \in Requests : LookedForDocument(s) /\ ~At(s, "calling")
      BY DEF InvariantOfOne, InOneTransaction
  <2> QED
      BY <1>1, <1>6, <1>7, <1>8, <2>1 DEF LookedForDocument, OneRequestMoves, At
<1>12. EffectOncePerKey'
  <2>1. ASSUME NEW j \in Keys PROVE Len(effects'[j]) <= 1
    <3>1. CASE j = k
      <4>1. effects'[k] = <<>> \/ effects'[k] = <<p>>
          BY <1>4
      <4>2. Len(effects'[k]) <= 1
          BY <4>1, Singleton, Zenon
      <4> QED
          BY <3>1, <4>2
    <3>2. CASE j # k
        BY <1>4, <3>2 DEF InvariantOfOne, EffectOncePerKey
    <3> QED
        BY <3>1, <3>2
  <2>2. ASSUME command = "import", NEW i \in Keys, NEW j \in Keys,
               effects'[i] = effects'[j], effects'[j] # <<>>
        PROVE  i = j
    <3>1. \A m \in Keys \ {k} : effects[m] = <<p>> => there
        BY <1>3, <2>2, ImportedUnderKey
    <3>2. \A m \in Keys \ {k} : effects'[k] # <<>> => effects'[m] # effects'[k]
        BY <1>4, <3>1
    <3>3. i # k /\ j # k => i = j
        BY <1>4, <2>2 DEF InvariantOfOne, EffectOncePerKey
    <3> QED
        BY <2>2, <3>2, <3>3
  <2> QED
      BY <1>1, <2>1, <2>2 DEF EffectOncePerKey
<1>13. AnswerIsOwn'
  <2> SUFFICES ASSUME NEW s \in Requests, s # r, req[s].answer = "saved"
               PROVE  IF command = "import" THEN Imported(req[s].payload)'
                      ELSE effects'[req[s].key] = <<req[s].payload>>
      BY <1>1, <1>8 DEF AnswerIsOwn, OneRequestMoves
  <2>1. IF command = "import" THEN Imported(req[s].payload)
        ELSE effects[req[s].key] = <<req[s].payload>>
      BY DEF InvariantOfOne, AnswerIsOwn
  <2>2. CASE command = "import"
    <3>1. req'[s].payload = req[s].payload
        BY <1>8 DEF OneRequestMoves
    <3> QED
        BY <1>6, <2>1, <2>2, <3>1
  <2>3. CASE command # "import"
    <3>1. req[s].key \in Keys
        BY DEF TypeOK, Unsent, At
    <3>2. req[s].key # k
        BY <1>2, <2>1, <2>3, Singleton
    <3> QED
        BY <1>4, <2>1, <2>3, <3>1, <3>2
  <2> QED
      BY <2>2, <2>3
<1>14. RollbackEndsCommand'
    BY <1>8 DEF InvariantOfOne, RollbackEndsCommand, OneRequestMoves
<1> QED
    BY <1>9, <1>10, <1>11, <1>12, <1>13, <1>14 DEF InvariantOfOne, InOneTransaction

LEMMA NextOfOne ==
    ASSUME TypeOK, command # "place", InvariantOfOne, Next
    PROVE  InvariantOfOne'
<1>a. \A r \in Requests :
          /\ req[r].rolled => req[r].step \in {"sent", "answered"}
          /\ req[r].seen = "there" => command = "import" /\ Imported(req[r].payload)
          /\ command = "import" /\ At(r, "ready") => req[r].seen \in {"there", "missing"}
          /\ req[r].answer = "saved" =>
                 IF command = "import" THEN Imported(req[r].payload)
                 ELSE effects[req[r].key] = <<req[r].payload>>
    BY DEF InvariantOfOne, InOneTransaction, LookedForDocument, AnswerIsOwn, RollbackEndsCommand
<1>1. ASSUME NEW r \in Requests, NEW k \in Keys, NEW p \in Payloads, Send(r, k, p)
      PROVE  InvariantOfOne'
  <2>1. /\ OneRequestMoves(r) /\ req'[r].step = "sent" /\ req'[r].answer = "none"
        /\ ~req'[r].rolled /\ req'[r].seen = "none"
      BY <1>1, SendMoves
  <2> QED
      BY <1>1, <2>1, QuietStepOfOne DEF Send
<1>2. ASSUME NEW r \in Requests, Read(r) PROVE InvariantOfOne'
  <2>1. CASE CheckedFirst /\ status # "before"
    <3>1. /\ OneRequestMoves(r) /\ req'[r].step = "answered" /\ req'[r].answer = "refused"
          /\ req'[r].seen = req[r].seen /\ req'[r].payload = req[r].payload
        BY <1>2, <2>1, AnswerMoves DEF Read, Answers, Final
    <3> QED
        BY <1>2, <1>a, <3>1, QuietStepOfOne DEF Read
  <2>2. CASE ~(CheckedFirst /\ status # "before")
    <3>1. /\ OneRequestMoves(r) /\ req'[r].step \in {"locking", "finding"}
          /\ req'[r].seen = status /\ ~req'[r].rolled /\ req'[r].answer = req[r].answer
          /\ req'[r].key = req[r].key /\ req'[r].payload = req[r].payload
        BY <1>2, <2>2, ReadMoves
    <3>2. status # "there"
        BY DEF TypeOK
    <3> QED
        BY <1>2, <1>a, <3>1, <3>2, QuietStepOfOne DEF Read
  <2> QED
      BY <2>1, <2>2
<1>3. ASSUME NEW r \in Requests, NEW step \in Steps, Go(r, step),
             UNCHANGED <<command, record, effects>>,
             step = "begun" => record[req[r].key] = NoRecord /\ Holders(req[r].key) = {},
             step # "calling", step = "ready" => At(r, "begun") /\ command # "import",
             req[r].rolled => step = "sent"
      PROVE  InvariantOfOne'
    BY <1>3, <1>a, GoMoves, QuietStepOfOne DEF At
<1>4. ASSUME NEW r \in Requests, TakeLock(r) PROVE InvariantOfOne'
    BY <1>4, <1>3, <1>a DEF TakeLock, At, Steps
<1>5. ASSUME NEW r \in Requests, Find(r) PROVE InvariantOfOne'
    BY <1>5, JudgeOfOne DEF Find, At
<1>6. ASSUME NEW r \in Requests, Collide(r) PROVE InvariantOfOne'
    BY <1>6, JudgeOfOne DEF Collide, At
<1>7. ASSUME NEW r \in Requests, FindNothing(r) \/ Insert(r) \/ CheckClose(r) \/ AskAgain(r)
      PROVE InvariantOfOne'
    BY <1>7, <1>3, <1>a DEF FindNothing, Insert, MayInsert, CheckClose, AskAgain, At, Steps
<1>8. ASSUME NEW r \in Requests, LookForDocument(r) PROVE InvariantOfOne'
  <2>1. /\ OneRequestMoves(r) /\ req'[r].step = "ready"
        /\ req'[r].seen = IF Imported(req[r].payload) THEN "there" ELSE "missing"
        /\ req'[r].key = req[r].key /\ req'[r].payload = req[r].payload
        /\ req'[r].rolled = req[r].rolled /\ req'[r].answer = req[r].answer
      BY <1>8, LookMoves
  <2>2. req[r].step = "begun" /\ command = "import" /\ UNCHANGED <<command, record, effects>>
      BY <1>8 DEF LookForDocument, At
  <2> QED
      BY <1>a, <2>1, <2>2, QuietStepOfOne
<1>9. ASSUME NEW r \in Requests, NEW answer \in Answers \ {"saved"}, Answer(r, answer),
             UNCHANGED <<command, record, effects>>
      PROVE  InvariantOfOne'
    BY <1>9, <1>a, AnswerMoves, QuietStepOfOne
<1>10. ASSUME NEW r \in Requests, Refuse(r) PROVE InvariantOfOne'
    BY <1>10, <1>9 DEF Refuse, Answers, Final
<1>11. ASSUME NEW r \in Requests, NEW outcome, WriteBack(r, outcome) PROVE InvariantOfOne'
    BY <1>11, <1>9 DEF WriteBack, Answers, Final
<1>12. ASSUME NEW r \in Requests, Break(r) PROVE InvariantOfOne'
    BY <1>12, <1>a, BreakMoves, QuietStepOfOne DEF Break
<1>13. ASSUME NEW r \in Requests, Commit(r) PROVE InvariantOfOne'
  <2>1. req[r].key \in Keys /\ req[r].payload \in Payloads
      BY <1>13 DEF Commit, TypeOK, At
  <2> QED
      BY <1>13, <2>1, CommitOfOne
<1>14. ASSUME NEW to, Recover(to) PROVE InvariantOfOne'
    BY <1>14 DEF Recover, InvariantOfOne, InOneTransaction, RecordTellsEffect, HoldsAlone,
                 LookedForDocument, Imported, EffectOncePerKey, AnswerIsOwn, RollbackEndsCommand, At
<1>15. ASSUME NEW k \in Keys, LeaseEnds(k) PROVE InvariantOfOne'
  <2>1. record[k].status = "succeeded"
      BY <1>15 DEF LeaseEnds, InvariantOfOne, InOneTransaction, RecordTellsEffect, NoRecord
  <2>2. record'[k].leased = FALSE /\ record'[k].status = "succeeded" /\ record'[k].hash = record[k].hash
      BY <1>15, <2>1 DEF LeaseEnds, TypeOK, RecordType
  <2>3. \A j \in Keys \ {k} : record'[j] = record[j]
      BY <1>15 DEF LeaseEnds, TypeOK
  <2>4. record[k] # NoRecord /\ record'[k] # NoRecord
      BY <2>1, <2>2 DEF NoRecord
  <2>5. \A j \in Keys : RecordTellsEffect(j)'
      BY <1>15, <2>1, <2>2, <2>3, <2>4
      DEF LeaseEnds, InvariantOfOne, InOneTransaction, RecordTellsEffect, Imported
  <2>6. \A s \in Requests : HoldsAlone(s)'
    <3>1. \A s \in Requests : req[s].step \in {"begun", "ready"} => req[s].key \in Keys
        BY DEF TypeOK, At
    <3> QED
        BY <1>15, <2>3, <2>4, <3>1 DEF LeaseEnds, InvariantOfOne, InOneTransaction, HoldsAlone
  <2> QED
      BY <1>15, <2>5, <2>6
      DEF LeaseEnds, InvariantOfOne, InOneTransaction, LookedForDocument, Imported,
          EffectOncePerKey, AnswerIsOwn, RollbackEndsCommand, At
<1>16. ASSUME NEW r \in Requests, CommitAttempt(r) PROVE FALSE
    BY <1>16 DEF CommitAttempt
<1> QED
    BY <1>1, <1>2, <1>4, <1>5, <1>6, <1>7, <1>8, <1>10, <1>11, <1>12, <1>13, <1>14, <1>15, <1>16
    DEF Next, Serve

----------------------------------------------------------------------------
(* Placing: three transactions *)

InvariantOfPlacing == InThreeTransactions /\ RollbackEndsCommand

\* A step that writes no record: what it must see to for its request.
LEMMA QuietStepOfPlacing ==
    ASSUME TypeOK, InvariantOfPlacing, NEW r \in Requests, OneRequestMoves(r),
           UNCHANGED <<command, record>>,
           lock' = lock \/ lock = r \/ lock = "free",
           req'[r].step \in {"finding", "inserting", "begun"} => lock' = r,
           req'[r].step = "inserting" => record[req'[r].key] = NoRecord,
           req'[r].step = "begun" => ~record[req'[r].key].leased,
           req'[r].step \notin {"ready", "calling"},
           req'[r].answer # "saved",
           req'[r].rolled => req'[r].step \in {"sent", "answered"}
    PROVE  InvariantOfPlacing'
<1>1. \A s \in Requests : s # "free"
    BY GuardConstants
<1>2. \A s \in Requests \ {r} : PlacesUnderLock(s)'
    BY <1>1 DEF InvariantOfPlacing, InThreeTransactions, PlacesUnderLock, OneRequestMoves, At
<1>3. PlacesUnderLock(r)'
    BY DEF PlacesUnderLock, At
<1>4. \A s \in Requests : CallsAlone(s)'
    BY DEF InvariantOfPlacing, InThreeTransactions, CallsAlone, OneRequestMoves, At
<1>5. RollbackEndsCommand'
    BY DEF InvariantOfPlacing, RollbackEndsCommand, OneRequestMoves
<1> QED
    BY <1>2, <1>3, <1>4, <1>5 DEF InvariantOfPlacing, InThreeTransactions

LEMMA FindOfPlacing ==
    ASSUME TypeOK, InvariantOfPlacing, NEW r \in Requests, Find(r)
    PROVE  InvariantOfPlacing'
<1> DEFINE k == req[r].key
           verdict == Verdict(r, record[k])
<1>1. /\ k \in Keys /\ verdict \in Verdicts /\ Judge(r, FALSE) /\ lock = r
      /\ UNCHANGED <<command, record>> /\ req[r].answer # "saved"
    BY VerdictType DEF Find, TypeOK, At, InvariantOfPlacing, InThreeTransactions, PlacesUnderLock
<1>2. record[k].status # "succeeded" /\ (record[k].leased => record[k].status = "in_progress")
    BY <1>1 DEF InvariantOfPlacing, InThreeTransactions
<1>3. verdict # "saved" /\ (verdict = "proceed" => ~record[k].leased)
    BY <1>2 DEF Verdict
<1>4. lock' = IF verdict # "proceed" THEN Released(r) ELSE lock
    BY <1>1 DEF Judge
<1> HIDE DEF verdict
<1>5. /\ OneRequestMoves(r)
      /\ req'[r].step = IF verdict = "proceed" THEN "begun" ELSE "answered"
      /\ req'[r].answer = IF verdict = "proceed" THEN req[r].answer ELSE verdict
      /\ req'[r].key = k /\ ~req'[r].rolled
    BY <1>1, JudgeMoves DEF verdict
<1> QED
    BY <1>1, <1>3, <1>4, <1>5, QuietStepOfPlacing

LEMMA CommitAttemptOfPlacing ==
    ASSUME TypeOK, InvariantOfPlacing, NEW r \in Requests, CommitAttempt(r),
           NEW k \in Keys, k = req[r].key
    PROVE  InvariantOfPlacing'
<1>1. req[r].step = "begun" /\ lock = r /\ ~record[k].leased /\ ~req[r].rolled
    BY DEF CommitAttempt, InvariantOfPlacing, InThreeTransactions, PlacesUnderLock,
           RollbackEndsCommand, At
<1>2. /\ \A j \in Keys \ {k} : record'[j] = record[j]
      /\ record'[k] = [hash |-> Hash(r), status |-> "in_progress", leased |-> TRUE]
    BY DEF CommitAttempt, TypeOK
<1>3. /\ OneRequestMoves(r)
      /\ req'[r].step = "calling" /\ req'[r].key = k
      /\ req'[r].rolled = req[r].rolled /\ req'[r].answer = req[r].answer
    BY GoMoves DEF CommitAttempt, Steps
<1>4. \A s \in Requests \ {r} :
          /\ req[s].step \notin {"finding", "inserting", "begun", "ready"}
          /\ req[s].answer # "saved"
    BY <1>1 DEF InvariantOfPlacing, InThreeTransactions, PlacesUnderLock, At
<1>5. \A s \in Requests : PlacesUnderLock(s)'
  <2>1. req[r].answer # "saved"
      BY DEF InvariantOfPlacing, InThreeTransactions, PlacesUnderLock
  <2> QED
      BY <1>3, <1>4, <2>1 DEF PlacesUnderLock, OneRequestMoves, At
<1>6. \A s \in Requests \ {r} : req[s].step = "calling" =>
          req[s].key # k /\ req[s].key \in Keys /\ CallsAlone(s) /\ record'[req[s].key].leased
    BY <1>1, <1>2 DEF InvariantOfPlacing, InThreeTransactions, CallsAlone, TypeOK, At
<1>7. \A s \in Requests : CallsAlone(s)'
    BY <1>2, <1>3, <1>6 DEF CallsAlone, OneRequestMoves, At
<1>8. \A j \in Keys :
          /\ record'[j].status # "succeeded"
          /\ record'[j].leased => record'[j].status = "in_progress"
    BY <1>2 DEF InvariantOfPlacing, InThreeTransactions
<1>9. RollbackEndsCommand'
    BY <1>1, <1>3 DEF InvariantOfPlacing, RollbackEndsCommand, OneRequestMoves
<1>10. InThreeTransactions'
    BY <1>5, <1>7, <1>8 DEF InThreeTransactions
<1> QED
    BY <1>9, <1>10 DEF InvariantOfPlacing

LEMMA LeaseEndsOfPlacing ==
    ASSUME TypeOK, InvariantOfPlacing, NEW k \in Keys, LeaseEnds(k)
    PROVE  InvariantOfPlacing'
<1>1. /\ record[k].leased /\ Calling(k) = {}
      /\ UNCHANGED <<command, lock, req>>
    BY DEF LeaseEnds
<1>2. /\ \A j \in Keys \ {k} : record'[j] = record[j]
      /\ record'[k].leased = FALSE /\ record'[k].status = record[k].status
    BY DEF LeaseEnds, TypeOK, RecordType
<1>3. record[k] # NoRecord
    BY <1>1 DEF NoRecord
<1>4. \A s \in Requests : ~At(s, "idle") => req[s].key \in Keys
    BY DEF TypeOK
<1>5. \A s \in Requests : PlacesUnderLock(s)'
    BY <1>1, <1>2, <1>3, <1>4 DEF InvariantOfPlacing, InThreeTransactions, PlacesUnderLock, At
<1>6. \A s \in Requests : At(s, "calling") => req[s].key # k
    BY <1>1 DEF Calling, At
<1>7. \A s \in Requests : CallsAlone(s)'
    BY <1>1, <1>2, <1>4, <1>6 DEF InvariantOfPlacing, InThreeTransactions, CallsAlone, At
<1>8. \A j \in Keys :
          /\ record'[j].status # "succeeded"
          /\ record'[j].leased => record'[j].status = "in_progress"
    BY <1>2 DEF InvariantOfPlacing, InThreeTransactions
<1>9. InThreeTransactions'
    BY <1>5, <1>7, <1>8 DEF InThreeTransactions
<1> QED
    BY <1>1, <1>9 DEF InvariantOfPlacing, RollbackEndsCommand

LEMMA NextOfPlacing ==
    ASSUME TypeOK, command = "place", InvariantOfPlacing, Next
    PROVE  InvariantOfPlacing'
<1>a. \A r \in Requests :
          /\ req[r].rolled => req[r].step \in {"sent", "answered"}
          /\ req[r].answer # "saved" /\ ~At(r, "ready")
          /\ req[r].step \in {"finding", "inserting", "begun"} => lock = r
          /\ At(r, "inserting") => record[req[r].key] = NoRecord
    BY DEF InvariantOfPlacing, InThreeTransactions, PlacesUnderLock, RollbackEndsCommand, At
<1>1. ASSUME NEW r \in Requests, NEW k \in Keys, NEW p \in Payloads, Send(r, k, p)
      PROVE  InvariantOfPlacing'
    BY <1>1, SendMoves, QuietStepOfPlacing DEF Send
<1>2. ASSUME NEW r \in Requests, NEW answer \in Answers \ {"saved"}, Answer(r, answer),
             UNCHANGED <<command, record>>, lock' = lock \/ lock = r \/ lock = "free"
      PROVE  InvariantOfPlacing'
    BY <1>2, AnswerMoves, QuietStepOfPlacing
<1>3. ASSUME NEW r \in Requests, Read(r) PROVE InvariantOfPlacing'
  <2>1. CASE CheckedFirst /\ status # "before"
      BY <1>2, <1>3, <2>1 DEF Read, Answers, Final
  <2>2. CASE ~(CheckedFirst /\ status # "before")
    <3>1. /\ OneRequestMoves(r) /\ req'[r].step = "locking"
          /\ ~req'[r].rolled /\ req'[r].answer = req[r].answer
        BY <1>3, <2>2, ReadMoves
    <3> QED
        BY <1>3, <1>a, <3>1, QuietStepOfPlacing DEF Read
  <2> QED
      BY <2>1, <2>2
<1>4. ASSUME NEW r \in Requests, NEW step \in Steps, Go(r, step), UNCHANGED <<command, record>>,
             lock' = lock \/ lock = r \/ lock = "free",
             step \in {"finding", "inserting", "begun"} => lock' = r,
             step \in {"inserting", "begun"} => record[req[r].key] = NoRecord,
             step \notin {"ready", "calling"}, req[r].rolled => step = "sent"
      PROVE  InvariantOfPlacing'
    BY <1>4, <1>a, GoMoves, QuietStepOfPlacing DEF NoRecord
<1>5. ASSUME NEW r \in Requests, TakeLock(r) PROVE InvariantOfPlacing'
    BY <1>5, <1>4, <1>a DEF TakeLock, At, Steps
<1>6. ASSUME NEW r \in Requests, FindNothing(r) \/ Insert(r) \/ AskAgain(r)
      PROVE  InvariantOfPlacing'
    BY <1>6, <1>4, <1>a DEF FindNothing, Insert, MayInsert, AskAgain, At, Steps
<1>7. ASSUME NEW r \in Requests, Find(r) PROVE InvariantOfPlacing'
    BY <1>7, FindOfPlacing
<1>8. ASSUME NEW r \in Requests, Collide(r) \/ CheckClose(r) \/ LookForDocument(r) \/ Commit(r)
      PROVE  FALSE
    BY <1>8, <1>a DEF Collide, CheckClose, LookForDocument, Commit
<1>9. ASSUME NEW r \in Requests, Refuse(r) PROVE InvariantOfPlacing'
    BY <1>9, <1>2 DEF Refuse, Released, Answers, Final
<1>10. ASSUME NEW r \in Requests, CommitAttempt(r) PROVE InvariantOfPlacing'
  <2>1. req[r].key \in Keys
      BY <1>10 DEF CommitAttempt, TypeOK, At
  <2> QED
      BY <1>10, <2>1, CommitAttemptOfPlacing
<1>11. ASSUME NEW r \in Requests, NEW outcome, WriteBack(r, outcome) PROVE InvariantOfPlacing'
    BY <1>11, <1>2 DEF WriteBack, Answers, Final
<1>12. ASSUME NEW r \in Requests, Break(r) PROVE InvariantOfPlacing'
  <2>1. OneRequestMoves(r) /\ req'[r].step = "sent" /\ req'[r].answer = "none"
      BY <1>12, BreakMoves
  <2> QED
      BY <1>12, <2>1, QuietStepOfPlacing DEF Break, Released
<1>13. ASSUME NEW to, Recover(to) PROVE InvariantOfPlacing'
    BY <1>13 DEF Recover, InvariantOfPlacing, InThreeTransactions, PlacesUnderLock, CallsAlone,
                 RollbackEndsCommand, At
<1> QED
    BY <1>1, <1>3, <1>5, <1>6, <1>7, <1>8, <1>9, <1>10, <1>11, <1>12, <1>13, LeaseEndsOfPlacing
    DEF Next, Serve

----------------------------------------------------------------------------
(* The theorems *)

LEMMA NextIInv == IInv /\ [Next]_vars => IInv'
<1> SUFFICES ASSUME IInv, [Next]_vars PROVE IInv'
    OBVIOUS
<1>1. CASE Next
  <2>1. TypeOK' /\ command' = command
      BY <1>1, NextTypeOK
      DEF IInv, Next, Serve, Send, Read, TakeLock, Find, FindNothing, Insert, Collide, CheckClose,
          LookForDocument, Commit, Refuse, CommitAttempt, WriteBack, Recover, LeaseEnds, AskAgain, Break
  <2>2. CASE command = "place"
    <3>1. InvariantOfPlacing'
        BY <1>1, <2>2, NextOfPlacing DEF IInv, InvariantOfPlacing
    <3>2. EffectOncePerKey' /\ AnswerIsOwn'
        BY <2>1, <2>2, <3>1 DEF InvariantOfPlacing, InThreeTransactions, PlacesUnderLock,
                                EffectOncePerKey, AnswerIsOwn
    <3> QED
        BY <2>1, <2>2, <3>1, <3>2 DEF IInv, InvariantOfPlacing
  <2>3. CASE command # "place"
    <3>1. InvariantOfOne'
        BY <1>1, <2>3, NextOfOne DEF IInv, InvariantOfOne
    <3> QED
        BY <2>1, <2>3, <3>1 DEF IInv, InvariantOfOne
  <2> QED
      BY <2>2, <2>3, Zenon
<1>2. CASE UNCHANGED vars
    BY <1>2 DEF vars, IInv, TypeOK, InThreeTransactions, PlacesUnderLock, CallsAlone,
                InOneTransaction, RecordTellsEffect, HoldsAlone, LookedForDocument, Imported,
                EffectOncePerKey, AnswerIsOwn, RollbackEndsCommand, At
<1> QED
    BY <1>1, <1>2

\* Every reachable state satisfies the inductive invariant: records, effects and
\* requests agree, and whoever goes on under a key goes on alone.
THEOREM Invariance == Spec => []IInv
<1> QED
    BY InitIInv, NextIInv, PTL DEF Spec

\* A command of one transaction takes effect once for each key, however often it
\* is sent and whoever else sends it, and a document is imported once.
THEOREM EffectsOncePerKey == Spec => []EffectOncePerKey
<1>1. IInv => EffectOncePerKey
    BY DEF IInv
<1> QED
    BY <1>1, Invariance, PTL

\* Two placing requests of one key are never at the supplier together.
THEOREM OneCallAtATime == Spec => []OneCallPerKey
<1>1. IInv => OneCallPerKey
  <2> SUFFICES ASSUME IInv, NEW k \in Keys PROVE Cardinality(Calling(k)) <= 1
      BY DEF OneCallPerKey
  <2>1. \A r, s \in Calling(k) : r = s
      BY DEF IInv, InThreeTransactions, InOneTransaction, CallsAlone, Calling, At
  <2>2. CASE Calling(k) = {}
      BY <2>2, FS_EmptySet
  <2>3. CASE Calling(k) # {}
    <3>1. PICK r : Calling(k) = {r}
        BY <2>1, <2>3
    <3>2. Cardinality({r}) = 1
        BY FS_Singleton
    <3> QED
        BY <3>1, <3>2
  <2> QED
      BY <2>2, <2>3
<1> QED
    BY <1>1, Invariance, PTL

\* A saved result given to a client tells of an effect of the client's own
\* payload under its key; of an import, that its document is there.
THEOREM AnswersAreOwn == Spec => []AnswerIsOwn
<1>1. IInv => AnswerIsOwn
    BY DEF IInv
<1> QED
    BY <1>1, Invariance, PTL

=============================================================================
