------------------------ MODULE PurchaseOrderProofs ------------------------
(***************************************************************************)
(* The safety properties of PurchaseOrder that hold under every            *)
(* interleaving, crash and lost message, and those that hold when one      *)
(* command is given at a time, with the implementation of                  *)
(* PurchaseLifecycle: proved for any number of handlers, recovery runs,    *)
(* lines, receipts and attempts.                                           *)
(***************************************************************************)
EXTENDS PurchaseOrder, FiniteSetTheorems, TLAPS

USE DEF Attempts, Procs

\* A step of a session replaces its own record and no other.
LEMMA GoMovesOneSession ==
    ASSUME TypeOK, NEW p \in Procs, NEW local \in SessionType, Go(p, local)
    PROVE  /\ sess' \in [Procs -> SessionType]
           /\ sess'[p] = local
           /\ \A q \in Procs \ {p} : sess'[q] = sess[q]
BY DEF Go, TypeOK

\* More goods never make a full receipt incomplete.
LEMMA ReceiptIsMonotonic ==
    ASSUME received \in [Lines -> Nat],
           NEW got \in [Lines -> Nat],
           \A l \in Lines : received[l] <= got[l],
           AllLinesReceived(received)
    PROVE  AllLinesReceived(got)
BY ConstantsAssumption DEF AllLinesReceived

LEMMA InitIInv == Init => IInv
<1> SUFFICES ASSUME Init PROVE IInv
    OBVIOUS
<1>1. TypeOK
    BY ConstantsAssumption DEF Init, TypeOK, Status, AttemptStatus, SessionType, IdleSession, Local, Step, ReceiptType
<1>2. AttemptOnRecordBeforeCall /\ AttemptEvidenceSound /\ OrderedHasExternalOrder /\ ReceivedOnlyInFull
    BY DEF Init, AttemptOnRecordBeforeCall, AttemptEvidenceSound, OrderedHasExternalOrder, ReceivedOnlyInFull
<1>3. StaleReadsSound
    BY DEF Init, StaleReadsSound, OneVerdict, FailedIsRejected, SessionSound, At, IdleSession, Local
<1>4. RecoveryKeyExclusive
    BY DEF Init, RecoveryKeyExclusive, HoldsKey, IdleSession, Local
<1> QED
    BY <1>1, <1>2, <1>3, <1>4 DEF IInv

----------------------------------------------------------------------------
(* Steps that read rows and move one session, but write nothing *)

rows == <<po, attempt, supplierVars, stockVars, recovered>>

LEMMA ReadPreservesIInv ==
    ASSUME IInv, NEW p \in Procs, NEW local \in SessionType,
           Go(p, local), UNCHANGED rows,
           local.step # "place_committed",
           SessionSound(p)',
           p \in Workers /\ local.step \in {"query_begun", "query_answered"} =>
               /\ local.seen \notin recovered
               /\ \A w \in Workers \ {p} : ~HoldsKey(w, local.seen)
    PROVE  IInv'
<1>0. /\ sess' \in [Procs -> SessionType]
      /\ sess'[p] = local
      /\ \A q \in Procs \ {p} : sess'[q] = sess[q]
    BY GoMovesOneSession DEF IInv
<1>1. TypeOK'
    BY <1>0 DEF IInv, TypeOK, rows, supplierVars, stockVars
<1>2. AttemptOnRecordBeforeCall' /\ AttemptEvidenceSound'
    BY DEF IInv, AttemptOnRecordBeforeCall, AttemptEvidenceSound, Existing, rows, supplierVars
<1>3. OrderedHasExternalOrder' /\ ReceivedOnlyInFull'
    BY DEF IInv, OrderedHasExternalOrder, ReceivedOnlyInFull, AllLinesReceived,
           rows, supplierVars, stockVars
<1>4. StaleReadsSound'
  <2>1. OneVerdict'
      BY <1>0 DEF IInv, StaleReadsSound, OneVerdict, At, rows, supplierVars
  <2>2. FailedIsRejected'
      BY DEF IInv, StaleReadsSound, FailedIsRejected, rows, supplierVars
  <2>3. ASSUME NEW q \in Procs PROVE SessionSound(q)'
    <3>1. CASE q = p
        BY <3>1
    <3>2. CASE q # p
        BY <3>2, <1>0 DEF IInv, StaleReadsSound, SessionSound, At, Existing, AllLinesReceived,
                          rows, supplierVars, stockVars
    <3> QED
        BY <3>1, <3>2
  <2> QED
      BY <2>1, <2>2, <2>3 DEF StaleReadsSound
<1>5. RecoveryKeyExclusive'
    BY <1>0 DEF IInv, RecoveryKeyExclusive, HoldsKey, rows
<1> QED
    BY <1>1, <1>2, <1>3, <1>4, <1>5 DEF IInv

LEMMA PlaceReadPreserves == ASSUME IInv, NEW h \in Handlers, PlaceRead(h) PROVE IInv'
<1> DEFINE local == Reading("place_read")
<1>1. local \in SessionType
    BY DEF IInv, TypeOK, Reading, Local, SessionType, Step
<1>2. local.step = "place_read"
    BY DEF Reading, Local
<1>3. Go(h, local) /\ UNCHANGED rows /\ h \in Procs
    BY DEF PlaceRead, rows
<1>4. SessionSound(h)'
    BY <1>1, <1>2, <1>3, GoMovesOneSession DEF IInv, SessionSound, At
<1> QED
    BY <1>1, <1>2, <1>3, <1>4, ReadPreservesIInv

LEMMA CancelReadPreserves == ASSUME IInv, NEW h \in Handlers, CancelRead(h) PROVE IInv'
<1> DEFINE local == Reading("cancel_read")
<1>1. local \in SessionType
    BY DEF IInv, TypeOK, Reading, Local, SessionType, Step
<1>2. local.step = "cancel_read"
    BY DEF Reading, Local
<1>3. Go(h, local) /\ UNCHANGED rows /\ h \in Procs
    BY DEF CancelRead, rows
<1>4. SessionSound(h)'
    BY <1>1, <1>2, <1>3, GoMovesOneSession DEF IInv, SessionSound, At
<1> QED
    BY <1>1, <1>2, <1>3, <1>4, ReadPreservesIInv

LEMMA CancelCheckPreserves == ASSUME IInv, NEW h \in Handlers, CancelCheck(h) PROVE IInv'
<1> DEFINE local == Local("cancel_checked", sess[h].seen, 0, "none", FALSE)
<1>1. local \in SessionType
    BY DEF IInv, TypeOK, Local, SessionType, Step
<1>2. local.step = "cancel_checked"
    BY DEF Local
<1>3. Go(h, local) /\ UNCHANGED rows /\ h \in Procs
    BY DEF CancelCheck, rows
<1>4. SessionSound(h)'
    BY <1>1, <1>2, <1>3, GoMovesOneSession DEF IInv, SessionSound, At
<1> QED
    BY <1>1, <1>2, <1>3, <1>4, ReadPreservesIInv

\* The order is received when it is read, so it is in full and at the supplier.
LEMMA CloseReadPreserves == ASSUME IInv, NEW h \in Handlers, CloseRead(h) PROVE IInv'
<1> DEFINE local == Reading("close_read")
<1>1. local \in SessionType
    BY DEF IInv, TypeOK, Reading, Local, SessionType, Step
<1>2. local.step = "close_read"
    BY DEF Reading, Local
<1>3. Go(h, local) /\ UNCHANGED rows /\ h \in Procs
    BY DEF CloseRead, rows
<1>4. po.status = "received"
    BY DEF CloseRead, PoTransition, Allowed, IInv, TypeOK, Status
<1>5. orders' # {} /\ AllLinesReceived(received')
    BY <1>3, <1>4 DEF IInv, OrderedHasExternalOrder, ReceivedOnlyInFull, AllLinesReceived,
                      rows, supplierVars, stockVars
<1>6. SessionSound(h)'
    BY <1>1, <1>2, <1>3, <1>5, GoMovesOneSession DEF IInv, SessionSound, At, AllLinesReceived
<1> QED
    BY <1>1, <1>2, <1>3, <1>6, ReadPreservesIInv

LEMMA QueryReadPreserves == ASSUME IInv, NEW p \in Procs, QueryRead(p) PROVE IInv'
<1> DEFINE local == Reading("query_read")
<1>1. local \in SessionType
    BY DEF IInv, TypeOK, Reading, Local, SessionType, Step
<1>2. local.step = "query_read"
    BY DEF Reading, Local
<1>3. Go(p, local) /\ UNCHANGED rows
    BY DEF QueryRead, rows
<1>4. SessionSound(p)'
    BY <1>1, <1>2, <1>3, GoMovesOneSession DEF IInv, SessionSound, At
<1> QED
    BY <1>1, <1>2, <1>3, <1>4, ReadPreservesIInv

LEMMA QueryBeginPreserves == ASSUME IInv, NEW p \in Procs, QueryBegin(p) PROVE IInv'
<1>1. PICK n \in Existing : Go(p, Local("query_begun", sess[p].seen, n, attempt[n], FALSE))
    BY DEF QueryBegin
<1> DEFINE local == Local("query_begun", sess[p].seen, n, attempt[n], FALSE)
<1>2. n \in Attempts
    BY DEF Existing
<1>3. local \in SessionType
    BY <1>2 DEF IInv, TypeOK, Local, SessionType, Step
<1>4. local.step = "query_begun" /\ local.seen = sess[p].seen /\ local.att = n
    BY DEF Local
<1>5. Go(p, local) /\ UNCHANGED rows
    BY <1>1 DEF QueryBegin, rows
<1>6. SessionSound(p)'
    BY <1>3, <1>4, <1>5, GoMovesOneSession DEF IInv, SessionSound, At, Existing, rows
<1>7. p \in Workers =>
        local.seen \notin recovered /\ \A w \in Workers \ {p} : ~HoldsKey(w, local.seen)
    BY <1>4 DEF QueryBegin, KeyFree
<1> HIDE DEF local
<1> QED
    BY <1>3, <1>4, <1>5, <1>6, <1>7, ReadPreservesIInv

LEMMA QueryAnswerPreserves == ASSUME IInv, NEW p \in Procs, QueryAnswer(p) PROVE IInv'
<1> DEFINE local == Local("query_answered", sess[p].seen, sess[p].att, sess[p].was,
                          sess[p].att \in orders)
<1>1. local \in SessionType
    BY DEF IInv, TypeOK, Local, SessionType, Step
<1>2. /\ local.step = "query_answered"
      /\ local.seen = sess[p].seen
      /\ local.att = sess[p].att
      /\ local.found = (sess[p].att \in orders)
    BY DEF Local
<1>3. Go(p, local) /\ UNCHANGED rows /\ sess[p].step = "query_begun"
    BY DEF QueryAnswer, rows, At
<1>4. sess[p].att \in Existing
    BY <1>3 DEF IInv, StaleReadsSound, SessionSound
<1>5. SessionSound(p)'
    BY <1>1, <1>2, <1>3, <1>4, GoMovesOneSession
       DEF IInv, SessionSound, At, Existing, rows, supplierVars
<1>6. p \in Workers =>
        local.seen \notin recovered /\ \A w \in Workers \ {p} : ~HoldsKey(w, local.seen)
    BY <1>2, <1>3 DEF IInv, RecoveryKeyExclusive, HoldsKey
<1> HIDE DEF local
<1> QED
    BY <1>1, <1>2, <1>3, <1>5, <1>6, ReadPreservesIInv

\* A replayed query and a crash both leave the rows and forget the session.
LEMMA IdlePreserves ==
    ASSUME IInv, NEW p \in Procs, Go(p, IdleSession), UNCHANGED rows
    PROVE  IInv'
<1>1. IdleSession \in SessionType /\ IdleSession.step = "idle"
    BY DEF IdleSession, Local, SessionType, Step
<1>2. SessionSound(p)'
    BY <1>1, GoMovesOneSession DEF IInv, SessionSound, At
<1> QED
    BY <1>1, <1>2, ReadPreservesIInv

LEMMA QueryReplayedPreserves == ASSUME IInv, NEW p \in Procs, QueryReplayed(p) PROVE IInv'
BY IdlePreserves DEF QueryReplayed, rows

LEMMA AbandonPreserves == ASSUME IInv, NEW p \in Procs, Abandon(p) PROVE IInv'
BY IdlePreserves DEF Abandon, rows

----------------------------------------------------------------------------
(* The supplier and the wire *)

LEMMA SupplierPreserves == ASSUME IInv, NEW n \in Attempts, Supplier(n) PROVE IInv'
<1>0. /\ n \in requests
      /\ requests' = requests \ {n}
      /\ orders' \in {orders, orders \cup {n}}
      /\ rejected' \in {rejected, rejected \cup {n}}
      /\ orders' = orders \/ rejected' = rejected
      /\ UNCHANGED <<po, attempt, received, onHand, receipt, recovered, sess>>
    BY DEF Supplier, SupplierCreate, SupplierReject, LoseRequest, stockVars
<1>1. TypeOK'
    BY <1>0 DEF IInv, TypeOK
<1>2. AttemptOnRecordBeforeCall'
    BY <1>0 DEF IInv, AttemptOnRecordBeforeCall, Existing
<1>3. AttemptEvidenceSound'
    BY <1>0 DEF IInv, AttemptEvidenceSound
<1>4. StaleReadsSound'
  <2>1. OneVerdict'
      BY <1>0 DEF IInv, StaleReadsSound, OneVerdict, At
  <2>2. FailedIsRejected'
      BY <1>0 DEF IInv, StaleReadsSound, FailedIsRejected
  <2>3. ASSUME NEW q \in Procs PROVE SessionSound(q)'
      BY <1>0 DEF IInv, StaleReadsSound, SessionSound, At, Existing, AllLinesReceived
  <2> QED
      BY <2>1, <2>2, <2>3 DEF StaleReadsSound
<1>5. OrderedHasExternalOrder' /\ ReceivedOnlyInFull'
    BY <1>0 DEF IInv, OrderedHasExternalOrder, ReceivedOnlyInFull, AllLinesReceived
<1>6. RecoveryKeyExclusive'
    BY <1>0 DEF IInv, RecoveryKeyExclusive, HoldsKey
<1> QED
    BY <1>1, <1>2, <1>3, <1>4, <1>5, <1>6 DEF IInv

----------------------------------------------------------------------------
(* Placing *)

\* The number is fresh, so nothing was ever sent under its key.
LEMMA PlaceCommitPreserves == ASSUME IInv, NEW h \in Handlers, PlaceCommit(h) PROVE IInv'
<1>1. PICK n \in Attempts :
        /\ attempt[n] = "none"
        /\ attempt' = [attempt EXCEPT ![n] = "attempting"]
        /\ Go(h, Placing("place_committed", n))
    BY DEF PlaceCommit, NextAttemptNo
<1> DEFINE local == Placing("place_committed", n)
<1>2. local \in SessionType /\ local.step = "place_committed" /\ local.att = n
    BY DEF Placing, Local, SessionType, Step
<1>3. /\ sess' \in [Procs -> SessionType]
      /\ sess'[h] = local
      /\ \A q \in Procs \ {h} : sess'[q] = sess[q]
    BY <1>1, <1>2, GoMovesOneSession DEF IInv
<1>4. /\ po' = [status |-> "ordering", version |-> sess[h].seen + 1]
      /\ UNCHANGED <<requests, orders, rejected, received, onHand, receipt, recovered>>
    BY DEF PlaceCommit, SetPo, supplierVars, stockVars
<1>5. n \notin Existing /\ Existing' = Existing \cup {n}
    BY <1>1 DEF IInv, TypeOK, Existing
<1> HIDE DEF local
<1>6. TypeOK'
    BY <1>1, <1>3, <1>4 DEF IInv, TypeOK, SessionType, Status, AttemptStatus
<1>7. AttemptOnRecordBeforeCall'
    BY <1>4, <1>5 DEF IInv, AttemptOnRecordBeforeCall
<1>8. AttemptEvidenceSound'
    BY <1>1, <1>4 DEF IInv, AttemptEvidenceSound, TypeOK
<1>9. StaleReadsSound'
  <2>1. OneVerdict'
      BY <1>2, <1>3, <1>4, <1>5 DEF IInv, StaleReadsSound, OneVerdict, SessionSound, At
  <2>2. FailedIsRejected'
      BY <1>1, <1>4 DEF IInv, StaleReadsSound, FailedIsRejected, TypeOK
  <2>3. ASSUME NEW q \in Procs PROVE SessionSound(q)'
    <3>1. CASE q = h
        BY <3>1, <1>2, <1>3, <1>4, <1>5 DEF IInv, AttemptOnRecordBeforeCall, SessionSound, At
    <3>2. CASE q # h
        BY <3>2, <1>3, <1>4, <1>5 DEF IInv, StaleReadsSound, SessionSound, At, AllLinesReceived
    <3> QED
        BY <3>1, <3>2
  <2> QED
      BY <2>1, <2>2, <2>3 DEF StaleReadsSound
<1>10. OrderedHasExternalOrder' /\ ReceivedOnlyInFull'
    BY <1>4 DEF OrderedHasExternalOrder, ReceivedOnlyInFull
<1>11. RecoveryKeyExclusive'
    BY <1>2, <1>3, <1>4 DEF IInv, RecoveryKeyExclusive, HoldsKey
<1> QED
    BY <1>6, <1>7, <1>8, <1>9, <1>10, <1>11 DEF IInv

LEMMA PlaceSendPreserves == ASSUME IInv, NEW h \in Handlers, PlaceSend(h) PROVE IInv'
<1> DEFINE n == sess[h].att
           local == Placing("place_sent", n)
<1>1. /\ At(h, "place_committed")
      /\ requests' = requests \cup {n}
      /\ UNCHANGED <<po, attempt, orders, rejected, received, onHand, receipt, recovered>>
    BY DEF PlaceSend, stockVars
<1>2. n \in Existing \ (requests \cup orders \cup rejected) /\ n \in Attempts
    BY <1>1 DEF IInv, StaleReadsSound, SessionSound, Existing
<1>3. local \in SessionType /\ local.step = "place_sent" /\ local.att = n
    BY <1>2 DEF Placing, Local, SessionType, Step
<1>4. /\ sess' \in [Procs -> SessionType]
      /\ sess'[h] = local
      /\ \A q \in Procs \ {h} : sess'[q] = sess[q]
    BY <1>3, GoMovesOneSession DEF PlaceSend, IInv
<1>5. \A q \in Procs \ {h} : At(q, "place_committed") => sess[q].att # n
    BY <1>1 DEF IInv, StaleReadsSound, OneVerdict
<1> HIDE DEF local
<1>6. TypeOK'
    BY <1>1, <1>2, <1>4 DEF IInv, TypeOK
<1>7. AttemptOnRecordBeforeCall'
    BY <1>1, <1>2 DEF IInv, AttemptOnRecordBeforeCall, Existing
<1>8. AttemptEvidenceSound'
    BY <1>1, <1>2 DEF IInv, AttemptEvidenceSound, StaleReadsSound, FailedIsRejected
<1>9. StaleReadsSound'
  <2>1. OneVerdict'
      BY <1>1, <1>2, <1>3, <1>4 DEF IInv, StaleReadsSound, OneVerdict, At
  <2>2. FailedIsRejected'
      BY <1>1 DEF IInv, StaleReadsSound, FailedIsRejected
  <2>3. ASSUME NEW q \in Procs PROVE SessionSound(q)'
    <3>1. CASE q = h
        BY <3>1, <1>1, <1>2, <1>3, <1>4 DEF SessionSound, At, Existing
    <3>2. CASE q # h
        BY <3>2, <1>1, <1>4, <1>5
           DEF IInv, StaleReadsSound, SessionSound, At, Existing, AllLinesReceived
    <3> QED
        BY <3>1, <3>2
  <2> QED
      BY <2>1, <2>2, <2>3 DEF StaleReadsSound
<1>10. OrderedHasExternalOrder' /\ ReceivedOnlyInFull'
    BY <1>1 DEF IInv, OrderedHasExternalOrder, ReceivedOnlyInFull, AllLinesReceived
<1>11. RecoveryKeyExclusive'
    BY <1>1, <1>3, <1>4 DEF IInv, RecoveryKeyExclusive, HoldsKey
<1> QED
    BY <1>6, <1>7, <1>8, <1>9, <1>10, <1>11 DEF IInv

----------------------------------------------------------------------------
(* Commits that end a session: whatever the order's status is by now, the   *)
(* status and the outcome written are justified by what the supplier holds. *)

LEMMA CommitPreservesIInv ==
    ASSUME IInv, NEW p \in Procs, NEW n, NEW outcome \in AttemptStatus,
           Go(p, IdleSession),
           UNCHANGED <<requests, orders, rejected, received, onHand, receipt>>,
           po' \in [status : Status, version : Nat],
           po'.status \in {"ordered", "partially_received", "received", "closed"} => orders # {},
           po'.status \in {"received", "closed"} => AllLinesReceived(received),
           \/ attempt' = attempt
           \/ /\ n \in Existing
              /\ attempt' = [attempt EXCEPT ![n] = outcome]
              /\ outcome = "failed" => n \in rejected
              /\ outcome \in {"succeeded", "queried_created"} => n \in orders,
           \/ recovered' = recovered
           \/ /\ p \in Workers /\ HoldsKey(p, sess[p].seen)
              /\ recovered' = recovered \cup {sess[p].seen}
    PROVE  IInv'
<1>1. IdleSession \in SessionType /\ IdleSession.step = "idle"
    BY DEF IdleSession, Local, SessionType, Step
<1>2. /\ sess' \in [Procs -> SessionType]
      /\ sess'[p].step = "idle"
      /\ \A q \in Procs \ {p} : sess'[q] = sess[q]
    BY <1>1, GoMovesOneSession DEF IInv
<1>3. Existing' = Existing
    BY DEF IInv, TypeOK, Existing, AttemptStatus
<1>4. TypeOK'
  <2>1. attempt' \in [Attempts -> AttemptStatus \cup {"none"}]
      BY DEF IInv, TypeOK
  <2>2. recovered' \subseteq Nat
    <3>1. recovered \subseteq Nat /\ sess[p].seen \in Nat
        BY DEF IInv, TypeOK, SessionType
    <3> QED
        BY <3>1
  <2> QED
      BY <1>2, <2>1, <2>2 DEF IInv, TypeOK
<1>5. AttemptOnRecordBeforeCall'
    BY <1>3 DEF IInv, AttemptOnRecordBeforeCall
<1>6. FailedIsRejected'
    BY DEF IInv, TypeOK, StaleReadsSound, FailedIsRejected
<1>7. AttemptEvidenceSound'
  <2>1. \A m \in Attempts : attempt'[m] = "failed" => m \notin orders' \cup requests'
      BY <1>6 DEF FailedIsRejected, IInv, StaleReadsSound, OneVerdict
  <2>2. \A m \in Attempts :
          attempt'[m] \in {"succeeded", "queried_created"} => m \in orders'
      BY DEF IInv, TypeOK, AttemptEvidenceSound
  <2> QED
      BY <2>1, <2>2 DEF AttemptEvidenceSound
<1>8. StaleReadsSound'
  <2>1. OneVerdict'
      BY <1>2 DEF IInv, StaleReadsSound, OneVerdict, At
  <2>2. ASSUME NEW q \in Procs PROVE SessionSound(q)'
    <3>1. CASE q = p
        BY <3>1, <1>2 DEF SessionSound, At
    <3>2. CASE q # p
        BY <3>2, <1>2, <1>3 DEF IInv, StaleReadsSound, SessionSound, At, AllLinesReceived
    <3> QED
        BY <3>1, <3>2
  <2> QED
      BY <1>6, <2>1, <2>2 DEF StaleReadsSound
<1>9. OrderedHasExternalOrder' /\ ReceivedOnlyInFull'
    BY DEF OrderedHasExternalOrder, ReceivedOnlyInFull, AllLinesReceived
<1>10. RecoveryKeyExclusive'
    BY <1>2 DEF IInv, RecoveryKeyExclusive, HoldsKey
<1> QED
    BY <1>4, <1>5, <1>7, <1>8, <1>9, <1>10 DEF IInv

\* The three outcomes of the call, over the freshly locked row.
LEMMA WriteBackPreserves ==
    ASSUME IInv, NEW h \in Handlers, NEW outcome, NEW from, NEW to,
           WriteBack(h, outcome, from, to),
           \/ outcome = "succeeded" /\ to = "ordered" /\ sess[h].att \in orders
           \/ outcome = "failed" /\ to = "po_created" /\ sess[h].att \in rejected
           \/ outcome = "unknown" /\ to = "order_unknown"
    PROVE  IInv'
<1>1. sess[h].att \in Existing /\ outcome \in AttemptStatus /\ h \in Procs
    BY DEF WriteBack, IInv, StaleReadsSound, SessionSound, At, AttemptStatus
<1>2. /\ attempt' = [attempt EXCEPT ![sess[h].att] = outcome]
      /\ Go(h, IdleSession)
      /\ UNCHANGED <<requests, orders, rejected, received, onHand, receipt, recovered>>
      /\ po' = po \/ po' = [status |-> to, version |-> po.version + 1]
    BY DEF WriteBack, SetPo, supplierVars, stockVars
<1>3. po' \in [status : Status, version : Nat]
    BY <1>2 DEF IInv, TypeOK, Status
<1>4. /\ po'.status \in {"ordered", "partially_received", "received", "closed"} => orders # {}
      /\ po'.status \in {"received", "closed"} => AllLinesReceived(received)
    BY <1>2 DEF IInv, TypeOK, OrderedHasExternalOrder, ReceivedOnlyInFull
<1> QED
    BY <1>1, <1>2, <1>3, <1>4, CommitPreservesIInv

LEMMA QueryCommitPreserves == ASSUME IInv, NEW p \in Procs, QueryCommit(p) PROVE IInv'
<1> DEFINE s == sess[p]
           outcome == IF s.found THEN "queried_created" ELSE "queried_not_found"
           to == IF s.found THEN "ordered" ELSE "po_created"
<1>1. /\ s.att \in Existing
      /\ s.found => s.att \in orders
      /\ s.seen \in Nat /\ s.found \in BOOLEAN
      /\ HoldsKey(p, s.seen)
    BY DEF QueryCommit, IInv, StaleReadsSound, SessionSound, At, TypeOK, SessionType, HoldsKey
<1>2. /\ po' = [status |-> to, version |-> s.seen + 1]
      /\ attempt' = attempt \/ attempt' = [attempt EXCEPT ![s.att] = outcome]
      /\ recovered' = recovered \/ (p \in Workers /\ recovered' = recovered \cup {s.seen})
      /\ Go(p, IdleSession)
      /\ UNCHANGED <<requests, orders, rejected, received, onHand, receipt>>
    BY DEF QueryCommit, SetPo, supplierVars, stockVars
<1>3. outcome \in AttemptStatus /\ outcome # "failed"
      /\ (outcome \in {"succeeded", "queried_created"} => s.att \in orders)
    BY <1>1 DEF AttemptStatus
<1>4. po' \in [status : Status, version : Nat]
    BY <1>1, <1>2 DEF Status
<1>5. /\ po'.status \in {"ordered", "partially_received", "received", "closed"} => orders # {}
      /\ po'.status \notin {"received", "closed"}
    BY <1>1, <1>2
<1> HIDE DEF outcome, to
<1> QED
    BY <1>1, <1>2, <1>3, <1>4, <1>5, CommitPreservesIInv

LEMMA CancelCommitPreserves == ASSUME IInv, NEW h \in Handlers, CancelCommit(h) PROVE IInv'
<1>1. /\ po' = [status |-> "cancelled", version |-> sess[h].seen + 1]
      /\ sess[h].seen \in Nat /\ h \in Procs
      /\ Go(h, IdleSession)
      /\ UNCHANGED <<attempt, requests, orders, rejected, received, onHand, receipt, recovered>>
    BY DEF CancelCommit, SetPo, supplierVars, stockVars, IInv, TypeOK, SessionType
<1>2. po' \in [status : Status, version : Nat] /\ po'.status = "cancelled"
    BY <1>1 DEF Status
<1>3. "unknown" \in AttemptStatus
    BY DEF AttemptStatus
<1> QED
    BY <1>1, <1>2, <1>3, CommitPreservesIInv

\* A full receipt stays full, so what was read before still justifies `closed'.
LEMMA CloseCommitPreserves == ASSUME IInv, NEW h \in Handlers, CloseCommit(h) PROVE IInv'
<1>1. /\ po' = [status |-> "closed", version |-> sess[h].seen + 1]
      /\ sess[h].seen \in Nat /\ h \in Procs
      /\ Go(h, IdleSession)
      /\ UNCHANGED <<attempt, requests, orders, rejected, received, onHand, receipt, recovered>>
    BY DEF CloseCommit, SetPo, supplierVars, stockVars, IInv, TypeOK, SessionType
<1>2. orders # {} /\ AllLinesReceived(received)
    BY DEF CloseCommit, IInv, StaleReadsSound, SessionSound
<1>3. po' \in [status : Status, version : Nat] /\ "unknown" \in AttemptStatus
    BY <1>1 DEF Status, AttemptStatus
<1> QED
    BY <1>1, <1>2, <1>3, CommitPreservesIInv

----------------------------------------------------------------------------
(* Receiving *)

LEMMA ReceiveGoodsPreserves ==
    ASSUME IInv, NEW e \in Events, NEW l \in Lines, NEW q \in 1 .. OrderQty[l],
           ReceiveGoods(e, l, q)
    PROVE  IInv'
<1> DEFINE target == ReceiptTarget(l, q)
<1>1. /\ received' = [received EXCEPT ![l] = @ + q]
      /\ onHand' = [onHand EXCEPT ![l] = @ + q]
      /\ receipt' = [receipt EXCEPT ![e] = [line |-> l, qty |-> q]]
      /\ po' = [status |-> target, version |-> po.version + 1]
      /\ po.status \in {"ordered", "partially_received"}
      /\ UNCHANGED <<attempt, requests, orders, rejected, recovered, sess>>
    BY DEF ReceiveGoods, SetPo, supplierVars
<1>2. q \in Nat \ {0}
    BY ConstantsAssumption
<1>3. target \in {"received", "partially_received"}
      /\ (target = "received" => AllLinesReceived(received'))
    BY <1>1 DEF ReceiptTarget
<1>4. received' \in [Lines -> Nat] /\ \A m \in Lines : received[m] <= received'[m]
    BY <1>1, <1>2 DEF IInv, TypeOK
<1> HIDE DEF target
<1>5. TypeOK'
  <2>1. onHand' \in [Lines -> Nat]
      BY <1>1, <1>2 DEF IInv, TypeOK
  <2>2. receipt' \in [Events -> ReceiptType]
      BY <1>1, <1>2 DEF IInv, TypeOK, ReceiptType
  <2>3. po' \in [status : Status, version : Nat]
      BY <1>1, <1>3 DEF IInv, TypeOK, Status
  <2> QED
      BY <1>1, <1>4, <2>1, <2>2, <2>3 DEF IInv, TypeOK
<1>6. AttemptOnRecordBeforeCall' /\ AttemptEvidenceSound'
    BY <1>1 DEF IInv, AttemptOnRecordBeforeCall, AttemptEvidenceSound, Existing
<1>7. StaleReadsSound'
  <2>1. OneVerdict' /\ FailedIsRejected'
      BY <1>1 DEF IInv, StaleReadsSound, OneVerdict, FailedIsRejected, At
  <2>2. AllLinesReceived(received) => AllLinesReceived(received')
      BY <1>4, ReceiptIsMonotonic DEF IInv, TypeOK
  <2>3. ASSUME NEW p \in Procs PROVE SessionSound(p)'
      BY <1>1, <2>2 DEF IInv, StaleReadsSound, SessionSound, At, Existing, AllLinesReceived
  <2> QED
      BY <2>1, <2>3 DEF StaleReadsSound
<1>8. OrderedHasExternalOrder'
    BY <1>1 DEF IInv, OrderedHasExternalOrder
<1>9. ReceivedOnlyInFull'
    BY <1>1, <1>3 DEF ReceivedOnlyInFull, AllLinesReceived
<1>10. RecoveryKeyExclusive'
    BY <1>1 DEF IInv, RecoveryKeyExclusive, HoldsKey
<1> QED
    BY <1>5, <1>6, <1>7, <1>8, <1>9, <1>10 DEF IInv

----------------------------------------------------------------------------
(* The inductive invariant, and what follows from it *)

LEMMA StutterPreserves == ASSUME IInv, UNCHANGED vars PROVE IInv'
<1>1. TypeOK' /\ AttemptOnRecordBeforeCall' /\ AttemptEvidenceSound'
    BY DEF IInv, TypeOK, AttemptOnRecordBeforeCall, AttemptEvidenceSound, Existing,
           vars, supplierVars, stockVars
<1>2. StaleReadsSound'
    BY DEF IInv, StaleReadsSound, OneVerdict, FailedIsRejected, SessionSound, At, Existing,
           AllLinesReceived, vars, supplierVars, stockVars
<1>3. OrderedHasExternalOrder' /\ ReceivedOnlyInFull' /\ RecoveryKeyExclusive'
    BY DEF IInv, OrderedHasExternalOrder, ReceivedOnlyInFull, RecoveryKeyExclusive, HoldsKey,
           AllLinesReceived, vars, supplierVars, stockVars
<1> QED
    BY <1>1, <1>2, <1>3 DEF IInv

LEMMA NextPreserves == ASSUME IInv, Next PROVE IInv'
<1>1. ASSUME NEW h \in Handlers, PlaceOrder(h) PROVE IInv'
  <2>1. CASE PlaceRead(h)
      BY <2>1, PlaceReadPreserves
  <2>2. CASE PlaceCommit(h)
      BY <2>2, PlaceCommitPreserves
  <2>3. CASE PlaceSend(h)
      BY <2>3, PlaceSendPreserves
  <2>4. CASE WriteBackSuccess(h)
      BY <2>4, WriteBackPreserves DEF WriteBackSuccess
  <2>5. CASE WriteBackFailure(h)
      BY <2>5, WriteBackPreserves DEF WriteBackFailure
  <2>6. CASE WriteBackUnknown(h)
      BY <2>6, WriteBackPreserves DEF WriteBackUnknown
  <2> QED
      BY <1>1, <2>1, <2>2, <2>3, <2>4, <2>5, <2>6 DEF PlaceOrder
<1>2. ASSUME NEW h \in Handlers, CancelPurchaseOrder(h) PROVE IInv'
    BY <1>2, CancelReadPreserves, CancelCheckPreserves, CancelCommitPreserves
       DEF CancelPurchaseOrder
<1>3. ASSUME NEW h \in Handlers, ClosePurchaseOrder(h) PROVE IInv'
    BY <1>3, CloseReadPreserves, CloseCommitPreserves DEF ClosePurchaseOrder
<1>4. ASSUME NEW p \in Procs, QueryUnknownOrder(p) PROVE IInv'
    BY <1>4, QueryReadPreserves, QueryBeginPreserves, QueryReplayedPreserves,
       QueryAnswerPreserves, QueryCommitPreserves DEF QueryUnknownOrder
<1> QED
    BY <1>1, <1>2, <1>3, <1>4, AbandonPreserves, SupplierPreserves, ReceiveGoodsPreserves
       DEF Next

\* The inductive invariant holds in every reachable state, for any number of
\* handlers, recovery runs, lines, receipts and attempts.
THEOREM Invariance == Spec => []IInv
<1>1. Init => IInv
    BY InitIInv
<1>2. IInv /\ [Next]_vars => IInv'
    BY NextPreserves, StutterPreserves
<1> QED
    BY <1>1, <1>2, PTL DEF Spec

\* Rows, messages and sessions keep their shape.
THEOREM TypeCorrect == Spec => []TypeOK
<1>1. IInv => TypeOK
    BY DEF IInv
<1> QED
    BY <1>1, Invariance, PTL

\* Every key the supplier has seen belongs to an attempt already committed.
THEOREM CallIsOnRecord == Spec => []AttemptOnRecordBeforeCall
<1>1. IInv => AttemptOnRecordBeforeCall
    BY DEF IInv
<1> QED
    BY <1>1, Invariance, PTL

\* `failed', `succeeded' and `queried_created' attempts tell the truth.
THEOREM EvidenceIsSound == Spec => []AttemptEvidenceSound
<1>1. IInv => AttemptEvidenceSound
    BY DEF IInv
<1> QED
    BY <1>1, Invariance, PTL

\* What a process still holds of rows read in an earlier step is enough for
\* what it goes on to do.
THEOREM StaleReadsAreSound == Spec => []StaleReadsSound
<1>1. IInv => StaleReadsSound
    BY DEF IInv
<1> QED
    BY <1>1, Invariance, PTL

\* `ordered' and every later status rest on an order at the supplier.
THEOREM OrderedIsReal == Spec => []OrderedHasExternalOrder
<1>1. IInv => OrderedHasExternalOrder
    BY DEF IInv
<1> QED
    BY <1>1, Invariance, PTL

\* An order is received or closed only with every line in full.
THEOREM ReceivedInFull == Spec => []ReceivedOnlyInFull
<1>1. IInv => ReceivedOnlyInFull
    BY DEF IInv
<1> QED
    BY <1>1, Invariance, PTL

\* Overlapping recovery runs never share a key, nor use one again.
THEOREM RecoveryKeyIsExclusive == Spec => []RecoveryKeyExclusive
<1>1. IInv => RecoveryKeyExclusive
    BY DEF IInv
<1> QED
    BY <1>1, Invariance, PTL

----------------------------------------------------------------------------
(* Receipts, stock and the received quantities of the lines *)

StockInv == StockConserved /\ \A l \in Lines : IsFiniteSet(Units(l))

\* A receipt is as many units as its quantity.
LEMMA UnitsOfOneReceipt ==
    ASSUME NEW e, NEW q \in Nat
    PROVE  IsFiniteSet({e} \X (1 .. q)) /\ Cardinality({e} \X (1 .. q)) = q
<1>1. IsFiniteSet({e}) /\ Cardinality({e}) = 1
    BY FS_Singleton
<1>2. IsFiniteSet(1 .. q) /\ Cardinality(1 .. q) = q
    BY FS_Interval
<1>3. /\ IsFiniteSet({e} \X (1 .. q))
      /\ Cardinality({e} \X (1 .. q)) = Cardinality({e}) * Cardinality(1 .. q)
    BY <1>1, <1>2, FS_Product
<1> QED
    BY <1>1, <1>2, <1>3

LEMMA InitStock == Init => StockInv
<1> SUFFICES ASSUME Init PROVE StockInv
    OBVIOUS
<1>1. ASSUME NEW l \in Lines PROVE Units(l) = {}
    BY DEF Init, Units, UnitsOf, QtyOf, NoReceipt
<1>2. IsFiniteSet({}) /\ Cardinality({}) = 0
    BY FS_EmptySet
<1>3. \A l \in Lines : received[l] = 0 /\ onHand[l] = 0 /\ 0 <= OrderQty[l]
    BY ConstantsAssumption DEF Init
<1>4. \A e \in Events : receipt[e] = NoReceipt
    BY DEF Init
<1> QED
    BY <1>1, <1>2, <1>3, <1>4 DEF StockInv, StockConserved

\* Nothing but a receipt touches stock, and an order at the supplier stays.
LEMMA OthersKeepStock ==
    ASSUME StockInv, UNCHANGED stockVars, orders \subseteq orders'
    PROVE  StockInv'
BY DEF StockInv, StockConserved, stockVars, Units, UnitsOf, QtyOf

\* A receipt adds its own units to its line, and no other's.
LEMMA ReceiptAddsUnits ==
    ASSUME IInv, NEW e \in Events, NEW l \in Lines, NEW q \in Nat \ {0},
           receipt[e] = NoReceipt,
           receipt' = [receipt EXCEPT ![e] = [line |-> l, qty |-> q]],
           IsFiniteSet(Units(l)), Cardinality(Units(l)) \in Nat
    PROVE  /\ IsFiniteSet(Units(l)')
           /\ Cardinality(Units(l)') = Cardinality(Units(l)) + q
           /\ \A m \in Lines \ {l} : Units(m)' = Units(m)
<1> DEFINE new == {e} \X (1 .. q)
<1>1. /\ \A m : QtyOf(e, m) = 0
      /\ QtyOf(e, l)' = q
      /\ \A m \in Lines \ {l} : QtyOf(e, m)' = 0
      /\ \A f \in Events \ {e}, m \in Lines : QtyOf(f, m)' = QtyOf(f, m)
    BY DEF IInv, TypeOK, NoReceipt, QtyOf
<1>2. /\ \A m : UnitsOf(e, m) = {}
      /\ UnitsOf(e, l)' = new
      /\ \A m \in Lines \ {l} : UnitsOf(e, m)' = {}
      /\ \A f \in Events \ {e}, m \in Lines : UnitsOf(f, m)' = UnitsOf(f, m)
    BY <1>1 DEF UnitsOf
<1>3. Units(l)' = Units(l) \cup new
    BY <1>2 DEF Units
<1>4. Units(l) \cap new = {}
    BY <1>2 DEF Units, UnitsOf
<1>5. IsFiniteSet(new) /\ Cardinality(new) = q
    BY UnitsOfOneReceipt
<1>6. \A m \in Lines \ {l} : Units(m)' = Units(m)
    BY <1>2 DEF Units
<1> HIDE DEF new
<1>7. /\ IsFiniteSet(Units(l) \cup new)
      /\ Cardinality(Units(l) \cup new) = Cardinality(Units(l)) + q
  <2>1. Cardinality({}) = 0
      BY FS_EmptySet
  <2> QED
      BY <1>4, <1>5, <2>1, FS_Union
<1> QED
    BY <1>3, <1>6, <1>7

LEMMA ReceiveKeepsStock ==
    ASSUME IInv, StockInv, NEW e \in Events, NEW l \in Lines, NEW q \in 1 .. OrderQty[l],
           ReceiveGoods(e, l, q)
    PROVE  StockInv'
<1>1. /\ received' = [received EXCEPT ![l] = @ + q]
      /\ onHand' = [onHand EXCEPT ![l] = @ + q]
      /\ receipt' = [receipt EXCEPT ![e] = [line |-> l, qty |-> q]]
      /\ receipt[e] = NoReceipt
      /\ q \in Nat \ {0} /\ received[l] + q <= OrderQty[l]
      /\ orders # {} /\ orders' = orders
      /\ received \in [Lines -> Nat] /\ onHand \in [Lines -> Nat]
  <2>1. received \in [Lines -> Nat] /\ onHand \in [Lines -> Nat]
      BY DEF IInv, TypeOK
  <2>2. orders # {}
      BY DEF ReceiveGoods, IInv, OrderedHasExternalOrder
  <2>3. OrderQty[l] \in Nat /\ received[l] \in Nat /\ q \in Nat \ {0}
      BY <2>1, ConstantsAssumption
  <2>4. received[l] + q <= OrderQty[l]
      BY <2>3 DEF ReceiveGoods, Remaining
  <2> QED
      BY <2>1, <2>2, <2>3, <2>4 DEF ReceiveGoods, NewReceipt, supplierVars
<1>2. IsFiniteSet(Units(l)) /\ Cardinality(Units(l)) = received[l]
    BY DEF StockInv, StockConserved
<1>3. Cardinality(Units(l)) \in Nat
    BY <1>1, <1>2
<1>4. /\ IsFiniteSet(Units(l)')
      /\ Cardinality(Units(l)') = Cardinality(Units(l)) + q
      /\ \A m \in Lines \ {l} : Units(m)' = Units(m)
    BY <1>1, <1>2, <1>3, ReceiptAddsUnits
<1>5. ASSUME NEW m \in Lines
      PROVE  /\ IsFiniteSet(Units(m)') /\ received'[m] = Cardinality(Units(m)')
             /\ onHand'[m] = received'[m] /\ received'[m] <= OrderQty[m]
  <2>1. CASE m = l
      BY <2>1, <1>1, <1>2, <1>4 DEF StockInv, StockConserved
  <2>2. CASE m # l
      BY <2>2, <1>1, <1>4 DEF StockInv, StockConserved
  <2> QED
      BY <2>1, <2>2
<1> QED
    BY <1>1, <1>5 DEF StockInv, StockConserved

LEMMA NextStock == ASSUME IInv, StockInv, [Next]_vars PROVE StockInv'
<1>1. ASSUME NEW h \in Handlers, PlaceOrder(h) \/ CancelPurchaseOrder(h) \/ ClosePurchaseOrder(h)
      PROVE  UNCHANGED stockVars /\ orders' = orders
    BY <1>1 DEF PlaceOrder, PlaceRead, PlaceCommit, PlaceSend, WriteBackSuccess,
                WriteBackFailure, WriteBackUnknown, WriteBack, CancelPurchaseOrder, CancelRead,
                CancelCheck, CancelCommit, ClosePurchaseOrder, CloseRead, CloseCommit, supplierVars
<1>2. ASSUME NEW p \in Procs, QueryUnknownOrder(p) \/ Abandon(p)
      PROVE  UNCHANGED stockVars /\ orders' = orders
    BY <1>2 DEF QueryUnknownOrder, QueryRead, QueryBegin, QueryReplayed, QueryAnswer,
                QueryCommit, Abandon, supplierVars
<1>3. ASSUME NEW n \in Attempts, Supplier(n)
      PROVE  UNCHANGED stockVars /\ orders \subseteq orders'
    BY <1>3 DEF Supplier, SupplierCreate, SupplierReject, LoseRequest
<1>4. CASE UNCHANGED vars
    BY <1>4, OthersKeepStock DEF vars, supplierVars
<1>5. CASE Next
    BY <1>5, <1>1, <1>2, <1>3, OthersKeepStock, ReceiveKeepsStock DEF Next
<1> QED
    BY <1>4, <1>5

\* Received quantities, stock and receipts tell the same, never more than ordered.
THEOREM StockIsConserved == Spec => []StockConserved
<1>1. Init => StockInv
    BY InitStock
<1>2. IInv /\ StockInv /\ [Next]_vars => StockInv'
    BY NextStock
<1>3. StockInv => StockConserved
    BY DEF StockInv
<1> QED
    BY <1>1, <1>2, <1>3, Invariance, PTL DEF Spec

----------------------------------------------------------------------------
(* One command at a time: the state *)

USE DEF Existing

\* At most one attempt is open, and only it can be at the supplier.
LEMMA OneIsOpen ==
    ASSUME IInv, AttemptsInOrder, NEW n \in Existing, ~Settled(n) \/ \A m \in Existing : m <= n
    PROVE  /\ \A m \in Existing \ {n} : m < n /\ Settled(m)
           /\ requests \cup orders \subseteq {n}
<1>1. ASSUME NEW m \in Existing \ {n} PROVE m < n /\ Settled(m)
  <2>1. m \in Nat \ {0} /\ n \in Nat \ {0}
      BY ConstantsAssumption
  <2>2. CASE n < m
    <3>1. n \in 1 .. m - 1
        BY <2>1, <2>2
    <3> QED
        BY <2>1, <2>2, <3>1 DEF AttemptsInOrder
  <2>3. CASE m < n
    <3>1. m \in 1 .. n - 1
        BY <2>1, <2>3
    <3> QED
        BY <2>3, <3>1 DEF AttemptsInOrder
  <2> QED
      BY <2>1, <2>2, <2>3
<1> QED
    BY <1>1 DEF IInv, AttemptOnRecordBeforeCall, AttemptsInOrder

\* Nobody else is busy with the order.
LEMMA OthersAreIdle ==
    ASSUME SerialInv, NEW p \in Procs, Quiet \/ ~At(p, "idle")
    PROVE  \A q \in Procs \ {p} : At(q, "idle")
BY DEF SerialInv, OneCommand, Quiet

LEMMA SessionMovesAlone ==
    ASSUME IInv, SerialInv, NEW p \in Procs, NEW local \in SessionType,
           Go(p, local), Quiet \/ ~At(p, "idle"),
           AttemptsInOrder', SessionFresh(p)', FullyReceivedIsReceived'
    PROVE  SerialInv'
<1>1. sess'[p] = local /\ \A q \in Procs \ {p} : sess'[q] = sess[q] /\ At(q, "idle")
    BY GoMovesOneSession, OthersAreIdle DEF IInv
<1>2. OneCommand'
    BY <1>1 DEF OneCommand, At
<1>3. ASSUME NEW q \in Procs \ {p} PROVE SessionFresh(q)'
    BY <1>1, <1>3 DEF SessionFresh, At
<1> QED
    BY <1>2, <1>3 DEF SerialInv

LEMMA SerialRead ==
    ASSUME IInv, SerialInv, NEW p \in Procs, NEW local \in SessionType,
           Go(p, local), Quiet \/ ~At(p, "idle"), UNCHANGED rows, SessionFresh(p)'
    PROVE  SerialInv'
<1>1. AttemptsInOrder'
    BY DEF SerialInv, AttemptsInOrder, Settled, rows, supplierVars
<1>2. FullyReceivedIsReceived'
    BY DEF SerialInv, FullyReceivedIsReceived, AllLinesReceived, rows, stockVars
<1> QED
    BY <1>1, <1>2, SessionMovesAlone

LEMMA SerialEnd ==
    ASSUME IInv, SerialInv, NEW p \in Procs, Go(p, IdleSession), ~At(p, "idle"),
           AttemptsInOrder', FullyReceivedIsReceived'
    PROVE  SerialInv'
<1>1. IdleSession \in SessionType /\ IdleSession.step = "idle"
    BY DEF IdleSession, Local, SessionType, Step
<1>2. SessionFresh(p)'
    BY <1>1, GoMovesOneSession DEF IInv, SessionFresh, At
<1> QED
    BY <1>1, <1>2, SessionMovesAlone

LEMMA SerialInit == Init => SerialInv
BY ConstantsAssumption
   DEF Init, SerialInv, AttemptsInOrder, Settled, OneCommand, SessionFresh, At, IdleSession, Local,
       FullyReceivedIsReceived, AllLinesReceived

\* The commands that start, and their later reads.
LEMMA SerialStarts ==
    ASSUME IInv, SerialInv, ~Overlap, NEW p \in Procs,
           PlaceRead(p) \/ CancelRead(p) \/ CloseRead(p) \/ QueryRead(p)
    PROVE  SerialInv'
<1>1. PICK step \in {"place_read", "cancel_read", "close_read", "query_read"} :
        /\ Go(p, Reading(step)) /\ UNCHANGED rows /\ Quiet
        /\ step \in {"place_read", "cancel_read"} => po.status = "po_created"
        /\ step = "close_read" => po.status = "received"
        /\ step = "query_read" => po.status \in {"ordering", "order_unknown"}
  <2>1. CASE PlaceRead(p)
      BY <2>1 DEF PlaceRead, Placeable, MayStart, rows
  <2>2. CASE CancelRead(p)
      BY <2>2 DEF CancelRead, PoTransition, Allowed, MayStart, rows, IInv, TypeOK, Status
  <2>3. CASE CloseRead(p)
      BY <2>3 DEF CloseRead, PoTransition, Allowed, MayStart, rows, IInv, TypeOK, Status
  <2>4. CASE QueryRead(p)
      BY <2>4 DEF QueryRead, QueryableBy, MayStart, rows
  <2> QED
      BY <2>1, <2>2, <2>3, <2>4
<1> DEFINE local == Reading(step)
<1>2. local \in SessionType /\ local.step = step
    BY DEF IInv, TypeOK, Reading, Local, SessionType, Step
<1>3. sess'[p] = local /\ UNCHANGED <<po, requests>> /\ requests = {}
    BY <1>1, <1>2, GoMovesOneSession DEF IInv, rows, supplierVars, Quiet
<1> HIDE DEF local
<1>4. SessionFresh(p)'
    BY <1>1, <1>2, <1>3 DEF SessionFresh, At
<1> QED
    BY <1>1, <1>2, <1>4, SerialRead DEF local

LEMMA SerialReads ==
    ASSUME IInv, SerialInv, NEW p \in Procs, QueryBegin(p) \/ QueryAnswer(p) \/ CancelCheck(p)
    PROVE  SerialInv'
<1>1. CASE QueryBegin(p)
  <2>1. PICK n \in Existing :
          /\ \A m \in Existing : m <= n
          /\ Go(p, Local("query_begun", sess[p].seen, n, attempt[n], FALSE))
      BY <1>1 DEF QueryBegin
  <2> DEFINE local == Local("query_begun", sess[p].seen, n, attempt[n], FALSE)
  <2>2. local \in SessionType /\ local.step = "query_begun" /\ local.att = n
        /\ local.was = attempt[n]
      BY DEF IInv, TypeOK, Local, SessionType, Step
  <2>3. sess'[p] = local /\ UNCHANGED rows
      BY <1>1, <2>1, <2>2, GoMovesOneSession DEF QueryBegin, IInv, rows
  <2>4. requests = {} /\ po.status \in {"ordering", "order_unknown"} /\ ~At(p, "idle")
      BY <1>1 DEF QueryBegin, SerialInv, SessionFresh, At
  <2> HIDE DEF local
  <2>5. SessionFresh(p)'
      BY <2>1, <2>2, <2>3, <2>4 DEF SessionFresh, At, rows, supplierVars
  <2> QED
      BY <2>1, <2>2, <2>3, <2>4, <2>5, SerialRead DEF local
<1>2. CASE QueryAnswer(p)
  <2> DEFINE local == Local("query_answered", sess[p].seen, sess[p].att, sess[p].was,
                            sess[p].att \in orders)
  <2>1. /\ local \in SessionType /\ local.step = "query_answered"
        /\ local.att = sess[p].att /\ local.was = sess[p].was
        /\ local.found = (sess[p].att \in orders)
      BY DEF IInv, TypeOK, Local, SessionType, Step
  <2>2. Go(p, local) /\ sess'[p] = local /\ UNCHANGED rows
      BY <1>2, <2>1, GoMovesOneSession DEF QueryAnswer, IInv, rows
  <2>3. /\ requests = {} /\ po.status \in {"ordering", "order_unknown"} /\ ~At(p, "idle")
        /\ \A m \in Existing : m <= sess[p].att
        /\ sess[p].was = attempt[sess[p].att]
      BY <1>2 DEF QueryAnswer, SerialInv, SessionFresh, At
  <2> HIDE DEF local
  <2>4. SessionFresh(p)'
      BY <2>1, <2>2, <2>3 DEF SessionFresh, At, rows, supplierVars
  <2> QED
      BY <2>1, <2>2, <2>3, <2>4, SerialRead
<1>3. CASE CancelCheck(p)
  <2> DEFINE local == Local("cancel_checked", sess[p].seen, 0, "none", FALSE)
  <2>1. local \in SessionType /\ local.step = "cancel_checked"
      BY DEF IInv, TypeOK, Local, SessionType, Step
  <2>2. Go(p, local) /\ sess'[p] = local /\ UNCHANGED rows
      BY <1>3, <2>1, GoMovesOneSession DEF CancelCheck, IInv, rows
  <2>3. requests = {} /\ po.status = "po_created" /\ ~At(p, "idle")
      BY <1>3 DEF CancelCheck, SerialInv, SessionFresh, At
  <2> HIDE DEF local
  <2>4. SessionFresh(p)'
      BY <2>1, <2>2, <2>3 DEF SessionFresh, At, rows, supplierVars
  <2> QED
      BY <2>1, <2>2, <2>3, <2>4, SerialRead
<1> QED
    BY <1>1, <1>2, <1>3

LEMMA SerialGivesUp ==
    ASSUME IInv, SerialInv, NEW p \in Procs, QueryReplayed(p) \/ Abandon(p)
    PROVE  SerialInv'
<1>1. Go(p, IdleSession) /\ UNCHANGED rows /\ ~At(p, "idle")
    BY DEF QueryReplayed, Abandon, rows, At
<1>2. AttemptsInOrder'
    BY <1>1 DEF SerialInv, AttemptsInOrder, Settled, rows, supplierVars
<1>3. FullyReceivedIsReceived'
    BY <1>1 DEF SerialInv, FullyReceivedIsReceived, AllLinesReceived, rows, stockVars
<1> QED
    BY <1>1, <1>2, <1>3, SerialEnd

\* The rows when an order is placed: the new attempt is the only open one.
LEMMA SerialPlaceCommit ==
    ASSUME IInv, SerialInv, NEW h \in Procs, PlaceCommit(h)
    PROVE  SerialInv'
<1>1. PICK n \in Attempts :
        /\ NextAttemptNo(n)
        /\ attempt' = [attempt EXCEPT ![n] = "attempting"]
        /\ Go(h, Placing("place_committed", n))
    BY DEF PlaceCommit
<1>2. /\ po'.status = "ordering"
      /\ UNCHANGED <<requests, orders, received>>
      /\ requests = {} /\ po.status = "po_created" /\ ~At(h, "idle")
    BY DEF PlaceCommit, SetPo, supplierVars, stockVars, SerialInv, SessionFresh, At
<1>3. /\ n \notin Existing /\ Existing' = Existing \cup {n}
      /\ attempt'[n] = "attempting" /\ \A m \in Attempts \ {n} : attempt'[m] = attempt[m]
    BY <1>1 DEF IInv, TypeOK, NextAttemptNo
<1>4. \A m \in Existing : Settled(m) /\ Settled(m)'
    BY <1>2, <1>3 DEF SerialInv, AttemptsInOrder, Settled
<1> DEFINE local == Placing("place_committed", n)
<1>5. local \in SessionType /\ local.step = "place_committed" /\ local.att = n
    BY DEF Placing, Local, SessionType, Step
<1>6. sess'[h] = local
    BY <1>1, <1>5, GoMovesOneSession DEF IInv
<1> HIDE DEF local
<1>7. AttemptsInOrder'
  <2>1. \A k \in Existing : \A m \in 1 .. k - 1 : m \in Existing
      BY DEF SerialInv, AttemptsInOrder
  <2>2. \A m \in 1 .. n - 1 : m \in Existing
      BY <1>1, ConstantsAssumption DEF NextAttemptNo
  <2>3. \A m \in Attempts : Settled(m)' => Settled(m)
      BY <1>3 DEF Settled
  <2> QED
      BY <1>2, <1>3, <1>4, <2>1, <2>2, <2>3 DEF SerialInv, AttemptsInOrder
<1>8. FullyReceivedIsReceived'
    BY <1>2 DEF SerialInv, FullyReceivedIsReceived, AllLinesReceived
<1>9. SessionFresh(h)'
    BY <1>2, <1>3, <1>5, <1>6 DEF SessionFresh, At
<1> QED
    BY <1>1, <1>2, <1>5, <1>7, <1>8, <1>9, SessionMovesAlone DEF local

LEMMA SerialPlaceSend ==
    ASSUME IInv, SerialInv, NEW h \in Procs, PlaceSend(h)
    PROVE  SerialInv'
<1> DEFINE n == sess[h].att
           local == Placing("place_sent", n)
<1>1. /\ requests' = requests \cup {n} /\ UNCHANGED <<po, attempt, orders, received>>
      /\ At(h, "place_committed") /\ Go(h, local)
    BY DEF PlaceSend, stockVars
<1>2. requests = {} /\ po.status = "ordering" /\ attempt[n] = "attempting" /\ ~At(h, "idle")
      /\ n \in Attempts
    BY <1>1 DEF SerialInv, SessionFresh, At, IInv, StaleReadsSound, SessionSound
<1>3. n \notin orders
    BY <1>1 DEF IInv, StaleReadsSound, SessionSound
<1>4. local \in SessionType /\ local.step = "place_sent" /\ local.att = n
    BY <1>2 DEF Placing, Local, SessionType, Step
<1>5. sess'[h] = local
    BY <1>1, <1>4, GoMovesOneSession DEF IInv
<1> HIDE DEF n, local
<1>6. AttemptsInOrder'
    BY <1>1, <1>2, <1>3 DEF SerialInv, AttemptsInOrder, Settled
<1>7. FullyReceivedIsReceived'
    BY <1>1 DEF SerialInv, FullyReceivedIsReceived, AllLinesReceived
<1>8. SessionFresh(h)'
    BY <1>1, <1>2, <1>4, <1>5 DEF SessionFresh, At
<1> QED
    BY <1>1, <1>2, <1>4, <1>6, <1>7, <1>8, SessionMovesAlone

LEMMA SerialSupplier ==
    ASSUME IInv, SerialInv, NEW n \in Attempts, Supplier(n)
    PROVE  SerialInv'
<1>1. /\ n \in requests /\ requests' = requests \ {n}
      /\ orders' \in {orders, orders \cup {n}}
      /\ UNCHANGED <<po, attempt, received, sess>>
    BY DEF Supplier, SupplierCreate, SupplierReject, LoseRequest, stockVars
<1>2. AttemptsInOrder'
    BY <1>1 DEF SerialInv, AttemptsInOrder, Settled
<1>3. ASSUME NEW p \in Procs PROVE SessionFresh(p)'
  <2>1. sess[p].step \in {"idle", "place_sent"}
      BY <1>1 DEF SerialInv, SessionFresh
  <2> QED
      BY <1>1, <2>1 DEF SerialInv, SessionFresh, At
<1>4. OneCommand' /\ FullyReceivedIsReceived'
    BY <1>1 DEF SerialInv, OneCommand, At, FullyReceivedIsReceived, AllLinesReceived
<1> QED
    BY <1>2, <1>3, <1>4 DEF SerialInv

\* A verdict on the one open attempt n: the order goes on from it.
LEMMA VerdictsInOrder ==
    ASSUME IInv, AttemptsInOrder, NEW n \in Existing,
           ~Settled(n) \/ \A m \in Existing : m <= n,
           NEW outcome \in AttemptStatus, attempt' = [attempt EXCEPT ![n] = outcome],
           UNCHANGED <<requests, orders>>,
           Settled(n)' => n \notin requests \cup orders,
           po'.status \in {"po_created", "cancelled"} => Settled(n)',
           n \in requests => po'.status \in {"ordering", "order_unknown"}
    PROVE  AttemptsInOrder'
<1>1. /\ \A m \in Existing \ {n} : m < n /\ Settled(m)
      /\ requests \cup orders \subseteq {n}
    BY OneIsOpen
<1>2. Existing' = Existing /\ \A m \in Attempts \ {n} : attempt'[m] = attempt[m]
    BY DEF IInv, TypeOK, AttemptStatus
<1>3. \A m \in Attempts \ {n} : Settled(m)' <=> Settled(m)
    BY <1>2 DEF Settled
<1>4. \A k \in Existing : \A m \in 1 .. k - 1 : m \in Existing /\ m # n
  <2> SUFFICES ASSUME NEW k \in Existing, NEW m \in 1 .. k - 1 PROVE m \in Existing /\ m # n
      OBVIOUS
  <2>1. k <= n /\ m < k
      BY <1>1, ConstantsAssumption
  <2> QED
      BY <2>1, ConstantsAssumption DEF AttemptsInOrder
<1>5. \A k \in Existing' : \A m \in 1 .. k - 1 : m \in Existing' /\ Settled(m)'
    BY <1>2, <1>3, <1>4 DEF AttemptsInOrder
<1>6. \A m \in Attempts : Settled(m)' => m \notin requests' \cup orders'
    BY <1>3 DEF AttemptsInOrder
<1>7. po'.status \in {"po_created", "cancelled"} => \A m \in Existing' : Settled(m)'
    BY <1>1, <1>2, <1>3
<1>8. requests' # {} => po'.status \in {"ordering", "order_unknown"}
    BY <1>1
<1> QED
    BY <1>5, <1>6, <1>7, <1>8 DEF AttemptsInOrder

\* Where a write-back finds the order, and where it leaves it.
LEMMA WriteBackMoves ==
    ASSUME IInv, SerialInv, NEW h \in Procs, NEW outcome, NEW from, NEW to,
           WriteBack(h, outcome, from, to), "ordering" \in from,
           to \in {"ordered", "po_created", "order_unknown"}
    PROVE  /\ sess[h].att \in Existing /\ ~Settled(sess[h].att)
           /\ po.status = "ordering" /\ po'.status = to
           /\ attempt' = [attempt EXCEPT ![sess[h].att] = outcome]
           /\ attempt'[sess[h].att] = outcome
           /\ Go(h, IdleSession) /\ ~At(h, "idle")
           /\ UNCHANGED <<requests, orders, received>>
<1>1. po.status = "ordering" /\ attempt[sess[h].att] = "attempting" /\ sess[h].att \in Existing
    BY DEF WriteBack, SerialInv, SessionFresh, At, IInv, StaleReadsSound, SessionSound
<1>2. PoTransition(po.status, to)
    BY <1>1 DEF PoTransition, Allowed
<1> QED
    BY <1>1, <1>2 DEF WriteBack, SetPo, Settled, At, supplierVars, stockVars, IInv, TypeOK

LEMMA SerialWriteBack ==
    ASSUME IInv, SerialInv, NEW h \in Procs, NEW outcome, NEW from, NEW to,
           WriteBack(h, outcome, from, to), "ordering" \in from,
           \/ outcome = "succeeded" /\ to = "ordered" /\ sess[h].att \in orders
           \/ outcome = "failed" /\ to = "po_created" /\ sess[h].att \in rejected
           \/ outcome = "unknown" /\ to = "order_unknown"
    PROVE  SerialInv'
<1>0. PICK n \in Existing : n = sess[h].att
    BY WriteBackMoves
<1>1. /\ ~Settled(n)
      /\ po.status = "ordering" /\ po'.status = to
      /\ attempt' = [attempt EXCEPT ![n] = outcome]
      /\ attempt'[n] = outcome
      /\ Go(h, IdleSession) /\ ~At(h, "idle")
      /\ UNCHANGED <<requests, orders, received>>
    BY <1>0, WriteBackMoves
<1>2. outcome = "succeeded" => n \notin requests
    BY <1>0 DEF IInv, StaleReadsSound, OneVerdict
<1>3. outcome = "failed" => n \notin requests \cup orders
    BY <1>0 DEF IInv, StaleReadsSound, OneVerdict
<1>4. outcome \in AttemptStatus
    BY DEF AttemptStatus
<1>5. AttemptsInOrder'
  <2>1. Settled(n)' <=> outcome = "failed"
      BY <1>1 DEF Settled
  <2> QED
      BY <1>1, <1>2, <1>3, <1>4, <2>1, VerdictsInOrder DEF SerialInv
<1>6. FullyReceivedIsReceived'
    BY <1>1 DEF SerialInv, FullyReceivedIsReceived, AllLinesReceived
<1> QED
    BY <1>1, <1>5, <1>6, SerialEnd

\* Where a query finds the order, and where it leaves it.
LEMMA QueryCommitMoves ==
    ASSUME IInv, SerialInv, NEW p \in Procs, QueryCommit(p)
    PROVE  \E n \in Existing :
              /\ \A m \in Existing : m <= n
              /\ requests = {} /\ po.status \in {"ordering", "order_unknown"}
              /\ Go(p, IdleSession) /\ ~At(p, "idle")
              /\ UNCHANGED <<requests, orders, received>>
              /\ \/ /\ n \in orders /\ po'.status = "ordered"
                    /\ attempt' = [attempt EXCEPT ![n] = "queried_created"]
                 \/ /\ n \notin orders /\ po'.status = "po_created"
                    /\ attempt' = [attempt EXCEPT ![n] = "queried_not_found"]
<1> DEFINE n == sess[p].att
           outcome == IF sess[p].found THEN "queried_created" ELSE "queried_not_found"
<1>1. /\ n \in Existing /\ \A m \in Existing : m <= n
      /\ requests = {} /\ po.status \in {"ordering", "order_unknown"}
      /\ sess[p].found = (n \in orders) /\ sess[p].was = attempt[n]
      /\ ~At(p, "idle")
    BY DEF QueryCommit, SerialInv, SessionFresh, At, IInv, StaleReadsSound, SessionSound
<1>2. /\ po'.status = IF sess[p].found THEN "ordered" ELSE "po_created"
      /\ attempt' = IF sess[p].was = outcome THEN attempt ELSE [attempt EXCEPT ![n] = outcome]
      /\ Go(p, IdleSession) /\ UNCHANGED <<requests, orders, received>>
    BY DEF QueryCommit, SetPo, supplierVars, stockVars
<1>3. attempt' = [attempt EXCEPT ![n] = outcome]
    BY <1>1, <1>2 DEF IInv, TypeOK
<1> QED
    BY <1>1, <1>2, <1>3

LEMMA SerialQueryCommit ==
    ASSUME IInv, SerialInv, NEW p \in Procs, QueryCommit(p)
    PROVE  SerialInv'
<1>1. PICK n \in Existing :
              /\ \A m \in Existing : m <= n
              /\ requests = {} /\ po.status \in {"ordering", "order_unknown"}
              /\ Go(p, IdleSession) /\ ~At(p, "idle")
              /\ UNCHANGED <<requests, orders, received>>
              /\ \/ /\ n \in orders /\ po'.status = "ordered"
                    /\ attempt' = [attempt EXCEPT ![n] = "queried_created"]
                 \/ /\ n \notin orders /\ po'.status = "po_created"
                    /\ attempt' = [attempt EXCEPT ![n] = "queried_not_found"]
    BY QueryCommitMoves
<1>2. PICK outcome \in AttemptStatus :
        /\ attempt' = [attempt EXCEPT ![n] = outcome]
        /\ attempt'[n] = outcome
        /\ outcome = "queried_not_found" <=> n \notin orders
        /\ outcome # "failed"
    BY <1>1 DEF AttemptStatus, IInv, TypeOK
<1>3. AttemptsInOrder'
  <2>1. Settled(n)' <=> n \notin orders
      BY <1>2 DEF Settled
  <2> QED
      BY <1>1, <1>2, <2>1, VerdictsInOrder DEF SerialInv
<1>4. FullyReceivedIsReceived'
    BY <1>1 DEF SerialInv, FullyReceivedIsReceived, AllLinesReceived
<1> QED
    BY <1>1, <1>3, <1>4, SerialEnd

LEMMA SerialEnds ==
    ASSUME IInv, SerialInv, NEW h \in Procs, CancelCommit(h) \/ CloseCommit(h)
    PROVE  SerialInv'
<1>1. /\ Go(h, IdleSession) /\ ~At(h, "idle") /\ requests = {}
      /\ \/ po.status = "po_created" /\ po'.status = "cancelled"
         \/ po.status = "received" /\ po'.status = "closed"
      /\ UNCHANGED <<attempt, requests, orders, received>>
    BY DEF CancelCommit, CloseCommit, SetPo, SerialInv, SessionFresh, At, supplierVars, stockVars
<1>2. AttemptsInOrder'
    BY <1>1 DEF SerialInv, AttemptsInOrder, Settled
<1>3. FullyReceivedIsReceived'
    BY <1>1 DEF SerialInv, FullyReceivedIsReceived, AllLinesReceived
<1> QED
    BY <1>1, <1>2, <1>3, SerialEnd

LEMMA SerialReceive ==
    ASSUME IInv, SerialInv, StockConserved, ~Overlap, NEW e \in Events, NEW l \in Lines,
           NEW q \in 1 .. OrderQty[l], ReceiveGoods(e, l, q)
    PROVE  SerialInv'
<1>1. /\ Quiet /\ po'.status = ReceiptTarget(l, q)
      /\ po'.status \in {"received", "partially_received"}
      /\ received' = [received EXCEPT ![l] = @ + q]
      /\ UNCHANGED <<attempt, requests, orders, sess>>
    BY DEF ReceiveGoods, SetPo, ReceiptTarget, supplierVars
<1>2. AttemptsInOrder'
    BY <1>1 DEF SerialInv, AttemptsInOrder, Settled, Quiet
<1>3. OneCommand' /\ \A p \in Procs : SessionFresh(p)'
    BY <1>1 DEF SerialInv, OneCommand, SessionFresh, At, Quiet
<1>4. FullyReceivedIsReceived'
  <2> SUFFICES ASSUME AllLinesReceived(received') PROVE po'.status = "received"
      BY DEF FullyReceivedIsReceived
  <2>1. OrderQty[l] \in Nat /\ received[l] \in Nat /\ q \in Nat \ {0}
      BY ConstantsAssumption DEF IInv, TypeOK
  <2>2. received'[l] = received[l] + q /\ received[l] + q <= OrderQty[l] /\ OrderQty[l] > 0
      BY <1>1, <2>1 DEF ReceiveGoods, Remaining, IInv, TypeOK
  <2>3. received'[l] >= OrderQty[l]
      BY <2>2 DEF AllLinesReceived
  <2>4. received[l] + q = OrderQty[l]
      BY <2>1, <2>2, <2>3
  <2> QED
      BY <1>1, <2>4 DEF ReceiptTarget
<1> QED
    BY <1>2, <1>3, <1>4 DEF SerialInv

LEMMA SerialNext ==
    ASSUME IInv, SerialInv, StockConserved, ~Overlap, [Next]_vars
    PROVE  SerialInv'
<1>1. ASSUME NEW h \in Handlers, PlaceOrder(h) PROVE SerialInv'
  <2>1. CASE WriteBackSuccess(h)
      BY <2>1, SerialWriteBack DEF WriteBackSuccess
  <2>2. CASE WriteBackFailure(h)
      BY <2>2, SerialWriteBack DEF WriteBackFailure
  <2>3. CASE WriteBackUnknown(h)
      BY <2>3, SerialWriteBack DEF WriteBackUnknown
  <2> QED
      BY <1>1, <2>1, <2>2, <2>3, SerialStarts, SerialPlaceCommit, SerialPlaceSend DEF PlaceOrder
<1>2. ASSUME NEW h \in Handlers, CancelPurchaseOrder(h) \/ ClosePurchaseOrder(h)
      PROVE  SerialInv'
    BY <1>2, SerialStarts, SerialReads, SerialEnds DEF CancelPurchaseOrder, ClosePurchaseOrder
<1>3. ASSUME NEW p \in Procs, QueryUnknownOrder(p) \/ Abandon(p) PROVE SerialInv'
    BY <1>3, SerialStarts, SerialReads, SerialGivesUp, SerialQueryCommit DEF QueryUnknownOrder
<1>4. CASE UNCHANGED vars
    BY <1>4 DEF SerialInv, AttemptsInOrder, Settled, OneCommand, SessionFresh, At,
                FullyReceivedIsReceived, AllLinesReceived, vars, supplierVars, stockVars
<1> QED
    BY <1>1, <1>2, <1>3, <1>4, SerialSupplier, SerialReceive DEF Next

\* One command at a time, the order's past is in order: all that is used below.
LEMMA SerialInvariance ==
    ASSUME ~Overlap
    PROVE  Spec => [](IInv /\ SerialInv)
<1>1. Init => SerialInv
    BY SerialInit
<1>2. IInv /\ SerialInv /\ StockConserved /\ [Next]_vars => SerialInv'
    BY SerialNext
<1> QED
    BY <1>1, <1>2, Invariance, StockIsConserved, PTL DEF Spec

\* A cancelled order is none at the supplier and will be none.
THEOREM CancelledIsNone ==
    ASSUME ~Overlap
    PROVE  Spec => []CancelledIsNotOrdered
<1>1. IInv /\ SerialInv => CancelledIsNotOrdered
    BY DEF IInv, SerialInv, AttemptsInOrder, AttemptOnRecordBeforeCall, CancelledIsNotOrdered
<1> QED
    BY <1>1, SerialInvariance, PTL

\* An order received in full counts as received.
THEOREM FullReceiptIsSeen ==
    ASSUME ~Overlap
    PROVE  Spec => []FullyReceivedIsReceived
<1>1. SerialInv => FullyReceivedIsReceived
    BY DEF SerialInv
<1> QED
    BY <1>1, SerialInvariance, PTL

----------------------------------------------------------------------------
(* One command at a time: every step is one of PurchaseLifecycle, or none *)

AbstractStep == [Lifecycle!Next]_(Lifecycle!vars)

LEMMA CountOrders ==
    /\ orders = {} => Cardinality(orders) = 0
    /\ \A n : orders = {n} => Cardinality(orders) = 1
BY FS_EmptySet, FS_Singleton

LEMMA StutterIsAbstract ==
    ASSUME po'.status = po.status, orders' = orders PROVE AbstractStep
BY DEF AbstractStep, Lifecycle!vars

LEMMA PlaceIsAbstract ==
    ASSUME IInv, SerialInv, NEW h \in Procs, PlaceCommit(h) PROVE AbstractStep
<1>1. /\ po.status = "po_created" /\ po'.status = "ordering" /\ orders' = orders
      /\ orders = {}
    BY DEF PlaceCommit, SetPo, SerialInv, SessionFresh, At, AttemptsInOrder, IInv,
           AttemptOnRecordBeforeCall, supplierVars
<1> QED
    BY <1>1, CountOrders DEF AbstractStep, Lifecycle!Next, Lifecycle!Place

\* The supplier creates no second order, and none for a settled outcome.
LEMMA SupplierIsAbstract ==
    ASSUME IInv, SerialInv, NEW n \in Attempts, Supplier(n) PROVE AbstractStep
<1>1. CASE SupplierCreate(n)
  <2>1. /\ n \in requests /\ n \in Existing /\ ~Settled(n) /\ n \notin orders
        /\ po.status \in {"ordering", "order_unknown"}
        /\ po'.status = po.status /\ orders' = orders \cup {n}
      BY <1>1 DEF SupplierCreate, SerialInv, AttemptsInOrder, IInv, AttemptOnRecordBeforeCall,
                  StaleReadsSound, OneVerdict
  <2>2. orders = {} /\ orders' = {n}
      BY <2>1, OneIsOpen DEF SerialInv
  <2>3. Cardinality(orders) = 0 /\ Cardinality(orders') = 1
      BY <2>2, FS_EmptySet, FS_Singleton
  <2> QED
      BY <2>1, <2>3 DEF AbstractStep, Lifecycle!Next, Lifecycle!Accept, Lifecycle!Open
<1>2. CASE SupplierReject(n) \/ LoseRequest(n)
    BY <1>2, StutterIsAbstract DEF SupplierReject, LoseRequest
<1> QED
    BY <1>1, <1>2 DEF Supplier

\* An outcome written on the one open attempt is the truth about the supplier.
LEMMA VerdictIsAbstract ==
    ASSUME IInv, SerialInv, NEW n \in Existing, ~Settled(n) \/ \A m \in Existing : m <= n,
           orders' = orders,
           \/ po.status \in {"ordering", "order_unknown"} /\ po'.status = "ordered" /\ n \in orders
           \/ /\ po.status \in {"ordering", "order_unknown"} /\ po'.status = "po_created"
              /\ n \notin orders
           \/ po.status = "ordering" /\ po'.status = "order_unknown"
    PROVE  AbstractStep
<1>1. orders \subseteq {n}
    BY OneIsOpen DEF SerialInv
<1>2. CASE po'.status = "ordered"
  <2>1. orders = {n}
      BY <1>1, <1>2
  <2> QED
      BY <1>2, <2>1, CountOrders
         DEF AbstractStep, Lifecycle!Next, Lifecycle!Settle, Lifecycle!Confirm, Lifecycle!Open
<1>3. CASE po'.status = "po_created"
  <2>1. orders = {}
      BY <1>1, <1>3
  <2> QED
      BY <1>3, <2>1, CountOrders
         DEF AbstractStep, Lifecycle!Next, Lifecycle!Settle, Lifecycle!GiveUp, Lifecycle!Open
<1>4. CASE po'.status = "order_unknown"
    BY <1>4 DEF AbstractStep, Lifecycle!Next, Lifecycle!LoseTrack
<1> QED
    BY <1>2, <1>3, <1>4

LEMMA WriteBackIsAbstract ==
    ASSUME IInv, SerialInv, NEW h \in Procs, NEW outcome, NEW from, NEW to,
           WriteBack(h, outcome, from, to), "ordering" \in from,
           \/ to = "ordered" /\ sess[h].att \in orders
           \/ to = "po_created" /\ sess[h].att \in rejected
           \/ to = "order_unknown"
    PROVE  AbstractStep
<1>1. /\ sess[h].att \in Existing /\ ~Settled(sess[h].att)
      /\ po.status = "ordering" /\ po'.status = to /\ orders' = orders
    BY WriteBackMoves
<1>2. to = "po_created" => sess[h].att \notin orders
    BY DEF IInv, StaleReadsSound, OneVerdict
<1> QED
    BY <1>1, <1>2, VerdictIsAbstract

LEMMA QueryCommitIsAbstract ==
    ASSUME IInv, SerialInv, NEW p \in Procs, QueryCommit(p) PROVE AbstractStep
BY QueryCommitMoves, VerdictIsAbstract

LEMMA EndIsAbstract ==
    ASSUME IInv, SerialInv, NEW h \in Procs, CancelCommit(h) \/ CloseCommit(h)
    PROVE  AbstractStep
<1>1. CASE CancelCommit(h)
  <2>1. /\ po.status = "po_created" /\ po'.status = "cancelled" /\ orders' = orders
        /\ orders = {}
      BY <1>1 DEF CancelCommit, SetPo, SerialInv, SessionFresh, At, AttemptsInOrder, IInv,
                  AttemptOnRecordBeforeCall, supplierVars
  <2> QED
      BY <2>1, CountOrders DEF AbstractStep, Lifecycle!Next, Lifecycle!Cancel
<1>2. CASE CloseCommit(h)
  <2>1. po.status = "received" /\ po'.status = "closed" /\ orders' = orders
      BY <1>2 DEF CloseCommit, SetPo, SerialInv, SessionFresh, At, supplierVars
  <2> QED
      BY <2>1 DEF AbstractStep, Lifecycle!Next, Lifecycle!Close
<1> QED
    BY <1>1, <1>2

LEMMA OneExternalOrder ==
    ASSUME IInv, SerialInv, NEW n \in orders PROVE orders = {n}
<1>1. n \in Existing /\ ~Settled(n)
    BY DEF IInv, AttemptOnRecordBeforeCall, SerialInv, AttemptsInOrder, TypeOK
<1> QED
    BY <1>1, OneIsOpen DEF SerialInv

LEMMA ReceiveIsAbstract ==
    ASSUME IInv, SerialInv, NEW e \in Events, NEW l \in Lines, NEW q \in 1 .. OrderQty[l],
           ReceiveGoods(e, l, q)
    PROVE  AbstractStep
<1>1. /\ po.status \in {"ordered", "partially_received"}
      /\ po'.status \in {"partially_received", "received"} /\ orders' = orders
    BY DEF ReceiveGoods, SetPo, ReceiptTarget, supplierVars
<1>2. PICK n : orders = {n}
    BY <1>1, OneExternalOrder DEF IInv, OrderedHasExternalOrder
<1> QED
    BY <1>1, <1>2, CountOrders DEF AbstractStep, Lifecycle!Next, Lifecycle!Receive

LEMMA NextIsAbstract ==
    ASSUME IInv, SerialInv, [Next]_vars PROVE AbstractStep
<1>1. ASSUME NEW h \in Handlers, PlaceOrder(h) PROVE AbstractStep
  <2>1. CASE PlaceRead(h) \/ PlaceSend(h)
      BY <2>1, StutterIsAbstract DEF PlaceRead, PlaceSend, supplierVars
  <2>2. CASE WriteBackSuccess(h)
      BY <2>2, WriteBackIsAbstract DEF WriteBackSuccess
  <2>3. CASE WriteBackFailure(h)
      BY <2>3, WriteBackIsAbstract DEF WriteBackFailure
  <2>4. CASE WriteBackUnknown(h)
      BY <2>4, WriteBackIsAbstract DEF WriteBackUnknown
  <2> QED
      BY <1>1, <2>1, <2>2, <2>3, <2>4, PlaceIsAbstract DEF PlaceOrder
<1>2. ASSUME NEW h \in Handlers, CancelPurchaseOrder(h) \/ ClosePurchaseOrder(h)
      PROVE  AbstractStep
    BY <1>2, EndIsAbstract, StutterIsAbstract
       DEF CancelPurchaseOrder, CancelRead, CancelCheck, ClosePurchaseOrder, CloseRead, supplierVars
<1>3. ASSUME NEW p \in Procs, QueryUnknownOrder(p) \/ Abandon(p) PROVE AbstractStep
    BY <1>3, QueryCommitIsAbstract, StutterIsAbstract
       DEF QueryUnknownOrder, QueryRead, QueryBegin, QueryReplayed, QueryAnswer, Abandon, supplierVars
<1>4. CASE UNCHANGED vars
    BY <1>4, StutterIsAbstract DEF vars, supplierVars
<1> QED
    BY <1>1, <1>2, <1>3, <1>4, SupplierIsAbstract, ReceiveIsAbstract DEF Next

LEMMA InitIsAbstract == Init => Lifecycle!Init
BY FS_EmptySet DEF Init, Lifecycle!Init

\* One command at a time, whatever crashes and is lost, the order does what
\* PurchaseLifecycle promises.
THEOREM LifecycleIsKept ==
    ASSUME ~Overlap
    PROVE  Spec => ImplementsLifecycle
<1>1. IInv /\ SerialInv /\ [Next]_vars => [Lifecycle!Next]_(Lifecycle!vars)
    BY NextIsAbstract DEF AbstractStep
<1> QED
    BY <1>1, InitIsAbstract, SerialInvariance, PTL DEF Spec, ImplementsLifecycle, Lifecycle!Spec

\* There is never a second order at the supplier.
THEOREM OneOrderAtMost ==
    ASSUME ~Overlap
    PROVE  Spec => []AtMostOneExternalOrder
<1>1. ASSUME IInv, SerialInv PROVE AtMostOneExternalOrder
    BY <1>1, OneExternalOrder, CountOrders DEF AtMostOneExternalOrder
<1> QED
    BY <1>1, SerialInvariance, PTL

\* A new key is used only when every earlier attempt is settled.
THEOREM KeysFollowSettledOnes ==
    ASSUME ~Overlap
    PROVE  Spec => NewKeyOnlyAfterSettled
<1> DEFINE A == \A n \in Attempts : attempt[n] = "none" /\ attempt'[n] # "none" =>
                  \A m \in 1 .. n - 1 : attempt[m] \in {"failed", "queried_not_found"}
<1>1. ASSUME IInv, SerialInv, [Next]_vars PROVE [A]_attempt
  <2> SUFFICES ASSUME NEW n \in Attempts, attempt[n] = "none", attempt'[n] # "none",
                      NEW m \in 1 .. n - 1
               PROVE  attempt[m] \in {"failed", "queried_not_found"}
      OBVIOUS
  <2>1. ASSUME NEW h \in Handlers, PlaceCommit(h) PROVE Settled(m)
    <3>1. PICK k \in Attempts :
            NextAttemptNo(k) /\ attempt' = [attempt EXCEPT ![k] = "attempting"]
        BY <2>1 DEF PlaceCommit
    <3>2. k = n
        BY <1>1, <3>1 DEF IInv, TypeOK
    <3>3. m \in Existing
        BY <3>1, <3>2, ConstantsAssumption DEF NextAttemptNo
    <3>4. po.status = "po_created"
        BY <1>1, <2>1 DEF PlaceCommit, SerialInv, SessionFresh, At
    <3> QED
        BY <1>1, <3>3, <3>4 DEF SerialInv, AttemptsInOrder
  <2>2. \E h \in Handlers : PlaceCommit(h)
    <3>1. ASSUME NEW h \in Handlers, WriteBackSuccess(h) \/ WriteBackFailure(h) \/ WriteBackUnknown(h)
          PROVE  FALSE
      <4>1. PICK outcome : attempt' = [attempt EXCEPT ![sess[h].att] = outcome]
                           /\ sess[h].att \in Existing
          BY <1>1, <3>1 DEF WriteBackSuccess, WriteBackFailure, WriteBackUnknown, WriteBack, IInv,
                      StaleReadsSound, SessionSound, At
      <4> QED
          BY <1>1, <4>1 DEF IInv, TypeOK
    <3>2. ASSUME NEW p \in Procs, QueryCommit(p) PROVE FALSE
        BY <1>1, <3>2, QueryCommitMoves DEF IInv, TypeOK
    <3>3. attempt' # attempt
        OBVIOUS
    <3> QED
        BY <1>1, <3>1, <3>2, <3>3 DEF Next, PlaceOrder, PlaceRead, PlaceSend, CancelPurchaseOrder,
           CancelRead, CancelCheck, CancelCommit, ClosePurchaseOrder, CloseRead, CloseCommit,
           QueryUnknownOrder, QueryRead, QueryBegin, QueryReplayed, QueryAnswer, Abandon,
           Supplier, SupplierCreate, SupplierReject, LoseRequest, ReceiveGoods, vars
  <2> QED
      BY <2>1, <2>2 DEF Settled
<1> QED
    BY <1>1, SerialInvariance, PTL DEF Spec, NewKeyOnlyAfterSettled

\* The status moves only along PO_ALLOWED_TRANSITIONS.
THEOREM TransitionsAreLegal ==
    ASSUME ~Overlap
    PROVE  Spec => LegalTransitions
<1>1. ASSUME IInv, SerialInv, [Next]_vars
      PROVE  [po'.status # po.status => po'.status \in Allowed(po.status)]_po
  <2>1. AbstractStep
      BY <1>1, NextIsAbstract
  <2> QED
      BY <2>1 DEF AbstractStep, Lifecycle!Next, Lifecycle!vars, Lifecycle!Place, Lifecycle!Accept,
                  Lifecycle!LoseTrack, Lifecycle!Settle, Lifecycle!Confirm, Lifecycle!GiveUp,
                  Lifecycle!Cancel, Lifecycle!Receive, Lifecycle!Close, Lifecycle!Open, Allowed
<1> QED
    BY <1>1, SerialInvariance, PTL DEF Spec, LegalTransitions
=============================================================================
