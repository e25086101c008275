-------------------------- MODULE EventStreamProofs --------------------------
(***************************************************************************)
(* The safety properties of EventStream, proved for any number of pages,    *)
(* strangers, turns and faults and for buffers of any size.                 *)
(***************************************************************************)
EXTENDS EventStream, NumberFacts

----------------------------------------------------------------------------
(* The i-th of a set of numbers *)

IsNth(s, seqs, i) == s \in seqs /\ Cardinality({u \in seqs : u < s}) = i - 1

\* There is an i-th number as long as there are i of them.
LEMMA NthExists ==
    ASSUME NEW seqs, seqs \subseteq Int, IsFiniteSet(seqs), NEW i \in 1 .. Cardinality(seqs)
    PROVE  IsNth(Nth(seqs, i), seqs, i)
<1> DEFINE Missing == {j \in 1 .. Cardinality(seqs) : ~\E s : IsNth(s, seqs, j)}
           below(s) == {u \in seqs : u < s}
           above(s) == {u \in seqs : u > s}
<1>0. Cardinality(seqs) \in Nat /\ \A T \in SUBSET seqs : IsFiniteSet(T) /\ Cardinality(T) \in Nat
    BY FS_CardinalityType, FS_Subset
<1>1. ASSUME Missing # {} PROVE FALSE
  <2>0. Missing \subseteq Nat
      OBVIOUS
  <2>1. PICK j \in Missing : \A k \in Missing : j <= k
    <3> HIDE DEF Missing
    <3> QED
        BY <1>1, <2>0, LeastNumber
  <2>2. CASE j = 1
    <3>1. seqs # {}
        BY <2>1, FS_EmptySet
    <3>2. PICK s \in seqs : \A u \in seqs : s <= u
        BY <3>1, SmallestNumber DEF HasSmallest
    <3>3. below(s) = {}
      <4>1. \A u \in seqs : ~(u < s)
          BY <3>2
      <4> QED
          BY <4>1
    <3>4. IsNth(s, seqs, 1)
        BY <3>3, FS_EmptySet DEF IsNth
    <3> QED
        BY <2>1, <2>2, <3>4
  <2>3. CASE j # 1
    <3>1. j - 1 \in 1 .. Cardinality(seqs) /\ j - 1 \notin Missing
        BY <1>0, <2>1, <2>3
    <3>2. PICK p : IsNth(p, seqs, j - 1)
        BY <3>1
    <3>3. Cardinality(below(p)) = j - 2 /\ p \in seqs /\ p \notin below(p)
        BY <3>2, <1>0, <2>1 DEF IsNth
    <3>4. Cardinality(below(p) \cup {p}) = j - 1
      <4>1. IsFiniteSet(below(p)) /\ j \in Nat
          BY <1>0, <2>0, <2>1
      <4>2. Cardinality(below(p) \cup {p}) = Cardinality(below(p)) + 1
        <5> HIDE DEF below
        <5> QED
            BY <3>3, <4>1, FS_AddElement
      <4> HIDE DEF below, Missing
      <4> QED
          BY <3>3, <4>1, <4>2
    <3>5. above(p) # {}
      <4>1. ASSUME above(p) = {} PROVE seqs = below(p) \cup {p}
        <5>1. \A u \in seqs : ~(u > p)
            BY <4>1
        <5>2. \A u \in seqs : u < p \/ u = p
            BY <5>1, <3>3
        <5> QED
            BY <5>2, <3>3
      <4>2. Cardinality(seqs) >= j
          BY <2>1, <1>0
      <4> HIDE DEF above, below, Missing
      <4> QED
          BY <4>1, <4>2, <3>4, <1>0, <2>0, <2>1
    <3>6. PICK s \in above(p) : \A u \in above(p) : s <= u
        BY <3>5, <1>0, SmallestNumber DEF HasSmallest
    <3>7. below(s) = below(p) \cup {p}
      <4>1. \A u \in seqs : u < s <=> u < p \/ u = p
          BY <3>6, <3>3
      <4> QED
          BY <4>1, <3>3
    <3>8. IsNth(s, seqs, j)
        BY <3>4, <3>6, <3>7, <1>0, <2>1 DEF IsNth
    <3> QED
        BY <2>1, <3>8
  <2> QED
      BY <2>2, <2>3
<1>2. \E s : IsNth(s, seqs, i)
    BY <1>1
<1> QED
    BY <1>2 DEF IsNth, Nth

\* The i-th number of an interval.
LEMMA NthOfInterval ==
    ASSUME NEW a \in Int, NEW b \in Int, NEW i \in 1 .. Cardinality(a .. b)
    PROVE  Nth(a .. b, i) = a + i - 1
<1>1. IsFiniteSet(a .. b) /\ a .. b \subseteq Int
    BY FS_Interval
<1>0. IsNth(Nth(a .. b, i), a .. b, i)
    BY <1>1, NthExists
<1>2. PICK s \in a .. b : s = Nth(a .. b, i) /\ Cardinality({u \in a .. b : u < s}) = i - 1
    BY <1>0 DEF IsNth
<1>3. {u \in a .. b : u < s} = a .. (s - 1)
    OBVIOUS
<1>4. Cardinality(a .. (s - 1)) = s - a
  <2>1. s - 1 \in Int /\ s >= a
      OBVIOUS
  <2>2. Cardinality(a .. (s - 1)) = IF a > s - 1 THEN 0 ELSE (s - 1) - a + 1
      BY <2>1, FS_Interval
  <2> QED
      BY <2>1, <2>2
<1>5. i \in Int /\ s \in Int
    BY <1>1, FS_CardinalityType
<1>6. s - a = i - 1
    BY <1>2, <1>3, <1>4
<1> QED
    BY <1>2, <1>5, <1>6

\* Every number of a set is the i-th for some i.
LEMMA EveryoneIsNth ==
    ASSUME NEW seqs, seqs \subseteq Int, IsFiniteSet(seqs), NEW s \in seqs
    PROVE  \E i \in 1 .. Cardinality(seqs) : Nth(seqs, i) = s
<1> DEFINE below(x) == {u \in seqs : u < x}
<1>0. Cardinality(seqs) \in Nat /\ \A T \in SUBSET seqs : IsFiniteSet(T) /\ Cardinality(T) \in Nat
    BY FS_CardinalityType, FS_Subset
<1>1. \A x \in seqs : IsFiniteSet(below(x)) /\ Cardinality(below(x)) \in Nat
    BY <1>0
<1>2. ASSUME NEW x \in seqs, NEW y \in seqs, x < y
      PROVE  Cardinality(below(x)) < Cardinality(below(y))
  <2>1. \A u \in seqs : u < x \/ u = x => u < y
      BY <1>2
  <2>2. x \notin below(x) /\ below(x) \cup {x} \subseteq below(y)
    <3>1. ~(x < x)
        OBVIOUS
    <3> QED
        BY <1>2, <2>1, <3>1
  <2>3. Cardinality(below(x) \cup {x}) = Cardinality(below(x)) + 1
    <3> HIDE DEF below
    <3> QED
        BY <1>1, <2>2, FS_AddElement
  <2>4. Cardinality(below(x) \cup {x}) <= Cardinality(below(y))
    <3> HIDE DEF below
    <3> QED
        BY <1>1, <2>2, FS_Subset
  <2> HIDE DEF below
  <2> QED
      BY <1>1, <2>3, <2>4, <1>0
<1>3. Cardinality(below(s)) < Cardinality(seqs)
  <2>1. below(s) \in SUBSET seqs /\ below(s) # seqs
      OBVIOUS
  <2> HIDE DEF below
  <2> QED
      BY <1>0, <1>1, <2>1, FS_Subset
<1>4. PICK i \in 1 .. Cardinality(seqs) : i = Cardinality(below(s)) + 1
  <2> HIDE DEF below
  <2> QED
      BY <1>0, <1>1, <1>3
<1>5. IsNth(Nth(seqs, i), seqs, i)
    BY NthExists
<1>6. Nth(seqs, i) \in seqs /\ Cardinality(below(Nth(seqs, i))) = Cardinality(below(s))
    BY <1>1, <1>4, <1>5 DEF IsNth
<1>7. Nth(seqs, i) = s
  <2> HIDE DEF below
  <2>1. PICK x \in seqs : x = Nth(seqs, i)
      BY <1>6
  <2>2. ~(x < s) /\ ~(s < x)
      BY <1>1, <1>2, <1>6, <2>1
  <2> QED
      BY <2>1, <2>2
<1> QED
    BY <1>7

----------------------------------------------------------------------------
(* What is replayed *)

\* The frames of a replay are the turn's, numbered on from the cursor.  If the
\* buffer has the whole turn they have their own numbers, and if it has the turn's
\* last event, beyond the cursor, it is among them.
LEMMA ReplayedFrames ==
    ASSUME Typed, NEW t \in Turns, TurnSound(t), NEW cursor \in Number
    PROVE  /\ Replayed(t, cursor) \in Seq(Frame)
           /\ \A i \in DOMAIN Replayed(t, cursor) :
                  /\ Replayed(t, cursor)[i].turn = t
                  /\ Replayed(t, cursor)[i].id = cursor + i
                  /\ turn[t].whole => Replayed(t, cursor)[i].seq = cursor + i
           /\ log[t].seqs = {} => Replayed(t, cursor) = <<>>
           /\ Len(turn[t].sent) - 1 \in log[t].seqs /\ cursor < Len(turn[t].sent) - 1 =>
                  \E i \in DOMAIN Replayed(t, cursor) :
                      Replayed(t, cursor)[i].kind = Last(turn[t].sent)
<1> DEFINE rest == Rest(t, cursor)
           sent == turn[t].sent
           made == 0 .. Len(sent) - 1
<1>0. sent \in Seq(Kinds) /\ Len(sent) \in Nat /\ DOMAIN sent = 1 .. Len(sent)
    BY DEF Typed, Turn
<1>1. rest \subseteq made /\ rest \subseteq log[t].seqs
    BY DEF TurnSound, Rest
<1>2. IsFiniteSet(rest) /\ rest \subseteq Int
  <2>1. IsFiniteSet(made)
      BY <1>0, FS_Interval
  <2> QED
      BY <1>1, <2>1, FS_Subset
<1>3. Cardinality(rest) \in Nat
    BY <1>2, FS_CardinalityType
<1>4. \A i \in 1 .. Cardinality(rest) : Nth(rest, i) \in rest
  <2> HIDE DEF rest
  <2> QED
      BY <1>2, NthExists DEF IsNth
<1>5. Replayed(t, cursor) =
          [i \in 1 .. Cardinality(rest) |->
              [id |-> cursor + i, kind |-> sent[Nth(rest, i) + 1], turn |-> t,
               seq |-> Nth(rest, i)]]
    BY DEF Replayed
<1>6. \A i \in 1 .. Cardinality(rest) :
          /\ cursor + i \in Nat /\ Nth(rest, i) \in Nat
          /\ sent[Nth(rest, i) + 1] \in Kinds
  <2> SUFFICES ASSUME NEW i \in 1 .. Cardinality(rest)
               PROVE  /\ cursor + i \in Nat /\ Nth(rest, i) \in Nat
                      /\ sent[Nth(rest, i) + 1] \in Kinds
      OBVIOUS
  <2>1. PICK n \in made : n = Nth(rest, i)
      BY <1>1, <1>4
  <2>2. n + 1 \in 1 .. Len(sent)
      BY <1>0
  <2>3. cursor + i \in Nat
      BY <1>3 DEF Number
  <2> QED
      BY <1>0, <2>1, <2>2, <2>3
<1>7. Replayed(t, cursor) \in Seq(Frame)
  <2> HIDE DEF rest, sent
  <2>1. \A i \in 1 .. Cardinality(rest) :
           [id |-> cursor + i, kind |-> sent[Nth(rest, i) + 1], turn |-> t,
            seq |-> Nth(rest, i)] \in Frame
      BY <1>6 DEF Frame
  <2> QED
      BY <1>3, <1>5, <2>1
<1>8. ASSUME turn[t].whole, NEW i \in 1 .. Cardinality(rest)
      PROVE  Nth(rest, i) = cursor + i
  <2>1. rest = (cursor + 1) .. (Len(sent) - 1)
    <3>1. log[t].seqs = made
        BY <1>8 DEF TurnSound
    <3>2. \A n \in Int : n \in made /\ n > cursor <=> n >= cursor + 1 /\ n <= Len(sent) - 1
        BY <1>0 DEF Number
    <3>3. cursor + 1 \in Int /\ Len(sent) - 1 \in Int
        BY <1>0 DEF Number
    <3> QED
        BY <3>1, <3>2, <3>3 DEF Rest
  <2>2. cursor + 1 \in Int /\ Len(sent) - 1 \in Int
      BY <1>0 DEF Number
  <2>3. Nth(rest, i) = (cursor + 1) + i - 1
    <3> HIDE DEF rest, sent
    <3> QED
        BY <2>1, <2>2, NthOfInterval
  <2> QED
      BY <1>3, <2>3 DEF Number
<1>9. log[t].seqs = {} => Replayed(t, cursor) = <<>>
  <2>1. log[t].seqs = {} => Cardinality(rest) = 0
      BY <1>1, FS_EmptySet
  <2> QED
      BY <2>1, <1>5, <1>7
<1>10. ASSUME Len(sent) - 1 \in log[t].seqs, cursor < Len(sent) - 1
       PROVE  \E i \in DOMAIN Replayed(t, cursor) : Replayed(t, cursor)[i].kind = Last(sent)
  <2>1. Len(sent) - 1 \in rest
      BY <1>10 DEF Rest
  <2>2. PICK i \in 1 .. Cardinality(rest) : Nth(rest, i) = Len(sent) - 1
    <3> HIDE DEF rest, sent
    <3> QED
        BY <1>2, <2>1, EveryoneIsNth
  <2>3. Replayed(t, cursor)[i].kind = sent[Len(sent)]
    <3> HIDE DEF rest
    <3> QED
        BY <1>0, <1>5, <2>2
  <2> QED
      BY <1>5, <2>2, <2>3 DEF Last
<1> HIDE DEF rest
<1> QED
    BY <1>5, <1>7, <1>8, <1>9, <1>10

----------------------------------------------------------------------------
(* A step of one reader *)

\* A step that changes one reader only keeps everything as soon as it leaves the
\* reader sound.
LEMMA ReaderActs ==
    ASSUME IInv, UNCHANGED <<backend, turn, answer, log>>, faults' \in Nat,
           NEW r \in Readers, NEW s \in Reader, reader' = [reader EXCEPT ![r] = s],
           ServedSound(r, s), FramesSound(r, s)
    PROVE  IInv'
<1>1. Typed'
    BY DEF IInv, Typed
<1>2. \A t \in Turns : TurnSound(t)'
    BY ZenonT(40) DEF IInv, TurnSound, NextKind, Sent
<1>3. \A th \in Threads : (answer[th] # 0 => OfThread(answer[th], th))'
    BY DEF IInv, OfThread
<1>4. ASSUME NEW q \in Readers PROVE ServedSound(q, reader[q])' /\ FramesSound(q, reader[q])'
  <2>1. PICK v : v = reader'[q] /\ ServedSound(q, v) /\ FramesSound(q, v)
      BY DEF IInv, Typed
  <2> QED
      BY <2>1 DEF ServedSound, FramesSound, OfThread
<1> QED
    BY <1>1, <1>2, <1>3, <1>4 DEF IInv

\* What is known of a reader before it acts.
LEMMA Known ==
    ASSUME IInv, NEW r \in Readers
    PROVE  /\ reader \in [Readers -> Reader] /\ reader[r] \in Reader
           /\ ServedSound(r, reader[r]) /\ FramesSound(r, reader[r])
           /\ faults \in Nat
           /\ \A t \in Turns : turn[t] \in Turn /\ log[t] \in Log
BY DEF IInv, Typed

LEMMA KnownTurns ==
    ASSUME IInv, NEW t \in Turns
    PROVE  turn[t] \in Turn /\ log[t] \in Log /\ TurnSound(t) /\ faults \in Nat /\ Nodes \in Nat
BY StreamConstants DEF IInv, Typed

LEMMA RestingType == Resting \in Reader /\ -1 \in Number /\ 0 \in Number /\ <<>> \in Seq(Frame)
<1>1. -1 \in Number /\ 0 \in Number
    BY DEF Number
<1>2. <<>> \in Seq(Frame)
    OBVIOUS
<1> QED
    BY <1>1, <1>2 DEF Resting, Reader

LEMMA SendKeeps ==
    ASSUME IInv, NEW r \in Pages, Send(r)
    PROVE  IInv'
<1> DEFINE s == [Resting EXCEPT !.phase = "asking", !.sends = reader[r].sends + 1]
<1>1. r \in Readers /\ r \notin Strangers
    BY StreamConstants DEF Readers
<1>2. s \in Reader
  <2>1. reader[r].sends + 1 \in Nat
      BY <1>1, Known DEF Reader
  <2> QED
      BY <2>1, RestingType DEF Reader
<1>3. ServedSound(r, s)
    BY <1>1 DEF ServedSound, Resting
<1>4. FramesSound(r, s)
    BY DEF FramesSound, Resting
<1>5. /\ reader' = [reader EXCEPT ![r] = s] /\ UNCHANGED <<backend, turn, answer, log>>
      /\ faults' \in Nat
    BY <1>1, Known DEF Send
<1> HIDE DEF s
<1> QED
    BY <1>1, <1>2, <1>3, <1>4, <1>5, ReaderActs

LEMMA AskForKeeps ==
    ASSUME IInv, NEW r \in Strangers, NEW t \in Turns, AskFor(r, t)
    PROVE  IInv'
<1> DEFINE s == [Resting EXCEPT !.phase = "asking", !.turn = t, !.cursor = 0, !.lastId = 0]
<1>1. r \in Readers /\ r \notin Pages /\ t # 0
    BY StreamConstants DEF Readers
<1>2. s \in Reader
    BY RestingType DEF Reader
<1>3. ServedSound(r, s)
    BY <1>1 DEF ServedSound, Resting
<1>4. FramesSound(r, s)
    BY <1>1 DEF FramesSound, Resting
<1>5. /\ reader' = [reader EXCEPT ![r] = s] /\ UNCHANGED <<backend, turn, answer, log>>
      /\ faults' \in Nat
    BY <1>1, Known DEF AskFor
<1> HIDE DEF s
<1> QED
    BY <1>1, <1>2, <1>3, <1>4, <1>5, ReaderActs

\* A response that is over or broken leaves the reader where its last id is, or an
\* earlier one.
LEMMA EndingSound ==
    ASSUME IInv, NEW r \in Pages, reader[r].phase = "open", NEW id \in Number,
           id \in {reader[r].cursor, reader[r].lastId},
           NEW again \in BOOLEAN, again => id # -1, NEW failed \in BOOLEAN, NEW n \in Nat
    PROVE  LET s == [Ending(r, id, again, failed) EXCEPT !.cuts = n]
           IN  s \in Reader /\ ServedSound(r, s) /\ FramesSound(r, s)
<1> DEFINE s == [Ending(r, id, again, failed) EXCEPT !.cuts = n]
<1>1. r \in Readers /\ r \notin Strangers
    BY StreamConstants DEF Readers
<1>2. /\ reader[r] \in Reader /\ ServedSound(r, reader[r]) /\ FramesSound(r, reader[r])
    BY <1>1, Known
<1>3. s \in Reader
    BY <1>2, RestingType DEF Ending, Reader
<1>4. /\ s.phase = "asking" => id # -1
      /\ s.phase \in {"asking", "over"} /\ s.serve = "none" /\ s.wire = <<>>
      /\ s.cursor = id /\ s.lastId = id
      /\ s.turn = reader[r].turn /\ s.had = reader[r].had /\ s.extra = reader[r].extra
    BY <1>2 DEF Ending, Reader
<1>5. ServedSound(r, s)
  <2> HIDE DEF s
  <2> QED
      BY <1>1, <1>2, <1>4 DEF ServedSound
<1>6. id <= reader[r].lastId
    BY <1>2 DEF FramesSound, Reader, Number
<1>7. FramesSound(r, s)
  <2> HIDE DEF s
  <2>1. ASSUME s.turn # 0, turn[s.turn].whole, ~s.extra
        PROVE  0 .. s.lastId \subseteq s.had /\ \A m \in s.had : 0 .. m \subseteq s.had
    <3>1. 0 .. reader[r].lastId \subseteq s.had /\ \A m \in s.had : 0 .. m \subseteq s.had
        BY <1>2, <1>4, <2>1 DEF FramesSound
    <3>2. \A m \in 0 .. id : m \in 0 .. reader[r].lastId
        BY <1>2, <1>6 DEF Reader, Number
    <3> QED
        BY <1>4, <3>1, <3>2
  <2> QED
      BY <1>4, <2>1 DEF FramesSound, Number
<1> QED
    BY <1>3, <1>5, <1>7

LEMMA EndingsKeep ==
    ASSUME IInv, NEW r \in Pages, EndOfResponse(r) \/ Cut(r) \/ Abort(r)
    PROVE  IInv'
<1>1. r \in Readers /\ reader[r] \in Reader /\ faults \in Nat
    BY Known DEF Readers
<1>2. PICK id \in {reader[r].cursor, reader[r].lastId}, again \in BOOLEAN, failed \in BOOLEAN,
           n \in Nat :
          /\ again => id # -1
          /\ reader' = [reader EXCEPT ![r] = [Ending(r, id, again, failed) EXCEPT !.cuts = n]]
  <2>1. CASE EndOfResponse(r)
    <3>1. EndingAtLast(r) = [EndingAtLast(r) EXCEPT !.cuts = reader[r].cuts]
        BY <1>1 DEF EndingAtLast, Ending, Reader
    <3> QED
        BY <1>1, <2>1, <3>1 DEF EndOfResponse, EndingAtLast, MayAskAgain, Reader
  <2>2. CASE Cut(r)
    <3>1. EndingAtLast(r).cuts + 1 \in Nat
        BY <1>1 DEF EndingAtLast, Ending, Reader
    <3> QED
        BY <2>2, <3>1 DEF Cut, EndingAtLast, MayAskAgain
  <2>3. CASE Abort(r)
    <3>1. EndingFailed(r).cuts + 1 \in Nat
        BY <1>1 DEF EndingFailed, Ending, Reader
    <3> QED
        BY <2>3, <3>1 DEF Abort, EndingFailed
  <2> QED
      BY <2>1, <2>2, <2>3
<1>3. reader[r].phase = "open" /\ UNCHANGED <<backend, turn, answer, log>> /\ faults' \in Nat
    BY <1>1 DEF EndOfResponse, Cut, Abort, Fault
<1>4. id \in Number
    BY <1>1, <1>2 DEF Reader
<1> DEFINE s == [Ending(r, id, again, failed) EXCEPT !.cuts = n]
<1>5. s \in Reader /\ ServedSound(r, s) /\ FramesSound(r, s)
    BY <1>2, <1>3, <1>4, EndingSound
<1>6. reader' = [reader EXCEPT ![r] = s]
    BY <1>2
<1> HIDE DEF s
<1> QED
    BY <1>1, <1>3, <1>5, <1>6, ReaderActs

\* A page that cannot reach the server keeps what it has.
LEMMA AskFailsKeeps ==
    ASSUME IInv, NEW r \in Pages, AskFails(r)
    PROVE  IInv'
<1> DEFINE s == [reader[r] EXCEPT !.phase = "over", !.failed = TRUE]
<1>1. /\ r \in Readers /\ r \notin Strangers /\ reader[r] \in Reader
      /\ ServedSound(r, reader[r]) /\ FramesSound(r, reader[r]) /\ faults \in Nat
    BY Known, StreamConstants DEF Readers
<1>2. s \in Reader
    BY <1>1 DEF Reader
<1>3. /\ s.phase = "over" /\ s.serve = reader[r].serve /\ s.wire = reader[r].wire
      /\ s.turn = reader[r].turn /\ s.cursor = reader[r].cursor /\ s.lastId = reader[r].lastId
      /\ s.had = reader[r].had /\ s.extra = reader[r].extra
    BY <1>1 DEF Reader
<1>4. reader[r].phase = "asking"
    BY DEF AskFails
<1>5. reader' = [reader EXCEPT ![r] = s]
  <2>1. reader \in [Readers -> Reader]
      BY DEF IInv, Typed
  <2> QED
      BY <1>1, <2>1 DEF AskFails
<1>8. UNCHANGED <<backend, turn, answer, log>> /\ faults' \in Nat
    BY <1>1 DEF AskFails, Fault
<1> HIDE DEF s
<1>6. ServedSound(r, s)
    BY <1>1, <1>3, <1>4 DEF ServedSound
<1>7. FramesSound(r, s)
    BY <1>1, <1>3 DEF FramesSound
<1> QED
    BY <1>1, <1>2, <1>5, <1>6, <1>7, <1>8, ReaderActs

----------------------------------------------------------------------------
(* The server answers a request with a cursor *)

LEMMA LastSentIs ==
    ASSUME IInv, NEW r \in Readers
    PROVE  LastSent(r) = reader[r].lastId + Len(reader[r].wire)
<1>1. /\ reader[r].wire \in Seq(Frame) /\ reader[r].lastId \in Int
      /\ \A i \in DOMAIN reader[r].wire : reader[r].wire[i].id = reader[r].lastId + i
    BY Known DEF FramesSound, Reader, Number
<1>2. CASE reader[r].wire = <<>>
    BY <1>1, <1>2 DEF LastSent
<1>3. CASE reader[r].wire # <<>>
  <2>1. Len(reader[r].wire) \in DOMAIN reader[r].wire
      BY <1>1, <1>3
  <2> QED
      BY <1>1, <1>3, <2>1 DEF LastSent, Last
<1> QED
    BY <1>2, <1>3

FrameFits(f, r, n) ==
    /\ f.turn # 0 => OfThread(f.turn, r)
    /\ f.id = n
    /\ turn[reader[r].turn].whole /\ f.seq # -1 => f.seq = f.id /\ f.turn = reader[r].turn

\* Frames that are the reader's own and numbered on from the last one sent may be sent.
LEMMA RespondKeeps ==
    ASSUME IInv, NEW r \in Readers, reader[r].phase = "open",
           UNCHANGED <<backend, turn, answer, log, faults>>,
           NEW frames \in Seq(Frame), NEW serve \in {"over", "fallback"},
           Respond(r, frames, serve),
           \A i \in DOMAIN frames : FrameFits(frames[i], r, LastSent(r) + i)
    PROVE  IInv'
<1> DEFINE s == [reader[r] EXCEPT !.wire = @ \o frames, !.serve = serve]
           wire == reader[r].wire
<1>1. reader[r] \in Reader /\ ServedSound(r, reader[r]) /\ FramesSound(r, reader[r])
    BY Known
<1>2. wire \in Seq(Frame) /\ Len(wire) \in Nat /\ reader[r].lastId \in Int
    BY <1>1 DEF Reader, Number
<1>3. s \in Reader
  <2>1. wire \o frames \in Seq(Frame)
      BY <1>2
  <2> QED
      BY <1>1, <2>1 DEF Reader
<1>4. /\ s.wire = wire \o frames /\ s.serve = serve /\ s.phase = "open"
      /\ s.turn = reader[r].turn /\ s.lastId = reader[r].lastId /\ s.cursor = reader[r].cursor
      /\ s.had = reader[r].had /\ s.extra = reader[r].extra
    BY <1>1 DEF Reader
<1>5. ServedSound(r, s)
  <2> HIDE DEF s
  <2> QED
      BY <1>1, <1>4 DEF ServedSound
<1>6. \A i \in DOMAIN s.wire : FrameFits(s.wire[i], r, s.lastId + i)
  <2>1. SUFFICES ASSUME NEW i \in DOMAIN (wire \o frames)
                 PROVE  FrameFits((wire \o frames)[i], r, reader[r].lastId + i)
    <3> HIDE DEF s
    <3> QED
        BY <1>4
  <2>2. CASE i \in DOMAIN wire
    <3>1. (wire \o frames)[i] = wire[i]
        BY <1>2, <2>2
    <3> HIDE DEF wire
    <3>2. FrameFits(wire[i], r, reader[r].lastId + i)
        BY <1>1, <2>2 DEF FramesSound, FrameFits, wire
    <3> QED
        BY <3>1, <3>2
  <2>3. CASE i \notin DOMAIN wire
    <3>1. PICK j \in DOMAIN frames : i = Len(wire) + j /\ (wire \o frames)[i] = frames[j]
      <4>1. i - Len(wire) \in DOMAIN frames /\ (wire \o frames)[i] = frames[i - Len(wire)]
          BY <1>2, <2>3
      <4> QED
          BY <1>2, <4>1
    <3>2. reader[r].lastId + i = LastSent(r) + j
      <4>1. j \in Int /\ LastSent(r) = reader[r].lastId + Len(wire)
          BY LastSentIs
      <4>2. i = Len(wire) + j /\ Len(wire) \in Int /\ reader[r].lastId \in Int
          BY <1>2, <3>1
      <4> HIDE DEF wire
      <4> QED
          BY <4>1, <4>2
    <3> QED
        BY <3>1, <3>2
  <2> QED
      BY <2>2, <2>3
<1>7. FramesSound(r, s)
  <2> HIDE DEF s, wire
  <2> QED
      BY <1>1, <1>4, <1>6 DEF FramesSound, FrameFits
<1>8. reader' = [reader EXCEPT ![r] = s] /\ faults' \in Nat
    BY Known DEF Respond
<1> HIDE DEF s
<1> QED
    BY <1>3, <1>5, <1>7, <1>8, ReaderActs

LEMMA RefuseForeignKeeps ==
    ASSUME IInv, NEW r \in Readers, RefuseForeign(r)
    PROVE  IInv'
<1> DEFINE n == reader[r].cursor
           frames == <<Made(n + 1, "error", 0), Made(n + 2, "done", 0)>>
<1>1. reader[r] \in Reader /\ ServedSound(r, reader[r])
    BY Known
<1>2. n + 1 \in Nat /\ n + 2 \in Nat /\ n \in Int
    BY <1>1 DEF Reader, Number
<1>3. Made(n + 1, "error", 0) \in Frame /\ Made(n + 2, "done", 0) \in Frame
    BY <1>2, RestingType DEF Made, Frame, Kinds
<1>4. reader[r].phase = "open" /\ LastSent(r) = n
    BY <1>1 DEF RefuseForeign, ServedSound, LastSent
<1>5. FrameFits(frames[1], r, LastSent(r) + 1) /\ FrameFits(frames[2], r, LastSent(r) + 2)
    BY <1>2, <1>4 DEF FrameFits, Made
<1>6. frames \in Seq(Frame) /\ DOMAIN frames = {1, 2}
    BY <1>3
<1>7. Respond(r, frames, "over") /\ UNCHANGED <<backend, turn, answer, log, faults>>
    BY DEF RefuseForeign
<1> HIDE DEF frames
<1> QED
    BY <1>4, <1>5, <1>6, <1>7, RespondKeeps

LEMMA FallbackKeeps ==
    ASSUME IInv, NEW r \in Readers, Fallback(r)
    PROVE  IInv'
<1> DEFINE n == LastSent(r)
           t == answer[r]
           frames == IF t = 0
                     THEN <<Made(n + 1, "error", 0), Made(n + 2, "done", 0)>>
                     ELSE <<Made(n + 1, "message", t), Made(n + 2, "done", t)>>
<1>1. reader[r] \in Reader /\ ServedSound(r, reader[r]) /\ t \in Turns \cup {0}
      /\ (t # 0 => OfThread(t, r))
    BY Known DEF IInv, Typed, Threads
<1>2. n + 1 \in Nat /\ n + 2 \in Nat /\ n \in Int
  <2>1. n = reader[r].lastId + Len(reader[r].wire) /\ Len(reader[r].wire) \in Nat
      BY <1>1, LastSentIs DEF Reader
  <2> QED
      BY <1>1, <2>1, SMTT(30) DEF Reader, Number
<1> HIDE DEF n, t
<1>3. \A k \in Kinds : Made(n + 1, k, t) \in Frame /\ Made(n + 2, k, t) \in Frame
    BY <1>1, <1>2, RestingType DEF Made, Frame
<1>4. reader[r].phase = "open"
    BY <1>1 DEF Fallback, ServedSound
<1>5. FrameFits(frames[1], r, n + 1) /\ FrameFits(frames[2], r, n + 2)
    BY <1>1 DEF FrameFits, Made
<1>6. frames \in Seq(Frame) /\ DOMAIN frames = {1, 2}
    BY <1>3 DEF Kinds
<1>7. Respond(r, frames, "over") /\ UNCHANGED <<backend, turn, answer, log, faults>>
    BY DEF Fallback, n, t
<1> HIDE DEF frames
<1> QED
    BY <1>4, <1>5, <1>6, <1>7, RespondKeeps DEF n

\* What a reader may read of the buffer is its own turn's.
LEMMA ReplayKeeps ==
    ASSUME IInv, NEW r \in Readers, reader[r].serve \in {"asked", "meta"},
           reader[r].turn \in Turns,
           log[reader[r].turn].seqs = {} \/ OfThread(reader[r].turn, r),
           UNCHANGED <<backend, turn, answer, log, faults>>, NEW serve \in {"over", "fallback"},
           Respond(r, Replayed(reader[r].turn, reader[r].cursor), serve)
    PROVE  IInv'
<1> DEFINE t == reader[r].turn
           frames == Replayed(t, reader[r].cursor)
<1>1. reader[r] \in Reader /\ ServedSound(r, reader[r])
    BY Known
<1>2. reader[r].phase = "open" /\ LastSent(r) = reader[r].cursor
    BY <1>1 DEF ServedSound, LastSent
<1>3. reader[r].cursor \in Number /\ Typed /\ TurnSound(t)
    BY <1>1 DEF Reader, IInv
<1>4. /\ frames \in Seq(Frame)
      /\ log[t].seqs = {} => frames = <<>>
      /\ \A i \in DOMAIN frames :
            /\ frames[i].turn = t /\ frames[i].id = reader[r].cursor + i
            /\ turn[t].whole => frames[i].seq = reader[r].cursor + i
    BY <1>3, ReplayedFrames
<1> HIDE DEF frames
<1>5. ASSUME NEW i \in DOMAIN frames PROVE FrameFits(frames[i], r, LastSent(r) + i)
    BY <1>2, <1>4 DEF FrameFits
<1> QED
    BY <1>2, <1>4, <1>5, RespondKeeps DEF frames

LEMMA ReadTurnKeeps ==
    ASSUME IInv, NEW r \in Readers, ReadTurn(r) \/ ReadEvents(r)
    PROVE  IInv'
<1>1. /\ reader[r] \in Reader /\ ServedSound(r, reader[r])
      /\ \A t \in Turns : TurnSound(t) /\ log[t] \in Log
    BY Known DEF IInv
<1>2. reader[r].serve \in {"asked", "meta"}
    BY DEF ReadTurn, ReadEvents
<1>3. reader[r].turn \in Turns
    BY <1>1, <1>2 DEF ServedSound, Reader
<1>4. log[reader[r].turn].seqs = {} \/ OfThread(reader[r].turn, r)
  <2>1. CASE ReadTurn(r)
    <3>1. CASE log[reader[r].turn] = NoLog
        BY <3>1 DEF NoLog
    <3>2. CASE log[reader[r].turn] # NoLog
        BY <1>1, <1>3, <2>1, <3>2 DEF ReadTurn, Foreign, TurnSound, OfThread
    <3> QED
        BY <3>1, <3>2
  <2>2. CASE ReadEvents(r)
      BY <1>1, <2>2 DEF ReadEvents, ServedSound
  <2> QED
      BY <2>1, <2>2
<1>5. \A complete : AfterRest(complete) \in {"over", "fallback"}
    BY DEF AfterRest
<1> QED
    BY <1>2, <1>3, <1>4, <1>5, ReplayKeeps DEF ReadTurn, ReadEvents

LEMMA ReadMetaKeeps ==
    ASSUME IInv, NEW r \in Readers, ReadMeta(r)
    PROVE  IInv'
<1> DEFINE t == reader[r].turn
           serve == IF log[t] = NoLog THEN "fallback" ELSE "meta"
           s == [reader[r] EXCEPT !.complete = log[t].done, !.serve = serve]
<1>1. /\ reader[r] \in Reader /\ ServedSound(r, reader[r]) /\ FramesSound(r, reader[r])
      /\ \A u \in Turns : TurnSound(u) /\ log[u] \in Log
    BY Known DEF IInv
<1>2. reader[r].serve = "asked" /\ reader[r].phase = "open" /\ t \in Turns
    BY <1>1 DEF ReadMeta, ServedSound, Reader
<1>3. s \in Reader
    BY <1>1, <1>2 DEF Reader, Log
<1>4. /\ s.wire = reader[r].wire /\ s.serve = serve /\ s.phase = "open"
      /\ s.turn = t /\ s.lastId = reader[r].lastId /\ s.cursor = reader[r].cursor
      /\ s.had = reader[r].had /\ s.extra = reader[r].extra
    BY <1>1, <1>2 DEF Reader
<1>5. serve = "meta" => OfThread(t, r)
    BY <1>1, <1>2 DEF ReadMeta, Foreign, TurnSound, OfThread
<1>6. ServedSound(r, s)
  <2> HIDE DEF s
  <2> QED
      BY <1>1, <1>2, <1>4, <1>5 DEF ServedSound, ReadMeta
<1>7. FramesSound(r, s)
  <2> HIDE DEF s
  <2> QED
      BY <1>1, <1>4 DEF FramesSound
<1>8. /\ reader' = [reader EXCEPT ![r] = s] /\ faults' \in Nat
      /\ UNCHANGED <<backend, turn, answer, log>>
    BY Known DEF ReadMeta
<1> HIDE DEF s
<1> QED
    BY <1>3, <1>6, <1>7, <1>8, ReaderActs

----------------------------------------------------------------------------
(* A reader reads a frame, and asks *)

LEMMA ReadKeeps ==
    ASSUME IInv, NEW r \in Pages, Read(r)
    PROVE  IInv'
<1> DEFINE old == reader[r]
           frame == Head(old.wire)
           own == frame.seq # -1 /\ frame.turn = old.turn
           s == [old EXCEPT !.wire = Tail(@), !.lastId = frame.id,
                            !.had = IF own THEN @ \cup {frame.seq} ELSE @,
                            !.extra = @ \/ (frame.seq = -1),
                            !.ended = @ \/ (frame.kind = "done")]
<1>1. /\ r \in Readers /\ r \notin Strangers /\ old \in Reader
      /\ ServedSound(r, old) /\ FramesSound(r, old)
    BY StreamConstants, Known DEF Readers
<1>2. /\ old.wire \in Seq(Frame) /\ old.wire # <<>> /\ frame \in Frame /\ frame = old.wire[1]
      /\ Tail(old.wire) \in Seq(Frame) /\ old.phase = "open" /\ 1 \in DOMAIN old.wire
      /\ Len(Tail(old.wire)) = Len(old.wire) - 1
      /\ \A i \in DOMAIN Tail(old.wire) :
             i + 1 \in DOMAIN old.wire /\ Tail(old.wire)[i] = old.wire[i + 1]
    BY <1>1 DEF Read, Reader
<1>3. s \in Reader
  <2>1. (IF own THEN old.had \cup {frame.seq} ELSE old.had) \in SUBSET Nat
      BY <1>1, <1>2 DEF Reader, Frame
  <2>2. frame.id \in Number
      BY <1>2 DEF Frame, Number
  <2> QED
      BY <1>1, <1>2, <2>1, <2>2, ZenonT(40) DEF Reader
<1>4. /\ s.wire = Tail(old.wire) /\ s.lastId = frame.id
      /\ s.had = (IF own THEN old.had \cup {frame.seq} ELSE old.had)
      /\ s.extra = (old.extra \/ frame.seq = -1)
      /\ s.phase = "open" /\ s.serve = old.serve /\ s.turn = old.turn /\ s.cursor = old.cursor
    BY <1>1, <1>2 DEF Reader
<1>5. frame.id = old.lastId + 1 /\ old.lastId \in Int /\ old.cursor \in Int
    BY <1>1, <1>2 DEF FramesSound, Reader, Number
<1>6. ServedSound(r, s)
  <2> HIDE DEF s
  <2> QED
      BY <1>1, <1>2, <1>4 DEF ServedSound
<1>7. \A i \in DOMAIN s.wire :
          /\ s.wire[i].turn # 0 => OfThread(s.wire[i].turn, r)
          /\ s.wire[i].id = s.lastId + i
          /\ turn[s.turn].whole /\ s.wire[i].seq # -1 =>
                 s.wire[i].seq = s.wire[i].id /\ s.wire[i].turn = s.turn
  <2> HIDE DEF s
  <2> SUFFICES ASSUME NEW i \in DOMAIN Tail(old.wire)
               PROVE  /\ s.wire[i].turn # 0 => OfThread(s.wire[i].turn, r)
                      /\ s.wire[i].id = s.lastId + i
                      /\ turn[s.turn].whole /\ s.wire[i].seq # -1 =>
                             s.wire[i].seq = s.wire[i].id /\ s.wire[i].turn = s.turn
      BY <1>4
  <2>1. s.wire[i] = old.wire[i + 1] /\ i + 1 \in DOMAIN old.wire /\ i \in Int
      BY <1>2, <1>4
  <2>2. s.lastId + i = old.lastId + (i + 1)
    <3>1. s.lastId = old.lastId + 1 /\ old.lastId \in Int
        BY <1>4, <1>5
    <3>2. i \in Int
        BY <2>1
    <3> HIDE DEF old
    <3> QED
        BY <3>1, <3>2
  <2> QED
      BY <1>1, <1>4, <2>1, <2>2 DEF FramesSound
<1>8. ASSUME s.turn # 0, turn[s.turn].whole, ~s.extra
      PROVE  0 .. s.lastId \subseteq s.had /\ \A n \in s.had : 0 .. n \subseteq s.had
  <2> HIDE DEF s
  <2>1. /\ 0 .. old.lastId \subseteq old.had /\ \A n \in old.had : 0 .. n \subseteq old.had
        /\ frame.seq # -1
      BY <1>1, <1>4, <1>8 DEF FramesSound
  <2>2. frame.seq = old.lastId + 1 /\ own
      BY <1>1, <1>2, <1>4, <1>5, <1>8, <2>1 DEF FramesSound
  <2>3. s.had = old.had \cup {old.lastId + 1} /\ s.lastId = old.lastId + 1
      BY <1>4, <1>5, <2>2
  <2>4. \A n \in 0 .. (old.lastId + 1) : n \in 0 .. old.lastId \/ n = old.lastId + 1
      BY <1>5
  <2> QED
      BY <2>1, <2>3, <2>4
<1>9. s.serve = "live" => s.lastId + Len(s.wire) + 1 = Len(turn[s.turn].sent)
  <2>1. Len(old.wire) \in Int
      BY <1>2
  <2> HIDE DEF s
  <2> QED
      BY <1>1, <1>2, <1>4, <1>5, <2>1 DEF FramesSound
<1>10. FramesSound(r, s)
  <2>1. s.cursor <= s.lastId
    <3> HIDE DEF s
    <3> QED
        BY <1>1, <1>4, <1>5, SMTT(30) DEF FramesSound
  <2> HIDE DEF s
  <2> QED
      BY <1>7, <1>8, <1>9, <2>1 DEF FramesSound
<1>11. /\ reader' = [reader EXCEPT ![r] = s] /\ faults' \in Nat
       /\ UNCHANGED <<backend, turn, answer, log>>
    BY <1>1, Known DEF Read
<1> HIDE DEF s
<1> QED
    BY <1>1, <1>3, <1>6, <1>10, <1>11, ReaderActs

LEMMA AskWithCursorKeeps ==
    ASSUME IInv, NEW r \in Readers, Ask(r), reader[r].cursor # -1
    PROVE  IInv'
<1> DEFINE old == reader[r]
           s == [old EXCEPT !.phase = "open", !.serve = "asked", !.requests = @ + 1]
<1>1. old \in Reader /\ ServedSound(r, old) /\ FramesSound(r, old)
    BY Known
<1>2. s \in Reader
  <2>1. old.requests + 1 \in Nat
      BY <1>1 DEF Reader
  <2> QED
      BY <1>1, <2>1 DEF Reader
<1>3. /\ s.wire = old.wire /\ s.serve = "asked" /\ s.phase = "open" /\ s.turn = old.turn
      /\ s.lastId = old.lastId /\ s.cursor = old.cursor
      /\ s.had = old.had /\ s.extra = old.extra
    BY <1>1 DEF Reader
<1>4. ServedSound(r, s)
  <2> HIDE DEF s
  <2> QED
      BY <1>1, <1>3 DEF ServedSound, Ask
<1>5. FramesSound(r, s)
  <2> HIDE DEF s
  <2> QED
      BY <1>1, <1>3 DEF FramesSound
<1>6. /\ reader' = [reader EXCEPT ![r] = s] /\ faults' \in Nat
      /\ UNCHANGED <<backend, turn, answer, log>>
    BY Known DEF Ask
<1> HIDE DEF s
<1> QED
    BY <1>2, <1>4, <1>5, <1>6, ReaderActs

----------------------------------------------------------------------------
(* The steps of turns *)

\* A turn keeps its thread and its events; once its buffer has a gap, it has one.
TurnGoesOn(t) ==
    /\ turn[t].graph # "none" => turn'[t].graph # "none" /\ turn'[t].thread = turn[t].thread
    /\ turn'[t].whole => turn[t].whole
    /\ Len(turn[t].sent) <= Len(turn'[t].sent)
    /\ \A i \in DOMAIN turn[t].sent : turn'[t].sent[i] = turn[t].sent[i]

TurnsGoOn == \A t \in Turns : TurnGoesOn(t)

LEMMA ReaderStays ==
    ASSUME IInv, TurnsGoOn, backend' = backend, NEW r \in Readers, reader'[r] = reader[r],
           reader[r].serve = "live" =>
               Len(turn'[reader[r].turn].sent) = Len(turn[reader[r].turn].sent)
    PROVE  ServedSound(r, reader[r])' /\ FramesSound(r, reader[r])'
<1>1. reader[r] \in Reader /\ ServedSound(r, reader[r]) /\ FramesSound(r, reader[r])
    BY Known
<1>2. \A t, th : OfThread(t, th) => OfThread(t, th)'
    BY DEF TurnsGoOn, TurnGoesOn, OfThread
<1>3. \A t \in Turns : turn'[t].whole => turn[t].whole
    BY DEF TurnsGoOn, TurnGoesOn
<1>4. PICK s : s = reader[r] /\ s = reader'[r]
    OBVIOUS
<1>5. s \in Reader /\ ServedSound(r, s) /\ FramesSound(r, s)
    BY <1>1, <1>4
<1>6. ServedSound(r, s)'
    BY <1>2, <1>5 DEF ServedSound
<1>7. FramesSound(r, s)'
  <2>1. DOMAIN s.wire # {} => s.turn \in Turns
      BY <1>5 DEF ServedSound, Reader
  <2>2. s.serve = "live" => Len(turn'[s.turn].sent) = Len(turn[s.turn].sent)
      BY <1>4
  <2>3. s.turn # 0 => s.turn \in Turns
      BY <1>5 DEF Reader
  <2> QED
      BY <1>2, <1>3, <1>5, <2>1, <2>2, <2>3 DEF FramesSound
<1> QED
    BY <1>4, <1>6, <1>7

LEMMA TurnStays ==
    ASSUME NEW t \in Turns, TurnSound(t), backend' = backend, turn'[t] = turn[t], log'[t] = log[t]
    PROVE  TurnSound(t)' /\ TurnGoesOn(t)
BY DEF TurnSound, TurnGoesOn, NextKind, Sent

LEMMA AnswersStay ==
    ASSUME IInv, TurnsGoOn, answer' = answer
    PROVE  (\A th \in Threads : answer[th] # 0 => OfThread(answer[th], th))'
<1>1. \A t, th : OfThread(t, th) => OfThread(t, th)'
    BY DEF TurnsGoOn, TurnGoesOn, OfThread
<1> QED
    BY <1>1 DEF IInv

\* A step of one turn that makes no event.
LEMMA TurnActs ==
    ASSUME IInv, UNCHANGED <<backend, reader>>, faults' \in Nat, log' \in [Turns -> Log],
           NEW t \in Turns, NEW n \in Turn, turn' = [turn EXCEPT ![t] = n],
           n.graph # "none", n.thread = turn[t].thread, n.sent = turn[t].sent,
           n.whole => turn[t].whole,
           TurnSound(t)', \A u \in Turns \ {t} : log'[u] = log[u],
           (\A th \in Threads : answer[th] # 0 => OfThread(answer[th], th))',
           answer' \in [Threads -> Turns \cup {0}]
    PROVE  IInv' /\ TurnsGoOn
<1>0. turn \in [Turns -> Turn] /\ turn'[t] = n
    BY DEF IInv, Typed
<1>1. Typed'
    BY DEF IInv, Typed
<1>2. \A u \in Turns \ {t} : turn'[u] = turn[u]
    BY <1>0
<1>3. \A u \in Turns : TurnSound(u)'
    BY <1>2, TurnStays DEF IInv
<1>4. TurnsGoOn
  <2>1. turn[t] \in Turn
      BY <1>0
  <2>2. TurnGoesOn(t)
      BY <1>0, <2>1 DEF TurnGoesOn, Turn
  <2> QED
      BY <1>2, <2>2, TurnStays DEF TurnsGoOn, IInv
<1>5. \A u \in Turns : turn'[u].sent = turn[u].sent
    BY <1>0, <1>2
<1>6. ASSUME NEW r \in Readers PROVE ServedSound(r, reader[r])' /\ FramesSound(r, reader[r])'
  <2>1. reader[r].serve = "live" => reader[r].turn \in Turns
      BY Known DEF ServedSound, OfThread
  <2> QED
      BY <1>4, <1>5, <2>1, ReaderStays
<1> QED
    BY <1>1, <1>3, <1>4, <1>6 DEF IInv

LEMMA KindCounts ==
    ASSUME NEW t \in Turns, turn[t] \in Turn, NEW kind
    PROVE  Sent(t, kind) \in Nat
<1>1. turn[t].sent \in Seq(Kinds)
    BY DEF Turn
<1>2. IsFiniteSet(1 .. Len(turn[t].sent)) /\ DOMAIN turn[t].sent = 1 .. Len(turn[t].sent)
    BY <1>1, FS_Interval
<1>3. IsFiniteSet({i \in DOMAIN turn[t].sent : turn[t].sent[i] = kind})
    BY <1>2, FS_Subset
<1> QED
    BY <1>3, FS_CardinalityType DEF Sent

\* What the graph does meanwhile leaves an event to be made one.
LEMMA StillAnEvent ==
    ASSUME NEW t \in Turns, turn[t] \in Turn, NextKind(t) # "none",
           turn'[t].sent = turn[t].sent, turn'[t].nodes \in Nat,
           turn[t].nodes <= turn'[t].nodes,
           turn[t].graph # "running" => turn'[t].graph = turn[t].graph
    PROVE  NextKind(t)' # "none"
<1>1. \A kind : Sent(t, kind)' = Sent(t, kind)
    BY DEF Sent
<1>2. Sent(t, "node") \in Nat /\ turn[t].nodes \in Nat
    BY KindCounts DEF Turn
<1>3. Sent(t, "node") < turn[t].nodes => Sent(t, "node")' < turn'[t].nodes
    BY <1>1, <1>2
<1> QED
    BY <1>1, <1>3 DEF NextKind

LEMMA NodeKeeps ==
    ASSUME IInv, NEW t \in Turns, Node(t)
    PROVE  IInv' /\ TurnsGoOn
<1> DEFINE last == turn[t].nodes + 1 = Nodes
           n == [turn[t] EXCEPT !.nodes = @ + 1, !.graph = IF last THEN "answered" ELSE @]
<1>1. turn[t] \in Turn /\ TurnSound(t) /\ turn[t].graph = "running" /\ Nodes \in Nat
    BY KnownTurns DEF Node
<1>2. turn[t].nodes + 1 \in 0 .. Nodes
    BY <1>1 DEF TurnSound, Turn
<1>3. n \in Turn
    BY <1>1, <1>2 DEF Turn
<1>4. /\ n.graph = (IF last THEN "answered" ELSE "running") /\ n.nodes = turn[t].nodes + 1
      /\ n.thread = turn[t].thread /\ n.sent = turn[t].sent /\ n.whole = turn[t].whole
      /\ n.gen = turn[t].gen
    BY <1>1 DEF Turn
<1>5. turn' = [turn EXCEPT ![t] = n] /\ turn'[t] = n
    BY DEF Node, IInv, Typed
<1> HIDE DEF n
<1>6. TurnSound(t)'
  <2>1. n.graph = "running" => n.nodes < Nodes
      BY <1>1, <1>2, <1>4
  <2>2. turn[t].nodes <= n.nodes /\ n.nodes \in Nat
      BY <1>1, <1>2, <1>4 DEF Turn
  <2>3. NextKind(t) # "none" => NextKind(t)' # "none"
      BY <1>1, <1>4, <1>5, <2>2, StillAnEvent
  <2> QED
      BY <1>1, <1>4, <1>5, <2>1, <2>3 DEF TurnSound, Node
<1>7. /\ answer' \in [Threads -> Turns \cup {0}]
      /\ (\A th \in Threads : answer[th] # 0 => OfThread(answer[th], th))'
  <2>1. \A u, th : OfThread(u, th) => OfThread(u, th)'
      BY <1>1, <1>4, <1>5 DEF OfThread, IInv, Typed
  <2>2. turn'[t].graph # "none" /\ turn'[t].thread = turn[t].thread
      BY <1>4, <1>5
  <2>3. \A th \in Threads : answer'[th] = answer[th] \/ (answer'[th] = t /\ th = turn[t].thread)
      BY DEF Node, IInv, Typed
  <2>4. answer' \in [Threads -> Turns \cup {0}]
      BY DEF Node, IInv, Typed
  <2>5. ASSUME NEW th \in Threads, answer'[th] # 0
        PROVE  OfThread(answer[th], th)'
    <3>1. CASE answer'[th] = answer[th]
        BY <2>1, <2>5, <3>1 DEF IInv, OfThread
    <3>2. CASE answer'[th] = t /\ th = turn[t].thread
        BY <2>2, <3>2 DEF OfThread
    <3> QED
        BY <2>3, <3>1, <3>2
  <2> QED
      BY <2>4, <2>5
<1>8. UNCHANGED <<backend, reader, log>> /\ faults' \in Nat /\ log' \in [Turns -> Log]
    BY DEF Node, IInv, Typed
<1> QED
    BY <1>1, <1>3, <1>4, <1>5, <1>6, <1>7, <1>8, TurnActs

LEMMA GraphFailsKeeps ==
    ASSUME IInv, NEW t \in Turns, GraphFails(t)
    PROVE  IInv' /\ TurnsGoOn
<1> DEFINE n == [turn[t] EXCEPT !.graph = "failed"]
<1>1. turn[t] \in Turn /\ TurnSound(t) /\ turn[t].graph = "running"
    BY KnownTurns DEF GraphFails
<1>2. /\ n \in Turn /\ n.graph = "failed" /\ n.nodes = turn[t].nodes /\ n.thread = turn[t].thread
      /\ n.sent = turn[t].sent /\ n.whole = turn[t].whole /\ n.gen = turn[t].gen
    BY <1>1 DEF Turn
<1>3. turn' = [turn EXCEPT ![t] = n] /\ turn'[t] = n
    BY DEF GraphFails, IInv, Typed
<1> HIDE DEF n
<1>4. TurnSound(t)'
  <2>1. turn[t].nodes <= n.nodes /\ n.nodes \in Nat
      BY <1>1, <1>2, StreamConstants DEF Turn
  <2>2. NextKind(t) # "none" => NextKind(t)' # "none"
      BY <1>1, <1>2, <1>3, <2>1, StillAnEvent
  <2> QED
      BY <1>1, <1>2, <1>3, <2>2 DEF TurnSound, GraphFails
<1>5. /\ UNCHANGED <<backend, reader, log, answer>> /\ faults' \in Nat /\ log' \in [Turns -> Log]
      /\ answer' \in [Threads -> Turns \cup {0}]
    BY DEF GraphFails, Fault, IInv, Typed
<1>6. TurnsGoOn
  <2>1. TurnGoesOn(t)
      BY <1>1, <1>2, <1>3 DEF TurnGoesOn, Turn
  <2>2. \A u \in Turns \ {t} : turn'[u] = turn[u] /\ log'[u] = log[u]
      BY <1>3, <1>5 DEF IInv, Typed
  <2> QED
      BY <1>5, <2>1, <2>2, TurnStays DEF TurnsGoOn, IInv
<1>7. (\A th \in Threads : answer[th] # 0 => OfThread(answer[th], th))'
    BY <1>5, <1>6, AnswersStay
<1> QED
    BY <1>1, <1>2, <1>3, <1>4, <1>5, <1>7, TurnActs

LEMMA CancelKeeps ==
    ASSUME IInv, NEW t \in Turns, Cancel(t)
    PROVE  IInv' /\ TurnsGoOn
<1> DEFINE n == [turn[t] EXCEPT !.gen = "stopped"]
<1>1. turn[t] \in Turn /\ TurnSound(t) /\ turn[t].gen = "running" /\ faults \in Nat
    BY KnownTurns DEF Cancel
<1>2. /\ n \in Turn /\ n.gen = "stopped" /\ n.nodes = turn[t].nodes /\ n.thread = turn[t].thread
      /\ n.sent = turn[t].sent /\ n.whole = turn[t].whole /\ n.graph = turn[t].graph
    BY <1>1 DEF Turn
<1>3. turn' = [turn EXCEPT ![t] = n] /\ turn'[t] = n
    BY DEF Cancel, IInv, Typed
<1> HIDE DEF n
<1>4. turn[t].graph # "none"
    BY <1>1 DEF TurnSound, NoTurn
<1>5. TurnSound(t)'
    BY <1>1, <1>2, <1>3, <1>4 DEF TurnSound, Cancel
<1>6. /\ UNCHANGED <<backend, reader, log, answer>> /\ faults' \in Nat /\ log' \in [Turns -> Log]
      /\ answer' \in [Threads -> Turns \cup {0}]
    BY <1>1 DEF Cancel, IInv, Typed
<1>7. TurnsGoOn
  <2>1. TurnGoesOn(t)
      BY <1>1, <1>2, <1>3 DEF TurnGoesOn, Turn
  <2>2. \A u \in Turns \ {t} : turn'[u] = turn[u] /\ log'[u] = log[u]
      BY <1>3, <1>6 DEF IInv, Typed
  <2> QED
      BY <1>6, <2>1, <2>2, TurnStays DEF TurnsGoOn, IInv
<1>8. (\A th \in Threads : answer[th] # 0 => OfThread(answer[th], th))'
    BY <1>6, <1>7, AnswersStay
<1> QED
    BY <1>1, <1>2, <1>3, <1>4, <1>5, <1>6, <1>8, TurnActs

LEMMA WriteMetaKeeps ==
    ASSUME IInv, NEW t \in Turns, WriteMeta(t)
    PROVE  IInv'
<1> DEFINE n == [turn[t] EXCEPT !.gen = "writing"]
           entry == [log[t] EXCEPT !.thread = turn[t].thread,
                                   !.done = @ \/ (NextKind(t) = "done")]
<1>1. /\ turn[t] \in Turn /\ TurnSound(t) /\ log[t] \in Log /\ faults \in Nat
      /\ turn[t].gen = "running" /\ backend = "redis" /\ NextKind(t) # "none"
    BY KnownTurns DEF WriteMeta
<1>2. /\ n \in Turn /\ n.gen = "writing" /\ n.nodes = turn[t].nodes /\ n.thread = turn[t].thread
      /\ n.sent = turn[t].sent /\ n.whole = turn[t].whole /\ n.graph = turn[t].graph
    BY <1>1 DEF Turn
<1>3. turn' = [turn EXCEPT ![t] = n] /\ turn'[t] = n
    BY DEF WriteMeta, IInv, Typed
<1>4. entry \in Log /\ entry.thread = turn[t].thread /\ entry.seqs = log[t].seqs
    BY <1>1 DEF Log, Turn
<1>5. /\ log' \in [Turns -> Log] /\ log'[t] = entry
      /\ \A u \in Turns \ {t} : log'[u] = log[u]
    BY <1>4 DEF WriteMeta, IInv, Typed
<1> HIDE DEF n, entry
<1>6. turn[t].graph # "none"
    BY <1>1 DEF TurnSound, NoTurn
<1>7. TurnSound(t)'
  <2>1. NextKind(t)' # "none"
      BY <1>1, <1>2, <1>3, StillAnEvent DEF Turn
  <2> QED
      BY <1>1, <1>2, <1>3, <1>4, <1>5, <1>6, <2>1 DEF TurnSound, WriteMeta
<1>8. /\ UNCHANGED <<backend, reader, answer>> /\ faults' \in Nat
      /\ answer' \in [Threads -> Turns \cup {0}]
    BY <1>1 DEF WriteMeta, IInv, Typed
<1>9. TurnsGoOn
  <2>1. TurnGoesOn(t)
      BY <1>1, <1>2, <1>3 DEF TurnGoesOn, Turn
  <2>2. \A u \in Turns \ {t} : turn'[u] = turn[u]
      BY <1>3 DEF IInv, Typed
  <2> QED
      BY <1>5, <1>8, <2>1, <2>2, TurnStays DEF TurnsGoOn, IInv
<1>10. (\A th \in Threads : answer[th] # 0 => OfThread(answer[th], th))'
    BY <1>8, <1>9, AnswersStay
<1> QED
    BY <1>1, <1>2, <1>3, <1>5, <1>6, <1>7, <1>8, <1>10, TurnActs

LEMMA ExpireKeeps ==
    ASSUME IInv, NEW t \in Turns, Expire(t)
    PROVE  IInv'
<1> DEFINE n == [turn[t] EXCEPT !.whole = FALSE]
<1>1. /\ turn[t] \in Turn /\ TurnSound(t) /\ log[t] \in Log /\ faults \in Nat /\ log[t] # NoLog
      /\ backend = "redis" /\ turn[t].gen # "writing"
    BY KnownTurns DEF Expire
<1>2. /\ n \in Turn /\ n.gen = turn[t].gen /\ n.nodes = turn[t].nodes /\ n.thread = turn[t].thread
      /\ n.sent = turn[t].sent /\ n.whole = FALSE /\ n.graph = turn[t].graph
    BY <1>1 DEF Turn
<1>3. turn' = [turn EXCEPT ![t] = n] /\ turn'[t] = n
    BY DEF Expire, IInv, Typed
<1>4. NoLog \in Log
    BY DEF NoLog, Log
<1>5. /\ log' \in [Turns -> Log] /\ log'[t] = NoLog
      /\ \A u \in Turns \ {t} : log'[u] = log[u]
    BY <1>4 DEF Expire, IInv, Typed
<1> HIDE DEF n
<1>6. turn[t].graph # "none"
    BY <1>1 DEF TurnSound
<1>7. TurnSound(t)'
  <2>1. backend' = backend
      BY DEF Expire
  <2> QED
      BY <1>1, <1>2, <1>3, <1>5, <1>6, <2>1 DEF TurnSound, NoLog
<1>8. /\ UNCHANGED <<backend, reader, answer>> /\ faults' \in Nat
      /\ answer' \in [Threads -> Turns \cup {0}]
    BY <1>1 DEF Expire, Fault, IInv, Typed
<1>9. TurnsGoOn
  <2>1. TurnGoesOn(t)
      BY <1>1, <1>2, <1>3 DEF TurnGoesOn, Turn
  <2>2. \A u \in Turns \ {t} : turn'[u] = turn[u]
      BY <1>3 DEF IInv, Typed
  <2> QED
      BY <1>5, <1>8, <2>1, <2>2, TurnStays DEF TurnsGoOn, IInv
<1>10. (\A th \in Threads : answer[th] # 0 => OfThread(answer[th], th))'
    BY <1>8, <1>9, AnswersStay
<1> QED
    BY <1>1, <1>2, <1>3, <1>5, <1>6, <1>7, <1>8, <1>10, TurnActs

LEMMA NextTurnIsFree ==
    ASSUME \E t \in Turns : turn[t] = NoTurn
    PROVE  NextTurn \in Turns /\ turn[NextTurn] = NoTurn
<1> DEFINE free == {u \in Turns : turn[u] = NoTurn}
<1>1. free \subseteq Nat /\ free # {}
    BY StreamConstants
<1>2. PICK u \in free : \A v \in free : u <= v
  <2> HIDE DEF free
  <2> QED
      BY <1>1, LeastNumber
<1>3. \A v \in Turns : v < u => turn[v] # NoTurn
    BY <1>1, <1>2
<1> QED
    BY <1>2, <1>3 DEF NextTurn

LEMMA PostKeeps ==
    ASSUME IInv, NEW r \in Readers, Ask(r), reader[r].cursor = -1
    PROVE  IInv' /\ TurnsGoOn
<1>1. /\ reader[r] \in Reader /\ ServedSound(r, reader[r]) /\ FramesSound(r, reader[r])
      /\ faults \in Nat
    BY Known
<1>2. PICK t \in Turns : t = NextTurn /\ turn[t] = NoTurn
    BY NextTurnIsFree DEF Ask, Post
<1> DEFINE n == [NoTurn EXCEPT !.thread = r, !.graph = "running", !.gen = "running"]
           s == [reader[r] EXCEPT !.phase = "open", !.turn = t, !.serve = "live",
                                  !.requests = @ + 1]
<1>3. Nodes \in Nat \ {0} /\ t # 0
    BY StreamConstants
<1>4. /\ n.thread = r /\ n.graph = "running" /\ n.gen = "running" /\ n.nodes = 0
      /\ n.sent = <<>> /\ n.whole = TRUE
    BY DEF NoTurn
<1>5. n \in Turn
  <2>1. <<>> \in Seq(Kinds) /\ 0 \in 0 .. Nodes
      BY <1>3
  <2> QED
      BY <2>1 DEF NoTurn, Turn, Threads
<1>6. s \in Reader
  <2>1. reader[r].requests + 1 \in Nat
      BY <1>1 DEF Reader
  <2> QED
      BY <1>1, <2>1 DEF Reader
<1>7. /\ s.phase = "open" /\ s.turn = t /\ s.serve = "live" /\ s.wire = reader[r].wire
      /\ s.lastId = reader[r].lastId /\ s.cursor = -1 /\ s.had = reader[r].had
    BY <1>1 DEF Reader
<1>8. s.wire = <<>> /\ s.lastId = -1 /\ s.had = {} /\ r \notin Strangers
    BY <1>1, <1>7 DEF ServedSound, Ask
<1>9. /\ turn' = [turn EXCEPT ![t] = n] /\ reader' = [reader EXCEPT ![r] = s]
      /\ UNCHANGED <<backend, answer, log, faults>>
    BY <1>2 DEF Ask, Post, Started
<1> HIDE DEF n, s
<1>10. /\ Typed' /\ turn'[t] = n /\ reader'[r] = s
       /\ \A u \in Turns \ {t} : turn'[u] = turn[u]
       /\ \A q \in Readers \ {r} : reader'[q] = reader[q]
    BY <1>5, <1>6, <1>9 DEF IInv, Typed
<1>11. TurnSound(t)'
  <2>1. log[t] = NoLog
      BY <1>2, KnownTurns DEF TurnSound, NoTurn
  <2>2. 0 .. Len(n.sent) - 1 = {} /\ n.nodes < Nodes
      BY <1>3, <1>4
  <2> QED
      BY <1>4, <1>9, <1>10, <2>1, <2>2 DEF TurnSound, NoLog
<1>12. TurnsGoOn
  <2>1. TurnGoesOn(t)
    <3>1. turn[t].graph = "none" /\ turn[t].whole = TRUE /\ turn[t].sent = <<>>
        BY <1>2 DEF NoTurn
    <3> QED
        BY <1>4, <1>10, <3>1 DEF TurnGoesOn
  <2> QED
      BY <1>9, <1>10, <2>1, TurnStays DEF TurnsGoOn, IInv
<1>13. \A u \in Turns : TurnSound(u)'
    BY <1>9, <1>10, <1>11, TurnStays DEF IInv
<1>14. (\A th \in Threads : answer[th] # 0 => OfThread(answer[th], th))'
    BY <1>9, <1>12, AnswersStay
<1>15. ASSUME NEW q \in Readers PROVE ServedSound(q, reader[q])' /\ FramesSound(q, reader[q])'
  <2>1. CASE q = r
    <3>1. PICK v : v = s
        OBVIOUS
    <3>2. turn'[t].graph = "running" /\ turn'[t].thread = r /\ turn'[t].sent = <<>>
        BY <1>4, <1>10
    <3>3. ServedSound(r, v)'
        BY <1>3, <1>7, <1>8, <3>1, <3>2 DEF ServedSound, OfThread
    <3>4. FramesSound(r, v)'
        BY <1>7, <1>8, <3>1, <3>2 DEF FramesSound
    <3>5. v = reader'[q]
        BY <1>10, <2>1, <3>1
    <3> QED
        BY <2>1, <3>3, <3>4, <3>5
  <2>2. CASE q # r
    <3>1. reader[q].serve = "live" =>
              Len(turn'[reader[q].turn].sent) = Len(turn[reader[q].turn].sent)
      <4>1. reader[q].serve = "live" => reader[q].turn \in Turns
          BY Known DEF ServedSound, OfThread
      <4>2. turn'[t].sent = turn[t].sent
          BY <1>2, <1>4, <1>10 DEF NoTurn
      <4> QED
          BY <1>10, <4>1, <4>2
    <3> QED
        BY <1>9, <1>10, <1>12, <2>2, <3>1, ReaderStays
  <2> QED
      BY <2>1, <2>2
<1> QED
    BY <1>10, <1>12, <1>13, <1>14, <1>15 DEF IInv

----------------------------------------------------------------------------
(* An event is made *)

\* What writing an event does to the buffer.
LEMMA BufferDoes ==
    ASSUME IInv, NEW t \in Turns, NEW s \in Nat, NEW done \in BOOLEAN, Buffer(t, s, done)
    PROVE  /\ log' \in [Turns -> Log]
           /\ \A u \in Turns \ {t} : log'[u] \in {NoLog, log[u]}
           /\ \/ log'[t] = NoLog
              \/ /\ log'[t].thread = turn[t].thread
                 /\ log'[t].done = (log[t].done \/ done)
                 /\ log'[t].seqs \subseteq log[t].seqs \cup {s}
                 /\ backend = "memory" => log'[t].seqs = log[t].seqs \cup {s}
<1> DEFINE gone == Forgotten(Touched(t))
           all == log[t].seqs \cup {s}
           kept == IF backend = "redis" THEN Newest(all) ELSE all
           entry == [thread |-> turn[t].thread, seqs |-> kept, done |-> log[t].done \/ done]
<1>1. log' = [u \in Turns |-> IF u \in gone THEN NoLog ELSE IF u = t THEN entry ELSE log[u]]
    BY DEF Buffer
<1>2. turn[t] \in Turn /\ log[t] \in Log /\ NoLog \in Log
    BY KnownTurns DEF NoLog, Log
<1>3. kept \subseteq all /\ (backend = "memory" => kept = all)
    BY DEF Newest
<1>4. entry \in Log
    BY <1>2, <1>3 DEF Turn, Log
<1>5. log' \in [Turns -> Log]
    BY <1>1, <1>4, <1>2 DEF IInv, Typed
<1> HIDE DEF gone, kept
<1> QED
    BY <1>1, <1>3, <1>5

LEMMA EmitKeeps ==
    ASSUME IInv, NEW t \in Turns, turn[t].gen \in {"running", "writing"}, NextKind(t) # "none",
           Emit(t, NextKind(t)), UNCHANGED <<backend, answer, faults>>
    PROVE  IInv' /\ TurnsGoOn
<1> DEFINE kind == NextKind(t)
           sent == turn[t].sent
           s == Len(sent)
           frame == [id |-> s, kind |-> kind, turn |-> t, seq |-> s]
           n == [turn[t] EXCEPT !.whole = StaysWhole(t, t, s), !.sent = Append(@, kind),
                                !.gen = IF kind = "done" THEN "finished" ELSE "running"]
<1>1. /\ turn[t] \in Turn /\ log[t] \in Log /\ TurnSound(t) /\ faults \in Nat
      /\ turn[t].graph # "none"
    BY KnownTurns DEF TurnSound, NoTurn
<1>2. sent \in Seq(Kinds) /\ s \in Nat /\ kind \in Kinds
    BY <1>1 DEF Turn, NextKind, Kinds
<1>3. frame \in Frame
    BY <1>2 DEF Frame
<1>4. n \in Turn
  <2>1. Append(sent, kind) \in Seq(Kinds)
      BY <1>2
  <2>2. StaysWhole(t, t, s) \in BOOLEAN
      BY DEF StaysWhole
  <2> QED
      BY <1>1, <2>1, <2>2 DEF Turn
<1>5. /\ n.thread = turn[t].thread /\ n.graph = turn[t].graph /\ n.nodes = turn[t].nodes
      /\ n.sent = Append(sent, kind) /\ n.whole = StaysWhole(t, t, s)
      /\ n.gen = (IF kind = "done" THEN "finished" ELSE "running")
    BY <1>1 DEF Turn
<1>6. /\ DOMAIN turn' = Turns /\ turn'[t] = n
      /\ \A u \in Turns \ {t} :
            turn'[u] = [turn[u] EXCEPT !.whole = StaysWhole(t, u, s)]
  <2>1. \A u \in Turns : turn[u] = [turn[u] EXCEPT !.sent = turn[u].sent, !.gen = turn[u].gen]
      BY KnownTurns DEF Turn
  <2> QED
      BY <2>1 DEF Emit
<1>7. \A u \in Turns \ {t} :
          /\ turn'[u] \in Turn /\ turn'[u].thread = turn[u].thread
          /\ turn'[u].graph = turn[u].graph /\ turn'[u].nodes = turn[u].nodes
          /\ turn'[u].gen = turn[u].gen /\ turn'[u].sent = turn[u].sent
          /\ turn'[u].whole = StaysWhole(t, u, s)
  <2> SUFFICES ASSUME NEW u \in Turns \ {t}
               PROVE  /\ turn'[u] \in Turn /\ turn'[u].thread = turn[u].thread
                      /\ turn'[u].graph = turn[u].graph /\ turn'[u].nodes = turn[u].nodes
                      /\ turn'[u].gen = turn[u].gen /\ turn'[u].sent = turn[u].sent
                      /\ turn'[u].whole = StaysWhole(t, u, s)
      OBVIOUS
  <2>1. PICK whole \in BOOLEAN : whole = StaysWhole(t, u, s)
      BY DEF StaysWhole
  <2>2. turn'[u] = [turn[u] EXCEPT !.whole = whole] /\ turn[u] \in Turn
      BY <1>6, <2>1, KnownTurns
  <2> QED
      BY <2>1, <2>2 DEF Turn
<1>8. /\ log' \in [Turns -> Log]
      /\ \A u \in Turns \ {t} : log'[u] \in {NoLog, log[u]}
      /\ \/ log'[t] = NoLog
         \/ /\ log'[t].thread = turn[t].thread
            /\ log'[t].done = (log[t].done \/ kind = "done")
            /\ log'[t].seqs \subseteq log[t].seqs \cup {s}
            /\ backend = "memory" => log'[t].seqs = log[t].seqs \cup {s}
  <2>1. Buffer(t, s, kind = "done") /\ (kind = "done") \in BOOLEAN
      BY DEF Emit
  <2> HIDE DEF kind, s
  <2> QED
      BY <1>2, <2>1, BufferDoes
<1>9. \A r \in Readers :
          /\ Live(r, t) => reader'[r] = [reader[r] EXCEPT !.wire = Append(@, frame)]
          /\ ~Live(r, t) => reader'[r] = reader[r]
    BY DEF Emit
<1>10. reader' \in [Readers -> Reader]
  <2>1. ASSUME NEW r \in Readers
        PROVE  [reader[r] EXCEPT !.wire = Append(@, frame)] \in Reader
    <3>1. reader[r] \in Reader /\ Append(reader[r].wire, frame) \in Seq(Frame)
        BY <1>3, Known DEF Reader
    <3> QED
        BY <3>1 DEF Reader
  <2> HIDE DEF frame
  <2> QED
      BY <2>1, Known DEF Emit, frame
<1> HIDE DEF n, frame, kind
<1>11. Typed'
  <2>1. turn' \in [Turns -> Turn]
    <3>1. turn' = [u \in Turns |-> turn'[u]]
        BY DEF Emit
    <3> QED
        BY <1>4, <1>6, <1>7, <3>1
  <2> QED
      BY <1>8, <1>10, <2>1 DEF IInv, Typed
<1>12. Len(n.sent) = s + 1 /\ \A i \in DOMAIN sent : n.sent[i] = sent[i]
    BY <1>2, <1>5
<1>13. TurnsGoOn
  <2>1. TurnGoesOn(t)
    <3>1. n.whole => turn[t].whole
        BY <1>5 DEF StaysWhole
    <3>2. Len(sent) <= Len(n.sent)
        BY <1>2, <1>12
    <3> QED
        BY <1>1, <1>5, <1>6, <1>12, <3>1, <3>2 DEF TurnGoesOn
  <2>2. ASSUME NEW u \in Turns \ {t} PROVE TurnGoesOn(u)
    <3>1. Len(turn[u].sent) \in Nat
        BY KnownTurns DEF Turn
    <3>2. turn'[u].whole => turn[u].whole
        BY <1>7 DEF StaysWhole
    <3>3. turn'[u].graph = turn[u].graph /\ turn'[u].thread = turn[u].thread
          /\ turn'[u].sent = turn[u].sent
        BY <1>7
    <3> QED
        BY <3>1, <3>2, <3>3 DEF TurnGoesOn
  <2> QED
      BY <2>1, <2>2 DEF TurnsGoOn
<1>14. TurnSound(t)'
  <2>1. n.gen \in {"running", "finished"} /\ (turn[t].graph = "running" => turn[t].nodes < Nodes)
      BY <1>1, <1>5 DEF TurnSound
  <2>2. log'[t].seqs \subseteq 0 .. Len(n.sent) - 1
    <3>1. log[t].seqs \cup {s} \subseteq 0 .. s
        BY <1>1, <1>2 DEF TurnSound
    <3> QED
        BY <1>2, <1>8, <1>12, <3>1 DEF NoLog
  <2>3. n.whole => log'[t].seqs = 0 .. Len(n.sent) - 1
    <3>1. n.whole => log'[t].seqs = 0 .. s
        BY <1>5 DEF StaysWhole
    <3> QED
        BY <1>2, <1>12, <3>1
  <2>4. ASSUME backend = "memory", log'[t].done
        PROVE  /\ n.gen = "finished" /\ n.sent # <<>> /\ Last(n.sent) = "done"
               /\ Len(n.sent) - 1 \in log'[t].seqs
    <3>1. ~log[t].done
        BY <1>1, <2>4 DEF TurnSound
    <3>2. log'[t] # NoLog
        BY <2>4 DEF NoLog
    <3>3. kind = "done" /\ s \in log'[t].seqs
        BY <1>8, <2>4, <3>1, <3>2
    <3>4. n.sent # <<>> /\ Last(n.sent) = kind
        BY <1>2, <1>5, <1>12 DEF Last
    <3> QED
        BY <1>2, <1>5, <1>12, <3>3, <3>4
  <2>5. log'[t] # NoLog => log'[t].thread = turn[t].thread
      BY <1>8
  <2>6. PICK v : v = turn'[t] /\ v = n
      BY <1>6
  <2> QED
      BY <1>1, <1>5, <2>1, <2>2, <2>3, <2>4, <2>5, <2>6 DEF TurnSound
<1>15. ASSUME NEW u \in Turns \ {t} PROVE TurnSound(u)'
  <2>1. TurnSound(u)
      BY KnownTurns
  <2>2. turn'[u].gen = "writing" => NextKind(u)' # "none"
    <3>1. turn[u].nodes \in Nat /\ turn[u] \in Turn
        BY KnownTurns, StreamConstants DEF Turn
    <3> QED
        BY <1>7, <2>1, <3>1, StillAnEvent DEF TurnSound
  <2>3. turn'[u].whole => turn[u].whole /\ (log'[u] # NoLog \/ log[u] = NoLog)
      BY <1>7 DEF StaysWhole
  <2>4. turn[u].graph = "none" => turn'[u] = NoTurn /\ log'[u] = NoLog
    <3>1. turn[u].graph = "none" => turn[u] = NoTurn /\ log[u] = NoLog
        BY <2>1 DEF TurnSound
    <3>2. turn[u].graph = "none" => StaysWhole(t, u, s) = TRUE
        BY <3>1 DEF StaysWhole, NoTurn
    <3> QED
        BY <1>6, <1>8, <3>1, <3>2 DEF NoTurn
  <2>5. CASE log'[u] = log[u]
      BY <1>7, <2>1, <2>2, <2>3, <2>4, <2>5 DEF TurnSound
  <2>6. CASE log'[u] = NoLog /\ log[u] # NoLog
    <3>1. ~turn'[u].whole
        BY <2>3, <2>6
    <3> QED
        BY <1>7, <2>1, <2>2, <2>4, <2>6, <3>1 DEF TurnSound, NoLog
  <2> QED
      BY <1>8, <2>5, <2>6
<1>16. (\A th \in Threads : answer[th] # 0 => OfThread(answer[th], th))'
    BY <1>13, AnswersStay
<1>17. ASSUME NEW r \in Readers PROVE ServedSound(r, reader[r])' /\ FramesSound(r, reader[r])'
  <2>1. reader[r] \in Reader /\ ServedSound(r, reader[r]) /\ FramesSound(r, reader[r])
      BY Known
  <2>2. CASE ~Live(r, t)
    <3>1. reader[r].serve = "live" => reader[r].turn \in Turns \ {t}
        BY <2>1, <2>2 DEF ServedSound, OfThread, Live
    <3> QED
        BY <1>7, <1>9, <1>13, <2>2, <3>1, ReaderStays
  <2>3. CASE Live(r, t)
    <3>1. PICK v : v = [reader[r] EXCEPT !.wire = Append(@, frame)] /\ v = reader'[r]
        BY <1>9, <2>3
    <3> DEFINE wire == reader[r].wire
    <3>2. wire \in Seq(Frame) /\ Len(wire) \in Nat /\ reader[r].lastId \in Int
        BY <2>1 DEF Reader, Number
    <3>3. /\ v.wire = Append(wire, frame) /\ v.phase = "open" /\ v.serve = "live" /\ v.turn = t
          /\ v.lastId = reader[r].lastId /\ v.cursor = reader[r].cursor
          /\ v.had = reader[r].had /\ v.extra = reader[r].extra
        BY <2>1, <2>3, <3>1 DEF Live, Reader
    <3>4. /\ Len(v.wire) = Len(wire) + 1 /\ v.wire[Len(wire) + 1] = frame
          /\ \A i \in DOMAIN wire : v.wire[i] = wire[i]
          /\ \A i \in DOMAIN v.wire : i \in DOMAIN wire \/ i = Len(wire) + 1
        BY <3>2, <3>3
    <3>5. \A u, th : OfThread(u, th) => OfThread(u, th)'
        BY <1>13 DEF TurnsGoOn, TurnGoesOn, OfThread
    <3>6. OfThread(t, r) /\ v.lastId + Len(wire) + 1 = s
        BY <2>1, <2>3, <3>3 DEF ServedSound, FramesSound, Live
    <3>7. ServedSound(r, v)'
      <4>1. t # 0 /\ (r \in Strangers => v.had = {})
          BY <2>1, <3>3, StreamConstants DEF ServedSound
      <4> QED
          BY <3>3, <3>5, <3>6, <4>1 DEF ServedSound
    <3>8. ASSUME NEW i \in DOMAIN v.wire
          PROVE  /\ v.wire[i].turn # 0 => OfThread(v.wire[i].turn, r)'
                 /\ v.wire[i].id = v.lastId + i
                 /\ turn'[t].whole /\ v.wire[i].seq # -1 =>
                        v.wire[i].seq = v.wire[i].id /\ v.wire[i].turn = t
      <4>1. CASE i \in DOMAIN wire
        <5>1. v.wire[i] = wire[i] /\ (turn'[t].whole => turn[t].whole)
            BY <1>13, <3>4, <4>1 DEF TurnsGoOn, TurnGoesOn
        <5> HIDE DEF wire
        <5>2. /\ wire[i].turn # 0 => OfThread(wire[i].turn, r)
              /\ wire[i].id = reader[r].lastId + i
              /\ turn[t].whole /\ wire[i].seq # -1 =>
                     wire[i].seq = wire[i].id /\ wire[i].turn = t
            BY <2>1, <2>3, <4>1 DEF FramesSound, Live, wire
        <5> QED
            BY <3>3, <3>5, <5>1, <5>2
      <4>2. CASE i = Len(wire) + 1
        <5>1. v.wire[i] = frame /\ v.lastId + i = s
          <6>1. v.lastId + (Len(wire) + 1) = v.lastId + Len(wire) + 1
              BY <3>2, <3>3
          <6> QED
              BY <3>4, <3>6, <4>2, <6>1
        <5> QED
            BY <3>5, <3>6, <5>1 DEF frame
      <4> QED
          BY <3>4, <4>1, <4>2
    <3>9. FramesSound(r, v)'
      <4>1. v.cursor <= v.lastId
          BY <2>1, <3>3 DEF FramesSound
      <4>2. v.lastId + Len(v.wire) + 1 = Len(turn'[t].sent)
        <5>1. v.lastId \in Int /\ s \in Int /\ Len(turn'[t].sent) = s + 1
            BY <1>2, <1>6, <1>12, <3>2, <3>3
        <5> HIDE DEF wire, s
        <5> QED
            BY <3>2, <3>4, <3>6, <5>1, SMTT(30)
      <4>3. r \in Pages /\ turn'[t].whole /\ ~v.extra =>
                0 .. v.lastId \subseteq v.had /\ \A m \in v.had : 0 .. m \subseteq v.had
        <5>1. (turn'[t].whole => turn[t].whole) /\ t # 0
            BY <1>13, StreamConstants DEF TurnsGoOn, TurnGoesOn
        <5> QED
            BY <2>1, <2>3, <3>3, <5>1 DEF FramesSound, Live
      <4> QED
          BY <3>3, <3>8, <4>1, <4>2, <4>3 DEF FramesSound
    <3> QED
        BY <3>1, <3>7, <3>9
  <2> QED
      BY <2>2, <2>3
<1> QED
    BY <1>11, <1>13, <1>14, <1>15, <1>16, <1>17 DEF IInv

----------------------------------------------------------------------------
(* The server restarts *)

LEMMA RestartKeeps ==
    ASSUME IInv, Restart
    PROVE  IInv' /\ TurnsGoOn
<1>1. \A t \in Turns :
          /\ turn'[t] \in Turn
          /\ turn'[t].thread = turn[t].thread /\ turn'[t].nodes = turn[t].nodes
          /\ turn'[t].sent = turn[t].sent
          /\ turn'[t].graph = (IF turn[t].graph = "running" THEN "killed" ELSE turn[t].graph)
          /\ turn'[t].gen = (IF turn[t].gen = "running" THEN "stopped"
                             ELSE IF turn[t].gen = "writing" THEN "torn" ELSE turn[t].gen)
          /\ turn'[t].whole => turn[t].whole /\ (backend = "redis" \/ turn[t] = NoTurn)
          /\ turn[t] = NoTurn => turn'[t] = NoTurn
  <2> SUFFICES ASSUME NEW t \in Turns
               PROVE  /\ turn'[t] \in Turn
                      /\ turn'[t].thread = turn[t].thread /\ turn'[t].nodes = turn[t].nodes
                      /\ turn'[t].sent = turn[t].sent
                      /\ turn'[t].graph =
                            (IF turn[t].graph = "running" THEN "killed" ELSE turn[t].graph)
                      /\ turn'[t].gen = (IF turn[t].gen = "running" THEN "stopped"
                                         ELSE IF turn[t].gen = "writing" THEN "torn"
                                              ELSE turn[t].gen)
                      /\ turn'[t].whole =>
                            turn[t].whole /\ (backend = "redis" \/ turn[t] = NoTurn)
                      /\ turn[t] = NoTurn => turn'[t] = NoTurn
      OBVIOUS
  <2> DEFINE graph == IF turn[t].graph = "running" THEN "killed" ELSE turn[t].graph
             gen == CASE turn[t].gen = "running" -> "stopped"
                      [] turn[t].gen = "writing" -> "torn"
                      [] OTHER -> turn[t].gen
             whole == turn[t].whole /\ (backend = "redis" \/ turn[t] = NoTurn)
  <2>1. turn'[t] = [turn[t] EXCEPT !.graph = graph, !.gen = gen, !.whole = whole]
      BY DEF Restart
  <2>2. turn[t] \in Turn
      BY KnownTurns
  <2>3. /\ graph \in {"none", "running", "answered", "failed", "killed"}
        /\ gen \in {"none", "running", "writing", "finished", "stopped", "torn"}
        /\ whole \in BOOLEAN
        /\ gen = (IF turn[t].gen = "running" THEN "stopped"
                  ELSE IF turn[t].gen = "writing" THEN "torn" ELSE turn[t].gen)
      BY <2>2 DEF Turn
  <2>4. ASSUME turn[t] = NoTurn PROVE turn'[t] = NoTurn
    <3>1. graph = "none" /\ gen = "none" /\ whole = TRUE
        BY <2>4 DEF NoTurn
    <3>2. [NoTurn EXCEPT !.graph = "none", !.gen = "none", !.whole = TRUE] = NoTurn
      <4>1. NoTurn \in Turn /\ NoTurn.graph = "none" /\ NoTurn.gen = "none" /\ NoTurn.whole = TRUE
          BY <2>4, KnownTurns DEF NoTurn
      <4> QED
          BY <4>1 DEF Turn
    <3> HIDE DEF graph, gen, whole
    <3> QED
        BY <2>1, <2>4, <3>1, <3>2, Zenon
  <2> HIDE DEF gen, whole
  <2> QED
      BY <2>1, <2>2, <2>3, <2>4, ZenonT(30) DEF Turn, whole
<1>2. /\ log' \in [Turns -> Log]
      /\ \A t \in Turns : log'[t] = IF backend = "memory" THEN NoLog ELSE log[t]
  <2>1. NoLog \in Log
      BY DEF NoLog, Log
  <2> QED
      BY <2>1 DEF Restart, IInv, Typed
<1>3. \A r \in Readers :
          reader'[r] = IF reader[r].phase = "open"
                       THEN [reader[r] EXCEPT !.serve = "over", !.cuts = @ + 1]
                       ELSE reader[r]
    BY DEF Restart
<1>4. Typed'
  <2>1. \A r \in Readers : reader'[r] \in Reader
    <3> SUFFICES ASSUME NEW r \in Readers PROVE reader'[r] \in Reader
        OBVIOUS
    <3>1. reader[r] \in Reader /\ reader[r].cuts + 1 \in Nat
        BY Known DEF Reader
    <3> QED
        BY <1>3, <3>1, ZenonT(40) DEF Reader
  <2>2. reader' \in [Readers -> Reader]
    <3>1. reader' = [r \in Readers |-> reader'[r]]
        BY DEF Restart
    <3> QED
        BY <2>1, <3>1
  <2>3. turn' \in [Turns -> Turn]
    <3>1. turn' = [t \in Turns |-> turn'[t]]
        BY DEF Restart
    <3> QED
        BY <1>1, <3>1
  <2>4. UNCHANGED <<backend, answer>> /\ faults' \in Nat
    <3>1. faults \in Nat
        BY DEF IInv, Typed
    <3>2. UNCHANGED <<backend, answer>> /\ faults' = faults + 1
        BY DEF Restart, Fault
    <3> QED
        BY <3>1, <3>2
  <2> QED
      BY <1>2, <2>2, <2>3, <2>4 DEF IInv, Typed
<1>5. TurnsGoOn
  <2> SUFFICES ASSUME NEW t \in Turns PROVE TurnGoesOn(t)
      BY DEF TurnsGoOn
  <2>1. Len(turn[t].sent) \in Nat
      BY KnownTurns DEF Turn
  <2> QED
      BY <1>1, <2>1 DEF TurnGoesOn
<1>6. ASSUME NEW t \in Turns PROVE TurnSound(t)'
  <2>1. TurnSound(t) /\ turn[t] \in Turn /\ Len(turn[t].sent) \in Nat
      BY KnownTurns DEF Turn
  <2>2. backend' = backend
      BY DEF Restart
  <2>3. turn'[t].graph # "running" /\ turn'[t].gen # "writing"
      BY <1>1
  <2>4. turn'[t].graph = "none" => turn'[t] = NoTurn /\ log'[t] = NoLog
      BY <1>1, <1>2, <2>1 DEF TurnSound
  <2>5. turn'[t].whole => log'[t].seqs = 0 .. Len(turn'[t].sent) - 1
    <3>1. CASE turn[t] = NoTurn
      <4>1. log'[t] = NoLog /\ turn'[t].sent = <<>>
          BY <1>1, <1>2, <2>1, <3>1 DEF TurnSound, NoTurn
      <4> QED
          BY <4>1 DEF NoLog
    <3>2. CASE turn[t] # NoTurn
        BY <1>1, <1>2, <2>1, <3>2 DEF TurnSound
    <3> QED
        BY <3>1, <3>2
  <2>6. CASE backend = "memory"
      BY <1>1, <1>2, <2>2, <2>3, <2>4, <2>5, <2>6 DEF TurnSound, NoLog
  <2>7. CASE backend # "memory"
      BY <1>1, <1>2, <2>1, <2>2, <2>3, <2>4, <2>5, <2>7 DEF TurnSound
  <2> QED
      BY <2>6, <2>7
<1>7. (\A th \in Threads : answer[th] # 0 => OfThread(answer[th], th))'
    BY <1>5, AnswersStay DEF Restart
<1>8. ASSUME NEW r \in Readers PROVE ServedSound(r, reader[r])' /\ FramesSound(r, reader[r])'
  <2>1. reader[r] \in Reader /\ ServedSound(r, reader[r]) /\ FramesSound(r, reader[r])
      BY Known, Zenon
  <2>2. CASE reader[r].phase # "open"
    <3>1. reader[r].serve # "live"
        BY <2>1, <2>2 DEF ServedSound
    <3> QED
        BY <1>3, <1>5, <2>2, <3>1, ReaderStays, ZenonT(30) DEF Restart
  <2>3. CASE reader[r].phase = "open"
    <3>1. PICK v : v = [reader[r] EXCEPT !.serve = "over", !.cuts = @ + 1] /\ v = reader'[r]
        BY <1>3, <2>3
    <3>2. /\ v.wire = reader[r].wire /\ v.phase = "open" /\ v.serve = "over"
          /\ v.turn = reader[r].turn
          /\ v.lastId = reader[r].lastId /\ v.cursor = reader[r].cursor
          /\ v.had = reader[r].had /\ v.extra = reader[r].extra
        BY <2>1, <2>3, <3>1 DEF Reader
    <3>3. \A u, th : OfThread(u, th) => OfThread(u, th)'
        BY <1>5 DEF TurnsGoOn, TurnGoesOn, OfThread
    <3>4. v.turn \in Turns /\ (turn'[v.turn].whole => turn[v.turn].whole)
        BY <1>1, <2>1, <2>3, <3>2 DEF ServedSound, Reader
    <3>5. ServedSound(r, v)'
        BY <2>1, <2>3, <3>2 DEF ServedSound
    <3>6. FramesSound(r, v)'
        BY <2>1, <3>2, <3>3, <3>4 DEF FramesSound
    <3> QED
        BY <3>1, <3>5, <3>6
  <2> QED
      BY <2>2, <2>3
<1> QED
    BY <1>4, <1>5, <1>6, <1>7, <1>8 DEF IInv

----------------------------------------------------------------------------
(* Every step *)

LEMMA InitIInv == Init => IInv
<1> SUFFICES ASSUME Init PROVE IInv
    OBVIOUS
<1>1. Typed
  <2>1. NoTurn \in Turn
    <3>1. <<>> \in Seq(Kinds) /\ 0 \in 0 .. Nodes
        BY StreamConstants
    <3> QED
        BY <3>1 DEF NoTurn, Turn
  <2>2. NoLog \in Log
      BY DEF NoLog, Log
  <2> QED
      BY <2>1, <2>2, RestingType DEF Init, Typed
<1>2. ASSUME NEW t \in Turns PROVE TurnSound(t)
  <2>1. turn[t] = NoTurn /\ log[t] = NoLog
      BY DEF Init
  <2>2. 0 .. Len(NoTurn.sent) - 1 = {}
      BY DEF NoTurn
  <2> QED
      BY <2>1, <2>2 DEF TurnSound, NoTurn, NoLog
<1>3. \A th \in Threads : answer[th] = 0
    BY DEF Init
<1>4. ASSUME NEW r \in Readers PROVE ServedSound(r, reader[r]) /\ FramesSound(r, reader[r])
  <2>1. reader[r] = Resting
      BY DEF Init
  <2> QED
      BY <2>1 DEF ServedSound, FramesSound, Resting
<1> QED
    BY <1>1, <1>2, <1>3, <1>4 DEF IInv

\* The events of a turn, from a buffer in memory or from Redis.
LEMMA EventsKeep ==
    ASSUME IInv, NEW t \in Turns, EmitToMemory(t) \/ WriteEvent(t)
    PROVE  IInv' /\ TurnsGoOn
<1>1. NextKind(t) # "none"
    BY KnownTurns DEF EmitToMemory, WriteEvent, TurnSound
<1> QED
    BY <1>1, EmitKeeps DEF EmitToMemory, WriteEvent

LEMMA StutteringKeeps ==
    ASSUME IInv, UNCHANGED vars
    PROVE  IInv'
<1>1. UNCHANGED <<backend, turn, answer, log, reader, faults>>
    BY DEF vars
<1>2. Typed'
    BY <1>1 DEF IInv, Typed
<1>3. TurnsGoOn /\ \A t \in Turns : TurnSound(t)'
    BY <1>1, TurnStays DEF TurnsGoOn, IInv
<1>4. \A r \in Readers : ServedSound(r, reader[r])' /\ FramesSound(r, reader[r])'
    BY <1>1, <1>3, ReaderStays
<1>5. (\A th \in Threads : answer[th] # 0 => OfThread(answer[th], th))'
    BY <1>1, <1>3, AnswersStay
<1> QED
    BY <1>2, <1>3, <1>4, <1>5 DEF IInv

LEMMA NextIInv == IInv /\ [Next]_vars => IInv'
<1> SUFFICES ASSUME IInv, [Next]_vars PROVE IInv'
    OBVIOUS
<1>1. ASSUME NEW r \in Strangers, NEW t \in Turns, AskFor(r, t) PROVE IInv'
    BY <1>1, AskForKeeps
<1>2. ASSUME NEW r \in Readers, Ask(r) \/ Serve(r) PROVE IInv'
    BY <1>2, AskWithCursorKeeps, PostKeeps, RefuseForeignKeeps, ReadTurnKeeps, ReadMetaKeeps,
       FallbackKeeps DEF Serve
<1>3. ASSUME NEW r \in Pages, Send(r) \/ Page(r) \/ Cut(r) \/ Abort(r) \/ AskFails(r)
      PROVE  IInv'
    BY <1>3, SendKeeps, ReadKeeps, EndingsKeep, AskFailsKeeps DEF Page
<1>4. ASSUME NEW t \in Turns, Run(t) \/ Cancel(t) \/ GraphFails(t) \/ Expire(t) PROVE IInv'
    BY <1>4, NodeKeeps, EventsKeep, WriteMetaKeeps, CancelKeeps, GraphFailsKeeps, ExpireKeeps
    DEF Run
<1>5. CASE Restart
    BY <1>5, RestartKeeps
<1>6. CASE UNCHANGED vars
    BY <1>6, StutteringKeeps
<1> QED
    BY <1>1, <1>2, <1>3, <1>4, <1>5, <1>6 DEF Next

\* Every reachable state satisfies the inductive invariant: buffers hold events of
\* their turns, readers are sent frames of their own turns only, in order.
THEOREM Invariance == Spec => []IInv
<1> QED
    BY InitIInv, NextIInv, PTL DEF Spec

\* No frame shows a reader a turn of another conversation.
THEOREM ForeignTurnsStayHidden == Spec => []ForeignStaysHidden
<1>1. IInv => ForeignStaysHidden
    BY DEF IInv, FramesSound, OfThread, ForeignStaysHidden
<1> QED
    BY <1>1, Invariance, PTL

\* Over all the requests of a page no event is skipped, as long as the buffer has
\* the whole turn and no frame made for a replay has used up a number.
THEOREM NoEventIsSkipped == Spec => []NothingSkipped
<1>1. ASSUME IInv PROVE NothingSkipped
  <2> SUFFICES ASSUME NEW r \in Readers, reader[r].turn # 0, turn[reader[r].turn].whole,
                      ~reader[r].extra, NEW n \in reader[r].had
               PROVE  0 .. n \subseteq reader[r].had
      BY DEF NothingSkipped
  <2>1. ServedSound(r, reader[r]) /\ FramesSound(r, reader[r])
      BY <1>1, Known
  <2> QED
      BY <2>1 DEF ServedSound, FramesSound, Readers
<1> QED
    BY <1>1, Invariance, PTL

----------------------------------------------------------------------------
(* With the buffer in memory, `done' comes *)

LEMMA DoneActs ==
    ASSUME NEW r, turn' = turn, NEW s, s = reader'[r], DoneComes(s)
    PROVE  DoneComes(reader[r])'
<1>1. DoneComes(s)'
    BY DEF DoneComes, HasDone
<1> QED
    BY <1>1

LEMMA KindsStay ==
    ASSUME IInv, TurnsGoOn, NEW t \in Turns
    PROVE  /\ Len(turn[t].sent) \in Nat
           /\ \A id \in Nat : id < Len(turn[t].sent) =>
                  /\ id < Len(turn'[t].sent)
                  /\ turn'[t].sent[id + 1] = turn[t].sent[id + 1]
           /\ -1 < Len(turn'[t].sent)
<1>1. /\ Len(turn[t].sent) \in Nat /\ Len(turn[t].sent) <= Len(turn'[t].sent)
      /\ DOMAIN turn[t].sent = 1 .. Len(turn[t].sent)
      /\ \A i \in DOMAIN turn[t].sent : turn'[t].sent[i] = turn[t].sent[i]
    BY KnownTurns DEF Turn, TurnsGoOn, TurnGoesOn
<1>2. Len(turn'[t].sent) \in Int
    BY DEF TurnsGoOn, TurnGoesOn
<1>3. ASSUME NEW id \in Nat, id < Len(turn[t].sent)
      PROVE  id < Len(turn'[t].sent) /\ turn'[t].sent[id + 1] = turn[t].sent[id + 1]
  <2>1. id + 1 \in DOMAIN turn[t].sent
      BY <1>1, <1>3
  <2> QED
      BY <1>1, <1>2, <1>3, <2>1
<1>4. -1 < Len(turn'[t].sent)
    BY <1>1, <1>2
<1> QED
    BY <1>1, <1>3, <1>4

\* A page whose response goes on, or that has none, notices nothing of the turns' steps.
LEMMA DoneStays ==
    ASSUME IInv, TurnsGoOn, NEW r \in Pages, DoneComes(reader[r]), reader'[r] = reader[r],
           reader[r].serve = "live" =>
               turn'[reader[r].turn].gen \in {turn[reader[r].turn].gen, "running", "writing"}
    PROVE  DoneComes(reader[r])'
<1>1. r \in Readers /\ reader[r] \in Reader /\ ServedSound(r, reader[r])
    BY Known DEF Readers
<1>2. PICK s : s = reader[r] /\ s = reader'[r]
    OBVIOUS
<1>3. /\ s \in Reader /\ ServedSound(r, s) /\ DoneComes(s)
      /\ s.serve = "live" => turn'[s.turn].gen \in {turn[s.turn].gen, "running", "writing"}
    BY <1>1, <1>2
<1>4. s.turn # 0 => s.turn \in Turns
    BY <1>3 DEF Reader
<1>5. \A t \in Turns : -1 < Len(turn'[t].sent)
    BY KindsStay
<1>6. \A t \in Turns : \A id \in Nat :
          id < Len(turn[t].sent) =>
              id < Len(turn'[t].sent) /\ turn'[t].sent[id + 1] = turn[t].sent[id + 1]
    BY KindsStay
<1>7. ASSUME s.requests = 1, NEW i \in DOMAIN s.wire
      PROVE  /\ s.wire[i].id < Len(turn'[s.turn].sent)
             /\ s.wire[i].kind = turn'[s.turn].sent[s.wire[i].id + 1]
  <2>1. s.wire[i] \in Frame /\ s.turn \in Turns
      BY <1>3, <1>4, <1>7 DEF ServedSound, Reader
  <2>2. s.wire[i].id \in Nat
      BY <2>1 DEF Frame
  <2>3. /\ s.wire[i].id < Len(turn[s.turn].sent)
        /\ s.wire[i].kind = turn[s.turn].sent[s.wire[i].id + 1]
      BY <1>3, <1>7 DEF DoneComes
  <2> QED
      BY <1>6, <2>1, <2>2, <2>3
<1>8. ASSUME s.requests = 1 \/ s.serve = "asked", s.turn # 0, ~s.ended
      PROVE  /\ s.lastId < Len(turn'[s.turn].sent)
             /\ s.lastId # -1 => turn'[s.turn].sent[s.lastId + 1] # "done"
  <2>1. /\ s.lastId < Len(turn[s.turn].sent)
        /\ s.lastId # -1 => turn[s.turn].sent[s.lastId + 1] # "done"
      BY <1>3, <1>8 DEF DoneComes
  <2>2. CASE s.lastId = -1
      BY <1>4, <1>5, <1>8, <2>2
  <2>3. CASE s.lastId \in Nat
      BY <1>4, <1>6, <1>8, <2>1, <2>3
  <2> QED
      BY <1>3, <2>2, <2>3 DEF Reader, Number
<1>9. s.serve = "live" =>
          /\ turn'[s.turn].gen \notin {"stopped", "torn"}
          /\ turn'[s.turn].gen = "finished" => HasDone(s)
    BY <1>3 DEF DoneComes
<1>10. HasDone(s)' <=> HasDone(s)
    BY DEF HasDone
<1>11. DoneComes(s)'
    BY <1>3, <1>7, <1>8, <1>9, <1>10 DEF DoneComes
<1> QED
    BY <1>2, <1>11

\* The ways in which a page's response is over or broken for the first time: at the
\* last id, or with the ids lost.
EndsWell(r, id, again, failed, n) ==
    \/ /\ id = reader[r].lastId /\ again = MayAskAgain(r, id) /\ ~failed
       /\ n = 0 \/ reader[r].requests = 1 \/ reader[r].ended
       /\ n = 0 => reader[r].ended
    \/ id = -1 /\ n = 1 /\ ~again /\ failed

\* A page whose response breaks, or ends without a `done', has a request left.
LEMMA EndingDone ==
    ASSUME MaxRequests >= 2, IInv, NEW r \in Pages, reader[r].phase = "open",
           NEW id \in Number, NEW again \in BOOLEAN, NEW failed \in BOOLEAN, NEW n \in {0, 1},
           DoneComes(reader[r]), EndsWell(r, id, again, failed, n)
    PROVE  DoneComes([Ending(r, id, again, failed) EXCEPT !.cuts = n])
<1> DEFINE s == [Ending(r, id, again, failed) EXCEPT !.cuts = n]
<1>1. r \in Readers /\ reader[r] \in Reader /\ MaxRequests \in Nat
    BY Known, StreamConstants DEF Readers
<1>2. /\ s.phase = (IF again THEN "asking" ELSE "over")
      /\ s.serve = "none" /\ s.wire = <<>> /\ s.cursor = id /\ s.lastId = id /\ s.cuts = n
      /\ s.turn = reader[r].turn /\ s.ended = reader[r].ended /\ s.requests = reader[r].requests
      /\ s.had = reader[r].had /\ s.extra = reader[r].extra /\ s.failed = failed
    BY <1>1 DEF Ending, Reader
<1> SUFFICES DoneComes(s)
    OBVIOUS
<1> HIDE DEF s
<1>3. /\ reader[r].requests <= 2 /\ reader[r].requests \in Nat /\ reader[r].requests # 0
    BY <1>1 DEF DoneComes, Reader
<1>4. again => ~s.ended /\ id # -1 /\ n = 1 /\ s.requests = 1
    BY <1>2 DEF EndsWell, MayAskAgain
<1>5. ~again => s.ended \/ s.failed \/ (s.had = {} /\ ~s.extra)
  <2>1. ASSUME ~again, ~failed, ~reader[r].ended
        PROVE  reader[r].had = {} /\ ~reader[r].extra
    <3>1. reader[r].requests = 1 /\ reader[r].lastId = -1
        BY <1>1, <1>3, <2>1 DEF EndsWell, MayAskAgain
    <3> QED
        BY <3>1 DEF DoneComes
  <2> QED
      BY <1>2, <2>1
<1>6. s.requests = 1 /\ s.turn # 0 /\ ~s.ended =>
          /\ s.lastId < Len(turn[s.turn].sent)
          /\ s.lastId # -1 => turn[s.turn].sent[s.lastId + 1] # "done"
  <2>1. CASE id = -1
    <3>1. s.turn # 0 => Len(turn[s.turn].sent) \in Nat
        BY <1>1, <1>2, KnownTurns DEF Reader, Turn
    <3> QED
        BY <1>2, <2>1, <3>1
  <2>2. CASE id = reader[r].lastId
      BY <1>2, <2>2 DEF DoneComes
  <2> QED
      BY <2>1, <2>2 DEF EndsWell
<1>7. DOMAIN s.wire = {}
    BY <1>2
<1>8. /\ s.phase # "open" /\ s.serve = "none" /\ s.requests <= 2
      /\ s.phase = "asking" => s.requests = 1 /\ s.cursor # -1 /\ s.cuts = 1
      /\ s.phase # "over" => s.lastId # -1
      /\ s.phase = "over" => s.ended \/ s.failed \/ (s.had = {} /\ ~s.extra)
    BY <1>2, <1>3, <1>4, <1>5
<1> QED
    BY <1>6, <1>7, <1>8 DEF DoneComes

LEMMA SendDone ==
    ASSUME NEW r \in Readers, reader \in [Readers -> Reader], Send(r)
    PROVE  DoneComes(reader[r])'
<1>1. PICK s : /\ s = [Resting EXCEPT !.phase = "asking", !.sends = reader[r].sends + 1]
               /\ s = reader'[r]
    BY DEF Send
<1>2. /\ s.phase = "asking" /\ s.serve = "none" /\ s.wire = <<>> /\ s.cursor = -1
      /\ s.requests = 0 /\ s.had = {} /\ ~s.extra
    BY <1>1 DEF Resting
<1>3. turn' = turn
    BY DEF Send
<1>4. DoneComes(s)
    BY <1>2 DEF DoneComes
<1> QED
    BY <1>1, <1>3, <1>4, DoneActs

LEMMA AskDone ==
    ASSUME IInv, NEW r \in Pages, DoneComes(reader[r]), Ask(r), reader[r].cursor # -1
    PROVE  DoneComes(reader[r])'
<1>1. r \in Readers /\ reader[r] \in Reader /\ ServedSound(r, reader[r])
    BY Known DEF Readers
<1>2. PICK s : /\ s = [reader[r] EXCEPT !.phase = "open", !.serve = "asked", !.requests = @ + 1]
               /\ s = reader'[r]
  <2>1. reader \in [Readers -> Reader]
      BY <1>1, Known
  <2> QED
      BY <1>1, <2>1 DEF Ask
<1>3. reader[r].requests = 1 /\ reader[r].cuts # 0 /\ reader[r].wire = <<>>
    BY <1>1 DEF Ask, DoneComes, ServedSound
<1>4. /\ s.phase = "open" /\ s.serve = "asked" /\ s.requests = 2 /\ s.wire = <<>>
      /\ s.cursor = reader[r].cursor /\ s.lastId = reader[r].lastId /\ s.cuts = reader[r].cuts
      /\ s.turn = reader[r].turn /\ s.ended = reader[r].ended
      /\ s.had = reader[r].had /\ s.extra = reader[r].extra
    BY <1>1, <1>2, <1>3 DEF Reader
<1>5. s.turn # 0 /\ ~s.ended =>
          /\ s.lastId < Len(turn[s.turn].sent)
          /\ s.lastId # -1 => turn[s.turn].sent[s.lastId + 1] # "done"
    BY <1>3, <1>4 DEF DoneComes
<1>6. s.lastId = -1 => s.had = {} /\ ~s.extra
    BY <1>4 DEF DoneComes, Ask
<1>7. turn' = turn
    BY DEF Ask
<1> QED
    BY <1>2, <1>3, <1>4, <1>5, <1>6, <1>7, DoneActs DEF DoneComes

\* A new turn: the response is live, and nothing is sent yet.
LEMMA PostDone ==
    ASSUME IInv, NEW r \in Readers, NEW q \in Pages, DoneComes(reader[q]), Ask(r),
           reader[r].cursor = -1
    PROVE  DoneComes(reader[q])'
<1>1. /\ reader \in [Readers -> Reader] /\ reader[r] \in Reader /\ ServedSound(r, reader[r])
      /\ turn \in [Turns -> Turn]
    BY Known DEF IInv, Typed
<1>2. PICK t \in Turns : t = NextTurn
    BY NextTurnIsFree DEF Ask, Post
<1>3. /\ turn' = [turn EXCEPT ![t] = [NoTurn EXCEPT !.thread = r, !.graph = "running",
                                                    !.gen = "running"]]
      /\ reader' = [reader EXCEPT ![r] = Started(r, t)]
    BY <1>2 DEF Ask, Post
<1>4. TurnsGoOn
    BY PostKeeps
<1>5. CASE q # r
  <2>1. reader'[q] = reader[q]
      BY <1>1, <1>3, <1>5
  <2>2. reader[q].serve = "live" => reader[q].turn \in Turns
      BY Known DEF Readers, ServedSound, OfThread
  <2>3. \A u \in Turns : turn'[u].gen \in {turn[u].gen, "running"}
    <3>1. [NoTurn EXCEPT !.thread = r, !.graph = "running", !.gen = "running"].gen = "running"
        BY DEF NoTurn
    <3> QED
        BY <1>1, <1>3, <3>1
  <2> QED
      BY <1>4, <2>1, <2>2, <2>3, DoneStays
<1>6. CASE q = r
  <2>1. PICK s : s = Started(r, t) /\ s = reader'[r]
      BY <1>1, <1>3
  <2>2. /\ s.phase = "open" /\ s.turn = t /\ s.serve = "live" /\ s.wire = <<>> /\ s.cursor = -1
        /\ s.lastId = -1 /\ s.requests = 1 /\ s.cuts = 0 /\ ~s.ended
        /\ s.had = {} /\ ~s.extra
    <3>1. /\ reader[r].wire = <<>> /\ reader[r].lastId = -1 /\ reader[r].cuts = 0
          /\ ~reader[r].ended /\ reader[r].requests = 0 /\ reader[r].had = {} /\ ~reader[r].extra
        BY <1>1, <1>6 DEF ServedSound, DoneComes, Ask
    <3> QED
        BY <1>1, <2>1, <3>1 DEF Started, Reader
  <2>3. turn'[t].gen = "running" /\ Len(turn'[t].sent) = 0
      BY <1>1, <1>3 DEF NoTurn
  <2>4. DOMAIN s.wire = {}
      BY <2>2
  <2>5. DoneComes(s)'
    <3>1. s.requests <= 2 /\ s.lastId < Len(turn'[t].sent)
        BY <2>2, <2>3
    <3> QED
        BY <2>2, <2>3, <2>4, <3>1 DEF DoneComes
  <2> QED
      BY <1>6, <2>1, <2>5
<1> QED
    BY <1>5, <1>6
\* The answer to a request with a cursor, the page's second, closes with a `done'.
LEMMA RespondDone ==
    ASSUME IInv, NEW r \in Pages, DoneComes(reader[r]), turn' = turn,
           reader[r].serve \in {"asked", "fallback"},
           NEW frames \in Seq(Frame), NEW serve \in {"over", "fallback"},
           Respond(r, frames, serve),
           serve = "over" =>
               reader[r].ended \/ \E i \in DOMAIN frames : frames[i].kind = "done"
    PROVE  DoneComes(reader[r])'
<1>1. /\ r \in Readers /\ reader \in [Readers -> Reader] /\ reader[r] \in Reader
      /\ ServedSound(r, reader[r])
    BY Known DEF Readers
<1>2. PICK s : /\ s = [reader[r] EXCEPT !.wire = @ \o frames, !.serve = serve]
               /\ s = reader'[r]
    BY <1>1 DEF Respond
<1>3. /\ s.phase = reader[r].phase /\ s.serve = serve /\ s.wire = reader[r].wire \o frames
      /\ s.requests = reader[r].requests /\ s.cuts = reader[r].cuts /\ s.ended = reader[r].ended
      /\ s.lastId = reader[r].lastId /\ s.had = reader[r].had /\ s.extra = reader[r].extra
    BY <1>1, <1>2 DEF Reader
<1>4. reader[r].phase = "open" /\ reader[r].requests = 2 /\ reader[r].cuts # 0
  <2>1. reader[r].phase = "open" /\ reader[r].requests \in Nat
      BY <1>1 DEF ServedSound, Reader
  <2> QED
      BY <2>1 DEF DoneComes
<1>5. serve = "over" => HasDone(s)
  <2>1. ASSUME NEW i \in DOMAIN frames, frames[i].kind = "done"
        PROVE  \E j \in DOMAIN s.wire : s.wire[j].kind = "done"
    <3>1. PICK wire \in Seq(Frame) : wire = reader[r].wire
        BY <1>1 DEF Reader
    <3>2. /\ i \in 1 .. Len(frames) /\ Len(wire) \in Nat /\ Len(frames) \in Nat
          /\ Len(wire \o frames) = Len(wire) + Len(frames) /\ wire \o frames \in Seq(Frame)
        BY <2>1
    <3>3. Len(wire) + i \in DOMAIN (wire \o frames)
        BY <3>2
    <3>4. (wire \o frames)[Len(wire) + i] = frames[i]
        BY <3>2
    <3> QED
        BY <1>3, <2>1, <3>1, <3>3, <3>4
  <2> QED
      BY <1>3, <2>1 DEF HasDone
<1>6. DoneComes(s)
    BY <1>3, <1>4, <1>5 DEF DoneComes
<1> QED
    BY <1>2, <1>6, DoneActs

LEMMA FramesDone ==
    ASSUME NEW r, NEW n, NEW k \in Kinds, NEW t \in Turns \cup {0}, n + 1 \in Nat, n + 2 \in Nat
    PROVE  LET frames == <<Made(n + 1, k, t), Made(n + 2, "done", t)>>
           IN  frames \in Seq(Frame) /\ \E i \in DOMAIN frames : frames[i].kind = "done"
<1> DEFINE frames == <<Made(n + 1, k, t), Made(n + 2, "done", t)>>
<1>1. Made(n + 1, k, t) \in Frame /\ Made(n + 2, "done", t) \in Frame
    BY RestingType DEF Made, Frame, Kinds
<1>2. frames \in Seq(Frame) /\ 2 \in DOMAIN frames /\ frames[2] = Made(n + 2, "done", t)
    BY <1>1
<1>3. Made(n + 2, "done", t).kind = "done"
    BY DEF Made
<1>4. \E i \in DOMAIN frames : frames[i].kind = "done"
  <2> HIDE DEF frames
  <2> QED
      BY <1>2, <1>3
<1> QED
    BY <1>2, <1>4

LEMMA RefuseForeignDone ==
    ASSUME IInv, NEW r \in Pages, DoneComes(reader[r]), RefuseForeign(r)
    PROVE  DoneComes(reader[r])'
<1> DEFINE n == reader[r].cursor
           frames == <<Made(n + 1, "error", 0), Made(n + 2, "done", 0)>>
<1>1. n + 1 \in Nat /\ n + 2 \in Nat
  <2>1. reader[r] \in Reader
      BY Known DEF Readers
  <2> QED
      BY <2>1 DEF Reader, Number
<1>2. turn' = turn /\ reader[r].serve = "asked" /\ Respond(r, frames, "over")
    BY DEF RefuseForeign
<1>3. "error" \in Kinds
    BY DEF Kinds
<1>4. frames \in Seq(Frame) /\ \E i \in DOMAIN frames : frames[i].kind = "done"
  <2> HIDE DEF n
  <2> QED
      BY <1>1, <1>3, FramesDone
<1> HIDE DEF frames
<1> QED
    BY <1>2, <1>4, RespondDone

LEMMA FallbackDone ==
    ASSUME IInv, NEW r \in Pages, DoneComes(reader[r]), Fallback(r)
    PROVE  DoneComes(reader[r])'
<1> DEFINE n == LastSent(r)
           t == answer[r]
           frames == IF t = 0
                     THEN <<Made(n + 1, "error", 0), Made(n + 2, "done", 0)>>
                     ELSE <<Made(n + 1, "message", t), Made(n + 2, "done", t)>>
<1>1. r \in Readers /\ reader[r] \in Reader /\ t \in Turns \cup {0}
    BY Known DEF Readers, IInv, Typed, Threads
<1>2. n + 1 \in Nat /\ n + 2 \in Nat
  <2>1. n = reader[r].lastId + Len(reader[r].wire) /\ Len(reader[r].wire) \in Nat
      BY <1>1, LastSentIs DEF Reader
  <2> QED
      BY <1>1, <2>1 DEF Reader, Number
<1>3. turn' = turn /\ reader[r].serve = "fallback" /\ Respond(r, frames, "over")
    BY DEF Fallback
<1>4. "error" \in Kinds /\ "message" \in Kinds
    BY DEF Kinds
<1>5. frames \in Seq(Frame) /\ \E i \in DOMAIN frames : frames[i].kind = "done"
  <2> HIDE DEF n, t
  <2>1. /\ <<Made(n + 1, "message", t), Made(n + 2, "done", t)>> \in Seq(Frame)
        /\ \E i \in DOMAIN <<Made(n + 1, "message", t), Made(n + 2, "done", t)>> :
              <<Made(n + 1, "message", t), Made(n + 2, "done", t)>>[i].kind = "done"
      BY <1>1, <1>2, <1>4, FramesDone
  <2>2. /\ <<Made(n + 1, "error", 0), Made(n + 2, "done", 0)>> \in Seq(Frame)
        /\ \E i \in DOMAIN <<Made(n + 1, "error", 0), Made(n + 2, "done", 0)>> :
              <<Made(n + 1, "error", 0), Made(n + 2, "done", 0)>>[i].kind = "done"
      BY <1>2, <1>4, FramesDone
  <2> QED
      BY <2>1, <2>2
<1> HIDE DEF frames
<1> QED
    BY <1>3, <1>5, RespondDone
\* A request that is answered from the memory of a complete turn gets its `done': the
\* page has not read that far.
LEMMA ReadTurnDone ==
    ASSUME IInv, NEW r \in Pages, DoneComes(reader[r]), ReadTurn(r)
    PROVE  DoneComes(reader[r])'
<1> DEFINE t == reader[r].turn
           cursor == reader[r].cursor
           sent == turn[t].sent
<1>1. /\ r \in Readers /\ reader[r] \in Reader /\ ServedSound(r, reader[r])
      /\ reader[r].serve = "asked" /\ backend = "memory"
    BY Known DEF Readers, ReadTurn
<1>2. t \in Turns /\ cursor \in Number /\ reader[r].lastId = cursor
    BY <1>1 DEF ServedSound, Reader
<1>3. Typed /\ TurnSound(t) /\ sent \in Seq(Kinds)
    BY <1>2, KnownTurns DEF IInv, Turn
<1>4. PICK serve \in {"over", "fallback"} :
          serve = (IF log[t].done THEN "over" ELSE "fallback")
    OBVIOUS
<1>5. Respond(r, Replayed(t, cursor), serve) /\ turn' = turn
    BY <1>4 DEF ReadTurn, AfterRest
<1>6. /\ Replayed(t, cursor) \in Seq(Frame)
      /\ Len(sent) - 1 \in log[t].seqs /\ cursor < Len(sent) - 1 =>
             \E i \in DOMAIN Replayed(t, cursor) : Replayed(t, cursor)[i].kind = Last(sent)
    BY <1>2, <1>3, ReplayedFrames
<1>7. ASSUME log[t].done, ~reader[r].ended
      PROVE  \E i \in DOMAIN Replayed(t, cursor) : Replayed(t, cursor)[i].kind = "done"
  <2>1. sent # <<>> /\ Last(sent) = "done" /\ Len(sent) - 1 \in log[t].seqs
      BY <1>1, <1>3, <1>7 DEF TurnSound
  <2>2. Len(sent) \in Nat \ {0} /\ sent[Len(sent)] = "done"
      BY <1>3, <2>1 DEF Last
  <2>3. cursor < Len(sent) /\ (cursor # -1 => sent[cursor + 1] # "done")
      BY <1>1, <1>2, <1>7, StreamConstants DEF DoneComes
  <2> HIDE DEF cursor, sent
  <2>4. cursor < Len(sent) - 1
      BY <1>2, <2>2, <2>3, SMTT(30) DEF Number
  <2> QED
      BY <1>6, <2>1, <2>4
<1> QED
    BY <1>1, <1>4, <1>5, <1>6, <1>7, RespondDone

LEMMA ReadDone ==
    ASSUME IInv, NEW r \in Pages, DoneComes(reader[r]), Read(r)
    PROVE  DoneComes(reader[r])'
<1>1. /\ r \in Readers /\ reader \in [Readers -> Reader] /\ reader[r] \in Reader
      /\ ServedSound(r, reader[r]) /\ reader[r].phase = "open" /\ reader[r].wire # <<>>
    BY Known DEF Readers, Read
<1>2. PICK wire \in Seq(Frame) : wire = reader[r].wire
    BY <1>1 DEF Reader
<1>3. PICK s : /\ s = [reader[r] EXCEPT
                         !.wire = Tail(wire), !.lastId = Head(wire).id,
                         !.had = IF Head(wire).seq # -1 /\ Head(wire).turn = reader[r].turn
                                 THEN @ \cup {Head(wire).seq} ELSE @,
                         !.extra = @ \/ (Head(wire).seq = -1),
                         !.ended = @ \/ (Head(wire).kind = "done")]
               /\ s = reader'[r]
    BY <1>1, <1>2 DEF Read
<1>4. /\ s.phase = "open" /\ s.serve = reader[r].serve /\ s.cursor = reader[r].cursor
      /\ s.turn = reader[r].turn /\ s.requests = reader[r].requests /\ s.cuts = reader[r].cuts
      /\ s.wire = Tail(wire) /\ s.lastId = Head(wire).id
      /\ s.ended = (reader[r].ended \/ Head(wire).kind = "done")
    BY <1>1, <1>3 DEF Reader
<1>5. /\ 1 \in DOMAIN wire /\ Head(wire) = wire[1]
      /\ \A i \in DOMAIN Tail(wire) : i + 1 \in DOMAIN wire /\ Tail(wire)[i] = wire[i + 1]
      /\ \A i \in DOMAIN wire : i # 1 => i - 1 \in DOMAIN Tail(wire) /\ Tail(wire)[i - 1] = wire[i]
    BY <1>1, <1>2
<1>6. HasDone(reader[r]) => HasDone(s)
  <2>1. ASSUME NEW i \in DOMAIN wire, wire[i].kind = "done" PROVE HasDone(s)
    <3>1. CASE i = 1
        BY <1>4, <1>5, <2>1, <3>1 DEF HasDone
    <3>2. CASE i # 1
      <4>1. i - 1 \in DOMAIN s.wire /\ s.wire[i - 1].kind = "done"
          BY <1>4, <1>5, <2>1, <3>2
      <4> QED
          BY <4>1 DEF HasDone
    <3> QED
        BY <3>1, <3>2
  <2> QED
      BY <1>2, <1>4, <2>1 DEF HasDone
<1>7. s.requests = 1 => \A i \in DOMAIN wire :
          /\ wire[i].id < Len(turn[s.turn].sent)
          /\ wire[i].kind = turn[s.turn].sent[wire[i].id + 1]
    BY <1>2, <1>4 DEF DoneComes
<1>8. s.serve # "asked"
    BY <1>1, <1>4 DEF ServedSound
<1>9. ASSUME s.requests = 1
      PROVE  /\ \A i \in DOMAIN s.wire :
                    /\ s.wire[i].id < Len(turn[s.turn].sent)
                    /\ s.wire[i].kind = turn[s.turn].sent[s.wire[i].id + 1]
             /\ s.lastId < Len(turn[s.turn].sent)
             /\ ~s.ended => turn[s.turn].sent[s.lastId + 1] # "done"
  <2>1. ASSUME NEW i \in DOMAIN s.wire
        PROVE  /\ s.wire[i].id < Len(turn[s.turn].sent)
               /\ s.wire[i].kind = turn[s.turn].sent[s.wire[i].id + 1]
    <3>1. i + 1 \in DOMAIN wire /\ s.wire[i] = wire[i + 1]
        BY <1>4, <1>5
    <3> QED
        BY <1>7, <1>9, <3>1
  <2>2. /\ wire[1].id < Len(turn[s.turn].sent)
        /\ wire[1].kind = turn[s.turn].sent[wire[1].id + 1]
      BY <1>5, <1>7, <1>9
  <2> QED
      BY <1>4, <1>5, <2>1, <2>2, ZenonT(40)
<1>10. /\ s.requests <= 2 /\ s.requests # 0
       /\ s.requests = 1 => s.serve \in {"live", "over"}
       /\ s.cuts = 0 => s.serve = "live"
       /\ s.serve = "live" =>
              /\ s.requests = 1 /\ s.cuts = 0 /\ s.cursor = -1
              /\ turn[s.turn].gen \notin {"stopped", "torn"}
              /\ turn[s.turn].gen = "finished" => HasDone(s)
       /\ s.requests = 2 /\ s.serve = "over" => HasDone(s)
    BY <1>1, <1>4, <1>6 DEF DoneComes
<1>11. s.lastId # -1
  <2>1. wire[1] \in Frame
      BY <1>5
  <2> QED
      BY <1>4, <1>5, <2>1 DEF Frame
<1>12. DoneComes(s)
    BY <1>4, <1>8, <1>9, <1>10, <1>11 DEF DoneComes
<1> QED
    BY <1>3, <1>12, DoneActs DEF Read

LEMMA EndingsDone ==
    ASSUME MaxRequests >= 2, IInv, NEW r \in Pages, DoneComes(reader[r]),
           EndOfResponse(r) \/ Cut(r) \/ Abort(r), reader'[r].cuts <= 1
    PROVE  DoneComes(reader[r])'
<1>1. /\ r \in Readers /\ reader \in [Readers -> Reader] /\ reader[r] \in Reader
      /\ ServedSound(r, reader[r]) /\ reader[r].phase = "open"
    BY Known DEF Readers, EndOfResponse, Cut, Abort
<1>2. reader[r].cuts \in Nat /\ reader[r].requests \in Nat /\ reader[r].lastId \in Number
    BY <1>1 DEF Reader
<1>3. \A id, again, failed : Ending(r, id, again, failed).cuts = reader[r].cuts
    BY <1>1 DEF Ending, Reader
<1>4. PICK id \in Number, again \in BOOLEAN, failed \in BOOLEAN, n \in {0, 1} :
          /\ reader'[r] = [Ending(r, id, again, failed) EXCEPT !.cuts = n]
          /\ EndsWell(r, id, again, failed, n)
  <2> DEFINE last == reader[r].lastId
             more == MayAskAgain(r, last)
  <2>0. more \in BOOLEAN
      BY DEF MayAskAgain
  <2>1. CASE EndOfResponse(r)
    <3>1. reader'[r] = Ending(r, last, more, FALSE)
        BY <1>1, <2>1 DEF EndOfResponse, EndingAtLast
    <3>2. reader'[r] = [Ending(r, last, more, FALSE) EXCEPT !.cuts = reader[r].cuts]
        BY <1>1, <3>1 DEF Ending, Reader
    <3>3. reader[r].cuts \in {0, 1}
      <4>1. Ending(r, last, more, FALSE).cuts = reader[r].cuts
          BY <1>3
      <4> HIDE DEF more
      <4>2. reader'[r].cuts = reader[r].cuts
          BY <3>1, <4>1, Zenon
      <4> QED
          BY <1>2, <4>2
    <3>4. reader[r].serve = "live" => reader[r].ended
      <4>1. reader[r].serve = "live" => turn[reader[r].turn].gen = "finished"
          BY <2>1 DEF EndOfResponse, Ended, DoneComes
      <4> QED
          BY <2>1, <4>1 DEF EndOfResponse, Ended, DoneComes, HasDone
    <3>5. reader[r].serve = "over" => reader[r].requests = 1 \/ reader[r].ended
      <4>1. reader[r].requests \in {1, 2}
          BY <1>1, <1>2 DEF DoneComes
      <4>2. reader[r].serve = "over" /\ reader[r].requests = 2 => reader[r].ended
          BY <2>1 DEF EndOfResponse, Ended, DoneComes, HasDone
      <4> QED
          BY <4>1, <4>2
    <3>6. reader[r].cuts = 0 => reader[r].serve = "live"
        BY <1>1 DEF DoneComes
    <3>7. EndsWell(r, last, more, FALSE, reader[r].cuts)
        BY <2>1, <3>3, <3>4, <3>5, <3>6 DEF EndOfResponse, Ended, EndsWell
    <3> HIDE DEF more
    <3> QED
        BY <1>2, <2>0, <3>2, <3>3, <3>7
  <2>2. ASSUME reader'[r].cuts = reader[r].cuts + 1
        PROVE  reader[r].cuts + 1 = 1 /\ reader[r].requests = 1 /\ reader[r].cursor = -1
    <3>1. reader[r].cuts = 0 /\ reader[r].cuts + 1 = 1
        BY <1>2, <2>2
    <3> QED
        BY <1>1, <3>1 DEF DoneComes
  <2>3. CASE Cut(r)
    <3>1. reader'[r] = [Ending(r, last, more, FALSE) EXCEPT !.cuts = reader[r].cuts + 1]
        BY <1>1, <1>3, <2>3 DEF Cut, EndingAtLast
    <3> HIDE DEF more
    <3>2. reader'[r].cuts = reader[r].cuts + 1
        BY <1>1, <3>1 DEF Ending, Reader
    <3>3. EndsWell(r, last, more, FALSE, 1)
        BY <2>2, <3>2 DEF EndsWell, more
    <3> QED
        BY <1>2, <2>0, <2>2, <3>1, <3>2, <3>3
  <2>4. CASE Abort(r)
    <3>1. reader'[r] = [EndingFailed(r) EXCEPT !.cuts = reader[r].cuts + 1]
        BY <1>1, <1>3, <2>4 DEF Abort, EndingFailed
    <3>2. reader'[r].cuts = reader[r].cuts + 1
        BY <1>1, <3>1 DEF EndingFailed, Ending, Reader
    <3>3. EndingFailed(r) = Ending(r, -1, FALSE, TRUE)
        BY <2>2, <3>2 DEF EndingFailed
    <3>4. EndsWell(r, -1, FALSE, TRUE, 1)
        BY DEF EndsWell
    <3> QED
        BY <2>2, <3>1, <3>2, <3>3, <3>4, RestingType
  <2> QED
      BY <2>1, <2>3, <2>4
<1>5. PICK s : s = [Ending(r, id, again, failed) EXCEPT !.cuts = n] /\ s = reader'[r]
    BY <1>4
<1>6. DoneComes(s)
  <2>1. EndsWell(r, id, again, failed, n)
      BY <1>4
  <2>2. DoneComes([Ending(r, id, again, failed) EXCEPT !.cuts = n])
      BY <1>1, <2>1, EndingDone
  <2> QED
      BY <1>5, <2>2
<1>7. turn' = turn
    BY DEF EndOfResponse, Cut, Abort
<1> QED
    BY <1>5, <1>6, <1>7, DoneActs

LEMMA AskFailsDone ==
    ASSUME IInv, NEW r \in Pages, DoneComes(reader[r]), AskFails(r)
    PROVE  DoneComes(reader[r])'
<1>1. /\ r \in Readers /\ reader \in [Readers -> Reader] /\ reader[r] \in Reader
      /\ ServedSound(r, reader[r]) /\ reader[r].phase = "asking"
    BY Known DEF Readers, AskFails
<1>2. PICK s : s = [reader[r] EXCEPT !.phase = "over", !.failed = TRUE] /\ s = reader'[r]
    BY <1>1 DEF AskFails
<1>3. /\ s.phase = "over" /\ s.failed /\ s.serve = "none" /\ s.wire = <<>>
      /\ s.requests = reader[r].requests /\ s.cuts = reader[r].cuts /\ s.turn = reader[r].turn
      /\ s.lastId = reader[r].lastId /\ s.ended = reader[r].ended
    BY <1>1, <1>2 DEF ServedSound, Reader
<1>4. DOMAIN s.wire = {}
    BY <1>3
<1>5. DoneComes(s)
    BY <1>3, <1>4 DEF DoneComes
<1>6. turn' = turn
    BY DEF AskFails
<1> QED
    BY <1>2, <1>5, <1>6, DoneActs

\* The response that breaks with the server was live.
LEMMA RestartDone ==
    ASSUME IInv, NEW r \in Pages, DoneComes(reader[r]), Restart, reader'[r].cuts <= 1
    PROVE  DoneComes(reader[r])'
<1>1. r \in Readers /\ reader[r] \in Reader /\ ServedSound(r, reader[r]) /\ TurnsGoOn
    BY Known, RestartKeeps DEF Readers
<1>2. CASE reader[r].phase # "open"
  <2>1. reader'[r] = reader[r] /\ reader[r].serve # "live"
      BY <1>1, <1>2 DEF Restart, ServedSound
  <2> QED
      BY <1>1, <2>1, DoneStays
<1>3. CASE reader[r].phase = "open"
  <2>1. PICK s : s = [reader[r] EXCEPT !.serve = "over", !.cuts = @ + 1] /\ s = reader'[r]
      BY <1>1, <1>3 DEF Restart
  <2>2. /\ s.phase = "open" /\ s.serve = "over" /\ s.wire = reader[r].wire
        /\ s.cuts = reader[r].cuts + 1 /\ s.requests = reader[r].requests
        /\ s.turn = reader[r].turn /\ s.lastId = reader[r].lastId /\ s.ended = reader[r].ended
        /\ s.had = reader[r].had /\ s.extra = reader[r].extra
      BY <1>1, <1>3, <2>1 DEF Reader
  <2>3. reader[r].cuts = 0
      BY <1>1, <2>1, <2>2 DEF Reader
  <2>4. s.requests = 1 /\ s.cuts = 1 /\ s.turn \in Turns
      BY <1>1, <1>3, <2>2, <2>3 DEF DoneComes, ServedSound, Reader
  <2>5. turn'[s.turn].sent = turn[s.turn].sent
    <3>1. turn[s.turn] \in Turn
        BY <2>4, KnownTurns
    <3> QED
        BY <2>4, <3>1 DEF Restart, Turn
  <2>6. \A i \in DOMAIN s.wire :
            /\ s.wire[i].id < Len(turn[s.turn].sent)
            /\ s.wire[i].kind = turn[s.turn].sent[s.wire[i].id + 1]
      BY <2>2, <2>4 DEF DoneComes
  <2>7. ~s.ended =>
            /\ s.lastId < Len(turn[s.turn].sent)
            /\ s.lastId # -1 => turn[s.turn].sent[s.lastId + 1] # "done"
      BY <2>2, <2>4, StreamConstants, SMTT(30) DEF DoneComes
  <2>8. s.lastId = -1 => s.had = {} /\ ~s.extra
      BY <1>3, <2>2 DEF DoneComes
  <2>9. DoneComes(s)'
      BY <2>2, <2>4, <2>5, <2>6, <2>7, <2>8 DEF DoneComes
  <2> QED
      BY <2>1, <2>9
<1> QED
    BY <1>2, <1>3
\* An event of the turn a page reads live: the generator is finished after `done' only.
LEMMA EmitDone ==
    ASSUME IInv, NEW r \in Pages, DoneComes(reader[r]), NEW t \in Turns,
           turn[t].gen \in {"running", "writing"}, NextKind(t) # "none",
           Emit(t, NextKind(t)), UNCHANGED <<backend, answer, faults>>
    PROVE  DoneComes(reader[r])'
<1>1. r \in Readers /\ reader[r] \in Reader /\ ServedSound(r, reader[r])
    BY Known DEF Readers
<1>2. TurnsGoOn
    BY EmitKeeps
<1>3. turn[t] \in Turn /\ turn[t].sent \in Seq(Kinds) /\ Len(turn[t].sent) \in Nat
    BY KnownTurns DEF Turn
<1>4. PICK kind : kind = NextKind(t)
    OBVIOUS
<1>5. PICK frame : frame = [id |-> Len(turn[t].sent), kind |-> kind, turn |-> t,
                            seq |-> Len(turn[t].sent)]
    OBVIOUS
<1>6. reader'[r] = IF Live(r, t) THEN [reader[r] EXCEPT !.wire = Append(@, frame)] ELSE reader[r]
    BY <1>1, <1>4, <1>5 DEF Emit
<1>7. /\ turn'[t].sent = Append(turn[t].sent, kind)
      /\ turn'[t].gen = IF kind = "done" THEN "finished" ELSE "running"
      /\ \A u \in Turns \ {t} : turn'[u].gen = turn[u].gen
  <2>1. \A u \in Turns : turn[u] \in Turn
      BY KnownTurns
  <2> QED
      BY <1>4, <2>1 DEF Emit, Turn
<1>8. CASE ~Live(r, t)
  <2>1. reader'[r] = reader[r]
      BY <1>6, <1>8
  <2>2. reader[r].serve = "live" => reader[r].turn \in Turns \ {t}
      BY <1>1, <1>8 DEF Live, ServedSound, OfThread
  <2> QED
      BY <1>2, <1>7, <2>1, <2>2, DoneStays
<1>9. CASE Live(r, t)
  <2>1. PICK wire \in Seq(Frame) : wire = reader[r].wire
      BY <1>1 DEF Reader
  <2>2. PICK s : s = [reader[r] EXCEPT !.wire = Append(wire, frame)] /\ s = reader'[r]
      BY <1>6, <1>9, <2>1
  <2>3. /\ s.phase = "open" /\ s.serve = "live" /\ s.wire = Append(wire, frame) /\ s.turn = t
        /\ s.cuts = reader[r].cuts /\ s.requests = reader[r].requests
        /\ s.cursor = reader[r].cursor /\ s.lastId = reader[r].lastId
        /\ s.ended = reader[r].ended /\ s.had = reader[r].had /\ s.extra = reader[r].extra
      BY <1>1, <1>9, <2>2 DEF Live, Reader
  <2>4. s.requests = 1 /\ s.cuts = 0 /\ s.cursor = -1
      BY <1>9, <2>3 DEF DoneComes, Live
  <2>5. \A i \in DOMAIN wire :
            /\ wire[i].id \in Nat /\ wire[i].id < Len(turn[t].sent)
            /\ wire[i].kind = turn[t].sent[wire[i].id + 1]
    <3>1. \A i \in DOMAIN wire : wire[i].id \in Nat
      <4>1. \A i \in DOMAIN wire : wire[i] \in Frame
          OBVIOUS
      <4> QED
          BY <4>1 DEF Frame
    <3>2. reader[r].requests = 1 /\ reader[r].turn = t
        BY <1>9, <2>3, <2>4 DEF Live
    <3> QED
        BY <2>1, <3>1, <3>2 DEF DoneComes
  <2>6. \A i \in DOMAIN s.wire :
            \/ i \in DOMAIN wire /\ s.wire[i] = wire[i]
            \/ s.wire[i] = frame
      BY <2>3
  <2>7. /\ Len(turn[t].sent) < Len(turn'[t].sent)
        /\ turn'[t].sent[Len(turn[t].sent) + 1] = kind
      BY <1>3, <1>7
  <2>8. frame.id = Len(turn[t].sent) /\ frame.kind = kind
      BY <1>5
  <2>9. ASSUME NEW i \in DOMAIN s.wire
        PROVE  /\ s.wire[i].id < Len(turn'[t].sent)
               /\ s.wire[i].kind = turn'[t].sent[s.wire[i].id + 1]
    <3>1. CASE i \in DOMAIN wire /\ s.wire[i] = wire[i]
      <4>1. PICK id \in Nat : /\ id = s.wire[i].id /\ id < Len(turn[t].sent)
                              /\ s.wire[i].kind = turn[t].sent[id + 1]
          BY <2>5, <3>1
      <4>2. id < Len(turn'[t].sent) /\ turn'[t].sent[id + 1] = turn[t].sent[id + 1]
          BY <1>2, <4>1, KindsStay
      <4> QED
          BY <4>1, <4>2
    <3>2. CASE s.wire[i] = frame
        BY <2>7, <2>8, <3>2
    <3> QED
        BY <2>6, <3>1, <3>2
  <2>10. kind = "done" => HasDone(s)
    <3>1. Len(wire) + 1 \in DOMAIN s.wire /\ s.wire[Len(wire) + 1] = frame
        BY <2>3
    <3> QED
        BY <2>8, <3>1 DEF HasDone
  <2>11. ASSUME ~s.ended
         PROVE  /\ s.lastId < Len(turn'[t].sent)
                /\ s.lastId # -1 => turn'[t].sent[s.lastId + 1] # "done"
    <3>1. /\ s.lastId < Len(turn[t].sent)
          /\ s.lastId # -1 => turn[t].sent[s.lastId + 1] # "done"
      <4>1. t # 0
          BY StreamConstants
      <4>2. reader[r].requests = 1 /\ reader[r].turn = t /\ ~reader[r].ended
          BY <1>9, <2>3, <2>4, <2>11 DEF Live
      <4> QED
          BY <2>3, <4>1, <4>2 DEF DoneComes
    <3>2. s.lastId \in Nat \/ s.lastId = -1
        BY <1>1, <2>3 DEF Reader, Number
    <3>3. CASE s.lastId = -1
        BY <1>2, <3>3, KindsStay
    <3>4. CASE s.lastId \in Nat
      <4>1. s.lastId # -1
          BY <3>4
      <4> QED
          BY <1>2, <3>1, <3>4, <4>1, KindsStay
    <3> QED
        BY <3>2, <3>3, <3>4
  <2>12. HasDone(s)' <=> HasDone(s)
      BY DEF HasDone
  <2>13. turn'[t].gen \notin {"stopped", "torn"} /\ (turn'[t].gen = "finished" => HasDone(s))
      BY <1>7, <2>10
  <2>14. s.lastId = -1 => s.had = {} /\ ~s.extra
      BY <1>9, <2>3 DEF DoneComes, Live
  <2>15. DoneComes(s)'
      BY <2>3, <2>4, <2>9, <2>11, <2>12, <2>13, <2>14 DEF DoneComes
  <2> QED
      BY <2>2, <2>15
<1> QED
    BY <1>8, <1>9

\* The graph of a turn goes on or fails; its generator stops only if nobody reads it.
LEMMA TurnDone ==
    ASSUME IInv, NEW r \in Pages, DoneComes(reader[r]), NEW t \in Turns,
           Node(t) \/ GraphFails(t) \/ Cancel(t)
    PROVE  DoneComes(reader[r])'
<1>1. r \in Readers /\ ServedSound(r, reader[r]) /\ turn \in [Turns -> Turn]
    BY Known DEF Readers, IInv, Typed
<1>2. TurnsGoOn /\ reader'[r] = reader[r]
    BY NodeKeeps, GraphFailsKeeps, CancelKeeps DEF Node, GraphFails, Cancel
<1>3. reader[r].serve = "live" => reader[r].turn \in Turns /\ Live(r, reader[r].turn)
    BY <1>1 DEF ServedSound, OfThread, Live
<1>4. \A u \in Turns : turn'[u].gen = turn[u].gen \/ (u = t /\ Cancel(t))
    BY <1>1 DEF Node, GraphFails, Cancel, Turn
<1>5. Cancel(t) => ~Live(r, t)
    BY <1>1 DEF Cancel
<1> QED
    BY <1>2, <1>3, <1>4, <1>5, DoneStays
LEMMA NextDoneInv == MaxRequests >= 2 /\ IInv /\ DoneInv /\ [Next]_vars => DoneInv'
<1> SUFFICES ASSUME MaxRequests >= 2, IInv, DoneInv, [Next]_vars, backend' = "memory",
                    NEW q \in Pages, reader'[q].cuts <= 1
             PROVE  DoneComes(reader[q])'
    BY DEF DoneInv
<1>1. q \in Readers /\ reader \in [Readers -> Reader] /\ ServedSound(q, reader[q])
    BY Known, Zenon DEF Readers
<1>2. backend = "memory"
    BY DEF Next, vars, AskFor, Ask, Serve, RefuseForeign, ReadTurn, ReadMeta, ReadEvents,
           Fallback, Send, Page, Read, EndOfResponse, Cut, Abort, AskFails, Run, Node,
           EmitToMemory, WriteMeta, WriteEvent, Cancel, GraphFails, Expire, Restart
<1>3. reader[q].cuts <= 1 => DoneComes(reader[q])
    BY <1>2 DEF DoneInv
<1>4. ASSUME reader'[q] = reader[q], turn' = turn PROVE DoneComes(reader[q])'
    BY <1>3, <1>4, DoneActs
<1>5. reader[q] \in Reader /\ reader[q].cuts \in Nat
    BY <1>1 DEF Reader
<1>6. ASSUME NEW r \in Strangers, NEW t \in Turns, AskFor(r, t) PROVE DoneComes(reader[q])'
  <2>1. r # q /\ turn' = turn
      BY <1>6, StreamConstants DEF AskFor
  <2> QED
      BY <1>1, <1>4, <1>6, <2>1 DEF AskFor
<1>7. ASSUME NEW r \in Readers, Ask(r) PROVE DoneComes(reader[q])'
  <2>1. CASE reader[r].cursor = -1
    <3>1. reader'[q].cuts = reader[q].cuts
      <4>1. PICK t \in Turns : t = NextTurn
          BY <1>7, <2>1, NextTurnIsFree DEF Ask, Post
      <4>2. reader'[q] \in {reader[q], Started(q, t)}
          BY <1>1, <1>7, <2>1, <4>1 DEF Ask, Post
      <4> QED
          BY <1>5, <4>2 DEF Started, Reader
    <3> QED
        BY <1>3, <1>7, <2>1, <3>1, PostDone
  <2>2. CASE reader[r].cursor # -1 /\ r # q
      BY <1>1, <1>4, <1>7, <2>2 DEF Ask
  <2>3. CASE reader[r].cursor # -1 /\ r = q
    <3>1. reader'[q].cuts = reader[q].cuts
        BY <1>1, <1>5, <1>7, <2>3 DEF Ask, Reader
    <3> QED
        BY <1>3, <1>7, <2>3, <3>1, AskDone
  <2> QED
      BY <2>1, <2>2, <2>3
<1>8. ASSUME NEW r \in Readers, Serve(r) PROVE DoneComes(reader[q])'
  <2>1. turn' = turn
      BY <1>8 DEF Serve, RefuseForeign, ReadTurn, ReadMeta, ReadEvents, Fallback
  <2>2. CASE r # q
    <3>1. reader'[q] = reader[q]
        BY <1>1, <1>8, <2>2
        DEF Serve, RefuseForeign, ReadTurn, ReadMeta, ReadEvents, Fallback, Respond
    <3> QED
        BY <1>4, <2>1, <3>1, Zenon
  <2>3. CASE r = q
    <3>1. RefuseForeign(q) \/ ReadTurn(q) \/ Fallback(q)
        BY <1>1, <1>2, <1>8, <2>3 DEF Serve, ReadMeta, ReadEvents, ServedSound
    <3>2. \A frames, serve : Respond(q, frames, serve) => reader'[q].cuts = reader[q].cuts
        BY <1>1, <1>5 DEF Respond, Reader
    <3>3. reader'[q].cuts = reader[q].cuts
        BY <3>1, <3>2 DEF RefuseForeign, ReadTurn, Fallback
    <3> QED
        BY <1>3, <3>1, <3>3, RefuseForeignDone, ReadTurnDone, FallbackDone
  <2> QED
      BY <2>2, <2>3
<1>9. ASSUME NEW r \in Pages, Send(r) \/ Page(r) \/ Cut(r) \/ Abort(r) \/ AskFails(r)
      PROVE  DoneComes(reader[q])'
  <2>1. turn' = turn
      BY <1>9 DEF Send, Page, Read, EndOfResponse, Cut, Abort, AskFails
  <2>2. CASE r # q
    <3>1. reader'[q] = reader[q]
        BY <1>1, <1>9, <2>2 DEF Send, Page, Read, EndOfResponse, Cut, Abort, AskFails
    <3> QED
        BY <1>4, <2>1, <3>1, Zenon
  <2>3. CASE Send(q)
      BY <1>1, <2>3, SendDone
  <2>4. CASE Read(q)
    <3>1. reader'[q].cuts = reader[q].cuts
        BY <1>1, <1>5, <2>4 DEF Read, Reader
    <3> QED
        BY <1>3, <2>4, <3>1, ReadDone
  <2>5. CASE EndOfResponse(q) \/ Cut(q) \/ Abort(q)
    <3>1. EndingAtLast(q).cuts = reader[q].cuts /\ EndingFailed(q).cuts = reader[q].cuts
        BY <1>5 DEF EndingAtLast, EndingFailed, Ending, Reader
    <3>2. \A n : /\ [EndingAtLast(q) EXCEPT !.cuts = n].cuts = n
                 /\ [EndingFailed(q) EXCEPT !.cuts = n].cuts = n
        BY <1>5 DEF EndingAtLast, EndingFailed, Ending, Reader
    <3>3. \/ reader'[q] = EndingAtLast(q)
          \/ reader'[q] = [EndingAtLast(q) EXCEPT !.cuts = reader[q].cuts + 1]
          \/ reader'[q] = [EndingFailed(q) EXCEPT !.cuts = reader[q].cuts + 1]
        BY <1>1, <2>5, <3>1 DEF EndOfResponse, Cut, Abort
    <3>4. PICK m : m = reader'[q].cuts /\ m <= 1
        OBVIOUS
    <3>5. m = reader[q].cuts \/ m = reader[q].cuts + 1
        BY <3>1, <3>2, <3>3, <3>4
    <3>6. reader[q].cuts <= 1
        BY <1>5, <3>4, <3>5
    <3> QED
        BY <1>3, <2>5, <3>6, EndingsDone
  <2>6. CASE AskFails(q)
    <3>1. reader'[q].cuts = reader[q].cuts
        BY <1>1, <1>5, <2>6 DEF AskFails, Reader
    <3> QED
        BY <1>3, <2>6, <3>1, AskFailsDone
  <2> QED
      BY <1>9, <2>2, <2>3, <2>4, <2>5, <2>6, Zenon DEF Page
<1>10. ASSUME NEW t \in Turns, Run(t) \/ Cancel(t) \/ GraphFails(t) \/ Expire(t)
       PROVE  DoneComes(reader[q])'
  <2>1. CASE Node(t) \/ Cancel(t) \/ GraphFails(t)
    <3>1. reader'[q] = reader[q]
        BY <2>1 DEF Node, Cancel, GraphFails
    <3> QED
        BY <1>3, <2>1, <3>1, TurnDone
  <2>2. CASE EmitToMemory(t)
    <3>1. reader'[q].cuts = reader[q].cuts
      <4>1. Emit(t, NextKind(t))
          BY <2>2 DEF EmitToMemory
      <4> QED
          BY <1>1, <1>5, <4>1 DEF Emit, Reader
    <3> QED
        BY <1>3, <2>2, <3>1, EmitDone DEF EmitToMemory
  <2>3. ~WriteMeta(t) /\ ~WriteEvent(t) /\ ~Expire(t)
      BY <1>2, KnownTurns DEF WriteMeta, WriteEvent, Expire, TurnSound
  <2> QED
      BY <1>10, <2>1, <2>2, <2>3 DEF Run
<1>11. CASE Restart
  <2>1. reader'[q].cuts \in {reader[q].cuts, reader[q].cuts + 1}
      BY <1>1, <1>5, <1>11 DEF Restart, Reader
  <2>2. reader[q].cuts <= 1
      BY <1>5, <2>1
  <2> QED
      BY <1>3, <1>11, <2>2, RestartDone
<1>12. CASE UNCHANGED vars
    BY <1>4, <1>12 DEF vars
<1> QED
    BY <1>6, <1>7, <1>8, <1>9, <1>10, <1>11, <1>12 DEF Next

\* With the buffer in memory, a page that may ask twice for a message (it asks up to
\* four times) and has read anything of it does not rest, if one response at most has
\* ended early, before it has read a `done', unless it shows that reading has failed.
THEOREM PartsDoNotPass ==
    ASSUME MaxRequests >= 2
    PROVE  Spec => []NoPartPassesForWhole
<1>1. Init => DoneInv
  <2> SUFFICES ASSUME Init, NEW r \in Pages PROVE DoneComes(reader[r])
      BY DEF DoneInv
  <2>1. reader[r] = Resting
      BY DEF Init, Readers
  <2> QED
      BY <2>1 DEF DoneComes, Resting
<1>2. DoneInv => NoPartPassesForWhole
    BY DEF DoneInv, DoneComes, NoPartPassesForWhole, GotDone, HasRead
<1>3. IInv /\ DoneInv /\ [Next]_vars => DoneInv'
    BY NextDoneInv
<1> QED
    BY <1>1, <1>2, <1>3, Invariance, PTL DEF Spec
----------------------------------------------------------------------------
(* One turn for a message *)

Answered(r) ==
    /\ IsFiniteSet(TurnsOf(r))
    /\ Cardinality(TurnsOf(r)) + Unanswered(reader[r]) <= reader[r].sends

\* Steps that start no turn and leave no message unanswered that was answered.
LEMMA AnsweredStays ==
    ASSUME IInv, NEW r \in Pages, Answered(r), TurnsOf(r)' \subseteq TurnsOf(r),
           reader'[r].sends = reader[r].sends,
           Unanswered(reader'[r]) = 1 => Unanswered(reader[r]) = 1
    PROVE  Answered(r)'
<1>1. reader[r].sends \in Nat
    BY Known DEF Readers, Reader
<1>2. /\ IsFiniteSet(TurnsOf(r)') /\ Cardinality(TurnsOf(r)) \in Nat
      /\ Cardinality(TurnsOf(r)') \in Nat
      /\ Cardinality(TurnsOf(r)') <= Cardinality(TurnsOf(r))
    BY FS_Subset, FS_CardinalityType DEF Answered
<1>3. Unanswered(reader'[r]) \in {0, 1} /\ Unanswered(reader[r]) \in {0, 1}
    BY DEF Unanswered
<1>4. Unanswered(reader'[r]) = Unanswered(reader[r])' /\ Cardinality(TurnsOf(r))' = Cardinality(TurnsOf(r)')
    BY DEF Unanswered
<1>5. Cardinality(TurnsOf(r)) + Unanswered(reader[r]) <= reader[r].sends
    BY DEF Answered
<1>6. Cardinality(TurnsOf(r)') + Unanswered(reader'[r]) <= reader[r].sends
    BY <1>1, <1>2, <1>3, <1>5
<1> QED
    BY <1>2, <1>6 DEF Answered, Unanswered

LEMMA TurnsAreKept ==
    ASSUME NEW r, turn' = turn
    PROVE  TurnsOf(r)' \subseteq TurnsOf(r)
BY DEF TurnsOf, OfThread

LEMMA AskAnswered ==
    ASSUME IInv, NEW q \in Pages, Answered(q), NEW r \in Readers, Ask(r)
    PROVE  Answered(q)'
<1>1. q \in Readers /\ reader \in [Readers -> Reader] /\ turn \in [Turns -> Turn]
    BY Known DEF Readers, IInv, Typed
<1>2. reader[q] \in Reader /\ reader[q].sends \in Nat
    BY <1>1 DEF Reader
<1>3. CASE reader[r].cursor # -1
  <2>1. /\ turn' = turn
        /\ reader' = [reader EXCEPT ![r].phase = "open", ![r].serve = "asked",
                                    ![r].requests = @ + 1]
      BY <1>3 DEF Ask
  <2>2. reader'[q].sends = reader[q].sends /\ (reader'[q] = reader[q] \/ reader'[q].phase = "open")
      BY <1>1, <1>2, <2>1 DEF Reader
  <2> QED
      BY <2>1, <2>2, TurnsAreKept, AnsweredStays DEF Unanswered
<1>4. CASE reader[r].cursor = -1
  <2>1. PICK t \in Turns : t = NextTurn /\ turn[t] = NoTurn
      BY <1>4, NextTurnIsFree DEF Ask, Post
  <2> DEFINE begun == [NoTurn EXCEPT !.thread = r, !.graph = "running", !.gen = "running"]
  <2>2. turn' = [turn EXCEPT ![t] = begun] /\ reader' = [reader EXCEPT ![r] = Started(r, t)]
      BY <1>4, <2>1 DEF Ask, Post
  <2>3. begun.thread = r
      BY DEF NoTurn
  <2> HIDE DEF begun
  <2>4. turn'[t].thread = r /\ \A u \in Turns \ {t} : turn'[u] = turn[u]
      BY <1>1, <2>2, <2>3
  <2>5. CASE r # q
    <3>1. TurnsOf(q)' \subseteq TurnsOf(q)
        BY <2>4, <2>5 DEF TurnsOf, OfThread
    <3>2. reader'[q] = reader[q]
        BY <1>1, <2>2, <2>5
    <3> QED
        BY <3>1, <3>2, AnsweredStays
  <2>6. CASE r = q
    <3>1. TurnsOf(q)' \subseteq TurnsOf(q) \cup {t}
        BY <2>4 DEF TurnsOf, OfThread
    <3>2. /\ IsFiniteSet(TurnsOf(q)') /\ Cardinality(TurnsOf(q)) \in Nat
          /\ Cardinality(TurnsOf(q)') \in Nat
          /\ Cardinality(TurnsOf(q)') <= Cardinality(TurnsOf(q)) + 1
      <4>1. /\ IsFiniteSet(TurnsOf(q) \cup {t}) /\ Cardinality(TurnsOf(q)) \in Nat
            /\ Cardinality(TurnsOf(q) \cup {t}) \in Nat
            /\ Cardinality(TurnsOf(q) \cup {t}) <= Cardinality(TurnsOf(q)) + 1
        <5>1. IsFiniteSet(TurnsOf(q)) /\ Cardinality(TurnsOf(q)) \in Nat
            BY FS_CardinalityType DEF Answered
        <5>2. /\ IsFiniteSet(TurnsOf(q) \cup {t})
              /\ Cardinality(TurnsOf(q) \cup {t}) \in
                     {Cardinality(TurnsOf(q)), Cardinality(TurnsOf(q)) + 1}
            BY <5>1, FS_AddElement
        <5> QED
            BY <5>1, <5>2
      <4>2. /\ IsFiniteSet(TurnsOf(q)') /\ Cardinality(TurnsOf(q)') \in Nat
            /\ Cardinality(TurnsOf(q)') <= Cardinality(TurnsOf(q) \cup {t})
          BY <3>1, <4>1, FS_Subset, FS_CardinalityType
      <4> QED
          BY <4>1, <4>2
    <3>3. reader'[q].sends = reader[q].sends /\ reader'[q].phase = "open"
        BY <1>1, <1>2, <2>2, <2>6 DEF Started, Reader
    <3>4. Unanswered(reader[q]) = 1 /\ Unanswered(reader'[q]) = 0
        BY <1>4, <2>6, <3>3 DEF Ask, Unanswered
    <3>5. Cardinality(TurnsOf(q)) + 1 <= reader[q].sends
        BY <3>4 DEF Answered
    <3>6. Cardinality(TurnsOf(q)') + 0 <= reader'[q].sends
        BY <1>2, <3>2, <3>3, <3>5
    <3> QED
        BY <3>2, <3>4, <3>6 DEF Answered, Unanswered
  <2> QED
      BY <2>5, <2>6
<1> QED
    BY <1>3, <1>4

\* The page has sent one message more, which is unanswered.
LEMMA SendAnswered ==
    ASSUME IInv, NEW r \in Pages, Answered(r), Send(r)
    PROVE  Answered(r)'
<1>1. r \in Readers /\ reader \in [Readers -> Reader] /\ reader[r].sends \in Nat
    BY Known DEF Readers, Reader
<1>2. PICK s : /\ s = [Resting EXCEPT !.phase = "asking", !.sends = reader[r].sends + 1]
               /\ s = reader'[r]
    BY <1>1 DEF Send
<1>3. s.sends = reader[r].sends + 1 /\ Unanswered(s) = 1
    BY <1>2 DEF Resting, Unanswered
<1>4. TurnsOf(r)' = TurnsOf(r)
    BY DEF Send, TurnsOf, OfThread
<1>5. /\ IsFiniteSet(TurnsOf(r)) /\ Cardinality(TurnsOf(r)) \in Nat
      /\ Cardinality(TurnsOf(r)) <= reader[r].sends
  <2>1. IsFiniteSet(TurnsOf(r)) /\ Cardinality(TurnsOf(r)) \in Nat
      BY FS_CardinalityType DEF Answered
  <2>2. Unanswered(reader[r]) \in {0, 1}
      BY DEF Unanswered
  <2> QED
      BY <1>1, <2>1, <2>2 DEF Answered
<1>6. Cardinality(TurnsOf(r)) + Unanswered(s) <= s.sends
    BY <1>1, <1>3, <1>5
<1> QED
    BY <1>2, <1>4, <1>5, <1>6 DEF Answered, Unanswered

\* A page that asks again does so with a cursor.
LEMMA EndingAnswered ==
    ASSUME IInv, NEW r \in Pages, Answered(r),
           EndOfResponse(r) \/ Cut(r) \/ Abort(r) \/ AskFails(r)
    PROVE  Answered(r)'
<1>1. r \in Readers /\ reader \in [Readers -> Reader] /\ reader[r] \in Reader
    BY Known DEF Readers
<1>2. reader'[r].sends = reader[r].sends /\ Unanswered(reader'[r]) = 0
  <2>1. ASSUME NEW n, NEW s \in {EndingAtLast(r), [EndingAtLast(r) EXCEPT !.cuts = n]}
        PROVE  s.sends = reader[r].sends /\ Unanswered(s) = 0
    <3>1. /\ s.sends = reader[r].sends /\ s.cursor = reader[r].lastId
          /\ s.phase = (IF MayAskAgain(r, reader[r].lastId) THEN "asking" ELSE "over")
        BY <1>1, <2>1 DEF EndingAtLast, Ending, Reader
    <3> QED
        BY <3>1 DEF Unanswered, MayAskAgain
  <2>2. ASSUME NEW n, NEW s, s = [EndingFailed(r) EXCEPT !.cuts = n]
        PROVE  s.sends = reader[r].sends /\ Unanswered(s) = 0
    <3>1. /\ s.sends = reader[r].sends /\ s.cursor = reader[r].cursor
          /\ s.phase = "asking" => reader[r].cursor # -1
        BY <1>1, <2>2 DEF EndingFailed, Ending, Reader
    <3> QED
        BY <3>1 DEF Unanswered
  <2>3. CASE EndOfResponse(r)
    <3>1. reader'[r] = EndingAtLast(r)
        BY <1>1, <2>3 DEF EndOfResponse
    <3> QED
        BY <2>1, <3>1
  <2>4. CASE Cut(r)
    <3>1. \E n : reader'[r] = [EndingAtLast(r) EXCEPT !.cuts = n]
        BY <1>1, <2>4 DEF Cut
    <3> QED
        BY <2>1, <3>1
  <2>5. CASE Abort(r)
    <3>1. \E n : reader'[r] = [EndingFailed(r) EXCEPT !.cuts = n]
        BY <1>1, <2>5 DEF Abort
    <3> QED
        BY <2>2, <3>1
  <2>6. CASE AskFails(r)
    <3>1. PICK s : s = [reader[r] EXCEPT !.phase = "over", !.failed = TRUE] /\ s = reader'[r]
        BY <1>1, <2>6 DEF AskFails
    <3>2. s.sends = reader[r].sends /\ s.phase = "over"
        BY <1>1, <3>1 DEF Reader
    <3> QED
        BY <3>1, <3>2 DEF Unanswered
  <2> QED
      BY <2>3, <2>4, <2>5, <2>6
<1>3. turn' = turn
    BY DEF EndOfResponse, Cut, Abort, AskFails
<1>4. Unanswered(reader'[r]) = 1 => Unanswered(reader[r]) = 1
    BY <1>2
<1> QED
    BY <1>2, <1>3, <1>4, TurnsAreKept, AnsweredStays

\* What a page has asked for, and how often, is the same in s as it is now.
AsksTheSame(r, s) ==
    s.sends = reader[r].sends /\ s.phase = reader[r].phase /\ s.cursor = reader[r].cursor

\* Servers, readers and turns that go on send and start nothing.
LEMMA OthersAnswered ==
    ASSUME IInv, NEW q \in Pages, Answered(q),
           \/ \E r \in Readers : Serve(r)
           \/ \E r \in Pages : Read(r)
           \/ \E t \in Turns : Run(t) \/ Cancel(t) \/ GraphFails(t) \/ Expire(t)
           \/ Restart
    PROVE  Answered(q)'
<1>1. /\ q \in Readers /\ reader \in [Readers -> Reader] /\ reader[q] \in Reader
      /\ turn \in [Turns -> Turn]
    BY Known DEF Readers, IInv, Typed
<1>0. ASSUME TurnsOf(q)' \subseteq TurnsOf(q), AsksTheSame(q, reader'[q]) PROVE Answered(q)'
    BY <1>0, AnsweredStays DEF AsksTheSame, Unanswered
<1>2. ASSUME reader'[q] = reader[q], turn' = turn PROVE Answered(q)'
    BY <1>0, <1>2, TurnsAreKept DEF AsksTheSame
<1>3. ASSUME NEW r \in Readers, Serve(r) PROVE Answered(q)'
  <2>1. turn' = turn
      BY <1>3 DEF Serve, RefuseForeign, ReadTurn, ReadMeta, ReadEvents, Fallback
  <2>2. CASE r # q
    <3>1. reader'[q] = reader[q]
        BY <1>1, <1>3, <2>2, Zenon
        DEF Serve, RefuseForeign, ReadTurn, ReadMeta, ReadEvents, Fallback, Respond
    <3> QED
        BY <1>2, <2>1, <3>1, Zenon
  <2>3. CASE ReadMeta(q)
    <3>1. PICK s : /\ s = [reader[q] EXCEPT
                             !.complete = log[reader[q].turn].done,
                             !.serve = IF log[reader[q].turn] = NoLog THEN "fallback" ELSE "meta"]
                   /\ s = reader'[q]
        BY <1>1, <2>3 DEF ReadMeta
    <3>2. AsksTheSame(q, s)
        BY <1>1, <3>1 DEF AsksTheSame, Reader
    <3> QED
        BY <1>0, <2>1, <3>1, <3>2, TurnsAreKept
  <2>4. ASSUME NEW frames, NEW serve, Respond(q, frames, serve) PROVE Answered(q)'
    <3>1. PICK s : /\ s = [reader[q] EXCEPT !.wire = @ \o frames, !.serve = serve]
                   /\ s = reader'[q]
        BY <1>1, <2>4 DEF Respond
    <3>2. AsksTheSame(q, s)
        BY <1>1, <3>1 DEF AsksTheSame, Reader
    <3> QED
        BY <1>0, <2>1, <3>1, <3>2, TurnsAreKept
  <2> QED
      BY <1>3, <2>2, <2>3, <2>4 DEF Serve, RefuseForeign, ReadTurn, ReadEvents, Fallback
<1>4. ASSUME NEW r \in Pages, Read(r) PROVE Answered(q)'
  <2>1. turn' = turn /\ r \in Readers
      BY <1>4 DEF Read, Readers
  <2>2. CASE r # q
    <3>1. reader'[q] = reader[q]
        BY <1>1, <1>4, <2>2, Zenon DEF Read
    <3> QED
        BY <1>2, <2>1, <3>1, Zenon
  <2>3. CASE r = q
    <3>1. PICK s : /\ s = [reader[q] EXCEPT
                             !.wire = Tail(reader[q].wire),
                             !.lastId = Head(reader[q].wire).id,
                             !.had = IF /\ Head(reader[q].wire).seq # -1
                                        /\ Head(reader[q].wire).turn = reader[q].turn
                                     THEN @ \cup {Head(reader[q].wire).seq} ELSE @,
                             !.extra = @ \/ (Head(reader[q].wire).seq = -1),
                             !.ended = @ \/ (Head(reader[q].wire).kind = "done")]
                   /\ s = reader'[q]
        BY <1>1, <1>4, <2>3, ZenonT(40) DEF Read
    <3>2. AsksTheSame(q, s)
        BY <1>1, <3>1 DEF AsksTheSame, Reader
    <3>3. AsksTheSame(q, reader'[q])
      <4>1. s = reader'[q]
          BY <3>1
      <4> QED
          BY <3>2, <4>1, Zenon
    <3> QED
        BY <1>0, <2>1, <3>3, TurnsAreKept
  <2> QED
      BY <2>2, <2>3, ZenonT(40)
<1>5. ASSUME \A u \in Turns :
                 /\ turn'[u].thread = turn[u].thread
                 /\ turn'[u].graph # turn[u].graph => turn[u].graph = "running"
      PROVE  TurnsOf(q)' \subseteq TurnsOf(q)
    BY <1>5 DEF TurnsOf, OfThread
<1>6. ASSUME NEW t \in Turns, Node(t) \/ GraphFails(t) \/ Cancel(t) \/ WriteMeta(t) \/ Expire(t)
      PROVE  Answered(q)'
  <2>1. AsksTheSame(q, reader'[q])
      BY <1>6 DEF Node, GraphFails, Cancel, WriteMeta, Expire, AsksTheSame
  <2>2. PICK n : /\ turn' = [turn EXCEPT ![t] = n] /\ n.thread = turn[t].thread
                 /\ n.graph # turn[t].graph => turn[t].graph = "running"
    <3>1. turn[t] \in Turn
        BY <1>1
    <3>2. CASE Node(t)
      <4>1. \E nodes, graph : turn' = [turn EXCEPT ![t] = [@ EXCEPT !.nodes = nodes, !.graph = graph]]
          BY <3>2 DEF Node
      <4>2. \A nodes, graph : [turn[t] EXCEPT !.nodes = nodes, !.graph = graph].thread = turn[t].thread
          BY <3>1 DEF Turn
      <4> QED
          BY <3>2, <4>1, <4>2 DEF Node
    <3>3. CASE GraphFails(t)
      <4>1. turn' = [turn EXCEPT ![t] = [@ EXCEPT !.graph = "failed"]]
          BY <3>3 DEF GraphFails
      <4>2. [turn[t] EXCEPT !.graph = "failed"].thread = turn[t].thread
          BY <3>1 DEF Turn
      <4> QED
          BY <3>3, <4>1, <4>2 DEF GraphFails
    <3>4. ASSUME NEW gen, turn' = [turn EXCEPT ![t] = [@ EXCEPT !.gen = gen]]
          PROVE  \E n : /\ turn' = [turn EXCEPT ![t] = n] /\ n.thread = turn[t].thread
                        /\ n.graph # turn[t].graph => turn[t].graph = "running"
      <4>1. /\ [turn[t] EXCEPT !.gen = gen].thread = turn[t].thread
            /\ [turn[t] EXCEPT !.gen = gen].graph = turn[t].graph
          BY <3>1 DEF Turn
      <4> QED
          BY <3>4, <4>1
    <3>5. CASE Cancel(t) \/ WriteMeta(t)
        BY <3>4, <3>5 DEF Cancel, WriteMeta
    <3>6. CASE Expire(t)
      <4>1. turn' = [turn EXCEPT ![t] = [@ EXCEPT !.whole = FALSE]]
          BY <3>6 DEF Expire
      <4>2. /\ [turn[t] EXCEPT !.whole = FALSE].thread = turn[t].thread
            /\ [turn[t] EXCEPT !.whole = FALSE].graph = turn[t].graph
          BY <3>1 DEF Turn
      <4> QED
          BY <4>1, <4>2
    <3> QED
        BY <1>6, <3>2, <3>3, <3>5, <3>6
  <2>3. TurnsOf(q)' \subseteq TurnsOf(q)
      BY <1>1, <1>5, <2>2
  <2> QED
      BY <1>0, <2>1, <2>3
<1>7. ASSUME NEW t \in Turns, NEW kind, Emit(t, kind) PROVE Answered(q)'
  <2>1. AsksTheSame(q, reader'[q])
    <3>1. \E wire : reader'[q] \in {reader[q], [reader[q] EXCEPT !.wire = wire]}
        BY <1>1, <1>7 DEF Emit
    <3>2. \A wire : AsksTheSame(q, [reader[q] EXCEPT !.wire = wire])
        BY <1>1 DEF AsksTheSame, Reader
    <3> QED
        BY <3>1, <3>2 DEF AsksTheSame
  <2>2. ASSUME NEW u \in Turns
        PROVE  turn'[u].thread = turn[u].thread /\ turn'[u].graph = turn[u].graph
    <3>1. \E whole, sent, gen :
              turn'[u] = [turn[u] EXCEPT !.whole = whole, !.sent = sent, !.gen = gen]
        BY <1>7 DEF Emit
    <3>2. turn[u] \in Turn
        BY <1>1
    <3> QED
        BY <3>1, <3>2 DEF Turn
  <2> QED
      BY <1>0, <1>5, <2>1, <2>2
<1>9. CASE Restart
  <2>1. AsksTheSame(q, reader'[q])
    <3>1. reader'[q] \in {reader[q],
                          [reader[q] EXCEPT !.serve = "over", !.cuts = reader[q].cuts + 1]}
        BY <1>1, <1>9 DEF Restart
    <3> QED
        BY <1>1, <3>1 DEF AsksTheSame, Reader
  <2>2. ASSUME NEW u \in Turns
        PROVE  /\ turn'[u].thread = turn[u].thread
               /\ turn'[u].graph # turn[u].graph => turn[u].graph = "running"
    <3>1. turn[u] \in Turn
        BY <1>1
    <3> QED
        BY <1>9, <3>1 DEF Restart, Turn
  <2> QED
      BY <1>0, <1>5, <2>1, <2>2
<1> QED
    BY <1>3, <1>4, <1>6, <1>7, <1>9 DEF Run, EmitToMemory, WriteEvent

LEMMA NextMessageInv == IInv /\ MessageInv /\ [Next]_vars => MessageInv'
<1> SUFFICES ASSUME IInv, MessageInv, [Next]_vars, NEW q \in Pages PROVE Answered(q)'
    BY DEF MessageInv, Answered
<1>1. Answered(q) /\ q \in Readers /\ reader \in [Readers -> Reader]
    BY Known DEF MessageInv, Answered, Readers
<1>2. ASSUME reader'[q] = reader[q], turn' = turn PROVE Answered(q)'
    BY <1>1, <1>2, TurnsAreKept, AnsweredStays
<1>3. ASSUME NEW r \in Strangers, NEW t \in Turns, AskFor(r, t) PROVE Answered(q)'
  <2>1. r # q
      BY StreamConstants
  <2> QED
      BY <1>1, <1>2, <1>3, <2>1 DEF AskFor
<1>4. ASSUME NEW r \in Pages, Send(r) \/ EndOfResponse(r) \/ Cut(r) \/ Abort(r) \/ AskFails(r)
      PROVE  Answered(q)'
  <2>1. CASE r # q
      BY <1>1, <1>2, <1>4, <2>1 DEF Send, EndOfResponse, Cut, Abort, AskFails
  <2> QED
      BY <1>1, <1>4, <2>1, SendAnswered, EndingAnswered
<1>5. CASE UNCHANGED vars
    BY <1>2, <1>5 DEF vars
<1> QED
    BY <1>1, <1>3, <1>4, <1>5, AskAnswered, OthersAnswered DEF Next, Page

\* However often a page asks again after its responses broke, and whatever fails
\* meanwhile, the server has begun at most one turn for each message of the page.
THEOREM MessagesHaveOneTurn == Spec => []OneTurnPerMessage
<1>1. Init => MessageInv
  <2> SUFFICES ASSUME Init, NEW r \in Pages PROVE Answered(r)
      BY DEF MessageInv, Answered
  <2>1. TurnsOf(r) = {}
      BY DEF Init, TurnsOf, OfThread, NoTurn
  <2>2. reader[r] = Resting
      BY DEF Init, Readers
  <2>3. IsFiniteSet({}) /\ Cardinality({}) = 0
      BY FS_EmptySet
  <2>4. Unanswered(reader[r]) = 0 /\ reader[r].sends = 0
      BY <2>2 DEF Resting, Unanswered
  <2> QED
      BY <2>1, <2>3, <2>4 DEF Answered
<1>2. ASSUME IInv, MessageInv PROVE OneTurnPerMessage
  <2> SUFFICES ASSUME NEW r \in Pages PROVE Cardinality(TurnsOf(r)) <= reader[r].sends
      BY DEF OneTurnPerMessage
  <2>1. Cardinality(TurnsOf(r)) \in Nat /\ reader[r].sends \in Nat
      BY <1>2, Known, FS_CardinalityType DEF MessageInv, Readers, Reader
  <2>2. Unanswered(reader[r]) \in {0, 1}
      BY DEF Unanswered
  <2> QED
      BY <1>2, <2>1, <2>2 DEF MessageInv
<1> QED
    BY <1>1, <1>2, NextMessageInv, Invariance, PTL DEF Spec
=============================================================================
