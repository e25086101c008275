---------------------------- MODULE EventStream ----------------------------
(***************************************************************************)
(* The event streams of the assistant's turns (streaming.py), the buffers   *)
(* they can be replayed from, and the page that reads them                 *)
(* (frontend/src/pages/Assistant.tsx).                                     *)
(*                                                                         *)
(* A turn's graph runs in a thread of its own; a generator turns what it   *)
(* reports into events, writes each to the buffer and then sends it as a   *)
(* frame.  A reader whose connection breaks asks again with the id of the  *)
(* last frame it has: it gets the rest from the buffer and, if the turn is  *)
(* not complete there, a closing message made from the checkpoint of its   *)
(* thread.  Replayed frames are numbered from the reader's id on.          *)
(***************************************************************************)
EXTENDS Integers, FiniteSets, SequencesExt

CONSTANTS
    Pages,       \* open pages; each has a conversation of its own
    Strangers,   \* clients that ask for a turn from another conversation
    Turns,       \* turn ids, in the order they are given out
    Backends,    \* the buffers considered: "memory", "redis"
    Nodes,       \* nodes a graph executes before it has its answer
    KeptTurns,   \* STREAM_EVENT_MAX_TURNS
    KeptEvents,  \* STREAM_EVENT_MAX_EVENTS
    MaxRequests, \* requests a page makes for one message
    Faults,      \* which of "cut", "abort", "error", "restart", "expire" happen
    MaxFaults    \* bound on how many happen

ASSUME StreamConstants ==
    /\ Pages \cap Strangers = {}
    /\ Turns \subseteq Nat \ {0}
    /\ Backends \subseteq {"memory", "redis"}
    /\ {Nodes, KeptTurns, KeptEvents, MaxRequests} \subseteq Nat \ {0}
    /\ Faults \subseteq {"cut", "abort", "error", "restart", "expire"}
    /\ MaxFaults \in Nat

Readers == Pages \cup Strangers

\* A conversation is named by the client it belongs to.
Threads == Readers

VARIABLES
    backend,  \* the configured buffer
    turn,     \* turns: their graph, and the generator of their events
    answer,   \* the turn whose answer the checkpoint of a thread holds, 0 for none
    log,      \* the buffered turns
    order,    \* the buffered turns, the next to be forgotten first
    reader,   \* the page's side and the response it reads
    faults    \* history: faults so far

vars == <<backend, turn, answer, log, order, reader, faults>>

----------------------------------------------------------------------------
(* Values *)

Kinds == {"start", "node", "message", "error", "done"}

\* seq: the number an event was given when it was made, -1 for a frame that was
\* made for a replay only.
Frame == [id : Nat, kind : Kinds, turn : Turns \cup {0}, seq : Nat \cup {-1}]

\* sent: the events made so far, the first one with number 0.
\* whole: history, every event made is in the buffer.
NoTurn == [thread |-> "none", graph |-> "none", nodes |-> 0, gen |-> "none",
           sent |-> <<>>, whole |-> TRUE]

NoLog == [thread |-> "none", seqs |-> {}, done |-> FALSE]

\* serve: what the server does for the response; cursor: the id sent with the
\* request, -1 for none; lastId: the id of the last frame read.
\* ended: it has read `done'.  failed: it shows that the request has failed.
\* had: history, numbers of the turn's events read;
\* extra: history, read a frame made for a replay; cuts: history, its broken
\* responses; sends: history, the messages of the page.
Resting == [phase |-> "idle", turn |-> 0, serve |-> "none",
            complete |-> FALSE, wire |-> <<>>, cursor |-> -1, lastId |-> -1,
            requests |-> 0, ended |-> FALSE, failed |-> FALSE, had |-> {},
            extra |-> FALSE, cuts |-> 0, sends |-> 0]

NextTurn == CHOOSE t \in Turns : turn[t] = NoTurn /\ \A u \in Turns : u < t => turn[u] # NoTurn

Live(r, t) == reader[r].phase = "open" /\ reader[r].serve = "live" /\ reader[r].turn = t

Init ==
    /\ backend \in Backends
    /\ turn = [t \in Turns |-> NoTurn]
    /\ answer = [th \in Threads |-> 0]
    /\ log = [t \in Turns |-> NoLog]
    /\ order = <<>>
    /\ reader = [r \in Readers |-> Resting]
    /\ faults = 0

----------------------------------------------------------------------------
(* A request without a cursor starts a turn *)

Started(r, t) ==
    [reader[r] EXCEPT !.phase = "open", !.turn = t, !.serve = "live",
                      !.requests = @ + 1]

Post(r) ==
    /\ \E t \in Turns : turn[t] = NoTurn
    /\ turn' = [turn EXCEPT ![NextTurn] =
                  [NoTurn EXCEPT !.thread = r, !.graph = "running", !.gen = "running"]]
    /\ reader' = [reader EXCEPT ![r] = Started(r, NextTurn)]

----------------------------------------------------------------------------
(* The graph *)

\* A node returns; the last one leaves the answer in the checkpoint.
Node(t) ==
    /\ turn[t].graph = "running"
    /\ LET last == turn[t].nodes + 1 = Nodes
       IN  /\ turn' = [turn EXCEPT ![t].nodes = @ + 1,
                                   ![t].graph = IF last THEN "answered" ELSE @]
           /\ answer' = IF last THEN [answer EXCEPT ![turn[t].thread] = t] ELSE answer
    /\ UNCHANGED <<backend, log, order, reader, faults>>

----------------------------------------------------------------------------
(* The events of a turn *)

Sent(t, kind) == Cardinality({i \in DOMAIN turn[t].sent : turn[t].sent[i] = kind})

\* Faulty: a graph that fails reports nothing.
NextKindSilent(t) ==
    IF turn[t].sent = <<>> THEN "start"
    ELSE IF Sent(t, "message") = 1 THEN "done"
    ELSE IF Sent(t, "node") < turn[t].nodes THEN "node"
    ELSE IF turn[t].graph = "answered" THEN "message"
    ELSE "none"

NextKind(t) ==
    IF turn[t].sent = <<>> THEN "start"
    ELSE IF Sent(t, "message") = 1 \/ Sent(t, "error") = 1 THEN "done"
    ELSE IF Sent(t, "node") < turn[t].nodes THEN "node"
    ELSE CASE turn[t].graph = "answered"   -> "message"
           [] turn[t].graph = "failed"     -> "error"
           [] OTHER                        -> "none"

\* The memory buffer forgets the turn begun first, Redis the one written to
\* longest ago.
Touched(t) ==
    IF backend = "memory"
    THEN IF t \in Range(order) THEN order ELSE Append(order, t)
    ELSE Append(Remove(order, t), t)

Forgotten(queue) == {queue[i] : i \in 1 .. Len(queue) - KeptTurns}

Newest(seqs) == {s \in seqs : Cardinality({u \in seqs : u > s}) < KeptEvents}

\* The event with number s goes into the buffer, which then forgets what is
\* beyond its limits.
Buffer(t, s, done) ==
    LET queue == Touched(t)
        gone == Forgotten(queue)
        all == log[t].seqs \cup {s}
        kept == IF backend = "redis" THEN Newest(all) ELSE all
        entry == [thread |-> turn[t].thread, seqs |-> kept, done |-> log[t].done \/ done]
    IN  /\ order' = SelectSeq(queue, LAMBDA u : u \notin gone)
        /\ log' = [u \in Turns |-> IF u \in gone THEN NoLog
                                   ELSE IF u = t THEN entry ELSE log[u]]

StaysWhole(t, u, s) ==
    /\ turn[u].whole
    /\ log'[u] # NoLog \/ log[u] = NoLog
    /\ u = t => log'[u].seqs = 0 .. s

\* emit: buffer, then frame.  The generator is finished after `done'.
Emit(t, kind) ==
    LET s == Len(turn[t].sent)
        frame == [id |-> s, kind |-> kind, turn |-> t, seq |-> s]
    IN  /\ Buffer(t, s, kind = "done")
        /\ turn' = [u \in Turns |->
                      [turn[u] EXCEPT
                        !.whole = StaysWhole(t, u, s),
                        !.sent = IF u = t THEN Append(@, kind) ELSE @,
                        !.gen = IF u # t THEN @
                                ELSE IF kind = "done" THEN "finished" ELSE "running"]]
        /\ reader' = [r \in Readers |->
                        IF Live(r, t) THEN [reader[r] EXCEPT !.wire = Append(@, frame)]
                        ELSE reader[r]]

EmitToMemory(t) ==
    /\ backend = "memory"
    /\ turn[t].gen = "running"
    /\ NextKind(t) # "none"
    /\ Emit(t, NextKind(t))
    /\ UNCHANGED <<backend, answer, faults>>

\* Redis gets the turn's entry, with its flag, before the event.
WriteMeta(t) ==
    /\ backend = "redis"
    /\ turn[t].gen = "running"
    /\ NextKind(t) # "none"
    /\ turn' = [turn EXCEPT ![t].gen = "writing"]
    /\ log' = [log EXCEPT ![t].thread = turn[t].thread,
                          ![t].done = @ \/ (NextKind(t) = "done")]
    /\ UNCHANGED <<backend, answer, order, reader, faults>>

WriteEvent(t) ==
    /\ turn[t].gen = "writing"
    /\ Emit(t, NextKind(t))
    /\ UNCHANGED <<backend, answer, faults>>

\* The server notices that nobody reads the response.
Cancel(t) ==
    /\ turn[t].gen = "running"
    /\ \A r \in Readers : ~Live(r, t)
    /\ turn' = [turn EXCEPT ![t].gen = "stopped"]
    /\ UNCHANGED <<backend, answer, log, order, reader, faults>>

----------------------------------------------------------------------------
(* A request with a cursor replays: sse_replay_frames *)

\* Faulty: one event too many is left out.
RestLate(t, cursor) == {s \in log[t].seqs : s > cursor + 1}

Rest(t, cursor) == {s \in log[t].seqs : s > cursor}

\* The number that i - 1 of a set of numbers come before.
Nth(seqs, i) == CHOOSE s \in seqs : Cardinality({u \in seqs : u < s}) = i - 1

\* The buffered events after the cursor, numbered on from it.
Replayed(t, cursor) ==
    LET rest == Rest(t, cursor)
    IN  [i \in 1 .. Cardinality(rest) |->
            [id |-> cursor + i, kind |-> turn[t].sent[Nth(rest, i) + 1], turn |-> t,
             seq |-> Nth(rest, i)]]

Made(id, kind, t) == [id |-> id, kind |-> kind, turn |-> t, seq |-> -1]

LastSent(r) ==
    IF reader[r].wire # <<>> THEN Last(reader[r].wire).id ELSE reader[r].lastId

Respond(r, frames, serve) ==
    reader' = [reader EXCEPT ![r].wire = @ \o frames, ![r].serve = serve]

\* Faulty: whoever knows its id may read a turn.
ForeignNever(r) == FALSE

Foreign(r) ==
    log[reader[r].turn] # NoLog /\ log[reader[r].turn].thread # r

RefuseForeign(r) ==
    /\ reader[r].serve = "asked"
    /\ Foreign(r)
    /\ LET n == reader[r].cursor
       IN  Respond(r, <<Made(n + 1, "error", 0), Made(n + 2, "done", 0)>>, "over")
    /\ UNCHANGED <<backend, turn, answer, log, order, faults>>

\* Faulty: the checkpoint closes a complete turn once more.
AfterRestAlways(complete) == "fallback"

AfterRest(complete) == IF complete THEN "over" ELSE "fallback"

\* read_turn: in memory in one step ...
ReadTurn(r) ==
    /\ backend = "memory"
    /\ reader[r].serve = "asked"
    /\ ~Foreign(r)
    /\ LET t == reader[r].turn
       IN  Respond(r, Replayed(t, reader[r].cursor), AfterRest(log[t].done))
    /\ UNCHANGED <<backend, turn, answer, log, order, faults>>

\* ... from Redis in two.
ReadMeta(r) ==
    /\ backend = "redis"
    /\ reader[r].serve = "asked"
    /\ ~Foreign(r)
    /\ LET t == reader[r].turn
       IN  reader' = [reader EXCEPT ![r].complete = log[t].done,
                                    ![r].serve = IF log[t] = NoLog THEN "fallback"
                                                 ELSE "meta"]
    /\ UNCHANGED <<backend, turn, answer, log, order, faults>>

ReadEvents(r) ==
    /\ reader[r].serve = "meta"
    /\ Respond(r, Replayed(reader[r].turn, reader[r].cursor),
               AfterRest(reader[r].complete))
    /\ UNCHANGED <<backend, turn, answer, log, order, faults>>

\* Incomplete or missing: a closing message from the checkpoint.
Fallback(r) ==
    /\ reader[r].serve = "fallback"
    /\ LET n == LastSent(r)
           t == answer[r]
       IN  Respond(r, IF t = 0
                      THEN <<Made(n + 1, "error", 0), Made(n + 2, "done", 0)>>
                      ELSE <<Made(n + 1, "message", t), Made(n + 2, "done", t)>>,
                   "over")
    /\ UNCHANGED <<backend, turn, answer, log, order, faults>>

----------------------------------------------------------------------------
(* The page *)

\* readStream: one frame.
Read(r) ==
    /\ reader[r].phase = "open"
    /\ reader[r].wire # <<>>
    /\ LET frame == Head(reader[r].wire)
           own == frame.seq # -1 /\ frame.turn = reader[r].turn
       IN  reader' = [reader EXCEPT
                        ![r].wire = Tail(@),
                        ![r].lastId = frame.id,
                        ![r].had = IF own THEN @ \cup {frame.seq} ELSE @,
                        ![r].extra = @ \/ (frame.seq = -1),
                        ![r].ended = @ \/ (frame.kind = "done")]
    /\ UNCHANGED <<backend, turn, answer, log, order, faults>>

\* Faulty: the page asks again although it has no id yet.
MayAskAgainAlways(r, id) == ~reader[r].ended /\ reader[r].requests < MaxRequests

MayAskAgain(r, id) == ~reader[r].ended /\ id # -1 /\ reader[r].requests < MaxRequests

\* The response is over, or broken: ask again with the cursor id, or end.
Ending(r, id, again, failed) ==
    [reader[r] EXCEPT !.phase = IF again THEN "asking" ELSE "over",
                      !.serve = "none", !.wire = <<>>, !.cursor = id, !.lastId = id,
                      !.failed = failed]

\* The end of a response, whole or cut short: readStream returns the last id.
EndingAtLast(r) ==
    Ending(r, reader[r].lastId, MayAskAgain(r, reader[r].lastId), FALSE)

\* Reading has failed: readStream throws, and the ids of this response are lost.
\* With the id of an earlier one the page asks again, whatever it has read; without
\* one it shows that the request has failed.
EndingFailed(r) ==
    LET id == reader[r].cursor
    IN  Ending(r, id, id # -1 /\ reader[r].requests < MaxRequests, id = -1)

Ended(r) ==
    /\ reader[r].wire = <<>>
    /\ \/ reader[r].serve = "over"
       \/ reader[r].serve = "live" /\ turn[reader[r].turn].gen \in {"finished", "stopped"}

EndOfResponse(r) ==
    /\ reader[r].phase = "open"
    /\ Ended(r)
    /\ reader' = [reader EXCEPT ![r] = EndingAtLast(r)]
    /\ UNCHANGED <<backend, turn, answer, log, order, faults>>

\* One request: with a cursor if there is an id, else a new message.
Ask(r) ==
    /\ reader[r].phase = "asking"
    /\ IF reader[r].cursor = -1
       THEN Post(r)
       ELSE /\ reader' = [reader EXCEPT ![r].phase = "open", ![r].serve = "asked",
                                        ![r].requests = @ + 1]
            /\ UNCHANGED turn
    /\ UNCHANGED <<backend, answer, log, order, faults>>

\* send: the page has a message; it is not busy with one.
Send(r) ==
    /\ reader[r].phase \in {"idle", "over"}
    /\ \E t \in Turns : turn[t] = NoTurn
    /\ reader' = [reader EXCEPT ![r] = [Resting EXCEPT !.phase = "asking",
                                                      !.sends = reader[r].sends + 1]]
    /\ UNCHANGED <<backend, turn, answer, log, order, faults>>

\* A stranger asks in its own conversation; it does not matter what becomes of
\* the frames it gets.
AskFor(r, t) ==
    /\ reader[r].phase = "idle"
    /\ turn[t].sent # <<>>
    /\ reader' = [reader EXCEPT ![r] =
                    [Resting EXCEPT !.phase = "asking", !.turn = t, !.cursor = 0,
                                    !.lastId = 0]]
    /\ UNCHANGED <<backend, turn, answer, log, order, faults>>

----------------------------------------------------------------------------
(* Faults *)

Fault(kind) == kind \in Faults /\ faults < MaxFaults /\ faults' = faults + 1

\* The response ends early.
Cut(r) ==
    /\ Fault("cut")
    /\ reader[r].phase = "open"
    /\ reader' = [reader EXCEPT ![r] = [EndingAtLast(r) EXCEPT !.cuts = @ + 1]]
    /\ UNCHANGED <<backend, turn, answer, log, order>>

\* Reading fails.
Abort(r) ==
    /\ Fault("abort")
    /\ reader[r].phase = "open"
    /\ reader' = [reader EXCEPT ![r] = [EndingFailed(r) EXCEPT !.cuts = @ + 1]]
    /\ UNCHANGED <<backend, turn, answer, log, order>>

\* The server cannot be reached: fetch throws, and the page gives up, whatever it
\* has read.
AskFails(r) ==
    /\ Fault("abort")
    /\ reader[r].phase = "asking"
    /\ reader' = [reader EXCEPT ![r].phase = "over", ![r].failed = TRUE]
    /\ UNCHANGED <<backend, turn, answer, log, order>>

GraphFails(t) ==
    /\ Fault("error")
    /\ turn[t].graph = "running"
    /\ turn' = [turn EXCEPT ![t].graph = "failed"]
    /\ UNCHANGED <<backend, answer, log, order, reader>>

\* The server restarts: what is sent is sent, a buffer in memory is empty.
Restart ==
    /\ Fault("restart")
    /\ turn' = [t \in Turns |->
                  [turn[t] EXCEPT
                    !.graph = IF @ = "running" THEN "killed" ELSE @,
                    !.gen = CASE @ = "running" -> "stopped"
                              [] @ = "writing" -> "torn"
                              [] OTHER -> @,
                    !.whole = @ /\ (backend = "redis" \/ turn[t] = NoTurn)]]
    /\ IF backend = "memory"
       THEN log' = [t \in Turns |-> NoLog] /\ order' = <<>>
       ELSE UNCHANGED <<log, order>>
    /\ reader' = [r \in Readers |->
                    IF reader[r].phase = "open"
                    THEN [reader[r] EXCEPT !.serve = "over", !.cuts = @ + 1]
                    ELSE reader[r]]
    /\ UNCHANGED <<backend, answer>>

\* Redis expires what nobody has written to for its time to live.
Expire(t) ==
    /\ Fault("expire")
    /\ backend = "redis"
    /\ log[t] # NoLog
    /\ turn[t].gen \notin {"running", "writing"}
    /\ log' = [log EXCEPT ![t] = NoLog]
    /\ turn' = [turn EXCEPT ![t].whole = FALSE]
    /\ UNCHANGED <<backend, answer, order, reader>>

----------------------------------------------------------------------------
Serve(r) ==
    RefuseForeign(r) \/ ReadTurn(r) \/ ReadMeta(r) \/ ReadEvents(r) \/ Fallback(r)

Page(r) == Read(r) \/ EndOfResponse(r)

Run(t) == Node(t) \/ EmitToMemory(t) \/ WriteMeta(t) \/ WriteEvent(t)

Next ==
    \/ \E r \in Strangers, t \in Turns : AskFor(r, t)
    \/ \E r \in Readers : Ask(r) \/ Serve(r)
    \/ \E r \in Pages : Send(r) \/ Page(r) \/ Cut(r) \/ Abort(r) \/ AskFails(r)
    \/ \E t \in Turns : Run(t) \/ Cancel(t) \/ GraphFails(t) \/ Expire(t)
    \/ Restart

Spec == Init /\ [][Next]_vars

\* Graphs, generators, responses and pages go on by themselves: models and
\* databases are called with timeouts.
Fairness ==
    /\ \A r \in Pages : WF_vars(Ask(r) \/ Serve(r) \/ Page(r))
    /\ \A t \in Turns : WF_vars(Run(t))

FairSpec == Spec /\ Fairness

----------------------------------------------------------------------------
(* Properties *)

Number == Nat \cup {-1}

Turn == [thread : Threads \cup {"none"}, nodes : 0 .. Nodes,
         graph : {"none", "running", "answered", "failed", "killed"},
         gen : {"none", "running", "writing", "finished", "stopped", "torn"},
         sent : Seq(Kinds), whole : BOOLEAN]

Log == [thread : Threads \cup {"none"}, seqs : SUBSET Nat, done : BOOLEAN]

Reader == [phase : {"idle", "asking", "open", "over"}, turn : Turns \cup {0},
           serve : {"none", "live", "asked", "meta", "fallback", "over"},
           complete : BOOLEAN, wire : Seq(Frame), cursor : Number, lastId : Number,
           requests : Nat, ended : BOOLEAN, failed : BOOLEAN, had : SUBSET Nat,
           extra : BOOLEAN, cuts : Nat, sends : Nat]

\* Turns, buffers and readers have values of their kinds.
TypeOK ==
    /\ backend \in Backends
    /\ turn \in [Turns -> Turn]
    /\ answer \in [Threads -> Turns \cup {0}]
    /\ log \in [Turns -> Log]
    /\ order \in Seq(Turns)
    /\ reader \in [Readers -> Reader]
    /\ faults \in Nat

\* No request, with or without a cursor, shows a reader a frame that comes from
\* a turn of another conversation.
ForeignStaysHidden ==
    \A r \in Readers : \A i \in DOMAIN reader[r].wire :
        LET t == reader[r].wire[i].turn
        IN  t # 0 => turn[t].thread = r

\* A reader misses no event of its turn, over all its requests, as long as the
\* buffer has forgotten none and no frame made for a replay has used up a number.
NothingSkipped ==
    \A r \in Readers :
        LET s == reader[r]
        IN  (s.turn # 0 /\ turn[s.turn].whole /\ ~s.extra) =>
                \A n \in s.had : 0 .. n \subseteq s.had

\* Nothing follows a `done' in the response that has it.
DoneEnds ==
    \A r \in Pages : \A i \in DOMAIN reader[r].wire :
        reader[r].wire[i].kind = "done" => i = Len(reader[r].wire)

\* ... which is so with the buffer in memory.
DoneIsLast == backend = "memory" => DoneEnds

OfThread(t, th) == t \in Turns /\ turn[t].graph # "none" /\ turn[t].thread = th

TurnsOf(th) == {t \in Turns : OfThread(t, th)}

\* However often a page asks again, its message is executed by one turn.
OneTurnPerMessage == \A r \in Pages : Cardinality(TurnsOf(r)) <= reader[r].sends

\* The page has read frames, kept or lost.
HasRead(r) == reader[r].had # {} \/ reader[r].extra

GotDone(r) == reader[r].phase = "over" /\ HasRead(r) => reader[r].ended

\* With the buffer in memory a page never shows a part of a turn as all of it: if
\* it has read anything and one of its responses ended early, it goes on until it
\* has read `done'; if reading has failed instead, it says so.
NoPartPassesForWhole ==
    backend = "memory" =>
        \A r \in Pages : reader[r].cuts <= 1 /\ ~reader[r].failed => GotDone(r)

\* A broken response is resumed: one break does not keep a page from `done'.  Not so
\* when reading the first response fails: its ids are lost with it.
BrokenIsResumed ==
    backend = "memory" =>
        \A r \in Pages : reader[r].cuts <= 1 => GotDone(r)

\* Every path ends with `done', whatever breaks.
EveryPathEndsWithDone == \A r \in Pages : GotDone(r)

\* The answer a page is sent, live or replayed, is the answer of its turn.
AnswersOwnTurn ==
    \A r \in Pages : \A i \in DOMAIN reader[r].wire :
        reader[r].wire[i].kind = "message" => reader[r].wire[i].turn = reader[r].turn

\* A page is never left waiting for the end of a response.
NeverWaitsForever ==
    \A r \in Pages : (reader[r].phase = "open") ~> (reader[r].phase = "over")
----------------------------------------------------------------------------
(* Inductive invariant *)

\* TypeOK, but for the order in which turns are forgotten.
Typed ==
    /\ backend \in Backends
    /\ turn \in [Turns -> Turn]
    /\ answer \in [Threads -> Turns \cup {0}]
    /\ log \in [Turns -> Log]
    /\ reader \in [Readers -> Reader]
    /\ faults \in Nat

\* The buffer knows the thread of a turn, and events that have been made; it has
\* all of a whole turn.  An event that is announced has a kind.
TurnSound(t) ==
    /\ turn[t].graph = "none" => turn[t] = NoTurn /\ log[t] = NoLog
    /\ turn[t].graph = "running" => turn[t].nodes < Nodes
    /\ turn[t].gen = "writing" => NextKind(t) # "none" /\ backend = "redis"
    /\ log[t] # NoLog => log[t].thread = turn[t].thread
    /\ log[t].seqs \subseteq 0 .. Len(turn[t].sent) - 1
    /\ turn[t].whole => log[t].seqs = 0 .. Len(turn[t].sent) - 1
    /\ backend = "memory" /\ log[t].done =>
           /\ turn[t].gen = "finished"
           /\ turn[t].sent # <<>> /\ Last(turn[t].sent) = "done"
           /\ Len(turn[t].sent) - 1 \in log[t].seqs

\* The server serves what a request has asked for, and only the reader's own turns.
ServedSound(r, s) ==
    /\ s.phase # "open" => s.serve = "none" /\ s.wire = <<>>
    /\ s.phase = "open" => s.turn # 0
    /\ s.phase = "asking" =>
           /\ s.lastId = s.cursor
           /\ IF s.cursor = -1 THEN s.had = {} /\ ~s.extra /\ ~s.ended /\ s.cuts = 0
              ELSE s.turn # 0
    /\ s.serve \in {"live", "meta"} => OfThread(s.turn, r)
    /\ s.serve \in {"asked", "meta"} => s.wire = <<>> /\ s.lastId = s.cursor
    /\ s.serve = "meta" => backend = "redis"
    /\ r \in Strangers => s.had = {} /\ (s.phase = "asking" => s.cursor # -1)

\* Frames are of the reader's own turns and numbered on from the last one read; a
\* whole turn's have their own numbers, and those up to the last one read are had.
FramesSound(r, s) ==
    /\ \A i \in DOMAIN s.wire :
           /\ s.wire[i].turn # 0 => OfThread(s.wire[i].turn, r)
           /\ s.wire[i].id = s.lastId + i
           /\ turn[s.turn].whole /\ s.wire[i].seq # -1 =>
                  s.wire[i].seq = s.wire[i].id /\ s.wire[i].turn = s.turn
    /\ s.cursor <= s.lastId
    /\ s.serve = "live" => s.lastId + Len(s.wire) + 1 = Len(turn[s.turn].sent)
    /\ r \in Pages /\ s.turn # 0 /\ turn[s.turn].whole /\ ~s.extra =>
           /\ 0 .. s.lastId \subseteq s.had
           /\ \A n \in s.had : 0 .. n \subseteq s.had

IInv ==
    /\ Typed
    /\ \A t \in Turns : TurnSound(t)
    /\ \A th \in Threads : answer[th] # 0 => OfThread(answer[th], th)
    /\ \A r \in Readers : ServedSound(r, reader[r]) /\ FramesSound(r, reader[r])

HasDone(s) == s.ended \/ \E i \in DOMAIN s.wire : s.wire[i].kind = "done"

\* With the buffer in memory a page's first response is live.  If it ends early and
\* the page has read events of its turn and not its `done', the second brings that.
DoneComes(s) ==
    /\ s.requests <= 2
    /\ s.phase = "asking" => s.requests = IF s.cursor = -1 THEN 0 ELSE 1
    /\ s.phase = "open" => s.requests # 0
    /\ s.phase = "open" /\ s.requests = 1 => s.serve \in {"live", "over"}
    /\ s.cuts = 0 =>
           /\ s.phase = "asking" => s.cursor = -1
           /\ s.phase = "open" => s.serve = "live"
    /\ s.serve = "live" =>
           /\ s.requests = 1 /\ s.cuts = 0 /\ s.cursor = -1
           /\ turn[s.turn].gen \notin {"stopped", "torn"}
           /\ turn[s.turn].gen = "finished" => HasDone(s)
    /\ s.requests = 1 => \A i \in DOMAIN s.wire :
           /\ s.wire[i].id < Len(turn[s.turn].sent)
           /\ s.wire[i].kind = turn[s.turn].sent[s.wire[i].id + 1]
    /\ (s.requests = 1 \/ s.serve = "asked") /\ s.turn # 0 /\ ~s.ended =>
           /\ s.lastId < Len(turn[s.turn].sent)
           /\ s.lastId # -1 => turn[s.turn].sent[s.lastId + 1] # "done"
    /\ s.requests = 2 /\ s.serve = "over" => HasDone(s)
    /\ s.phase # "over" /\ s.lastId = -1 => s.had = {} /\ ~s.extra
    /\ s.phase = "over" => s.ended \/ s.failed \/ (s.had = {} /\ ~s.extra)

DoneInv ==
    backend = "memory" => \A r \in Pages : reader[r].cuts <= 1 => DoneComes(reader[r])
\* A message sent to the server no turn has been started for.
Unanswered(s) == IF s.phase = "asking" /\ s.cursor = -1 THEN 1 ELSE 0

MessageInv ==
    \A r \in Pages :
        /\ IsFiniteSet(TurnsOf(r))
        /\ Cardinality(TurnsOf(r)) + Unanswered(reader[r]) <= reader[r].sends
=============================================================================
