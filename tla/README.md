# StockMind in TLA+

TLA+ models of StockMind's backend (`src/backend/app`), the TLC configurations
that check them and the TLAPS proofs about them.

StockMind turns stock, demand and supplier data into replenishment plans,
has people approve them, turns approved plans into purchase orders and places
those with a supplier over HTTP. An LLM agent drafts plans in conversations; a
scheduled scan drafts them too. Calculation and state live in ordinary domain
services over PostgreSQL; around them stand Celery tasks, a LangGraph state graph
with checkpoints and streams of server-sent events. What is modelled here is what a
unit test reaches worst, because it depends on what another transaction, the
supplier, a background task, a lost answer or a crash does meanwhile.

| module | what it is |
|---|---|
| `PurchaseOrder` | one purchase order, its placing attempts, the supplier's side of the calls, receipts, the recovery task |
| `PurchaseLifecycle` | what an order promises, abstractly |
| `PurchaseOrderProofs` | its invariants, with and without overlapping commands, and that it implements `PurchaseLifecycle` |
| `ReplenishmentPlan` | the plans of one warehouse: draft, decide, create orders, supersede, scan, with their advisory locks |
| `PlanLifecycle` | what a plan promises, abstractly |
| `ReplenishmentPlanProofs` | its invariants, with and without overlapping commands, that it implements `PlanLifecycle`, that no circle of commands waits |
| `IdempotencyGuard` | the idempotency records of commands, and clients that send commands again |
| `ScanExecution` | the beat, its queue, the runs of the scheduled scan, their records and alerts |
| `AgentGraph` | the nodes, guards and routes of the assistant's graph, as functions on channel values |
| `AgentSession` | conversations: turns, checkpoints, drafted plans, decisions, resume rows and their task |
| `EventStream` | the events of a turn, the replay buffers, the page that reads and asks again |
| `LineComputation` | how one line of a plan is computed, and what its hash vouches for |
| `IdempotencyGuardProofs`, `ScanExecutionProofs`, `AgentSessionProofs`, `EventStreamProofs`, `LineComputationProofs` | the safety properties of these modules as theorems |
| `NumberFacts` | lemmas about numbers, finite sets and sums that the proofs share |
| `MC...` | instances for TLC, one for each module that is model-checked |

A run is repeated with `tlc -config <configuration> MC<module>`, where the
configuration's name begins with the module's. Section 9 says what the
configurations show that are not among the runs of `PROJECT.json`.

## 1. Inventory

Paths are relative to `src/backend/app`, the page's to `src`.

| component | state it keeps | operations | what is hard |
|---|---|---|---|
| Purchasing (`services/purchase_service.py`, `api/purchase.py`) | `purchase_order`, its lines, `purchase_order_attempt`, `receipt_event`, `stock_quant` | place, query, receive, close, cancel | three transactions around one HTTP call; rows written over a stale read; partial receipts |
| Supplier (`supplier_adapter.py`, `mock_supplier/app.py`) | the supplier's orders by key | create, query | lost requests, late answers, explicit refusals |
| Recovery task (`tasks/recovery.py`) | none; an idempotency key per order version | query stale orders | overlapping runs, races with the write-back |
| Plans (`services/plan_service.py`, `api/plans.py`) | `replenishment_plan`, `plan_line`, the partial unique index of active lines | draft, decide, create orders, supersede | checks before locks, freshness hashes, two lock sequences in one transaction |
| Advisory locks (`services/locks.py`) | transaction locks per (warehouse, product) | acquire in sorted order | order, timeout, who takes none |
| Idempotency guard (`services/idempotency.py`, `services/hashing.py`) | `idempotency_operation` with lease | begin, succeed, fail, replay | takeover of expired leases, rollback inside `begin` |
| Scan (`services/execution_service.py`, `tasks/scan.py`) | `execution`, `execution_item`, `schedule` | run, run for a schedule, rerun | computes before it locks; isolates failures per product |
| Alerts (`services/alert_service.py`) | `alert` | open, close, acknowledge | must close when the cause is gone |
| Algorithms (`services/replenishment.py`, `forecast.py`, `supplier.py`, `rules.py`) | none | resolve rules, forecast, choose a supplier, round a quantity | ties, rounding, boundaries |
| Agent (`agent/graph.py`, `agent/tools.py`, `api/agent.py`) | LangGraph checkpoint per thread | turn, tool call, interrupt, resume | values left by an earlier turn; loop guard |
| Workflow resume (`tasks/resume_trigger.py`) | `workflow_resume` | resume pending rows | unclaimed rows, starvation |
| Event stream (`streaming.py`) | buffers of sent events | send, replay | renumbering, trimming, reconnecting in the middle |
| Assistant page (`frontend/src/pages/Assistant.tsx`) | cursor, request count | post, read, ask again | endings of broken responses |
| Knowledge (`services/knowledge_import_service.py`, `rag/`) | documents, chunks, indexes | import, retrieve, merge rankings | one content under two keys; index I/O |
| Access, audit, governance, configuration, LLM client, MCP server | audit rows, users, settings | checks and reads | - |

How they interact. A command runs in a request handler with a database
session of its own under READ COMMITTED: rows it has read stay in the session
while the database moves on, and there is no version condition on UPDATE. Plans and
purchasing meet in `purchase_order_line` (made from approved plan lines) and in
the inbound quantity, which is part of a line's freshness hash. Decisions write
`workflow_resume`, which a Celery task picks up to resume the conversation. The
supplier is called between two transactions. Beat starts the recovery task and the
scan. Everything that changes a command's premises without taking the advisory
locks (receipts, cancellations, the progress of orders) can fall between its
check and its commit.

Every hazard found, with its line and the properties that would catch it going
wrong, is in `PROJECT.json` under `hazards`.

## 2. PurchaseOrder

No command touches two orders, so the module has one. State: the order row (`po`),
the attempt rows (`attempt`), received quantities, stock and receipt events,
the recovery keys that have succeeded, the sessions (`sess`: how far a command has
got and what it read), and outside the database the requests on the wire and
the supplier's verdicts.

- `place_order` is `PlaceRead` (read and check, before the lock), `PlaceCommit`
  (attempt and `ordering`, committed), `PlaceSend` (the call) and one of
  `WriteBackSuccess`, `WriteBackFailure`, `WriteBackUnknown`.
- `query_unknown_order` is `QueryRead`, `QueryBegin` (latest attempt, guard),
  `QueryAnswer` (the supplier), `QueryCommit`; `QueryReplayed` is a used key.
- `ReceiveGoods` is one step: it locks and re-reads the rows it changes.
- Cancelling and closing are a read, a check and a commit over what was read.
- `Abandon` is a crash, a timeout or a refusal at any point: the open
  transaction is rolled back, what was committed or sent stays.
- `SupplierCreate`, `SupplierReject`, `LoseRequest` are the fate of a request.

Left out: `expected_version` (an optional check that only removes
behaviours), the idempotency guard of handlers (every command uses a fresh key),
elapsed time (an `ordering` order may always be stale), the supplier's order number,
and `recover_stale_ordering`, which nothing calls.

| run | instance | shows |
|---|---|---|
| concurrent | 2 handlers, 1 task run, 2 attempts, one line | what the order and its attempts claim about the supplier is true, and stale sessions do no harm to it |
| receiving | 3 lines (2, 1 and 0 units), 3 events, 2 task runs | receipts and stock agree; received means in full; a recovery key is used once |
| serial | one command at a time, 3 attempts, 2 lines, fairness | the order implements `PurchaseLifecycle`; new keys only after settled attempts; a cancelled order is none at the supplier; unknown is settled |

Beside these runs, `PurchaseOrder_full_receipt.cfg` checks the invariants behind the
theorems (`IInv`, `StockConserved`, `SerialInv`) with one command at a time, a line of
two units, one of one and one of none, and three receipts.

Bounds. Two attempts are one more than a recovery needs to be followed by a
second order; three in the serial run let a failed attempt, a not-found one and a
successful one follow each other. One handler and one task are the smallest race,
the second handler gives two buyers, the second task overlapping beats. A line of two
units can be received in parts, one of one unit only in full, and one of none is complete from
the start (the table admits it: purchasing.py:106). Versions are
not bounded by a constant: they are bounded by the commits the attempts and
receipts allow, except in `PurchaseOrder_recovery_key.cfg`, which looks at the first three.

Fairness (`FairSpec`). A handler goes on or ends: database locks, the adapter's
HTTP client and the server have timeouts. A request arrives or is lost. The task
gets strong fairness for its steps because beat starts it again and again and
each run may fail for reasons of its own: a supplier asked again and again
answers in the end. No buyer is assumed to act.

## 3. ReplenishmentPlan

The plans of one warehouse; locks, active lines and hashes are all per warehouse.
State: the plan rows, a line per plan and product, the orders made from lines
(`none`, `open` while inbound, `gone` when received or cancelled, `back` when a late answer
has made one of those inbound again), a version of each product's other inputs, the products with an open alert, the resume rows and
the sessions with the locks they hold.

A command reads its plan (`PlanRead`, before any lock), reads the lines (and starts
to lock), takes the locks one by one in ascending order (`TakeLock`), checks
under the locks and commits:

- `generate_draft`: `DraftRead`, `DraftCompute`, then `DraftCommit` or `DraftBlocked`;
- `run_scan`: `ScanCompute` (before the locks), `ScanCommit`;
- `decide_plan`: `DecideLines`, then `DecideCheck` and `ApproveCommit`, or `RejectCommit`;
- `create_purchase_orders`: `CreateLines`, `CreateCheck`, `CreateCommit`;
- `supersede_plan`: `SupersedeLines`, `SupersedeRelease`, a second round of locks and
  `DraftCompute` inside `generate_draft`, `SupersedeCommit`.

`InputsChange`, `OrderGone` and `OrderBack` are what happens without the advisory lock:
receipts, supplier terms, the progress and end of orders. `OrderBack` is
`query_unknown_order`: it reads the order (308) and writes the status that follows from the
supplier's answer (341-352) over whatever the row says by then, so a received or cancelled
order counts as inbound again. No command can see that coming, so `KnowsCommitments` speaks
of the orders that have been open all the time (`OpenSince`); `KnowsEveryCommitment`, which
does not, is refuted (section 9). `Abandon` is a lock timeout, a refused check or a
crash. A line's decision hash is abstracted to what can make it differ: the
version of the inputs and the set of plans with an open order of the product.
The computed quantity matters only as zero or not; which lines have quantity zero is a
constant over plans and products (`NeedNothing`), so every assignment is some
instance. Which products are blocked (no rule, no supplier, bad input) is a
free choice. Consecutive reads without a lock in between are one step, except the
status and the lines, between which another commit may fall. Left out:
`expected_version`, idempotency replay (keys are fresh), the wording of changed
fields; rules cannot change while the system runs (only seeding writes them).

| run | instance | shows |
|---|---|---|
| interleaved | 2 handlers, all commands, 1 scan, 1 product, 2 plans | suggestions, orders, decisions and resume rows agree; no empty plan, no order in ignorance of another that stayed open |
| locking | 3 handlers that draft and decide, 2 products | no circle of waiting commands |
| plan_serial | one command at a time, scan, 2 products, inputs change | the plans implement `PlanLifecycle`; orders only on fresh lines; replaced plans have no orders |

`ReplenishmentPlan_released.cfg`, beside these runs, checks the invariants behind the
theorems (`IInv`, `SerialInv`) on the instance of `plan_serial`, and `ApprovedStaysActive`:
an approved line stays an active suggestion until it is ordered or its plan ends. An approved line of quantity zero gets no order and
stays active; the documents promise nothing about it.

Bounds. Two plans are enough for one plan to displace or follow another (a revision and
its original, a scan and a draft); two products for lock order and for a plan
that is approved in part; three handlers let a circle of three form. One change
of inputs per product distinguishes a fresh line from a stale one; `interleaved`
leaves inputs alone and lets only the open orders make a line stale; `plan_serial` changes
both. The `VIEW` of these two runs leaves the alerts out of the states' fingerprints: no
action's guard and none of their properties reads them.
Nothing here is
about liveness, so no fairness is assumed; `CHECK_DEADLOCK FALSE` is set in every
configuration because the bounds on plans, attempts and events end the behaviours.
Handlers are interchangeable in every action, so symmetry over them is sound
for the invariants and step properties it is used with; the liveness runs use
none.

`Overlap = FALSE` starts a command only when no other is under way (and, for
purchase orders, no request is on the wire). It is the
reading under which the documentation's rules about statuses hold, crashes and lost
messages included; with `Overlap = TRUE` the configurations of section 9 break them.

## 4. IdempotencyGuard

One aggregate and the records of one scope of keys (principal, command, aggregate).
`command`, chosen at the start, is one of the six ways in which the services use
the guard: `generate_draft`, `create_purchase_orders`, `decide_plan` (and
`supersede_plan`), `close_`/`cancel_purchase_order`, `import_evidence_document`,
`place_order`. They differ in whether a status is checked before the guard, whether
the advisory lock is taken before or after it, what is hashed (closing hashes the status as
well) and, for placing, in that the record is committed before the supplier is called.

`begin` is `FindNothing` and `Insert`, or `Find`, or `Collide`: the insert that waited
for another one and failed, after which the *whole* transaction is rolled back, the caller's
locks included, before the row is judged (`Verdict`). `Commit` is effect, `succeed` and
commit in one. `CommitAttempt`, `WriteBack` are placing an order; what `_write_back`
marks on the record is lost, because the session that holds the record commits no more, so the
record stays `in_progress` and the order's status alone keeps a second call away.
An import whose document is there already reports it (`LookForDocument`, `Effect`);
one that was missing when looked for and is there at the insert fails on the primary
key (`NoDuplicate`). A client repeats what was not answered for good (`AskAgain`,
`Break`) with the same key and payload, and may send a used key with other contents.

Left out: `fail` and `mark_retryable` reach no record of a committed transaction; several
aggregates, whose keys are other records. The web page itself takes a 202 for a success
and does not ask again; the client here is one that reads the answer's code.

| run | instance | shows |
|---|---|---|
| guard | 2 requests, 2 keys, 2 payloads, 2 faults, every command | one effect per key and one import per content; one call at a time per key; a saved answer is one's own; repeating leads to an answer |

`IdempotencyGuard_three.cfg` has three requests and checks `IInv`, the invariant the theorems
rest on (with `TypeOK`, and that a command whose transaction `begin` rolled back never goes
on). Two requests and a fault make the smallest
collision, and the smallest takeover; two keys and payloads tell a reused key and a
repeated import apart. Fairness: requests end, clients ask again, ten minutes pass. The lease is
looked at only when nobody calls under it: the adapter's timeout is seconds.

## 5. ScanExecution

One schedule of one warehouse. Time is a number of minutes, a cron expression the set of
its due times. `Beat` sends the next due time if no execution has it or a later one, and
sends it again until then; `Take` and `RunNow` start a scan, `Insert` and `Refuse` are
the unique constraint of (schedule, due time), `Compute` computes all products without
locks, `TakeLocks` and `Finish` write lines, items, alerts and the summary. `Crash`
delivers a worker's message again (late acknowledgement), `Fail` ends the scan with an
error. A suggestion is a product with an active line; what becomes of plans is
`ReplenishmentPlan`'s subject.

| run | instance | shows |
|---|---|---|
| scan | 2 workers, 1 administrator, 2 products, one of them raising, 1 due time, 1 crash or error, a changing schedule | a due time is scanned once and not forgotten; suggestions belong to items; failures are isolated |
| early_scan | 1 worker | section 9 |

`ScanExecution_two_slots.cfg` checks `IInv`, with `TypeOK` and `BlockedIsAlerted` in it, with
two due times and every state of the products' data. Two workers are the smallest
double delivery. Fairness: the beat beats, time passes and workers go on; taking a message
and scanning get strong fairness because an administrator's scan and a locked product can
hold them up again and again. A schedule's time zone is not modelled: the code evaluates
every cron expression in UTC and reads `timezone` nowhere.

## 6. AgentGraph and AgentSession

`AgentGraph` has the nodes as functions on the channel values of a checkpoint, the guard
every node but `escalate` runs under (`GuardTrips`, step limit and block), the limit on
equal tool calls (`OverLimit`), and the routes. `AgentSession` runs them: `StartTurn` saves the
message as a checkpoint of its own, a run loads the checkpoint once, and each node saves
values and next node (`Save`), so that two runs of a thread overwrite each other.
`node_draft` is two steps because the domain service commits its plan before the values are
saved. `Wait` interrupts unless a decision came with the resume. `Decide` writes the
resume row; `Trigger`, `TakeRow` and `Finish` are the task, which claims no row.

What a client hears of an interrupt it hears in one of two ways. `told` is what the live
stream says at its end, from the values of its own run. The `done` of a replay
(streaming.py:396), `run_turn` (graph.py:817) and the state of the conversation
(api/agent.py:273) report what the checkpoint says (`Reported`), where `needs_approval` and
`plan_id` remain from an earlier turn. `LiveInterruptMeansWaiting` is about the first, and
for the second the same statement, `ReportsMeanWaiting`, is refuted (section 9). Left out:
what a message says (a free choice among the kinds of request the graph tells apart),
tool results, wording, users.

| run | instance | shows |
|---|---|---|
| agent | 1 thread, 3 turns, 2 plans, one client, one worker, equal calls limited to 1 (2 in the code), 5 steps (10), 1 error, crash or lost checkpoint | calls of the writing tool are bounded; only repetition blocks a thread; who hears of an interrupt from the live stream can wait; a decision ends the wait |

`AgentSession_blocked.cfg` shows on the same instance that a blocked thread calls no writing
tool any more, and checks `IInv` and `BlockIsSeen`. The limits are small so that three turns
reach them; the longest path of a turn has five nodes, so 5 is the tightest step limit at
which a clean turn passes.
`Overlap = FALSE` keeps two runs of one thread apart, as a page that waits for its answer
does. Fairness: handlers run their graph to the end and the beat sends the task every minute.

## 7. EventStream

A turn's graph runs in a thread (`Node`) and a generator makes events of what it reports
(`NextKind`), writes each to the buffer and sends it (`Emit`). With Redis the turn's entry,
with its flag, is written before the event (`WriteMeta`, `WriteEvent`), and read before
the events (`ReadMeta`, `ReadEvents`). The buffers forget turns and events at their
limits and differ in which turn goes first (`Touched`). A request with a cursor replays the rest
(`Replayed`: in the order of their numbers, `Nth`, and numbered on from the reader's id) and, if the turn is not complete there, a
closing message made from the checkpoint (`Fallback`). The page (`Read`, `Ending`,
`Ask`) asks again with the last id it has, four times at most. Faults: a broken
response, a page that gives up, a failing graph, a restarted server, an expired entry.

A response can end early in three ways. Its body just ends (`Cut`): `readStream` returns the
last id and the page asks again. A read is rejected (`Abort`): `readStream` throws, and what
follows depends on the id the page had *before* this response (`EndingFailed`): with one it
asks again from there, without one, which is the page's first response, it shows the error and stops
although it has read frames (Assistant.tsx:167, 172). Or the request itself fails
(`AskFails`), which throws past the loop. In the last two cases the page is `failed`: the user sees an
error. `NoPartPassesForWhole` says that the page never stops in silence with a part of
a turn; that it resumes whatever breaks, as the comment at Assistant.tsx:154 has it, is
`BrokenIsResumed`, refuted (section 9).

| run | instance | shows |
|---|---|---|
| stream | 1 page, 1 stranger, 2 turns, buffer of 1 turn (256 in the code) and 3 events (512), both buffers, 1 fault | nothing of another conversation; nothing skipped; a part of a turn is not taken for the whole; no waiting for ever |

`EventStream_deep.cfg` allows two faults and adds the invariants behind the theorems (`IInv`,
`DoneInv`, `MessageInv`), `TypeOK`, `DoneIsLast` (with the buffer in memory) and
`OneTurnPerMessage`. One turn and three events are the smallest buffer that forgets
turns and events while one is read. `NoPartPassesForWhole` holds for the buffer in memory, the
default, and one response ended early; `DoneIsLast` is about one response, since a page whose
last read fails after `done` may ask once more. Fairness: the server, the graph and the page go on; nobody
has to send a message.

## 8. LineComputation

The computation of one line, `_compute_line`, as four choices and two readings:
`ResolveRules`, `ForecastDemand` (moving average and smoothing, back-tested on the last
`Window` days), `ChooseSupplier`, `ReadStock`, `ReadInbound` (the quantity) and `TakeHash`
(the open orders once more). Other transactions receive goods and cancel orders at any
time, and make orders for the product when its lock is free; a scan holds none. Decimals are
integers in units of `1/Scale`; forecasts are compared as exact fractions over `Unit`.
Rules, terms and demand do not change, because only the seed writes them;
`recompute_line_hash` does not resolve the rules again either. The code hashes the
orders in whatever order the database returns them; here they are a set.

| run | instance | shows |
|---|---|---|
| line | 728 worlds, `Window` 2 (28 in the code), `Scale` 100 (10^12), draft and scan, 2 changes | a line with its hash intact has the quantity that would be computed now; least number of packs; nothing that qualifies comes before what was chosen |

The worlds are all sets of up to three of twelve rules, pairs of suppliers over every rank,
lead time and price, all demands of four days (and of five with one incomplete), and stocks,
minima and packs around every boundary of the need, and values at and beyond the limits of what
the computation accepts (`Illegal`: `MaxOnHand`, `Windows`, `MaxQty`). `Illegal` has the
checks that a row of the tables can fail; those that the tables' own constraints rule out
(a negative review period, a negative safety stock) are left out. Two changes let an order come and go
between the two readings. `LineComputation_invariant.cfg` checks `TypeOK` and `IInv`, the
invariant the theorems rest on. `WorldSound` says what a world may be: the tables' types and
checks, and one supplier relation per product and supplier.

## 9. Where code and documentation part

`findings` in `PROJECT.json` has one run that checks a documented statement and finds it
violated: *early_scan*. `croniter.get_next(now)` is always later than now, and the
beat sends it at once unless an execution has it, so a due time is scanned by the first beat after
the one before it. The comment at the place says "due and not executed".

Each of the following configurations refutes a statement of a document, a comment or
a docstring too, or shows why a property is stated with a condition. Where one lists
several properties, all but one are comments, to be tried in turn.

| configuration | property | what happens |
|---|---|---|
| `PurchaseOrder_races.cfg` | `NewKeyOnlyAfterSettled` | two buyers pass the status check before either locks; the second makes a new attempt while the first is open |
| | `CancelledIsNotOrdered` | a cancellation that read the order before a placement overwrites it |
| | `LegalTransitions` | the mirror image: a cancelled order moves to `ordering` |
| | `FullyReceivedIsReceived` | a query's commit puts a fully received order back to `ordered` |
| | `AtMostOneExternalOrder` | "not found" is answered while the request is still under way; the order is placed again and both arrive |
| `PurchaseOrder_recovery_key.cfg` | `UnknownIsSettled` | stale writes repeat a version, the task's key of that version is spent, the order is never recovered |
| `ReplenishmentPlan_stale_order.cfg` | `OrderedWhenFresh` | goods arrive, without the advisory lock, between hash check and commit |
| `ReplenishmentPlan_revision_deadlock.cfg` | `NoDeadlock` | a revision locks the old plan's products and then the new one's, out of order |
| `ReplenishmentPlan_races.cfg` | `KnowsEveryCommitment` | a late answer of the supplier puts a received or cancelled order back among the open ones between the hash check and the commit of another |
| | `LegalTransitions` | two decisions read `pending_approval`; the second overwrites a terminal status |
| | `ApprovedHasLine` | two approvals exclude each other's lines; the plan is approved with none |
| | `SupersededHasNoOrder` | orders are created while a revision, which looked for orders before it locked, goes on |
| `ReplenishmentPlan_promises.cfg` | `ReplacementIsDelivered` | replacing a conversation's plan writes no resume row |
| | `AlertsCloseOnRecovery` | alerts are closed by the code `*`, compared literally: none ever closes |
| `IdempotencyGuard_promises.cfg` | `RepeatGetsResult` | a command that succeeded and is sent again is refused for its status (or, closing, for a changed payload) instead of answered with the saved result |
| | `PlacedOncePerKey` | a placement that failed is placed again under the same key once the lease is over |
| `ScanExecution_promises.cfg` | `OncePerKey` | administrators' keys are only written down: the same key runs twice |
| | `FailedIsAlerted` | a product that raises opens no alert |
| `ScanExecution_changed_cron.cfg` | `ChangeIsFollowed` | the due time sent under the old schedule has been scanned, early; those of the new schedule before it are passed over |
| `AgentSession_promises.cfg` | `ResumeNeverDrafts` | a resume continues at the node that failed, and that may be `draft` |
| | `ExplainedAsDecided` | the reply names the plan in the values of the thread; the decision may be on another one, say a revision of it |
| | `ReportsMeanWaiting` | the replayed `done`, `run_turn` and the conversation's state report the interrupt of an earlier turn, from values no node has reset |
| `AgentSession_starving.cfg` | `DecisionEndsWait` | as many rows that always fail as the batch is long keep the newer rows waiting |
| `EventStream_promises.cfg` | `EveryPathEndsWithDone` | a closing message made while the turn still runs uses up numbers: a page cut off after its first frame asks on from beyond the turn's own `done` |
| | `BrokenIsResumed` | reading the first response fails after some frames: their ids are lost with it, and the page shows an error instead of asking again |
| | `AnswersOwnTurn` | a page that asks again while its turn runs is sent the answer of the turn before |
| | `DoneEnds` | Redis shows an entry as incomplete, then its last events: `done` comes twice |
| `LineComputation_strict_hash.cfg` | `HashAlwaysVouches` | an order made (for a scan) or cancelled (for a draft) between the two readings of the orders is in the hash and not in the quantity |
| `LineComputation_promises.cfg` | `CheapestIsChosen` | prices are compared as text: 10 comes before 5 |
| | `NoPackTooMany` | the forecast per day is rounded before it is multiplied: an exact need becomes a pack more |
| | `ForecastIsCurrent` | the first gap in the demand ends the series: the forecast rests on the days before it |

Most of them have one of two causes: a status checked before the lock, and a row (or a
checkpoint) overwritten without a version condition.

## 10. Proofs

Every safety property of the runs, step properties and the two refinements included, is
a theorem for every value of the constants. Each rests on an inductive invariant
`IInv`, which stands in the component's module so that TLC checks it (the
configurations named above) and is proved in its `...Proofs` module: `Init` implies it and
every action preserves it, one lemma per action. The assumptions are the modules'
`ASSUME`s: processes of different kinds are different, bounds and quantities are numbers,
products are numbers so that they can be locked in order, and so on. What else a theorem
assumes is in its statement.

*PurchaseOrder.* The properties are not inductive by themselves because a process
acts on what it read in an earlier step. `StaleReadsSound` says what may still be
relied on: an attempt committed but not sent is known to nobody else; an answer
"found" stays true since the supplier never forgets an order; a completed
receipt stays complete since quantities only grow. `OneVerdict` and
`FailedIsRejected` tie the verdicts to the requests. `StockConserved` is stated as the
number of units the receipt events stand for, so that a receipt adds a set to a set and
no sum over events is needed. Under `~Overlap` a second invariant, `SerialInv`, holds: the
one command that is under way has read the rows as they are, an attempt is open
only while it is or while the order says `ordering` or `unknown`, and nothing is on the wire
when no command is. It gives the
serial run's properties, and `LifecycleIsKept`: each step is one of `PurchaseLifecycle`'s or a
stutter.

*ReplenishmentPlan.* `SessionSound` is the heart: the lines a decision read as
valid include every line that is valid still, because lines are only ever released or
excluded; and what `CreateCheck` saw of the open orders stays true to the commit for all that stay open,
because the products are locked, locks are exclusive (`LocksExclusive`) and only a
holder of a product's lock can order it; without the lock orders only end, or come back as
`back`, which is never `open` (`OrderProgress`). The lemma `OthersStaySound` shows that a
step that only shrinks existing rows (`RowsOnlyShrink`) and orders nothing that
another session has locked (`SessionsUndisturbed`) leaves all of this intact; every
action is then shown to be such a step. Under `~Overlap`, `SerialInv` adds that the one
session's rows and hashes are those of the database, and gives the other half of the
properties and the refinement of `PlanLifecycle`. `NobodyWaitsInCircle` assumes that the
products are finitely many and that there are no revisions (which do deadlock, section 9): a
command takes its locks in ascending order (`LocksAscend`), so of the commands in a
circle one holds a product greater than everything the others wait for, and nobody can
wait for it.

*IdempotencyGuard.* A transaction that has begun under a key is alone and found no record
or an ended lease; a succeeded record names the effect committed under it; who
calls the supplier does so under a lease. Commands in one transaction and the placement in
three have invariants of their own (`InOneTransaction`, `InThreeTransactions`). The
theorems need that no request is called `"free"`, the model's name for the lock's state.

*ScanExecution.* The execution a run has inserted is alone in its slot (`HoldsSlotAlone`,
from the unique constraint), and what it computed of a product it holds the lock of is still so
when it writes (`ComputedAsIs`).

*AgentSession.* `Sound` relates the counters in a checkpoint, or in a run's values, to the
place in the graph: a draft is counted after the reads of its scope, steps are
bounded by the node, and only a repetition blocks. This holds although overlapping runs
overwrite each other's checkpoints, because every value saved is sound by itself.
`HandedOverForRepetition` assumes a step limit of at least the longest turn (5;
`agent_max_steps` is 10). With `~Overlap` every call of the writing tool is counted
in the values, in the run under way or lost to a fault (`CallsAreCounted`), and whom the live
stream told of an interrupt has a thread that waits (`ToldIsWaiting`, and with it
`LiveInterruptsWait`). A run under way whose thread is
blocked has the block in its own values (`BlockIsSeen`), so that no node saves values without
it or comes to the writing tool: `BlockedThreadIsInert`.

*EventStream.* `TurnSound`: what is buffered are events of the turn and its thread, all
of them while it is `whole`; in memory, an entry that is done ends with `done`.
`FramesSound`: the frames under way belong to turns of the reader's conversation and are
numbered on from the last one read; those of a whole turn have their own numbers, so
that no gap can come between two responses. `DoneComes` follows a page one of whose responses
ends early: the first response is live, what is read of it is a part of the turn's events
without the `done`, so the second request asks for something that is still to come,
and its answer closes with `done`, from the buffer or the checkpoint, unless that request
or a read fails, which the page shows.
`PartsDoNotPass` assumes that a page may ask twice; it may four times. A page that asks
again has a cursor, so a message that no turn was started for is one just sent
(`MessageInv`); from this `MessagesHaveOneTurn` follows.

*LineComputation.* `Chosen` says that what was read first still determines the choices,
`Counted` that stock and orders counted so far differ from the present ones only by the changes
noticed since. Nothing is assumed about worlds but `WorldSound`. Sums over orders and the
recurrences of the forecasts are functions; `NumberFacts` and the module prove what is needed
of them (that they are whole numbers, and how one order changes a sum) by a least
counterexample instead of the library's induction.

Only model-checked, because they are out of the prover's reach: the liveness properties
(`UnknownIsSettled`, `RetryIsSettled`, `EverySlotScanned`, `DecisionEndsWait`,
`NeverWaitsForever`). Model-checked and not proved so far:
`DoneIsLast` of `EventStream`, and what its `TypeOK` says of the order in which turns are
forgotten.

## 11. Not modelled, and the plan

Proofs to come:

1. `DoneIsLast`: in memory a turn has one `done`, its last event, and whoever has buffered
   it knows that the turn is complete.
2. What the functions of `AgentGraph` promise by themselves: routes end, the guard is final.

Not modelled:

- Retrieval and document parsing (`rag/`), rank fusion and embeddings: work on texts,
  vectors and external indexes. Of the import, what the guard and the primary key decide
  is in section 4.
- The LLM client and the MCP server: an external model, and a read-only adapter.
- Access checks, audit rows, error texts: preconditions and append-only records of the
  commands modelled.
- The governance API beyond schedules, runs and reruns; configuration, logging, metrics.
- The frontend but for the page of section 7; migrations, seed data, evaluation scripts:
  I/O or data without behaviour of their own.
- The supplier's order file, its fault-mode administration and its sleep: what they
  do to a request is a free choice in `PurchaseOrder`.
