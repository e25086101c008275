-------------------------- MODULE LineComputation --------------------------
(***************************************************************************)
(* How one line of a plan is computed (plan_service._compute_line): the     *)
(* rules that apply (rules), the forecast (forecast), the supplier          *)
(* (supplier), the stock and the open orders (inventory_service), the       *)
(* quantity (replenishment), and the hash that is to tell later whether the *)
(* line still stands.                                                       *)
(*                                                                         *)
(* The rules, the supplier's terms and the demand are written by the seed   *)
(* only.  The stock and the orders are read one after the other, by         *)
(* statements that each see what is committed.  A draft holds the product's *)
(* advisory lock meanwhile and a scan does not; goods are received and      *)
(* orders cancelled without it.                                             *)
(*                                                                         *)
(* Decimals are integers in units of 1/Scale (10^12 in the code); that the  *)
(* code keeps 28 digits until then is left out.  So is an order's status,   *)
(* which is hashed too, and whatever else of the hash cannot change.        *)
(***************************************************************************)
EXTENDS Integers, Sequences, FiniteSetsExt

CONSTANTS
    Worlds,     \* what the database may hold at the start
    Window,     \* days a forecast uses, and days it is tested on: 28 in the code
    Scale,      \* the daily forecast is rounded to 1/Scale
    MaxQty,     \* MAX_ORDER_QTY
    MaxOnHand,  \* MAX_ON_HAND
    Windows,    \* the windows one may ask for: 7, 14 and 30 days
    Kinds,      \* what computes the line: of "draft", "scan"
    Changes,    \* what happens meanwhile: of "receive", "place", "cancel"
    MaxChanges  \* bound on how often

\* Rows as the tables' constraints allow them; a supplier has one relation.
RuleRows ==
    [id : Nat, type : {"safety_stock", "replenishment_policy"},
     scope : {"product", "category", "warehouse", "global"}, version : Nat, value : Nat,
     here : BOOLEAN, enabled : BOOLEAN, from : Int, to : Int]
RelationRows ==
    [id : Nat, priority : Int, lead : Nat, price : Nat, moq : Nat, pack : Nat \ {0},
     enabled : BOOLEAN, from : Int, to : Int]
DayRows == [day : Int, demand : Nat, complete : BOOLEAN]
StockRows == [on_hand : Nat, reserved : Nat, version : Nat]
OrderRows == [id : Nat, remaining : Nat \ {0}]

WorldType ==
    [rules : SUBSET RuleRows, relations : SUBSET RelationRows, series : Seq(DayRows),
     window : Nat, stock : StockRows, orders : SUBSET OrderRows]

WorldSound(w) ==
    /\ w \in WorldType
    /\ IsFiniteSet(w.rules) /\ IsFiniteSet(w.relations) /\ IsFiniteSet(w.orders)
    /\ \A s, t \in w.relations : s.id = t.id => s = t

ASSUME LineConstants ==
    /\ {Window, Scale} \subseteq Nat \ {0}
    /\ {MaxQty, MaxOnHand, MaxChanges} \subseteq Nat
    /\ Windows \subseteq Nat
    /\ Kinds \subseteq {"draft", "scan"}
    /\ Changes \subseteq {"receive", "place", "cancel"}
    /\ \A w \in Worlds : WorldSound(w)

VARIABLES
    world,   \* rules, suppliers, demand, window, stock and orders
    run,     \* the computation
    line,    \* the line, once computed
    changes, \* history: changes so far
    between  \* history: changes between the two readings of the orders

vars == <<world, run, line, changes, between>>

----------------------------------------------------------------------------
(* Rules: rules.resolve_rule *)

\* The business day is day 0; a rule or a relation is good from .. to.
Covers(r) == r.enabled /\ r.from <= 0 /\ 0 <= r.to

ScopeOrder == <<"product", "category", "warehouse", "global">>

\* Rules of a type whose scope names this product, its category or warehouse.
Candidates(type, scope) ==
    {r \in world.rules : r.type = type /\ r.scope = scope /\ r.here /\ Covers(r)}

None == [scope |-> "none", value |-> 0]
Conflict == [scope |-> "conflict", value |-> 0]

NewestIn(rules) == {r \in rules : \A s \in rules : s.version <= r.version}

\* Faulty: the newest rule is looked for before the rules in force.
WinnersOfAll(type, scope) ==
    {r \in NewestIn({s \in world.rules : s.type = type /\ s.scope = scope /\ s.here}) :
        Covers(r)}

Winners(type, scope) == NewestIn(Candidates(type, scope))

\* The first scope with a candidate decides; two newest ones are a conflict.
ResolveRule(type) ==
    LET levels == {i \in DOMAIN ScopeOrder : Winners(type, ScopeOrder[i]) # {}}
        winners == Winners(type, ScopeOrder[Min(levels)])
    IN  IF levels = {} THEN None
        ELSE IF Cardinality(winners) = 1 THEN CHOOSE r \in winners : TRUE
        ELSE Conflict

----------------------------------------------------------------------------
(* Forecast: forecast.forecast_daily_demand *)

\* Complete days without a gap, from the first day of the series on.
Consecutive(series) ==
    LET good(n) == \A i \in 1 .. n :
                       /\ series[i].complete
                       /\ i > 1 => series[i].day = series[i - 1].day + 1
    IN  SubSeq(series, 1, Max({n \in 0 .. Len(series) : good(n)}))

Demands(days, first) == [i \in 1 .. Window |-> days[first + i - 1].demand]

\* 10 to the power i - 1.
Tens[i \in 1 .. Window] == IF i = 1 THEN 1 ELSE 10 * Tens[i - 1]

\* Both forecasts as numerators over Unit: weights 1 .. Window, and smoothing
\* with 0.3 from the first demand on.
WeightSum == (Window * (Window + 1)) \div 2
Unit == WeightSum * Tens[Window]

Wma(d) == Tens[Window] * SumFunction([i \in 1 .. Window |-> i * d[i]])

Smoothed(d) ==
    LET state[i \in 1 .. Window] ==
            IF i = 1 THEN d[1] ELSE 3 * d[i] * Tens[i - 1] + 7 * state[i - 1]
    IN  state

Ses(d) == WeightSum * Smoothed(d)[Window]

Algorithms == {"wma_28_v1", "ses_a03_v1"}

ForecastOf(algo, d) == IF algo = "wma_28_v1" THEN Wma(d) ELSE Ses(d)

Distance(a, b) == IF a > b THEN a - b ELSE b - a

ValidationDays(days) == Len(days) - Window + 1 .. Len(days)

\* What an algorithm gets wrong on the last Window days, each forecast from the
\* Window days before it.
ErrorSum(algo, days) ==
    SumFunction([i \in ValidationDays(days) |->
                    Distance(ForecastOf(algo, Demands(days, i - Window)), days[i].demand * Unit)])

Actual(days) == SumFunction([i \in ValidationDays(days) |-> days[i].demand])

\* The WAPE of either algorithm adds up the errors of both.
WapeSum(algo, days) ==
    IF Actual(days) > 0 THEN SumFunction([a \in Algorithms |-> ErrorSum(a, days)]) ELSE 0

\* Faulty: the algorithms in the order of their names.
PrecedesByName(a, b, days) == a = "ses_a03_v1"

\* (WAPE, MAE, index); the divisors are the same for both algorithms.
Precedes(a, b, days) ==
    \/ WapeSum(a, days) < WapeSum(b, days)
    \/ /\ WapeSum(a, days) = WapeSum(b, days)
       /\ \/ ErrorSum(a, days) < ErrorSum(b, days)
          \/ ErrorSum(a, days) = ErrorSum(b, days) /\ a = "wma_28_v1"

SelectAlgorithm(days) ==
    CHOOSE a \in Algorithms : \A b \in Algorithms \ {a} : Precedes(a, b, days)

\* ROUND_HALF_UP to 1/Scale.
Rounded(numerator) == (2 * numerator * Scale + Unit) \div (2 * Unit)

Fallback == [algorithm |-> "none", daily |-> 0, upto |-> 0]

Forecast(series) ==
    LET days == Consecutive(series)
        algo == SelectAlgorithm(days)
    IN  IF Len(days) < 2 * Window THEN Fallback
        ELSE [algorithm |-> algo,
              daily |-> Rounded(ForecastOf(algo, Demands(days, Len(days) - Window + 1))),
              upto |-> days[Len(days)].day]

----------------------------------------------------------------------------
(* Supplier: supplier.select_supplier *)

Eligible(s) ==
    Covers(s) /\ s.moq >= 0 /\ s.lead >= 0 /\ s.pack > 0 /\ s.price >= 0

\* Prices are compared as strings of digits; prices here are below 100.
FirstDigit(n) == IF n < 10 THEN n ELSE n \div 10

StringLess(m, n) ==
    FirstDigit(m) < FirstDigit(n) \/ (FirstDigit(m) = FirstDigit(n) /\ m < n)

\* business_priority, lead_days, str(price), supplier_id
Before(s, t) ==
    \/ s.priority < t.priority
    \/ s.priority = t.priority /\ s.lead < t.lead
    \/ s.priority = t.priority /\ s.lead = t.lead /\ StringLess(s.price, t.price)
    \/ /\ s.priority = t.priority /\ s.lead = t.lead /\ s.price = t.price
       /\ s.id < t.id

NoSupplier == [id |-> 0, lead |-> 0, moq |-> 0, pack |-> 1]

SelectSupplier(relations) ==
    LET eligible == {s \in relations : Eligible(s)}
    IN  IF eligible = {} THEN NoSupplier
        ELSE CHOOSE s \in eligible : \A t \in eligible \ {s} : Before(s, t)

----------------------------------------------------------------------------
(* Quantity: replenishment.compute_replenishment *)

\* get_inbound_remaining
InboundOf(orders) == SumFunction([o \in orders |-> o.remaining])
Inbound == InboundOf(world.orders)

CeilDiv(a, b) == (a + b - 1) \div b

\* Faulty: always one more pack.
PacksOneMore(units, pack) == units \div (pack * Scale) + 1

Packs(units, pack) == CeilDiv(units, pack * Scale)

PlanningWindow(c) == Max({world.window, c.supplier.lead + c.review})

\* target_stock - available - inbound, in units of 1/Scale
Net(c, stock, inbound) ==
    c.forecast.daily * PlanningWindow(c)
        + (c.safety - (stock.on_hand - stock.reserved) - inbound) * Scale

Quantity(c, stock, inbound) ==
    LET net == Net(c, stock, inbound)
    IN  IF net <= 0 THEN 0
        ELSE Packs(Max({net, c.supplier.moq * Scale}), c.supplier.pack) * c.supplier.pack

\* What tables' constraints exclude, negative values and packs of none, is not asked.
Illegal(c, stock, inbound) ==
    \/ stock.reserved > stock.on_hand
    \/ \E n \in {stock.on_hand, stock.reserved, c.safety} : n > MaxOnHand
    \/ c.forecast.daily > MaxOnHand * Scale
    \/ world.window \notin Windows
    \/ Quantity(c, stock, inbound) > MaxQty

----------------------------------------------------------------------------
(* The computation: _compute_line *)

NoChoice == [safety |-> 0, review |-> 0, forecast |-> Fallback, supplier |-> NoSupplier]
NoStock == [on_hand |-> 0, reserved |-> 0, version |-> 0]
NoLine == [qty |-> 0, choice |-> NoChoice, stock |-> NoStock, inbound |-> 0,
           hash |-> <<NoStock, {}>>]

Init ==
    /\ world \in Worlds
    /\ run \in [step : {"rules"}, code : {"none"}, choice : {NoChoice},
                stock : {NoStock}, inbound : {0}, kind : Kinds]
    /\ line = NoLine
    /\ changes = 0
    /\ between = {}

At(step) == run.step = step

\* Blocked: an alert is opened with the code, and there is no line.
Block(code) == run' = [run EXCEPT !.step = "blocked", !.code = code]

Go(step, choice) == run' = [run EXCEPT !.step = step, !.choice = choice]

ResolveRules ==
    LET safety == ResolveRule("safety_stock")
        policy == ResolveRule("replenishment_policy")
    IN  /\ At("rules")
        /\ IF safety = None THEN Block("no_rule")
           ELSE IF Conflict \in {safety, policy} THEN Block("rule_conflict")
           ELSE Go("forecast", [run.choice EXCEPT !.safety = safety.value,
                                                  !.review = policy.value])
        /\ UNCHANGED <<world, line, changes, between>>

ForecastDemand ==
    /\ At("forecast")
    /\ Go("supplier", [run.choice EXCEPT !.forecast = Forecast(world.series)])
    /\ UNCHANGED <<world, line, changes, between>>

ChooseSupplier ==
    /\ At("supplier")
    /\ Go("stock", [run.choice EXCEPT !.supplier = SelectSupplier(world.relations)])
    /\ UNCHANGED <<world, line, changes, between>>

\* get_quant_summary
ReadStock ==
    /\ At("stock")
    /\ run' = [run EXCEPT !.step = "inbound", !.stock = world.stock]
    /\ UNCHANGED <<world, line, changes, between>>

\* get_inbound_remaining, then the quantity; a missing supplier is reported last.
ReadInbound ==
    /\ At("inbound")
    /\ IF Illegal(run.choice, run.stock, Inbound) THEN Block("illegal_input")
       ELSE IF run.choice.supplier = NoSupplier THEN Block("no_supplier")
       ELSE run' = [run EXCEPT !.step = "hash", !.inbound = Inbound]
    /\ UNCHANGED <<world, line, changes, between>>

\* Faulty: the stock is read once more for the hash.
HashStockAgain(stock) == <<world.stock, world.orders>>

\* build_line_hash_inputs: the stock as read, the orders as they are now.
Hash(stock) == <<stock, world.orders>>

\* _inbound_snapshot and the hash.
TakeHash ==
    /\ At("hash")
    /\ line' = [qty |-> Quantity(run.choice, run.stock, run.inbound),
                choice |-> run.choice, stock |-> run.stock, inbound |-> run.inbound,
                hash |-> Hash(run.stock)]
    /\ run' = [run EXCEPT !.step = "done"]
    /\ UNCHANGED <<world, changes, between>>

----------------------------------------------------------------------------
(* Other transactions *)

Change(kind) ==
    /\ kind \in Changes
    /\ changes < MaxChanges
    /\ changes' = changes + 1
    /\ between' = IF At("hash") THEN between \cup {kind} ELSE between

\* One unit of an order is received: stock and order change together.
Receive(o) ==
    /\ Change("receive")
    /\ world' = [world EXCEPT
                    !.stock.on_hand = @ + 1,
                    !.stock.version = @ + 1,
                    !.orders = (@ \ {o}) \cup
                        {p \in {[o EXCEPT !.remaining = o.remaining - 1]} : p.remaining > 0}]
    /\ UNCHANGED <<run, line>>

\* create_purchase_orders for another line of the product, under its lock.
Place ==
    /\ Change("place")
    /\ run.kind = "draft" => run.step \in {"done", "blocked"}
    /\ world' = [world EXCEPT !.orders = @ \cup {[id |-> 10 + changes, remaining |-> 2]}]
    /\ UNCHANGED <<run, line>>

Cancel(o) ==
    /\ Change("cancel")
    /\ world' = [world EXCEPT !.orders = @ \ {o}]
    /\ UNCHANGED <<run, line>>

Compute ==
    ResolveRules \/ ForecastDemand \/ ChooseSupplier \/ ReadStock \/ ReadInbound \/ TakeHash

Next ==
    \/ Compute
    \/ Place
    \/ \E o \in world.orders : Receive(o) \/ Cancel(o)

Spec == Init /\ [][Next]_vars

----------------------------------------------------------------------------
(* Properties *)

Steps == {"rules", "forecast", "supplier", "stock", "inbound", "hash", "done", "blocked"}
Codes == {"none", "no_rule", "rule_conflict", "illegal_input", "no_supplier"}

\* Stock and orders stay what rows can be, and a line is only there when computed.
TypeOK ==
    /\ run.step \in Steps
    /\ run.code \in Codes
    /\ line.qty \in 0 .. MaxQty
    /\ line # NoLine => At("done")
    /\ \A o \in world.orders : o.remaining \in Nat \ {0}
    /\ changes \in 0 .. MaxChanges

Done == At("done")

Stands == Done /\ line.hash = Hash(world.stock)
UpToDate == line.qty = Quantity(line.choice, world.stock, Inbound)

\* Whatever is received, ordered and cancelled while the line is computed and
\* afterwards: as long as its hash is unchanged, its quantity is what would be
\* computed now (create_purchase_orders goes by the hash alone).  Only an order
\* placed or cancelled between the two readings of the orders, the one for the
\* quantity and the one for the hash, can go unnoticed.
HashVouchesForQuantity == Stands /\ between \cap {"place", "cancel"} = {} => UpToDate

\* The same without the exception, and not so: see Place for a scan and Cancel.
HashAlwaysVouches == Stands => UpToDate

Covered(qty) ==
    qty * Scale >= Net(line.choice, line.stock, line.inbound) /\ qty >= line.choice.supplier.moq

\* The quantity is the least whole number of packs that covers the need and the
\* minimum, and nothing is ordered without need.
OrderIsLeast ==
    LET pack == line.choice.supplier.pack
        need == Net(line.choice, line.stock, line.inbound) > 0
    IN  Done => /\ line.qty = 0 <=> ~need
                /\ line.qty % pack = 0
                /\ need => Covered(line.qty) /\ ~Covered(line.qty - pack)

InForce(type) == {r \in world.rules : r.type = type /\ r.here /\ Covers(r)}

Level(r) == CHOOSE i \in DOMAIN ScopeOrder : ScopeOrder[i] = r.scope

\* r gives way to s: s is for fewer products, or as many and newer or as new.
Yields(r, s) ==
    Level(s) < Level(r) \/ (Level(s) = Level(r) /\ s.version >= r.version)

RuleIsFirst(type, value) ==
    \E r \in InForce(type) : r.value = value /\ \A s \in InForce(type) \ {r} : ~Yields(r, s)

SupplierIsFirst ==
    \A t \in {s \in world.relations : Eligible(s)} :
        /\ line.choice.supplier.priority <= t.priority
        /\ line.choice.supplier.priority = t.priority => line.choice.supplier.lead <= t.lead

ForecastIsFirst ==
    line.choice.forecast # Fallback =>
        \A a \in Algorithms :
            LET days == Consecutive(world.series)
            IN  ErrorSum(line.choice.forecast.algorithm, days) <= ErrorSum(a, days)

\* A line rests on the rules, the supplier and the algorithm that nothing else
\* that qualifies comes before: no narrower or newer rule in force, no supplier of
\* better rank or shorter lead time, no algorithm with a smaller error.
ChoicesAreFirst ==
    Done => /\ RuleIsFirst("safety_stock", line.choice.safety)
            /\ InForce("replenishment_policy") # {} =>
                   RuleIsFirst("replenishment_policy", line.choice.review)
            /\ SupplierIsFirst
            /\ ForecastIsFirst

\* Documented, and not so: among equal rank and lead time the cheapest is chosen.
CheapestIsChosen ==
    Done => \A t \in {s \in world.relations : Eligible(s)} :
        (t.priority = line.choice.supplier.priority /\ t.lead = line.choice.supplier.lead)
            => line.choice.supplier.price <= t.price

\* Documented, and not so: the forecast uses the latest complete days.
ForecastIsCurrent ==
    Done /\ line.choice.forecast # Fallback =>
        line.choice.forecast.upto = Max({d.day : d \in {world.series[i] : i \in DOMAIN world.series}})

ExactNet ==
    LET d == Demands(Consecutive(world.series), Len(Consecutive(world.series)) - Window + 1)
    IN  ForecastOf(line.choice.forecast.algorithm, d) * PlanningWindow(line.choice)
          + (line.choice.safety - (line.stock.on_hand - line.stock.reserved) - line.inbound) * Unit

\* Documented, and not so: nothing is rounded before the packs are counted.
NoPackTooMany ==
    Done /\ line.choice.forecast # Fallback /\ line.qty > line.choice.supplier.pack =>
        LET less == line.qty - line.choice.supplier.pack
        IN  less < line.choice.supplier.moq \/ less * Unit < ExactNet

----------------------------------------------------------------------------
(* The invariant that makes the properties above inductive *)

ForecastType == [algorithm : Algorithms \cup {"none"}, daily : Int, upto : Int]

ChoiceType ==
    [safety : Nat, review : Nat, forecast : ForecastType, supplier : RelationRows \cup {NoSupplier}]

RunType ==
    [step : Steps, code : Codes, choice : ChoiceType, stock : StockRows, inbound : Int,
     kind : {"draft", "scan"}]

LineType ==
    [qty : 0 .. MaxQty, choice : ChoiceType, stock : StockRows, inbound : Int,
     hash : StockRows \X SUBSET OrderRows]

\* Every variable holds what the rows and the steps make of it.
Typed ==
    /\ WorldSound(world)
    /\ run \in RunType
    /\ line \in LineType
    /\ changes \in 0 .. MaxChanges
    /\ line # NoLine => At("done")

\* What has been chosen is what the rules, the series and the relations give.
Chosen ==
    /\ run.step \notin {"rules", "blocked"} =>
           /\ ResolveRule("safety_stock") \notin {None, Conflict}
           /\ ResolveRule("replenishment_policy") # Conflict
           /\ run.choice.safety = ResolveRule("safety_stock").value
           /\ run.choice.review = ResolveRule("replenishment_policy").value
    /\ run.step \notin {"rules", "forecast", "blocked"} =>
           run.choice.forecast = Forecast(world.series)
    /\ run.step \notin {"rules", "forecast", "supplier", "blocked"} =>
           run.choice.supplier = SelectSupplier(world.relations)

\* Nobody but a receipt has touched the orders since they were read, and none did.
Unnoticed(stock) ==
    between \cap {"place", "cancel"} = {} /\ stock.version = world.stock.version

\* The stock read is the present one or older, and as long as it is the present
\* one the orders counted are those hashed.
Counted ==
    /\ run.step \in {"inbound", "hash", "done"} => run.stock.version <= world.stock.version
    /\ run.step \in {"hash", "done"} =>
           /\ ~Illegal(run.choice, run.stock, run.inbound)
           /\ run.choice.supplier # NoSupplier
    /\ At("hash") /\ Unnoticed(run.stock) => run.inbound = Inbound
    /\ Done =>
           /\ line.choice = run.choice /\ line.stock = run.stock /\ line.inbound = run.inbound
           /\ line.qty = Quantity(run.choice, run.stock, run.inbound)
           /\ line.hash[1] = run.stock
           /\ Unnoticed(run.stock) => line.inbound = InboundOf(line.hash[2])

IInv == Typed /\ Chosen /\ Counted
=============================================================================
