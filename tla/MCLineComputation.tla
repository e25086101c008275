------------------------- MODULE MCLineComputation -------------------------
(* Instances of LineComputation for TLC.  A world differs from Plain in one of *)
(* its parts. *)
EXTENDS LineComputation

Rule(id, type, scope, version, from, value) ==
    [id |-> id, type |-> type, scope |-> scope, version |-> version, value |-> value,
     here |-> TRUE, enabled |-> TRUE, from |-> from, to |-> 9]

Number(scope, version, from) == 100 * Len(scope) + 10 * version + from

Safety(scope, version, from, value) ==
    Rule(Number(scope, version, from), "safety_stock", scope, version, from, value)

Policy(scope, version, value) ==
    Rule(1000 + Number(scope, version, 0), "replenishment_policy", scope, version, 0, value)

Relation(id, priority, lead, price, moq, pack) ==
    [id |-> id, priority |-> priority, lead |-> lead, price |-> price, moq |-> moq,
     pack |-> pack, enabled |-> TRUE, from |-> 0, to |-> 9]

Day(d, demand) == [day |-> d, demand |-> demand, complete |-> TRUE]
Series(demands) == [i \in DOMAIN demands |-> Day(i, demands[i])]

Plain ==
    [rules |-> {Safety("global", 1, 0, 3)},
     relations |-> {Relation(1, 1, 1, 5, 0, 2)},
     series |-> Series(<<1, 1, 1, 1>>),
     window |-> 2,
     stock |-> [on_hand |-> 2, reserved |-> 1, version |-> 1],
     orders |-> {[id |-> 1, remaining |-> 2]}]

\* One safety rule in force or not yet, and up to two more of any scope and age.
RulePool ==
    {Safety(s, v, f, IF s = "product" THEN 4 ELSE 5) :
        s \in {"product", "global"}, v \in {1, 2}, f \in {0, 1}}
        \cup {[Safety("global", 1, 0, 7) EXCEPT !.id = 1], Policy("global", 1, 1),
              [Safety("product", 3, 0, 9) EXCEPT !.here = FALSE], Policy("warehouse", 1, 4)}
RuleWorlds == {[Plain EXCEPT !.rules = R] : R \in {S \in SUBSET RulePool : Cardinality(S) <= 3}}

\* Two suppliers of every rank, lead time and price of one digit.
SupplierPool ==
    {Relation(i, p, l, c, 0, 1) : i \in {1, 2}, p \in {1, 2}, l \in {0, 2}, c \in {5, 7}}
        \cup {[Relation(3, 0, 0, 1, 0, 1) EXCEPT !.enabled = FALSE]}
SupplierWorlds ==
    {[Plain EXCEPT !.relations = R] :
        R \in {S \in SUBSET SupplierPool : Cardinality(S) <= 2
                   /\ \A s, t \in S : s.id = t.id => s = t}}

\* Every demand of four days, or of five with a day missing or incomplete.
DemandWorlds ==
    {[Plain EXCEPT !.series = Series(d)] : d \in [1 .. 4 -> 0 .. 2]}
        \cup {[Plain EXCEPT !.series = [Series(<<1, 2, 1, 0, 2>>) EXCEPT ![i].complete = FALSE]] :
                i \in 1 .. 5}

\* Stocks, orders and packs around every boundary of the need.
StockWorlds ==
    {[Plain EXCEPT !.stock.on_hand = h, !.stock.reserved = r, !.orders = o,
                   !.relations = {Relation(1, 1, l, 5, m, k)}] :
        h \in 0 .. 4, r \in 0 .. 2, l \in {0, 4}, m \in {0, 5}, k \in {1, 3},
        o \in {{}, {[id |-> 1, remaining |-> 2]}}}

\* Inputs at their limits and one beyond.
LimitWorlds ==
    {[Plain EXCEPT !.stock.on_hand = MaxOnHand + n] : n \in {0, 1}}
        \cup {[Plain EXCEPT !.rules = {Safety("global", 1, 0, MaxOnHand + n)}] : n \in {0, 1}}
        \cup {[Plain EXCEPT !.window = 4],
              [Plain EXCEPT !.series = Series([i \in 1 .. 4 |-> MaxOnHand + 1])]}

AllWorlds == RuleWorlds \cup SupplierWorlds \cup DemandWorlds \cup StockWorlds \cup LimitWorlds

PlainWorld == {Plain}
\* A forecast of 2/3 a day over three days.
ThirdsWorld == {[Plain EXCEPT !.series = Series(<<0, 0, 0, 1>>), !.window = 3,
                             !.relations = {Relation(1, 1, 1, 5, 0, 1)}]}
\* Two suppliers that differ in price only.
FiveAndTen == {[Plain EXCEPT !.relations = {Relation(1, 1, 1, 5, 0, 2), Relation(2, 1, 1, 10, 0, 2)}]}
PromiseWorlds == DemandWorlds \cup ThirdsWorld \cup FiveAndTen
=============================================================================
