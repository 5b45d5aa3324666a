------------------------------- MODULE Orders -------------------------------
(***************************************************************************)
(* The items of a preorder (internal/operations): which variants may be    *)
(* ordered, in which quantities and at what price, and what they add up    *)
(* to.  Settings and preorders are written under the lock of the           *)
(* subscription row; the catalogue changes at any time, without it.        *)
(* Prices are whole cents, quantities whole units of 1/Scale.              *)
(***************************************************************************)
EXTENDS Integers, Sequences, FiniteSets, Functions

CONSTANTS
  Variants, NoVariant,
  Prices, MaxPrice,       \* prices in the catalogue, largest one a preorder accepts
  Scale,                  \* 1000 in the code
  MaxTotal,               \* largest total of a preorder
  MaxItems,               \* 50 in the code
  SettingsBodies,         \* PATCH bodies: [enabled |-> .., rules |-> ..], fields may be Omit
  Baskets,                \* items clients send: sequences of [variant, quantity, price]
  Finals,                 \* final quantities and totals an owner sends
  Omit, MaxOrders

RuleBodies ==
  [variant : Variants \union {NoVariant, Omit}, min : Int \union {Omit}, max : Int \union {Omit},
   step : Int \union {Omit}]

OrdersAssumption ==
  /\ NoVariant \notin Variants /\ Scale \in Nat \ {0} /\ MaxTotal \in Nat /\ MaxItems \in Nat
  /\ Prices \subseteq Nat /\ MaxPrice \in Nat /\ Finals \subseteq Nat /\ MaxOrders \in Nat
  /\ Baskets \subseteq Seq([variant : Variants, quantity : Int, price : Int])
  /\ \A body \in SettingsBodies :
       /\ body.enabled \in BOOLEAN \union {Omit}
       /\ body.rules = Omit \/ body.rules \in Seq(RuleBodies)

VARIABLES
  price,          \* variant -> its price, or Hidden
  enabled, rules, \* settings of the module
  writing,        \* the preorder a transaction is about to write, or Nothing
  orders,         \* preorders: items with line and final quantities, estimated and final total
  shown           \* auxiliary: prices each variant had since the open transaction read it

vars == <<price, enabled, rules, writing, orders, shown>>

Hidden == -1
Nothing == [items |-> <<>>, total |-> 0]
Fields == {"variant", "min", "max", "step"}
Zero(f) == IF f = "variant" THEN NoVariant ELSE 0
-----------------------------------------------------------------------------
\* merge: a list in the body is decoded over the one there was, element by element, and an
\* element keeps the fields it does not name.
Merged(body) ==
  IF body.rules = Omit THEN rules
  ELSE [n \in DOMAIN body.rules |-> [f \in Fields |->
         IF body.rules[n][f] # Omit THEN body.rules[n][f]
         ELSE IF n \in DOMAIN rules THEN rules[n][f] ELSE Zero(f)]]

\* Mutant: the body is validated before it is merged.
ValidatedBody(new, on) == on => new # <<>>

\* validateSettings and configuration, for preorders.
ValidSettings(new, on) ==
  /\ \A n \in DOMAIN new :
       /\ new[n].variant # NoVariant /\ \A k \in 1..(n - 1) : new[k].variant # new[n].variant
       /\ new[n].min > 0 /\ new[n].step > 0 /\ new[n].max >= new[n].min /\ new[n].step <= new[n].max
  /\ on => new # <<>>

\* Mutant: the settings are written without the lock.
ConfigureUnlocked(body) ==
  LET new == Merged(body)
      on == IF body.enabled = Omit THEN enabled ELSE body.enabled IN
  /\ ValidSettings(new, on)
  /\ enabled' = on /\ rules' = new
  /\ UNCHANGED <<price, writing, orders, shown>>

Configure(body) ==
  LET new == Merged(body)
      on == IF body.enabled = Omit THEN enabled ELSE body.enabled IN
  /\ writing = Nothing /\ ValidSettings(new, on)
  /\ enabled' = on /\ rules' = new
  /\ UNCHANGED <<price, writing, orders, shown>>

\* The catalogue changes a variant.
ChangeVariant(v) ==
  /\ \E p \in Prices \union {Hidden} : price' = [price EXCEPT ![v] = p]
  /\ shown' = IF writing = Nothing THEN shown ELSE [shown EXCEPT ![v] = @ \union {price'[v]}]
  /\ UNCHANGED <<enabled, rules, writing, orders>>
-----------------------------------------------------------------------------
RuleFor(v) == {n \in DOMAIN rules : rules[n].variant = v}

\* An item of the catalogue with a rule, in a quantity it allows, at the current price.
ItemAllowed(i) ==
  /\ price[i.variant] # Hidden /\ i.price = price[i.variant] /\ i.price <= MaxPrice
  /\ \E n \in RuleFor(i.variant) :
       /\ i.quantity \in rules[n].min..rules[n].max
       /\ (i.quantity - rules[n].min) % rules[n].step = 0

\* price.Mul(quantity).Round(2), half a cent away from zero.
Line(i) == (2 * i.price * i.quantity + Scale) \div (2 * Scale)

Item(i) ==
  [variant |-> i.variant, quantity |-> i.quantity, price |-> i.price, line |-> Line(i), final |-> Omit]
Total(items) == SumFunction([n \in DOMAIN items |-> items[n].line])

NewOrder(basket) ==
  LET items == [n \in DOMAIN basket |-> Item(basket[n])] IN [items |-> items, total |-> Total(items)]

\* create: checks and prices the items in its transaction.
Price(basket) ==
  /\ writing = Nothing /\ Len(orders) < MaxOrders
  /\ enabled /\ Len(basket) \in 1..MaxItems
  /\ \A n, k \in DOMAIN basket : n # k => basket[n].variant # basket[k].variant
  /\ \A n \in DOMAIN basket : ItemAllowed(basket[n])
  /\ NewOrder(basket).total <= MaxTotal
  /\ writing' = NewOrder(basket) /\ shown' = [v \in Variants |-> {price[v]}]
  /\ UNCHANGED <<price, enabled, rules, orders>>

Commit ==
  /\ writing # Nothing /\ writing' = Nothing
  /\ orders' = Append(orders, [items |-> writing.items, total |-> writing.total, final |-> Omit])
  /\ shown' = [v \in Variants |-> {}]
  /\ UNCHANGED <<price, enabled, rules>>

Rollback ==
  /\ writing # Nothing /\ writing' = Nothing /\ shown' = [v \in Variants |-> {}]
  /\ UNCHANGED <<price, enabled, rules, orders>>

\* mutate: the owner states what was handed over, an item at a time, and the final total;
\* in which statuses is a matter of Requests.
Fulfil(o, n, quantity) ==
  /\ writing = Nothing /\ quantity > 0
  /\ orders' = [orders EXCEPT ![o].items[n].final = quantity]
  /\ UNCHANGED <<price, enabled, rules, writing, shown>>

FinalTotal(o, total) ==
  /\ writing = Nothing
  /\ orders' = [orders EXCEPT ![o].final = total]
  /\ UNCHANGED <<price, enabled, rules, writing, shown>>

Init ==
  /\ price \in [Variants -> Prices \union {Hidden}]
  /\ enabled = FALSE /\ rules = <<>> /\ writing = Nothing /\ orders = <<>>
  /\ shown = [v \in Variants |-> {}]

Next ==
  \/ \E body \in SettingsBodies : Configure(body)
  \/ \E v \in Variants : ChangeVariant(v)
  \/ \E basket \in Baskets : Price(basket)
  \/ Commit \/ Rollback
  \/ \E o \in DOMAIN orders, x \in Finals :
       FinalTotal(o, x) \/ \E n \in DOMAIN orders[o].items : Fulfil(o, n, x)

Spec == Init /\ [][Next]_vars
-----------------------------------------------------------------------------
TypeOK ==
  /\ price \in [Variants -> Prices \union {Hidden}] /\ enabled \in BOOLEAN
  /\ \A o \in DOMAIN orders :
       /\ Len(orders[o].items) \in 1..MaxItems /\ orders[o].total \in 0..MaxTotal
       /\ \A n \in DOMAIN orders[o].items : orders[o].items[n].variant \in Variants

\* Whatever a body leaves out, and whatever the list it is decoded over, the rules that are
\* stored are complete, one to a variant, and an enabled module has one.
RulesAreValid ==
  /\ enabled => rules # <<>>
  /\ \A n \in DOMAIN rules : LET r == rules[n] IN
       /\ r.variant \in Variants /\ {n} = RuleFor(r.variant)
       /\ r.min \in 1..r.max /\ r.step \in 1..r.max

\* A preorder is written in quantities the rules allow as they are when it is committed.
CommittedByTheRules ==
  [][\A o \in DOMAIN orders' \ DOMAIN orders : enabled /\
       \A n \in DOMAIN orders'[o].items : LET i == orders'[o].items[n] IN
         \E r \in RuleFor(i.variant) : \E k \in 0..rules[r].max :
           /\ i.quantity = rules[r].min + k * rules[r].step
           /\ i.quantity <= rules[r].max]_vars

\* It is written at prices the variants had since its transaction read them, though they
\* may have another one by then.
PricedAsShown ==
  [][\A o \in DOMAIN orders' \ DOMAIN orders : \A n \in DOMAIN orders'[o].items :
       orders'[o].items[n].price \in shown[orders'[o].items[n].variant]]_vars

\* The estimated total is what its lines add up to, each within half a cent of price times
\* quantity as ordered, and stays so when the owner states other quantities and a total.
TotalsAddUp ==
  \A o \in DOMAIN orders : LET items == orders[o].items IN
    /\ orders[o].total = SumFunction([n \in DOMAIN items |-> items[n].line])
    /\ \A n \in DOMAIN items :
         2 * (items[n].line * Scale - items[n].price * items[n].quantity) \in (1 - Scale)..Scale
=============================================================================
