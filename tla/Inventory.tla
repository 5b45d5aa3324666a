----------------------------- MODULE Inventory -----------------------------
(***************************************************************************)
(* internal/inventory: movements of one product variant of a business and  *)
(* the stock levels they add up to.  A call is a transaction of several    *)
(* statements under READ COMMITTED: what a statement writes is seen by     *)
(* others at COMMIT, until then its rows and index keys are locked, and a  *)
(* statement that meets them waits.                                        *)
(*                                                                         *)
(* tx[p].todo lists the statements the handler p has yet to execute; the   *)
(* three operations differ in these lists.                                 *)
(***************************************************************************)
EXTENDS Integers, Sequences, FiniteSets

CONSTANTS
  Handlers,       \* concurrent requests
  Ids,            \* identifiers gen_random_uuid may return
  Keys, Users,    \* Idempotency-Key values, members of the business
  Locations,      \* inventory locations that exist
  Default,        \* the location named Default, made when it is first needed
  Unspecified,    \* a request without location_id
  Rest,           \* unit cost, reference and notes
  CreateForms, EditForms,     \* request bodies clients send
  MaxLevel        \* largest value of numeric(12,3), in the model's unit

Places == Locations \union {Default}
InTypes == {"IN_PURCHASE", "IN_PRODUCTION", "IN_ADJUSTMENT"}
OutTypes == {"OUT_SALE", "OUT_ADJUSTMENT", "OUT_LOSS"}
ValidMovementType == InTypes \union OutTypes

StockMovement ==
  [key: Keys, by: Users, where: Places, type: ValidMovementType,
   quantity: 1 .. MaxLevel, rest: Rest]
StockMovementRequest ==
  [key: Keys, by: Users, where: Locations \union {Unspecified}, type: ValidMovementType,
   quantity: 1 .. MaxLevel, rest: Rest]

InventoryAssumption ==
  /\ Unspecified \notin Places /\ Default \notin Locations
  /\ MaxLevel \in Nat
  /\ CreateForms \subseteq StockMovementRequest /\ EditForms \subseteq StockMovementRequest

VARIABLES
  movements,      \* stock_movements: identifier -> row
  levels,         \* stock_levels: place -> quantity_on_hand, where there is a row
  hasDefault,     \* the business has a default location
  tx,             \* handler -> its open transaction
  origin          \* auxiliary: identifier once committed -> key of its creation

vars == <<movements, levels, hasDefault, tx, origin>>

Put(f, k, x) == [j \in DOMAIN f \union {k} |-> IF j = k THEN x ELSE f[j]]
Without(f, k) == [j \in DOMAIN f \ {k} |-> f[j]]

\* A statement; place and delta are those of the ones on stock_levels.
Statement(name) == [name |-> name, place |-> Unspecified, delta |-> 0]
LevelStatement(name, place, delta) == [name |-> name, place |-> place, delta |-> delta]
-----------------------------------------------------------------------------
(* Pure functions of service.go *)

SignedQuantity(m) == IF m.type \in OutTypes THEN - m.quantity ELSE m.quantity

MovementDelta(old, new) == SignedQuantity(new) - SignedQuantity(old)

\* A delta of zero needs no statement that writes.
NonnegativeDelta(place, delta) ==
  IF delta = 0 THEN <<>> ELSE <<LevelStatement("take", place, delta)>>

\* applyMovementEditDelta: old and new row of a movement.
MovementEditDelta(old, new) ==
  IF old.where = new.where
  THEN NonnegativeDelta(old.where, MovementDelta(old, new))
  ELSE NonnegativeDelta(old.where, - SignedQuantity(old))
         \o NonnegativeDelta(new.where, SignedQuantity(new))
-----------------------------------------------------------------------------
(* Rows, keys and locks *)

OnHand(place) == IF place \in DOMAIN levels THEN levels[place] ELSE 0
Fits(n) == - MaxLevel <= n /\ n <= MaxLevel

Pending(p) == Head(tx[p].todo)
At(p, name) == p \in DOMAIN tx /\ tx[p].todo # <<>> /\ Pending(p).name = name

\* Uncommitted writes of q add or remove an entry of the index on keys.
Touches(q, key) ==
  \/ tx[q].write \in {"insert", "update"} /\ tx[q].row.key = key
  \/ tx[q].write \in {"update", "delete"} /\ movements[tx[q].id].key = key

\* The guarded update skips a row whose committed quantity does not satisfy its
\* WHERE, without waiting, and does not see a row that is not committed.
Sees(s) == s.place \in DOMAIN levels /\ levels[s.place] + s.delta >= 0

\* The next statement of p waits until the transaction of q has ended.
WaitsFor(p, q) ==
  /\ p # q
  /\ \/ At(p, "lock") /\ tx[p].id \in tx[q].locked
     \/ At(p, "makeDefault") /\ tx[q].default
     \/ (At(p, "insert") \/ At(p, "update")) /\ Touches(q, tx[p].form.key)
     \/ At(p, "add") /\ Pending(p).place \in DOMAIN tx[q].deltas
     \/ At(p, "take") /\ Sees(Pending(p)) /\ Pending(p).place \in DOMAIN tx[q].deltas

Runs(p, name) == At(p, name) /\ \A q \in DOMAIN tx : ~ WaitsFor(p, q)

\* Transactions that wait for each other in a circle.
Circle(C) ==
  /\ C # {}
  /\ \A p \in C : (\E q \in C : WaitsFor(p, q)) /\ (\E q \in C : WaitsFor(q, p))
-----------------------------------------------------------------------------
(* Steps of a transaction *)

\* Mutant: an error return leaves the transaction, and the handler's locks, open.
Leak(p) == UNCHANGED vars

\* The deferred Rollback of every error return, and of a replayed answer.
Leave(p) ==
  /\ tx' = Without(tx, p)
  /\ UNCHANGED <<movements, levels, hasDefault, origin>>

\* The statement succeeds; t is the transaction after it.
Succeed(p, t) ==
  /\ tx' = [tx EXCEPT ![p] = t]
  /\ UNCHANGED <<movements, levels, hasDefault, origin>>
After(p, todo) == [tx[p] EXCEPT !.todo = todo]
Done(p) == After(p, Tail(tx[p].todo))

Open(p, kind, form, id, todo) ==
  /\ p \notin DOMAIN tx
  /\ tx' = Put(tx, p, [kind |-> kind, form |-> form, id |-> id, todo |-> todo,
                       write |-> "none", row |-> [key |-> Unspecified],
                       deltas |-> [q \in {} |-> 0], locked |-> {}, default |-> FALSE])
  /\ UNCHANGED <<movements, levels, hasDefault, origin>>

\* createStockMovement, with the variant found.  The identifier its row may get
\* is chosen here: a bound on how many creations are open or committed.
Create(p) ==
  \E f \in CreateForms, id \in Ids \ (DOMAIN origin \union {tx[q].id : q \in DOMAIN tx}) :
    Open(p, "create", f, id,
         IF f.where = Unspecified THEN <<Statement("getDefault"), Statement("insert")>>
                                  ELSE <<Statement("insert")>>)

\* updateStockMovement and deleteStockMovement of a movement that was once seen.
Update(p) ==
  \E f \in EditForms, id \in DOMAIN origin : Open(p, "edit", f, id, <<Statement("lock")>>)
Delete(p) ==
  \E id \in DOMAIN origin :
    Open(p, "delete", [key |-> Unspecified], id, <<Statement("lock")>>)

\* ResolveLocation: GetDefaultInventoryLocation, then CreateInventoryLocation.
GetDefault(p) ==
  /\ Runs(p, "getDefault")
  /\ Succeed(p, IF hasDefault THEN Done(p)
                ELSE After(p, <<Statement("makeDefault")>> \o Tail(tx[p].todo)))
MakeDefault(p) ==
  /\ Runs(p, "makeDefault")
  /\ IF hasDefault THEN Leave(p) ELSE Succeed(p, [Done(p) EXCEPT !.default = TRUE])

\* The row a form asks for; an omitted place is the one in otherwise.
RowOf(form, otherwise, by) ==
  [key |-> form.key, by |-> by,
   where |-> IF form.where = Unspecified THEN otherwise ELSE form.where,
   type |-> form.type, quantity |-> form.quantity, rest |-> form.rest]

KeyHolders(key) == {i \in DOMAIN movements : movements[i].key = key}

\* CreateStockMovement, ON CONFLICT DO NOTHING: when the key is held the call
\* rolls back and answers from the movement found, or with 409.
Insert(p) ==
  /\ Runs(p, "insert")
  /\ LET row == RowOf(tx[p].form, Default, tx[p].form.by)
     IN  IF KeyHolders(row.key) # {} THEN Leave(p)
         ELSE Succeed(p, [tx[p] EXCEPT
                !.write = "insert", !.row = row,
                !.todo = <<LevelStatement("add", row.where, SignedQuantity(row))>>])

\* A level changes by the delta of the statement, or overflows its column.
ChangeLevel(p) ==
  LET s == Pending(p)
      n == OnHand(s.place) + s.delta
  IN  IF Fits(n) THEN Succeed(p, [Done(p) EXCEPT !.deltas = Put(@, s.place, s.delta)])
                 ELSE Leave(p)

\* ApplyStockDelta: insert or add, without a lower limit.
ApplyStockDelta(p) == Runs(p, "add") /\ ChangeLevel(p)

\* Mutant: the guard of the UPDATE is missing.
TakeUnguarded(p) ==
  /\ Runs(p, "take")
  /\ IF Pending(p).place \in DOMAIN levels THEN ChangeLevel(p) ELSE Leave(p)

\* ApplyNonnegativeStockDelta; an addition that finds no row looks it up again.
ApplyNonnegativeStockDelta(p) ==
  /\ Runs(p, "take")
  /\ LET s == Pending(p)
     IN  IF Sees(s) THEN ChangeLevel(p)
         ELSE IF s.delta > 0
         THEN Succeed(p, After(p, <<LevelStatement("lookUp", s.place, s.delta)>>
                                    \o Tail(tx[p].todo)))
         ELSE Leave(p)
GetStockLevel(p) ==
  /\ Runs(p, "lookUp")
  /\ LET s == Pending(p)
     IN  IF s.place \in DOMAIN levels THEN Leave(p)
         ELSE Succeed(p, After(p, <<LevelStatement("add", s.place, s.delta)>>
                                    \o Tail(tx[p].todo)))

\* updateStockMovement after its row lock: the same key is a replay or a 409.
Edited(p, old) ==
  LET new == RowOf(tx[p].form, old.where, old.by)
  IN  IF old.key = new.key THEN Leave(p)
      ELSE Succeed(p, [tx[p] EXCEPT
             !.locked = {tx[p].id}, !.row = new,
             !.todo = MovementEditDelta(old, new) \o <<Statement("update")>>])

\* Mutant: the row is deleted before the level is changed.
ReversedLast(p, old) ==
  Succeed(p, [tx[p] EXCEPT
    !.locked = {tx[p].id},
    !.todo = <<Statement("delete")>> \o NonnegativeDelta(old.where, - SignedQuantity(old))])

\* deleteStockMovement after its row lock.
Reversed(p, old) ==
  Succeed(p, [tx[p] EXCEPT
    !.locked = {tx[p].id},
    !.todo = NonnegativeDelta(old.where, - SignedQuantity(old)) \o <<Statement("delete")>>])

\* GetStockMovementForUpdate
GetStockMovementForUpdate(p) ==
  /\ Runs(p, "lock")
  /\ LET id == tx[p].id
     IN  IF id \notin DOMAIN movements THEN Leave(p)
         ELSE IF tx[p].kind = "edit" THEN Edited(p, movements[id])
         ELSE Reversed(p, movements[id])

\* UpdateStockMovement; the key replaces that of the row unless another holds it.
UpdateStockMovement(p) ==
  /\ Runs(p, "update")
  /\ IF KeyHolders(tx[p].row.key) # {} THEN Leave(p)
     ELSE Succeed(p, [Done(p) EXCEPT !.write = "update"])

DeleteStockMovement(p) ==
  /\ Runs(p, "delete")
  /\ Succeed(p, [Done(p) EXCEPT !.write = "delete"])

\* The audit row is inserted and the transaction commits.
Commit(p) ==
  /\ p \in DOMAIN tx /\ tx[p].todo = <<>>
  /\ LET t == tx[p]
     IN  /\ movements' = IF t.write = "delete" THEN Without(movements, t.id)
                                               ELSE Put(movements, t.id, t.row)
         /\ levels' = [q \in DOMAIN levels \union DOMAIN t.deltas |->
                         OnHand(q) + IF q \in DOMAIN t.deltas THEN t.deltas[q] ELSE 0]
         /\ hasDefault' = (hasDefault \/ t.default)
         /\ origin' = IF t.write = "insert" THEN Put(origin, t.id, t.row.key) ELSE origin
  /\ tx' = Without(tx, p)

\* The connection is lost, or the server stops, at any time.
Lost(p) == p \in DOMAIN tx /\ Leave(p)

\* Postgres ends a transaction of a circle after deadlock_timeout.
DeadlockVictim(p) ==
  /\ \E C \in SUBSET DOMAIN tx : p \in C /\ Circle(C)
  /\ Leave(p)
-----------------------------------------------------------------------------
Init ==
  /\ movements = [i \in {} |-> 0]
  /\ levels = [q \in {} |-> 0]
  /\ hasDefault = FALSE
  /\ tx = [p \in {} |-> 0]
  /\ origin = [i \in {} |-> 0]

Arrive(p) == Create(p) \/ Update(p) \/ Delete(p)
Execute(p) ==
  \/ GetDefault(p) \/ MakeDefault(p) \/ Insert(p)
  \/ GetStockMovementForUpdate(p) \/ UpdateStockMovement(p) \/ DeleteStockMovement(p)
  \/ ApplyStockDelta(p) \/ ApplyNonnegativeStockDelta(p) \/ GetStockLevel(p)
  \/ Commit(p)

Next == \E p \in Handlers : Arrive(p) \/ Execute(p) \/ Lost(p) \/ DeadlockVictim(p)

Spec == Init /\ [][Next]_vars

\* A statement that can run is run, waiting ones in the order of Postgres's lock
\* queues, and circles are detected.  Nothing is assumed of clients.
FairSpec ==
  Spec /\ \A p \in Handlers : SF_vars(Execute(p)) /\ WF_vars(DeadlockVictim(p))
-----------------------------------------------------------------------------
\* Rows fit their columns and an open transaction holds what its statements left.
TypeOK ==
  /\ DOMAIN movements \subseteq DOMAIN origin /\ DOMAIN origin \subseteq Ids
  /\ \A i \in DOMAIN movements : movements[i] \in StockMovement
  /\ DOMAIN levels \subseteq Places
  /\ \A q \in DOMAIN levels : Fits(levels[q])
  /\ hasDefault \in BOOLEAN
  /\ DOMAIN tx \subseteq Handlers
  /\ \A i \in DOMAIN origin : origin[i] \in Keys
  /\ \A p \in DOMAIN tx :
       /\ tx[p].locked \subseteq DOMAIN movements
       /\ DOMAIN tx[p].deltas \subseteq Places
       /\ tx[p].write = "insert" => tx[p].id \notin DOMAIN origin
       /\ tx[p].write \in {"update", "delete"} => tx[p].locked = {tx[p].id}

\* A key is held by one movement: the same creation sent to two handlers at once,
\* or the key of an edit used meanwhile by a creation, is booked once.
OneMovementPerKey == \A k \in Keys : Cardinality(KeyHolders(k)) <= 1

\* deleteStockMovement changes the level before it deletes the row, so a deletion
\* holds nothing others wait for with locks of their own while it waits itself:
\* edits deadlock with edits and creations, over two levels in opposite orders or
\* over a level and a key, a deletion is never part of a deadlock.
DeletionsNeverDeadlock ==
  \A C \in SUBSET DOMAIN tx : Circle(C) => \A p \in C : tx[p].kind # "delete"

\* The ledger: every commit is one step of StockLedger.  The levels are the sums
\* of the movements, and an edit or a deletion takes no stock that is not there.
Ledger ==
  INSTANCE StockLedger WITH
    entries <- [i \in DOMAIN movements |->
                  [where |-> movements[i].where, amount |-> SignedQuantity(movements[i])]],
    stock <- [q \in Places |-> OnHand(q)]
ImplementsLedger == Ledger!Spec

\* Every call ends, deadlocks and waits for keys, rows and levels included.
CallsEnd == \A p \in Handlers : p \in DOMAIN tx ~> p \notin DOMAIN tx

\* docs/openapi.yaml, POST /inventory/movements, Idempotency-Key: "Unique key for
\* safely retrying this stock adjustment."  Movements created with one key do not
\* exist side by side.
\* The code does not keep it.
RetriesAreSafe ==
  \A i, j \in DOMAIN movements : origin[i] = origin[j] => i = j
=============================================================================
