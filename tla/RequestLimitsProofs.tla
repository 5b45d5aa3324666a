------------------------- MODULE RequestLimitsProofs -------------------------
(***************************************************************************)
(* More proofs about Requests: the limits.  A check counts rows in one     *)
(* step and the commit adds one in a later step; that nothing was added,   *)
(* reconfigured or forgotten in between is what these proofs show, for the *)
(* orders of a pickup window, the confirmations of a period, the pending   *)
(* requests of a phone and the requests made with one Idempotency-Key.     *)
(***************************************************************************)
EXTENDS RequestTablesProofs, FiniteSetTheorems

USE DEF Time

-----------------------------------------------------------------------------
(* What the checks under the lock leave to be written *)

LEMMA CreateWrites ==
  ASSUME NEW p, AcquireCreate(p), NEW w, w = writing'[p], NEW op, op = request[p].op
  PROVE  /\ p \in DOMAIN request /\ op.form.kind = "create"
         /\ ~ Stored(op, request[p].now)
         /\ WithinPendingLimit(op.form.module, op.form.phone, request[p].now)
         /\ w.id \in Ids \ DOMAIN recs
         /\ w.rec = NewRecord(op.form, request[p].now)
         /\ w.use = {} /\ w.row = ReplayRow(op, request[p].now, w.id)
<1> DEFINE f == op.form
           now == request[p].now
           r == NewRecord(f, now)
           token == IF f.channel = "personal" THEN {} ELSE {r.ends + AccessTTL}
<1>1. /\ p \in DOMAIN request /\ f.kind = "create" /\ ~ Stored(op, now)
      /\ WithinPendingLimit(f.module, f.phone, now)
  BY DEF AcquireCreate
<1>2. PICK id \in Ids \ DOMAIN recs :
        Acquire(p, [id |-> id, rec |-> r, hist |-> <<[from |-> "", to |-> "requested"]>>,
                    use |-> {}, enq |-> {ExpirationJob(id, r.expires)},
                    access |-> token, row |-> ReplayRow(op, now, id)])
  BY DEF AcquireCreate
<1> DEFINE row == ReplayRow(op, now, id)
           hist == <<[from |-> "", to |-> "requested"]>>
           enq == {ExpirationJob(id, r.expires)}
           writes == [id |-> id, rec |-> r, hist |-> hist, use |-> {}, enq |-> enq,
                      access |-> token, row |-> row]
<1>3. w = writes
  <2> HIDE DEF writes
  <2>1. Acquire(p, writes)
    BY <1>2 DEF writes
  <2> QED
    BY <2>1, AcquireShape
<1> HIDE DEF r, token, row, hist, enq
<1>4. w.id = id /\ w.rec = r /\ w.use = {} /\ w.row = row
  BY <1>3
<1> HIDE DEF writes
<1> QED
  BY <1>1, <1>2, <1>4 DEF r, row

\* What a transition writes: op is the call, r the record it found, now its BEGIN.
TransitionRows(w, op, r, now) ==
  /\ op.form.kind = "transition" /\ op.form.to \in Allowed(r.module, r.status)
  /\ w.id = op.id /\ w.rec = [r EXCEPT !.status = op.form.to, !.version = @ + 1]
  /\ w.row = ReplayRow(op, now, w.id)
  /\ IF r.status = "requested" /\ op.form.to = "confirmed"
     THEN /\ w.use = {[module |-> r.module, id |-> op.id, period |-> sub.periodStart]}
          /\ CanConsume(r.module)
          /\ CheckPlace(r.module, r.service, r.where, {op.id}, r.start, r.ends - r.start,
                        r.buffer)
     ELSE w.use = {}

LEMMA TransitionWrites ==
  ASSUME NEW p, AcquireTransition(p), NEW w, w = writing'[p]
  PROVE  /\ p \in DOMAIN request
         /\ TransitionRows(w, request[p].op, recs[request[p].op.id], request[p].now)
<1> DEFINE op == request[p].op
           r == recs[op.id]
           f == op.form
           confirm == r.status = "requested" /\ f.to = "confirmed"
           use == IF confirm
                  THEN {[module |-> r.module, id |-> op.id, period |-> sub.periodStart]}
                  ELSE {}
           new == [r EXCEPT !.status = f.to, !.version = @ + 1]
           writes ==
             [id |-> op.id, rec |-> new,
              hist |-> <<[from |-> r.status, to |-> f.to]>>, use |-> use, enq |-> {},
              access |-> {}, row |-> ReplayRow(op, request[p].now, op.id)]
<1>1. /\ p \in DOMAIN request /\ f.kind = "transition" /\ f.to \in Allowed(r.module, r.status)
      /\ confirm => /\ CanConsume(r.module)
                    /\ CheckPlace(r.module, r.service, r.where, {op.id}, r.start,
                                  r.ends - r.start, r.buffer)
      /\ Acquire(p, writes)
  BY DEF AcquireTransition
<1>2. w = writes
  <2> HIDE DEF writes
  <2> QED
    BY <1>1, AcquireShape
<1>3. use = IF confirm
            THEN {[module |-> r.module, id |-> op.id, period |-> sub.periodStart]} ELSE {}
  OBVIOUS
<1> HIDE DEF new, use
<1>4. TransitionRows(w, op, r, request[p].now)
  BY <1>1, <1>2, <1>3 DEF new, TransitionRows
<1> QED
  BY <1>1, <1>4

\* What an edit writes.
EditRows(w, op, r, now) ==
  LET moved == IF op.form.moves THEN Moved(r, op.form) ELSE r
  IN  /\ op.form.kind = "edit" /\ ~ Lapsed(r)
      /\ w.id = op.id /\ w.rec = [moved EXCEPT !.version = @ + 1] /\ w.use = {}
      /\ w.row = ReplayRow(op, now, w.id)
      /\ op.form.moves =>
           /\ op.form.where \in IF r.module = "appointments" THEN Resources ELSE Windows
           /\ CheckPlace(r.module, r.service, op.form.where, {op.id}, moved.start,
                         r.ends - r.start, r.buffer)

LEMMA EditWrites ==
  ASSUME NEW p, AcquireEdit(p), NEW w, w = writing'[p]
  PROVE  /\ p \in DOMAIN request
         /\ EditRows(w, request[p].op, recs[request[p].op.id], request[p].now)
<1> DEFINE op == request[p].op
           r == recs[op.id]
           f == op.form
           moved == IF f.moves THEN Moved(r, f) ELSE r
           new == [moved EXCEPT !.version = @ + 1]
           writes ==
             [id |-> op.id, rec |-> new, hist |-> <<>>, use |-> {},
              enq |-> Renewal(f, op.id, moved), access |-> Extension(f, moved),
              row |-> ReplayRow(op, request[p].now, op.id)]
<1>1. /\ p \in DOMAIN request /\ f.kind = "edit" /\ MayMutate(op, request[p].now)
      /\ f.moves => /\ f.where \in IF r.module = "appointments" THEN Resources ELSE Windows
                    /\ CheckPlace(r.module, r.service, f.where, {op.id}, moved.start,
                                  r.ends - r.start, r.buffer)
      /\ Acquire(p, writes)
  BY DEF AcquireEdit
<1>2. w = writes
  <2> HIDE DEF writes
  <2> QED
    BY <1>1, AcquireShape
<1>3. ~ Lapsed(r)
  BY <1>1 DEF MayMutate
<1> HIDE DEF new
<1>4. EditRows(w, op, r, request[p].now)
  BY <1>1, <1>2, <1>3 DEF new, EditRows
<1> QED
  BY <1>1, <1>4

LEMMA ExpireWrites ==
  ASSUME TypeOK, NEW p, AcquireExpire(p), NEW w, w = writing'[p]
  PROVE  w.rec.status = "expired" /\ w.use = {} /\ w.row = {} /\ w.id \in DOMAIN recs
<1> DEFINE r == recs[expiring[p].id]
           new == [r EXCEPT !.status = "expired", !.version = @ + 1]
           writes ==
             [id |-> expiring[p].id, rec |-> new,
              hist |-> <<[from |-> "requested", to |-> "expired"]>>,
              use |-> {}, enq |-> {}, access |-> {}, row |-> {}]
<1>1. expiring[p].id \in DOMAIN recs /\ r \in Record
  BY DEF AcquireExpire, TypeOK, ActorsOK, TablesOK
<1>2. new.status = "expired"
  BY <1>1 DEF Record
<1>3. Acquire(p, writes)
  BY DEF AcquireExpire
<1>4. w = writes
  <2> HIDE DEF writes
  <2> QED
    BY <1>3, AcquireShape
<1> HIDE DEF new
<1> QED
  BY <1>1, <1>2, <1>4

\* While a transaction is open, neither the plan nor the settings change.
LEMMA StepUnderLock ==
  ASSUME [Next]_vars
  PROVE  \/ \E p \in Handlers \union Workers : Commit(p)
         \/ \E p \in Handlers \union Workers : Taken(p)
         \/ Still /\ (DOMAIN writing' = {} \/ UNCHANGED <<sub, settings>>)
<1>1. UNCHANGED <<sub, settings>> \/ DOMAIN writing' = {}
  <2>1. ASSUME NEW p \in Handlers, Handle(p)
        PROVE  UNCHANGED <<sub, settings>>
    BY <2>1 DEF Handle, ArriveCreate, ArriveMutate, Begin, AcquireCreate, AcquireTransition,
                AcquireEdit, Acquire, Commit, Rollback, catalogVars
  <2>2. ASSUME NEW w \in Workers, Work(w)
        PROVE  UNCHANGED <<sub, settings>>
    BY <2>2 DEF Work, ReadJob, SweepDue, AcquireExpire, Acquire, ExpireNothing, Commit, Ack,
                AbandonExpire, FailJob, catalogVars
  <2>3. CASE Administer
    BY <2>3 DEF Administer, ChangeSubscription, Configure, SaveService, SaveResource, Locked,
                catalogVars
  <2>4. CASE Tick \/ CleanReplay \/ CleanAccess \/ UNCHANGED vars
    BY <2>4 DEF Tick, CleanReplay, CleanAccess, vars, catalogVars
  <2> QED
    BY <2>1, <2>2, <2>3, <2>4 DEF Next
<1> QED
  BY <1>1, StillShape

-----------------------------------------------------------------------------
(* Pickup windows and quotas *)

\* The orders that hold a place of a window.
WindowOrders(window) ==
  {i \in DOMAIN recs : /\ recs[i].module = "preorders"
                       /\ recs[i].where = window
                       /\ recs[i].status \in HoldingPreorder}

\* The row that brings an order into a window finds room there.
RoomLeft(w) ==
  /\ w.rec.module = "preorders" /\ w.rec.status \in HoldingPreorder
  /\ w.id \notin WindowOrders(w.rec.where)
  /\ settings["preorders"].maxOrders > 0
  => Cardinality(WindowOrders(w.rec.where)) < settings["preorders"].maxOrders

PeriodUsage(module, period) == {u \in usage : u.module = module /\ u.period = period}

\* A transaction charges at most one confirmation, to the current period, and the
\* plan has it left.
WithinQuota(w) ==
  /\ \A u, v \in w.use : u = v
  /\ \A u \in w.use :
       /\ u.period = sub.periodStart
       /\ Cardinality(PeriodUsage(u.module, u.period)) < RequestLimit[sub.tier]

\* The inductive invariant of both.
RoomInv ==
  /\ TablesInv
  /\ IsFiniteSet(usage)
  /\ \A p \in DOMAIN writing : RoomLeft(writing[p]) /\ WithinQuota(writing[p])

\* What the queries count.
LEMMA Counted ==
  /\ \A window, exclude :
       PickupWindowUsage(window, exclude) = Cardinality(WindowOrders(window) \ exclude)
  /\ \A module, period : ModuleUsage(module, period) = Cardinality(PeriodUsage(module, period))
<1>1. ASSUME NEW window, NEW exclude
      PROVE  PickupWindowUsage(window, exclude) = Cardinality(WindowOrders(window) \ exclude)
  <2>1. {i \in DOMAIN recs \ exclude : /\ recs[i].module = "preorders"
                                       /\ recs[i].where = window
                                       /\ recs[i].status \in HoldingPreorder}
          = WindowOrders(window) \ exclude
    BY DEF WindowOrders
  <2> QED
    BY <2>1 DEF PickupWindowUsage
<1>2. \A module, period : ModuleUsage(module, period) = Cardinality(PeriodUsage(module, period))
  BY DEF ModuleUsage, PeriodUsage
<1> QED
  BY <1>1, <1>2

\* An order confirmed or moved to a window has passed checkPickup, a confirmation Consume.
LEMMA TakenRoom ==
  ASSUME TypeOK, NEW p \in Handlers \union Workers, Taken(p), NEW w, w = writing'[p]
  PROVE  RoomLeft(w) /\ WithinQuota(w)
<1>1. CASE AcquireCreate(p)
  <2>1. w.use = {} /\ w.rec = NewRecord(request[p].op.form, request[p].now)
    BY <1>1, CreateWrites
  <2>2. w.rec.status = "requested"
    BY <2>1 DEF NewRecord
  <2> QED
    BY <2>1, <2>2 DEF RoomLeft, WithinQuota, HoldingPreorder
<1>2. CASE AcquireExpire(p)
  <2>1. w.use = {} /\ w.rec.status = "expired"
    BY <1>2, ExpireWrites
  <2> QED
    BY <2>1 DEF RoomLeft, WithinQuota, HoldingPreorder
<1>3. CASE AcquireTransition(p)
  <2> DEFINE op == request[p].op
             r == recs[op.id]
             confirm == r.status = "requested" /\ op.form.to = "confirmed"
  <2>1. /\ p \in DOMAIN request /\ op.form.kind = "transition"
        /\ op.form.to \in Allowed(r.module, r.status)
        /\ w.id = op.id /\ w.rec = [r EXCEPT !.status = op.form.to, !.version = @ + 1]
        /\ IF confirm
           THEN /\ w.use = {[module |-> r.module, id |-> op.id, period |-> sub.periodStart]}
                /\ CanConsume(r.module)
                /\ CheckPlace(r.module, r.service, r.where, {op.id}, r.start,
                              r.ends - r.start, r.buffer)
           ELSE w.use = {}
    BY <1>3, TransitionWrites DEF TransitionRows
  <2>2. op.id \in DOMAIN recs
    BY <2>1, CallKinds DEF TypeOK, ActorsOK
  <2>3. r \in Record
    BY <2>2 DEF TypeOK, TablesOK
  <2>4. w.rec.module = r.module /\ w.rec.where = r.where /\ w.rec.status = op.form.to
    BY <2>1, <2>3 DEF Record
  <2>5. WithinQuota(w)
    <3>1. confirm => Cardinality(PeriodUsage(r.module, sub.periodStart)) < RequestLimit[sub.tier]
      BY <2>1, Counted DEF CanConsume
    <3> HIDE DEF r, op
    <3> QED
      BY <2>1, <3>1 DEF WithinQuota
  <2>6. RoomLeft(w)
    <3>1. SUFFICES ASSUME w.rec.module = "preorders", w.rec.status \in HoldingPreorder,
                          w.id \notin WindowOrders(w.rec.where),
                          settings["preorders"].maxOrders > 0
                   PROVE  Cardinality(WindowOrders(w.rec.where)) < settings["preorders"].maxOrders
      BY DEF RoomLeft
    <3>2. r.status \notin HoldingPreorder
      BY <2>1, <2>2, <2>4, <3>1 DEF WindowOrders
    <3>3. confirm
      BY <2>1, <2>4, <3>1, <3>2, HoldsOn DEF Moves, Holding
    <3>4. CheckPickup(r.where, {w.id})
      BY <2>1, <2>4, <3>1, <3>3 DEF CheckPlace
    <3>5. WindowOrders(w.rec.where) \ {w.id} = WindowOrders(w.rec.where)
      BY <3>1
    <3> HIDE DEF r, op
    <3> QED
      BY <2>4, <3>1, <3>4, <3>5, Counted DEF CheckPickup
  <2> QED
    BY <2>5, <2>6
<1>4. CASE AcquireEdit(p)
  <2> DEFINE op == request[p].op
             f == op.form
             r == recs[op.id]
             moved == IF f.moves THEN Moved(r, f) ELSE r
  <2>1. /\ p \in DOMAIN request /\ f.kind = "edit" /\ w.use = {}
        /\ w.id = op.id /\ w.rec = [moved EXCEPT !.version = @ + 1]
        /\ f.moves =>
             /\ f.where \in IF r.module = "appointments" THEN Resources ELSE Windows
             /\ CheckPlace(r.module, r.service, f.where, {op.id}, moved.start,
                           r.ends - r.start, r.buffer)
    BY <1>4, EditWrites DEF EditRows
  <2>2. op.id \in DOMAIN recs /\ f \in EditForm
    BY <2>1, CallKinds DEF TypeOK, ActorsOK
  <2>3. r \in Record
    BY <2>2 DEF TypeOK, TablesOK
  <2>4. WithinQuota(w)
    BY <2>1 DEF WithinQuota
  <2> SUFFICES ASSUME w.rec.module = "preorders", w.rec.status \in HoldingPreorder,
                      w.id \notin WindowOrders(w.rec.where),
                      settings["preorders"].maxOrders > 0
               PROVE  Cardinality(WindowOrders(w.rec.where)) < settings["preorders"].maxOrders
    BY <2>4 DEF RoomLeft
  <2>5. WindowOrders(w.rec.where) \ {w.id} = WindowOrders(w.rec.where)
    OBVIOUS
  <2>6. CASE f.moves
    <3>1. moved = Moved(r, f) /\ moved \in Record
      BY <2>1, <2>2, <2>3, <2>6, MovedType DEF TypeOK
    <3>2. moved.module = r.module /\ moved.where = f.where
      BY <2>2, <2>3, <3>1, MovedShape
    <3> HIDE DEF moved, r, f, op
    <3>3. w.rec.module = r.module /\ w.rec.where = f.where
      BY <2>1, <3>1, <3>2 DEF Record
    <3>4. CheckPickup(w.rec.where, {w.id})
      BY <2>1, <2>6, <3>3 DEF CheckPlace
    <3> QED
      BY <2>5, <3>4, Counted DEF CheckPickup
  <2>7. CASE ~ f.moves
    <3>1. /\ w.rec.module = r.module /\ w.rec.where = r.where
          /\ w.rec.status = r.status
      BY <2>1, <2>3, <2>7 DEF Record
    <3> QED
      BY <2>1, <2>2, <3>1 DEF WindowOrders
  <2> QED
    BY <2>6, <2>7
<1> QED
  BY <1>1, <1>2, <1>3, <1>4 DEF Taken

\* What was counted stays counted while nobody writes.
LEMMA RoomStays ==
  ASSUME UNCHANGED <<recs, usage, sub, settings>>, NEW p, NEW w, w = writing'[p],
         RoomLeft(w), WithinQuota(w)
  PROVE  (RoomLeft(writing[p]) /\ WithinQuota(writing[p]))'
<1>1. \A window :
        {i \in DOMAIN recs' : /\ recs'[i].module = "preorders"
                              /\ recs'[i].where = window
                              /\ recs'[i].status \in HoldingPreorder} = WindowOrders(window)
  BY DEF WindowOrders
<1>2. RoomLeft(writing[p])'
  BY <1>1 DEF RoomLeft, WindowOrders
<1>3. \A module, period :
        {u \in usage' : u.module = module /\ u.period = period} = PeriodUsage(module, period)
  BY DEF PeriodUsage
<1>4. WithinQuota(writing[p])'
  BY <1>3 DEF WithinQuota, PeriodUsage
<1> QED
  BY <1>2, <1>4

LEMMA StepRoom ==
  ASSUME RoomInv, [Next]_vars
  PROVE  RoomInv'
<1>1. TablesInv' /\ BookingInv /\ TypeOK
  BY StepTables DEF RoomInv, TablesInv, BookingInv
<1>2. CASE \E p \in Handlers \union Workers : Commit(p)
  <2>1. PICK p \in Handlers \union Workers : Commit(p)
    BY <1>2
  <2>2. p \in DOMAIN writing /\ DOMAIN writing' = {}
    BY <1>1, <2>1, CommitShape
  <2> DEFINE w == writing[p]
  <2>3. usage' \subseteq usage \union w.use
    <3> HIDE DEF w
    <3>1. w = writing[p]
      BY DEF w
    <3> QED
      BY <1>1, <2>1, <3>1, CommitTables
  <2>4. IsFiniteSet(w.use)
    <3>1. \A u, v \in w.use : u = v
      BY <2>2 DEF RoomInv, WithinQuota
    <3> HIDE DEF w
    <3>2. w.use = {} \/ \E u : w.use = {u}
      BY <3>1
    <3> QED
      BY <3>2, FS_EmptySet, FS_Singleton
  <2> HIDE DEF w
  <2>5. IsFiniteSet(usage')
    BY <2>3, <2>4, FS_Union, FS_Subset DEF RoomInv
  <2> QED
    BY <1>1, <2>2, <2>5 DEF RoomInv
<1>3. CASE \E p \in Handlers \union Workers : Taken(p)
  <2>1. PICK p \in Handlers \union Workers : Taken(p)
    BY <1>3
  <2>2. DOMAIN writing' = {p} /\ UNCHANGED <<recs, usage, sub, settings>>
    BY <1>1, <2>1, TakenShaped, AcquireShape
  <2>3. RoomLeft(writing'[p]) /\ WithinQuota(writing'[p])
    BY <1>1, <2>1, TakenRoom
  <2>4. (RoomLeft(writing[p]) /\ WithinQuota(writing[p]))'
    BY <2>2, <2>3, RoomStays
  <2> QED
    BY <1>1, <2>2, <2>4 DEF RoomInv
<1>4. CASE Still /\ DOMAIN writing' = {}
  BY <1>1, <1>4 DEF RoomInv, Still
<1>5. CASE Still /\ UNCHANGED <<sub, settings>>
  <2>1. ASSUME NEW p \in DOMAIN writing'
        PROVE  (RoomLeft(writing[p]) /\ WithinQuota(writing[p]))'
    <3>1. RoomLeft(writing'[p]) /\ WithinQuota(writing'[p])
      BY <1>5, <2>1 DEF Still, Quiet, RoomInv
    <3> QED
      BY <1>5, <3>1, RoomStays DEF Still, Quiet
  <2> QED
    BY <1>1, <1>5, <2>1 DEF RoomInv, Still
<1> QED
  BY <1>2, <1>3, <1>4, <1>5, StepUnderLock

LEMMA RoomInvariant == Spec => []RoomInv
<1>1. Init /\ TablesInv => RoomInv
  BY FS_EmptySet DEF Init, NoRows, RoomInv
<1>2. RoomInv /\ [Next]_vars => RoomInv'
  BY StepRoom
<1> QED
  BY <1>1, <1>2, TablesInvariant, PTL DEF Spec

\* Records are finitely many.
LEMMA FiniteOrders ==
  ASSUME TypeOK, NEW window
  PROVE  /\ IsFiniteSet(DOMAIN recs) /\ IsFiniteSet(WindowOrders(window))
         /\ Cardinality(WindowOrders(window)) \in Nat
<1>1. IsFiniteSet(DOMAIN recs)
  BY ActorsAssumption, FS_Subset DEF TypeOK, TablesOK
<1>2. WindowOrders(window) \subseteq DOMAIN recs
  BY DEF WindowOrders
<1>3. IsFiniteSet(WindowOrders(window))
  BY <1>1, <1>2, FS_Subset
<1> QED
  BY <1>1, <1>3, FS_CardinalityType

\* A commit that brings a window one order more leaves it within its capacity.
LEMMA CommitRoom ==
  ASSUME RoomInv, NEW p \in Handlers \union Workers, Commit(p), NEW window,
         NEW S, NEW T, S = WindowOrders(window), T = WindowOrders(window)',
         Cardinality(T) > Cardinality(S), settings["preorders"].maxOrders > 0
  PROVE  Cardinality(T) <= settings["preorders"].maxOrders
<1> DEFINE w == writing[p]
<1>1. BookingInv /\ TypeOK /\ p \in DOMAIN writing
  BY CommitShape DEF RoomInv, TablesInv, BookingInv
<1>2. /\ DOMAIN recs' = DOMAIN recs \union {w.id} /\ recs'[w.id] = w.rec
      /\ \A i \in DOMAIN recs \ {w.id} : recs'[i] = recs[i]
  BY <1>1, CommitShape
<1>3. RoomLeft(w)
  BY <1>1 DEF RoomInv
<1> HIDE DEF w
<1>4. T \subseteq S \union {w.id} /\ S \ {w.id} \subseteq T
  BY <1>2 DEF WindowOrders
<1>5. IsFiniteSet(S) /\ Cardinality(S) \in Nat
  BY <1>1, FiniteOrders
<1>6. ~ (T \subseteq S)
  BY <1>5, FS_Subset, FS_CardinalityType
<1>7. w.id \in T /\ w.id \notin S /\ T = S \union {w.id}
  BY <1>4, <1>6
<1>8. Cardinality(T) = Cardinality(S) + 1
  BY <1>5, <1>7, FS_AddElement
<1>9. w.rec.module = "preorders" /\ w.rec.status \in HoldingPreorder /\ w.rec.where = window
  BY <1>2, <1>7 DEF WindowOrders
<1>10. Cardinality(S) < settings["preorders"].maxOrders
  BY <1>3, <1>7, <1>9 DEF RoomLeft
<1>11. settings["preorders"].maxOrders \in Nat
  BY <1>1 DEF TypeOK, CatalogOK, Settings, Modules
<1> QED
  BY <1>5, <1>8, <1>10, <1>11

\* No window ever takes an order beyond max_orders_per_slot as configured at that moment,
\* by confirmation or by moving a held order, whoever else confirms, moves or configures.
THEOREM WindowsHold == Spec => PickupCapacity
<1> DEFINE Held ==
      \A w \in Windows :
        /\ PickupWindowUsage(w, {})' > PickupWindowUsage(w, {})
        /\ settings["preorders"].maxOrders > 0
        => PickupWindowUsage(w, {})' <= settings["preorders"].maxOrders
<1>1. ASSUME RoomInv, [Next]_vars
      PROVE  [Held]_vars
  <2>1. \A w : /\ PickupWindowUsage(w, {}) = Cardinality(WindowOrders(w))
               /\ PickupWindowUsage(w, {})' = Cardinality(WindowOrders(w)')
    <3>1. ASSUME NEW w
          PROVE  /\ {i \in DOMAIN recs \ {} : /\ recs[i].module = "preorders"
                                              /\ recs[i].where = w
                                              /\ recs[i].status \in HoldingPreorder}
                      = WindowOrders(w)
                 /\ {i \in DOMAIN recs' \ {} : /\ recs'[i].module = "preorders"
                                               /\ recs'[i].where = w
                                               /\ recs'[i].status \in HoldingPreorder}
                      = WindowOrders(w)'
      BY DEF WindowOrders
    <3> QED
      BY <3>1 DEF PickupWindowUsage
  <2>2. CASE \E p \in Handlers \union Workers : Commit(p)
    BY <1>1, <2>1, <2>2, CommitRoom
  <2>3. CASE recs' = recs
    <3>1. TypeOK
      BY <1>1 DEF RoomInv, TablesInv, BookingInv
    <3>2. \A w : WindowOrders(w)' = WindowOrders(w)
      BY <2>3 DEF WindowOrders
    <3>3. \A w : Cardinality(WindowOrders(w)) \in Nat
      BY <3>1, FiniteOrders
    <3> QED
      BY <2>1, <3>2, <3>3
  <2>4. CASE \E p \in Handlers \union Workers : Taken(p)
    BY <1>1, <2>3, <2>4, TakenShaped, AcquireShape DEF RoomInv, TablesInv, BookingInv
  <2> QED
    BY <1>1, <2>2, <2>3, <2>4, StepShape DEF Quiet
<1>2. RoomInv /\ [Next]_vars => [Held]_vars
  BY <1>1
<1> QED
  BY <1>2, RoomInvariant, PTL DEF Spec, PickupCapacity

\* A commit that charges one confirmation more leaves the period within its quota.
LEMMA CommitQuota ==
  ASSUME RoomInv, NEW p \in Handlers \union Workers, Commit(p), NEW module, NEW period,
         NEW S, NEW T, S = PeriodUsage(module, period), T = PeriodUsage(module, period)',
         Cardinality(T) > Cardinality(S)
  PROVE  Cardinality(T) <= RequestLimit[sub.tier]
<1> DEFINE w == writing[p]
<1>1. BookingInv /\ TypeOK /\ p \in DOMAIN writing
  BY CommitShape DEF RoomInv, TablesInv, BookingInv
<1>2. usage' \subseteq usage \union w.use
  <2> HIDE DEF w
  <2>1. w = writing[p]
    BY DEF w
  <2> QED
    BY <1>1, <2>1, CommitTables
<1>3. WithinQuota(w)
  BY <1>1 DEF RoomInv
<1> HIDE DEF w
<1>4. S \subseteq usage
  BY DEF PeriodUsage
<1>5. IsFiniteSet(S) /\ Cardinality(S) \in Nat
  BY <1>4, FS_Subset, FS_CardinalityType DEF RoomInv
<1>6. ~ (T \subseteq S)
  BY <1>5, FS_Subset, FS_CardinalityType
<1>7. PICK u \in T : u \notin S
  BY <1>6
<1>8. u \in w.use /\ u.module = module /\ u.period = period
  BY <1>2, <1>7 DEF PeriodUsage
<1>9. T \subseteq S \union {u}
  <2>1. ASSUME NEW v \in T
        PROVE  v \in S \union {u}
    <3>1. v \in usage => v \in S
      BY <2>1 DEF PeriodUsage
    <3>2. v \in w.use => v = u
      BY <1>3, <1>8 DEF WithinQuota
    <3>3. v \in usage'
      BY <2>1 DEF PeriodUsage
    <3> QED
      BY <1>2, <3>1, <3>2, <3>3
  <2> QED
    BY <2>1
<1>10. IsFiniteSet(S \union {u}) /\ Cardinality(S \union {u}) = Cardinality(S) + 1
  BY <1>5, <1>7, FS_AddElement
<1>11. Cardinality(T) <= Cardinality(S) + 1 /\ Cardinality(T) \in Nat
  BY <1>9, <1>10, FS_Subset, FS_CardinalityType
<1>12. Cardinality(S) < RequestLimit[sub.tier]
  BY <1>3, <1>8 DEF WithinQuota
<1>13. RequestLimit[sub.tier] \in Nat
  BY <1>1, LimitsAssumption DEF TypeOK, CatalogOK, Subscription
<1> QED
  BY <1>5, <1>11, <1>12, <1>13

\* No period is ever charged more confirmations than the plan has when the confirmation
\* commits: a plan or a period that changes meanwhile waits for the lock.
THEOREM QuotaKept == Spec => QuotaRespected
<1> DEFINE Kept ==
      \A m \in Modules, period \in {sub.periodStart} :
        ModuleUsage(m, period)' > ModuleUsage(m, period)
        => ModuleUsage(m, period)' <= RequestLimit[sub.tier]
<1>1. ASSUME RoomInv, [Next]_vars
      PROVE  [Kept]_vars
  <2>1. \A m, period : /\ ModuleUsage(m, period) = Cardinality(PeriodUsage(m, period))
                       /\ ModuleUsage(m, period)' = Cardinality(PeriodUsage(m, period)')
    BY DEF ModuleUsage, PeriodUsage
  <2>2. CASE \E p \in Handlers \union Workers : Commit(p)
    BY <1>1, <2>1, <2>2, CommitQuota
  <2>3. CASE usage' = usage
    <3>1. \A m, period : PeriodUsage(m, period)' = PeriodUsage(m, period)
      BY <2>3 DEF PeriodUsage
    <3>2. \A m, period : Cardinality(PeriodUsage(m, period)) \in Nat
      <4>1. \A m, period : PeriodUsage(m, period) \subseteq usage
        BY DEF PeriodUsage
      <4> QED
        BY <1>1, <4>1, FS_Subset, FS_CardinalityType DEF RoomInv
    <3> QED
      BY <2>1, <3>1, <3>2
  <2>4. CASE \E p \in Handlers \union Workers : Taken(p)
    BY <1>1, <2>3, <2>4, TakenShaped, AcquireShape DEF RoomInv, TablesInv, BookingInv
  <2> QED
    BY <1>1, <2>2, <2>3, <2>4, StillShape DEF Still
<1>2. RoomInv /\ [Next]_vars => [Kept]_vars
  BY <1>1
<1> QED
  BY <1>2, RoomInvariant, PTL DEF Spec, QuotaRespected

-----------------------------------------------------------------------------
(* The passing of time *)

\* No request keeps its transaction open for longer than MaxOpen.
Timely ==
  \A p \in DOMAIN request : request[p].now <= clock /\ clock <= request[p].now + MaxOpen

LEMMA StepTimely ==
  ASSUME TypeOK, Timely, [Next]_vars
  PROVE  Timely'
<1>1. clock \in Nat /\ \A p \in DOMAIN request : request[p].now \in Nat
  BY BoundsAssumption DEF TypeOK, CatalogOK, ActorsOK
<1>2. ASSUME clock' = clock, DOMAIN request' \subseteq DOMAIN request,
             \A p \in DOMAIN request' : request'[p] = request[p]
      PROVE  Timely'
  BY <1>2 DEF Timely
<1>3. ASSUME NEW p \in Handlers, Handle(p)
      PROVE  Timely'
  <2>1. CASE ArriveCreate(p) \/ ArriveMutate(p)
    <3>1. PICK op : Begin(p, op)
      BY <2>1 DEF ArriveCreate, ArriveMutate
    <3>2. /\ clock' = clock /\ DOMAIN request' = DOMAIN request \union {p}
          /\ request'[p].now = clock
          /\ \A q \in DOMAIN request \ {p} : request'[q] = request[q]
      BY <3>1 DEF Begin, Put
    <3> QED
      BY <1>1, <3>2, BoundsAssumption DEF Timely
  <2>2. CASE AcquireCreate(p) \/ AcquireTransition(p) \/ AcquireEdit(p)
    BY <1>2, <2>2 DEF AcquireCreate, AcquireTransition, AcquireEdit, Acquire
  <2>3. CASE Commit(p) \/ Rollback(p)
    BY <1>2, <1>3, <2>3 DEF Commit, Rollback, Drop
  <2> QED
    BY <1>3, <2>1, <2>2, <2>3 DEF Handle
<1>4. ASSUME NEW w \in Workers, Work(w)
      PROVE  Timely'
  <2>1. clock' = clock /\ request' = request
    BY <1>4, ActorsAssumption
       DEF Work, ReadJob, SweepDue, AcquireExpire, Acquire, ExpireNothing, Commit, Ack,
           AbandonExpire, FailJob
  <2> QED
    BY <1>2, <2>1
<1>5. CASE Administer \/ CleanReplay \/ CleanAccess \/ UNCHANGED vars
  BY <1>2, <1>5 DEF Administer, ChangeSubscription, Configure, SaveService, SaveResource,
                    CleanReplay, CleanAccess, vars
<1>6. CASE Tick
  <2>1. /\ clock' = clock + 1 /\ request' = request
        /\ \A p \in DOMAIN request : clock - request[p].now < MaxOpen
    BY <1>6 DEF Tick
  <2> QED
    BY <1>1, <2>1, BoundsAssumption DEF Timely
<1> QED
  BY <1>3, <1>4, <1>5, <1>6 DEF Next

\* Between commits time may pass and replay rows that are over may be cleaned up.
Aging ==
  /\ clock' \in Nat /\ clock <= clock'
  /\ \A k \in DOMAIN replay :
       replay[k].expires < clock' \/ (k \in DOMAIN replay' /\ replay'[k] = replay[k])

LEMMA StepAges ==
  ASSUME TypeOK, [Next]_vars
  PROVE  \/ \E p \in Handlers \union Workers : Commit(p)
         \/ \E p \in Handlers \union Workers : Taken(p)
         \/ Still /\ Aging
<1>1. clock \in Nat /\ \A k \in DOMAIN replay : replay[k].expires \in Nat
  BY BoundsAssumption DEF TypeOK, CatalogOK, TablesOK
<1> SUFFICES (\E p \in Handlers \union Workers : Commit(p) \/ Taken(p)) \/ Aging
  BY StillShape
<1>2. replay' = replay /\ clock' = clock => Aging
  BY <1>1 DEF Aging
<1>3. ASSUME NEW p \in Handlers, Handle(p)
      PROVE  Commit(p) \/ Taken(p) \/ Aging
  BY <1>2, <1>3 DEF Handle, Taken, ArriveCreate, ArriveMutate, Begin, Rollback, tables
<1>4. ASSUME NEW w \in Workers, Work(w)
      PROVE  Commit(w) \/ Taken(w) \/ Aging
  BY <1>2, <1>4 DEF Work, Taken, ReadJob, SweepDue, ExpireNothing, Ack, AbandonExpire, FailJob,
                    tables
<1>5. CASE Administer \/ CleanAccess \/ UNCHANGED vars
  BY <1>2, <1>5 DEF Administer, ChangeSubscription, Configure, SaveService, SaveResource,
                    CleanAccess, tables, vars
<1>6. CASE Tick
  BY <1>1, <1>6 DEF Tick, tables, Aging
<1>7. CASE CleanReplay
  <2>1. /\ clock' = clock
        /\ DOMAIN replay' = {k \in DOMAIN replay : replay[k].expires >= clock}
        /\ \A k \in DOMAIN replay' : replay'[k] = replay[k]
    BY <1>7 DEF CleanReplay, Keep
  <2> QED
    BY <1>1, <2>1 DEF Aging
<1> QED
  BY <1>3, <1>4, <1>5, <1>6, <1>7 DEF Next

-----------------------------------------------------------------------------
(* The pending requests of a phone *)

\* Fewer are pending as time passes.
LEMMA PendingShrinks ==
  ASSUME TypeOK, NEW m, NEW phones, NEW now \in Nat, NEW later \in Nat, now <= later
  PROVE  /\ Pending(m, phones, later) \subseteq Pending(m, phones, now)
         /\ IsFiniteSet(Pending(m, phones, now))
         /\ Cardinality(Pending(m, phones, now)) \in Nat
<1>1. \A i \in DOMAIN recs : recs[i].expires \in Nat
  BY DEF TypeOK, TablesOK, Record
<1>2. Pending(m, phones, later) \subseteq Pending(m, phones, now)
  BY <1>1 DEF Pending
<1>3. Pending(m, phones, now) \subseteq DOMAIN recs
  BY DEF Pending
<1>4. IsFiniteSet(Pending(m, phones, now))
  BY <1>3, FiniteOrders, FS_Subset
<1> QED
  BY <1>2, <1>4, FS_CardinalityType

\* With the row it writes, the phone of a pending request is within its limit.
UnderLimit(w) ==
  w.rec.status = "requested" =>
    Cardinality(Pending(w.rec.module, {w.rec.phone}, clock) \union {w.id}) <= PhoneLimit

\* The inductive invariant.
PendingInv ==
  /\ TablesInv
  /\ Timely
  /\ PendingBounded
  /\ \A p \in DOMAIN writing : UnderLimit(writing[p])

LEMMA TakenPending ==
  ASSUME TypeOK, Timely, PendingBounded, NEW p \in Handlers \union Workers, Taken(p),
         NEW w, w = writing'[p]
  PROVE  UnderLimit(w)
<1>1. clock \in Nat /\ PhoneLimit \in Nat
  BY BoundsAssumption DEF TypeOK, CatalogOK
<1>2. CASE AcquireCreate(p)
  <2> DEFINE f == request[p].op.form
             now == request[p].now
  <2>1. /\ p \in DOMAIN request /\ WithinPendingLimit(f.module, f.phone, now)
        /\ w.rec = NewRecord(f, now)
    BY <1>2, CreateWrites
  <2>2. now \in Nat /\ now <= clock
    BY <2>1 DEF TypeOK, ActorsOK, Timely
  <2>3. w.rec.module = f.module /\ w.rec.phone = f.phone
    BY <2>1 DEF NewRecord
  <2> DEFINE S == Pending(f.module, {f.phone}, now)
             T == Pending(f.module, {f.phone}, clock)
  <2>4. T \subseteq S /\ IsFiniteSet(S) /\ Cardinality(S) \in Nat
    BY <1>1, <2>2, PendingShrinks
  <2>5. Cardinality(S) < PhoneLimit
    BY <2>1 DEF WithinPendingLimit
  <2> HIDE DEF S, T
  <2>6. IsFiniteSet(S \union {w.id}) /\ Cardinality(S \union {w.id}) <= Cardinality(S) + 1
    <3>1. /\ IsFiniteSet(S \union {w.id})
          /\ \/ Cardinality(S \union {w.id}) = Cardinality(S)
             \/ Cardinality(S \union {w.id}) = Cardinality(S) + 1
      BY <2>4, FS_AddElement
    <3> QED
      BY <2>4, <3>1
  <2>7. /\ Cardinality(T \union {w.id}) <= Cardinality(S \union {w.id})
        /\ Cardinality(T \union {w.id}) \in Nat /\ Cardinality(S \union {w.id}) \in Nat
    <3>1. T \union {w.id} \subseteq S \union {w.id}
      BY <2>4
    <3> QED
      BY <2>6, <3>1, FS_Subset, FS_CardinalityType
  <2>8. Cardinality(T \union {w.id}) <= PhoneLimit
    BY <1>1, <2>4, <2>5, <2>6, <2>7
  <2> QED
    BY <2>3, <2>8 DEF UnderLimit, T
<1>3. CASE AcquireTransition(p)
  <2> DEFINE op == request[p].op
             r == recs[op.id]
  <2>1. /\ p \in DOMAIN request /\ op.form.kind = "transition"
        /\ op.form.to \in Allowed(r.module, r.status)
        /\ w.rec = [r EXCEPT !.status = op.form.to, !.version = @ + 1]
    BY <1>3, TransitionWrites DEF TransitionRows
  <2>2. op.id \in DOMAIN recs
    BY <2>1, CallKinds DEF TypeOK, ActorsOK
  <2>3. w.rec.status = op.form.to
    BY <2>1, <2>2 DEF TypeOK, TablesOK, Record
  <2> QED
    BY <2>1, <2>3 DEF UnderLimit, Allowed, AppointmentNext, PreorderNext
<1>4. CASE AcquireEdit(p)
  <2> DEFINE op == request[p].op
             r == recs[op.id]
  <2>1. p \in DOMAIN request /\ op.form.kind = "edit" /\ w.id = op.id /\ ~ Lapsed(r)
    BY <1>4, EditWrites DEF EditRows
  <2>2. op.id \in DOMAIN recs /\ p \in Handlers
    BY <2>1, CallKinds DEF TypeOK, ActorsOK
  <2>3. r \in Record
    BY <2>2 DEF TypeOK, TablesOK
  <2>4. Edits(w)
    BY <1>4, <2>2, EditShaped
  <2>5. w.rec.status = r.status /\ w.rec.module = r.module /\ w.rec.phone = r.phone
    BY <2>1, <2>4 DEF Edits
  <2> HIDE DEF r
  <2>6. SUFFICES ASSUME r.status = "requested"
                 PROVE  Cardinality(Pending(r.module, {r.phone}, clock) \union {w.id})
                          <= PhoneLimit
    BY <2>5 DEF UnderLimit
  <2>7. clock < r.expires
    BY <1>1, <2>1, <2>3, <2>6 DEF Lapsed, Record
  <2>8. w.id \in Pending(r.module, {r.phone}, clock)
    BY <1>1, <2>1, <2>2, <2>3, <2>6, <2>7 DEF Pending, r, Record
  <2>9. Pending(r.module, {r.phone}, clock) \union {w.id} = Pending(r.module, {r.phone}, clock)
    BY <2>8
  <2>10. r.module \in Modules /\ r.phone \in Phones
    BY <2>3 DEF Record
  <2> QED
    BY <2>9, <2>10 DEF PendingBounded
<1>5. CASE AcquireExpire(p)
  BY <1>5, ExpireWrites DEF UnderLimit
<1> QED
  BY <1>2, <1>3, <1>4, <1>5 DEF Taken

\* Time only takes requests off the count.
LEMMA PendingStays ==
  ASSUME TypeOK, recs' = recs, clock' \in Nat, clock <= clock'
  PROVE  /\ PendingBounded => PendingBounded'
         /\ \A p, w : w = writing'[p] /\ UnderLimit(w) => UnderLimit(writing[p])'
<1>1. clock \in Nat /\ PhoneLimit \in Nat
  BY BoundsAssumption DEF TypeOK, CatalogOK
<1>2. ASSUME NEW m, NEW phones, NEW extra,
             Cardinality(Pending(m, phones, clock) \union {extra}) <= PhoneLimit
      PROVE  Cardinality(Pending(m, phones, clock') \union {extra}) <= PhoneLimit
  <2> DEFINE S == Pending(m, phones, clock)
             T == Pending(m, phones, clock')
  <2>1. T \subseteq S /\ IsFiniteSet(S)
    BY <1>1, PendingShrinks
  <2>2. IsFiniteSet(S \union {extra}) /\ T \union {extra} \subseteq S \union {extra}
    BY <2>1, FS_AddElement
  <2> HIDE DEF S, T
  <2>3. /\ Cardinality(T \union {extra}) <= Cardinality(S \union {extra})
        /\ Cardinality(T \union {extra}) \in Nat /\ Cardinality(S \union {extra}) \in Nat
    BY <2>2, FS_Subset, FS_CardinalityType
  <2> QED
    BY <1>1, <1>2, <2>3 DEF S, T
<1>3. ASSUME NEW m, NEW phones, Cardinality(Pending(m, phones, clock)) <= PhoneLimit
      PROVE  Cardinality(Pending(m, phones, clock')) <= PhoneLimit
  <2> DEFINE S == Pending(m, phones, clock)
             T == Pending(m, phones, clock')
  <2>1. T \subseteq S /\ IsFiniteSet(S)
    BY <1>1, PendingShrinks
  <2> HIDE DEF S, T
  <2>2. Cardinality(T) <= Cardinality(S) /\ Cardinality(T) \in Nat /\ Cardinality(S) \in Nat
    BY <2>1, FS_Subset, FS_CardinalityType
  <2> QED
    BY <1>1, <1>3, <2>2 DEF S, T
<1>4. ASSUME PendingBounded, NEW m \in Modules, NEW phone \in Phones, NEW T,
             T = {i \in DOMAIN recs' : /\ recs'[i].module = m /\ recs'[i].status = "requested"
                                       /\ recs'[i].expires > clock'
                                       /\ recs'[i].phone \in {phone}}
      PROVE  Cardinality(T) <= PhoneLimit
  <2>1. T = Pending(m, {phone}, clock')
    BY <1>4 DEF Pending
  <2>2. Cardinality(Pending(m, {phone}, clock)) <= PhoneLimit
    BY <1>4 DEF PendingBounded
  <2> QED
    BY <1>3, <2>1, <2>2
<1>5. PendingBounded => PendingBounded'
  BY <1>4 DEF PendingBounded, Pending
<1>6. ASSUME NEW p, NEW w, w = writing'[p], UnderLimit(w), w.rec.status = "requested", NEW T,
             T = {i \in DOMAIN recs' : /\ recs'[i].module = w.rec.module
                                       /\ recs'[i].status = "requested"
                                       /\ recs'[i].expires > clock'
                                       /\ recs'[i].phone \in {w.rec.phone}}
      PROVE  Cardinality(T \union {w.id}) <= PhoneLimit
  <2>1. T = Pending(w.rec.module, {w.rec.phone}, clock')
    BY <1>6 DEF Pending
  <2>2. Cardinality(Pending(w.rec.module, {w.rec.phone}, clock) \union {w.id}) <= PhoneLimit
    BY <1>6 DEF UnderLimit
  <2> QED
    BY <1>2, <2>1, <2>2
<1>7. ASSUME NEW p, NEW w, w = writing'[p], UnderLimit(w)
      PROVE  UnderLimit(writing[p])'
  BY <1>6, <1>7 DEF UnderLimit, Pending
<1> QED
  BY <1>5, <1>7

\* The row that is committed was counted when it was prepared.
LEMMA CommitPending ==
  ASSUME PendingInv, NEW p \in Handlers \union Workers, Commit(p)
  PROVE  PendingBounded'
<1> DEFINE w == writing[p]
<1>1. BookingInv /\ TypeOK /\ p \in DOMAIN writing
  BY CommitShape DEF PendingInv, TablesInv, BookingInv
<1>2. /\ DOMAIN recs' = DOMAIN recs \union {w.id} /\ recs'[w.id] = w.rec
      /\ \A i \in DOMAIN recs \ {w.id} : recs'[i] = recs[i]
      /\ clock' = clock
  BY <1>1, CommitShape DEF Commit
<1>3. UnderLimit(w)
  BY <1>1 DEF PendingInv
<1>4. clock \in Nat /\ PhoneLimit \in Nat
  BY <1>1, BoundsAssumption DEF TypeOK, CatalogOK
<1> HIDE DEF w
<1>5. ASSUME NEW m \in Modules, NEW phone \in Phones, NEW T,
             T = {i \in DOMAIN recs' : /\ recs'[i].module = m /\ recs'[i].status = "requested"
                                       /\ recs'[i].expires > clock'
                                       /\ recs'[i].phone \in {phone}}
      PROVE  Cardinality(T) <= PhoneLimit
  <2> DEFINE S == Pending(m, {phone}, clock)
  <2>1. T \subseteq S \union {w.id}
    BY <1>2, <1>5 DEF Pending
  <2>2. IsFiniteSet(S) /\ Cardinality(S) <= PhoneLimit
    BY <1>1, <1>4, PendingShrinks DEF PendingInv, PendingBounded
  <2>3. w.id \in T => Cardinality(S \union {w.id}) <= PhoneLimit
    <3>1. SUFFICES ASSUME w.id \in T
                   PROVE  Cardinality(S \union {w.id}) <= PhoneLimit
      OBVIOUS
    <3>2. w.rec.status = "requested" /\ w.rec.module = m /\ w.rec.phone = phone
      BY <1>2, <1>5, <3>1
    <3> QED
      BY <1>3, <3>2 DEF UnderLimit
  <2> HIDE DEF S
  <2>4. IsFiniteSet(S \union {w.id})
    BY <2>2, FS_AddElement
  <2>5. CASE w.id \in T
    <3>1. /\ Cardinality(T) <= Cardinality(S \union {w.id}) /\ Cardinality(T) \in Nat
          /\ Cardinality(S \union {w.id}) \in Nat
      BY <2>1, <2>4, FS_Subset, FS_CardinalityType
    <3> QED
      BY <1>4, <2>3, <2>5, <3>1
  <2>6. CASE w.id \notin T
    <3>1. T \subseteq S
      BY <2>1, <2>6
    <3>2. Cardinality(T) <= Cardinality(S) /\ Cardinality(T) \in Nat /\ Cardinality(S) \in Nat
      BY <2>2, <3>1, FS_Subset, FS_CardinalityType
    <3> QED
      BY <1>4, <2>2, <3>2
  <2> QED
    BY <2>5, <2>6
<1> QED
  BY <1>5 DEF PendingBounded, Pending

LEMMA StepPending ==
  ASSUME PendingInv, [Next]_vars
  PROVE  PendingInv'
<1>1. TablesInv' /\ Timely' /\ BookingInv /\ TypeOK
  BY StepTables, StepTimely DEF PendingInv, TablesInv, BookingInv
<1>2. clock \in Nat
  BY <1>1, BoundsAssumption DEF TypeOK, CatalogOK
<1>3. CASE \E p \in Handlers \union Workers : Commit(p)
  BY <1>1, <1>3, CommitPending, CommitShape DEF PendingInv
<1>4. CASE \E p \in Handlers \union Workers : Taken(p)
  <2>1. PICK p \in Handlers \union Workers : Taken(p)
    BY <1>4
  <2>2. DOMAIN writing' = {p} /\ UNCHANGED <<recs, clock>>
    BY <1>1, <2>1, TakenShaped, AcquireShape
  <2>3. UnderLimit(writing'[p])
    BY <1>1, <2>1, TakenPending DEF PendingInv
  <2>4. UnderLimit(writing[p])' /\ PendingBounded'
    BY <1>1, <1>2, <2>2, <2>3, PendingStays DEF PendingInv
  <2> QED
    BY <1>1, <2>2, <2>4 DEF PendingInv
<1>5. CASE Still /\ Aging
  <2>1. ASSUME NEW p \in DOMAIN writing'
        PROVE  UnderLimit(writing[p])'
    <3>1. UnderLimit(writing'[p])
      BY <1>5, <2>1 DEF Still, Quiet, PendingInv
    <3> QED
      BY <1>1, <1>5, <3>1, PendingStays DEF Still, Quiet, Aging
  <2>2. PendingBounded'
    BY <1>1, <1>5, PendingStays DEF Still, Quiet, Aging, PendingInv
  <2> QED
    BY <1>1, <2>1, <2>2 DEF PendingInv
<1> QED
  BY <1>1, <1>3, <1>4, <1>5, StepAges

LEMMA PendingInvariant == Spec => []PendingInv
<1>1. Init /\ TablesInv => PendingInv
  <2>1. ASSUME Init, TablesInv
        PROVE  PendingInv
    <3>1. \A m, phones : Pending(m, phones, clock) = {}
      BY <2>1 DEF Init, NoRows, Pending
    <3>2. PendingBounded
      BY <3>1, FS_EmptySet, BoundsAssumption DEF PendingBounded
    <3> QED
      BY <2>1, <3>2 DEF Init, NoRows, PendingInv, Timely
  <2> QED
    BY <2>1
<1>2. PendingInv /\ [Next]_vars => PendingInv'
  BY StepPending
<1> QED
  BY <1>1, <1>2, TablesInvariant, PTL DEF Spec

\* A phone never has more live pending requests in a module than pendingLimit allows,
\* although the limit is checked with the time of the BEGIN, and edits renew expiries.
THEOREM PhonesWithinLimit == Spec => []PendingBounded
<1>1. PendingInv => PendingBounded
  BY DEF PendingInv
<1> QED
  BY <1>1, PendingInvariant, PTL

-----------------------------------------------------------------------------
(* Idempotency keys *)

\* The key of the replay row of a creation.
CreationKey(f) == <<f.channel, "create", f.module, f.key>>

\* As long as the replay row of a creation may be wanted it is there, or a younger one is.
KeysHeld ==
  \A i \in DOMAIN recs :
    LET k == CreationKey(recs[i].origin)
        over == recs[i].created + ReplayTTL
    IN  over < clock \/ (k \in DOMAIN replay /\ replay[k].expires >= over)

\* A creation brings its row and repeats no live one: the older records of its key are
\* older by the life of a row, less the time the transaction may have been open.  The
\* row of any other call does not replace that of a creation.
FreshKey(w) ==
  IF w.id \in DOMAIN recs
  THEN \A x \in w.row, i \in DOMAIN recs : x.key # CreationKey(recs[i].origin)
  ELSE /\ w.row # {}
       /\ \A x \in w.row : /\ x.key = CreationKey(w.rec.origin)
                           /\ x.expires = w.rec.created + ReplayTTL
       /\ \A i \in DOMAIN recs :
            CreationKey(recs[i].origin) = CreationKey(w.rec.origin) =>
              recs[i].created + ReplayTTL <= w.rec.created + MaxOpen

\* The inductive invariant.
KeysInv ==
  /\ TablesInv
  /\ Timely
  /\ KeysHeld
  /\ CreatedOncePerKey
  /\ \A p \in DOMAIN writing : FreshKey(writing[p])

\* The keys of calls on records are not those of creations.
LEMMA KeyKinds ==
  ASSUME NEW op
  PROVE  /\ op.form.kind = "create" => ReplayKey(op) = CreationKey(op.form)
         /\ op.form.kind \in {"transition", "edit"} =>
              \A f : ReplayKey(op) # CreationKey(f)
  BY DEF ReplayKey, CreationKey

\* Taking the lock: the stored response of an earlier call with the key is over by the
\* time of the BEGIN, or its row has been cleaned up since.
LEMMA TakenKey ==
  ASSUME TypeOK, Timely, KeysHeld, NEW p \in Handlers \union Workers, Taken(p),
         NEW w, w = writing'[p]
  PROVE  FreshKey(w)
<1>1. CASE AcquireCreate(p)
  <2> DEFINE op == request[p].op
             now == request[p].now
  <2>1. /\ p \in DOMAIN request /\ op.form.kind = "create" /\ ~ Stored(op, now)
        /\ w.id \notin DOMAIN recs /\ w.rec = NewRecord(op.form, now)
        /\ w.row = ReplayRow(op, now, w.id)
    BY <1>1, CreateWrites
  <2>2. now \in Nat /\ now <= clock /\ clock <= now + MaxOpen
    BY <2>1 DEF TypeOK, ActorsOK, Timely
  <2>3. w.rec.origin = op.form /\ w.rec.created = now
    BY <2>1 DEF NewRecord
  <2>4. ReplayKey(op) = CreationKey(op.form)
    BY <2>1, KeyKinds
  <2> HIDE DEF op, now
  <2>5. /\ w.row # {}
        /\ \A x \in w.row : x.key = CreationKey(w.rec.origin)
                            /\ x.expires = w.rec.created + ReplayTTL
    BY <2>1, <2>3, <2>4 DEF ReplayRow
  <2>6. ASSUME NEW i \in DOMAIN recs, CreationKey(recs[i].origin) = CreationKey(w.rec.origin)
        PROVE  recs[i].created + ReplayTTL <= w.rec.created + MaxOpen
    <3> DEFINE k == CreationKey(op.form)
               over == recs[i].created + ReplayTTL
    <3>1. over \in Nat /\ clock \in Nat /\ MaxOpen \in Nat
      BY BoundsAssumption DEF TypeOK, CatalogOK, TablesOK, Record
    <3>2. over < clock \/ (k \in DOMAIN replay /\ replay[k].expires >= over)
      BY <2>3, <2>6 DEF KeysHeld
    <3>3. k \in DOMAIN replay => replay[k].expires \in Nat /\ replay[k].expires <= now
      <4>1. k \in DOMAIN replay => replay[k].expires \in Nat
        BY DEF TypeOK, TablesOK
      <4>2. k \in DOMAIN replay => ~ (replay[k].expires > now)
        BY <2>1, <2>4 DEF Stored
      <4> QED
        BY <2>2, <4>1, <4>2
    <3> HIDE DEF k, over
    <3>4. over <= now + MaxOpen
      BY <2>2, <3>1, <3>2, <3>3
    <3> QED
      BY <2>3, <3>4 DEF over
  <2> QED
    BY <2>1, <2>5, <2>6 DEF FreshKey
<1>2. CASE AcquireTransition(p)
  <2> DEFINE op == request[p].op
  <2>1. /\ p \in DOMAIN request /\ op.form.kind = "transition" /\ w.id = op.id
        /\ w.row = ReplayRow(op, request[p].now, w.id)
    BY <1>2, TransitionWrites DEF TransitionRows
  <2>2. op.id \in DOMAIN recs
    BY <2>1, CallKinds DEF TypeOK, ActorsOK
  <2>3. \A x \in w.row : \A f : x.key # CreationKey(f)
    BY <2>1, KeyKinds DEF ReplayRow
  <2> QED
    BY <2>1, <2>2, <2>3 DEF FreshKey
<1>3. CASE AcquireEdit(p)
  <2> DEFINE op == request[p].op
  <2>1. /\ p \in DOMAIN request /\ op.form.kind = "edit" /\ w.id = op.id
        /\ w.row = ReplayRow(op, request[p].now, w.id)
    BY <1>3, EditWrites DEF EditRows
  <2>2. op.id \in DOMAIN recs
    BY <2>1, CallKinds DEF TypeOK, ActorsOK
  <2>3. \A x \in w.row : \A f : x.key # CreationKey(f)
    BY <2>1, KeyKinds DEF ReplayRow
  <2> QED
    BY <2>1, <2>2, <2>3 DEF FreshKey
<1>4. CASE AcquireExpire(p)
  BY <1>4, ExpireWrites DEF FreshKey
<1> QED
  BY <1>1, <1>2, <1>3, <1>4 DEF Taken

\* A commit stores the row of its call.
LEMMA CommitReplay ==
  ASSUME NEW p, Commit(p), NEW w, w = writing[p]
  PROVE  IF w.row = {} THEN replay' = replay
         ELSE \E x \in w.row :
                /\ DOMAIN replay' = DOMAIN replay \union {x.key}
                /\ replay'[x.key].expires = x.expires
                /\ \A k \in DOMAIN replay \ {x.key} : replay'[k] = replay[k]
<1>1. Apply(w)
  BY DEF Commit
<1>2. CASE w.row = {}
  BY <1>1, <1>2 DEF Apply
<1>3. CASE w.row # {}
  <2> DEFINE x == CHOOSE x \in w.row : TRUE
  <2>1. x \in w.row
    BY <1>3
  <2>2. replay' = Put(replay, x.key, [form |-> x.form, id |-> x.id, expires |-> x.expires])
    BY <1>1, <1>3 DEF Apply
  <2> HIDE DEF x
  <2>3. /\ DOMAIN replay' = DOMAIN replay \union {x.key}
        /\ replay'[x.key].expires = x.expires
        /\ \A k \in DOMAIN replay \ {x.key} : replay'[k] = replay[k]
    BY <2>2 DEF Put
  <2> QED
    BY <1>3, <2>1, <2>3
<1> QED
  BY <1>2, <1>3

\* Only a creation adds a record to those of a key.
LEMMA CommitKeys ==
  ASSUME KeysInv, NEW p \in Handlers \union Workers, Commit(p)
  PROVE  KeysHeld' /\ CreatedOncePerKey'
<1> DEFINE w == writing[p]
<1>1. BookingInv /\ TypeOK /\ p \in DOMAIN writing
  BY CommitShape DEF KeysInv, TablesInv, BookingInv
<1>2. /\ DOMAIN recs' = DOMAIN recs \union {w.id} /\ recs'[w.id] = w.rec
      /\ \A i \in DOMAIN recs \ {w.id} : recs'[i] = recs[i]
      /\ clock' = clock
  BY <1>1, CommitShape DEF Commit
<1>3. /\ FreshKey(w) /\ Shaped(w) /\ w.rec \in Record
      /\ w.row \subseteq [key: ReplayKeys, form: Forms, id: Ids, expires: Time]
  BY <1>1 DEF KeysInv, TablesInv, WriteShaped, TypeOK, ActorsOK, WriteSet
<1>4. IF w.row = {} THEN replay' = replay
      ELSE \E x \in w.row :
             /\ DOMAIN replay' = DOMAIN replay \union {x.key}
             /\ replay'[x.key].expires = x.expires
             /\ \A k \in DOMAIN replay \ {x.key} : replay'[k] = replay[k]
  <2> HIDE DEF w
  <2>1. w = writing[p]
    BY DEF w
  <2> QED
    BY <2>1, CommitReplay
<1> HIDE DEF w
<1>5. /\ \A i \in DOMAIN recs : recs[i] \in Record
      /\ clock \in Nat /\ MaxOpen \in Nat /\ ReplayTTL \in Nat /\ MaxOpen < ReplayTTL
      /\ \A k \in DOMAIN replay : replay[k].expires \in Nat
  BY <1>1, BoundsAssumption DEF TypeOK, CatalogOK, TablesOK
<1>6. CASE w.id \in DOMAIN recs
  <2>1. w.rec.origin = recs[w.id].origin /\ w.rec.created = recs[w.id].created
    <3>1. recs[w.id] \in Record
      BY <1>5, <1>6
    <3>2. Decides(w) \/ Edits(w)
      BY <1>3, <1>6 DEF Shaped, Creates
    <3> QED
      BY <3>1, <3>2 DEF Decides, Edits, Record
  <2>2. /\ DOMAIN recs' = DOMAIN recs
        /\ \A i \in DOMAIN recs : /\ recs'[i].origin = recs[i].origin
                                  /\ recs'[i].created = recs[i].created
    BY <1>2, <1>6, <2>1
  <2>3. \A x \in w.row, i \in DOMAIN recs : x.key # CreationKey(recs[i].origin)
    BY <1>3, <1>6 DEF FreshKey
  <2>4. ASSUME NEW i \in DOMAIN recs
        PROVE  LET k == CreationKey(recs[i].origin)
               IN  k \in DOMAIN replay => k \in DOMAIN replay' /\ replay'[k] = replay[k]
    BY <1>4, <2>3
  <2>5. KeysHeld'
    BY <1>2, <2>2, <2>4 DEF KeysInv, KeysHeld, CreationKey
  <2>6. CreatedOncePerKey'
    BY <2>2 DEF KeysInv, CreatedOncePerKey
  <2> QED
    BY <2>5, <2>6
<1>7. CASE w.id \notin DOMAIN recs
  <2> DEFINE k == CreationKey(w.rec.origin)
             over == w.rec.created + ReplayTTL
  <2>1. PICK x \in w.row :
          /\ x.key = k /\ x.expires = over
          /\ DOMAIN replay' = DOMAIN replay \union {k} /\ replay'[k].expires = over
          /\ \A l \in DOMAIN replay \ {k} : replay'[l] = replay[l]
    BY <1>3, <1>4, <1>7 DEF FreshKey
  <2>2. w.rec.created \in Nat /\ over \in Nat /\ \A i \in DOMAIN recs : recs[i].created \in Nat
    BY <1>3, <1>5 DEF Record
  <2>3. \A i \in DOMAIN recs :
          CreationKey(recs[i].origin) = k =>
            recs[i].created + ReplayTTL <= w.rec.created + MaxOpen
    BY <1>3, <1>7 DEF FreshKey
  <2>4. ASSUME NEW i \in DOMAIN recs'
        PROVE  LET l == CreationKey(recs'[i].origin)
                   gone == recs'[i].created + ReplayTTL
               IN  gone < clock \/ (l \in DOMAIN replay' /\ replay'[l].expires >= gone)
    <3>1. CASE i = w.id
      BY <1>2, <2>1, <2>2, <3>1
    <3>2. CASE i # w.id /\ CreationKey(recs[i].origin) = k
      <4>1. i \in DOMAIN recs /\ recs'[i] = recs[i]
        BY <1>2, <2>4, <3>2
      <4>2. recs[i].created + ReplayTTL <= over
        BY <1>5, <2>2, <2>3, <3>2, <4>1
      <4> HIDE DEF k, over
      <4> QED
        BY <2>1, <3>2, <4>1, <4>2
    <3>3. CASE i # w.id /\ CreationKey(recs[i].origin) # k
      <4>1. i \in DOMAIN recs /\ recs'[i] = recs[i]
        BY <1>2, <2>4, <3>3
      <4> HIDE DEF k, over
      <4> QED
        BY <2>1, <3>3, <4>1 DEF KeysInv, KeysHeld
    <3> QED
      BY <3>1, <3>2, <3>3
  <2>5. KeysHeld'
    BY <1>2, <2>4 DEF KeysHeld, CreationKey
  <2>6. \A i \in DOMAIN recs :
          recs[i].origin = w.rec.origin =>
            w.rec.created + MaxOpen >= recs[i].created + ReplayTTL
    BY <1>5, <2>2, <2>3
  <2>7. ASSUME NEW i \in DOMAIN recs', NEW j \in DOMAIN recs', i # j,
               recs'[i].origin = recs'[j].origin
        PROVE  \/ recs'[i].created + MaxOpen >= recs'[j].created + ReplayTTL
               \/ recs'[j].created + MaxOpen >= recs'[i].created + ReplayTTL
    BY <1>2, <2>6, <2>7 DEF KeysInv, CreatedOncePerKey
  <2> QED
    BY <2>5, <2>7 DEF CreatedOncePerKey
<1> QED
  BY <1>6, <1>7

\* Between commits only rows that are over go.
LEMMA StillKeys ==
  ASSUME KeysInv, recs' = recs, Aging
  PROVE  KeysHeld' /\ CreatedOncePerKey'
<1>1. /\ clock \in Nat /\ \A i \in DOMAIN recs : recs[i].created + ReplayTTL \in Nat
      /\ \A k \in DOMAIN replay : replay[k].expires \in Nat
  BY BoundsAssumption
     DEF KeysInv, TablesInv, BookingInv, TypeOK, CatalogOK, TablesOK, Record
<1>2. ASSUME NEW i \in DOMAIN recs
      PROVE  LET k == CreationKey(recs[i].origin)
                 over == recs[i].created + ReplayTTL
             IN  over < clock' \/ (k \in DOMAIN replay' /\ replay'[k].expires >= over)
  <2> DEFINE k == CreationKey(recs[i].origin)
             over == recs[i].created + ReplayTTL
  <2>1. over < clock \/ (k \in DOMAIN replay /\ replay[k].expires >= over)
    BY DEF KeysInv, KeysHeld
  <2>2. over \in Nat
    BY <1>1
  <2> HIDE DEF k, over
  <2>3. over < clock' \/ (k \in DOMAIN replay' /\ replay'[k].expires >= over)
    BY <1>1, <2>1, <2>2 DEF Aging
  <2> QED
    BY <2>3 DEF k, over
<1>3. KeysHeld'
  BY <1>2 DEF KeysHeld, CreationKey
<1> QED
  BY <1>3 DEF KeysInv, CreatedOncePerKey

LEMMA FreshStays ==
  ASSUME recs' = recs, NEW p, NEW w, w = writing'[p], FreshKey(w)
  PROVE  FreshKey(writing[p])'
  BY DEF FreshKey, CreationKey

LEMMA StepKeys ==
  ASSUME KeysInv, [Next]_vars
  PROVE  KeysInv'
<1>1. TablesInv' /\ Timely' /\ BookingInv /\ TypeOK
  BY StepTables, StepTimely DEF KeysInv, TablesInv, BookingInv
<1>2. CASE \E p \in Handlers \union Workers : Commit(p)
  BY <1>1, <1>2, CommitKeys, CommitShape DEF KeysInv
<1>3. CASE \E p \in Handlers \union Workers : Taken(p)
  <2>1. PICK p \in Handlers \union Workers : Taken(p)
    BY <1>3
  <2>2. DOMAIN writing' = {p} /\ UNCHANGED <<recs, clock, replay>>
    BY <1>1, <2>1, TakenShaped, AcquireShape
  <2>3. FreshKey(writing'[p])
    BY <1>1, <2>1, TakenKey DEF KeysInv
  <2>4. Aging
    BY <1>1, <2>2, BoundsAssumption DEF Aging, TypeOK, CatalogOK
  <2>5. FreshKey(writing[p])' /\ KeysHeld' /\ CreatedOncePerKey'
    BY <2>2, <2>3, <2>4, FreshStays, StillKeys
  <2> QED
    BY <1>1, <2>2, <2>5 DEF KeysInv
<1>4. CASE Still /\ Aging
  <2>1. ASSUME NEW p \in DOMAIN writing'
        PROVE  FreshKey(writing[p])'
    <3>1. FreshKey(writing'[p])
      BY <1>4, <2>1 DEF Still, Quiet, KeysInv
    <3> QED
      BY <1>4, <3>1, FreshStays DEF Still, Quiet
  <2>2. KeysHeld' /\ CreatedOncePerKey'
    BY <1>4, StillKeys DEF Still, Quiet
  <2> QED
    BY <1>1, <2>1, <2>2 DEF KeysInv
<1> QED
  BY <1>1, <1>2, <1>3, <1>4, StepAges

LEMMA KeysInvariant == Spec => []KeysInv
<1>1. Init /\ TablesInv => KeysInv
  BY DEF Init, NoRows, KeysInv, Timely, KeysHeld, CreatedOncePerKey
<1>2. KeysInv /\ [Next]_vars => KeysInv'
  BY StepKeys
<1> QED
  BY <1>1, <1>2, TablesInvariant, PTL DEF Spec

\* Two records made from one body with one Idempotency-Key are as far apart as a replay
\* row lives, less the time a transaction may stay open, however late the row is cleaned up.
THEOREM OncePerKey == Spec => []CreatedOncePerKey
<1>1. KeysInv => CreatedOncePerKey
  BY DEF KeysInv
<1> QED
  BY <1>1, KeysInvariant, PTL
=============================================================================
