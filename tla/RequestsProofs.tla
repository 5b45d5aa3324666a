--------------------------- MODULE RequestsProofs ---------------------------
(***************************************************************************)
(* Proofs about Requests, for any number of handlers, workers, requests,   *)
(* resources and windows and any values of the settings and of the plan.   *)
(***************************************************************************)
EXTENDS Requests, TLAPS

USE DEF Time

-----------------------------------------------------------------------------
(* Tables *)

\* Putting a row of the right type into a table keeps it well typed.
LEMMA PutType ==
  ASSUME NEW S, NEW table, table \in [DOMAIN table -> S], NEW key, NEW row \in S
  PROVE  Put(table, key, row) \in [DOMAIN table \union {key} -> S]
  BY DEF Put

\* So does deleting rows.
LEMMA DropType ==
  ASSUME NEW S, NEW table, table \in [DOMAIN table -> S], NEW key
  PROVE  /\ DOMAIN Drop(table, key) = DOMAIN table \ {key}
         /\ Drop(table, key) \in [DOMAIN table \ {key} -> S]
         /\ \A k \in DOMAIN table \ {key} : Drop(table, key)[k] = table[k]
  BY DEF Drop

\* And so does keeping some of them.
LEMMA KeepType ==
  ASSUME NEW S, NEW table, table \in [DOMAIN table -> S], NEW keys
  PROVE  Keep(table, keys) \in [DOMAIN table \intersect keys -> S]
  BY DEF Keep

-----------------------------------------------------------------------------
(* Rows *)

\* The record create inserts is well typed.
LEMMA NewRecordType ==
  ASSUME CatalogOK, NEW f \in CreateForms, NEW now \in Time
  PROVE  NewRecord(f, now) \in Record
<1>1. f \in CreateForm
  BY FormsAssumption
<1>2. settings[f.module].ttl \in Nat /\ clock \in Nat
  BY <1>1, BoundsAssumption DEF CatalogOK, CreateForm, Settings
<1>3. CASE f.module = "appointments"
  <2>1. f.service \in Services
    BY <1>3, PlacesAssumption
  <2>2. services[f.service].duration \in Nat \ {0} /\ services[f.service].buffer \in Nat
    BY <2>1 DEF CatalogOK, Service
  <2>3. PendingExpiration(f.start, f.module) \in Nat
    BY <1>1, <1>2 DEF PendingExpiration, Earlier, CreateForm
  <2>4. f.start < f.start + services[f.service].duration
    BY <1>1, <2>2 DEF CreateForm
  <2>5. "requested" \in Statuses
    BY DEF Statuses, AppointmentStatuses
  <2> QED
    BY <1>1, <1>3, <2>2, <2>3, <2>4, <2>5 DEF NewRecord, Record, CreateForm
<1>4. CASE f.module # "appointments"
  <2>1. f.where \in Windows
    BY <1>4, PlacesAssumption
  <2>2. /\ WindowStart[f.where] \in Nat /\ WindowEnd[f.where] \in Nat
        /\ WindowStart[f.where] < WindowEnd[f.where]
    BY <2>1, PlacesAssumption
  <2>3. PendingExpiration(WindowStart[f.where], f.module) \in Nat
    BY <2>2, <1>2 DEF PendingExpiration, Earlier
  <2>4. "requested" \in Statuses
    BY DEF Statuses, AppointmentStatuses
  <2> QED
    BY <1>1, <1>4, <2>2, <2>3, <2>4 DEF NewRecord, Record, CreateForm
<1> QED
  BY <1>3, <1>4

\* So is a record after a transition ...
LEMMA DecidedType ==
  ASSUME NEW r \in Record, NEW status \in Statuses
  PROVE  /\ [r EXCEPT !.status = status, !.version = @ + 1] \in Record
         /\ [r EXCEPT !.version = @ + 1] \in Record
<1>1. r.version + 1 \in Nat /\ r.start < r.ends
  BY DEF Record
<1>2. ASSUME NEW v \in Nat
      PROVE  /\ [r EXCEPT !.status = status, !.version = v] \in Record
             /\ [r EXCEPT !.version = v] \in Record
  BY <1>1 DEF Record
<1> QED
  BY <1>1, <1>2

\* ... and after an edit that moves it to a place of its module.
LEMMA MovedType ==
  ASSUME CatalogOK, NEW r \in Record, NEW f \in EditForm,
         f.where \in IF r.module = "appointments" THEN Resources ELSE Windows
  PROVE  Moved(r, f) \in Record
<1> DEFINE start == IF r.module = "appointments" THEN f.start ELSE WindowStart[f.where]
           ends == IF r.module = "appointments" THEN start + (r.ends - r.start)
                                                ELSE WindowEnd[f.where]
           expires == IF r.status = "requested" THEN PendingExpiration(start, r.module)
                                                ELSE r.expires
<1>1. start \in Nat /\ ends \in Nat /\ start < ends
  BY PlacesAssumption DEF Record, EditForm
<1>2. settings[r.module].ttl \in Nat /\ clock \in Nat
  BY BoundsAssumption DEF CatalogOK, Record, Settings
<1>3. expires \in Nat
  BY <1>1, <1>2 DEF PendingExpiration, Earlier, Record
<1>4. f.where \in Places
  BY DEF Places
<1>5. Moved(r, f) =
        [r EXCEPT !.where = f.where, !.start = start, !.ends = ends, !.expires = expires]
  BY DEF Moved
<1> HIDE DEF start, ends, expires
<1> QED
  BY <1>1, <1>3, <1>4, <1>5 DEF Record

\* Which of the two kinds of call a handler serves shows in its body.
LEMMA CallKinds ==
  ASSUME NEW op \in Creation \union Call
  PROVE  /\ op.form.kind = "create" => op \in Creation /\ op.form \in CreateForm
         /\ op.form.kind # "create" => op \in Call /\ op.id \in Ids
         /\ op.form.kind = "transition" => op.form \in TransitionForm
         /\ op.form.kind = "edit" => op.form \in EditForm
         /\ op.form.kind \in {"create", "transition", "edit"}
<1>1. CASE op \in Creation
  BY <1>1, FormsAssumption DEF Creation, CreateForm
<1>2. CASE op \in Call
  <2>1. op.form \in TransitionForm \union EditForm /\ op.id \in Ids
    BY <1>2, FormsAssumption DEF Call
  <2> QED
    BY <1>2, <2>1 DEF TransitionForm, EditForm
<1> QED
  BY <1>1, <1>2

\* The idempotency row of a call is well typed.
LEMMA ReplayRowType ==
  ASSUME NEW op \in Creation \union Call, NEW now \in Time, NEW id \in Ids
  PROVE  ReplayRow(op, now, id) \in
           SUBSET [key: ReplayKeys, form: Forms, id: Ids, expires: Time]
<1>1. now + ReplayTTL \in Time
  BY BoundsAssumption
<1>2. op.form \in Forms
  BY CallKinds DEF Forms
<1>3. ReplayKey(op) \in ReplayKeys
  <2>1. CASE op.form.kind = "create"
    BY <2>1, CallKinds DEF ReplayKey, ReplayKeys, CreateForm
  <2>2. CASE op.form.kind = "transition"
    BY <2>2, CallKinds DEF ReplayKey, ReplayKeys, TransitionForm
  <2>3. CASE op.form.kind = "edit"
    BY <2>3, CallKinds DEF ReplayKey, ReplayKeys, EditForm, Channels
  <2> QED
    BY <2>1, <2>2, <2>3, CallKinds
<1> QED
  BY <1>1, <1>2, <1>3 DEF ReplayRow

-----------------------------------------------------------------------------
(* Steps *)

\* Taking the lock with well-typed rows to write preserves the types.
LEMMA AcquireType ==
  ASSUME TypeOK, NEW p \in DOMAIN request \union DOMAIN expiring,
         p \in DOMAIN expiring => ~ expiring[p].done,
         NEW writes \in WriteSet, Acquire(p, writes)
  PROVE  TypeOK'
<1>1. writing' \in [DOMAIN writing \union {p} -> WriteSet]
  BY PutType DEF TypeOK, ActorsOK, Acquire
<1>2. DOMAIN writing' \subseteq DOMAIN request \union DOMAIN expiring
  BY <1>1 DEF TypeOK, ActorsOK
<1>3. CatalogOK' /\ TablesOK'
  BY DEF TypeOK, CatalogOK, TablesOK, Acquire, catalogVars, tables, queue
<1>4. \A w \in DOMAIN expiring : expiring[w].done => w \notin DOMAIN writing'
  BY <1>1 DEF TypeOK, ActorsOK
<1>5. ActorsOK'
  BY <1>1, <1>2, <1>4 DEF TypeOK, ActorsOK, Acquire, tables
<1> QED
  BY <1>3, <1>5 DEF TypeOK

\* The arrival of a call preserves the types.
LEMMA BeginType ==
  ASSUME TypeOK, NEW p \in Handlers, NEW op \in Creation \union Call, Begin(p, op),
         op \in Call => op.id \in DOMAIN recs
  PROVE  TypeOK'
<1> DEFINE row == [op |-> op, now |-> clock]
<1>1. row \in [op: Creation \union Call, now: Time]
  BY BoundsAssumption DEF TypeOK, CatalogOK
<1>2. /\ DOMAIN request' = DOMAIN request \union {p}
      /\ request' \in [DOMAIN request' -> [op: Creation \union Call, now: Time]]
      /\ request'[p] = row
      /\ \A q \in DOMAIN request' \ {p} : request'[q] = request[q]
  <2>1. request \in [DOMAIN request -> [op: Creation \union Call, now: Time]]
    BY DEF TypeOK, ActorsOK
  <2>2. request' = Put(request, p, row)
    BY DEF Begin
  <2>3. request' \in [DOMAIN request \union {p} -> [op: Creation \union Call, now: Time]]
    BY <1>1, <2>1, <2>2, PutType
  <2>4. DOMAIN request' = DOMAIN request \union {p}
    BY <2>3
  <2> HIDE DEF row
  <2>5. request'[p] = row /\ \A q \in DOMAIN request \ {p} : request'[q] = request[q]
    BY <2>2 DEF Put
  <2> QED
    BY <2>3, <2>4, <2>5
<1>3. CatalogOK' /\ TablesOK'
  BY DEF TypeOK, CatalogOK, TablesOK, Begin, catalogVars, tables, queue
<1>4. \A q \in DOMAIN request' : request'[q].op \in Call => request'[q].op.id \in DOMAIN recs
  BY <1>2 DEF TypeOK, ActorsOK
<1>5. ActorsOK'
  BY <1>2, <1>4 DEF TypeOK, ActorsOK, Begin, tables
<1> QED
  BY <1>3, <1>5 DEF TypeOK

\* A new attempt to expire a record preserves the types.
LEMMA AttemptType ==
  ASSUME TypeOK, NEW w \in Workers, NEW id \in DOMAIN recs, NEW from \in SUBSET Job,
         expiring' = Put(expiring, w, [id |-> id, from |-> from, done |-> FALSE]),
         UNCHANGED <<clock, sub, catalogVars, tables, queue, request, writing>>
  PROVE  TypeOK'
<1>1. /\ DOMAIN expiring' = DOMAIN expiring \union {w}
      /\ expiring' \in [DOMAIN expiring' -> [id: DOMAIN recs, from: SUBSET Job, done: BOOLEAN]]
  <2> DEFINE Attempts == [id: DOMAIN recs, from: SUBSET Job, done: BOOLEAN]
  <2>1. [id |-> id, from |-> from, done |-> FALSE] \in Attempts
    OBVIOUS
  <2>2. expiring \in [DOMAIN expiring -> Attempts]
    BY DEF TypeOK, ActorsOK
  <2> HIDE DEF Attempts
  <2>3. expiring' \in [DOMAIN expiring \union {w} -> Attempts]
    BY <2>1, <2>2, PutType
  <2> QED
    BY <2>3 DEF Attempts
<1>2. CatalogOK' /\ TablesOK'
  BY DEF TypeOK, CatalogOK, TablesOK, catalogVars, tables, queue
<1>3. \A v \in DOMAIN expiring' : expiring'[v].done => v \notin DOMAIN writing
  BY DEF Put, TypeOK, ActorsOK
<1>4. ActorsOK'
  BY <1>1, <1>3 DEF TypeOK, ActorsOK, tables
<1> QED
  BY <1>2, <1>4 DEF TypeOK

\* So does an attempt that finds nothing to expire.
LEMMA ExpireNothingType ==
  ASSUME TypeOK, NEW w \in Workers, ExpireNothing(w)
  PROVE  TypeOK'
<1>1. /\ w \in DOMAIN expiring \ DOMAIN writing
      /\ expiring' = [expiring EXCEPT ![w] = [expiring[w] EXCEPT !.done = TRUE]]
  BY DEF ExpireNothing
<1>2. DOMAIN expiring' = DOMAIN expiring
  BY <1>1
<1>3. expiring' \in [DOMAIN expiring -> [id: DOMAIN recs, from: SUBSET Job, done: BOOLEAN]]
  BY <1>1 DEF TypeOK, ActorsOK
<1>4. \A v \in DOMAIN expiring : expiring'[v].done => v \notin DOMAIN writing
  BY <1>1 DEF TypeOK, ActorsOK
<1>5. CatalogOK' /\ TablesOK'
  BY DEF ExpireNothing, TypeOK, CatalogOK, TablesOK, catalogVars, tables, queue
<1>6. ActorsOK'
  BY <1>2, <1>3, <1>4 DEF ExpireNothing, TypeOK, ActorsOK, tables
<1> QED
  BY <1>5, <1>6 DEF TypeOK

\* So does the end of an attempt, successful or not, with the message archived,
\* moved to the failed queue or left for another delivery.
LEMMA DetachType ==
  ASSUME TypeOK, NEW w \in Workers, expiring' = Drop(expiring, w),
         writing' = Drop(writing, w) \/ (writing' = writing /\ w \notin DOMAIN writing),
         jobs' \subseteq jobs, failed' \subseteq failed \union Job,
         UNCHANGED <<clock, sub, catalogVars, tables, request>>
  PROVE  TypeOK'
<1> DEFINE Attempts == [id: DOMAIN recs, from: SUBSET Job, done: BOOLEAN]
<1>1. expiring' \in [DOMAIN expiring \ {w} -> Attempts]
  <2>1. expiring \in [DOMAIN expiring -> Attempts]
    BY DEF TypeOK, ActorsOK
  <2> HIDE DEF Attempts
  <2> QED
    BY <2>1, DropType
<1>2. writing' \in [DOMAIN writing \ {w} -> WriteSet]
  <2>1. writing \in [DOMAIN writing -> WriteSet]
    BY DEF TypeOK, ActorsOK
  <2>2. CASE writing' = Drop(writing, w)
    BY <2>1, <2>2, DropType
  <2>3. CASE writing' = writing /\ w \notin DOMAIN writing
    BY <2>1, <2>3
  <2> QED
    BY <2>2, <2>3
<1>3. DOMAIN writing' \subseteq DOMAIN request' \union DOMAIN expiring'
  BY <1>1, <1>2 DEF TypeOK, ActorsOK
<1>4. CatalogOK' /\ TablesOK'
  BY DEF TypeOK, CatalogOK, TablesOK, catalogVars, tables
<1>5. \A v \in DOMAIN expiring' : expiring'[v].done => v \notin DOMAIN writing'
  <2>1. DOMAIN expiring' \subseteq DOMAIN expiring /\ DOMAIN writing' \subseteq DOMAIN writing
    BY <1>1, <1>2
  <2>2. \A v \in DOMAIN expiring' : expiring'[v] = expiring[v]
    BY DEF Drop
  <2> QED
    BY <2>1, <2>2 DEF TypeOK, ActorsOK
<1>6. ActorsOK'
  BY <1>1, <1>2, <1>3, <1>5 DEF TypeOK, ActorsOK, tables
<1> QED
  BY <1>4, <1>6 DEF TypeOK

\* And the end of a request that wrote nothing.
LEMMA RollbackType ==
  ASSUME TypeOK, NEW p \in Handlers, Rollback(p)
  PROVE  TypeOK'
<1> DEFINE Served == [op: Creation \union Call, now: Time]
<1>1. /\ request' \in [DOMAIN request \ {p} -> Served]
      /\ \A q \in DOMAIN request' : request'[q] = request[q]
  <2>1. request \in [DOMAIN request -> Served]
    BY DEF TypeOK, ActorsOK
  <2>2. request' = Drop(request, p)
    BY DEF Rollback
  <2> HIDE DEF Served
  <2>3. request' \in [DOMAIN request \ {p} -> Served]
    BY <2>1, <2>2, DropType
  <2>4. \A q \in DOMAIN request \ {p} : request'[q] = request[q]
    BY <2>1, <2>2, DropType
  <2> QED
    BY <2>3, <2>4
<1>2. writing' \in [DOMAIN writing \ {p} -> WriteSet]
  BY DropType DEF TypeOK, ActorsOK, Rollback
<1>3. DOMAIN writing' \subseteq DOMAIN request' \union DOMAIN expiring'
  BY <1>1, <1>2 DEF TypeOK, ActorsOK, Rollback
<1>4. CatalogOK' /\ TablesOK'
  BY DEF TypeOK, CatalogOK, TablesOK, Rollback, catalogVars, tables, queue
<1>5. \A w \in DOMAIN expiring : expiring[w].done => w \notin DOMAIN writing'
  BY <1>2 DEF TypeOK, ActorsOK
<1>6. ActorsOK'
  BY <1>1, <1>2, <1>3, <1>5 DEF TypeOK, ActorsOK, Rollback, tables
<1> QED
  BY <1>4, <1>6 DEF TypeOK

\* A creation leaves well-typed rows to be written.
LEMMA AcquireCreateType ==
  ASSUME TypeOK, NEW p \in Handlers, AcquireCreate(p)
  PROVE  TypeOK'
<1> DEFINE op == request[p].op
           f == op.form
           now == request[p].now
           r == NewRecord(f, now)
           writes(id) ==
             [id |-> id, rec |-> r, hist |-> <<[from |-> "", to |-> "requested"]>>,
              use |-> {}, enq |-> {ExpirationJob(id, r.expires)},
              access |-> IF f.channel = "personal" THEN {} ELSE {r.ends + AccessTTL},
              row |-> ReplayRow(op, now, id)]
<1>1. p \in DOMAIN request /\ p \notin DOMAIN expiring /\ f.kind = "create"
  BY ActorsAssumption DEF AcquireCreate, TypeOK, ActorsOK
<1>2. op \in Creation \union Call /\ now \in Time
  BY <1>1 DEF TypeOK, ActorsOK
<1>3. PICK id \in Ids \ DOMAIN recs : Acquire(p, writes(id))
  BY DEF AcquireCreate
<1>4. f \in CreateForms
  BY <1>1, <1>2, CallKinds DEF Creation
<1>5. r \in Record
  BY <1>2, <1>4, NewRecordType DEF TypeOK
<1>6. r.expires \in Nat /\ r.ends \in Nat
  BY <1>5 DEF Record
<1>7. {ExpirationJob(id, r.expires)} \in SUBSET Job
  BY <1>6, BoundsAssumption DEF ExpirationJob, Later, Job, TypeOK, CatalogOK
<1>8. ReplayRow(op, now, id) \in SUBSET [key: ReplayKeys, form: Forms, id: Ids, expires: Time]
  BY <1>2, ReplayRowType
<1>9. r.ends + AccessTTL \in Time
  BY <1>6, BoundsAssumption
<1>10. [from |-> "", to |-> "requested"] \in Change
  BY DEF Change, Statuses, AppointmentStatuses
<1> HIDE DEF op, f, now, r
<1>11. writes(id) \in WriteSet
  <2>1. (IF f.channel = "personal" THEN {} ELSE {r.ends + AccessTTL}) \in SUBSET Time
    BY <1>9
  <2> DEFINE first == [from |-> "", to |-> "requested"]
  <2>2. <<first>> \in Seq(Change)
    <3> HIDE DEF first, writes
    <3>1. first \in Change
      BY <1>10 DEF first
    <3> QED
      BY <3>1
  <2>3. ExpirationJob(id, r.expires).id = id
    BY DEF ExpirationJob
  <2> QED
    BY <1>3, <1>5, <1>7, <1>8, <2>1, <2>2, <2>3 DEF WriteSet
<1> HIDE DEF writes
<1> QED
  BY <1>1, <1>3, <1>11, AcquireType

\* So does a transition ...
LEMMA AcquireTransitionType ==
  ASSUME TypeOK, NEW p \in Handlers, AcquireTransition(p)
  PROVE  TypeOK'
<1> DEFINE op == request[p].op
           f == op.form
           now == request[p].now
           r == recs[op.id]
           confirm == r.status = "requested" /\ f.to = "confirmed"
           use == IF confirm
                  THEN {[module |-> r.module, id |-> op.id, period |-> sub.periodStart]}
                  ELSE {}
           writes ==
             [id |-> op.id, rec |-> [r EXCEPT !.status = f.to, !.version = @ + 1],
              hist |-> <<[from |-> r.status, to |-> f.to]>>, use |-> use, enq |-> {},
              access |-> {}, row |-> ReplayRow(op, now, op.id)]
<1>1. p \in DOMAIN request /\ p \notin DOMAIN expiring /\ f.kind = "transition"
  BY ActorsAssumption DEF AcquireTransition, TypeOK, ActorsOK
<1>2. op \in Creation \union Call /\ now \in Time
  BY <1>1 DEF TypeOK, ActorsOK
<1>3. op.id \in DOMAIN recs /\ op.id \in Ids
  BY <1>1, <1>2, CallKinds DEF TypeOK, ActorsOK
<1>4. f.to \in Statuses
  BY <1>1, <1>2, CallKinds DEF TransitionForm
<1>5. r \in Record
  BY <1>3 DEF TypeOK, TablesOK
<1>6. use \in SUBSET Usage
  BY <1>3, <1>5 DEF Usage, Record, TypeOK, CatalogOK, Subscription
<1>7. ReplayRow(op, now, op.id) \in
        SUBSET [key: ReplayKeys, form: Forms, id: Ids, expires: Time]
  BY <1>2, <1>3, ReplayRowType
<1>8. [r EXCEPT !.status = f.to, !.version = @ + 1] \in Record
  BY <1>4, <1>5, DecidedType
<1>9. [from |-> r.status, to |-> f.to] \in Change
  BY <1>4, <1>5 DEF Change, Record
<1>10. Acquire(p, writes)
  BY DEF AcquireTransition
<1> HIDE DEF op, f, now, r, use
<1>11. writes \in WriteSet
  BY <1>3, <1>6, <1>7, <1>8, <1>9 DEF WriteSet
<1> HIDE DEF writes
<1> QED
  BY <1>1, <1>10, <1>11, AcquireType

\* ... an edit ...
LEMMA AcquireEditType ==
  ASSUME TypeOK, NEW p \in Handlers, AcquireEdit(p)
  PROVE  TypeOK'
<1> DEFINE op == request[p].op
           f == op.form
           now == request[p].now
           r == recs[op.id]
           new == IF f.moves THEN Moved(r, f) ELSE r
           writes ==
             [id |-> op.id, rec |-> [new EXCEPT !.version = @ + 1], hist |-> <<>>,
              use |-> {}, enq |-> Renewal(f, op.id, new), access |-> Extension(f, new),
              row |-> ReplayRow(op, now, op.id)]
<1>1. p \in DOMAIN request /\ p \notin DOMAIN expiring /\ f.kind = "edit"
  BY ActorsAssumption DEF AcquireEdit, TypeOK, ActorsOK
<1>2. op \in Creation \union Call /\ now \in Time
  BY <1>1 DEF TypeOK, ActorsOK
<1>3. op.id \in DOMAIN recs /\ op.id \in Ids /\ f \in EditForm
  BY <1>1, <1>2, CallKinds DEF TypeOK, ActorsOK
<1>4. r \in Record
  BY <1>3 DEF TypeOK, TablesOK
<1>5. new \in Record
  <2>1. CASE f.moves
    <3>1. f.where \in IF r.module = "appointments" THEN Resources ELSE Windows
      BY <2>1 DEF AcquireEdit
    <3> QED
      BY <1>3, <1>4, <2>1, <3>1, MovedType DEF TypeOK
  <2>2. CASE ~ f.moves
    BY <1>4, <2>2
  <2> QED
    BY <2>1, <2>2
<1>6. new.expires \in Nat /\ new.ends \in Nat
  BY <1>5 DEF Record
<1>7. Renewal(f, op.id, new) \in SUBSET {j \in Job : j.id = op.id}
  BY <1>3, <1>6, BoundsAssumption DEF Renewal, ExpirationJob, Later, Job, TypeOK, CatalogOK
<1>8. Extension(f, new) \in SUBSET Time
  BY <1>6, BoundsAssumption DEF Extension
<1>9. ReplayRow(op, now, op.id) \in
        SUBSET [key: ReplayKeys, form: Forms, id: Ids, expires: Time]
  BY <1>2, <1>3, ReplayRowType
<1>10. [new EXCEPT !.version = @ + 1] \in Record
  <2>1. "requested" \in Statuses
    BY DEF Statuses, AppointmentStatuses
  <2> QED
    BY <1>5, <2>1, DecidedType
<1>11. Acquire(p, writes)
  BY DEF AcquireEdit
<1> HIDE DEF op, f, now, r, new
<1>12. writes \in WriteSet
  BY <1>3, <1>7, <1>8, <1>9, <1>10 DEF WriteSet
<1> HIDE DEF writes
<1> QED
  BY <1>1, <1>11, <1>12, AcquireType

\* ... and an expiration.
LEMMA AcquireExpireType ==
  ASSUME TypeOK, NEW w \in Workers, AcquireExpire(w)
  PROVE  TypeOK'
<1> DEFINE id == expiring[w].id
           r == recs[id]
           writes ==
             [id |-> id, rec |-> [r EXCEPT !.status = "expired", !.version = @ + 1],
              hist |-> <<[from |-> "requested", to |-> "expired"]>>,
              use |-> {}, enq |-> {}, access |-> {}, row |-> {}]
<1>1. w \in DOMAIN expiring /\ ~ expiring[w].done
  BY DEF AcquireExpire
<1>2. id \in DOMAIN recs /\ id \in Ids
  BY <1>1 DEF TypeOK, ActorsOK, TablesOK
<1>3. r \in Record
  BY <1>2 DEF TypeOK, TablesOK
<1>4. "expired" \in Statuses /\ "requested" \in Statuses
  BY DEF Statuses, AppointmentStatuses
<1>5. [r EXCEPT !.status = "expired", !.version = @ + 1] \in Record
  BY <1>3, <1>4, DecidedType
<1>6. [from |-> "requested", to |-> "expired"] \in Change
  BY <1>4 DEF Change
<1>7. Acquire(w, writes)
  BY DEF AcquireExpire
<1> HIDE DEF id, r
<1>8. writes \in WriteSet
  BY <1>2, <1>5, <1>6 DEF WriteSet
<1> HIDE DEF writes
<1> QED
  BY <1>1, <1>7, <1>8, AcquireType

\* The tables are well typed after a commit.
LEMMA ApplyType ==
  ASSUME TypeOK, NEW w \in WriteSet, Apply(w), failed' = failed
  PROVE  TablesOK' /\ DOMAIN recs' = DOMAIN recs \union {w.id}
<1> DEFINE Row == [form: Forms, id: Ids, expires: Time]
<1>1. w.id \in Ids /\ w.rec \in Record /\ w.hist \in Seq(Change) /\ w.use \subseteq Usage
      /\ w.enq \subseteq Job /\ (\A j \in w.enq : j.id = w.id) /\ w.access \subseteq Time
      /\ w.row \subseteq [key: ReplayKeys, form: Forms, id: Ids, expires: Time]
  BY DEF WriteSet
<1>2. /\ DOMAIN recs' = DOMAIN recs \union {w.id}
      /\ recs' \in [DOMAIN recs' -> Record]
  <2>1. recs' \in [DOMAIN recs \union {w.id} -> Record]
    BY <1>1, PutType DEF Apply, TypeOK, TablesOK
  <2> QED
    BY <2>1
<1>3. DOMAIN history' = DOMAIN recs' /\ history' \in [DOMAIN recs' -> Seq(Change)]
  <2> DEFINE before == IF w.id \in DOMAIN history THEN history[w.id] ELSE <<>>
  <2>1. before \in Seq(Change)
    BY DEF TypeOK, TablesOK
  <2>2. before \o w.hist \in Seq(Change)
    BY <1>1, <2>1
  <2>3. history' = Put(history, w.id, before \o w.hist)
    BY DEF Apply
  <2>4. history \in [DOMAIN history -> Seq(Change)] /\ DOMAIN history = DOMAIN recs
    BY DEF TypeOK, TablesOK
  <2> HIDE DEF before
  <2>5. history' \in [DOMAIN history \union {w.id} -> Seq(Change)]
    BY <2>2, <2>3, <2>4, PutType
  <2> QED
    BY <1>2, <2>4, <2>5
<1>4. usage' \subseteq Usage
  BY <1>1 DEF Apply, TypeOK, TablesOK
<1>5. jobs' \subseteq [id: DOMAIN recs', at: Time]
  <2>1. jobs' = jobs \union w.enq /\ jobs \subseteq [id: DOMAIN recs, at: Time]
    BY DEF Apply, TypeOK, TablesOK
  <2>2. \A j \in w.enq : j \in [id: DOMAIN recs', at: Time]
    BY <1>1, <1>2 DEF Job
  <2>3. \A j \in jobs : j \in [id: DOMAIN recs', at: Time]
    BY <1>2, <2>1
  <2> QED
    BY <2>1, <2>2, <2>3
<1>6. DOMAIN access' \subseteq DOMAIN recs' /\ access' \in [DOMAIN access' -> Time]
  <2>1. access \in [DOMAIN access -> Time] /\ DOMAIN access \subseteq DOMAIN recs
    BY DEF TypeOK, TablesOK
  <2>2. CASE w.access = {} \/ (w.id \in DOMAIN recs /\ w.id \notin DOMAIN access)
    BY <1>2, <2>1, <2>2 DEF Apply
  <2>3. CASE ~ (w.access = {} \/ (w.id \in DOMAIN recs /\ w.id \notin DOMAIN access))
    <3> DEFINE e == CHOOSE e \in w.access : TRUE
    <3>1. e \in Time
      BY <1>1, <2>3
    <3>2. access' = Put(access, w.id, e)
      BY <2>3 DEF Apply
    <3> HIDE DEF e
    <3>3. access' \in [DOMAIN access \union {w.id} -> Time]
      BY <2>1, <3>1, <3>2, PutType
    <3> QED
      BY <1>2, <2>1, <3>3
  <2> QED
    BY <2>2, <2>3
<1>7. DOMAIN replay' \subseteq ReplayKeys /\ replay' \in [DOMAIN replay' -> Row]
  <2>1. replay \in [DOMAIN replay -> Row] /\ DOMAIN replay \subseteq ReplayKeys
    BY DEF TypeOK, TablesOK
  <2>2. CASE w.row = {}
    BY <2>1, <2>2 DEF Apply
  <2>3. CASE w.row # {}
    <3> DEFINE x == CHOOSE x \in w.row : TRUE
               row == [form |-> x.form, id |-> x.id, expires |-> x.expires]
    <3>1. x \in [key: ReplayKeys, form: Forms, id: Ids, expires: Time]
      BY <1>1, <2>3
    <3>2. replay' = Put(replay, x.key, row)
      BY <2>3 DEF Apply
    <3> HIDE DEF x
    <3>3. x.key \in ReplayKeys /\ row \in Row
      BY <3>1
    <3> HIDE DEF row, Row
    <3>4. replay' \in [DOMAIN replay \union {x.key} -> Row]
      BY <2>1, <3>2, <3>3, PutType
    <3> QED
      BY <2>1, <3>3, <3>4
  <2> QED
    BY <2>2, <2>3
<1>8. DOMAIN recs' \subseteq Ids
  BY <1>1, <1>2 DEF TypeOK, TablesOK
<1>9. failed' \subseteq Job
  BY DEF TypeOK, TablesOK
<1> QED
  BY <1>2, <1>3, <1>4, <1>5, <1>6, <1>7, <1>8, <1>9 DEF TablesOK

\* A commit preserves the types: it adds the rows written, releases the lock and
\* ends the request or the attempt that held it.
LEMMA CommitType ==
  ASSUME TypeOK, NEW p \in Handlers \union Workers, Commit(p)
  PROVE  TypeOK'
<1> DEFINE w == writing[p]
           Served == [op: Creation \union Call, now: Time]
<1>1. p \in DOMAIN writing /\ w \in WriteSet /\ Apply(w) /\ failed' = failed
  BY DEF Commit, TypeOK, ActorsOK
<1>2. TablesOK' /\ DOMAIN recs \subseteq DOMAIN recs'
  <2> HIDE DEF w
  <2> QED
    BY <1>1, ApplyType
<1>3. /\ writing' \in [DOMAIN writing \ {p} -> WriteSet]
      /\ DOMAIN writing' = DOMAIN writing \ {p}
  <2>1. writing' \in [DOMAIN writing \ {p} -> WriteSet]
    BY DropType DEF TypeOK, ActorsOK, Commit
  <2> QED
    BY <2>1
<1>4. ASSUME p \in Handlers
      PROVE  ActorsOK'
  <2>1. request' = Drop(request, p) /\ expiring' = expiring
    BY <1>4 DEF Commit
  <2>2. request \in [DOMAIN request -> Served]
    BY DEF TypeOK, ActorsOK
  <2> HIDE DEF Served
  <2>3. request' \in [DOMAIN request \ {p} -> Served]
    BY <2>1, <2>2, DropType
  <2>4. \A q \in DOMAIN request \ {p} : request'[q] = request[q]
    BY <2>1, <2>2, DropType
  <2>5. DOMAIN request' = DOMAIN request \ {p}
    BY <2>3
  <2> USE DEF Served
  <2>6. \A q \in DOMAIN request' : request'[q].op \in Call => request'[q].op.id \in DOMAIN recs'
    BY <1>2, <2>4, <2>5 DEF TypeOK, ActorsOK
  <2>7. expiring' \in [DOMAIN expiring' -> [id: DOMAIN recs', from: SUBSET Job, done: BOOLEAN]]
    BY <1>2, <2>1 DEF TypeOK, ActorsOK
  <2>8. \A v \in DOMAIN expiring' : expiring'[v].done => v \notin DOMAIN writing'
    BY <1>3, <2>1 DEF TypeOK, ActorsOK
  <2> QED
    BY <1>3, <2>1, <2>3, <2>5, <2>6, <2>7, <2>8 DEF TypeOK, ActorsOK
<1>5. ASSUME p \notin Handlers
      PROVE  ActorsOK'
  <2>1. /\ p \in DOMAIN expiring
        /\ expiring' = [expiring EXCEPT ![p] = [expiring[p] EXCEPT !.done = TRUE]]
        /\ request' = request
    BY <1>1, <1>5 DEF Commit, TypeOK, ActorsOK
  <2>2. DOMAIN expiring' = DOMAIN expiring
    BY <2>1
  <2>3. expiring' \in [DOMAIN expiring' -> [id: DOMAIN recs', from: SUBSET Job, done: BOOLEAN]]
    BY <1>2, <2>1 DEF TypeOK, ActorsOK
  <2>4. \A v \in DOMAIN expiring' : expiring'[v].done => v \notin DOMAIN writing'
    BY <1>3, <2>1 DEF TypeOK, ActorsOK
  <2>5. \A q \in DOMAIN request' : request'[q].op \in Call => request'[q].op.id \in DOMAIN recs'
    BY <1>2, <2>1 DEF TypeOK, ActorsOK
  <2> QED
    BY <1>3, <2>1, <2>2, <2>3, <2>4, <2>5 DEF TypeOK, ActorsOK
<1>6. CatalogOK'
  BY DEF TypeOK, CatalogOK, Commit, catalogVars
<1>7. ActorsOK'
  BY <1>4, <1>5
<1> QED
  BY <1>2, <1>6, <1>7 DEF TypeOK

\* The handlers of the configuration and the plan, and the clock, preserve the types.
LEMMA CatalogType ==
  ASSUME TypeOK, Administer \/ Tick
  PROVE  TypeOK'
<1>1. UNCHANGED <<tables, queue, request, expiring, writing>>
  BY DEF Administer, ChangeSubscription, Configure, SaveService, SaveResource, Tick
<1>2. TablesOK' /\ ActorsOK'
  BY <1>1 DEF TypeOK, TablesOK, ActorsOK, tables, queue
<1>3. CatalogOK'
  <2>1. CASE ChangeSubscription
    <3>1. sub' \in Subscription
      BY <2>1, FormsAssumption DEF ChangeSubscription
    <3>2. resources' \in [Resources -> Resource]
      BY <2>1 DEF ChangeSubscription, TypeOK, CatalogOK, Resource
    <3> QED
      BY <2>1, <3>1, <3>2 DEF ChangeSubscription, TypeOK, CatalogOK
  <2>2. CASE Configure
    <3>1. PICK f \in SettingsForms : settings' = [settings EXCEPT ![f[1]] = f[2]]
      BY <2>2 DEF Configure
    <3>2. f[1] \in Modules /\ f[2] \in Settings
      BY FormsAssumption
    <3>3. settings' \in [Modules -> Settings]
      BY <3>1, <3>2 DEF TypeOK, CatalogOK
    <3> QED
      BY <2>2, <3>3 DEF Configure, TypeOK, CatalogOK
  <2>3. CASE SaveService
    <3>1. PICK f \in ServiceForms : services' = [services EXCEPT ![f[1]] = f[2]]
      BY <2>3 DEF SaveService
    <3>2. f[1] \in Services /\ f[2] \in Service
      BY FormsAssumption
    <3>3. services' \in [Services -> Service]
      BY <3>1, <3>2 DEF TypeOK, CatalogOK
    <3> QED
      BY <2>3, <3>3 DEF SaveService, TypeOK, CatalogOK
  <2>4. CASE SaveResource
    <3>1. PICK f \in ResourceForms : resources' = [resources EXCEPT ![f[1]] = f[2]]
      BY <2>4 DEF SaveResource
    <3>2. f[1] \in Resources /\ f[2] \in Resource
      BY FormsAssumption
    <3>3. resources' \in [Resources -> Resource]
      BY <3>1, <3>2 DEF TypeOK, CatalogOK
    <3> QED
      BY <2>4, <3>3 DEF SaveResource, TypeOK, CatalogOK
  <2>5. CASE Tick
    BY <2>5, BoundsAssumption DEF Tick, TypeOK, CatalogOK, catalogVars
  <2> QED
    BY <2>1, <2>2, <2>3, <2>4, <2>5 DEF Administer
<1> QED
  BY <1>2, <1>3 DEF TypeOK

\* So do the two clean-ups.
LEMMA CleanType ==
  ASSUME TypeOK, CleanReplay \/ CleanAccess
  PROVE  TypeOK'
<1>1. UNCHANGED <<clock, sub, catalogVars, recs, usage, history, queue, request,
                  expiring, writing>>
  BY DEF CleanReplay, CleanAccess
<1>2. CatalogOK' /\ ActorsOK'
  BY <1>1 DEF TypeOK, CatalogOK, ActorsOK, catalogVars
<1>3. DOMAIN access' \subseteq DOMAIN recs /\ access' \in [DOMAIN access' -> Time]
  <2>1. access \in [DOMAIN access -> Time] /\ DOMAIN access \subseteq DOMAIN recs
    BY DEF TypeOK, TablesOK
  <2>2. access' = access
        \/ access' = Keep(access, {i \in DOMAIN access : access[i] >= clock})
    BY DEF CleanReplay, CleanAccess
  <2> DEFINE keys == {i \in DOMAIN access : access[i] >= clock}
  <2> HIDE DEF keys
  <2>3. CASE access' = Keep(access, keys)
    <3>1. access' \in [DOMAIN access \intersect keys -> Time]
      BY <2>1, <2>3, KeepType
    <3> QED
      BY <2>1, <3>1
  <2> QED
    BY <2>1, <2>2, <2>3 DEF keys
<1>4. /\ DOMAIN replay' \subseteq ReplayKeys
      /\ replay' \in [DOMAIN replay' -> [form: Forms, id: Ids, expires: Time]]
  <2> DEFINE Row == [form: Forms, id: Ids, expires: Time]
  <2>1. replay \in [DOMAIN replay -> Row] /\ DOMAIN replay \subseteq ReplayKeys
    BY DEF TypeOK, TablesOK
  <2>2. replay' = replay
        \/ replay' = Keep(replay, {k \in DOMAIN replay : replay[k].expires >= clock})
    BY DEF CleanReplay, CleanAccess
  <2> DEFINE keys == {k \in DOMAIN replay : replay[k].expires >= clock}
  <2> HIDE DEF Row, keys
  <2>3. CASE replay' = Keep(replay, keys)
    <3>1. replay' \in [DOMAIN replay \intersect keys -> Row]
      BY <2>1, <2>3, KeepType
    <3> QED
      BY <2>1, <3>1 DEF Row
  <2> QED
    BY <2>1, <2>2, <2>3 DEF Row, keys
<1>5. TablesOK'
  BY <1>1, <1>3, <1>4 DEF TypeOK, TablesOK, queue
<1> QED
  BY <1>2, <1>5 DEF TypeOK

-----------------------------------------------------------------------------
\* The types hold in the first state.
LEMMA InitType == Init => TypeOK
<1> SUFFICES ASSUME Init PROVE TypeOK
  OBVIOUS
<1>1. CatalogOK
  BY FormsAssumption, BoundsAssumption DEF Init, CatalogOK
<1>2. TablesOK
  BY DEF Init, TablesOK, NoRows
<1>3. ActorsOK
  BY DEF Init, ActorsOK, NoRows
<1> QED
  BY <1>1, <1>2, <1>3 DEF TypeOK

\* Every step of a handler or a worker, of the other handlers, of the clean-up and
\* of the clock preserves the types.
LEMMA StepType ==
  ASSUME TypeOK, [Next]_vars
  PROVE  TypeOK'
<1>1. ASSUME NEW p \in Handlers, Handle(p)
      PROVE  TypeOK'
  <2>1. CASE ArriveCreate(p)
    <3>1. PICK f \in CreateForms : Begin(p, [form |-> f])
      BY <2>1 DEF ArriveCreate
    <3>2. [form |-> f] \in Creation /\ [form |-> f] \notin Call
      BY DEF Creation, Call
    <3> QED
      BY <3>1, <3>2, BeginType
  <2>2. CASE ArriveMutate(p)
    <3>1. PICK f \in TransitionForms \union EditForms, id \in DOMAIN recs :
            \E v \in 1 .. recs[id].version : Begin(p, [form |-> f, id |-> id, version |-> v])
      BY <2>2 DEF ArriveMutate
    <3> PICK v \in 1 .. recs[id].version : Begin(p, [form |-> f, id |-> id, version |-> v])
      BY <3>1
    <3>2. id \in Ids /\ v \in Nat
      BY <3>1 DEF TypeOK, TablesOK, Record
    <3>3. [form |-> f, id |-> id, version |-> v] \in Call
      BY <3>2 DEF Call
    <3> QED
      BY <3>1, <3>3, BeginType
  <2>3. CASE AcquireCreate(p)
    BY <2>3, AcquireCreateType
  <2>4. CASE AcquireTransition(p)
    BY <2>4, AcquireTransitionType
  <2>5. CASE AcquireEdit(p)
    BY <2>5, AcquireEditType
  <2>6. CASE Commit(p)
    BY <2>6, CommitType
  <2>7. CASE Rollback(p)
    BY <2>7, RollbackType
  <2> QED
    BY <1>1, <2>1, <2>2, <2>3, <2>4, <2>5, <2>6, <2>7 DEF Handle
<1>2. ASSUME NEW w \in Workers, Work(w)
      PROVE  TypeOK'
  <2>1. CASE ReadJob(w)
    <3>1. PICK j \in jobs :
            expiring' = Put(expiring, w, [id |-> j.id, from |-> {j}, done |-> FALSE])
      BY <2>1 DEF ReadJob
    <3>2. j.id \in DOMAIN recs /\ {j} \in SUBSET Job
      BY DEF TypeOK, TablesOK, Job
    <3> QED
      BY <2>1, <3>1, <3>2, AttemptType DEF ReadJob
  <2>2. CASE SweepDue(w)
    BY <2>2, AttemptType DEF SweepDue
  <2>3. CASE AcquireExpire(w)
    BY <2>3, AcquireExpireType
  <2>4. CASE ExpireNothing(w)
    BY <2>4, ExpireNothingType
  <2>5. CASE Commit(w)
    BY <2>5, CommitType
  <2>6. CASE Ack(w)
    BY <2>6, DetachType DEF Ack, TypeOK, ActorsOK
  <2>7. CASE AbandonExpire(w)
    BY <2>7, DetachType DEF AbandonExpire, queue
  <2>8. CASE FailJob(w)
    BY <2>8, DetachType DEF FailJob, TypeOK, ActorsOK
  <2> QED
    BY <1>2, <2>1, <2>2, <2>3, <2>4, <2>5, <2>6, <2>7, <2>8 DEF Work
<1>3. CASE Administer \/ Tick
  BY <1>3, CatalogType
<1>4. CASE CleanReplay \/ CleanAccess
  BY <1>4, CleanType
<1>5. CASE UNCHANGED vars
  BY <1>5 DEF vars, catalogVars, tables, queue, TypeOK, CatalogOK, TablesOK, ActorsOK
<1> QED
  BY <1>1, <1>2, <1>3, <1>4, <1>5 DEF Next

\* TypeOK holds in every reachable state: every handler, worker and clean-up keeps the
\* tables within their columns' types, the foreign keys of history, access tokens and
\* messages intact, and every open transaction attached to the request or the
\* attempt that opened it.
THEOREM TypeCorrect == Spec => []TypeOK
<1>1. Init => TypeOK
  BY InitType
<1>2. TypeOK /\ [Next]_vars => TypeOK'
  BY StepType
<1> QED
  BY <1>1, <1>2, PTL DEF Spec

-----------------------------------------------------------------------------
(* No double booking *)

\* The row lock: at most one transaction has rows to write.
OneWriter == \A p, q \in DOMAIN writing : p = q

\* The row a transaction will write conflicts with no other record.  It held when
\* the transaction looked, and nobody else can write before it commits.
FreeWrites(w) == \A j \in DOMAIN recs \ {w.id} : Apart(w.rec, recs[j])
WriteFree == \A p \in DOMAIN writing : FreeWrites(writing[p])

\* The record a transaction will overwrite is still undecided.
OpenWrites(w) ==
  w.id \in DOMAIN recs => ~ Terminal(recs[w.id].module, recs[w.id].status)
WriteOpen == \A p \in DOMAIN writing : OpenWrites(writing[p])

\* The inductive invariant.
BookingInv == TypeOK /\ OneWriter /\ WriteFree /\ WriteOpen /\ NoDoubleBooking

\* The steps that neither write records nor take the lock.
Quiet ==
  /\ recs' = recs
  /\ DOMAIN writing' \subseteq DOMAIN writing
  /\ \A p \in DOMAIN writing' : writing'[p] = writing[p]

Taken(p) ==
  AcquireCreate(p) \/ AcquireTransition(p) \/ AcquireEdit(p) \/ AcquireExpire(p)

\* A step commits, or takes the lock, or leaves the records and the locks alone.
LEMMA StepShape ==
  ASSUME [Next]_vars
  PROVE  \/ \E p \in Handlers \union Workers : Commit(p)
         \/ \E p \in Handlers \union Workers : Taken(p)
         \/ Quiet
<1>1. ASSUME NEW p \in Handlers, Handle(p)
      PROVE  Commit(p) \/ Taken(p) \/ Quiet
  BY <1>1 DEF Handle, Taken, Quiet, ArriveCreate, ArriveMutate, Begin, Rollback, Drop, tables
<1>2. ASSUME NEW w \in Workers, Work(w)
      PROVE  Commit(w) \/ Taken(w) \/ Quiet
  BY <1>2 DEF Work, Taken, Quiet, ReadJob, SweepDue, ExpireNothing, Ack, AbandonExpire, FailJob,
              Drop, tables
<1>3. CASE Administer \/ Tick \/ CleanReplay \/ CleanAccess \/ UNCHANGED vars
  BY <1>3 DEF Administer, ChangeSubscription, Configure, SaveService, SaveResource, Tick,
              CleanReplay, CleanAccess, Quiet, tables, vars
<1> QED
  BY <1>1, <1>2, <1>3 DEF Next

\* Only the holder of a confirmation moves on to another status that occupies a resource.
LEMMA StaysHeld ==
  ASSUME NEW status, NEW to \in AppointmentNext(status), to \in HoldingAppointment,
         ~ (status = "requested" /\ to = "confirmed")
  PROVE  status \in HoldingAppointment
  BY DEF AppointmentNext, HoldingAppointment

\* A place that passed the check is free of every other appointment that occupies it.
LEMMA CheckedIsApart ==
  ASSUME TablesOK, NEW r \in Record, NEW id,
         r.module = "appointments" =>
           CheckAppointment(r.service, r.where, {id}, r.start, r.ends - r.start, r.buffer),
         NEW j \in DOMAIN recs \ {id}
  PROVE  Apart(r, recs[j])
<1> SUFFICES ASSUME Occupies(r), Occupies(recs[j]), r.where = recs[j].where
             PROVE  r.ends + r.buffer <= recs[j].start \/ recs[j].ends + recs[j].buffer <= r.start
  BY DEF Apart
<1>1. recs[j] \in Record
  BY DEF TablesOK
<1>2. /\ r.start \in Nat /\ r.ends \in Nat /\ r.buffer \in Nat
      /\ recs[j].start \in Nat /\ recs[j].ends \in Nat /\ recs[j].buffer \in Nat
  BY <1>1 DEF Record
<1>3. ~ Overlaps(r.where, {id}, r.start, r.start + (r.ends - r.start) + r.buffer)
  BY DEF CheckAppointment, Occupies
<1>4. ~ (recs[j].start < r.start + (r.ends - r.start) + r.buffer
         /\ recs[j].ends + recs[j].buffer > r.start)
  BY <1>3 DEF Overlaps, Occupies
<1> QED
  BY <1>2, <1>4

\* The checks made under the lock establish what the invariant says of the rows
\* left to be written: for a creation ...
LEMMA CreateSound ==
  ASSUME BookingInv, NEW p, AcquireCreate(p)
  PROVE  \E w : Acquire(p, w) /\ FreeWrites(w) /\ OpenWrites(w)
<1> DEFINE op == request[p].op
           f == op.form
           now == request[p].now
           r == NewRecord(f, now)
           writes(id) ==
             [id |-> id, rec |-> r, hist |-> <<[from |-> "", to |-> "requested"]>>,
              use |-> {}, enq |-> {ExpirationJob(id, r.expires)},
              access |-> IF f.channel = "personal" THEN {} ELSE {r.ends + AccessTTL},
              row |-> ReplayRow(op, now, id)]
<1>1. PICK id \in Ids \ DOMAIN recs : Acquire(p, writes(id))
  BY DEF AcquireCreate
<1>2. writes(id).rec.status = "requested" /\ writes(id).id = id
  BY DEF NewRecord
<1> HIDE DEF writes
<1>3. FreeWrites(writes(id))
  BY <1>2 DEF FreeWrites, Apart, Occupies, HoldingAppointment
<1>4. OpenWrites(writes(id))
  BY <1>2 DEF OpenWrites
<1> QED
  BY <1>1, <1>3, <1>4

\* ... for a transition ...
LEMMA TransitionSound ==
  ASSUME BookingInv, NEW p \in Handlers, AcquireTransition(p)
  PROVE  \E w : Acquire(p, w) /\ FreeWrites(w) /\ OpenWrites(w)
<1> DEFINE op == request[p].op
           f == op.form
           now == request[p].now
           r == recs[op.id]
           confirm == r.status = "requested" /\ f.to = "confirmed"
           new == [r EXCEPT !.status = f.to, !.version = @ + 1]
           writes ==
             [id |-> op.id, rec |-> new, hist |-> <<[from |-> r.status, to |-> f.to]>>,
              use |-> IF confirm
                      THEN {[module |-> r.module, id |-> op.id, period |-> sub.periodStart]}
                      ELSE {},
              enq |-> {}, access |-> {}, row |-> ReplayRow(op, now, op.id)]
<1>1. p \in DOMAIN request /\ f.kind = "transition" /\ f.to \in Allowed(r.module, r.status)
  BY DEF AcquireTransition
<1>2. op \in Call /\ op.id \in DOMAIN recs /\ f.to \in Statuses
  BY <1>1, CallKinds DEF BookingInv, TypeOK, ActorsOK, TransitionForm
<1>3. r \in Record
  BY <1>2 DEF BookingInv, TypeOK, TablesOK
<1>4. /\ new.module = r.module /\ new.where = r.where /\ new.service = r.service
      /\ new.start = r.start /\ new.ends = r.ends /\ new.buffer = r.buffer
      /\ new.status = f.to /\ new \in Record
  BY <1>2, <1>3, DecidedType DEF Record
<1>5. Acquire(p, writes)
  BY DEF AcquireTransition
<1>6. writes.id = op.id /\ writes.rec = new
  OBVIOUS
<1>7. OpenWrites(writes)
  BY <1>2, <1>6 DEF AcquireTransition, MayMutate, OpenWrites
<1>8. ASSUME NEW j \in DOMAIN recs \ {op.id}
      PROVE  Apart(new, recs[j])
  <2>1. CASE confirm
    <3>1. CheckPlace(r.module, r.service, r.where, {op.id}, r.start, r.ends - r.start, r.buffer)
      BY <2>1 DEF AcquireTransition
    <3> HIDE DEF new, op
    <3>2. new.module = "appointments" =>
            CheckAppointment(new.service, new.where, {op.id}, new.start,
                             new.ends - new.start, new.buffer)
      BY <1>4, <3>1 DEF CheckPlace
    <3> QED
      BY <1>4, <1>8, <3>2, CheckedIsApart DEF BookingInv, TypeOK
  <2>2. CASE ~ confirm
    <3>1. Occupies(new) => Occupies(r)
      BY <1>1, <1>4, <2>2, StaysHeld DEF Occupies, Allowed
    <3>2. Apart(r, recs[j])
      BY <1>2 DEF BookingInv, NoDoubleBooking
    <3> QED
      BY <1>4, <3>1, <3>2 DEF Apart
  <2> QED
    BY <2>1, <2>2
<1>9. FreeWrites(writes)
  BY <1>6, <1>8 DEF FreeWrites
<1> QED
  BY <1>5, <1>7, <1>9

\* ... for an edit ...
LEMMA EditSound ==
  ASSUME BookingInv, NEW p \in Handlers, AcquireEdit(p)
  PROVE  \E w : Acquire(p, w) /\ FreeWrites(w) /\ OpenWrites(w)
<1> DEFINE op == request[p].op
           f == op.form
           now == request[p].now
           r == recs[op.id]
           moved == IF f.moves THEN Moved(r, f) ELSE r
           new == [moved EXCEPT !.version = @ + 1]
           writes ==
             [id |-> op.id, rec |-> new, hist |-> <<>>, use |-> {},
              enq |-> Renewal(f, op.id, moved), access |-> Extension(f, moved),
              row |-> ReplayRow(op, now, op.id)]
<1>1. p \in DOMAIN request /\ f.kind = "edit"
  BY DEF AcquireEdit
<1>2. op \in Call /\ op.id \in DOMAIN recs /\ f \in EditForm
  BY <1>1, CallKinds DEF BookingInv, TypeOK, ActorsOK
<1>3. r \in Record
  BY <1>2 DEF BookingInv, TypeOK, TablesOK
<1>4. Acquire(p, writes)
  BY DEF AcquireEdit
<1>5. writes.id = op.id /\ writes.rec = new
  OBVIOUS
<1>6. OpenWrites(writes)
  BY <1>2, <1>5 DEF AcquireEdit, MayMutate, OpenWrites
<1>7. ASSUME NEW j \in DOMAIN recs \ {op.id}
      PROVE  Apart(new, recs[j])
  <2>1. CASE f.moves
    <3>1. f.where \in IF r.module = "appointments" THEN Resources ELSE Windows
      BY <2>1 DEF AcquireEdit
    <3>2. CheckPlace(r.module, r.service, f.where, {op.id}, Moved(r, f).start,
                     r.ends - r.start, r.buffer)
      BY <2>1 DEF AcquireEdit
    <3>3. Moved(r, f) \in Record
      BY <1>2, <1>3, <3>1, MovedType DEF BookingInv, TypeOK
    <3>4. new \in Record
      <4>1. "requested" \in Statuses
        BY DEF Statuses, AppointmentStatuses
      <4>2. moved = Moved(r, f)
        BY <2>1
      <4> QED
        BY <3>3, <4>1, <4>2, DecidedType
    <3>5. /\ new.module = r.module /\ new.service = r.service /\ new.where = f.where
          /\ new.start = Moved(r, f).start /\ new.buffer = r.buffer
          /\ r.module = "appointments" => new.ends - new.start = r.ends - r.start
      BY <1>2, <1>3, <2>1 DEF Moved, Record, EditForm
    <3> HIDE DEF new, op
    <3>6. new.module = "appointments" =>
            CheckAppointment(new.service, new.where, {op.id}, new.start,
                             new.ends - new.start, new.buffer)
      BY <3>2, <3>5 DEF CheckPlace
    <3> QED
      BY <1>7, <3>4, <3>6, CheckedIsApart DEF BookingInv, TypeOK
  <2>2. CASE ~ f.moves
    <3>1. /\ new.module = r.module /\ new.where = r.where /\ new.status = r.status
          /\ new.start = r.start /\ new.ends = r.ends /\ new.buffer = r.buffer
      BY <1>3, <2>2 DEF Record
    <3>2. Apart(r, recs[j])
      BY <1>2 DEF BookingInv, NoDoubleBooking
    <3> QED
      BY <3>1, <3>2 DEF Apart, Occupies
  <2> QED
    BY <2>1, <2>2
<1>8. FreeWrites(writes)
  BY <1>5, <1>7 DEF FreeWrites
<1> QED
  BY <1>4, <1>6, <1>8

\* ... and for an expiration.
LEMMA ExpireSound ==
  ASSUME BookingInv, NEW w \in Workers, AcquireExpire(w)
  PROVE  \E x : Acquire(w, x) /\ FreeWrites(x) /\ OpenWrites(x)
<1> DEFINE id == expiring[w].id
           r == recs[id]
           new == [r EXCEPT !.status = "expired", !.version = @ + 1]
           writes ==
             [id |-> id, rec |-> new, hist |-> <<[from |-> "requested", to |-> "expired"]>>,
              use |-> {}, enq |-> {}, access |-> {}, row |-> {}]
<1>1. Acquire(w, writes) /\ r.status = "requested"
  BY DEF AcquireExpire, Lapsed
<1>2. id \in DOMAIN recs
  BY DEF AcquireExpire, BookingInv, TypeOK, ActorsOK
<1>3. r \in Record
  BY <1>2 DEF BookingInv, TypeOK, TablesOK
<1>4. new.status = "expired"
  BY <1>3 DEF Record
<1>5. FreeWrites(writes)
  BY <1>4 DEF FreeWrites, Apart, Occupies, HoldingAppointment
<1>6. OpenWrites(writes)
  BY <1>1 DEF OpenWrites, Terminal, Allowed, AppointmentNext, PreorderNext
<1> QED
  BY <1>1, <1>5, <1>6

\* A commit writes the rows that were left to be written over no other record.
LEMMA CommitShape ==
  ASSUME BookingInv, NEW p \in Handlers \union Workers, Commit(p)
  PROVE  /\ p \in DOMAIN writing /\ DOMAIN writing' = {}
         /\ DOMAIN recs' = DOMAIN recs \union {writing[p].id}
         /\ recs'[writing[p].id] = writing[p].rec
         /\ \A i \in DOMAIN recs \ {writing[p].id} : recs'[i] = recs[i]
<1>1. p \in DOMAIN writing /\ recs' = Put(recs, writing[p].id, writing[p].rec)
  BY DEF Commit, Apply
<1>2. DOMAIN writing' = {}
  <2>1. DOMAIN writing = {p}
    BY <1>1 DEF BookingInv, OneWriter
  <2> QED
    BY <2>1 DEF Commit, Drop
<1> QED
  BY <1>1, <1>2 DEF Put

\* The inductive invariant is preserved.
LEMMA StepBooking ==
  ASSUME BookingInv, [Next]_vars
  PROVE  BookingInv'
<1>1. TypeOK'
  BY StepType DEF BookingInv
<1>2. CASE \E p \in Handlers \union Workers : Commit(p)
  <2>1. PICK p \in Handlers \union Workers : Commit(p)
    BY <1>2
  <2> DEFINE id == writing[p].id
  <2>2. /\ p \in DOMAIN writing /\ DOMAIN writing' = {}
        /\ DOMAIN recs' = DOMAIN recs \union {id} /\ recs'[id] = writing[p].rec
        /\ \A i \in DOMAIN recs \ {id} : recs'[i] = recs[i]
    BY <2>1, CommitShape
  <2>3. OneWriter' /\ WriteFree' /\ WriteOpen'
    BY <2>2 DEF OneWriter, WriteFree, WriteOpen
  <2>4. \A j \in DOMAIN recs \ {id} : Apart(writing[p].rec, recs[j])
    BY <2>2 DEF BookingInv, WriteFree, FreeWrites
  <2>5. ASSUME NEW i \in DOMAIN recs', NEW j \in DOMAIN recs', i # j
        PROVE  Apart(recs'[i], recs'[j])
    <3>1. CASE i = id
      BY <2>2, <2>4, <2>5, <3>1
    <3>2. CASE j = id
      <4>1. Apart(recs'[j], recs'[i])
        BY <2>2, <2>4, <2>5, <3>2
      <4> QED
        BY <4>1 DEF Apart
    <3>3. CASE i # id /\ j # id
      BY <2>2, <2>5, <3>3 DEF BookingInv, NoDoubleBooking
    <3> QED
      BY <3>1, <3>2, <3>3
  <2>6. NoDoubleBooking'
    BY <2>5 DEF NoDoubleBooking, Apart, Occupies
  <2> QED
    BY <1>1, <2>3, <2>6 DEF BookingInv
<1>3. CASE \E p \in Handlers \union Workers : Taken(p)
  <2>1. PICK p \in Handlers \union Workers : Taken(p)
    BY <1>3
  <2>2. PICK w : Acquire(p, w) /\ FreeWrites(w) /\ OpenWrites(w)
    <3>1. AcquireExpire(p) => p \in Workers
      BY DEF AcquireExpire, BookingInv, TypeOK, ActorsOK
    <3>2. AcquireTransition(p) \/ AcquireEdit(p) => p \in Handlers
      BY DEF AcquireTransition, AcquireEdit, BookingInv, TypeOK, ActorsOK
    <3> QED
      BY <2>1, <3>1, <3>2, CreateSound, TransitionSound, EditSound, ExpireSound DEF Taken
  <2>3. recs' = recs /\ DOMAIN writing' = {p} /\ writing'[p] = w
    BY <2>2 DEF Acquire, Locked, Put, tables
  <2>4. OneWriter' /\ NoDoubleBooking'
    BY <2>3 DEF OneWriter, NoDoubleBooking, BookingInv, Apart, Occupies
  <2>5. WriteFree' /\ WriteOpen'
    BY <2>2, <2>3 DEF WriteFree, WriteOpen, FreeWrites, OpenWrites
  <2> QED
    BY <1>1, <2>4, <2>5 DEF BookingInv
<1>4. CASE Quiet
  BY <1>1, <1>4 DEF Quiet, BookingInv, OneWriter, WriteFree, WriteOpen, FreeWrites, OpenWrites,
                    NoDoubleBooking
<1> QED
  BY <1>2, <1>3, <1>4, StepShape

\* It holds in every reachable state.
LEMMA BookingInvariant == Spec => []BookingInv
<1>1. Init => BookingInv
  BY InitType DEF Init, NoRows, BookingInv, OneWriter, WriteFree, WriteOpen, NoDoubleBooking
<1>2. BookingInv /\ [Next]_vars => BookingInv'
  BY StepBooking
<1> QED
  BY <1>1, <1>2, PTL DEF Spec

\* No two held appointments of a resource overlap, buffers included, however many
\* handlers confirm and move requests, workers expire them and administrators change
\* services, resources, hours and plan in the meantime.
THEOREM BookingSafe == Spec => []NoDoubleBooking
<1>1. BookingInv => NoDoubleBooking
  BY DEF BookingInv
<1> QED
  BY <1>1, BookingInvariant, PTL

\* The second of two decisions on a request never takes effect: once its status is
\* final, no owner, customer or worker writes its row again.
THEOREM DecisionsFinal == Spec => DecisionIsFinal
<1> DEFINE Kept ==
      \A i \in DOMAIN recs : Terminal(recs[i].module, recs[i].status) => recs'[i] = recs[i]
<1>1. ASSUME BookingInv, [Next]_vars
      PROVE  [Kept]_recs
  <2>1. CASE \E p \in Handlers \union Workers : Commit(p)
    <3>1. PICK p \in Handlers \union Workers : Commit(p)
      BY <2>1
    <3>2. \A i \in DOMAIN recs \ {writing[p].id} : recs'[i] = recs[i]
      BY <1>1, <3>1, CommitShape
    <3>3. OpenWrites(writing[p])
      BY <1>1, <3>1, CommitShape DEF BookingInv, WriteOpen
    <3> QED
      BY <3>2, <3>3 DEF OpenWrites
  <2>2. CASE \E p \in Handlers \union Workers : Taken(p)
    BY <2>2 DEF Taken, AcquireCreate, AcquireTransition, AcquireEdit, AcquireExpire, Acquire, tables
  <2>3. CASE Quiet
    BY <2>3 DEF Quiet
  <2> QED
    BY <1>1, <2>1, <2>2, <2>3, StepShape
<1>2. BookingInv /\ [Next]_vars => [Kept]_recs
  BY <1>1
<1> QED
  BY <1>2, BookingInvariant, PTL DEF Spec, DecisionIsFinal
=============================================================================
