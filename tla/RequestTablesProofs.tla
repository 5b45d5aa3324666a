------------------------ MODULE RequestTablesProofs -------------------------
(***************************************************************************)
(* More proofs about Requests: what the tables say of one another.  The    *)
(* history, the usage events, the management tokens, the messages and the  *)
(* expiries agree with the records after every step, and every step on the *)
(* records is one that Bookings allows.                                    *)
(*                                                                         *)
(* All of it rests on the shape of the rows an open transaction is about   *)
(* to write, compared with the records it read: nobody else writes these   *)
(* before it commits.                                                      *)
(***************************************************************************)
EXTENDS RequestsProofs

USE DEF Time

-----------------------------------------------------------------------------
(* The three shapes of a transaction *)

\* create: a pending record, its first row of history and a message.
Creates(w) ==
  /\ w.id \notin DOMAIN recs
  /\ w.rec.status = "requested"
  /\ w.rec.expires <= w.rec.start
  /\ w.hist = <<[from |-> "", to |-> "requested"]>>
  /\ w.use = {}
  /\ \E j \in w.enq : j.id = w.id /\ j.at > w.rec.expires
  /\ w.access \subseteq {w.rec.ends + AccessTTL}

\* A transition or an expiration: the status changes and nothing else of the
\* record; exactly a confirmation of a pending request is charged.
Moves(module, from, to) ==
  to \in Allowed(module, from) \/ (from = "requested" /\ to = "expired")
Decides(w) ==
  /\ w.id \in DOMAIN recs
  /\ LET r == recs[w.id]
     IN  /\ w.rec = [r EXCEPT !.status = w.rec.status, !.version = @ + 1]
         /\ Moves(r.module, r.status, w.rec.status)
         /\ w.hist = <<[from |-> r.status, to |-> w.rec.status]>>
         /\ w.use # {} <=> r.status = "requested" /\ w.rec.status = "confirmed"
         /\ \A u \in w.use : u.module = r.module /\ u.id = w.id
  /\ w.enq = {} /\ w.access = {}

\* A place that the record may be moved to while it holds one.
HeldApart(w) ==
  \A j \in DOMAIN recs \ {w.id} : Apart([w.rec EXCEPT !.status = "confirmed"], recs[j])

\* An edit: only the version changes, or the place does and expiry, message and token
\* follow it.
Edits(w) ==
  /\ w.id \in DOMAIN recs
  /\ LET r == recs[w.id]
     IN  /\ w.rec.module = r.module /\ w.rec.status = r.status
         /\ w.rec.phone = r.phone /\ w.rec.created = r.created /\ w.rec.origin = r.origin
         /\ w.hist = <<>> /\ w.use = {}
         /\ \/ /\ w.rec = [r EXCEPT !.version = @ + 1]
               /\ w.enq = {} /\ w.access = {}
            \/ /\ \E j \in w.enq : j.id = w.id /\ j.at > w.rec.expires
               /\ w.access = {w.rec.ends + AccessTTL}
               /\ r.status = "requested" => w.rec.expires <= w.rec.start
               /\ HeldApart(w)

Shaped(w) == Creates(w) \/ Decides(w) \/ Edits(w)
WriteShaped == \A p \in DOMAIN writing : Shaped(writing[p])

-----------------------------------------------------------------------------
(* The checks made under the lock give the rows one of the shapes *)

\* Taking the lock leaves the records alone and is the only open transaction.
LEMMA AcquireShape ==
  ASSUME NEW p, NEW w, Acquire(p, w)
  PROVE  /\ DOMAIN writing = {} /\ DOMAIN writing' = {p} /\ writing'[p] = w
         /\ UNCHANGED <<clock, sub, settings, recs, usage, history, access, replay, jobs, failed,
                        request, expiring>>
  BY DEF Acquire, Locked, Put, tables, queue, catalogVars

\* A place on offer does not begin in the past.
LEMMA OfferedLater ==
  ASSUME CatalogOK, NEW m \in Modules, NEW hours, NEW closed, NEW length, NEW start \in Nat,
         Offered(hours, closed, settings[m], length, start)
  PROVE  clock <= start
<1>1. settings[m].lead \in Nat /\ clock \in Nat
  BY BoundsAssumption DEF CatalogOK, Settings
<1>2. start >= clock + settings[m].lead
  BY DEF Offered
<1> QED
  BY <1>1, <1>2

\* Nor does a place that passed its check.
LEMMA CheckedLater ==
  ASSUME CatalogOK, NEW m \in Modules, NEW service, NEW where, NEW exclude,
         NEW start \in Nat, NEW duration, NEW buffer,
         CheckPlace(m, service, where, exclude, start, duration, buffer),
         m = "preorders" => start = WindowStart[where]
  PROVE  clock <= start
<1>1. CASE m = "appointments"
  BY <1>1, OfferedLater DEF CheckPlace, CheckAppointment
<1>2. CASE m = "preorders"
  <2>1. Offered(settings[m].hours, settings[m].closed, settings[m], settings[m].slot, start)
    BY <1>2 DEF CheckPlace, CheckPickup
  <2> QED
    BY <2>1, OfferedLater
<1> QED
  BY <1>1, <1>2 DEF Modules

\* pendingExpiration: a pending record expires before its place begins, and no sooner
\* than now if the place has not begun.
LEMMA PendingExpires ==
  ASSUME CatalogOK, NEW m \in Modules, NEW start \in Nat
  PROVE  /\ PendingExpiration(start, m) \in Nat
         /\ PendingExpiration(start, m) <= start
         /\ clock <= start => clock <= PendingExpiration(start, m)
<1>1. settings[m].ttl \in Nat /\ clock \in Nat
  BY BoundsAssumption DEF CatalogOK, Settings
<1> QED
  BY <1>1 DEF PendingExpiration, Earlier

\* enqueueExpiration: visible after the expiry.
LEMMA JobIsLater ==
  ASSUME CatalogOK, NEW id, NEW expires \in Nat
  PROVE  ExpirationJob(id, expires).id = id /\ ExpirationJob(id, expires).at > expires
<1>1. clock \in Nat
  BY BoundsAssumption DEF CatalogOK
<1> QED
  BY <1>1 DEF ExpirationJob, Later

\* An edit moves a record to where the form says, renews its expiry and keeps the rest.
LEMMA MovedShape ==
  ASSUME NEW r \in Record, NEW f \in EditForm
  PROVE  /\ Moved(r, f).module = r.module /\ Moved(r, f).status = r.status
         /\ Moved(r, f).phone = r.phone /\ Moved(r, f).created = r.created
         /\ Moved(r, f).origin = r.origin /\ Moved(r, f).service = r.service
         /\ Moved(r, f).buffer = r.buffer /\ Moved(r, f).where = f.where
         /\ r.module = "appointments" =>
              Moved(r, f).ends - Moved(r, f).start = r.ends - r.start
         /\ r.module # "appointments" => Moved(r, f).start = WindowStart[f.where]
         /\ r.status = "requested" =>
              Moved(r, f).expires = PendingExpiration(Moved(r, f).start, r.module)
<1> DEFINE start == IF r.module = "appointments" THEN f.start ELSE WindowStart[f.where]
           ends == IF r.module = "appointments" THEN start + (r.ends - r.start)
                                                ELSE WindowEnd[f.where]
           expires == IF r.status = "requested" THEN PendingExpiration(start, r.module)
                                                ELSE r.expires
<1>1. Moved(r, f) =
        [r EXCEPT !.where = f.where, !.start = start, !.ends = ends, !.expires = expires]
  BY DEF Moved
<1>2. r.module = "appointments" => ends - start = r.ends - r.start
  BY DEF Record, EditForm
<1>3. r.module # "appointments" => start = WindowStart[f.where]
  OBVIOUS
<1>4. r.status = "requested" => expires = PendingExpiration(start, r.module)
  OBVIOUS
<1> HIDE DEF start, ends, expires
<1> QED
  BY <1>1, <1>2, <1>3, <1>4 DEF Record

\* create ...
LEMMA CreateShaped ==
  ASSUME TypeOK, NEW p \in Handlers, AcquireCreate(p)
  PROVE  Acquire(p, writing'[p]) /\ Creates(writing'[p])
<1> DEFINE op == request[p].op
           f == op.form
           now == request[p].now
           r == NewRecord(f, now)
           writes(id) ==
             [id |-> id, rec |-> r, hist |-> <<[from |-> "", to |-> "requested"]>>,
              use |-> {}, enq |-> {ExpirationJob(id, r.expires)},
              access |-> IF f.channel = "personal" THEN {} ELSE {r.ends + AccessTTL},
              row |-> ReplayRow(op, now, id)]
<1>1. p \in DOMAIN request /\ f.kind = "create"
  BY DEF AcquireCreate
<1>2. op \in Creation \union Call /\ now \in Time
  BY <1>1 DEF TypeOK, ActorsOK
<1>3. PICK id \in Ids \ DOMAIN recs : Acquire(p, writes(id))
  BY DEF AcquireCreate
<1>4. f \in CreateForms /\ f \in CreateForm
  BY <1>1, <1>2, CallKinds DEF Creation
<1>5. r \in Record
  BY <1>2, <1>4, NewRecordType DEF TypeOK
<1>6. r.expires \in Nat /\ r.start \in Nat
  BY <1>5 DEF Record
<1>7. r.status = "requested" /\ r.expires = PendingExpiration(r.start, f.module)
  BY DEF NewRecord
<1>8. r.expires <= r.start
  BY <1>4, <1>6, <1>7, PendingExpires DEF TypeOK, CreateForm
<1>9. writing'[p] = writes(id)
  <2> HIDE DEF writes
  <2> QED
    BY <1>3, AcquireShape
<1>10. ExpirationJob(id, r.expires).id = id /\ ExpirationJob(id, r.expires).at > r.expires
  BY <1>6, JobIsLater DEF TypeOK
<1> HIDE DEF r
<1>11. Creates(writes(id))
  BY <1>7, <1>8, <1>10 DEF Creates
<1> QED
  BY <1>3, <1>9, <1>11

\* ... a transition ...
LEMMA TransitionShaped ==
  ASSUME TypeOK, NEW p \in Handlers, AcquireTransition(p)
  PROVE  Acquire(p, writing'[p]) /\ Decides(writing'[p])
<1> DEFINE op == request[p].op
           f == op.form
           r == recs[op.id]
           confirm == r.status = "requested" /\ f.to = "confirmed"
           use == IF confirm
                  THEN {[module |-> r.module, id |-> op.id, period |-> sub.periodStart]}
                  ELSE {}
           new == [r EXCEPT !.status = f.to, !.version = @ + 1]
           writes ==
             [id |-> op.id, rec |-> new,
              hist |-> <<[from |-> r.status, to |-> f.to]>>, use |-> use, enq |-> {},
              access |-> {}, row |-> ReplayRow(op, request[p].now, op.id)]
<1>1. /\ p \in DOMAIN request /\ f.kind = "transition"
      /\ f.to \in Allowed(r.module, r.status)
  BY DEF AcquireTransition
<1>2. op.id \in DOMAIN recs
  BY <1>1, CallKinds DEF TypeOK, ActorsOK
<1>3. r \in Record
  BY <1>2 DEF TypeOK, TablesOK
<1>4. new.status = f.to /\ new = [r EXCEPT !.status = new.status, !.version = @ + 1]
  BY <1>3 DEF Record
<1>5. Acquire(p, writes)
  BY DEF AcquireTransition
<1>6. writing'[p] = writes
  <2> HIDE DEF writes
  <2> QED
    BY <1>5, AcquireShape
<1>7. (use # {} <=> confirm) /\ \A u \in use : u.module = r.module /\ u.id = op.id
  <2>1. CASE confirm
    BY <2>1
  <2>2. CASE ~ confirm
    BY <2>2
  <2> QED
    BY <2>1, <2>2
<1> HIDE DEF new, op, f, r, use
<1>8. Decides(writes)
  BY <1>1, <1>2, <1>4, <1>7 DEF Decides, Moves, r
<1> QED
  BY <1>5, <1>6, <1>8

\* ... an expiration ...
LEMMA ExpireShaped ==
  ASSUME TypeOK, NEW p \in Workers, AcquireExpire(p)
  PROVE  Acquire(p, writing'[p]) /\ Decides(writing'[p])
<1> DEFINE id == expiring[p].id
           r == recs[id]
           new == [r EXCEPT !.status = "expired", !.version = @ + 1]
           writes ==
             [id |-> id, rec |-> new, hist |-> <<[from |-> "requested", to |-> "expired"]>>,
              use |-> {}, enq |-> {}, access |-> {}, row |-> {}]
<1>1. p \in DOMAIN expiring /\ r.status = "requested"
  BY DEF AcquireExpire, Lapsed
<1>2. id \in DOMAIN recs
  BY <1>1 DEF TypeOK, ActorsOK
<1>3. r \in Record
  BY <1>2 DEF TypeOK, TablesOK
<1>4. new.status = "expired" /\ new = [r EXCEPT !.status = new.status, !.version = @ + 1]
  BY <1>3 DEF Record
<1>5. Acquire(p, writes)
  BY DEF AcquireExpire
<1>6. writing'[p] = writes
  <2> HIDE DEF writes
  <2> QED
    BY <1>5, AcquireShape
<1> HIDE DEF new, id, r
<1>7. Decides(writes)
  BY <1>1, <1>2, <1>4 DEF Decides, Moves, r
<1> QED
  BY <1>5, <1>6, <1>7

\* A renewed expiry is not over.
RenewedLater(w) ==
  w.rec.status = "requested" =>
    w.rec.expires = recs[w.id].expires \/ clock <= w.rec.expires

\* ... and an edit, which never renews an expiry to a time that is over.
LEMMA EditShaped ==
  ASSUME TypeOK, NEW p \in Handlers, AcquireEdit(p)
  PROVE  /\ Acquire(p, writing'[p]) /\ Edits(writing'[p])
         /\ RenewedLater(writing'[p])
<1> DEFINE op == request[p].op
           f == op.form
           r == recs[op.id]
           moved == IF f.moves THEN Moved(r, f) ELSE r
           new == [moved EXCEPT !.version = @ + 1]
           writes ==
             [id |-> op.id, rec |-> new, hist |-> <<>>, use |-> {},
              enq |-> Renewal(f, op.id, moved), access |-> Extension(f, moved),
              row |-> ReplayRow(op, request[p].now, op.id)]
<1>1. p \in DOMAIN request /\ f.kind = "edit"
  BY DEF AcquireEdit
<1>2. op.id \in DOMAIN recs /\ f \in EditForm
  BY <1>1, CallKinds DEF TypeOK, ActorsOK
<1>3. r \in Record
  BY <1>2 DEF TypeOK, TablesOK
<1>4. Acquire(p, writes)
  BY DEF AcquireEdit
<1>5. writing'[p] = writes
  <2> HIDE DEF writes
  <2> QED
    BY <1>4, AcquireShape
<1>6. CASE ~ f.moves
  <2>1. moved = r /\ Renewal(f, op.id, moved) = {} /\ Extension(f, moved) = {}
    BY <1>6 DEF Renewal, Extension
  <2>2. /\ new.module = r.module /\ new.status = r.status /\ new.phone = r.phone
        /\ new.created = r.created /\ new.origin = r.origin
        /\ new.expires = r.expires /\ new = [r EXCEPT !.version = @ + 1]
    BY <1>3, <2>1 DEF Record
  <2> HIDE DEF new, moved, r, op, f
  <2>3. Edits(writes) /\ RenewedLater(writes)
    BY <1>2, <2>1, <2>2 DEF Edits, RenewedLater, r
  <2> QED
    BY <1>4, <1>5, <2>3
<1>7. CASE f.moves
  <2>1. moved = Moved(r, f)
    BY <1>7
  <2>2. f.where \in IF r.module = "appointments" THEN Resources ELSE Windows
    BY <1>7 DEF AcquireEdit
  <2>3. moved \in Record
    BY <1>2, <1>3, <2>1, <2>2, MovedType DEF TypeOK
  <2>4. CheckPlace(r.module, r.service, f.where, {op.id}, moved.start,
                   r.ends - r.start, r.buffer)
    BY <1>7 DEF AcquireEdit
  <2>5. /\ moved.module = r.module /\ moved.status = r.status /\ moved.phone = r.phone
        /\ moved.created = r.created /\ moved.origin = r.origin
        /\ moved.service = r.service /\ moved.buffer = r.buffer /\ moved.where = f.where
        /\ r.module = "appointments" => moved.ends - moved.start = r.ends - r.start
        /\ r.module # "appointments" => moved.start = WindowStart[f.where]
        /\ r.status = "requested" => moved.expires = PendingExpiration(moved.start, r.module)
    BY <1>2, <1>3, <2>1, MovedShape
  <2>6. /\ new \in Record /\ new.expires = moved.expires /\ new.ends = moved.ends
        /\ new.module = r.module /\ new.status = r.status /\ new.phone = r.phone
        /\ new.created = r.created /\ new.origin = r.origin
        /\ new.service = r.service /\ new.buffer = r.buffer /\ new.where = f.where
        /\ new.start = moved.start
    <3> HIDE DEF moved, r
    <3>1. "requested" \in Statuses
      BY DEF Statuses, AppointmentStatuses
    <3>2. new \in Record
      BY <2>3, <3>1, DecidedType
    <3> QED
      BY <2>3, <2>5, <3>2 DEF Record
  <2>7. r.status = "requested" => new.expires <= new.start
    <3> HIDE DEF new, moved
    <3> QED
      BY <1>3, <2>3, <2>5, <2>6, PendingExpires DEF TypeOK, Record
  <2>8. \E j \in Renewal(f, op.id, moved) : j.id = op.id /\ j.at > new.expires
    <3> HIDE DEF new, moved
    <3>1. moved.expires \in Nat
      BY <2>3 DEF Record
    <3> QED
      BY <1>7, <2>6, <3>1, JobIsLater DEF Renewal, TypeOK
  <2>9. Extension(f, moved) = {new.ends + AccessTTL}
    <3> HIDE DEF new, moved
    <3> QED
      BY <1>7, <2>6 DEF Extension
  <2>10. ASSUME NEW j \in DOMAIN recs \ {op.id}
         PROVE  Apart([new EXCEPT !.status = "confirmed"], recs[j])
    <3> DEFINE held == [new EXCEPT !.status = "confirmed"]
    <3>1. /\ held \in Record /\ held.module = new.module /\ held.service = new.service
          /\ held.where = new.where /\ held.start = new.start /\ held.ends = new.ends
          /\ held.buffer = new.buffer
      <4> HIDE DEF new
      <4>1. "confirmed" \in Statuses
        BY DEF Statuses, AppointmentStatuses
      <4> QED
        BY <2>6, <4>1 DEF Record
    <3> HIDE DEF new, held, moved, op
    <3>2. held.module = "appointments" =>
            CheckAppointment(held.service, held.where, {op.id}, held.start,
                             held.ends - held.start, held.buffer)
      BY <2>4, <2>5, <2>6, <3>1 DEF CheckPlace
    <3>3. Apart(held, recs[j])
      BY <2>10, <3>1, <3>2, CheckedIsApart DEF TypeOK
    <3> QED
      BY <3>3 DEF held
  <2>11. r.status = "requested" => clock <= new.expires
    <3> HIDE DEF new, moved
    <3>1. moved.start \in Nat /\ r.module \in Modules
      BY <1>3, <2>3 DEF Record
    <3>2. clock <= moved.start
      BY <2>4, <2>5, <3>1, CheckedLater DEF TypeOK, Modules
    <3> QED
      BY <2>5, <2>6, <3>1, <3>2, PendingExpires DEF TypeOK
  <2> HIDE DEF new, moved, op, f, r
  <2>12. Edits(writes)
    BY <1>2, <2>6, <2>7, <2>8, <2>9, <2>10 DEF Edits, HeldApart, r
  <2>13. RenewedLater(writes)
    BY <2>6, <2>11 DEF RenewedLater
  <2> QED
    BY <1>4, <1>5, <2>12, <2>13
<1> QED
  BY <1>6, <1>7

\* Whoever takes the lock: one transaction, of one of the shapes, and no change yet.
LEMMA TakenShaped ==
  ASSUME TypeOK, NEW p \in Handlers \union Workers, Taken(p)
  PROVE  Acquire(p, writing'[p]) /\ Shaped(writing'[p])
<1>1. AcquireExpire(p) => p \in Workers
  BY DEF AcquireExpire, TypeOK, ActorsOK
<1>2. AcquireCreate(p) \/ AcquireTransition(p) \/ AcquireEdit(p) => p \in Handlers
  BY DEF AcquireCreate, AcquireTransition, AcquireEdit, TypeOK, ActorsOK
<1> QED
  BY <1>1, <1>2, CreateShaped, TransitionShaped, EditShaped, ExpireShaped DEF Taken, Shaped

-----------------------------------------------------------------------------
(* The tables *)

\* Only stored records are charged.
UsageKnown == \A u \in usage : u.id \in DOMAIN recs

\* The inductive invariant of the tables.
TablesInv ==
  /\ BookingInv
  /\ WriteShaped
  /\ UsageKnown
  /\ HistoryChain
  /\ ChargedIffHeld
  /\ AccessFollowsRequest
  /\ PendingEndsBeforeStart

\* The steps that neither write the tables nor take the lock; CleanAccess deletes tokens.
Still ==
  /\ Quiet
  /\ UNCHANGED <<usage, history>>
  /\ DOMAIN access' \subseteq DOMAIN access
  /\ \A i \in DOMAIN access' : access'[i] = access[i]

LEMMA StillShape ==
  ASSUME [Next]_vars
  PROVE  \/ \E p \in Handlers \union Workers : Commit(p)
         \/ \E p \in Handlers \union Workers : Taken(p)
         \/ Still
<1>1. ASSUME NEW p \in Handlers, Handle(p)
      PROVE  Commit(p) \/ Taken(p) \/ Still
  BY <1>1 DEF Handle, Taken, Still, Quiet, ArriveCreate, ArriveMutate, Begin, Rollback, Drop,
              tables
<1>2. ASSUME NEW w \in Workers, Work(w)
      PROVE  Commit(w) \/ Taken(w) \/ Still
  BY <1>2 DEF Work, Taken, Still, Quiet, ReadJob, SweepDue, ExpireNothing, Ack, AbandonExpire,
              FailJob, Drop, tables
<1>3. CASE Administer \/ Tick \/ CleanReplay \/ UNCHANGED vars
  BY <1>3 DEF Administer, ChangeSubscription, Configure, SaveService, SaveResource, Tick,
              CleanReplay, Still, Quiet, tables, vars
<1>4. CASE CleanAccess
  BY <1>4 DEF CleanAccess, Keep, Still, Quiet
<1> QED
  BY <1>1, <1>2, <1>3, <1>4 DEF Next

\* A commit writes the tables as the open transaction has prepared it.
LEMMA CommitTables ==
  ASSUME BookingInv, NEW p \in Handlers \union Workers, Commit(p),
         NEW w, w = writing[p]
  PROVE  /\ w \in WriteSet /\ w.id \in Ids
         /\ DOMAIN recs' = DOMAIN recs \union {w.id} /\ recs'[w.id] = w.rec
         /\ \A i \in DOMAIN recs \ {w.id} : recs'[i] = recs[i]
         /\ history'[w.id] =
              (IF w.id \in DOMAIN recs THEN history[w.id] ELSE <<>>) \o w.hist
         /\ \A i \in DOMAIN recs \ {w.id} : history'[i] = history[i]
         /\ usage \subseteq usage' /\ usage' \subseteq usage \union w.use
         /\ \A u \in w.use : \E e \in usage' : e.module = u.module /\ e.id = u.id
         /\ IF w.access = {} \/ (w.id \in DOMAIN recs /\ w.id \notin DOMAIN access)
            THEN access' = access
            ELSE /\ DOMAIN access' = DOMAIN access \union {w.id}
                 /\ access'[w.id] \in w.access
                 /\ \A i \in DOMAIN access \ {w.id} : access'[i] = access[i]
         /\ jobs' = jobs \union w.enq /\ failed' = failed /\ clock' = clock
<1>1. p \in DOMAIN writing /\ Apply(w) /\ failed' = failed /\ clock' = clock
  BY DEF Commit
<1>2. w \in WriteSet /\ w.id \in Ids /\ DOMAIN history = DOMAIN recs
  BY <1>1 DEF BookingInv, TypeOK, ActorsOK, TablesOK, WriteSet
<1>3. /\ DOMAIN recs' = DOMAIN recs \union {w.id} /\ recs'[w.id] = w.rec
      /\ \A i \in DOMAIN recs \ {w.id} : recs'[i] = recs[i]
  BY CommitShape
<1>4. /\ history'[w.id] = (IF w.id \in DOMAIN recs THEN history[w.id] ELSE <<>>) \o w.hist
      /\ \A i \in DOMAIN recs \ {w.id} : history'[i] = history[i]
  BY <1>1, <1>2 DEF Apply, Put
<1>5. usage' = usage \union {u \in w.use : \A e \in usage : e.module # u.module \/ e.id # u.id}
  BY <1>1 DEF Apply
<1>6. ASSUME w.access # {}, ~ (w.id \in DOMAIN recs /\ w.id \notin DOMAIN access)
      PROVE  /\ DOMAIN access' = DOMAIN access \union {w.id}
             /\ access'[w.id] \in w.access
             /\ \A i \in DOMAIN access \ {w.id} : access'[i] = access[i]
  <2> DEFINE e == CHOOSE e \in w.access : TRUE
  <2>1. e \in w.access
    BY <1>6
  <2>2. access' = Put(access, w.id, e)
    BY <1>1, <1>6 DEF Apply
  <2> HIDE DEF e
  <2> QED
    BY <2>1, <2>2 DEF Put
<1>7. w.access = {} \/ (w.id \in DOMAIN recs /\ w.id \notin DOMAIN access) => access' = access
  BY <1>1 DEF Apply
<1>8. jobs' = jobs \union w.enq
  BY <1>1 DEF Apply
<1>9. \A u \in w.use : \E e \in usage' : e.module = u.module /\ e.id = u.id
  BY <1>5
<1> QED
  BY <1>1, <1>2, <1>3, <1>4, <1>5, <1>6, <1>7, <1>8, <1>9

\* The shape of a transaction depends on the records alone.
LEMMA ShapeStays ==
  ASSUME recs' = recs, NEW p, Shaped(writing'[p])
  PROVE  Shaped(writing[p])'
<1>1. CASE Creates(writing'[p])
  BY <1>1 DEF Shaped, Creates
<1>2. CASE Decides(writing'[p])
  BY <1>2 DEF Shaped, Decides, Moves
<1>3. CASE Edits(writing'[p])
  BY <1>3 DEF Shaped, Edits, HeldApart
<1> QED
  BY <1>1, <1>2, <1>3 DEF Shaped

\* What an open transaction has prepared keeps its shape until it commits.
LEMMA StepShaped ==
  ASSUME BookingInv, WriteShaped, [Next]_vars
  PROVE  WriteShaped'
<1>1. CASE \E p \in Handlers \union Workers : Commit(p)
  BY <1>1, CommitShape DEF WriteShaped
<1>2. CASE \E p \in Handlers \union Workers : Taken(p)
  <2>1. PICK p \in Handlers \union Workers : Taken(p)
    BY <1>2
  <2>2. /\ recs' = recs /\ DOMAIN writing' = {p} /\ Shaped(writing'[p])
    BY <2>1, TakenShaped, AcquireShape DEF BookingInv
  <2> QED
    BY <2>2, ShapeStays DEF WriteShaped
<1>3. CASE Quiet
  <2>1. \A p \in DOMAIN writing' : Shaped(writing'[p])
    BY <1>3 DEF Quiet, WriteShaped
  <2> QED
    BY <1>3, <2>1, ShapeStays DEF Quiet, WriteShaped
<1> QED
  BY <1>1, <1>2, <1>3, StepShape

-----------------------------------------------------------------------------
(* History *)

\* A history that is extended by one row keeps the others.
LEMMA Extended ==
  ASSUME NEW h \in Seq(Change), NEW c \in Change
  PROVE  /\ Len(h \o <<c>>) = Len(h) + 1 /\ (h \o <<c>>)[Len(h) + 1] = c
         /\ \A k \in 1 .. Len(h) : (h \o <<c>>)[k] = h[k]
         /\ <<>> \o <<c>> = <<c>> /\ h \o <<>> = h
  OBVIOUS

\* h is a path of the life cycle from the creation of r to its status.
Path(h, r) ==
  /\ h # <<>>
  /\ h[1] = [from |-> "", to |-> "requested"]
  /\ h[Len(h)].to = r.status
  /\ \A k \in 2 .. Len(h) :
       /\ h[k].from = h[k - 1].to
       /\ \/ h[k].to \in Allowed(r.module, h[k].from)
          \/ h[k] = [from |-> "requested", to |-> "expired"]

LEMMA ChainOfPaths ==
  /\ HistoryChain => \A i \in DOMAIN recs : Path(history[i], recs[i])
  /\ (\A i \in DOMAIN recs' : Path(history'[i], recs'[i])) => HistoryChain'
  BY DEF HistoryChain, Path

\* The first row is a path to a pending record.
LEMMA FirstPath ==
  ASSUME NEW r, r.status = "requested"
  PROVE  Path(<<[from |-> "", to |-> "requested"]>>, r)
<1> DEFINE c == [from |-> "", to |-> "requested"]
<1>1. Len(<<c>>) = 1 /\ <<c>>[1] = c /\ <<c>> # <<>>
  OBVIOUS
<1>2. c.to = r.status
  OBVIOUS
<1>3. c = [from |-> "", to |-> "requested"]
  OBVIOUS
<1> HIDE DEF c
<1>4. \A k \in 2 .. 1 : FALSE
  OBVIOUS
<1>5. Path(<<c>>, r)
  BY <1>1, <1>2, <1>3, <1>4 DEF Path
<1> QED
  BY <1>5 DEF c

\* A path depends on the module and the status of its record only.
LEMMA SamePath ==
  ASSUME NEW h, NEW r, NEW s, Path(h, r), s.module = r.module, s.status = r.status
  PROVE  Path(h, s)
  BY DEF Path

\* A path followed by one move of the life cycle is a path.
LEMMA PathExtended ==
  ASSUME NEW h \in Seq(Change), NEW r, NEW to, [from |-> r.status, to |-> to] \in Change,
         Path(h, r), Moves(r.module, r.status, to),
         NEW s, s.module = r.module, s.status = to
  PROVE  Path(h \o <<[from |-> r.status, to |-> to]>>, s)
<1> DEFINE c == [from |-> r.status, to |-> to]
           g == h \o <<c>>
<1>0. c \in Change
  OBVIOUS
<1>1. /\ Len(g) = Len(h) + 1 /\ g[Len(h) + 1] = c
      /\ \A k \in 1 .. Len(h) : g[k] = h[k]
  <2> HIDE DEF c
  <2> QED
    BY <1>0, Extended
<1>2. Len(h) \in Nat /\ Len(h) >= 1 /\ g # <<>>
  <2>1. h # <<>>
    BY DEF Path
  <2>2. Len(h) \in Nat /\ Len(h) >= 1
    BY <2>1
  <2>3. Len(<<>>) = 0
    OBVIOUS
  <2> HIDE DEF g
  <2> QED
    BY <1>1, <2>2, <2>3
<1>3. c.to = to /\ c.from = r.status
  OBVIOUS
<1>4. c.to \in Allowed(s.module, c.from) \/ c = [from |-> "requested", to |-> "expired"]
  BY DEF Moves
<1> HIDE DEF c, g
<1>5. ASSUME NEW k \in 2 .. Len(g)
      PROVE  /\ g[k].from = g[k - 1].to
             /\ \/ g[k].to \in Allowed(s.module, g[k].from)
                \/ g[k] = [from |-> "requested", to |-> "expired"]
  <2>1. CASE k = Len(h) + 1
    <3>1. g[k] = c /\ g[k - 1] = h[Len(h)]
      BY <1>1, <1>2, <2>1
    <3> QED
      BY <1>3, <1>4, <3>1 DEF Path
  <2>2. CASE k # Len(h) + 1
    <3>1. k \in 2 .. Len(h) /\ k \in 1 .. Len(h) /\ k - 1 \in 1 .. Len(h)
      BY <1>1, <1>2, <2>2
    <3>2. g[k] = h[k] /\ g[k - 1] = h[k - 1]
      BY <1>1, <3>1
    <3> QED
      BY <3>1, <3>2 DEF Path
  <2> QED
    BY <2>1, <2>2
<1>6. g[1] = h[1]
  BY <1>1, <1>2
<1>7. g[Len(g)].to = s.status
  BY <1>1, <1>3
<1>8. Path(g, s)
  BY <1>2, <1>5, <1>6, <1>7 DEF Path
<1> QED
  BY <1>8 DEF g, c

\* A commit extends the path of its record.
LEMMA CommitHistory ==
  ASSUME BookingInv, WriteShaped, HistoryChain, NEW p \in Handlers \union Workers, Commit(p)
  PROVE  HistoryChain'
<1> DEFINE w == writing[p]
<1>1. /\ w \in WriteSet
      /\ DOMAIN recs' = DOMAIN recs \union {w.id} /\ recs'[w.id] = w.rec
      /\ \A i \in DOMAIN recs \ {w.id} : recs'[i] = recs[i]
      /\ history'[w.id] = (IF w.id \in DOMAIN recs THEN history[w.id] ELSE <<>>) \o w.hist
      /\ \A i \in DOMAIN recs \ {w.id} : history'[i] = history[i]
  <2> HIDE DEF w
  <2>1. w = writing[p]
    BY DEF w
  <2> QED
    BY <2>1, CommitTables
<1>2. Shaped(w)
  BY CommitShape DEF WriteShaped
<1>3. w.hist \in Seq(Change) /\ w.rec \in Record
  BY <1>1 DEF WriteSet
<1>4. \A i \in DOMAIN recs : history[i] \in Seq(Change) /\ Path(history[i], recs[i])
  BY ChainOfPaths DEF BookingInv, TypeOK, TablesOK
<1> HIDE DEF w
<1>5. CASE Creates(w)
  <2> DEFINE c == [from |-> "", to |-> "requested"]
  <2>1. w.id \notin DOMAIN recs /\ w.hist = <<c>> /\ w.rec.status = c.to
    BY <1>5 DEF Creates
  <2>2. c \in Change
    BY DEF Change, Statuses, AppointmentStatuses
  <2>3. history'[w.id] = <<c>>
    <3> HIDE DEF c
    <3>1. <<>> \o <<c>> = <<c>>
      OBVIOUS
    <3> QED
      BY <1>1, <2>1, <3>1
  <2>4. Path(history'[w.id], recs'[w.id])
    BY <1>1, <2>1, <2>3, FirstPath
  <2> QED
    BY <1>1, <1>4, <2>4, ChainOfPaths
<1>6. CASE Decides(w)
  <2> DEFINE r == recs[w.id]
  <2>1. /\ w.id \in DOMAIN recs /\ w.hist = <<[from |-> r.status, to |-> w.rec.status]>>
        /\ w.rec = [r EXCEPT !.status = w.rec.status, !.version = @ + 1]
        /\ Moves(r.module, r.status, w.rec.status)
    BY <1>6 DEF Decides
  <2>2. r \in Record /\ history[w.id] \in Seq(Change)
    BY <1>4, <2>1 DEF BookingInv, TypeOK, TablesOK
  <2>3. w.rec.module = r.module
    BY <2>1, <2>2 DEF Record
  <2>4. [from |-> r.status, to |-> w.rec.status] \in Change
    BY <1>3, <2>2 DEF Change, Record
  <2>5. Path(history[w.id], r)
    BY <1>4, <2>1
  <2> HIDE DEF r
  <2>6. Path(history'[w.id], w.rec)
    BY <1>1, <2>1, <2>2, <2>3, <2>4, <2>5, PathExtended
  <2> QED
    BY <1>1, <1>4, <2>6, ChainOfPaths
<1>7. CASE Edits(w)
  <2>1. w.id \in DOMAIN recs /\ w.hist = <<>>
    BY <1>7 DEF Edits
  <2>2. w.rec.module = recs[w.id].module /\ w.rec.status = recs[w.id].status
    BY <1>7 DEF Edits
  <2>3. history'[w.id] = history[w.id]
    <3>1. history[w.id] \in Seq(Change)
      BY <1>4, <2>1
    <3>2. history[w.id] \o <<>> = history[w.id]
      BY <3>1
    <3> QED
      BY <1>1, <2>1, <3>2
  <2>4. Path(history'[w.id], w.rec)
    BY <1>4, <2>1, <2>2, <2>3, SamePath
  <2> QED
    BY <1>1, <1>4, <2>4, ChainOfPaths
<1> QED
  BY <1>2, <1>5, <1>6, <1>7 DEF Shaped

-----------------------------------------------------------------------------
(* Charges *)

\* Some row of the history says that the request held its place.
HeldIn(h, module) == \E k \in DOMAIN h : h[k].to \in Holding(module)

LEMMA HeldExtended ==
  ASSUME NEW h \in Seq(Change), NEW c \in Change, NEW module
  PROVE  HeldIn(h \o <<c>>, module) <=> HeldIn(h, module) \/ c.to \in Holding(module)
<1> DEFINE g == h \o <<c>>
<1>1. /\ Len(g) = Len(h) + 1 /\ g[Len(h) + 1] = c
      /\ \A k \in 1 .. Len(h) : g[k] = h[k]
  BY Extended
<1>2. DOMAIN h = 1 .. Len(h) /\ DOMAIN g = 1 .. Len(g) /\ Len(h) \in Nat
  OBVIOUS
<1> HIDE DEF g
<1>3. HeldIn(g, module) <=> HeldIn(h, module) \/ c.to \in Holding(module)
  BY <1>1, <1>2 DEF HeldIn
<1> QED
  BY <1>3 DEF g

\* Only a confirmation brings a request into a status that holds a place.
LEMMA HoldsOn ==
  ASSUME NEW module, NEW from, NEW to, Moves(module, from, to), to \in Holding(module),
         ~ (from = "requested" /\ to = "confirmed")
  PROVE  from \in Holding(module)
  BY DEF Moves, Holding, HoldingAppointment, HoldingPreorder, Allowed, AppointmentNext,
         PreorderNext

\* The end of a path is one of its rows.
LEMMA PathHeld ==
  ASSUME NEW h \in Seq(Change), NEW r, Path(h, r), r.status \in Holding(r.module)
  PROVE  HeldIn(h, r.module)
<1>1. h # <<>> /\ h[Len(h)].to = r.status
  BY DEF Path
<1>2. Len(h) \in DOMAIN h
  BY <1>1
<1> QED
  BY <1>1, <1>2 DEF HeldIn

\* A commit charges the request exactly if it brings it to hold its place.
LEMMA CommitCharges ==
  ASSUME BookingInv, WriteShaped, HistoryChain, UsageKnown, ChargedIffHeld,
         NEW p \in Handlers \union Workers, Commit(p)
  PROVE  UsageKnown' /\ ChargedIffHeld'
<1> DEFINE w == writing[p]
<1>1. /\ w \in WriteSet
      /\ DOMAIN recs' = DOMAIN recs \union {w.id} /\ recs'[w.id] = w.rec
      /\ \A i \in DOMAIN recs \ {w.id} : recs'[i] = recs[i]
      /\ history'[w.id] = (IF w.id \in DOMAIN recs THEN history[w.id] ELSE <<>>) \o w.hist
      /\ \A i \in DOMAIN recs \ {w.id} : history'[i] = history[i]
      /\ usage \subseteq usage' /\ usage' \subseteq usage \union w.use
      /\ \A u \in w.use : \E e \in usage' : e.module = u.module /\ e.id = u.id
  <2> HIDE DEF w
  <2>1. w = writing[p]
    BY DEF w
  <2> QED
    BY <2>1, CommitTables
<1>2. Shaped(w)
  BY CommitShape DEF WriteShaped
<1>3. \A i \in DOMAIN recs : history[i] \in Seq(Change) /\ Path(history[i], recs[i])
  BY ChainOfPaths DEF BookingInv, TypeOK, TablesOK
<1>4. \A i \in DOMAIN recs : (\E u \in usage : u.id = i) <=> HeldIn(history[i], recs[i].module)
  BY DEF ChargedIffHeld, HeldIn
<1> HIDE DEF w
<1>5. \A u \in w.use : u.id = w.id
  BY <1>2 DEF Shaped, Creates, Decides, Edits
<1>6. UsageKnown'
  BY <1>1, <1>5 DEF UsageKnown
<1>7. SUFFICES (\E u \in usage' : u.id = w.id) <=> HeldIn(history'[w.id], w.rec.module)
  <2> SUFFICES ASSUME (\E u \in usage' : u.id = w.id) <=> HeldIn(history'[w.id], w.rec.module)
               PROVE  ChargedIffHeld'
    BY <1>6
  <2>1. ASSUME NEW i \in DOMAIN recs'
        PROVE  (\E u \in usage' : u.id = i) <=> HeldIn(history'[i], recs'[i].module)
    <3>1. CASE i = w.id
      BY <1>1, <3>1
    <3>2. CASE i # w.id
      <4>1. i \in DOMAIN recs /\ recs'[i] = recs[i] /\ history'[i] = history[i]
        BY <1>1, <3>2
      <4>2. (\E u \in usage' : u.id = i) <=> (\E u \in usage : u.id = i)
        BY <1>1, <1>5, <3>2
      <4> QED
        BY <1>4, <4>1, <4>2
    <3> QED
      BY <3>1, <3>2
  <2> QED
    BY <2>1 DEF ChargedIffHeld, HeldIn
<1>8. CASE Creates(w)
  <2> DEFINE c == [from |-> "", to |-> "requested"]
  <2>1. w.id \notin DOMAIN recs /\ w.hist = <<c>> /\ w.use = {}
    BY <1>8 DEF Creates
  <2>2. ~ \E u \in usage' : u.id = w.id
    BY <1>1, <2>1 DEF UsageKnown
  <2>3. c \in Change /\ c.to \notin Holding(w.rec.module) /\ <<>> \in Seq(Change)
    BY DEF Change, Statuses, AppointmentStatuses, Holding, HoldingAppointment, HoldingPreorder
  <2> HIDE DEF c
  <2>4. history'[w.id] = <<>> \o <<c>>
    BY <1>1, <2>1
  <2>5. ~ HeldIn(<<>>, w.rec.module)
    BY DEF HeldIn
  <2>6. ~ HeldIn(<<>> \o <<c>>, w.rec.module)
    BY <2>3, <2>5, HeldExtended
  <2> QED
    BY <2>2, <2>4, <2>6
<1>9. CASE Decides(w)
  <2> DEFINE r == recs[w.id]
             c == [from |-> r.status, to |-> w.rec.status]
  <2>1. /\ w.id \in DOMAIN recs /\ w.hist = <<c>>
        /\ w.rec = [r EXCEPT !.status = w.rec.status, !.version = @ + 1]
        /\ Moves(r.module, r.status, w.rec.status)
        /\ w.use # {} <=> r.status = "requested" /\ w.rec.status = "confirmed"
    BY <1>9 DEF Decides
  <2>2. r \in Record /\ w.rec \in Record /\ history[w.id] \in Seq(Change)
    BY <1>1, <1>3, <2>1 DEF BookingInv, TypeOK, TablesOK, WriteSet
  <2>3. w.rec.module = r.module /\ c \in Change /\ c.to = w.rec.status
    BY <2>1, <2>2 DEF Record, Change
  <2>4. Path(history[w.id], r)
    BY <1>3, <2>1
  <2>5. (\E u \in usage : u.id = w.id) <=> HeldIn(history[w.id], r.module)
    BY <1>4, <2>1
  <2> HIDE DEF r, c
  <2>6. HeldIn(history'[w.id], r.module)
          <=> HeldIn(history[w.id], r.module) \/ w.rec.status \in Holding(r.module)
    <3>1. history'[w.id] = history[w.id] \o <<c>>
      BY <1>1, <2>1
    <3> QED
      BY <2>2, <2>3, <3>1, HeldExtended
  <2>7. CASE w.use # {}
    <3>1. \E u \in usage' : u.id = w.id
      BY <1>1, <1>5, <2>7
    <3>2. w.rec.status \in Holding(r.module)
      BY <2>1, <2>7 DEF Holding, HoldingAppointment, HoldingPreorder
    <3> QED
      BY <2>3, <2>6, <3>1, <3>2
  <2>8. CASE w.use = {}
    <3>1. usage' = usage
      BY <1>1, <2>8
    <3>2. w.rec.status \in Holding(r.module) => HeldIn(history[w.id], r.module)
      <4>1. w.rec.status \in Holding(r.module) => r.status \in Holding(r.module)
        BY <2>1, <2>8, HoldsOn
      <4> QED
        BY <2>2, <2>4, <4>1, PathHeld
    <3> QED
      BY <2>3, <2>5, <2>6, <3>1, <3>2
  <2> QED
    BY <2>7, <2>8
<1>10. CASE Edits(w)
  <2>1. /\ w.id \in DOMAIN recs /\ w.hist = <<>> /\ w.use = {}
        /\ w.rec.module = recs[w.id].module
    BY <1>10 DEF Edits
  <2>2. history'[w.id] = history[w.id] /\ usage' = usage
    <3>1. history[w.id] \in Seq(Change)
      BY <1>3, <2>1
    <3>2. history[w.id] \o <<>> = history[w.id]
      BY <3>1
    <3> QED
      BY <1>1, <2>1, <3>2
  <2> QED
    BY <1>1, <1>4, <2>1, <2>2
<1> QED
  BY <1>2, <1>8, <1>9, <1>10 DEF Shaped

-----------------------------------------------------------------------------
(* Expiries and tokens *)

LEMMA CommitDates ==
  ASSUME BookingInv, WriteShaped, PendingEndsBeforeStart, AccessFollowsRequest,
         NEW p \in Handlers \union Workers, Commit(p)
  PROVE  PendingEndsBeforeStart' /\ AccessFollowsRequest'
<1> DEFINE w == writing[p]
<1>1. /\ w \in WriteSet
      /\ DOMAIN recs' = DOMAIN recs \union {w.id} /\ recs'[w.id] = w.rec
      /\ \A i \in DOMAIN recs \ {w.id} : recs'[i] = recs[i]
      /\ IF w.access = {} \/ (w.id \in DOMAIN recs /\ w.id \notin DOMAIN access)
         THEN access' = access
         ELSE /\ DOMAIN access' = DOMAIN access \union {w.id}
              /\ access'[w.id] \in w.access
              /\ \A i \in DOMAIN access \ {w.id} : access'[i] = access[i]
  <2> HIDE DEF w
  <2>1. w = writing[p]
    BY DEF w
  <2> QED
    BY <2>1, CommitTables
<1>2. Shaped(w)
  BY CommitShape DEF WriteShaped
<1> HIDE DEF w
<1>3. DOMAIN access \subseteq DOMAIN recs
  BY DEF BookingInv, TypeOK, TablesOK
<1>4. w.id \in DOMAIN recs => recs[w.id] \in Record
  BY DEF BookingInv, TypeOK, TablesOK
<1>5. w.rec.status = "requested" => w.rec.expires <= w.rec.start
  <2>1. CASE Creates(w)
    BY <2>1 DEF Creates
  <2>2. CASE Decides(w)
    <3>1. Moves(recs[w.id].module, recs[w.id].status, w.rec.status)
      BY <2>2 DEF Decides
    <3> QED
      BY <3>1 DEF Moves, Allowed, AppointmentNext, PreorderNext
  <2>3. CASE Edits(w)
    <3>1. CASE w.rec = [recs[w.id] EXCEPT !.version = @ + 1]
      <4>1. w.id \in DOMAIN recs
        BY <2>3 DEF Edits
      <4> QED
        BY <1>4, <3>1, <4>1 DEF PendingEndsBeforeStart, Record
    <3>2. CASE w.rec # [recs[w.id] EXCEPT !.version = @ + 1]
      BY <2>3, <3>2 DEF Edits
    <3> QED
      BY <3>1, <3>2
  <2> QED
    BY <1>2, <2>1, <2>2, <2>3 DEF Shaped
<1>6. PendingEndsBeforeStart'
  BY <1>1, <1>5 DEF PendingEndsBeforeStart
<1>7. ASSUME NEW i \in DOMAIN access'
      PROVE  access'[i] = recs'[i].ends + AccessTTL
  <2>1. CASE i # w.id
    <3>1. i \in DOMAIN access /\ access'[i] = access[i] /\ recs'[i] = recs[i]
      BY <1>1, <1>3, <2>1
    <3> QED
      BY <3>1 DEF AccessFollowsRequest
  <2>2. CASE i = w.id /\ w.access = {}
    <3>1. i \in DOMAIN access /\ access'[i] = access[i]
      BY <1>1, <2>2
    <3>2. w.rec.ends = recs[w.id].ends
      BY <1>2, <1>3, <1>4, <2>2, <3>1 DEF Shaped, Creates, Decides, Edits, Record
    <3> QED
      BY <1>1, <2>2, <3>1, <3>2 DEF AccessFollowsRequest
  <2>3. CASE i = w.id /\ w.access # {}
    <3>1. w.access \subseteq {w.rec.ends + AccessTTL}
      BY <1>2 DEF Shaped, Creates, Decides, Edits
    <3>2. access'[i] \in w.access
      BY <1>1, <1>3, <2>3
    <3> QED
      BY <1>1, <2>3, <3>1, <3>2
  <2> QED
    BY <2>1, <2>2, <2>3
<1>8. AccessFollowsRequest'
  BY <1>7 DEF AccessFollowsRequest
<1> QED
  BY <1>6, <1>8

-----------------------------------------------------------------------------
(* The invariant of the tables *)

\* Steps that are no commits keep what the tables say.
LEMMA StillTables ==
  ASSUME TablesInv, recs' = recs, usage' = usage, history' = history,
         DOMAIN access' \subseteq DOMAIN access,
         \A i \in DOMAIN access' : access'[i] = access[i]
  PROVE  /\ UsageKnown' /\ HistoryChain' /\ ChargedIffHeld'
         /\ AccessFollowsRequest' /\ PendingEndsBeforeStart'
<1>1. UsageKnown' /\ ChargedIffHeld'
  BY DEF TablesInv, UsageKnown, ChargedIffHeld
<1>2. HistoryChain'
  <2>1. \A i \in DOMAIN recs' : Path(history'[i], recs'[i])
    BY ChainOfPaths DEF TablesInv
  <2> QED
    BY <2>1, ChainOfPaths
<1>3. AccessFollowsRequest' /\ PendingEndsBeforeStart'
  BY DEF TablesInv, AccessFollowsRequest, PendingEndsBeforeStart
<1> QED
  BY <1>1, <1>2, <1>3

LEMMA StepTables ==
  ASSUME TablesInv, [Next]_vars
  PROVE  TablesInv'
<1>1. BookingInv' /\ WriteShaped'
  BY StepBooking, StepShaped DEF TablesInv
<1>2. CASE \E p \in Handlers \union Workers : Commit(p)
  BY <1>1, <1>2, CommitHistory, CommitCharges, CommitDates DEF TablesInv
<1>3. CASE \E p \in Handlers \union Workers : Taken(p)
  <2>1. PICK p \in Handlers \union Workers : Taken(p)
    BY <1>3
  <2>2. recs' = recs /\ usage' = usage /\ history' = history /\ access' = access
    BY <2>1, TakenShaped, AcquireShape DEF TablesInv, BookingInv
  <2> QED
    BY <1>1, <2>2, StillTables DEF TablesInv
<1>4. CASE Still
  BY <1>1, <1>4, StillTables DEF TablesInv, Still, Quiet
<1> QED
  BY <1>2, <1>3, <1>4, StillShape

LEMMA TablesInvariant == Spec => []TablesInv
<1>1. Init => TablesInv
  <2>1. Init => BookingInv
    BY InitType DEF Init, NoRows, BookingInv, OneWriter, WriteFree, WriteOpen, NoDoubleBooking
  <2> QED
    BY <2>1 DEF Init, NoRows, TablesInv, WriteShaped, UsageKnown, HistoryChain, ChargedIffHeld,
                AccessFollowsRequest, PendingEndsBeforeStart
<1>2. TablesInv /\ [Next]_vars => TablesInv'
  BY StepTables
<1> QED
  BY <1>1, <1>2, PTL DEF Spec

\* The audit trail of every record is a path of its life cycle from its creation to its
\* stored status, whatever owners, customers and workers do to it at once.
THEOREM HistoryTold == Spec => []HistoryChain
<1>1. TablesInv => HistoryChain
  BY DEF TablesInv
<1> QED
  BY <1>1, TablesInvariant, PTL

\* A request has a usage event exactly if it ever held its place: Consume is called in
\* the transaction of the confirmation and in no other.
THEOREM ChargedRight == Spec => []ChargedIffHeld
<1>1. TablesInv => ChargedIffHeld
  BY DEF TablesInv
<1> QED
  BY <1>1, TablesInvariant, PTL

\* Every management token ends AccessTTL after the end of its request, moves included.
THEOREM TokensFollow == Spec => []AccessFollowsRequest
<1>1. TablesInv => AccessFollowsRequest
  BY DEF TablesInv
<1> QED
  BY <1>1, TablesInvariant, PTL

\* pendingExpiration and the edits that renew it never let a pending request outlive the
\* start of its slot.
THEOREM PendingEnds == Spec => []PendingEndsBeforeStart
<1>1. TablesInv => PendingEndsBeforeStart
  BY DEF TablesInv
<1> QED
  BY <1>1, TablesInvariant, PTL

-----------------------------------------------------------------------------
(* Messages *)

\* The message of a pending request becomes visible strictly after the expiry.
Covered(i) ==
  recs[i].status = "requested" =>
    \E j \in jobs \union failed : j.id = i /\ j.at > recs[i].expires

\* An attempt that has done its work has seen the record decided, or to expire no
\* earlier than its message became visible: that message covers it no more.
Spent(e) ==
  \A j \in e.from :
    /\ j.id = e.id
    /\ j.at <= clock
    /\ e.done /\ recs[e.id].status = "requested" => j.at <= recs[e.id].expires

\* And so it stays when the open transaction commits.
StaysSpent(w) ==
  \A v \in DOMAIN expiring :
    expiring[v].done /\ expiring[v].id = w.id /\ w.rec.status = "requested" =>
      \A j \in expiring[v].from : j.at <= w.rec.expires

\* The transaction of an attempt expires the record of its message.
Expires(p) ==
  p \in DOMAIN expiring =>
    writing[p].id = expiring[p].id /\ writing[p].rec.status = "expired"

\* The inductive invariant of the messages.
MessagesOK ==
  /\ \A i \in DOMAIN recs : Covered(i)
  /\ \A v \in DOMAIN expiring : Spent(expiring[v])
  /\ \A p \in DOMAIN writing : StaysSpent(writing[p]) /\ Expires(p)
MessagesInv == TablesInv /\ MessagesOK

\* Attempts and transactions may end, messages may fail and time may pass.
LEMMA StillMessages ==
  ASSUME MessagesInv, recs' = recs, clock' \in Nat, clock <= clock',
         jobs \union failed \subseteq jobs' \union failed',
         DOMAIN expiring' \subseteq DOMAIN expiring,
         \A v \in DOMAIN expiring' : expiring'[v] = expiring[v],
         DOMAIN writing' \subseteq DOMAIN writing,
         \A p \in DOMAIN writing' : writing'[p] = writing[p]
  PROVE  MessagesOK'
<1>1. clock \in Nat /\ \A v \in DOMAIN expiring : expiring[v].from \subseteq Job
  BY BoundsAssumption DEF MessagesInv, TablesInv, BookingInv, TypeOK, CatalogOK, ActorsOK
<1>2. \A i \in DOMAIN recs' : Covered(i)'
  BY DEF MessagesInv, MessagesOK, Covered
<1>3. ASSUME NEW v \in DOMAIN expiring'
      PROVE  Spent(expiring[v])'
  <2>1. Spent(expiring[v]) /\ expiring'[v] = expiring[v]
    BY <1>3 DEF MessagesInv, MessagesOK
  <2>2. \A j \in expiring[v].from : j.at <= clock => j.at <= clock'
    BY <1>1, <1>3 DEF Job
  <2> QED
    BY <2>1, <2>2 DEF Spent
<1>4. ASSUME NEW p \in DOMAIN writing'
      PROVE  StaysSpent(writing[p])' /\ Expires(p)'
  <2>1. StaysSpent(writing[p]) /\ Expires(p) /\ writing'[p] = writing[p]
    BY <1>4 DEF MessagesInv, MessagesOK
  <2> QED
    BY <1>4, <2>1 DEF StaysSpent, Expires
<1> QED
  BY <1>2, <1>3, <1>4 DEF MessagesOK

\* A worker takes up a message or a record that the sweep lists.
LEMMA AttemptMessages ==
  ASSUME MessagesInv, NEW w \in Workers, w \notin DOMAIN expiring, NEW id, NEW from,
         \A j \in from : j.id = id /\ j.at <= clock,
         expiring' = Put(expiring, w, [id |-> id, from |-> from, done |-> FALSE]),
         UNCHANGED <<clock, recs, jobs, failed, writing>>
  PROVE  MessagesOK'
<1>1. /\ DOMAIN expiring' = DOMAIN expiring \union {w}
      /\ expiring'[w] = [id |-> id, from |-> from, done |-> FALSE]
      /\ \A v \in DOMAIN expiring : expiring'[v] = expiring[v]
  BY DEF Put
<1>2. \A i \in DOMAIN recs' : Covered(i)'
  BY DEF MessagesInv, MessagesOK, Covered
<1>3. ASSUME NEW v \in DOMAIN expiring'
      PROVE  Spent(expiring[v])'
  <2>1. CASE v = w
    BY <1>1, <2>1 DEF Spent
  <2>2. CASE v # w
    BY <1>1, <1>3, <2>2 DEF MessagesInv, MessagesOK, Spent
  <2> QED
    BY <2>1, <2>2
<1>4. \A v \in DOMAIN expiring' : expiring'[v].done => v \in DOMAIN expiring
  BY <1>1
<1>5. ASSUME NEW p \in DOMAIN writing'
      PROVE  StaysSpent(writing[p])' /\ Expires(p)'
  <2>1. StaysSpent(writing[p]) /\ Expires(p)
    BY <1>5 DEF MessagesInv, MessagesOK
  <2>2. p # w
    BY ActorsAssumption DEF MessagesInv, TablesInv, BookingInv, TypeOK, ActorsOK
  <2> QED
    BY <1>1, <1>4, <1>5, <2>1, <2>2 DEF StaysSpent, Expires
<1> QED
  BY <1>2, <1>3, <1>5 DEF MessagesOK

\* An attempt that finds nothing to expire has seen its record decided or not due.
LEMMA NothingMessages ==
  ASSUME MessagesInv, NEW w \in Workers, ExpireNothing(w)
  PROVE  MessagesOK'
<1>1. /\ w \in DOMAIN expiring /\ DOMAIN writing = {}
      /\ expiring' = [expiring EXCEPT ![w] = [expiring[w] EXCEPT !.done = TRUE]]
      /\ UNCHANGED <<clock, recs, jobs, failed, writing>>
      /\ ~ Lapsed(recs[expiring[w].id])
  BY DEF ExpireNothing, Locked, tables, queue
<1>2. /\ expiring[w] \in [id: DOMAIN recs, from: SUBSET Job, done: BOOLEAN]
      /\ clock \in Nat
  BY <1>1, BoundsAssumption DEF MessagesInv, TablesInv, BookingInv, TypeOK, CatalogOK, ActorsOK
<1>3. recs[expiring[w].id] \in Record
  BY <1>2 DEF MessagesInv, TablesInv, BookingInv, TypeOK, TablesOK
<1>4. \A i \in DOMAIN recs' : Covered(i)'
  BY <1>1 DEF MessagesInv, MessagesOK, Covered
<1>5. ASSUME NEW v \in DOMAIN expiring'
      PROVE  Spent(expiring[v])'
  <2>1. Spent(expiring[v])
    BY <1>1, <1>5 DEF MessagesInv, MessagesOK
  <2>2. CASE v = w
    <3>1. expiring'[v].id = expiring[w].id /\ expiring'[v].from = expiring[w].from
      BY <1>1, <1>2, <2>2
    <3>2. ASSUME NEW j \in expiring[w].from, recs[expiring[w].id].status = "requested"
          PROVE  j.at <= recs[expiring[w].id].expires
      <4>1. j.at <= clock /\ j.at \in Nat
        BY <1>2, <2>1, <2>2, <3>2 DEF Spent, Job
      <4>2. clock < recs[expiring[w].id].expires /\ recs[expiring[w].id].expires \in Nat
        BY <1>1, <1>2, <1>3, <3>2 DEF Lapsed, Record
      <4> QED
        BY <1>2, <4>1, <4>2
    <3> QED
      BY <1>1, <2>1, <2>2, <3>1, <3>2 DEF Spent
  <2>3. CASE v # w
    BY <1>1, <1>5, <2>1, <2>3 DEF Spent
  <2> QED
    BY <2>2, <2>3
<1> QED
  BY <1>1, <1>4, <1>5 DEF MessagesOK

\* The message that is archived no longer covers its record.
LEMMA AckMessages ==
  ASSUME MessagesInv, NEW w \in Workers, Ack(w)
  PROVE  MessagesOK'
<1> DEFINE e == expiring[w]
<1>1. /\ w \in DOMAIN expiring /\ e.done /\ jobs' = jobs \ e.from /\ failed' = failed
      /\ UNCHANGED <<clock, recs, writing>>
      /\ DOMAIN expiring' = DOMAIN expiring \ {w}
      /\ \A v \in DOMAIN expiring' : expiring'[v] = expiring[v]
  BY DEF Ack, Drop, tables
<1>2. e \in [id: DOMAIN recs, from: SUBSET Job, done: BOOLEAN] /\ Spent(e)
  BY <1>1 DEF MessagesInv, MessagesOK, TablesInv, BookingInv, TypeOK, ActorsOK
<1> HIDE DEF e
<1>3. ASSUME NEW i \in DOMAIN recs, recs[i].status = "requested"
      PROVE  \E j \in jobs' \union failed' : j.id = i /\ j.at > recs[i].expires
  <2>1. PICK j \in jobs \union failed : j.id = i /\ j.at > recs[i].expires
    BY <1>3 DEF MessagesInv, MessagesOK, Covered
  <2>2. j \notin e.from
    <3>1. SUFFICES ASSUME j \in e.from
                   PROVE  FALSE
      OBVIOUS
    <3>2. j.at <= recs[i].expires
      BY <1>1, <1>2, <1>3, <2>1, <3>1 DEF Spent
    <3>3. j.at \in Nat /\ recs[i].expires \in Nat
      BY <1>2, <1>3, <3>1 DEF Job, MessagesInv, TablesInv, BookingInv, TypeOK, TablesOK, Record
    <3> QED
      BY <2>1, <3>2, <3>3
  <2> QED
    BY <1>1, <2>1, <2>2
<1>4. \A i \in DOMAIN recs' : Covered(i)'
  BY <1>1, <1>3 DEF Covered
<1>5. \A v \in DOMAIN expiring' : Spent(expiring[v])'
  BY <1>1 DEF MessagesInv, MessagesOK, Spent
<1>6. \A p \in DOMAIN writing' : StaysSpent(writing[p])' /\ Expires(p)'
  BY <1>1 DEF MessagesInv, MessagesOK, StaysSpent, Expires
<1> QED
  BY <1>4, <1>5, <1>6 DEF MessagesOK

\* The rows prepared under the lock leave what has been done done: a record that is
\* still pending after them expires no earlier than before, or not in the past.
LEMMA TakenMessages ==
  ASSUME MessagesInv, NEW p \in Handlers \union Workers, Taken(p)
  PROVE  MessagesOK'
<1> DEFINE w == writing'[p]
<1>1. TypeOK
  BY DEF MessagesInv, TablesInv, BookingInv
<1>2. /\ DOMAIN writing' = {p} /\ Shaped(w)
      /\ UNCHANGED <<clock, recs, jobs, failed, expiring>>
  BY <1>1, TakenShaped, AcquireShape
<1>3. \A i \in DOMAIN recs' : Covered(i)'
  BY <1>2 DEF MessagesInv, MessagesOK, Covered
<1>4. \A v \in DOMAIN expiring' : Spent(expiring[v])'
  BY <1>2 DEF MessagesInv, MessagesOK, Spent
<1>5. \A v \in DOMAIN expiring : expiring[v].id \in DOMAIN recs /\ expiring[v].from \subseteq Job
  BY <1>1 DEF TypeOK, ActorsOK
<1>6. ASSUME NEW v \in DOMAIN expiring, expiring[v].done, expiring[v].id = w.id,
             w.rec.status = "requested", NEW j \in expiring[v].from
      PROVE  j.at <= w.rec.expires
  <2>1. w.id \in DOMAIN recs /\ recs[w.id] \in Record
    BY <1>1, <1>5, <1>6 DEF TypeOK, TablesOK
  <2>2. j.at <= clock /\ (recs[w.id].status = "requested" => j.at <= recs[w.id].expires)
    BY <1>6 DEF MessagesInv, MessagesOK, Spent
  <2>3. j.at \in Nat /\ clock \in Nat
    BY <1>1, <1>5, <1>6, BoundsAssumption DEF Job, TypeOK, CatalogOK
  <2>4. AcquireEdit(p) /\ p \in Handlers
    <3>1. ~ AcquireCreate(p)
      BY <1>1, <2>1, CreateShaped DEF AcquireCreate, Creates, TypeOK, ActorsOK
    <3>2. ~ Decides(w)
      BY <1>6 DEF Decides, Moves, Allowed, AppointmentNext, PreorderNext
    <3>3. ~ AcquireTransition(p)
      BY <1>1, <3>2, TransitionShaped DEF AcquireTransition, TypeOK, ActorsOK
    <3>4. ~ AcquireExpire(p)
      BY <1>1, <3>2, ExpireShaped DEF AcquireExpire, TypeOK, ActorsOK
    <3> QED
      BY <1>1, <3>1, <3>3, <3>4 DEF Taken, AcquireEdit, TypeOK, ActorsOK
  <2>5. Edits(w) /\ RenewedLater(w)
    BY <1>1, <2>4, EditShaped
  <2> HIDE DEF w
  <2>6. w.rec.status = recs[w.id].status
    BY <2>5 DEF Edits
  <2>7. w.rec \in Record
    <3>1. w \in WriteSet
      <4>1. TypeOK'
        BY <1>1, <2>4, AcquireEditType
      <4> QED
        BY <1>2, <4>1 DEF TypeOK, ActorsOK, w
    <3> QED
      BY <3>1 DEF WriteSet
  <2> QED
    BY <1>6, <2>2, <2>3, <2>5, <2>6, <2>7 DEF RenewedLater, Record
<1>7. StaysSpent(writing[p])'
  BY <1>2, <1>6 DEF StaysSpent
<1>8. Expires(p)'
  <2>1. CASE p \in DOMAIN expiring
    <3>1. AcquireExpire(p) /\ p \in Workers
      BY <1>1, <2>1, ActorsAssumption
         DEF Taken, AcquireCreate, AcquireTransition, AcquireEdit, TypeOK, ActorsOK
    <3>2. recs[expiring[p].id] \in Record
      BY <1>1, <2>1 DEF TypeOK, ActorsOK, TablesOK
    <3> DEFINE new == [recs[expiring[p].id] EXCEPT !.status = "expired", !.version = @ + 1]
               writes ==
                 [id |-> expiring[p].id, rec |-> new,
                  hist |-> <<[from |-> "requested", to |-> "expired"]>>,
                  use |-> {}, enq |-> {}, access |-> {}, row |-> {}]
    <3>3. new.status = "expired"
      BY <3>2 DEF Record
    <3>4. Acquire(p, writes)
      BY <3>1 DEF AcquireExpire
    <3>5. writing'[p] = writes
      <4> HIDE DEF writes
      <4> QED
        BY <3>4, AcquireShape
    <3> HIDE DEF new
    <3> QED
      BY <1>2, <3>3, <3>5 DEF Expires
  <2>2. CASE p \notin DOMAIN expiring
    BY <1>2, <2>2 DEF Expires
  <2> QED
    BY <2>1, <2>2
<1> QED
  BY <1>2, <1>3, <1>4, <1>7, <1>8 DEF MessagesOK

\* The new rows bring their message with them, and what was done stays done.
LEMMA CommitMessages ==
  ASSUME MessagesInv, NEW p \in Handlers \union Workers, Commit(p)
  PROVE  MessagesOK'
<1> DEFINE w == writing[p]
<1>1. BookingInv /\ TypeOK /\ p \in DOMAIN writing /\ DOMAIN writing' = {}
  BY CommitShape DEF MessagesInv, TablesInv, BookingInv
<1>2. /\ w \in WriteSet
      /\ DOMAIN recs' = DOMAIN recs \union {w.id} /\ recs'[w.id] = w.rec
      /\ \A i \in DOMAIN recs \ {w.id} : recs'[i] = recs[i]
      /\ jobs' = jobs \union w.enq /\ failed' = failed /\ clock' = clock
  <2> HIDE DEF w
  <2>1. w = writing[p]
    BY DEF w
  <2> QED
    BY <1>1, <2>1, CommitTables
<1>3. Shaped(w) /\ StaysSpent(w) /\ Expires(p)
  BY <1>1 DEF MessagesInv, MessagesOK, TablesInv, WriteShaped
<1>4. /\ DOMAIN expiring' = DOMAIN expiring
      /\ \A v \in DOMAIN expiring \ {p} : expiring'[v] = expiring[v]
      /\ p \in DOMAIN expiring =>
           expiring'[p] = [expiring[p] EXCEPT !.done = TRUE] /\ p \in Workers
  <2>1. p \in DOMAIN expiring => p \in Workers /\ p \notin Handlers
    BY <1>1, ActorsAssumption DEF TypeOK, ActorsOK
  <2>2. CASE p \in Handlers
    BY <2>1, <2>2 DEF Commit
  <2>3. CASE p \notin Handlers
    <3>1. expiring' = [expiring EXCEPT ![p] = [expiring[p] EXCEPT !.done = TRUE]]
      BY <2>3 DEF Commit
    <3> QED
      BY <2>1, <3>1
  <2> QED
    BY <2>2, <2>3
<1>5. /\ \A i \in DOMAIN recs : recs[i] \in Record
      /\ \A v \in DOMAIN expiring :
           expiring[v] \in [id: DOMAIN recs, from: SUBSET Job, done: BOOLEAN]
  BY <1>1 DEF TypeOK, TablesOK, ActorsOK
<1>6. Expires(p) => (p \in DOMAIN expiring => w.id = expiring[p].id /\ w.rec.status = "expired")
  BY DEF Expires
<1> HIDE DEF w
<1>7. w.rec.status = "requested" => \E j \in jobs' \union failed' : j.id = w.id /\ j.at > w.rec.expires
  <2>1. CASE Creates(w)
    BY <1>2, <2>1 DEF Creates
  <2>2. CASE Decides(w)
    BY <2>2 DEF Decides, Moves, Allowed, AppointmentNext, PreorderNext
  <2>3. CASE Edits(w) /\ w.rec = [recs[w.id] EXCEPT !.version = @ + 1]
    <3>1. w.id \in DOMAIN recs
      BY <2>3 DEF Edits
    <3>2. w.rec.status = recs[w.id].status /\ w.rec.expires = recs[w.id].expires
      BY <1>5, <2>3, <3>1 DEF Record
    <3>3. Covered(w.id)
      BY <3>1 DEF MessagesInv, MessagesOK
    <3> QED
      BY <1>2, <3>2, <3>3 DEF Covered
  <2>4. CASE Edits(w) /\ w.rec # [recs[w.id] EXCEPT !.version = @ + 1]
    BY <1>2, <2>4 DEF Edits
  <2> QED
    BY <1>3, <2>1, <2>2, <2>3, <2>4 DEF Shaped
<1>8. ASSUME NEW i \in DOMAIN recs'
      PROVE  Covered(i)'
  <2>1. CASE i = w.id
    BY <1>2, <1>7, <2>1 DEF Covered
  <2>2. CASE i # w.id
    <3>1. i \in DOMAIN recs /\ recs'[i] = recs[i] /\ Covered(i)
      BY <1>2, <1>8, <2>2 DEF MessagesInv, MessagesOK
    <3> QED
      BY <1>2, <3>1 DEF Covered
  <2> QED
    BY <2>1, <2>2
<1>9. ASSUME NEW v \in DOMAIN expiring
      PROVE  Spent(expiring[v])'
  <2>1. Spent(expiring[v])
    BY DEF MessagesInv, MessagesOK
  <2>2. /\ expiring'[v].id = expiring[v].id /\ expiring'[v].from = expiring[v].from
        /\ v # p => expiring'[v].done = expiring[v].done
    BY <1>4, <1>5
  <2>3. ASSUME expiring'[v].done, recs'[expiring[v].id].status = "requested",
               NEW j \in expiring[v].from
        PROVE  j.at <= recs'[expiring[v].id].expires
    <3>1. CASE expiring[v].id # w.id
      <4>1. v # p /\ recs'[expiring[v].id] = recs[expiring[v].id]
        BY <1>2, <1>3, <1>5, <1>6, <3>1
      <4> QED
        BY <2>1, <2>2, <2>3, <4>1 DEF Spent
    <3>2. CASE expiring[v].id = w.id
      <4>1. v # p
        BY <1>2, <1>3, <1>6, <2>3, <3>2
      <4> QED
        BY <1>2, <1>3, <2>2, <2>3, <3>2, <4>1 DEF StaysSpent
    <3> QED
      BY <3>1, <3>2
  <2> QED
    BY <1>2, <2>1, <2>2, <2>3 DEF Spent
<1> QED
  BY <1>1, <1>4, <1>8, <1>9 DEF MessagesOK

LEMMA StepMessages ==
  ASSUME MessagesInv, [Next]_vars
  PROVE  MessagesInv'
<1>1. SUFFICES MessagesOK'
  BY StepTables DEF MessagesInv
<1>2. clock \in Nat
  BY BoundsAssumption DEF MessagesInv, TablesInv, BookingInv, TypeOK, CatalogOK
<1>3. ASSUME NEW p \in Handlers, Handle(p)
      PROVE  MessagesOK'
  <2>1. CASE ArriveCreate(p) \/ ArriveMutate(p)
    <3>1. UNCHANGED <<clock, recs, jobs, failed, expiring, writing>>
      BY <2>1 DEF ArriveCreate, ArriveMutate, Begin, tables, queue
    <3> QED
      BY <1>2, <3>1, StillMessages
  <2>2. CASE Taken(p)
    BY <2>2, TakenMessages
  <2>3. CASE Commit(p)
    BY <2>3, CommitMessages
  <2>4. CASE Rollback(p)
    <3>1. /\ UNCHANGED <<clock, recs, jobs, failed, expiring>>
          /\ DOMAIN writing' \subseteq DOMAIN writing
          /\ \A q \in DOMAIN writing' : writing'[q] = writing[q]
      BY <2>4 DEF Rollback, Drop, tables, queue
    <3> QED
      BY <1>2, <3>1, StillMessages
  <2> QED
    BY <1>3, <2>1, <2>2, <2>3, <2>4 DEF Handle, Taken
<1>4. ASSUME NEW w \in Workers, Work(w)
      PROVE  MessagesOK'
  <2>1. CASE ReadJob(w)
    <3>1. PICK j \in jobs :
             /\ w \notin DOMAIN expiring /\ j.at <= clock
             /\ expiring' = Put(expiring, w, [id |-> j.id, from |-> {j}, done |-> FALSE])
             /\ UNCHANGED <<clock, recs, jobs, failed, writing>>
      BY <2>1 DEF ReadJob, tables, queue
    <3>2. \A k \in {j} : k.id = j.id /\ k.at <= clock
      BY <3>1
    <3> QED
      BY <3>1, <3>2, AttemptMessages
  <2>2. CASE SweepDue(w)
    <3>1. PICK id \in DOMAIN recs :
             /\ w \notin DOMAIN expiring
             /\ expiring' = Put(expiring, w, [id |-> id, from |-> {}, done |-> FALSE])
             /\ UNCHANGED <<clock, recs, jobs, failed, writing>>
      BY <2>2 DEF SweepDue, tables, queue
    <3> QED
      BY <3>1, AttemptMessages
  <2>3. CASE AcquireExpire(w)
    BY <2>3, TakenMessages DEF Taken
  <2>4. CASE ExpireNothing(w)
    BY <2>4, NothingMessages
  <2>5. CASE Commit(w)
    BY <2>5, CommitMessages
  <2>6. CASE Ack(w)
    BY <2>6, AckMessages
  <2>7. CASE AbandonExpire(w) \/ FailJob(w)
    <3>1. /\ UNCHANGED <<clock, recs>>
          /\ jobs \union failed \subseteq jobs' \union failed'
          /\ DOMAIN expiring' \subseteq DOMAIN expiring
          /\ \A v \in DOMAIN expiring' : expiring'[v] = expiring[v]
          /\ DOMAIN writing' \subseteq DOMAIN writing
          /\ \A q \in DOMAIN writing' : writing'[q] = writing[q]
      BY <2>7 DEF AbandonExpire, FailJob, Drop, tables, queue
    <3> QED
      BY <1>2, <3>1, StillMessages
  <2> QED
    BY <1>4, <2>1, <2>2, <2>3, <2>4, <2>5, <2>6, <2>7 DEF Work
<1>5. CASE Administer \/ CleanReplay \/ CleanAccess \/ UNCHANGED vars
  <2>1. UNCHANGED <<clock, recs, jobs, failed, expiring, writing>>
    BY <1>5 DEF Administer, ChangeSubscription, Configure, SaveService, SaveResource,
                CleanReplay, CleanAccess, vars, tables, queue
  <2> QED
    BY <1>2, <2>1, StillMessages
<1>6. CASE Tick
  <2>1. clock' = clock + 1 /\ UNCHANGED <<recs, jobs, failed, expiring, writing>>
    BY <1>6 DEF Tick, tables, queue
  <2> QED
    BY <1>2, <2>1, StillMessages
<1> QED
  BY <1>3, <1>4, <1>5, <1>6 DEF Next

LEMMA MessagesInvariant == Spec => []MessagesInv
<1>1. Init => MessagesOK
  BY DEF Init, NoRows, MessagesOK
<1>2. MessagesInv /\ [Next]_vars => MessagesInv'
  BY StepMessages
<1>3. Init /\ TablesInv /\ MessagesOK => MessagesInv
  BY DEF MessagesInv
<1> QED
  BY <1>1, <1>2, <1>3, TablesInvariant, PTL DEF Spec

\* Every pending request has a message that becomes visible once it has expired, queued
\* or given up: no edit, archived message or second delivery leaves it without one.
THEOREM PendingIsWatched == Spec => []PendingHasItsJob
<1>1. ASSUME MessagesInv
      PROVE  PendingHasItsJob
  <2>1. ASSUME NEW i \in DOMAIN recs, recs[i].status = "requested"
        PROVE  \E j \in jobs \union failed : j.id = i /\ j.at >= recs[i].expires
    <3>1. PICK j \in jobs \union failed : j.id = i /\ j.at > recs[i].expires
      BY <1>1, <2>1 DEF MessagesInv, MessagesOK, Covered
    <3>2. j.at \in Nat /\ recs[i].expires \in Nat
      BY <1>1, <2>1 DEF MessagesInv, TablesInv, BookingInv, TypeOK, TablesOK, Job, Record
    <3> QED
      BY <3>1, <3>2
  <2> QED
    BY <2>1 DEF PendingHasItsJob
<1>2. MessagesInv => PendingHasItsJob
  BY <1>1
<1> QED
  BY <1>2, MessagesInvariant, PTL

-----------------------------------------------------------------------------
(* The refinement of Bookings *)

\* The bookings that the records stand for: the refinement mapping of B.
Book == [i \in DOMAIN recs |-> Booked(recs[i])]

\* What a booking shows of its record.
LEMMA BookedShape ==
  ASSUME NEW r \in Record
  PROVE  /\ Booked(r) \in B!Booking
         /\ Booked(r).module = r.module /\ Booked(r).status = r.status
         /\ Booked(r).where = r.where /\ Booked(r).from = r.start
         /\ Booked(r).to = r.ends + r.buffer
         /\ [r EXCEPT !.status = "confirmed"] \in Record
         /\ [Booked(r) EXCEPT !.status = "confirmed"] = Booked([r EXCEPT !.status = "confirmed"])
<1>1. r.ends + r.buffer \in Nat
  BY DEF Record
<1>2. "confirmed" \in Statuses
  BY DEF Statuses, AppointmentStatuses
<1>3. Booked(r) \in B!Booking
  BY <1>1 DEF Booked, B!Booking, Record, B!Modules, B!Statuses, B!AppointmentStatuses,
              B!PreorderStatuses, Modules, Statuses, AppointmentStatuses, PreorderStatuses
<1> QED
  BY <1>2, <1>3 DEF Booked, Record

\* Records that lie apart do not conflict.
LEMMA ApartIsFree ==
  ASSUME NEW r \in Record, NEW s \in Record, Apart(r, s)
  PROVE  ~ B!Conflict(Booked(r), Booked(s))
<1>1. /\ r.start \in Nat /\ r.ends \in Nat /\ r.buffer \in Nat
      /\ s.start \in Nat /\ s.ends \in Nat /\ s.buffer \in Nat
  BY DEF Record
<1>2. B!HoldingAppointment = HoldingAppointment
  BY DEF HoldingAppointment, B!HoldingAppointment
<1>3. SUFFICES ASSUME /\ r.module = "appointments" /\ s.module = "appointments"
                      /\ r.where = s.where
                      /\ r.status \in HoldingAppointment /\ s.status \in HoldingAppointment
                      /\ r.start < s.ends + s.buffer /\ s.start < r.ends + r.buffer
               PROVE  FALSE
  BY <1>2, BookedShape DEF B!Conflict
<1> QED
  BY <1>1, <1>3 DEF Apart, Occupies

\* A commit touches one booking.
LEMMA CommitOnly ==
  ASSUME BookingInv, NEW p \in Handlers \union Workers, Commit(p), NEW w, w = writing[p]
  PROVE  /\ w.id \in Ids /\ w.rec \in Record /\ B!Only(w.id)
         /\ Book'[w.id] = Booked(w.rec)
<1>1. /\ w \in WriteSet
      /\ DOMAIN recs' = DOMAIN recs \union {w.id} /\ recs'[w.id] = w.rec
      /\ \A i \in DOMAIN recs \ {w.id} : recs'[i] = recs[i]
  BY CommitTables
<1>2. w.id \in Ids /\ w.rec \in Record
  BY <1>1 DEF WriteSet
<1>3. Book' = [i \in DOMAIN recs' |-> Booked(recs'[i])]
  BY DEF Book, Booked
<1>4. Booked(w.rec) \in B!Booking
  BY <1>2, BookedShape
<1>5. B!Only(w.id)
  BY <1>1, <1>4 DEF B!Only, Booked
<1> QED
  BY <1>1, <1>2, <1>3, <1>5

\* A booking held as w.rec would conflicts with none if no record is in its way.
LEMMA HeldIsFree ==
  ASSUME BookingInv, NEW w, w.rec \in Record, HeldApart(w)
  PROVE  B!Free(w.id, Booked(w.rec))
<1> DEFINE held == [w.rec EXCEPT !.status = "confirmed"]
<1>1. held \in Record /\ [Booked(w.rec) EXCEPT !.status = "confirmed"] = Booked(held)
  BY BookedShape
<1>2. \A j \in DOMAIN recs : recs[j] \in Record
  BY DEF BookingInv, TypeOK, TablesOK
<1>3. ASSUME NEW j \in DOMAIN recs \ {w.id}
      PROVE  ~ B!Conflict(Booked(held), Booked(recs[j]))
  <2>1. Apart(held, recs[j])
    BY <1>3 DEF HeldApart
  <2> HIDE DEF held
  <2> QED
    BY <1>1, <1>2, <1>3, <2>1, ApartIsFree
<1> HIDE DEF held
<1> QED
  BY <1>1, <1>3 DEF B!Free

\* Every commit is a step of Bookings, or none.
LEMMA CommitBooks ==
  ASSUME TablesInv, NEW p \in Handlers \union Workers, Commit(p)
  PROVE  [B!BookNext]_Book
<1> DEFINE w == writing[p]
<1>1. BookingInv /\ TypeOK /\ p \in DOMAIN writing /\ FreeWrites(w) /\ OpenWrites(w) /\ Shaped(w)
  BY CommitShape DEF TablesInv, BookingInv, WriteFree, WriteOpen, WriteShaped
<1>2. w.id \in Ids /\ w.rec \in Record /\ B!Only(w.id) /\ Book'[w.id] = Booked(w.rec)
  <2> HIDE DEF w
  <2>1. w = writing[p]
    BY DEF w
  <2> QED
    BY <1>1, <2>1, CommitOnly
<1>3. /\ DOMAIN recs' = DOMAIN recs \union {w.id} /\ recs'[w.id] = w.rec
      /\ \A i \in DOMAIN recs \ {w.id} : recs'[i] = recs[i]
  BY <1>1, CommitShape
<1> HIDE DEF w
<1>4. CASE Creates(w)
  <2>1. B!Ask(w.id)
    BY <1>2, <1>3, <1>4, BookedShape DEF B!Ask, Creates, Book
  <2> QED
    BY <1>2, <2>1 DEF B!BookNext
<1>5. CASE Decides(w)
  <2> DEFINE r == recs[w.id]
  <2>1. /\ w.id \in DOMAIN recs /\ Moves(r.module, r.status, w.rec.status)
        /\ w.rec = [r EXCEPT !.status = w.rec.status, !.version = @ + 1]
    BY <1>5 DEF Decides
  <2>2. r \in Record
    BY <1>1, <2>1 DEF TypeOK, TablesOK
  <2>3. Booked(w.rec) = [Booked(r) EXCEPT !.status = w.rec.status]
    <3> HIDE DEF r
    <3>1. /\ w.rec.module = r.module /\ w.rec.where = r.where /\ w.rec.start = r.start
          /\ w.rec.ends = r.ends /\ w.rec.buffer = r.buffer
      BY <2>1, <2>2 DEF Record
    <3> QED
      BY <3>1 DEF Booked
  <2>4. Book[w.id] = Booked(r) /\ Booked(r).module = r.module /\ Booked(r).status = r.status
        /\ Booked(w.rec).status = w.rec.status
    BY <1>2, <2>1, <2>2, BookedShape DEF Book
  <2>5. CASE w.rec.status \in Allowed(r.module, r.status)
    <3>1. w.rec.status = "confirmed" => B!Free(w.id, Booked(w.rec))
      <4>1. SUFFICES ASSUME w.rec.status = "confirmed"
                     PROVE  HeldApart(w)
        BY <1>1, <1>2, HeldIsFree
      <4>2. [w.rec EXCEPT !.status = "confirmed"] = w.rec
        BY <1>2, <4>1 DEF Record
      <4> QED
        BY <1>1, <4>2 DEF HeldApart, FreeWrites
    <3>2. w.rec.status \in B!Allowed(r.module, r.status)
      BY <2>5 DEF Allowed, B!Allowed, AppointmentNext, B!AppointmentNext, PreorderNext,
                  B!PreorderNext
    <3>3. B!Decide(w.id)
      BY <1>2, <2>3, <2>4, <3>1, <3>2 DEF B!Decide, Book
    <3> QED
      BY <2>1, <3>3 DEF B!BookNext
  <2>6. CASE r.status = "requested" /\ w.rec.status = "expired"
    <3>1. B!Lapse(w.id)
      BY <1>2, <2>3, <2>4, <2>6 DEF B!Lapse, Book
    <3> QED
      BY <2>1, <3>1 DEF B!BookNext
  <2> QED
    BY <2>1, <2>5, <2>6 DEF Moves
<1>6. CASE Edits(w)
  <2>1. w.id \in DOMAIN recs /\ recs[w.id] \in Record
    BY <1>1, <1>6 DEF Edits, TypeOK, TablesOK
  <2>2. CASE w.rec = [recs[w.id] EXCEPT !.version = @ + 1]
    <3>1. Booked(w.rec) = Booked(recs[w.id])
      BY <2>1, <2>2 DEF Booked, Record
    <3>2. DOMAIN recs' = DOMAIN recs /\ \A i \in DOMAIN recs : Booked(recs'[i]) = Booked(recs[i])
      BY <1>3, <2>1, <3>1
    <3>3. Book' = Book
      BY <3>2 DEF Book, Booked
    <3> QED
      BY <3>3
  <2>3. CASE w.rec # [recs[w.id] EXCEPT !.version = @ + 1]
    <3>1. HeldApart(w) /\ w.rec.module = recs[w.id].module /\ w.rec.status = recs[w.id].status
      BY <1>6, <2>3 DEF Edits
    <3>2. B!Free(w.id, Booked(w.rec))
      BY <1>1, <1>2, <3>1, HeldIsFree
    <3>3. ~ B!Terminal(recs[w.id].module, recs[w.id].status)
      BY <1>1, <2>1
         DEF OpenWrites, Terminal, B!Terminal, Allowed, B!Allowed, AppointmentNext,
             B!AppointmentNext, PreorderNext, B!PreorderNext
    <3>4. B!Move(w.id)
      BY <1>2, <2>1, <3>1, <3>2, <3>3, BookedShape DEF B!Move, Book
    <3> QED
      BY <2>1, <3>4 DEF B!BookNext
  <2> QED
    BY <2>2, <2>3
<1> QED
  BY <1>1, <1>4, <1>5, <1>6 DEF Shaped

\* The program implements Bookings: each committed transaction is one step of it, all the
\* rest is none, although the checks are made in another step than the commit.
THEOREM Implements == Spec => ImplementsBookings
<1>1. Init => B!BookInit
  BY DEF Init, NoRows, B!BookInit
<1>2. ASSUME TablesInv, [Next]_vars
      PROVE  [B!BookNext]_Book
  <2>1. CASE \E p \in Handlers \union Workers : Commit(p)
    BY <1>2, <2>1, CommitBooks
  <2>2. CASE recs' = recs
    BY <2>2 DEF Book
  <2>3. CASE \E p \in Handlers \union Workers : Taken(p)
    BY <1>2, <2>2, <2>3, TakenShaped, AcquireShape DEF TablesInv, BookingInv
  <2> QED
    BY <1>2, <2>1, <2>2, <2>3, StepShape DEF Quiet
<1>3. TablesInv /\ [Next]_vars => [B!BookNext]_Book
  BY <1>2
<1>4. Spec => B!BookInit /\ [][B!BookNext]_Book
  BY <1>1, <1>3, TablesInvariant, PTL DEF Spec
<1> QED
  BY <1>4, PTL DEF ImplementsBookings, B!BookSpec, Book
=============================================================================
