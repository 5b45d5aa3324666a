------------------------------ MODULE Requests ------------------------------
(***************************************************************************)
(* The request life cycle of internal/operations for one business:         *)
(* appointments and preorders are created, edited, moved along their life  *)
(* cycle and expired by several API handlers and workers at once.          *)
(*                                                                         *)
(* Every write transaction starts with BEGIN and SELECT ... FOR UPDATE on  *)
(* the business's subscription row (Handler.begin).  A handler is modelled *)
(* in three steps: it arrives (reads made before the transaction, BEGIN),  *)
(* it acquires the lock and runs its checks against the committed tables,  *)
(* which leaves the rows it is about to write in writing[p], and it        *)
(* commits.  An error return, a cancelled request or a crash rolls back.   *)
(***************************************************************************)
EXTENDS Sequences, FiniteSets, Lifecycle, Entitlements

CONSTANTS
  Ids,              \* identifiers uuid.New may return
  Handlers,         \* concurrent API requests
  Workers,          \* job workers
  Phones, Keys,     \* customer phones, Idempotency-Key values
  Services, Resources, Windows, NoService,
  WindowStart, WindowEnd,     \* the columns of preorder_pickup_windows
  CreateForms, TransitionForms, EditForms,    \* request bodies clients send
  SettingsForms, ServiceForms, ResourceForms, SubscriptionForms,
  PhoneLimit, TotalLimit,     \* 3 and 500 in pendingLimit
  ReplayTTL, AccessTTL,       \* 24 hours and 30 days
  Configured,       \* the business as first seen: sub, settings, services, resources
  MaxOpen,          \* how long a request may keep its transaction open
  MaxClock, MaxVersion        \* bounds of the model

Time == Nat
Channels == {"owner", "public", "personal"}
Places == Resources \union Windows

\* Opening hours and closed dates, as instants rather than wall-clock times.
Opening == [opens: Time, closes: Time]

\* Settings of a module.
Settings ==
  [enabled: BOOLEAN, hours: SUBSET Opening, closed: SUBSET Time, slot: Nat \ {0},
   lead: Time, horizon: Time, cancelBefore: Time, ttl: Time, maxOrders: Nat]
Service == [active: BOOLEAN, public: BOOLEAN, duration: Nat \ {0}, buffer: Nat]
Resource ==
  [active: BOOLEAN, services: SUBSET Services, hours: SUBSET Opening, closed: SUBSET Time]

CreateForm ==
  [kind: {"create"}, channel: Channels, module: Modules, key: Keys, phone: Phones,
   service: Services \union {NoService}, where: Places, start: Time]
TransitionForm ==
  [kind: {"transition"}, channel: Channels, key: Keys, to: Statuses]
EditForm ==
  [kind: {"edit"}, channel: {"owner"}, key: Keys, moves: BOOLEAN, where: Places, start: Time]

\* A call on an existing record: the form, the record, the version sent with it.
Call == [form: TransitionForms \union EditForms, id: Ids, version: Nat]
Creation == [form: CreateForms]

\* The rows of appointments and preorders; ends_at > starts_at is a CHECK of both.
Record ==
  {r \in [module: Modules, status: Statuses, version: Nat, phone: Phones,
          service: Services \union {NoService}, where: Places,
          start: Time, ends: Time, buffer: Nat, expires: Time,
          created: Time, origin: CreateForm] : r.start < r.ends}
Change == [from: Statuses \union {""}, to: Statuses]
Job == [id: Ids, at: Time]
Usage == [module: Modules, id: Ids, period: Time]
Forms == CreateForm \union TransitionForm \union EditForm
ReplayKeys ==
  (Channels \X {"create"} \X Modules \X Keys)
    \union (Channels \X {"transition", "edit"} \X Ids \X Keys)

\* The rows a transaction is about to write:
\* id, rec       the appointment or preorder row
\* hist          request_history rows, in order
\* use, enq      usage events and queue messages
\* access        new expiry of the management token, if any
\* row           the request_idempotency row, if any
WriteSet ==
  {w \in [id: Ids, rec: Record, hist: Seq(Change), use: SUBSET Usage, enq: SUBSET Job,
          access: SUBSET Time,
          row: SUBSET [key: ReplayKeys, form: Forms, id: Ids, expires: Time]] :
     \A j \in w.enq : j.id = w.id}

ASSUME FormsAssumption ==
  /\ CreateForms \subseteq CreateForm
  /\ TransitionForms \subseteq TransitionForm
  /\ \A f \in TransitionForms : f.channel # "owner" => f.to = "cancelled"
  /\ EditForms \subseteq EditForm
  /\ SettingsForms \subseteq Modules \X Settings
  /\ ServiceForms \subseteq Services \X Service
  /\ ResourceForms \subseteq Resources \X Resource
  /\ SubscriptionForms \subseteq Subscription
  /\ Configured \in [sub: Subscription, settings: [Modules -> Settings],
                     services: [Services -> Service], resources: [Resources -> Resource]]
ASSUME PlacesAssumption ==
  /\ Resources \intersect Windows = {}
  /\ NoService \notin Services
  /\ WindowStart \in [Windows -> Time] /\ WindowEnd \in [Windows -> Time]
  /\ \A w \in Windows : WindowStart[w] < WindowEnd[w]
  /\ \A f \in CreateForms :
       IF f.module = "appointments" THEN f.where \in Resources /\ f.service \in Services
                                    ELSE f.where \in Windows
ASSUME BoundsAssumption ==
  /\ PhoneLimit \in Nat \ {0} /\ TotalLimit \in Nat \ {0}
  /\ ReplayTTL \in Nat \ {0} /\ AccessTTL \in Nat
  /\ MaxOpen \in Nat /\ MaxOpen < ReplayTTL
  /\ MaxClock \in Nat /\ MaxVersion \in Nat
ASSUME ActorsAssumption == Handlers \intersect Workers = {} /\ IsFiniteSet(Ids)

VARIABLES
  clock,       \* the wall clock that time.Now and the database share
  sub,         \* the business_subscriptions row
  settings,    \* business_modules, by module
  services,    \* services, by identifier
  resources,   \* appointment_resources, by identifier
  recs,        \* appointments and preorders, by identifier
  usage,       \* module_usage_events
  history,     \* request_history, by record
  access,      \* request_access: expiry of a record's management token
  replay,      \* request_idempotency, by scope and key
  jobs,        \* expire_request messages in openlocal_jobs
  failed,      \* messages moved to openlocal_failed
  request,     \* handler -> the call it is serving and the time of its BEGIN
  expiring,    \* worker -> the Expire call it is making
  writing      \* lock holder -> the rows its open transaction writes

catalogVars == <<settings, services, resources>>
tables == <<recs, usage, history, access, replay>>
queue == <<jobs, failed>>
vars == <<clock, sub, catalogVars, tables, queue, request, expiring, writing>>

-----------------------------------------------------------------------------
\* Tables are partial functions from keys to rows.
Put(table, key, row) ==
  [k \in DOMAIN table \union {key} |-> IF k = key THEN row ELSE table[k]]
Keep(table, keys) == [k \in DOMAIN table \intersect keys |-> table[k]]
Drop(table, key) == [k \in DOMAIN table \ {key} |-> table[k]]

\* Mutant: the subscription row is read without FOR UPDATE.
NeverLocked == FALSE

\* Some transaction holds the subscription row lock.
Locked == DOMAIN writing # {}

Earlier(a, b) == IF a < b THEN a ELSE b
Later(a, b) == IF a < b THEN b ELSE a

-----------------------------------------------------------------------------
(* Reads made by the checks of a transaction *)

\* record shows a requested record past its expiry as expired.
Lapsed(r) == r.status = "requested" /\ clock >= r.expires

\* Mutant: the buffer of the other appointment is forgotten.
OverlapsBuffer(resource, exclude, from, to) ==
  \E i \in DOMAIN recs \ exclude :
    /\ recs[i].module = "appointments"
    /\ recs[i].where = resource
    /\ recs[i].status \in HoldingAppointment
    /\ recs[i].start < to
    /\ recs[i].ends > from

\* AppointmentOverlaps: another held appointment of the resource meets
\* from .. to, its own buffer included.
Overlaps(resource, exclude, from, to) ==
  \E i \in DOMAIN recs \ exclude :
    /\ recs[i].module = "appointments"
    /\ recs[i].where = resource
    /\ recs[i].status \in HoldingAppointment
    /\ recs[i].start < to
    /\ recs[i].ends + recs[i].buffer > from

PickupWindowUsage(window, exclude) ==
  Cardinality({i \in DOMAIN recs \ exclude :
    /\ recs[i].module = "preorders"
    /\ recs[i].where = window
    /\ recs[i].status \in HoldingPreorder})

\* Slots offers start: far enough ahead, on the grid of an opening, and no instant
\* of the length it occupies beyond that opening or on a closed date.
Offered(hours, closed, cfg, length, start) ==
  /\ start >= clock + cfg.lead
  /\ start <= clock + cfg.horizon
  /\ \E o \in hours :
       /\ o.opens <= start /\ start + length <= o.closes
       /\ (start - o.opens) % cfg.slot = 0
       /\ ({o.opens} \union (start .. (start + length - 1))) \intersect closed = {}

\* checkAppointment: start is a free slot of an active resource that serves
\* the service, for an appointment of the given duration and buffer.
CheckAppointment(service, resource, exclude, start, duration, buffer) ==
  LET r == resources[resource]
      cfg == settings["appointments"]
  IN  /\ resource \in Resources
      /\ r.active
      /\ r.services = {} \/ service \in r.services
      /\ Offered(IF r.hours # {} THEN r.hours ELSE cfg.hours, cfg.closed \union r.closed,
                 cfg, duration + buffer, start)
      /\ ~ Overlaps(resource, exclude, start, start + duration + buffer)

\* Mutant: a full window takes one order more.
CheckPickupOffByOne(window, exclude) ==
  LET cfg == settings["preorders"]
  IN  /\ window \in Windows
      /\ Offered(cfg.hours, cfg.closed, cfg, cfg.slot, WindowStart[window])
      /\ WindowEnd[window] = WindowStart[window] + cfg.slot
      /\ cfg.maxOrders > 0 => PickupWindowUsage(window, exclude) <= cfg.maxOrders

\* checkPickup: the window is a slot the settings offer now, with room left (the
\* optional cutoff hour on the day of the window is left out).
CheckPickup(window, exclude) ==
  LET cfg == settings["preorders"]
  IN  /\ window \in Windows
      /\ Offered(cfg.hours, cfg.closed, cfg, cfg.slot, WindowStart[window])
      /\ WindowEnd[window] = WindowStart[window] + cfg.slot
      /\ cfg.maxOrders > 0 => PickupWindowUsage(window, exclude) < cfg.maxOrders

\* The check of whichever module the record belongs to.
CheckPlace(module, service, where, exclude, start, duration, buffer) ==
  IF module = "appointments"
  THEN CheckAppointment(service, where, exclude, start, duration, buffer)
  ELSE CheckPickup(where, exclude)

ModuleUsage(module, period) ==
  Cardinality({u \in usage : u.module = module /\ u.period = period})

\* Mutant: the limit itself may be exceeded by one.
CanConsumeOffByOne(module) ==
  /\ Subscribed(sub, module, clock)
  /\ ModuleUsage(module, sub.periodStart) <= RequestLimit[sub.tier]

\* entitlements.Consume, up to the insertion of the usage event.
CanConsume(module) ==
  /\ Subscribed(sub, module, clock)
  /\ ModuleUsage(module, sub.periodStart) < RequestLimit[sub.tier]

\* requireIntake
IntakeOpen(module) ==
  /\ CanConsume(module)
  /\ settings[module].enabled
  /\ settings[module].hours # {}

\* PendingAppointmentsForPhone, PendingPreordersForPhone; now is the now() of
\* the transaction, the time of its BEGIN.
Pending(module, phones, now) ==
  {i \in DOMAIN recs :
    /\ recs[i].module = module
    /\ recs[i].status = "requested"
    /\ recs[i].expires > now
    /\ recs[i].phone \in phones}

\* Mutant: the limit is tested after the request would have reached it.
PendingLimitOffByOne(module, phone, now) ==
  /\ Cardinality(Pending(module, {phone}, now)) <= PhoneLimit
  /\ Cardinality(Pending(module, Phones, now)) < TotalLimit

\* pendingLimit
WithinPendingLimit(module, phone, now) ==
  /\ Cardinality(Pending(module, {phone}, now)) < PhoneLimit
  /\ Cardinality(Pending(module, Phones, now)) < TotalLimit

\* The scope and key of request_idempotency.
ReplayKey(op) ==
  IF op.form.kind = "create"
  THEN <<op.form.channel, "create", op.form.module, op.form.key>>
  ELSE <<op.form.channel, op.form.kind, op.id, op.form.key>>

\* replay finds a row: the stored response is returned when the digests
\* agree, 409 otherwise.  Nothing is written in either case.
Stored(op, now) ==
  ReplayKey(op) \in DOMAIN replay /\ replay[ReplayKey(op)].expires > now

\* Mutant: the expiry ignores the start of the slot.
PendingTTL(start, module) == clock + settings[module].ttl

\* pendingExpiration
PendingExpiration(start, module) == Earlier(clock + settings[module].ttl, start)

\* enqueueExpiration: the message becomes visible one second after the expiry.
ExpirationJob(id, expires) == [id |-> id, at |-> Later(clock, expires + 1)]

-----------------------------------------------------------------------------
(* Arrival: what a handler reads before it opens its transaction *)

Begin(p, op) ==
  /\ p \notin DOMAIN request
  /\ request' = Put(request, p, [op |-> op, now |-> clock])
  /\ UNCHANGED <<clock, sub, catalogVars, tables, queue, expiring, writing>>

\* POST .../requests; the business is found active (or the caller is a member).
ArriveCreate(p) == \E f \in CreateForms : Begin(p, [form |-> f])

\* personalAccess and publicAccess: whom the caller may act for.
MayReach(channel, id) ==
  /\ channel = "public" => id \in DOMAIN access /\ access[id] > clock
  /\ channel = "personal" => recs[id].origin.channel = "personal"

\* A transition or an edit, with a version the caller has seen.
ArriveMutate(p) ==
  \E f \in TransitionForms \union EditForms, id \in DOMAIN recs :
    \E v \in 1 .. recs[id].version :
      /\ MayReach(f.channel, id)
      /\ v < MaxVersion
      /\ Begin(p, [form |-> f, id |-> id, version |-> v])

-----------------------------------------------------------------------------
(* Acquiring the lock and checking; writes is a WriteSet                   *)

Acquire(p, writes) ==
  /\ ~ Locked
  /\ writing' = Put(writing, p, writes)
  /\ UNCHANGED <<clock, sub, catalogVars, tables, queue, request, expiring>>

ReplayRow(op, now, id) ==
  {[key |-> ReplayKey(op), form |-> op.form, id |-> id, expires |-> now + ReplayTTL]}

\* create: where the new record starts and ends.
NewRecord(f, now) ==
  LET appointment == f.module = "appointments"
      start == IF appointment THEN f.start ELSE WindowStart[f.where]
  IN  [module |-> f.module, status |-> "requested", version |-> 1, phone |-> f.phone,
       service |-> f.service, where |-> f.where, start |-> start,
       ends |-> IF appointment THEN start + services[f.service].duration
                               ELSE WindowEnd[f.where],
       buffer |-> IF appointment THEN services[f.service].buffer ELSE 0,
       expires |-> PendingExpiration(start, f.module),
       created |-> now, origin |-> f]

\* create, from begin to saveReplay.
AcquireCreate(p) ==
  /\ p \in DOMAIN request \ DOMAIN writing
  /\ LET op == request[p].op
         f == op.form
         now == request[p].now
     IN  /\ f.kind = "create"
         /\ ~ Stored(op, now)
         /\ IntakeOpen(f.module)
         /\ WithinPendingLimit(f.module, f.phone, now)
         /\ f.module = "appointments" =>
              /\ services[f.service].active
              /\ f.channel # "owner" => services[f.service].public
         /\ LET r == NewRecord(f, now)
            IN  /\ CheckPlace(r.module, r.service, r.where, {}, r.start,
                              r.ends - r.start, r.buffer)
                /\ \E id \in Ids \ DOMAIN recs :
                     Acquire(p, [id |-> id, rec |-> r,
                       hist |-> <<[from |-> "", to |-> "requested"]>>,
                       use |-> {},
                       enq |-> {ExpirationJob(id, r.expires)},
                       access |-> IF f.channel = "personal" THEN {}
                                  ELSE {r.ends + AccessTTL},
                       row |-> ReplayRow(op, now, id)])

\* Mutant: the check that the request is still open is missing.
MayMutateClosed(op, now) ==
  LET r == recs[op.id]
  IN  /\ ~ Stored(op, now)
      /\ op.version = r.version
      /\ ~ Lapsed(r)

\* mutate, the checks common to edits and transitions.
MayMutate(op, now) ==
  LET r == recs[op.id]
  IN  /\ ~ Stored(op, now)
      /\ op.version = r.version
      /\ ~ Lapsed(r)
      /\ ~ Terminal(r.module, r.status)

\* mutate with a POST: the owner picks the status, the customer cancels.
AcquireTransition(p) ==
  /\ p \in DOMAIN request \ DOMAIN writing
  /\ LET op == request[p].op
         f == op.form
         r == recs[op.id]
         confirm == r.status = "requested" /\ f.to = "confirmed"
     IN  /\ f.kind = "transition"
         /\ MayMutate(op, request[p].now)
         /\ f.to \in Allowed(r.module, r.status)
         /\ f.channel # "owner" => clock + settings[r.module].cancelBefore < r.start
         /\ confirm => /\ CanConsume(r.module)
                       /\ CheckPlace(r.module, r.service, r.where, {op.id}, r.start,
                                     r.ends - r.start, r.buffer)
         /\ Acquire(p, [id |-> op.id,
              rec |-> [r EXCEPT !.status = f.to, !.version = @ + 1],
              hist |-> <<[from |-> r.status, to |-> f.to]>>,
              use |-> IF confirm
                      THEN {[module |-> r.module, id |-> op.id, period |-> sub.periodStart]}
                      ELSE {},
              enq |-> {},
              access |-> {},
              row |-> ReplayRow(op, request[p].now, op.id)])

\* The record after an edit that moves it; expires_at is renewed while pending.
Moved(r, f) ==
  LET appointment == r.module = "appointments"
      start == IF appointment THEN f.start ELSE WindowStart[f.where]
  IN  [r EXCEPT !.where = f.where, !.start = start,
                !.ends = IF appointment THEN start + (r.ends - r.start)
                                        ELSE WindowEnd[f.where],
                !.expires = IF r.status = "requested"
                            THEN PendingExpiration(start, r.module) ELSE @]

\* Mutant: an edit leaves the message of the old expiry to do.
NoRenewal(f, id, new) == {}

\* An edit that moves the record queues an expiration of its own ...
Renewal(f, id, new) == IF f.moves THEN {ExpirationJob(id, new.expires)} ELSE {}

\* Mutant: the management token keeps its expiry.
NoExtension(f, new) == {}

\* ... and extends the life of the management token.
Extension(f, new) == IF f.moves THEN {new.ends + AccessTTL} ELSE {}

\* mutate with a PATCH: notes, items and totals (not modelled) or a new place.
AcquireEdit(p) ==
  /\ p \in DOMAIN request \ DOMAIN writing
  /\ LET op == request[p].op
         f == op.form
         r == recs[op.id]
         new == IF f.moves THEN Moved(r, f) ELSE r
     IN  /\ f.kind = "edit"
         /\ MayMutate(op, request[p].now)
         /\ f.moves =>
              /\ f.where \in IF r.module = "appointments" THEN Resources ELSE Windows
              /\ Subscribed(sub, r.module, clock)
              /\ CheckPlace(r.module, r.service, f.where, {op.id}, new.start,
                            r.ends - r.start, r.buffer)
         /\ Acquire(p, [id |-> op.id,
              rec |-> [new EXCEPT !.version = @ + 1],
              hist |-> <<>>,
              use |-> {},
              enq |-> Renewal(f, op.id, new),
              access |-> Extension(f, new),
              row |-> ReplayRow(op, request[p].now, op.id)])

-----------------------------------------------------------------------------
(* Expiration: a queue message or the recovery sweep calls Expire *)

\* Worker.Process reads a visible message (more than once, if it must).
ReadJob(w) ==
  /\ w \notin DOMAIN expiring
  /\ \E j \in jobs :
       /\ j.at <= clock
       /\ expiring' = Put(expiring, w, [id |-> j.id, from |-> {j}, done |-> FALSE])
  /\ UNCHANGED <<clock, sub, catalogVars, tables, queue, request, writing>>

\* Mutant: the sweep leaves out a request whose message has failed.
SweepUnfailed(w) ==
  /\ w \notin DOMAIN expiring
  /\ \E id \in DOMAIN recs \ {j.id : j \in failed} :
       /\ Lapsed(recs[id])
       /\ expiring' = Put(expiring, w, [id |-> id, from |-> {}, done |-> FALSE])
  /\ UNCHANGED <<clock, sub, catalogVars, tables, queue, request, writing>>

\* Worker.Sweep: DueAppointments and DuePreorders list the record.
SweepDue(w) ==
  /\ w \notin DOMAIN expiring
  /\ \E id \in DOMAIN recs :
       /\ Lapsed(recs[id])
       /\ expiring' = Put(expiring, w, [id |-> id, from |-> {}, done |-> FALSE])
  /\ UNCHANGED <<clock, sub, catalogVars, tables, queue, request, writing>>

\* Expire finds the request pending and due.
AcquireExpire(w) ==
  /\ w \in DOMAIN expiring \ DOMAIN writing
  /\ ~ expiring[w].done
  /\ LET id == expiring[w].id
         r == recs[id]
     IN  /\ Lapsed(r)
         /\ Acquire(w, [id |-> id,
              rec |-> [r EXCEPT !.status = "expired", !.version = @ + 1],
              hist |-> <<[from |-> "requested", to |-> "expired"]>>,
              use |-> {}, enq |-> {}, access |-> {}, row |-> {}])

\* Expire finds it decided or not yet due and returns nil.
ExpireNothing(w) ==
  /\ w \in DOMAIN expiring \ DOMAIN writing
  /\ ~ expiring[w].done /\ ~ Locked
  /\ ~ Lapsed(recs[expiring[w].id])
  /\ expiring' = [expiring EXCEPT ![w].done = TRUE]
  /\ UNCHANGED <<clock, sub, catalogVars, tables, queue, request, writing>>

\* AckJob archives the message; a sweep has none.
Ack(w) ==
  /\ w \in DOMAIN expiring /\ expiring[w].done
  /\ jobs' = jobs \ expiring[w].from
  /\ expiring' = Drop(expiring, w)
  /\ UNCHANGED <<clock, sub, catalogVars, tables, failed, request, writing>>

\* The attempt fails, or the worker stops: the open transaction rolls back and
\* the message, if any, will be delivered again ...
AbandonExpire(w) ==
  /\ w \in DOMAIN expiring
  /\ expiring' = Drop(expiring, w)
  /\ writing' = Drop(writing, w)
  /\ UNCHANGED <<clock, sub, catalogVars, tables, queue, request>>

\* ... unless it was the last attempt: FailJob moves it to the failed queue.
FailJob(w) ==
  /\ w \in DOMAIN expiring /\ ~ expiring[w].done /\ expiring[w].from # {}
  /\ jobs' = jobs \ expiring[w].from
  /\ failed' = failed \union expiring[w].from
  /\ expiring' = Drop(expiring, w)
  /\ writing' = Drop(writing, w)
  /\ UNCHANGED <<clock, sub, catalogVars, tables, request>>

-----------------------------------------------------------------------------
(* Ends of a transaction *)

\* The rows of a transaction become visible at once.
Apply(w) ==
  /\ recs' = Put(recs, w.id, w.rec)
  /\ history' = Put(history, w.id,
       (IF w.id \in DOMAIN history THEN history[w.id] ELSE <<>>) \o w.hist)
  /\ usage' = usage \union {u \in w.use : \A e \in usage : e.module # u.module \/ e.id # u.id}
  /\ access' = IF w.access = {} \/ (w.id \in DOMAIN recs /\ w.id \notin DOMAIN access)
               THEN access
               ELSE Put(access, w.id, CHOOSE e \in w.access : TRUE)
  /\ replay' = IF w.row = {} THEN replay
               ELSE LET x == CHOOSE x \in w.row : TRUE
                    IN  Put(replay, x.key, [form |-> x.form, id |-> x.id, expires |-> x.expires])
  /\ jobs' = jobs \union w.enq

Commit(p) ==
  /\ p \in DOMAIN writing
  /\ Apply(writing[p])
  /\ writing' = Drop(writing, p)
  /\ IF p \in Handlers
     THEN request' = Drop(request, p) /\ UNCHANGED expiring
     ELSE expiring' = [expiring EXCEPT ![p].done = TRUE] /\ UNCHANGED request
  /\ UNCHANGED <<clock, sub, catalogVars, failed>>

\* Mutant: an error return leaves its transaction open.
RollbackMissing(p) ==
  /\ p \in DOMAIN request
  /\ request' = Drop(request, p)
  /\ UNCHANGED <<clock, sub, catalogVars, tables, queue, expiring, writing>>

\* The handler returns without committing: a stored response is replayed, a
\* check fails, the challenge is refused, the connection or the process dies.
Rollback(p) ==
  /\ p \in DOMAIN request
  /\ request' = Drop(request, p)
  /\ writing' = Drop(writing, p)
  /\ UNCHANGED <<clock, sub, catalogVars, tables, queue, expiring>>

-----------------------------------------------------------------------------
(* The transactions of the other handlers touch what operations read under *)
(* the lock.  They take it as well, so each is a single step.              *)

\* billing writes the subscription row; when that carries out a scheduled
\* downgrade, DeactivateExtraAppointmentResources leaves the one to be retained.
ChangeSubscription ==
  /\ ~ Locked
  /\ \E s \in SubscriptionForms : s # sub /\ sub' = s
  /\ \/ resources' = resources
     \/ \E keep \in Resources :
          resources' = [x \in Resources |->
            IF x = keep THEN resources[x] ELSE [resources[x] EXCEPT !.active = FALSE]]
  /\ UNCHANGED <<clock, settings, services, tables, queue, request, expiring, writing>>

\* PATCH of a module's settings (configuration and validateSettings).  A service
\* or resource that is not stored yet stands as an inactive one.
Configure ==
  /\ ~ Locked
  /\ \E f \in SettingsForms :
       LET module == f[1]
           s == f[2]
       IN  /\ s # settings[module]
           /\ Subscribed(sub, module, clock)
           /\ s.maxOrders > 0 => sub.tier = "business" /\ module = "preorders"
           /\ s.enabled => s.hours # {}
           /\ s.enabled /\ module = "appointments" =>
                /\ \E x \in Services : services[x].active /\ services[x].public
                /\ \E x \in Resources : resources[x].active
           /\ settings' = [settings EXCEPT ![module] = s]
  /\ UNCHANGED <<clock, sub, services, resources, tables, queue, request, expiring, writing>>

SaveService ==
  /\ ~ Locked
  /\ Subscribed(sub, "appointments", clock)
  /\ \E f \in ServiceForms :
       /\ f[2] # services[f[1]]
       /\ f[2].buffer > 0 => sub.tier = "business"
       /\ services' = [services EXCEPT ![f[1]] = f[2]]
  /\ UNCHANGED <<clock, sub, settings, resources, tables, queue, request, expiring, writing>>

ActiveOthers(resource) == {x \in Resources \ {resource} : resources[x].active}

SaveResource ==
  /\ ~ Locked
  /\ Subscribed(sub, "appointments", clock)
  /\ \E f \in ResourceForms :
       /\ f[2] # resources[f[1]]
       /\ sub.tier # "business" => f[2].services = {} /\ f[2].hours = {} /\ f[2].closed = {}
       /\ f[2].active => Cardinality(ActiveOthers(f[1])) < ResourceLimit[sub.tier]
       /\ resources' = [resources EXCEPT ![f[1]] = f[2]]
  /\ UNCHANGED <<clock, sub, settings, services, tables, queue, request, expiring, writing>>

\* CleanRequestReplay and CleanRequestAccess run without the lock.
CleanReplay ==
  /\ \E k \in DOMAIN replay : replay[k].expires < clock
  /\ replay' = Keep(replay, {k \in DOMAIN replay : replay[k].expires >= clock})
  /\ UNCHANGED <<clock, sub, catalogVars, recs, usage, history, access, queue,
                 request, expiring, writing>>

CleanAccess ==
  /\ \E i \in DOMAIN access : access[i] < clock
  /\ access' = Keep(access, {i \in DOMAIN access : access[i] >= clock})
  /\ UNCHANGED <<clock, sub, catalogVars, recs, usage, history, replay, queue,
                 request, expiring, writing>>

\* Time passes; no request waits for the lock as long as a replay row lives.
Tick ==
  /\ clock < MaxClock
  /\ \A p \in DOMAIN request : clock - request[p].now < MaxOpen
  /\ clock' = clock + 1
  /\ UNCHANGED <<sub, catalogVars, tables, queue, request, expiring, writing>>

-----------------------------------------------------------------------------
NoRows == [i \in {} |-> 0]

Init ==
  /\ clock = 0
  /\ sub = Configured.sub
  /\ settings = Configured.settings
  /\ services = Configured.services
  /\ resources = Configured.resources
  /\ recs = NoRows /\ history = NoRows /\ access = NoRows /\ replay = NoRows
  /\ usage = {} /\ jobs = {} /\ failed = {}
  /\ request = NoRows /\ expiring = NoRows /\ writing = NoRows

Handle(p) ==
  \/ ArriveCreate(p) \/ ArriveMutate(p)
  \/ AcquireCreate(p) \/ AcquireTransition(p) \/ AcquireEdit(p)
  \/ Commit(p) \/ Rollback(p)

Work(w) ==
  \/ ReadJob(w) \/ SweepDue(w)
  \/ AcquireExpire(w) \/ ExpireNothing(w) \/ Commit(w)
  \/ Ack(w) \/ AbandonExpire(w) \/ FailJob(w)

Administer == ChangeSubscription \/ Configure \/ SaveService \/ SaveResource

Next ==
  \/ \E p \in Handlers : Handle(p)
  \/ \E w \in Workers : Work(w)
  \/ Administer
  \/ CleanReplay \/ CleanAccess
  \/ Tick

Spec == Init /\ [][Next]_vars

-----------------------------------------------------------------------------
(* Types *)

CatalogOK ==
  /\ clock \in 0 .. MaxClock
  /\ sub \in Subscription
  /\ settings \in [Modules -> Settings]
  /\ services \in [Services -> Service]
  /\ resources \in [Resources -> Resource]

TablesOK ==
  /\ DOMAIN recs \subseteq Ids /\ recs \in [DOMAIN recs -> Record]
  /\ usage \subseteq Usage
  /\ DOMAIN history = DOMAIN recs /\ history \in [DOMAIN recs -> Seq(Change)]
  /\ DOMAIN access \subseteq DOMAIN recs /\ access \in [DOMAIN access -> Time]
  /\ DOMAIN replay \subseteq ReplayKeys
  /\ replay \in [DOMAIN replay -> [form: Forms, id: Ids, expires: Time]]
  /\ jobs \subseteq [id: DOMAIN recs, at: Time] /\ failed \subseteq Job

ActorsOK ==
  /\ DOMAIN request \subseteq Handlers
  /\ request \in [DOMAIN request -> [op: Creation \union Call, now: Time]]
  /\ \A p \in DOMAIN request :
       request[p].op \in Call => request[p].op.id \in DOMAIN recs
  /\ DOMAIN expiring \subseteq Workers
  /\ expiring \in [DOMAIN expiring -> [id: DOMAIN recs, from: SUBSET Job, done: BOOLEAN]]
  /\ \A w \in DOMAIN expiring : expiring[w].done => w \notin DOMAIN writing
  /\ DOMAIN writing \subseteq DOMAIN request \union DOMAIN expiring
  /\ writing \in [DOMAIN writing -> WriteSet]

TypeOK == CatalogOK /\ TablesOK /\ ActorsOK

-----------------------------------------------------------------------------
(* Safety *)

\* An appointment occupies its resource once confirmed, whatever comes of it.
Occupies(r) == r.module = "appointments" /\ r.status \in HoldingAppointment
Apart(r, s) ==
  Occupies(r) /\ Occupies(s) /\ r.where = s.where
    => r.ends + r.buffer <= s.start \/ s.ends + s.buffer <= r.start

\* No two confirmed, completed or missed appointments of a resource overlap,
\* their buffers included: the check of AppointmentOverlaps in one transaction
\* is still true when that transaction commits.
NoDoubleBooking == \A i, j \in DOMAIN recs : i # j => Apart(recs[i], recs[j])

\* A pickup window never gains an order beyond max_orders_per_slot as it stands
\* at that moment, by confirmation or by moving a confirmed order into it.
PickupCapacity ==
  [][\A w \in Windows :
       /\ PickupWindowUsage(w, {})' > PickupWindowUsage(w, {})
       /\ settings["preorders"].maxOrders > 0
       => PickupWindowUsage(w, {})' <= settings["preorders"].maxOrders]_vars

\* A confirmation counts against the tier and the period the business has when
\* it commits, and never exceeds them (the comment on entitlements.Consume).
QuotaRespected ==
  [][\A m \in Modules, period \in {sub.periodStart} :
       ModuleUsage(m, period)' > ModuleUsage(m, period)
       => ModuleUsage(m, period)' <= RequestLimit[sub.tier]]_vars

\* A request is charged exactly if it ever held its place: none gets a slot or a
\* window for free, none is charged for being asked, rejected or expired.
ChargedIffHeld ==
  \A i \in DOMAIN recs :
    (\E u \in usage : u.id = i)
      <=> (\E k \in DOMAIN history[i] : history[i][k].to \in Holding(recs[i].module))

\* The audit trail of a record is a path of its life cycle from its creation to
\* its stored status: no decision is lost, repeated or skipped, and only a
\* pending request expires.
HistoryChain ==
  \A i \in DOMAIN recs :
    LET h == history[i]
    IN  /\ h # <<>>
        /\ h[1] = [from |-> "", to |-> "requested"]
        /\ h[Len(h)].to = recs[i].status
        /\ \A k \in 2 .. Len(h) :
             /\ h[k].from = h[k - 1].to
             /\ \/ h[k].to \in Allowed(recs[i].module, h[k].from)
                \/ h[k] = [from |-> "requested", to |-> "expired"]

\* A decided request is never written again, by whichever of the owner, the
\* customer and the worker comes second.
DecisionIsFinal ==
  [][\A i \in DOMAIN recs :
       Terminal(recs[i].module, recs[i].status) => recs'[i] = recs[i]]_recs

\* Two records made from the same body with the same key, scope and channel were
\* created at least the life of a replay row apart, less the time a transaction may
\* stay open: while a retry waits for the lock, with the now() of its BEGIN, the row
\* of the first may expire and be cleaned up.  Any sooner retry makes no second one.
CreatedOncePerKey ==
  \A i, j \in DOMAIN recs :
    i # j /\ recs[i].origin = recs[j].origin =>
      \/ recs[i].created + MaxOpen >= recs[j].created + ReplayTTL
      \/ recs[j].created + MaxOpen >= recs[i].created + ReplayTTL

\* A phone never has more live pending requests in a module than pendingLimit
\* allows, although the limit is only checked on creation and with the time at
\* which the transaction began.
PendingBounded ==
  \A m \in Modules, phone \in Phones :
    Cardinality(Pending(m, {phone}, clock)) <= PhoneLimit

\* Every pending request has a message that becomes visible once it has expired, in
\* the queue or among the failed ones: edits that renew the expiry included.
PendingHasItsJob ==
  \A i \in DOMAIN recs :
    recs[i].status = "requested" =>
      \E j \in jobs \union failed : j.id = i /\ j.at >= recs[i].expires

\* A pending request expires no later than the slot it asks for begins.
PendingEndsBeforeStart ==
  \A i \in DOMAIN recs :
    recs[i].status = "requested" => recs[i].expires <= recs[i].start

\* A management token works until AccessTTL after the end of the request it
\* manages, wherever the request has been moved to.
AccessFollowsRequest ==
  \A i \in DOMAIN access : access[i] = recs[i].ends + AccessTTL

-----------------------------------------------------------------------------
(* Liveness *)

\* Postgres serves the queue of a row lock, so a worker that keeps asking for it
\* gets it; an attempt may fail, but not every one; a handler that holds the lock
\* commits or is rolled back; the sweep runs every minute, between two batches of
\* messages when both timers are due.
Fairness ==
  /\ WF_vars(Tick)
  /\ \A p \in Handlers : WF_vars(Commit(p) \/ Rollback(p))
  /\ \A w \in Workers :
       /\ SF_vars(SweepDue(w))
       /\ SF_vars(AcquireExpire(w))
       /\ SF_vars(ExpireNothing(w))
       /\ SF_vars(Commit(w))
       /\ WF_vars(Ack(w))

FairSpec == Spec /\ Fairness

\* A pending request is eventually decided or expired, even if every message
\* about it ends up in the failed queue.
PendingResolved ==
  \A id \in Ids :
    (id \in DOMAIN recs /\ recs[id].status = "requested")
      ~> (id \in DOMAIN recs /\ recs[id].status # "requested")

-----------------------------------------------------------------------------
(* Refinement: the tables implement the bookings they stand for *)

Booked(r) ==
  [module |-> r.module, status |-> r.status, where |-> r.where,
   from |-> r.start, to |-> r.ends + r.buffer]

B == INSTANCE Bookings WITH book <- [i \in DOMAIN recs |-> Booked(recs[i])]

\* Every committed transaction is one step of Bookings.
ImplementsBookings == B!BookSpec
=============================================================================
