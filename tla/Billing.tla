------------------------------ MODULE Billing ------------------------------
(***************************************************************************)
(* internal/billing for a business that subscribes: changes of its plan    *)
(* (change), Stripe's webhook, and the reconciliation of the subscription  *)
(* row with the subscription at Stripe (Reconcile).  A change holds the    *)
(* lock of the row while it calls Stripe; what Stripe has done stays done  *)
(* when the transaction is rolled back.  Stripe keeps an idempotency key   *)
(* for about a day: here, until it forgets it.                             *)
(***************************************************************************)
EXTENDS Integers, Sequences, FiniteSets

CONSTANTS
  Keys,           \* Idempotency-Key values, one for each change the owner asks for
  Workers,        \* worker processes
  Resources,      \* appointment resources of the business
  Plans,        \* selections the business has or asks for
  Wants,          \* requests for a change that owners send
  None,
  MaxVersion,     \* bound: states of the subscription but for those the changes make
  MaxTries,       \* bound: requests with one key
  Interrupted     \* whether calls and commits may fail and answers get lost

Modules == {"appointments", "preorders"}
Selection == [tier: {"essential", "business"}, modules: SUBSET Modules \ {{}}]
Free == [tier |-> "free", modules |-> {}]

BillingAssumption ==
  /\ Plans \subseteq Selection
  /\ Wants \subseteq [to: Plans, retained: Resources \union {None}, dated: BOOLEAN]
  /\ None \notin Resources \union Selection \union Workers \union Keys
  /\ Workers \intersect Keys = {}
  /\ MaxVersion \in Nat /\ MaxTries \in Nat /\ Interrupted \in BOOLEAN

VARIABLES
  stripe,         \* the subscription at Stripe
  used,           \* Stripe's idempotency keys: key -> parameters of its first request
  row,            \* business_subscriptions
  active,         \* resources that are active
  saved,          \* billing_operations: key -> timing answered, or None
  want,           \* key -> what its request asks for
  call,           \* key -> request under way
  holder,         \* request that holds the lock of the row, or None
  pending,        \* events received whose row is pending
  jobs,           \* reconciliation jobs, by the event that sent them
  told,           \* events Stripe has delivered
  fetched,        \* worker or key -> subscription its reconciliation has read, or None
  granted,        \* auxiliary: selections Stripe has ever been paid for
  effects         \* auxiliary: key -> kind -> changes Stripe has made and has the key of

owner == <<saved, want, call, holder, effects>>
queue == <<pending, jobs, told>>
vars == <<stripe, used, row, active, owner, queue, fetched, granted>>

Kinds == {"update", "schedule"}

Put(f, k, x) == [j \in DOMAIN f \union {k} |-> IF j = k THEN x ELSE f[j]]

Idle == [at |-> "idle", tries |-> 0, schedule |-> FALSE, items |-> 0, timing |-> None]
-----------------------------------------------------------------------------
(* The subscription at Stripe: its state has a number, and every change of  *)
(* it an event of that number.                                              *)

Subscription(s) == [stripe EXCEPT !.selection = s, !.version = @ + 1]
Paid(sub) == IF sub.status = "active" THEN sub.selection ELSE Free

Becomes(sub) == stripe' = sub /\ granted' = granted \union {Paid(sub)}

OfItself(sub) ==
  /\ stripe.version < MaxVersion /\ stripe.status # "canceled" /\ Becomes(sub)
  /\ UNCHANGED <<used, row, active, owner, queue, fetched>>

\* The period ends and the schedule, if it changes anything, takes effect.
PeriodEnds ==
  stripe.schedule # None /\ OfItself([Subscription(stripe.schedule) EXCEPT !.schedule = None])

\* The invoice of a pending update is paid, or the update expires.
InvoicePaid ==
  stripe.update # None /\ OfItself([Subscription(stripe.update) EXCEPT !.update = None])
UpdateExpires ==
  stripe.update # None /\ OfItself([Subscription(stripe.selection) EXCEPT !.update = None])

\* Renewals are not paid or paid late, or the subscription ends.
StatusChanges(status) ==
  /\ status # stripe.status
  /\ OfItself([Subscription(stripe.selection) EXCEPT !.status = status, !.update = None,
                 !.schedule = IF status = "canceled" THEN None ELSE @])

\* POST with an idempotency key: one that is new, or comes back with the same
\* parameters, is answered; the latter as before, and changes nothing.  The key of a kind of
\* change ends in a name of its own.
Named == [update |-> "change", schedule |-> "update"]
Made(k, kind) == effects' = [effects EXCEPT ![k][kind] = @ + 1]
Repeated(key) == key \in DOMAIN used
Accepted(key, parameters) == Repeated(key) => used[key] = parameters

\* The time of a key is over.  It is missed by requests to come.
Forget(k, name) ==
  /\ call[k].at = "idle" /\ call[k].tries < MaxTries /\ saved[k] = None
  /\ Repeated(<<k, name>>) /\ used' = [x \in DOMAIN used \ {<<k, name>>} |-> used[x]]
  /\ effects' = [effects EXCEPT ![k] = [kind \in Kinds |-> IF Named[kind] = name THEN 0 ELSE @[kind]]]
  /\ UNCHANGED <<stripe, row, active, saved, want, call, holder, queue, fetched, granted>>
-----------------------------------------------------------------------------
(* mutate and change *)

LockSubscription(k) == holder = None /\ holder' = k
GetBillingOperation(k) == saved[k]
SaveBillingOperation(k, answer) == saved' = [saved EXCEPT ![k] = answer]
UpdateSubscription(subscription) == row' = subscription

\* ListAppointmentResources, and the row of each changed or deactivated.
ListActive == active
DeactivateExtraAppointmentResources(id) == active \intersect {id}

TierRank == [free |-> 0, essential |-> 1, business |-> 2]

Immediate(k) ==
  \/ TierRank[want[k].to.tier] > TierRank[row.tier]
  \/ Cardinality(want[k].to.modules) > Cardinality(row.modules)

Holds(k, place) == holder = k /\ call[k].at = place
Goes(k, place) == call' = [call EXCEPT ![k].at = place]
Finishes(k, timing) == call' = [call EXCEPT ![k].at = "done", ![k].timing = timing]

\* A request arrives, takes the lock and finds no billing_operations row of its key.
Lock(k) ==
  /\ call[k].at = "idle" /\ call[k].tries < MaxTries
  /\ LockSubscription(k) /\ GetBillingOperation(k) = None
  /\ call' = [call EXCEPT ![k] = [Idle EXCEPT !.at = "locked", !.tries = call[k].tries + 1]]
  /\ UNCHANGED <<stripe, used, row, active, saved, want, queue, fetched, granted, effects>>

\* essential keeps one resource, which the owner has to name when there are more.
RetainedIsValid(k) ==
  want[k].to.tier = "essential" /\ "appointments" \in want[k].to.modules =>
    /\ Cardinality(ListActive) > 1 => want[k].retained # None
    /\ want[k].retained \in ListActive \union {None}

\* The subscription is read, and the resources of the business.
ReadSubscription(k) ==
  /\ Holds(k, "locked") /\ row.subscribed /\ RetainedIsValid(k)
  /\ call' = [call EXCEPT ![k].at = "read", ![k].schedule = stripe.schedule # None,
                          ![k].items = Cardinality(stripe.selection.modules)]
  /\ UNCHANGED <<stripe, used, row, active, saved, want, holder, queue, fetched, granted, effects>>

\* A schedule is released before an immediate change.
Release(k) ==
  /\ Holds(k, "read") /\ Immediate(k) /\ call[k].schedule
  /\ stripe.schedule # None /\ ~ Repeated(<<k, "release">>)
  /\ stripe' = [stripe EXCEPT !.schedule = None]
  /\ used' = Put(used, <<k, "release">>, {}) /\ Goes(k, "released")
  /\ UNCHANGED <<row, active, saved, want, holder, queue, fetched, granted, effects>>

\* The items of the request name those the subscription had when it was read;
\* proration_date is the client's, or the time of the request.
UpdateParameters(k) ==
  [items |-> call[k].items, proration |-> IF want[k].dated THEN 0 ELSE call[k].tries]

MayUpdate(k) ==
  /\ Immediate(k) /\ stripe.status # "canceled"
  /\ Holds(k, "released") \/ (Holds(k, "read") /\ ~ call[k].schedule)

Updated(k) ==
  /\ used' = Put(used, <<k, "change">>, UpdateParameters(k))
  /\ Made(k, "update")
  /\ \/ Becomes(Subscription(want[k].to)) /\ Finishes(k, "immediate")
     \/ /\ Becomes([Subscription(stripe.selection) EXCEPT !.update = want[k].to])
        /\ Finishes(k, "pending")

\* Mutant: the update goes out without an idempotency key.
UpdateWithoutKey(k) ==
  /\ MayUpdate(k) /\ Updated(k)
  /\ UNCHANGED <<row, active, saved, want, holder, queue, fetched>>

\* The subscription has the new items at once, or when its invoice is paid.
Update(k) ==
  /\ MayUpdate(k) /\ Accepted(<<k, "change">>, UpdateParameters(k))
  /\ IF Repeated(<<k, "change">>)
     THEN /\ \E timing \in {"immediate", "pending"} : Finishes(k, timing)
          /\ UNCHANGED <<stripe, used, granted, effects>>
     ELSE Updated(k)
  /\ UNCHANGED <<row, active, saved, want, holder, queue, fetched>>

\* A schedule made from the subscription changes nothing yet.
CreateSchedule(k) ==
  /\ Holds(k, "read") /\ ~ Immediate(k) /\ ~ call[k].schedule
  /\ stripe.status # "canceled" /\ stripe.schedule = None /\ ~ Repeated(<<k, "schedule">>)
  /\ stripe' = [stripe EXCEPT !.schedule = stripe.selection]
  /\ used' = Put(used, <<k, "schedule">>, {}) /\ Goes(k, "scheduled")
  /\ UNCHANGED <<row, active, saved, want, holder, queue, fetched, granted, effects>>

\* The schedule gets a second phase, from the end of this period on.
UpdateSchedule(k) ==
  /\ ~ Immediate(k) /\ stripe.schedule # None
  /\ Holds(k, "scheduled") \/ (Holds(k, "read") /\ call[k].schedule)
  /\ Accepted(<<k, "update">>, call[k].items)
  /\ IF Repeated(<<k, "update">>)
     THEN UNCHANGED <<stripe, used, effects>>
     ELSE /\ stripe' = [stripe EXCEPT !.schedule = want[k].to]
          /\ used' = Put(used, <<k, "update">>, call[k].items)
          /\ Made(k, "schedule")
  /\ Finishes(k, "period_end")
  /\ UNCHANGED <<row, active, saved, want, holder, queue, fetched, granted>>

\* The row after a change: only the scheduled change may differ.
ScheduledChange(k) ==
  CASE call[k].timing = "period_end" -> [to |-> want[k].to, retained |-> want[k].retained]
    [] call[k].timing # "period_end" /\ call[k].schedule -> None
    [] OTHER -> row.scheduled

\* Mutant: the row gets the selection at once.
CommitGrants(k) ==
  /\ Holds(k, "done") /\ holder' = None
  /\ UpdateSubscription([row EXCEPT !.tier = want[k].to.tier, !.modules = want[k].to.modules])
  /\ SaveBillingOperation(k, call[k].timing)
  /\ Goes(k, IF call[k].timing = "pending" THEN "idle" ELSE "refresh")
  /\ UNCHANGED <<stripe, used, active, want, queue, fetched, granted, effects>>

\* The answer is saved with the row; a change that is not pending is reconciled.
Commit(k) ==
  /\ Holds(k, "done") /\ holder' = None
  /\ UpdateSubscription([row EXCEPT !.scheduled = ScheduledChange(k)])
  /\ SaveBillingOperation(k, call[k].timing)
  /\ Goes(k, IF call[k].timing = "immediate" THEN "refresh" ELSE "idle")
  /\ UNCHANGED <<stripe, used, active, want, queue, fetched, granted, effects>>

\* Stripe refuses, its answer is lost, the commit fails or the server stops: the
\* transaction is rolled back and the client may ask again with the same key.
Fail(k) ==
  /\ holder = k /\ holder' = None
  /\ \/ Interrupted \/ call[k].at \in {"locked", "read"} \/ stripe.status = "canceled"
     \/ call[k].at = "scheduled" /\ stripe.schedule = None
  /\ Goes(k, "idle")
  /\ UNCHANGED <<stripe, used, row, active, saved, want, queue, fetched, granted, effects>>
-----------------------------------------------------------------------------
(* The webhook *)

\* Mutant: no job is sent while there is one for the customer.
WebhookOneJob(v) ==
  /\ v \notin told /\ told' = told \union {v} /\ pending' = pending \union {v}
  /\ jobs' = IF jobs = {} THEN {v} ELSE jobs
  /\ UNCHANGED <<stripe, used, row, active, owner, fetched, granted>>

SaveBillingEvent(v) ==
  /\ v \notin told /\ told' = told \union {v} /\ pending' = pending \union {v}
ProcessBillingEvents == pending' = {}

\* An event is stored with its job; one that comes again finds its row, and is dropped.
Webhook(v) ==
  /\ SaveBillingEvent(v) /\ jobs' = jobs \union {v}
  /\ UNCHANGED <<stripe, used, row, active, owner, fetched, granted>>
-----------------------------------------------------------------------------
(* Reconcile, of a worker or of the request that made a change *)

\* The subscriptions of the customer are read before the row is locked.
Fetch(t, job) ==
  /\ fetched[t] = None
  /\ fetched' = [fetched EXCEPT ![t] = [sub |-> stripe, job |-> job]]
  /\ UNCHANGED <<stripe, used, row, active, owner, queue, granted>>

Applies(sub) ==
  /\ row.scheduled # None /\ sub.status = "active" /\ row.scheduled.to = sub.selection

\* The row that the subscription read from Stripe says it should be.
Reconciled(sub) ==
  [tier |-> Paid(sub).tier, modules |-> Paid(sub).modules,
   subscribed |-> sub.status # "canceled",
   scheduled |-> IF sub.status = "canceled" \/ Applies(sub) THEN None ELSE row.scheduled,
   version |-> sub.version]

\* A scheduled change that has come leaves the resource it named.
Retained(sub) ==
  IF Applies(sub) /\ row.scheduled.retained # None
  THEN DeactivateExtraAppointmentResources(row.scheduled.retained)
  ELSE active

\* Everything pending is marked processed, and the job that asked for it is acknowledged.
Reconcile(t) ==
  /\ fetched[t] # None /\ holder = None
  /\ UpdateSubscription(Reconciled(fetched[t].sub)) /\ active' = Retained(fetched[t].sub)
  /\ ProcessBillingEvents /\ jobs' = jobs \ {fetched[t].job}
  /\ fetched' = [fetched EXCEPT ![t] = None]
  /\ call' = IF t \in Keys THEN [call EXCEPT ![t].at = "idle"] ELSE call
  /\ UNCHANGED <<stripe, used, saved, want, holder, told, granted, effects>>

\* A reconciliation that fails: the job comes again, the request is answered all the same.
Give(t) ==
  /\ Interrupted /\ fetched[t] # None
  /\ fetched' = [fetched EXCEPT ![t] = None]
  /\ call' = IF t \in Keys THEN [call EXCEPT ![t].at = "idle"] ELSE call
  /\ UNCHANGED <<stripe, used, row, active, saved, want, holder, queue, granted, effects>>
-----------------------------------------------------------------------------
(* internal/operations: resources, under the same lock *)

Limit == [free |-> 0, essential |-> 1, business |-> 5]

SaveResource(r) ==
  /\ holder = None /\ "appointments" \in row.modules
  /\ \/ active' = active \ {r}
     \/ (Cardinality(active \ {r}) < Limit[row.tier] /\ active' = active \union {r})
  /\ UNCHANGED <<stripe, used, row, owner, queue, fetched, granted>>
-----------------------------------------------------------------------------
Threads == Workers \union Keys

\* A business with a subscription that has been reconciled.
Init ==
  /\ \E s \in Plans :
       /\ stripe = [status |-> "active", selection |-> s, schedule |-> None,
                    update |-> None, version |-> 0]
       /\ row = [tier |-> s.tier, modules |-> s.modules, subscribed |-> TRUE,
                 scheduled |-> None, version |-> 0]
       /\ granted = {s}
       /\ active \in {a \in SUBSET Resources : Cardinality(a) <= Limit[s.tier]}
  /\ want \in [Keys -> Wants]
  /\ used = [x \in {} |-> {}] /\ saved = [k \in Keys |-> None]
  /\ call = [k \in Keys |-> Idle] /\ holder = None
  /\ effects = [k \in Keys |-> [kind \in Kinds |-> 0]]
  /\ pending = {} /\ jobs = {} /\ told = {}
  /\ fetched = [t \in Threads |-> None]

Stripe ==
  \/ PeriodEnds \/ InvoicePaid \/ UpdateExpires
  \/ \E status \in {"active", "unpaid", "canceled"} : StatusChanges(status)
Request(k) ==
  \/ Lock(k) \/ ReadSubscription(k) \/ Release(k) \/ Update(k) \/ CreateSchedule(k)
  \/ UpdateSchedule(k) \/ Commit(k) \/ Fail(k)
  \/ call[k].at = "refresh" /\ Fetch(k, None)
Work(w) == Fetch(w, None) \/ \E job \in jobs : Fetch(w, job)

Next ==
  \/ Stripe
  \/ \E k \in Keys : Request(k)
  \/ \E k \in Keys, name \in {"release", "change", "schedule", "update"} : Forget(k, name)
  \/ \E v \in 1 .. stripe.version : Webhook(v)
  \/ \E w \in Workers : Work(w)
  \/ \E t \in Threads : Reconcile(t) \/ Give(t)
  \/ \E r \in Resources : SaveResource(r)

Spec == Init /\ [][Next]_vars

\* Messages of the queue come until they are acknowledged.
JobsRun ==
  /\ \A w \in Workers, v \in 1 .. MaxVersion : SF_vars(v \in jobs /\ Fetch(w, v))
  /\ \A t \in Threads : SF_vars(Reconcile(t))
  /\ \A k \in Keys : WF_vars(Request(k))
\* Sweeps come again and again.
Sweeps == \A w \in Workers : WF_vars(Fetch(w, None))

JobsSpec == Spec /\ JobsRun
SweepsSpec == Spec /\ JobsRun /\ Sweeps
-----------------------------------------------------------------------------
TypeOK ==
  /\ stripe.status \in {"active", "unpaid", "canceled"}
  /\ stripe.selection \in Plans /\ stripe.update \in Plans \union {None}
  /\ stripe.schedule \in Plans \union {None} /\ stripe.version \in Nat
  /\ stripe.status = "canceled" => stripe.schedule = None
  /\ [tier |-> row.tier, modules |-> row.modules] \in Plans \union {Free}
  /\ row.scheduled \in [to: Plans, retained: Resources \union {None}] \union {None}
  /\ row.version \in 0 .. stripe.version
  /\ active \subseteq Resources /\ holder \in Keys \union {None}
  /\ saved \in [Keys -> {"immediate", "pending", "period_end", None}]
  /\ pending \subseteq told /\ jobs \subseteq told /\ told \subseteq 1 .. stripe.version
  /\ \A k \in Keys :
       call[k].at \in {"locked", "read", "released", "scheduled", "done"} <=> holder = k

\* A payment that is missing, pending or lost never gives access: the row never
\* shows a selection that Stripe has not been paid for.
AccessWasPaidFor == [tier |-> row.tier, modules |-> row.modules] \in granted

\* However often the client repeats a request whose answer was lost or whose
\* transaction was rolled back, Stripe changes the subscription once for it, or
\* once a period's end (updates and schedules each), as long as it has the key.
UpdatedOncePerKey == \A k \in Keys, kind \in Kinds : effects[k][kind] <= 1

\* Whatever is answered once and replayed for ever has been done at Stripe.
AnsweredIsDone == \A k \in Keys : saved[k] # None => \E kind \in Kinds : effects[k][kind] > 0

\* Reconcile marks events as processed that came after it read the subscription:
\* each of them still has its own job.
PendingHasJob == pending \subseteq jobs

\* What is answered once and replayed for ever has been done at Stripe, once for a key that
\* Stripe has, however often its request is repeated; and an event marked as processed by a
\* reconciliation that had not seen it has its own job.
ChangesAreCarriedOut == TypeOK /\ AnsweredIsDone /\ UpdatedOncePerKey /\ PendingHasJob

\* docs/openapi.yaml, on reading the subscription: "Subscription, pending change,
\* and entitlements".  When every request that was sent has been answered, the
\* change shown as pending is one that Stripe will make, or has made.
\* The code does not keep it.
PendingChangeIsAtStripe ==
  (\A k \in Keys : call[k].tries > 0 => saved[k] # None)
    /\ row.scheduled # None /\ stripe.status # "canceled"
  => row.scheduled.to \in {stripe.schedule, stripe.selection}

\* internal/billing/change.go, on a change to essential: "choose the appointment
\* resource to retain", since that tier has one.  With the tier, the row has it.
\* The code does not keep it.
EssentialKeepsOne ==
  row.tier = "essential" => Cardinality(active) <= Limit["essential"]

\* internal/billing/stripe.go, when Stripe does not answer: "billing provider
\* unavailable; retry with the same key".  A request that is repeated has the
\* effect of its first attempt: it does not update the subscription once and
\* schedule a change for the end of the period another time.
\* The code does not keep it.
OneKindPerKey ==
  \A k \in Keys : effects[k]["update"] = 0 \/ effects[k]["schedule"] = 0

\* Every event delivered is followed by a row at least as new, by its job alone.
EventsReachTheRow ==
  \A v \in 1 .. MaxVersion : v \in pending ~> row.version >= v

\* With the sweeps, the row becomes what Stripe says, though an older list may be
\* written after a newer one.
RowCatchesUp == <>[](row.version = stripe.version)
=============================================================================
