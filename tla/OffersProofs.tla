---------------------------- MODULE OffersProofs -----------------------------
(***************************************************************************)
(* Proofs about Billing: access follows what Stripe has been paid for; a   *)
(* change is made once for a key, and before its answer is saved; and an   *)
(* event that is marked as processed unseen has its own job.  And about    *)
(* Offers: the slots of a date are its openings, and the marketplace finds *)
(* whoever serves a place and shows each once.                             *)
(***************************************************************************)
EXTENDS Billing, Offers, FiniteSetTheorems, SequenceTheorems, TLAPS

-----------------------------------------------------------------------------
(* The inductive invariant *)

Selections == Plans \union {Free}
Subscriptions ==
  [status: {"active", "unpaid", "canceled"}, selection: Plans, schedule: Plans \union {None},
   update: Plans \union {None}, version: Nat]
Scheduled == [to: Plans, retained: Resources \union {None}]
Timings == {"immediate", "pending", "period_end", None}
Locked == {"locked", "read", "released", "scheduled", "done"}

\* What Stripe is paid for is granted, and has been when it was read.
StripeInv ==
  /\ stripe \in Subscriptions /\ (stripe.status = "canceled" => stripe.schedule = None)
  /\ Paid(stripe) \in granted

FetchedInv ==
  /\ DOMAIN fetched = Threads
  /\ \A t \in Threads : fetched[t] # None =>
       /\ fetched[t].sub \in Subscriptions /\ fetched[t].sub.version <= stripe.version
       /\ Paid(fetched[t].sub) \in granted

RowInv ==
  /\ row \in [tier: {"free", "essential", "business"}, modules: SUBSET Modules,
              subscribed: BOOLEAN, scheduled: Scheduled \union {None}, version: Nat]
  /\ [tier |-> row.tier, modules |-> row.modules] \in granted \intersect Selections
  /\ row.version <= stripe.version /\ active \subseteq Resources

\* A request has the lock from its read to its answer, and reads what Stripe has made of it
\* without the lock.
CallsInv ==
  /\ want \in [Keys -> Wants] /\ saved \in [Keys -> Timings] /\ holder \in Keys \union {None}
  /\ call \in [Keys -> [at: Locked \union {"idle", "refresh"}, tries: Nat, schedule: BOOLEAN,
                        items: Nat, timing: Timings]]
  /\ \A k \in Keys : call[k].at \in Locked <=> holder = k
  /\ \A k \in Keys : fetched[k] # None => call[k].at = "refresh"

\* Stripe has the key of each change it has made, and has made one for each key it has.
Has(k, kind) == effects[k][kind] = 1

EffectsInv ==
  /\ effects \in [Keys -> [Kinds -> 0 .. 1]]
  /\ \A k \in Keys : /\ <<k, "change">> \in DOMAIN used <=> Has(k, "update")
                     /\ <<k, "update">> \in DOMAIN used <=> Has(k, "schedule")
  /\ \A k \in Keys : saved[k] # None \/ call[k].at = "done" => \E kind \in Kinds : Has(k, kind)

EventsInv == pending \subseteq jobs /\ jobs \subseteq told /\ told \subseteq 1 .. stripe.version

BillingInv == StripeInv /\ FetchedInv /\ RowInv /\ CallsInv /\ EffectsInv /\ EventsInv

-----------------------------------------------------------------------------
(* Steps of the subscription at Stripe *)

LEMMA PlanType ==
  ASSUME BillingAssumption, NEW s \in Plans
  PROVE  /\ s \in Selection /\ s # None /\ s \in Selections
         /\ s.tier \in {"free", "essential", "business"} /\ s.modules \in SUBSET Modules
         /\ s = [tier |-> s.tier, modules |-> s.modules]
  BY DEF BillingAssumption, Selection, Selections

LEMMA PaidType ==
  ASSUME BillingAssumption, NEW sub \in Subscriptions
  PROVE  /\ Paid(sub) \in Selections
         /\ Paid(sub).tier \in {"free", "essential", "business"} /\ Paid(sub).modules \in SUBSET Modules
         /\ Paid(sub) = [tier |-> Paid(sub).tier, modules |-> Paid(sub).modules]
  BY PlanType DEF Paid, Subscriptions, Selections, Free

LEMMA WantType ==
  ASSUME BillingAssumption, CallsInv, NEW k \in Keys
  PROVE  want[k].to \in Plans /\ want[k].retained \in Resources \union {None}
  BY DEF CallsInv, BillingAssumption

\* What a step may make of the subscription.
Moves ==
  /\ stripe' \in Subscriptions /\ (stripe'.status = "canceled" => stripe'.schedule = None)
  /\ stripe'.version >= stripe.version /\ granted \subseteq granted' /\ Paid(stripe') \in granted'

LEMMA BecomesMoves ==
  ASSUME StripeInv, NEW sub \in Subscriptions, Becomes(sub), sub.version = stripe.version + 1,
         sub.status = "canceled" => sub.schedule = None
  PROVE  Moves
  BY DEF StripeInv, Becomes, Moves, Subscriptions

\* A schedule changes neither what is paid for nor the state's number.
LEMMA ScheduleMoves ==
  ASSUME StripeInv, NEW s \in Plans \union {None}, stripe' = [stripe EXCEPT !.schedule = s],
         s # None => stripe.status # "canceled", granted' = granted
  PROVE  Moves
<1>1. /\ stripe' \in Subscriptions /\ stripe'.status = stripe.status
      /\ stripe'.selection = stripe.selection /\ stripe'.version = stripe.version
      /\ stripe'.schedule = s
  BY DEF StripeInv, Subscriptions
<1>2. Paid(stripe') = Paid(stripe)
  BY <1>1 DEF Paid
<1>3. stripe.version \in Nat
  BY DEF StripeInv, Subscriptions
<1> QED
  BY <1>1, <1>2, <1>3 DEF StripeInv, Moves

LEMMA SubscriptionType ==
  ASSUME StripeInv, NEW s \in Plans
  PROVE  /\ Subscription(s) \in Subscriptions /\ Subscription(s).version = stripe.version + 1
         /\ Subscription(s).status = stripe.status /\ Subscription(s).schedule = stripe.schedule
<1> DEFINE u == [stripe EXCEPT !.selection = s]
           n == stripe.version + 1
<1>1. u \in Subscriptions /\ u.status = stripe.status /\ u.schedule = stripe.schedule /\ n \in Nat
  BY DEF StripeInv, Subscriptions
<1>2. Subscription(s) = [u EXCEPT !.version = n]
  BY DEF Subscription
<1> HIDE DEF u, n
<1>3. /\ [u EXCEPT !.version = n] \in Subscriptions /\ [u EXCEPT !.version = n].version = n
      /\ [u EXCEPT !.version = n].status = u.status
      /\ [u EXCEPT !.version = n].schedule = u.schedule
  BY <1>1 DEF Subscriptions
<1> QED
  BY <1>1, <1>2, <1>3 DEF n

LEMMA StripeMoves ==
  ASSUME StripeInv, Stripe
  PROVE  Moves
<1>1. stripe.selection \in Plans /\ stripe.update \in Plans \union {None}
      /\ stripe.schedule \in Plans \union {None}
  BY DEF StripeInv, Subscriptions
<1>2. CASE PeriodEnds
  <2> DEFINE sub == [Subscription(stripe.schedule) EXCEPT !.schedule = None]
  <2>1. OfItself(sub) /\ stripe.schedule \in Plans
    BY <1>1, <1>2 DEF PeriodEnds
  <2>2. sub \in Subscriptions /\ sub.version = stripe.version + 1 /\ sub.schedule = None
    BY <2>1, SubscriptionType DEF Subscriptions
  <2> HIDE DEF sub
  <2> QED
    BY <2>1, <2>2, BecomesMoves DEF OfItself
<1>3. CASE InvoicePaid
  <2> DEFINE sub == [Subscription(stripe.update) EXCEPT !.update = None]
  <2>1. OfItself(sub) /\ stripe.update \in Plans /\ stripe.status # "canceled"
    BY <1>1, <1>3 DEF InvoicePaid, OfItself
  <2>2. sub \in Subscriptions /\ sub.version = stripe.version + 1 /\ sub.status = stripe.status
    BY <2>1, SubscriptionType DEF Subscriptions
  <2> HIDE DEF sub
  <2> QED
    BY <2>1, <2>2, BecomesMoves DEF OfItself
<1>4. CASE UpdateExpires
  <2> DEFINE sub == [Subscription(stripe.selection) EXCEPT !.update = None]
  <2>1. OfItself(sub) /\ stripe.status # "canceled"
    BY <1>4 DEF UpdateExpires, OfItself
  <2>2. sub \in Subscriptions /\ sub.version = stripe.version + 1 /\ sub.status = stripe.status
    BY <1>1, SubscriptionType DEF Subscriptions
  <2> HIDE DEF sub
  <2> QED
    BY <2>1, <2>2, BecomesMoves DEF OfItself
<1>5. ASSUME NEW status \in {"active", "unpaid", "canceled"}, StatusChanges(status) PROVE Moves
  <2> DEFINE sub == [Subscription(stripe.selection) EXCEPT !.status = status, !.update = None,
                       !.schedule = IF status = "canceled" THEN None ELSE @]
  <2>1. OfItself(sub)
    BY <1>5 DEF StatusChanges
  <2>2. /\ sub \in Subscriptions /\ sub.version = stripe.version + 1
        /\ sub.status = "canceled" => sub.schedule = None
    <3> DEFINE s == Subscription(stripe.selection)
               x == IF status = "canceled" THEN None ELSE s.schedule
    <3>1. s \in Subscriptions /\ s.version = stripe.version + 1
      BY <1>1, SubscriptionType
    <3>2. x \in Plans \union {None}
      BY <3>1 DEF Subscriptions
    <3>3. sub = [[[s EXCEPT !.status = status] EXCEPT !.update = None] EXCEPT !.schedule = x]
      OBVIOUS
    <3> HIDE DEF s
    <3>4. [s EXCEPT !.status = status] \in Subscriptions
      BY <3>1 DEF Subscriptions
    <3> DEFINE u == [[s EXCEPT !.status = status] EXCEPT !.update = None]
    <3>5. u \in Subscriptions /\ u.status = status /\ u.version = s.version
      BY <3>1, <3>4 DEF Subscriptions
    <3> HIDE DEF u
    <3>6. /\ [u EXCEPT !.schedule = x] \in Subscriptions
          /\ [u EXCEPT !.schedule = x].version = s.version
          /\ [u EXCEPT !.schedule = x].status = status /\ [u EXCEPT !.schedule = x].schedule = x
      BY <3>2, <3>5 DEF Subscriptions
    <3> QED
      BY <3>1, <3>3, <3>6 DEF u
  <2> HIDE DEF sub
  <2> QED
    BY <2>1, <2>2, BecomesMoves DEF OfItself
<1> QED
  BY <1>2, <1>3, <1>4, <1>5 DEF Stripe

LEMMA UpdatedMoves ==
  ASSUME BillingAssumption, StripeInv, CallsInv, NEW k \in Keys, MayUpdate(k), Updated(k)
  PROVE  Moves
<1>1. want[k].to \in Plans /\ stripe.selection \in Plans /\ stripe.status # "canceled"
  BY WantType DEF StripeInv, Subscriptions, MayUpdate
<1>2. CASE Becomes(Subscription(want[k].to))
  BY <1>1, <1>2, SubscriptionType, BecomesMoves
<1>3. CASE Becomes([Subscription(stripe.selection) EXCEPT !.update = want[k].to])
  <2> DEFINE sub == [Subscription(stripe.selection) EXCEPT !.update = want[k].to]
  <2>1. sub \in Subscriptions /\ sub.version = stripe.version + 1 /\ sub.status = stripe.status
    BY <1>1, SubscriptionType DEF Subscriptions
  <2>2. Becomes(sub)
    BY <1>3
  <2> HIDE DEF sub
  <2> QED
    BY <1>1, <2>1, <2>2, BecomesMoves
<1> QED
  BY <1>2, <1>3 DEF Updated

LEMMA NextMoves ==
  ASSUME BillingAssumption, StripeInv, CallsInv, Next
  PROVE  Moves
<1>1. ASSUME stripe' = stripe, granted' = granted PROVE Moves
  BY <1>1 DEF Moves, StripeInv, Subscriptions
<1>2. ASSUME NEW k \in Keys, Request(k) PROVE Moves
  <2>1. stripe.selection \in Plans /\ want[k].to \in Plans /\ want[k].to # None
    BY WantType, PlanType DEF StripeInv, Subscriptions
  <2>2. CASE Release(k)
    BY <2>2, ScheduleMoves DEF Release
  <2>3. CASE CreateSchedule(k)
    BY <2>1, <2>3, ScheduleMoves DEF CreateSchedule
  <2>4. CASE UpdateSchedule(k)
    <3>1. stripe.status # "canceled"
      BY <2>4 DEF UpdateSchedule, StripeInv
    <3> QED
      BY <1>1, <2>1, <2>4, <3>1, ScheduleMoves DEF UpdateSchedule
  <2>5. CASE Update(k)
    BY <1>1, <2>5, UpdatedMoves DEF Update
  <2>6. CASE Lock(k) \/ ReadSubscription(k) \/ Commit(k) \/ Fail(k) \/ Fetch(k, None)
    BY <1>1, <2>6 DEF Lock, ReadSubscription, Commit, Fail, Fetch
  <2> QED
    BY <1>2, <2>2, <2>3, <2>4, <2>5, <2>6 DEF Request
<1>3. CASE Stripe
  BY <1>3, StripeMoves
<1>4. CASE UNCHANGED <<stripe, granted>>
  BY <1>1, <1>4
<1>5. Stripe \/ (\E k \in Keys : Request(k)) \/ UNCHANGED <<stripe, granted>>
  BY DEF Next, Forget, Webhook, Work, Fetch, Reconcile, Give, SaveResource
<1> QED
  BY <1>2, <1>3, <1>4, <1>5

-----------------------------------------------------------------------------
(* What is read, and the row *)

\* Every step is one of these.
LEMMA Steps ==
  ASSUME BillingAssumption, Next
  PROVE  \/ \E k \in Keys : \/ Lock(k) \/ ReadSubscription(k) \/ Release(k) \/ Update(k)
                            \/ CreateSchedule(k) \/ UpdateSchedule(k) \/ Commit(k) \/ Fail(k)
         \/ \E t \in Threads : \E job : Fetch(t, job) /\ (t \in Keys => call[t].at = "refresh")
         \/ \E t \in Threads : Reconcile(t) \/ Give(t)
         \/ \E v \in 1 .. stripe.version : Webhook(v)
         \/ \E r \in Resources : SaveResource(r)
         \/ \E k \in Keys : \E name : Forget(k, name)
         \/ Stripe
<1>1. \A w \in Workers : w \in Threads /\ w \notin Keys
  BY DEF Threads, BillingAssumption
<1>2. \A k \in Keys : k \in Threads
  BY DEF Threads
<1>3. ASSUME NEW w \in Workers, Work(w)
      PROVE  \E t \in Threads : \E job : Fetch(t, job) /\ (t \in Keys => call[t].at = "refresh")
  BY <1>1, <1>3 DEF Work
<1>4. ASSUME NEW k \in Keys, call[k].at = "refresh" /\ Fetch(k, None)
      PROVE  \E t \in Threads : \E job : Fetch(t, job) /\ (t \in Keys => call[t].at = "refresh")
  BY <1>2, <1>4
<1> QED
  BY <1>3, <1>4 DEF Next, Request

LEMMA FetchedKeeps ==
  ASSUME BillingAssumption, StripeInv, FetchedInv, Moves, Next
  PROVE  FetchedInv'
<1>1. stripe \in Subscriptions /\ stripe.version \in Nat /\ stripe'.version \in Nat
      /\ Paid(stripe) \in granted
  BY DEF StripeInv, Moves, Subscriptions
<1>2. ASSUME fetched' = fetched PROVE FetchedInv'
  <2>1. \A t \in Threads : fetched[t] # None =>
          fetched[t].sub.version <= stripe.version /\ fetched[t].sub.version \in Nat
    BY DEF FetchedInv, Subscriptions
  <2>2. \A t \in Threads : fetched[t] # None => fetched[t].sub.version <= stripe'.version
    BY <1>1, <2>1 DEF Moves
  <2> QED
    BY <1>2, <2>2 DEF FetchedInv, Moves
<1>3. ASSUME NEW t \in Threads, NEW job, Fetch(t, job) PROVE FetchedInv'
  <2>1. /\ stripe' = stripe /\ granted' = granted
        /\ fetched' = [fetched EXCEPT ![t] = [sub |-> stripe, job |-> job]]
    BY <1>3 DEF Fetch
  <2>2. fetched'[t].sub = stripe /\ \A s \in Threads \ {t} : fetched'[s] = fetched[s]
    BY <2>1 DEF FetchedInv
  <2> QED
    BY <1>1, <2>1, <2>2 DEF FetchedInv
<1>4. ASSUME NEW t \in Threads, Reconcile(t) \/ Give(t) PROVE FetchedInv'
  <2>1. stripe' = stripe /\ granted' = granted /\ fetched' = [fetched EXCEPT ![t] = None]
    BY <1>4 DEF Reconcile, Give
  <2> QED
    BY <2>1 DEF FetchedInv
<1>5. ASSUME NEW k \in Keys, \/ Lock(k) \/ ReadSubscription(k) \/ Release(k) \/ Update(k)
                             \/ CreateSchedule(k) \/ UpdateSchedule(k) \/ Commit(k) \/ Fail(k)
      PROVE  fetched' = fetched
  BY <1>5 DEF Lock, ReadSubscription, Release, Update, CreateSchedule, UpdateSchedule, Commit, Fail
<1>6. ASSUME (\E v \in 1 .. stripe.version : Webhook(v)) \/ (\E r \in Resources : SaveResource(r))
               \/ (\E k \in Keys : \E name : Forget(k, name)) \/ Stripe
      PROVE  fetched' = fetched
  BY <1>6 DEF Forget, Webhook, SaveResource, Stripe, PeriodEnds, InvoicePaid, UpdateExpires, StatusChanges,
     OfItself
<1> QED
  BY <1>2, <1>3, <1>4, <1>5, <1>6, Steps

\* The row is written by a commit, which leaves its selection alone, and by a reconciliation.
LEMMA RowStays ==
  ASSUME RowInv, StripeInv, Moves, row' = row, active' \subseteq Resources
  PROVE  RowInv'
<1>1. row.version \in Nat /\ stripe.version \in Nat /\ stripe'.version \in Nat
  BY DEF RowInv, StripeInv, Moves, Subscriptions
<1> QED
  BY <1>1 DEF RowInv, Moves

LEMMA CommitRow ==
  ASSUME BillingAssumption, RowInv, CallsInv, StripeInv, Moves, NEW k \in Keys, Commit(k)
  PROVE  RowInv'
<1> DEFINE s == ScheduledChange(k)
<1>1. row' = [row EXCEPT !.scheduled = s] /\ active' = active
  BY DEF Commit, UpdateSubscription
<1>2. s \in Scheduled \union {None}
  BY WantType DEF ScheduledChange, Scheduled, RowInv
<1> HIDE DEF s
<1>3. /\ row' \in [tier: {"free", "essential", "business"}, modules: SUBSET Modules,
                   subscribed: BOOLEAN, scheduled: Scheduled \union {None}, version: Nat]
      /\ row'.tier = row.tier /\ row'.modules = row.modules /\ row'.version = row.version
  BY <1>1, <1>2 DEF RowInv
<1>4. row.version \in Nat /\ stripe.version \in Nat /\ stripe'.version \in Nat
  BY DEF RowInv, StripeInv, Moves, Subscriptions
<1> QED
  BY <1>1, <1>3, <1>4 DEF RowInv, Moves

LEMMA ReconcileRow ==
  ASSUME BillingAssumption, RowInv, FetchedInv, NEW t \in Threads, Reconcile(t)
  PROVE  RowInv'
<1> DEFINE sub == fetched[t].sub
<1>1. /\ sub \in Subscriptions /\ sub.version <= stripe.version /\ sub.version \in Nat
      /\ Paid(sub) \in granted
  BY DEF Reconcile, FetchedInv, Subscriptions
<1>2. row' = Reconciled(sub) /\ active' = Retained(sub) /\ stripe' = stripe /\ granted' = granted
  BY DEF Reconcile, UpdateSubscription
<1> HIDE DEF sub
<1>3. /\ Paid(sub) \in Selections /\ Paid(sub).tier \in {"free", "essential", "business"}
      /\ Paid(sub).modules \in SUBSET Modules
      /\ Paid(sub) = [tier |-> Paid(sub).tier, modules |-> Paid(sub).modules]
  BY <1>1, PaidType
<1>4. /\ row'.tier = Paid(sub).tier /\ row'.modules = Paid(sub).modules
      /\ row'.version = sub.version
      /\ row' \in [tier: {"free", "essential", "business"}, modules: SUBSET Modules,
                   subscribed: BOOLEAN, scheduled: Scheduled \union {None}, version: Nat]
  BY <1>1, <1>2, <1>3 DEF Reconciled, RowInv
<1>5. active' \subseteq Resources
  BY <1>2 DEF Retained, DeactivateExtraAppointmentResources, RowInv
<1> QED
  BY <1>1, <1>2, <1>3, <1>4, <1>5 DEF RowInv

LEMMA RowKeeps ==
  ASSUME BillingAssumption, StripeInv, FetchedInv, RowInv, CallsInv, Moves, Next
  PROVE  RowInv'
<1>1. ASSUME NEW k \in Keys, \/ Lock(k) \/ ReadSubscription(k) \/ Release(k) \/ Update(k)
                             \/ CreateSchedule(k) \/ UpdateSchedule(k) \/ Fail(k)
      PROVE  row' = row /\ active' = active
  BY <1>1 DEF Lock, ReadSubscription, Release, Update, CreateSchedule, UpdateSchedule, Fail
<1>2. ASSUME (\E t \in Threads : \E job : Fetch(t, job)) \/ (\E t \in Threads : Give(t))
               \/ (\E v \in 1 .. stripe.version : Webhook(v)) \/ Stripe
               \/ (\E k \in Keys : \E name : Forget(k, name))
      PROVE  row' = row /\ active' = active
  BY <1>2 DEF Forget, Fetch, Give, Webhook, Stripe, PeriodEnds, InvoicePaid, UpdateExpires, StatusChanges,
     OfItself
<1>3. ASSUME NEW r \in Resources, SaveResource(r) PROVE row' = row /\ active' \subseteq Resources
  BY <1>3 DEF SaveResource, RowInv
<1>4. active \subseteq Resources
  BY DEF RowInv
<1> QED
  BY <1>1, <1>2, <1>3, <1>4, RowStays, CommitRow, ReconcileRow, Steps

-----------------------------------------------------------------------------
(* Requests and the lock *)

Call == [at: Locked \union {"idle", "refresh"}, tries: Nat, schedule: BOOLEAN, items: Nat,
         timing: Timings]

\* The request k is now c; the lock is held by it, or by none when it was.
LEMMA CallMoves ==
  ASSUME CallsInv, NEW k \in Keys, NEW c \in Call, call' = [call EXCEPT ![k] = c],
         UNCHANGED <<want, fetched>>, saved' \in [Keys -> Timings],
         \/ holder = None /\ holder' = k /\ c.at \in Locked
         \/ holder = k /\ holder' = k /\ c.at \in Locked
         \/ holder = k /\ holder' = None /\ c.at \notin Locked,
         c.at # "refresh" => fetched[k] = None,
         None \notin Keys
  PROVE  CallsInv'
<1>1. /\ DOMAIN call' = Keys /\ call'[k] = c /\ \A j \in Keys \ {k} : call'[j] = call[j]
      /\ call' \in [Keys -> Call]
  BY DEF CallsInv, Call
<1>2. holder' \in Keys \union {None}
  OBVIOUS
<1>3. \A j \in Keys : call'[j].at \in Locked <=> holder' = j
  BY <1>1 DEF CallsInv
<1>4. \A j \in Keys : fetched'[j] # None => call'[j].at = "refresh"
  BY <1>1 DEF CallsInv
<1> QED
  BY <1>1, <1>2, <1>3, <1>4 DEF CallsInv, Call

LEMMA CallsStay ==
  ASSUME CallsInv, UNCHANGED <<want, saved, holder, call>>,
         \A k \in Keys : fetched'[k] # None => call[k].at = "refresh"
  PROVE  CallsInv'
  BY DEF CallsInv

\* A request that holds the lock has read nothing for a reconciliation.
LEMMA HolderType ==
  ASSUME CallsInv, NEW k \in Keys
  PROVE  /\ call[k] \in Call /\ call = [j \in Keys |-> call[j]]
         /\ holder = k => call[k].at \in Locked /\ call[k].at # "refresh" /\ fetched[k] = None
  BY DEF CallsInv, Call, Locked

LEMMA GoesMoves ==
  ASSUME BillingAssumption, CallsInv, NEW k \in Keys, holder = k,
         NEW place \in Locked \union {"idle", "refresh"},
         NEW c, c = [call[k] EXCEPT !.at = place], call' = [call EXCEPT ![k] = c],
         UNCHANGED <<want, fetched>>, saved' \in [Keys -> Timings],
         IF place \in Locked THEN holder' = k ELSE holder' = None
  PROVE  CallsInv'
<1>1. c \in Call /\ c.at = place
  BY HolderType DEF Call
<1>2. None \notin Keys
  BY DEF BillingAssumption
<1> QED
  BY <1>1, <1>2, HolderType, CallMoves

LEMMA ItemsType ==
  ASSUME BillingAssumption, StripeInv
  PROVE  Cardinality(stripe.selection.modules) \in Nat
<1>1. stripe.selection.modules \in SUBSET Modules
  BY PlanType DEF StripeInv, Subscriptions
<1>2. IsFiniteSet(Modules)
  <2>1. Modules = ({} \union {"appointments"}) \union {"preorders"}
    BY DEF Modules
  <2> QED
    BY <2>1, FS_EmptySet, FS_AddElement
<1> QED
  BY <1>1, <1>2, FS_Subset, FS_CardinalityType

LEMMA RequestKeepsCalls ==
  ASSUME BillingAssumption, StripeInv, CallsInv, NEW k \in Keys,
         \/ Lock(k) \/ ReadSubscription(k) \/ Release(k) \/ Update(k)
         \/ CreateSchedule(k) \/ UpdateSchedule(k) \/ Commit(k) \/ Fail(k)
  PROVE  CallsInv'
<1>1. /\ saved \in [Keys -> Timings] /\ DOMAIN call = Keys /\ call[k] \in Call
      /\ None \notin Keys
  BY DEF CallsInv, Call, BillingAssumption
<1>2. CASE Lock(k)
  <2> DEFINE n == call[k].tries + 1
             c == [[Idle EXCEPT !.at = "locked"] EXCEPT !.tries = n]
  <2>1. call' = [call EXCEPT ![k] = c]
    BY <1>2 DEF Lock
  <2>2. c \in Call /\ c.at = "locked"
    <3>1. n \in Nat
      BY <1>1 DEF Call
    <3>2. Idle \in Call
      BY DEF Idle, Call, Locked, Timings
    <3> HIDE DEF n
    <3> QED
      BY <3>1, <3>2 DEF Call, Locked
  <2>3. c.at \in Locked /\ c.at # "refresh"
    BY <2>2 DEF Locked
  <2>4. fetched[k] = None
    BY <1>2 DEF CallsInv, Lock
  <2> HIDE DEF c
  <2> QED
    BY <1>1, <1>2, <2>1, <2>2, <2>3, <2>4, CallMoves DEF Lock, LockSubscription
<1>3. CASE ReadSubscription(k)
  <2> DEFINE n == Cardinality(stripe.selection.modules)
             b == stripe.schedule # None
             c == [[[call[k] EXCEPT !.at = "read"] EXCEPT !.schedule = b] EXCEPT !.items = n]
  <2>1. call' = [call EXCEPT ![k] = c]
    BY <1>1, <1>3 DEF ReadSubscription
  <2>2. c \in Call /\ c.at = "read"
    <3>1. n \in Nat /\ b \in BOOLEAN
      BY ItemsType
    <3> HIDE DEF n, b
    <3> QED
      BY <1>1, <3>1 DEF Call, Locked
  <2>3. holder = k /\ holder' = k /\ UNCHANGED <<want, saved, fetched>>
    BY <1>3 DEF ReadSubscription, Holds
  <2>4. "read" \in Locked
    BY DEF Locked
  <2> HIDE DEF c
  <2> QED
    BY <1>1, <2>1, <2>2, <2>3, <2>4, HolderType, CallMoves
<1>4. ASSUME NEW place \in Locked \union {"idle", "refresh"}, Goes(k, place)
      PROVE  call' = [call EXCEPT ![k] = [call[k] EXCEPT !.at = place]]
  BY <1>1, <1>4 DEF Goes
<1>5. CASE Release(k)
  <2>1. "released" \in Locked
    BY DEF Locked
  <2> QED
    BY <1>1, <1>4, <1>5, <2>1, GoesMoves DEF Release, Holds
<1>6. CASE CreateSchedule(k)
  <2>1. "scheduled" \in Locked
    BY DEF Locked
  <2> QED
    BY <1>1, <1>4, <1>6, <2>1, GoesMoves DEF CreateSchedule, Holds
<1>7. ASSUME NEW timing \in Timings, Finishes(k, timing), holder = k,
             UNCHANGED <<want, fetched, saved, holder>>
      PROVE  CallsInv'
  <2> DEFINE c == [[call[k] EXCEPT !.at = "done"] EXCEPT !.timing = timing]
  <2>1. call' = [call EXCEPT ![k] = c]
    BY <1>1, <1>7 DEF Finishes
  <2>2. c \in Call /\ c.at = "done" /\ "done" \in Locked
    BY <1>1 DEF Call, Locked
  <2> HIDE DEF c
  <2> QED
    BY <1>1, <1>7, <2>1, <2>2, HolderType, CallMoves
<1>8. {"immediate", "pending", "period_end"} \subseteq Timings
  BY DEF Timings
<1>9. CASE Update(k)
  BY <1>7, <1>8, <1>9 DEF Update, MayUpdate, Updated, Holds
<1>10. CASE UpdateSchedule(k)
  BY <1>7, <1>8, <1>10 DEF UpdateSchedule, Holds
<1>11. CASE Commit(k)
  <2>1. saved' \in [Keys -> Timings]
    BY <1>1, <1>11 DEF Commit, SaveBillingOperation, Call
  <2>2. PICK place \in {"idle", "refresh"} : Goes(k, place)
    BY <1>11 DEF Commit
  <2>3. place \notin Locked
    BY DEF Locked
  <2> QED
    BY <1>4, <1>11, <2>1, <2>2, <2>3, GoesMoves DEF Commit, Holds
<1>12. CASE Fail(k)
  <2>1. "idle" \notin Locked
    BY DEF Locked
  <2> QED
    BY <1>1, <1>4, <1>12, <2>1, GoesMoves DEF Fail
<1> QED
  BY <1>2, <1>3, <1>5, <1>6, <1>9, <1>10, <1>11, <1>12

\* The request that reads for its own reconciliation, and its end.
LEMMA RefreshKeepsCalls ==
  ASSUME CallsInv, FetchedInv, NEW t \in Threads, Reconcile(t) \/ Give(t)
  PROVE  CallsInv'
<1>1. /\ UNCHANGED <<want, saved, holder>> /\ fetched' = [fetched EXCEPT ![t] = None]
      /\ fetched[t] # None
      /\ call' = IF t \in Keys THEN [call EXCEPT ![t].at = "idle"] ELSE call
  BY DEF Reconcile, Give
<1>2. fetched'[t] = None /\ \A s \in Threads \ {t} : fetched'[s] = fetched[s]
  BY <1>1 DEF FetchedInv
<1>3. \A k \in Keys : k \in Threads
  BY DEF Threads
<1>4. CASE t \notin Keys
  BY <1>1, <1>2, <1>3, <1>4, CallsStay DEF CallsInv
<1>5. CASE t \in Keys
  <2>1. call[t].at = "refresh" /\ call[t] \in Call /\ DOMAIN call = Keys
    BY <1>1, <1>5 DEF CallsInv, Call
  <2>2. call[t].at \notin Locked /\ "idle" \notin Locked
    BY <2>1 DEF Locked
  <2>3. holder # t
    BY <1>5, <2>2 DEF CallsInv
  <2> DEFINE c == [call[t] EXCEPT !.at = "idle"]
  <2>4. c \in Call /\ c.at = "idle"
    BY <2>1 DEF Call
  <2>5. call' = [call EXCEPT ![t] = c]
    BY <1>1, <1>5
  <2> HIDE DEF c
  <2>6. call'[t] = c /\ (\A k \in Keys \ {t} : call'[k] = call[k]) /\ call' \in [Keys -> Call]
    BY <1>5, <2>1, <2>4, <2>5 DEF CallsInv, Call
  <2>7. \A k \in Keys : call'[k].at \in Locked <=> holder' = k
    BY <1>1, <2>2, <2>3, <2>4, <2>6 DEF CallsInv
  <2>8. \A k \in Keys : fetched'[k] # None => call'[k].at = "refresh"
    BY <1>2, <1>3, <2>6 DEF CallsInv
  <2> QED
    BY <1>1, <2>6, <2>7, <2>8 DEF CallsInv, Call
<1> QED
  BY <1>4, <1>5

LEMMA CallsKeep ==
  ASSUME BillingAssumption, StripeInv, FetchedInv, CallsInv, Next
  PROVE  CallsInv'
<1>1. ASSUME NEW t \in Threads, NEW job, Fetch(t, job), t \in Keys => call[t].at = "refresh"
      PROVE  CallsInv'
  <2>1. /\ UNCHANGED <<want, saved, holder, call>>
        /\ \A s \in Threads \ {t} : fetched'[s] = fetched[s]
    BY <1>1 DEF Fetch, FetchedInv, owner
  <2>2. \A k \in Keys : k \in Threads
    BY DEF Threads
  <2> QED
    BY <1>1, <2>1, <2>2, CallsStay DEF CallsInv
<1>2. ASSUME (\E v \in 1 .. stripe.version : Webhook(v)) \/ (\E r \in Resources : SaveResource(r))
               \/ (\E k \in Keys : \E name : Forget(k, name)) \/ Stripe
      PROVE  UNCHANGED <<want, saved, holder, call, fetched>>
  BY <1>2 DEF Forget, Webhook, SaveResource, Stripe, PeriodEnds, InvoicePaid, UpdateExpires, StatusChanges,
     OfItself, owner
<1>3. ASSUME UNCHANGED <<want, saved, holder, call, fetched>> PROVE CallsInv'
  BY <1>3, CallsStay DEF CallsInv
<1> QED
  BY <1>1, <1>2, <1>3, RequestKeepsCalls, RefreshKeepsCalls, Steps

-----------------------------------------------------------------------------
(* Changes made, and their answers *)

LEMMA EffectsStay ==
  ASSUME EffectsInv, effects' = effects,
         \A j \in Keys : /\ <<j, "change">> \in DOMAIN used' <=> <<j, "change">> \in DOMAIN used
                         /\ <<j, "update">> \in DOMAIN used' <=> <<j, "update">> \in DOMAIN used,
         \A j \in Keys : saved'[j] # None \/ call'[j].at = "done" => \E kind \in Kinds : Has(j, kind)
  PROVE  EffectsInv'
  BY DEF EffectsInv, Has

\* The counts of one key are now r.
LEMMA CountsOf ==
  ASSUME EffectsInv, NEW k \in Keys, NEW r \in [Kinds -> 0 .. 1],
         effects' = [effects EXCEPT ![k] = r]
  PROVE  /\ effects' \in [Keys -> [Kinds -> 0 .. 1]]
         /\ \A j \in Keys \ {k} : \A x : Has(j, x)' <=> Has(j, x)
         /\ \A x : Has(k, x)' <=> r[x] = 1
<1>1. /\ effects'[k] = r /\ (\A j \in Keys \ {k} : effects'[j] = effects[j])
      /\ effects' \in [Keys -> [Kinds -> 0 .. 1]]
  BY DEF EffectsInv
<1> QED
  BY <1>1 DEF Has

\* A change that is made is the first of its kind for the key.
LEMMA EffectsGrow ==
  ASSUME EffectsInv, NEW k \in Keys, NEW kind \in Kinds, ~ Has(k, kind), Made(k, kind),
         NEW parameters, used' = Put(used, <<k, Named[kind]>>, parameters),
         saved' = saved, \A j \in Keys \ {k} : call'[j] = call[j]
  PROVE  EffectsInv'
<1> DEFINE s == effects[k]
           r == [s EXCEPT ![kind] = @ + 1]
<1>1. s \in [Kinds -> 0 .. 1] /\ s[kind] = 0
  BY DEF EffectsInv, Has
<1>2. effects' = [effects EXCEPT ![k] = r]
  BY DEF Made, EffectsInv
<1> HIDE DEF s
<1>3. r \in [Kinds -> 0 .. 1] /\ r[kind] = 1 /\ \A x \in Kinds \ {kind} : r[x] = s[x]
  BY <1>1
<1> HIDE DEF r
<1>4. /\ effects' \in [Keys -> [Kinds -> 0 .. 1]]
      /\ \A j \in Keys \ {k} : \A x : Has(j, x)' <=> Has(j, x)
      /\ \A x : Has(k, x)' <=> r[x] = 1
  BY <1>2, <1>3, CountsOf
<1>5. \A x \in Kinds : Has(k, x)' <=> Has(k, x) \/ x = kind
  BY <1>3, <1>4 DEF Has, s
<1>6. DOMAIN used' = DOMAIN used \union {<<k, Named[kind]>>}
  BY DEF Put
<1>7. "update" \in Kinds /\ "schedule" \in Kinds /\ Named["update"] = "change"
      /\ Named["schedule"] = "update" /\ kind \in {"update", "schedule"}
  BY DEF Kinds, Named
<1>8. \A j \in Keys : /\ <<j, "change">> \in DOMAIN used' <=> Has(j, "update")'
                      /\ <<j, "update">> \in DOMAIN used' <=> Has(j, "schedule")'
  <2>1. /\ <<k, "change">> \in DOMAIN used' <=> Has(k, "update")'
        /\ <<k, "update">> \in DOMAIN used' <=> Has(k, "schedule")'
    BY <1>5, <1>6, <1>7 DEF EffectsInv
  <2>2. ASSUME NEW j \in Keys \ {k}
        PROVE  /\ <<j, "change">> \in DOMAIN used' <=> Has(j, "update")'
               /\ <<j, "update">> \in DOMAIN used' <=> Has(j, "schedule")'
    BY <1>4, <1>6, <2>2 DEF EffectsInv
  <2> QED
    BY <2>1, <2>2
<1>9. \A j \in Keys : saved'[j] # None \/ call'[j].at = "done" => \E x \in Kinds : Has(j, x)'
  BY <1>4, <1>5 DEF EffectsInv
<1> QED
  BY <1>4, <1>8, <1>9 DEF EffectsInv, Has

\* A key that is forgotten can be used again, by a request that has not been answered.
LEMMA ForgetKeepsEffects ==
  ASSUME BillingAssumption, EffectsInv, NEW k \in Keys, NEW name, Forget(k, name)
  PROVE  EffectsInv'
<1> DEFINE s == effects[k]
           r == [kind \in Kinds |-> IF Named[kind] = name THEN 0 ELSE s[kind]]
<1>1. s \in [Kinds -> 0 .. 1]
  BY DEF EffectsInv
<1>2. effects' = [effects EXCEPT ![k] = r] /\ DOMAIN used' = DOMAIN used \ {<<k, name>>}
      /\ saved' = saved /\ call' = call /\ saved[k] = None /\ call[k].at # "done"
  BY DEF Forget, EffectsInv
<1> HIDE DEF s
<1>3. r \in [Kinds -> 0 .. 1] /\ \A x \in Kinds : r[x] = 1 <=> Named[x] # name /\ s[x] = 1
  BY <1>1
<1> HIDE DEF r
<1>4. /\ effects' \in [Keys -> [Kinds -> 0 .. 1]]
      /\ \A j \in Keys \ {k} : \A x : Has(j, x)' <=> Has(j, x)
      /\ \A x : Has(k, x)' <=> r[x] = 1
  BY <1>2, <1>3, CountsOf
<1>5. \A x \in Kinds : Has(k, x)' <=> Has(k, x) /\ Named[x] # name
  BY <1>3, <1>4 DEF Has, s
<1>6. "update" \in Kinds /\ "schedule" \in Kinds /\ Named["update"] = "change"
      /\ Named["schedule"] = "update"
  BY DEF Kinds, Named
<1>7. ASSUME NEW j \in Keys
      PROVE  /\ <<j, "change">> \in DOMAIN used' <=> Has(j, "update")'
             /\ <<j, "update">> \in DOMAIN used' <=> Has(j, "schedule")'
  <2>1. CASE j = k
    BY <1>2, <1>5, <1>6, <2>1 DEF EffectsInv
  <2>2. CASE j # k
    BY <1>2, <1>4, <2>2 DEF EffectsInv
  <2> QED
    BY <2>1, <2>2
<1>8. \A j \in Keys : saved'[j] # None \/ call'[j].at = "done" => \E x \in Kinds : Has(j, x)'
  BY <1>2, <1>4 DEF EffectsInv
<1> QED
  BY <1>4, <1>7, <1>8 DEF EffectsInv, Has

LEMMA Answered ==
  ASSUME EffectsInv, CallsInv, NEW k \in Keys, NEW place,
         \/ Goes(k, place)
         \/ \E timing : Finishes(k, timing) /\ place = "done"
  PROVE  call'[k].at = place /\ \A j \in Keys \ {k} : call'[j] = call[j]
<1>1. DOMAIN call = Keys /\ call[k] \in Call
  BY DEF CallsInv, Call
<1> QED
  BY <1>1 DEF Goes, Finishes, Call

LEMMA RequestKeepsEffects ==
  ASSUME EffectsInv, CallsInv, NEW k \in Keys,
         \/ Lock(k) \/ ReadSubscription(k) \/ Release(k) \/ Update(k)
         \/ CreateSchedule(k) \/ UpdateSchedule(k) \/ Commit(k) \/ Fail(k)
  PROVE  EffectsInv'
<1>1. DOMAIN call = Keys /\ call[k] \in Call /\ DOMAIN saved = Keys
  BY DEF CallsInv, Call
<1>2. ASSUME saved' = saved, effects' = effects, call'[k].at # "done" \/ \E kind \in Kinds : Has(k, kind),
             \A j \in Keys \ {k} : call'[j] = call[j]
      PROVE  \A j \in Keys : saved'[j] # None \/ call'[j].at = "done" => \E kind \in Kinds : Has(j, kind)
  BY <1>2 DEF EffectsInv
<1>3. CASE Lock(k)
  <2>1. call'[k].at = "locked" /\ \A j \in Keys \ {k} : call'[j] = call[j]
    <3> DEFINE c == [[Idle EXCEPT !.at = "locked"] EXCEPT !.tries = call[k].tries + 1]
    <3>1. call' = [call EXCEPT ![k] = c]
      BY <1>3 DEF Lock
    <3>2. c.at = "locked"
      BY DEF Idle
    <3> HIDE DEF c
    <3> QED
      BY <1>1, <3>1, <3>2
  <2> QED
    BY <1>2, <1>3, <2>1, EffectsStay DEF Lock
<1>4. CASE ReadSubscription(k)
  <2>1. call'[k].at = "read" /\ \A j \in Keys \ {k} : call'[j] = call[j]
    BY <1>1, <1>4 DEF ReadSubscription, Call
  <2> QED
    BY <1>2, <1>4, <2>1, EffectsStay DEF ReadSubscription
<1>5. ASSUME NEW name \in {"release", "schedule"}, NEW place, place # "done", Goes(k, place),
             used' = Put(used, <<k, name>>, {}), saved' = saved, effects' = effects
      PROVE  EffectsInv'
  <2>1. call'[k].at = place /\ \A j \in Keys \ {k} : call'[j] = call[j]
    BY <1>5, Answered
  <2>2. \A j \in Keys : /\ <<j, "change">> \in DOMAIN used' <=> <<j, "change">> \in DOMAIN used
                        /\ <<j, "update">> \in DOMAIN used' <=> <<j, "update">> \in DOMAIN used
    BY <1>5 DEF Put
  <2> QED
    BY <1>2, <1>5, <2>1, <2>2, EffectsStay
<1>6. CASE Release(k)
  BY <1>5, <1>6 DEF Release
<1>7. CASE CreateSchedule(k)
  BY <1>5, <1>7 DEF CreateSchedule
<1>8. ASSUME NEW kind \in Kinds, Has(k, kind), \E timing : Finishes(k, timing),
             UNCHANGED <<used, effects, saved>>
      PROVE  EffectsInv'
  <2>1. \A j \in Keys \ {k} : call'[j] = call[j]
    BY <1>8, Answered
  <2> QED
    BY <1>2, <1>8, <2>1, EffectsStay
<1>9. CASE Update(k)
  <2>1. Repeated(<<k, "change">>) <=> Has(k, "update")
    BY DEF EffectsInv, Repeated
  <2>2. CASE Repeated(<<k, "change">>)
    <3>1. (\E timing : Finishes(k, timing)) /\ UNCHANGED <<used, effects, saved>>
      BY <1>9, <2>2 DEF Update
    <3> QED
      BY <1>8, <2>1, <2>2, <3>1 DEF Kinds
  <2>3. CASE ~ Repeated(<<k, "change">>)
    <3>1. /\ used' = Put(used, <<k, "change">>, UpdateParameters(k)) /\ saved' = saved
          /\ Made(k, "update")
          /\ \E timing : Finishes(k, timing)
      BY <1>9, <2>3 DEF Update, Updated
    <3>2. \A j \in Keys \ {k} : call'[j] = call[j]
      BY <3>1, Answered
    <3>3. "update" \in Kinds /\ Named["update"] = "change"
      BY DEF Kinds, Named
    <3> QED
      BY <2>1, <2>3, <3>1, <3>2, <3>3, EffectsGrow
  <2> QED
    BY <2>2, <2>3
<1>10. CASE UpdateSchedule(k)
  <2>1. Repeated(<<k, "update">>) <=> Has(k, "schedule")
    BY DEF EffectsInv, Repeated
  <2>2. (\E timing : Finishes(k, timing)) /\ saved' = saved
    BY <1>10 DEF UpdateSchedule
  <2>3. CASE Repeated(<<k, "update">>)
    <3>1. UNCHANGED <<used, effects>>
      BY <1>10, <2>3 DEF UpdateSchedule
    <3> QED
      BY <1>8, <2>1, <2>2, <2>3, <3>1 DEF Kinds
  <2>4. CASE ~ Repeated(<<k, "update">>)
    <3>1. /\ used' = Put(used, <<k, "update">>, call[k].items)
          /\ Made(k, "schedule")
      BY <1>10, <2>4 DEF UpdateSchedule
    <3>2. \A j \in Keys \ {k} : call'[j] = call[j]
      BY <2>2, Answered
    <3>3. "schedule" \in Kinds /\ Named["schedule"] = "update"
      BY DEF Kinds, Named
    <3> QED
      BY <2>1, <2>2, <2>4, <3>1, <3>2, <3>3, EffectsGrow
  <2> QED
    BY <2>3, <2>4
<1>11. CASE Commit(k)
  <2>1. \E kind \in Kinds : Has(k, kind)
    BY <1>11 DEF Commit, Holds, EffectsInv
  <2>2. PICK place \in {"idle", "refresh"} : Goes(k, place)
    BY <1>11 DEF Commit
  <2>3. call'[k].at = place /\ \A j \in Keys \ {k} : call'[j] = call[j]
    BY <2>2, Answered
  <2>4. \A j \in Keys \ {k} : saved'[j] = saved[j]
    BY <1>1, <1>11 DEF Commit, SaveBillingOperation
  <2>5. \A j \in Keys : saved'[j] # None \/ call'[j].at = "done" => \E kind \in Kinds : Has(j, kind)
    BY <2>1, <2>3, <2>4 DEF EffectsInv
  <2> QED
    BY <1>11, <2>5, EffectsStay DEF Commit
<1>12. CASE Fail(k)
  <2>1. call'[k].at = "idle" /\ \A j \in Keys \ {k} : call'[j] = call[j]
    BY <1>12, Answered DEF Fail
  <2> QED
    BY <1>2, <1>12, <2>1, EffectsStay DEF Fail
<1> QED
  BY <1>3, <1>4, <1>6, <1>7, <1>9, <1>10, <1>11, <1>12

LEMMA EffectsKeep ==
  ASSUME BillingAssumption, CallsInv, EffectsInv, Next
  PROVE  EffectsInv'
<1>1. ASSUME UNCHANGED <<used, effects, saved>>,
             \A j \in Keys : call'[j].at = "done" => call[j].at = "done"
      PROVE  EffectsInv'
  BY <1>1, EffectsStay DEF EffectsInv
<1>2. ASSUME NEW t \in Threads, Reconcile(t) \/ Give(t) PROVE EffectsInv'
  <2>1. call' = (IF t \in Keys THEN [call EXCEPT ![t].at = "idle"] ELSE call)
    BY <1>2 DEF Reconcile, Give
  <2>2. \A j \in Keys : call[j] \in Call /\ j \in DOMAIN call
    BY DEF CallsInv, Call
  <2>3. \A j \in Keys : call'[j].at = "done" => call[j].at = "done"
    BY <2>1, <2>2 DEF Call
  <2> QED
    BY <1>1, <1>2, <2>3 DEF Reconcile, Give
<1>3. ASSUME \/ \E t \in Threads : \E job : Fetch(t, job)
             \/ \E v \in 1 .. stripe.version : Webhook(v)
             \/ \E r \in Resources : SaveResource(r)
             \/ Stripe
      PROVE  UNCHANGED <<used, effects, saved, call>>
  BY <1>3 DEF Fetch, Webhook, SaveResource, Stripe, PeriodEnds, InvoicePaid, UpdateExpires,
     StatusChanges, OfItself, owner
<1> QED
  BY <1>1, <1>2, <1>3, RequestKeepsEffects, ForgetKeepsEffects, Steps

-----------------------------------------------------------------------------
(* Events, and the invariant *)

\* A reconciliation marks every pending event, and takes away one job.
LEMMA EventsKeep ==
  ASSUME StripeInv, Moves, EventsInv, Next, BillingAssumption
  PROVE  EventsInv'
<1>1. stripe.version \in Nat /\ stripe'.version \in Nat /\ stripe.version <= stripe'.version
  BY DEF StripeInv, Moves, Subscriptions
<1>2. 1 .. stripe.version \subseteq 1 .. stripe'.version
  BY <1>1
<1>3. ASSUME UNCHANGED queue PROVE EventsInv'
  BY <1>2, <1>3 DEF queue, EventsInv
<1>4. ASSUME NEW v \in 1 .. stripe.version, Webhook(v) PROVE EventsInv'
  BY <1>4 DEF Webhook, SaveBillingEvent, EventsInv
<1>5. ASSUME NEW t \in Threads, Reconcile(t) PROVE EventsInv'
  BY <1>5 DEF Reconcile, ProcessBillingEvents, EventsInv
<1>6. ASSUME NEW k \in Keys, \/ Lock(k) \/ ReadSubscription(k) \/ Release(k) \/ Update(k)
                             \/ CreateSchedule(k) \/ UpdateSchedule(k) \/ Commit(k) \/ Fail(k)
      PROVE  UNCHANGED queue
  BY <1>6 DEF Lock, ReadSubscription, Release, Update, CreateSchedule, UpdateSchedule, Commit, Fail
<1>7. ASSUME (\E t \in Threads : \E job : Fetch(t, job)) \/ (\E t \in Threads : Give(t))
               \/ (\E r \in Resources : SaveResource(r)) \/ Stripe
               \/ (\E k \in Keys : \E name : Forget(k, name))
      PROVE  UNCHANGED queue
  BY <1>7 DEF Forget, Fetch, Give, SaveResource, Stripe, PeriodEnds, InvoicePaid, UpdateExpires,
     StatusChanges, OfItself
<1> QED
  BY <1>3, <1>4, <1>5, <1>6, <1>7, Steps

LEMMA InitBilling ==
  ASSUME BillingAssumption, Init
  PROVE  BillingInv
<1>1. PICK s \in Plans :
        /\ stripe = [status |-> "active", selection |-> s, schedule |-> None,
                     update |-> None, version |-> 0]
        /\ row = [tier |-> s.tier, modules |-> s.modules, subscribed |-> TRUE,
                  scheduled |-> None, version |-> 0]
        /\ granted = {s} /\ active \in {a \in SUBSET Resources : Cardinality(a) <= Limit[s.tier]}
  BY DEF Init
<1>2. /\ s.tier \in {"free", "essential", "business"} /\ s.modules \in SUBSET Modules
      /\ s \in Selections /\ s = [tier |-> s.tier, modules |-> s.modules]
  BY PlanType
<1>3. StripeInv
  BY <1>1 DEF StripeInv, Subscriptions, Paid
<1>4. FetchedInv
  BY DEF Init, FetchedInv
<1>5. RowInv
  BY <1>1, <1>2 DEF RowInv
<1>6. CallsInv
  <2>1. Idle \in Call /\ Idle.at = "idle" /\ "idle" \notin Locked
    BY DEF Idle, Call, Locked, Timings
  <2>2. /\ call = [k \in Keys |-> Idle] /\ saved = [k \in Keys |-> None] /\ want \in [Keys -> Wants]
        /\ holder = None /\ fetched = [t \in Threads |-> None]
    BY DEF Init
  <2>3. None \notin Keys /\ (\A k \in Keys : k \in Threads) /\ None \in Timings
    BY DEF BillingAssumption, Threads, Timings
  <2> HIDE DEF Idle
  <2> QED
    BY <2>1, <2>2, <2>3 DEF CallsInv, Call
<1>7. EffectsInv
  <2>1. /\ call = [k \in Keys |-> Idle] /\ saved = [k \in Keys |-> None]
        /\ used = [x \in {} |-> {}] /\ effects = [k \in Keys |-> [kind \in Kinds |-> 0]]
    BY DEF Init
  <2>2. Idle.at # "done"
    BY DEF Idle
  <2>3. \A k \in Keys, kind \in Kinds : ~ Has(k, kind)
    BY <2>1 DEF Has
  <2>4. effects \in [Keys -> [Kinds -> 0 .. 1]]
    BY <2>1
  <2>5. DOMAIN used = {}
    BY <2>1
  <2> QED
    BY <2>1, <2>2, <2>3, <2>4, <2>5 DEF EffectsInv, Kinds
<1>8. EventsInv
  BY DEF Init, EventsInv
<1> QED
  BY <1>3, <1>4, <1>5, <1>6, <1>7, <1>8 DEF BillingInv

LEMMA NextBilling ==
  ASSUME BillingAssumption, BillingInv, [Next]_vars
  PROVE  BillingInv'
<1>1. CASE Next
  <2>1. Moves
    BY <1>1, NextMoves DEF BillingInv
  <2>2. StripeInv'
    BY <2>1 DEF Moves, StripeInv
  <2> QED
    BY <1>1, <2>1, <2>2, FetchedKeeps, RowKeeps, CallsKeep, EffectsKeep, EventsKeep DEF BillingInv
<1>2. CASE UNCHANGED vars
  <2>1. /\ StripeInv' /\ FetchedInv' /\ RowInv' /\ EventsInv'
    BY <1>2 DEF BillingInv, vars, queue, StripeInv, FetchedInv, RowInv, EventsInv
  <2>2. CallsInv' /\ EffectsInv'
    BY <1>2 DEF BillingInv, vars, owner, CallsInv, EffectsInv, Has
  <2> QED
    BY <2>1, <2>2 DEF BillingInv
<1> QED
  BY <1>1, <1>2

-----------------------------------------------------------------------------
(* The properties *)

\* Whatever Stripe does of itself, calls fail, answers are lost and requests are repeated,
\* what reads of the subscription and requests hold is what they were to hold.
THEOREM BillingInvariant ==
  ASSUME BillingAssumption
  PROVE  Spec => []BillingInv
<1>1. Init => BillingInv
  BY InitBilling
<1>2. BillingInv /\ [Next]_vars => BillingInv'
  BY NextBilling
<1> QED
  BY <1>1, <1>2, PTL DEF Spec

\* The row and the subscription have their types, and one request at most holds the lock.
THEOREM TypeCorrect ==
  ASSUME BillingAssumption
  PROVE  Spec => []TypeOK
<1>1. BillingInv => TypeOK
  <2> SUFFICES ASSUME BillingInv PROVE TypeOK
    OBVIOUS
  <2>1. row.version \in 0 .. stripe.version
    BY DEF BillingInv, RowInv, StripeInv, Subscriptions
  <2>2. pending \subseteq told /\ jobs \subseteq told /\ told \subseteq 1 .. stripe.version
    BY DEF BillingInv, EventsInv
  <2>3. /\ saved \in [Keys -> {"immediate", "pending", "period_end", None}]
        /\ holder \in Keys \union {None}
        /\ \A k \in Keys :
             call[k].at \in {"locked", "read", "released", "scheduled", "done"} <=> holder = k
    BY DEF BillingInv, CallsInv, Timings, Locked
  <2>4. /\ stripe.status \in {"active", "unpaid", "canceled"}
        /\ stripe.selection \in Plans /\ stripe.update \in Plans \union {None}
        /\ stripe.schedule \in Plans \union {None} /\ stripe.version \in Nat
        /\ stripe.status = "canceled" => stripe.schedule = None
    BY DEF BillingInv, StripeInv, Subscriptions
  <2>5. /\ [tier |-> row.tier, modules |-> row.modules] \in Plans \union {Free}
        /\ row.scheduled \in [to: Plans, retained: Resources \union {None}] \union {None}
        /\ active \subseteq Resources
    BY DEF BillingInv, RowInv, Selections, Scheduled
  <2> QED
    BY <2>1, <2>2, <2>3, <2>4, <2>5 DEF TypeOK
<1> QED
  BY <1>1, BillingInvariant, PTL

\* A payment that is missing, pending or lost never gives access: the row is written from
\* what a reconciliation has read, and that had been paid for when it was read.
THEOREM PaidForAccess ==
  ASSUME BillingAssumption
  PROVE  Spec => []AccessWasPaidFor
<1>1. BillingInv => AccessWasPaidFor
  BY DEF BillingInv, RowInv, AccessWasPaidFor
<1> QED
  BY <1>1, BillingInvariant, PTL

\* However often a request is repeated, Stripe updates the subscription once for its key,
\* and schedules a change once, as long as it has the key.
THEOREM OncePerKey ==
  ASSUME BillingAssumption
  PROVE  Spec => []UpdatedOncePerKey
<1>1. BillingInv => UpdatedOncePerKey
  BY DEF BillingInv, EffectsInv, UpdatedOncePerKey
<1> QED
  BY <1>1, BillingInvariant, PTL

\* Whatever is answered once and replayed for ever has been done at Stripe.
THEOREM DoneWhenAnswered ==
  ASSUME BillingAssumption
  PROVE  Spec => []AnsweredIsDone
<1>1. BillingInv => AnsweredIsDone
  BY DEF BillingInv, EffectsInv, Has, AnsweredIsDone
<1> QED
  BY <1>1, BillingInvariant, PTL

\* An event that a reconciliation has marked as processed without having seen it has its job.
THEOREM PendingEventsHaveJobs ==
  ASSUME BillingAssumption
  PROVE  Spec => []PendingHasJob
<1>1. BillingInv => PendingHasJob
  BY DEF BillingInv, EventsInv, PendingHasJob
<1> QED
  BY <1>1, BillingInvariant, PTL

\* What Billing promises of a change of plan, together.
THEOREM CarriedOut ==
  ASSUME BillingAssumption
  PROVE  Spec => []ChangesAreCarriedOut
<1>1. TypeOK /\ AnsweredIsDone /\ UpdatedOncePerKey /\ PendingHasJob => ChangesAreCarriedOut
  BY DEF ChangesAreCarriedOut
<1> QED
  BY <1>1, TypeCorrect, DoneWhenAnswered, OncePerKey, PendingEventsHaveJobs, PTL

-----------------------------------------------------------------------------
(* Slots: dates and midnights                                              *)

\* What SlotsAssumption says of the arguments of one call.
Arguments ==
  /\ DayLength \in Nat \ {0} /\ q \in Inputs /\ q.date \in Int /\ q.now \in Int /\ q.lead \in Int
  /\ q.at \in Int /\ q.base \in Int /\ q.shift \in -DayLength .. DayLength /\ q.horizon \in Nat
  /\ q.step \in Nat \ {0} /\ q.duration \in Nat \ {0} /\ q.buffer \in Nat
  /\ \A h \in q.hours : /\ h.day \in 0..6 /\ h.opens \in 0..(DayLength - 1)
                        /\ h.closes \in 0..(DayLength - 1) /\ h.opens # h.closes

LEMMA ArgumentsRight == ASSUME Offered!SlotsAssumption, q \in Inputs PROVE Arguments
BY DEF Offered!SlotsAssumption, Offered!Validate, Arguments

LEMMA Times == ASSUME NEW n \in Nat, NEW a \in Int, NEW b \in Int, a <= b PROVE a * n <= b * n
<1>1. (b - a) * n >= 0
  OBVIOUS
<1> QED
  BY <1>1

\* The date and the minute of an instant.
LEMMA ClockOf ==
  ASSUME Arguments, NEW i \in Int
  PROVE  /\ Offered!Local(i) \in Int /\ Offered!DateOf(i) \in Int
         /\ Offered!MinuteOf(i) \in 0 .. DayLength - 1
         /\ Offered!Local(i) = Offered!DateOf(i) * DayLength + Offered!MinuteOf(i)
         /\ \A d \in Int : d <= Offered!DateOf(i) <=> d * DayLength <= Offered!Local(i)
<1> DEFINE L == Offered!Local(i)
           D == Offered!DateOf(i)
           M == Offered!MinuteOf(i)
<1>1. L \in Int /\ DayLength \in Nat \ {0}
  BY DEF Arguments, Offered!Local, Offered!Offset
<1>2. D = L \div DayLength /\ M = L % DayLength
  BY DEF Offered!DateOf, Offered!MinuteOf
<1> HIDE DEF L, D, M
<1>3. D \in Int /\ M \in 0 .. DayLength - 1 /\ L = D * DayLength + M
  BY <1>1, <1>2
<1>4. ASSUME NEW d \in Int PROVE d <= D <=> d * DayLength <= L
  <2>1. d <= D => d * DayLength <= D * DayLength
    BY <1>1, <1>3, Times
  <2>2. D + 1 <= d => (D + 1) * DayLength <= d * DayLength
    BY <1>1, <1>3, Times
  <2>3. (D + 1) * DayLength = D * DayLength + DayLength /\ d * DayLength \in Int /\ D * DayLength \in Int
    BY <1>1, <1>3
  <2> QED
    BY <1>1, <1>3, <2>1, <2>2, <2>3
<1> QED
  BY <1>1, <1>3, <1>4 DEF L, D, M

MidnightExists(d) ==
  \E i \in Offered!Around(d) :
    Offered!IsMidnight(i, d) /\ \A j \in Offered!Around(d) : Offered!IsMidnight(j, d) => j = i

\* The loop's midnight of a date.
Midnight(d) == Offered!Date(d * DayLength)

\* A midnight that exists is found, on either side of UTC, and parts the dates.
LEMMA MidnightFound ==
  ASSUME Arguments, NEW d \in Int, MidnightExists(d)
  PROVE  /\ Midnight(d) \in Int /\ Midnight(d) \in Offered!Around(d)
         /\ Offered!Local(Midnight(d)) = d * DayLength
         /\ \A i \in Int : d <= Offered!DateOf(i) <=> Midnight(d) <= i
<1> DEFINE w == d * DayLength
<1>1. /\ w \in Int /\ DayLength \in Nat \ {0} /\ q.at \in Int /\ q.base \in Int
      /\ q.shift \in -DayLength .. DayLength
  BY DEF Arguments
<1>2. (d - 1) * DayLength = w - DayLength /\ (d + 1) * DayLength = w + DayLength
  BY <1>1
<1>3. /\ \A i \in Int : Offered!Local(i) = IF i < q.at THEN i ELSE i + q.shift
      /\ \A i \in Int : Offered!Offset(i) = IF i < q.at THEN 0 ELSE q.shift
  BY <1>1 DEF Offered!Local, Offered!Offset
<1> HIDE DEF w
<1>4. PICK m \in w - DayLength .. w + DayLength :
        /\ Offered!Local(m) = w
        /\ \A j \in w - DayLength .. w + DayLength : Offered!Local(j) = w => j = m
  BY <1>2 DEF MidnightExists, Offered!Around, Offered!IsMidnight, w
<1>5. m \in Int /\ w \in w - DayLength .. w + DayLength /\ w - q.shift \in w - DayLength .. w + DayLength
  BY <1>1
<1>6. w < q.at => m = w
  BY <1>1, <1>3, <1>4, <1>5
<1>7. w - q.shift >= q.at => m = w - q.shift
  BY <1>1, <1>3, <1>4, <1>5
<1>8. \/ m < q.at /\ m = w
      \/ m >= q.at /\ m = w - q.shift
  BY <1>1, <1>3, <1>4, <1>5
<1>9. Midnight(d) = m
  <2> DEFINE guess == w + q.base
             first == w - Offered!Offset(guess)
  <2>1. guess \in Int /\ first \in Int /\ first = IF guess < q.at THEN w ELSE w - q.shift
    BY <1>1, <1>3
  <2>2. Midnight(d) = IF (first < q.at) = (guess < q.at) THEN first ELSE w - Offered!Offset(first)
    BY DEF Midnight, Offered!Date, w
  <2> HIDE DEF guess, first
  <2>3. Offered!Offset(first) = IF first < q.at THEN 0 ELSE q.shift
    BY <1>3, <2>1
  <2>4. CASE guess < q.at
    BY <1>1, <1>5, <1>6, <1>7, <1>8, <2>1, <2>2, <2>3, <2>4
  <2>5. CASE ~ (guess < q.at)
    BY <1>1, <1>5, <1>6, <1>7, <1>8, <2>1, <2>2, <2>3, <2>5
  <2> QED
    BY <2>4, <2>5
<1>10. ASSUME NEW i \in Int PROVE d <= Offered!DateOf(i) <=> m <= i
  <2>1. d <= Offered!DateOf(i) <=> w <= Offered!Local(i)
    BY ClockOf DEF w
  <2>2. Offered!Local(i) = IF i < q.at THEN i ELSE i + q.shift
    BY <1>3
  <2>3. w <= Offered!Local(i) <=> m <= i
    BY <1>1, <1>5, <1>6, <1>7, <1>8, <2>2
  <2> QED
    BY <2>1, <2>3
<1> QED
  BY <1>2, <1>4, <1>5, <1>9, <1>10 DEF Offered!Around, w

\* So do the dates that are counted from one.
LEMMA DaysOn ==
  ASSUME Arguments, NEW d \in Int, MidnightExists(d), NEW n \in Int
  PROVE  Offered!AddDate(Midnight(d), n) = Midnight(d + n)
<1>1. Offered!Local(Midnight(d)) = d * DayLength
  BY MidnightFound
<1>2. d * DayLength + n * DayLength = (d + n) * DayLength
  BY DEF Arguments
<1> QED
  BY <1>1, <1>2 DEF Offered!AddDate, Midnight

LEMMA MidnightDate ==
  ASSUME Arguments, NEW d \in Int, MidnightExists(d)
  PROVE  Offered!DateOf(Midnight(d)) = d
<1>1. Midnight(d) \in Int /\ Offered!Local(Midnight(d)) = d * DayLength
  BY MidnightFound
<1>2. DayLength \in Nat \ {0} /\ d * DayLength \in Int
  BY DEF Arguments
<1>3. \A x \in Int : x <= Offered!DateOf(Midnight(d)) <=> x * DayLength <= d * DayLength
  BY <1>1, ClockOf
<1>4. (d + 1) * DayLength = d * DayLength + DayLength
  BY <1>2
<1>5. d <= Offered!DateOf(Midnight(d)) /\ ~ (d + 1 <= Offered!DateOf(Midnight(d)))
  BY <1>2, <1>3, <1>4
<1>6. Offered!DateOf(Midnight(d)) \in Int
  BY <1>1, ClockOf
<1> QED
  BY <1>5, <1>6

LEMMA MidnightsOrdered ==
  ASSUME Arguments, NEW d \in Int, NEW e \in Int, MidnightExists(d), MidnightExists(e)
  PROVE  Midnight(d) <= Midnight(e) <=> d <= e
<1>1. Midnight(e) \in Int /\ Offered!DateOf(Midnight(e)) = e
  BY MidnightFound, MidnightDate
<1>2. d <= Offered!DateOf(Midnight(e)) <=> Midnight(d) <= Midnight(e)
  BY <1>1, MidnightFound
<1> QED
  BY <1>1, <1>2

\* What MidnightsExist says of the dates the loop counts to.
Counted ==
  /\ \A d \in (q.date - 1) .. (q.date + 2) : MidnightExists(d)
  /\ MidnightExists(Offered!DateOf(q.now))
  /\ MidnightExists(Offered!DateOf(q.now) + q.horizon + 1)

LEMMA CountedRight == ASSUME Offered!MidnightsExist PROVE Counted
BY DEF Offered!MidnightsExist, Offered!Midnights, MidnightExists, Counted

\* The loop runs over the instants of the date, if the date is offered at all.
LEMMA LoopOfTheDate ==
  ASSUME Arguments, Counted
  PROVE  /\ Offered!Day = Midnight(q.date) /\ Offered!AddDate(Offered!Day, 1) = Midnight(q.date + 1)
         /\ \A i \in Int : i \in Offered!Day .. (Offered!AddDate(Offered!Day, 1) - 1)
              <=> Offered!DateOf(i) = q.date
         /\ Offered!DateIsOpen <=> /\ Offered!DateOf(q.now) <= q.date
                                   /\ q.date <= Offered!DateOf(q.now) + q.horizon
                                   /\ q.date \notin q.closed
<1> DEFINE today == Offered!DateOf(q.now)
<1>1. q.date \in Int /\ q.horizon \in Nat /\ today \in Int
  BY ClockOf DEF Arguments
<1>2. MidnightExists(q.date) /\ MidnightExists(q.date + 1)
  BY <1>1 DEF Counted
<1>3. MidnightExists(today) /\ MidnightExists(today + (q.horizon + 1))
  BY <1>1 DEF Counted
<1>4. Offered!Day = Midnight(q.date) /\ Offered!Today = Midnight(today)
  BY DEF Offered!Day, Offered!Today, Midnight
<1> HIDE DEF today
<1>5. Offered!AddDate(Offered!Day, 1) = Midnight(q.date + 1)
  BY <1>1, <1>2, <1>4, DaysOn
<1>6. Offered!AddDate(Offered!Today, q.horizon + 1) = Midnight(today + (q.horizon + 1))
  BY <1>1, <1>3, <1>4, DaysOn
<1>7. ASSUME NEW i \in Int
      PROVE  i \in Offered!Day .. (Offered!AddDate(Offered!Day, 1) - 1) <=> Offered!DateOf(i) = q.date
  <2>1. Midnight(q.date) \in Int /\ (q.date <= Offered!DateOf(i) <=> Midnight(q.date) <= i)
    BY <1>1, <1>2, MidnightFound
  <2>2. /\ Midnight(q.date + 1) \in Int
        /\ q.date + 1 <= Offered!DateOf(i) <=> Midnight(q.date + 1) <= i
    BY <1>1, <1>2, MidnightFound
  <2>3. Offered!DateOf(i) \in Int
    BY ClockOf
  <2> QED
    BY <1>1, <1>4, <1>5, <2>1, <2>2, <2>3
<1>8. Midnight(today) <= Midnight(q.date) <=> today <= q.date
  BY <1>1, <1>2, <1>3, MidnightsOrdered
<1>9. Midnight(today + (q.horizon + 1)) <= Midnight(q.date) <=> today + (q.horizon + 1) <= q.date
  BY <1>1, <1>2, <1>3, MidnightsOrdered
<1>10. /\ Midnight(today) \in Int /\ Midnight(q.date) \in Int
       /\ Midnight(today + (q.horizon + 1)) \in Int
  BY <1>1, <1>2, <1>3, MidnightFound
<1>11. Offered!DateIsOpen <=> today <= q.date /\ q.date <= today + q.horizon /\ q.date \notin q.closed
  BY <1>1, <1>4, <1>6, <1>8, <1>9, <1>10 DEF Offered!DateIsOpen
<1> QED
  BY <1>4, <1>5, <1>7, <1>11 DEF today

-----------------------------------------------------------------------------
(* Slots: one instant                                                      *)

\* The wall time of the probes of Fits.
Wall(date, p) == Offered!MinuteOf(p) + IF Offered!DateOf(p) # date THEN DayLength ELSE 0

\* On the date of an opening and on the next it is the time since the opening's midnight.
LEMMA WallIsWall ==
  ASSUME Arguments, NEW date \in Int, NEW p \in Int
  PROVE  /\ Offered!WallOf(p, date) \in Int /\ Wall(date, p) \in Int
         /\ Offered!DateOf(p) \in {date, date + 1} => Wall(date, p) = Offered!WallOf(p, date)
         /\ Offered!WallOf(p, date) \in 0 .. (2 * DayLength - 1) <=> Offered!DateOf(p) \in {date, date + 1}
<1>1. /\ DayLength \in Nat \ {0} /\ Offered!Local(p) \in Int /\ Offered!DateOf(p) \in Int
      /\ Offered!MinuteOf(p) \in 0 .. DayLength - 1
      /\ Offered!Local(p) = Offered!DateOf(p) * DayLength + Offered!MinuteOf(p)
      /\ \A d \in Int : d <= Offered!DateOf(p) <=> d * DayLength <= Offered!Local(p)
  BY ClockOf DEF Arguments
<1>2. Offered!WallOf(p, date) = Offered!Local(p) - date * DayLength /\ date * DayLength \in Int
  BY <1>1 DEF Offered!WallOf
<1>3. (date + 1) * DayLength = date * DayLength + DayLength
  BY <1>1
<1>4. (date + 2) * DayLength = date * DayLength + 2 * DayLength
  BY <1>1
<1>5. date <= Offered!DateOf(p) <=> date * DayLength <= Offered!Local(p)
  BY <1>1
<1>6. date + 2 <= Offered!DateOf(p) <=> date * DayLength + 2 * DayLength <= Offered!Local(p)
  BY <1>1, <1>4
<1>7. Offered!DateOf(p) = date => Wall(date, p) = Offered!WallOf(p, date)
  BY <1>1, <1>2 DEF Wall
<1>8. Offered!DateOf(p) = date + 1 => Wall(date, p) = Offered!WallOf(p, date)
  BY <1>1, <1>2, <1>3 DEF Wall
<1>9. Wall(date, p) \in Int
  BY <1>1 DEF Wall
<1>10. Offered!WallOf(p, date) \in Int
  BY <1>1, <1>2
<1>11. 0 <= Offered!WallOf(p, date) <=> date <= Offered!DateOf(p)
  BY <1>1, <1>2, <1>5
<1>12. 2 * DayLength <= Offered!WallOf(p, date) <=> date + 2 <= Offered!DateOf(p)
  BY <1>1, <1>2, <1>6
<1>13. Offered!WallOf(p, date) \in 0 .. (2 * DayLength - 1) <=> Offered!DateOf(p) \in {date, date + 1}
  <2>1. Offered!DateOf(p) \in Int /\ 2 * DayLength \in Int
    BY <1>1
  <2> QED
    BY <1>10, <1>11, <1>12, <2>1
<1> QED
  BY <1>7, <1>8, <1>9, <1>10, <1>13

Occupied(i) == i .. (i + q.duration + q.buffer - 1)

\* The probes of Fits stay within an opening and the day after it, so they measure what the
\* reference does: between two midnights, a night that skips its end would not.
LEMMA FitsRight ==
  ASSUME Arguments, Counted, Offered!NightsEnd, NEW i \in Int, Offered!DateOf(i) = q.date,
         NEW h \in q.hours, NEW date \in {q.date - 1, q.date}
  PROVE  Offered!Fits(h, date, i) <=>
           \A p \in Occupied(i) : /\ Offered!WallOf(p, date) \in h.opens .. (Offered!Closing(h) - 1)
                                 /\ Offered!DateOf(p) \notin q.closed
<1>1. /\ q.date \in Int /\ date \in Int /\ DayLength \in Nat \ {0}
      /\ h.opens \in 0 .. DayLength - 1 /\ h.closes \in 0 .. DayLength - 1
      /\ q.duration \in Nat \ {0} /\ q.buffer \in Nat
  BY DEF Arguments
<1>2. Occupied(i) \subseteq Int
  BY <1>1 DEF Occupied
<1>3. /\ Offered!Night(h) => Offered!Closing(h) = h.closes + DayLength /\ h.closes < h.opens
      /\ ~ Offered!Night(h) => Offered!Closing(h) = h.closes
      /\ Offered!Closing(h) \in 0 .. (2 * DayLength - 1)
  BY <1>1 DEF Offered!Closing, Offered!Night
<1>4. Offered!Fits(h, date, i) <=>
        \A p \in Occupied(i) : /\ h.opens <= Wall(date, p) /\ Wall(date, p) < Offered!Closing(h)
                              /\ Offered!DateOf(p) \notin q.closed
  BY <1>1, <1>3 DEF Offered!Fits, Occupied, Wall
<1>5. ASSUME NEW p \in Occupied(i), Offered!WallOf(p, date) \in h.opens .. (Offered!Closing(h) - 1)
      PROVE  h.opens <= Wall(date, p) /\ Wall(date, p) < Offered!Closing(h)
  <2>1. Offered!WallOf(p, date) \in 0 .. (2 * DayLength - 1)
    BY <1>1, <1>3, <1>5
  <2>2. Wall(date, p) = Offered!WallOf(p, date)
    BY <1>1, <1>2, <2>1, WallIsWall
  <2> QED
    BY <1>1, <1>3, <1>5, <2>2
<1>6. ASSUME \A p \in Occupied(i) : Wall(date, p) < Offered!Closing(h),
             NEW p \in Occupied(i), h.opens <= Wall(date, p)
      PROVE  Offered!WallOf(p, date) \in h.opens .. (Offered!Closing(h) - 1)
  <2>1. /\ MidnightExists(q.date) /\ MidnightExists(date + 1) /\ MidnightExists(date + 2)
        /\ date + 1 \in Int /\ date + 2 \in Int /\ date + 2 \in {q.date + 1, q.date + 2}
    BY <1>1 DEF Counted
  <2>2. p \in Int /\ i <= p
    BY <1>1, <1>2 DEF Occupied
  <2>3. Offered!DateOf(p) \in Int /\ q.date <= Offered!DateOf(p)
    <3>1. q.date <= Offered!DateOf(i) <=> Midnight(q.date) <= i
      BY <1>1, <2>1, MidnightFound
    <3>2. Midnight(q.date) \in Int /\ (q.date <= Offered!DateOf(p) <=> Midnight(q.date) <= p)
      BY <1>1, <2>1, <2>2, MidnightFound
    <3>3. Offered!DateOf(p) \in Int
      BY <2>2, ClockOf
    <3> QED
      BY <1>1, <2>2, <3>1, <3>2, <3>3
  <2>4. ~ (date + 2 <= Offered!DateOf(p))
    <3> SUFFICES ASSUME date + 2 <= Offered!DateOf(p) PROVE FALSE
      OBVIOUS
    <3> DEFINE m == Midnight(date + 2)
               l == m - 1
    <3>1. m \in Int /\ m <= p /\ ~ (m <= i) /\ m \in Offered!Around(date + 2)
          /\ Offered!Local(m) = (date + 2) * DayLength
      <4>1. date + 2 <= Offered!DateOf(p) <=> m <= p
        BY <2>1, <2>2, MidnightFound
      <4>2. date + 2 <= Offered!DateOf(i) <=> m <= i
        BY <2>1, MidnightFound
      <4>3. ~ (date + 2 <= q.date)
        BY <1>1
      <4> QED
        BY <2>1, <4>1, <4>2, <4>3, MidnightFound
    <3> HIDE DEF m
    <3>2. l \in Int /\ l \in Occupied(i)
      BY <1>1, <2>2, <3>1 DEF Occupied
    <3>3. Offered!DateOf(l) \in Int /\ ~ (date + 2 <= Offered!DateOf(l))
      <4>1. date + 2 <= Offered!DateOf(l) <=> m <= l
        BY <2>1, <3>2, MidnightFound DEF m
      <4> QED
        BY <3>1, <3>2, <4>1, ClockOf
    <3>4. date + 1 <= Offered!DateOf(l)
      <4>1. date + 1 <= Offered!DateOf(l) <=> Midnight(date + 1) <= l
        BY <2>1, <3>2, MidnightFound
      <4>2. m <= Midnight(date + 1) <=> date + 2 <= date + 1
        BY <2>1, MidnightsOrdered DEF m
      <4>3. Midnight(date + 1) \in Int
        BY <2>1, MidnightFound
      <4> QED
        BY <1>1, <3>1, <4>1, <4>2, <4>3
    <3>5. Offered!DateOf(l) = date + 1
      BY <1>1, <3>3, <3>4
    <3>6. Offered!MinuteOf(l) \in 0 .. DayLength - 1
      BY <3>2, ClockOf
    <3>7. Wall(date, l) = Offered!MinuteOf(l) + DayLength
      BY <1>1, <3>5 DEF Wall
    <3>8. Offered!Night(h) => Offered!MinuteOf(l) >= h.closes
      BY <2>1, <3>1 DEF Offered!NightsEnd, Offered!IsMidnight
    <3>9. Wall(date, l) < Offered!Closing(h)
      BY <1>6, <3>2
    <3> QED
      BY <1>1, <1>3, <3>6, <3>7, <3>8, <3>9
  <2>5. Offered!DateOf(p) \in {date, date + 1}
    BY <1>1, <2>3, <2>4
  <2>6. Wall(date, p) = Offered!WallOf(p, date) /\ Offered!WallOf(p, date) \in Int
    BY <1>1, <2>2, <2>5, WallIsWall
  <2> QED
    BY <1>1, <1>3, <1>6, <2>6
<1> QED
  BY <1>4, <1>5, <1>6

\* The date of the opening of h that the loop takes for instant i.
OpeningDate(h, i) ==
  IF Offered!Night(h) /\ Offered!MinuteOf(i) < h.closes THEN q.date - 1 ELSE q.date

LEMMA OpeningRight ==
  ASSUME Arguments, Counted, NEW i \in Int, Offered!DateOf(i) = q.date, NEW h \in q.hours
  PROVE  /\ Offered!Opening(h, i).weekday = OpeningDate(h, i) % 7
         /\ Offered!Opening(h, i).offset = Offered!WallOf(i, OpeningDate(h, i)) - h.opens
         /\ Offered!Opening(h, i).date = OpeningDate(h, i)
<1>1. /\ q.date \in Int /\ DayLength \in Nat \ {0} /\ h.opens \in Int
      /\ Offered!MinuteOf(i) \in Int
      /\ Offered!Local(i) = q.date * DayLength + Offered!MinuteOf(i)
  <2>1. /\ Offered!MinuteOf(i) \in 0 .. DayLength - 1
        /\ Offered!Local(i) = q.date * DayLength + Offered!MinuteOf(i)
    BY ClockOf
  <2> QED
    BY <2>1 DEF Arguments
<1>2. Offered!WallOf(i, q.date) = Offered!MinuteOf(i)
  BY <1>1 DEF Offered!WallOf
<1>3. Offered!WallOf(i, q.date - 1) = Offered!MinuteOf(i) + DayLength
  <2>1. (q.date - 1) * DayLength = q.date * DayLength - DayLength /\ q.date * DayLength \in Int
    BY <1>1
  <2> QED
    BY <1>1, <2>1 DEF Offered!WallOf
<1>4. MidnightExists(q.date) /\ MidnightExists(q.date - 1)
  BY <1>1 DEF Counted
<1>5. Offered!Day = Midnight(q.date) /\ Offered!DateOf(Offered!Day) = q.date
  BY <1>1, <1>4, LoopOfTheDate, MidnightDate
<1>6. Offered!DateOf(Offered!AddDate(Offered!Day, -1)) = q.date - 1
  <2>1. Offered!AddDate(Midnight(q.date), -1) = Midnight(q.date + (-1))
    BY <1>1, <1>4, DaysOn
  <2>2. q.date + (-1) = q.date - 1 /\ q.date - 1 \in Int
    BY <1>1
  <2> QED
    BY <1>4, <1>5, <2>1, <2>2, MidnightDate
<1>7. Offered!WeekdayOf(i) = q.date % 7
  BY DEF Offered!WeekdayOf
<1>8. ((q.date % 7) + 6) % 7 = (q.date - 1) % 7
  BY <1>1
<1>9. CASE Offered!Night(h) /\ Offered!MinuteOf(i) < h.closes
  <2>1. Offered!Opening(h, i) =
          [weekday |-> ((q.date % 7) + 6) % 7, offset |-> Offered!MinuteOf(i) + DayLength - h.opens,
           date |-> q.date - 1]
    BY <1>6, <1>7, <1>9 DEF Offered!Opening
  <2>2. OpeningDate(h, i) = q.date - 1
    BY <1>9 DEF OpeningDate
  <2>3. /\ Offered!Opening(h, i).weekday = ((q.date % 7) + 6) % 7
        /\ Offered!Opening(h, i).offset = Offered!MinuteOf(i) + DayLength - h.opens
        /\ Offered!Opening(h, i).date = q.date - 1
    BY <2>1
  <2> QED
    BY <1>1, <1>3, <1>8, <2>2, <2>3
<1>10. CASE ~ (Offered!Night(h) /\ Offered!MinuteOf(i) < h.closes)
  <2>1. Offered!Opening(h, i) =
          [weekday |-> q.date % 7, offset |-> Offered!MinuteOf(i) - h.opens, date |-> q.date]
    BY <1>5, <1>7, <1>10 DEF Offered!Opening
  <2>2. OpeningDate(h, i) = q.date
    BY <1>10 DEF OpeningDate
  <2> QED
    BY <1>2, <2>1, <2>2
<1> QED
  BY <1>9, <1>10

\* The opening that an instant lies in is the one that the loop looks at.
LEMMA OpeningChosen ==
  ASSUME Arguments, Counted, NEW i \in Int, Offered!DateOf(i) = q.date,
         NEW h \in q.hours, NEW date \in {q.date - 1, q.date},
         Offered!WallOf(i, date) \in h.opens .. (Offered!Closing(h) - 1)
  PROVE  date = OpeningDate(h, i)
<1>1. /\ q.date \in Int /\ DayLength \in Nat \ {0} /\ Offered!MinuteOf(i) \in 0 .. DayLength - 1
      /\ h.opens \in 0 .. DayLength - 1 /\ h.closes \in 0 .. DayLength - 1
      /\ Offered!Local(i) = q.date * DayLength + Offered!MinuteOf(i)
  BY ClockOf DEF Arguments
<1>2. Offered!WallOf(i, q.date) = Offered!MinuteOf(i)
  BY <1>1 DEF Offered!WallOf
<1>3. Offered!WallOf(i, q.date - 1) = Offered!MinuteOf(i) + DayLength
  <2>1. (q.date - 1) * DayLength = q.date * DayLength - DayLength /\ q.date * DayLength \in Int
    BY <1>1
  <2> QED
    BY <1>1, <2>1 DEF Offered!WallOf
<1>4. CASE date = q.date
  BY <1>1, <1>2, <1>4 DEF OpeningDate, Offered!Closing, Offered!Night
<1>5. CASE date = q.date - 1
  BY <1>1, <1>3, <1>5 DEF OpeningDate, Offered!Closing, Offered!Night
<1> QED
  BY <1>4, <1>5

\* What Reference asks of an instant of the date, the lead apart.
InAnOpening(i) == \E h \in q.hours, date \in {q.date - 1, q.date} : Offered!SlotOf(h, date, i)

LEMMA InstantRight ==
  ASSUME Arguments, Counted, Offered!NightsEnd, NEW i \in Int, Offered!DateOf(i) = q.date
  PROVE  Offered!IsSlot(i) <=> i >= q.now + q.lead /\ InAnOpening(i)
<1>1. q.date \in Int /\ q.step \in Nat \ {0} /\ q.duration \in Nat \ {0} /\ q.buffer \in Nat
  BY DEF Arguments
<1>2. i \in Occupied(i)
  BY <1>1 DEF Occupied
<1> DEFINE Hits(h, date) ==
             /\ date % 7 = h.day /\ date \notin q.closed
             /\ h.opens <= Offered!WallOf(i, date) /\ (Offered!WallOf(i, date) - h.opens) % q.step = 0
             /\ Offered!Fits(h, date, i)
<1>3. ASSUME NEW h \in q.hours, NEW date \in {q.date - 1, q.date}
      PROVE  Hits(h, date) <=> Offered!SlotOf(h, date, i)
  BY FitsRight DEF Offered!SlotOf, Occupied
<1>4. ASSUME NEW h \in q.hours
      PROVE  OpeningDate(h, i) \in {q.date - 1, q.date}
  BY DEF OpeningDate
<1>5. ASSUME NEW h \in q.hours
      PROVE  Hits(h, OpeningDate(h, i)) <=>
               LET o == Offered!Opening(h, i) IN
               /\ o.weekday = h.day /\ o.offset >= 0 /\ o.offset % q.step = 0
               /\ o.date \notin q.closed /\ Offered!Fits(h, o.date, i)
  <2> DEFINE date == OpeningDate(h, i)
             wall == Offered!WallOf(i, date)
  <2>1. /\ Offered!Opening(h, i).weekday = date % 7 /\ Offered!Opening(h, i).offset = wall - h.opens
        /\ Offered!Opening(h, i).date = date
    BY OpeningRight
  <2>2. wall \in Int /\ h.opens \in Int
    <3>1. date \in Int
      BY <1>1, <1>4
    <3> HIDE DEF date
    <3>2. wall \in Int
      BY <3>1, WallIsWall
    <3> QED
      BY <3>2 DEF Arguments
  <2> HIDE DEF date, wall
  <2>3. wall - h.opens >= 0 <=> h.opens <= wall
    BY <2>2
  <2>4. Hits(h, date) <=> /\ date % 7 = h.day /\ date \notin q.closed /\ h.opens <= wall
                          /\ (wall - h.opens) % q.step = 0 /\ Offered!Fits(h, date, i)
    BY DEF wall
  <2> HIDE DEF Hits
  <2>5. Hits(h, date) <=>
          LET o == Offered!Opening(h, i) IN
          /\ o.weekday = h.day /\ o.offset >= 0 /\ o.offset % q.step = 0
          /\ o.date \notin q.closed /\ Offered!Fits(h, o.date, i)
    BY <2>1, <2>3, <2>4
  <2> QED
    BY <2>5 DEF date
<1>6. Offered!IsSlot(i) <=> i >= q.now + q.lead /\ \E h \in q.hours : Hits(h, OpeningDate(h, i))
  <2> HIDE DEF Hits
  <2> QED
    BY <1>5 DEF Offered!IsSlot
<1>7. ASSUME NEW h \in q.hours, NEW date \in {q.date - 1, q.date}, Offered!SlotOf(h, date, i)
      PROVE  date = OpeningDate(h, i)
  BY <1>2, <1>7, OpeningChosen DEF Offered!SlotOf, Occupied
<1>8. (\E h \in q.hours : Hits(h, OpeningDate(h, i))) <=> InAnOpening(i)
  <2> HIDE DEF Hits
  <2> QED
    BY <1>3, <1>4, <1>7 DEF InAnOpening
<1> QED
  BY <1>6, <1>8

-----------------------------------------------------------------------------
(* Slots: the inductive invariant                                          *)

\* The slots found are those of the instants the loop has passed.
SlotsInv ==
  /\ q \in Inputs
  /\ start \in Offered!Day .. Offered!AddDate(Offered!Day, 1)
  /\ slots = {i \in Offered!Day .. (start - 1) : Offered!IsSlot(i)}
  /\ ~ Offered!DateIsOpen => start = Offered!Day

LEMMA DayIsALoop ==
  ASSUME Arguments
  PROVE  /\ Offered!Day \in Int /\ Offered!AddDate(Offered!Day, 1) \in Int
         /\ Offered!Day <= Offered!AddDate(Offered!Day, 1)
<1>1. /\ DayLength \in Nat \ {0} /\ q.date \in Int /\ q.at \in Int /\ q.base \in Int
      /\ q.shift \in -DayLength .. DayLength /\ q.date * DayLength \in Int
  BY DEF Arguments
<1>2. \A i \in Int : Offered!Offset(i) \in {0, q.shift}
  BY DEF Offered!Offset
<1>3. ASSUME NEW w \in Int PROVE Offered!Date(w) \in {w, w - q.shift}
  <2>1. w + q.base \in Int /\ w - Offered!Offset(w + q.base) \in {w, w - q.shift}
    BY <1>1, <1>2
  <2>2. w - Offered!Offset(w - Offered!Offset(w + q.base)) \in {w, w - q.shift}
    BY <1>1, <1>2, <2>1
  <2> QED
    BY <2>1, <2>2 DEF Offered!Date
<1>4. Offered!Day \in Int
  BY <1>1, <1>3 DEF Offered!Day
<1>5. Offered!Local(Offered!Day) \in {Offered!Day, Offered!Day + q.shift}
  BY <1>1, <1>2, <1>4 DEF Offered!Local
<1>6. Offered!Local(Offered!Day) + 1 * DayLength \in Int
  BY <1>1, <1>4, <1>5
<1>7. \/ Offered!AddDate(Offered!Day, 1) = Offered!Local(Offered!Day) + DayLength
      \/ Offered!AddDate(Offered!Day, 1) = Offered!Local(Offered!Day) + DayLength - q.shift
  <2> DEFINE w == Offered!Local(Offered!Day) + 1 * DayLength
  <2>1. w \in Int /\ w = Offered!Local(Offered!Day) + DayLength
    BY <1>1, <1>4, <1>5
  <2>2. Offered!AddDate(Offered!Day, 1) = Offered!Date(w)
    BY DEF Offered!AddDate
  <2> HIDE DEF w
  <2>3. Offered!Date(w) = w \/ Offered!Date(w) = w - q.shift
    BY <1>3, <2>1
  <2>4. w - q.shift = Offered!Local(Offered!Day) + DayLength - q.shift
    BY <1>1, <1>4, <1>5, <2>1
  <2> QED
    BY <2>1, <2>2, <2>3, <2>4
<1> QED
  BY <1>1, <1>4, <1>5, <1>7

LEMMA SlotsStart == ASSUME Offered!SlotsAssumption, Offered!Init PROVE SlotsInv
<1>1. q \in Inputs /\ start = Offered!Day /\ slots = {}
  BY DEF Offered!Init
<1>2. Offered!Day \in Int /\ Offered!AddDate(Offered!Day, 1) \in Int
      /\ Offered!Day <= Offered!AddDate(Offered!Day, 1)
  BY <1>1, ArgumentsRight, DayIsALoop
<1> QED
  BY <1>1, <1>2 DEF SlotsInv

LEMMA SlotsStepKeeps ==
  ASSUME Offered!SlotsAssumption, SlotsInv, [Offered!Step]_(Offered!vars)
  PROVE  SlotsInv'
<1>1. q' = q
  BY DEF Offered!Step, Offered!vars
<1>2. /\ Offered!Day' = Offered!Day /\ Offered!DateIsOpen' = Offered!DateIsOpen
      /\ Offered!AddDate(Offered!Day, 1)' = Offered!AddDate(Offered!Day, 1)
      /\ \A i : Offered!IsSlot(i)' = Offered!IsSlot(i)
  <2>1. Offered!Day' = Offered!Day /\ Offered!Today' = Offered!Today
    BY <1>1 DEF Offered!Day, Offered!Today, Offered!Date, Offered!DateOf, Offered!Local, Offered!Offset
  <2>2. Offered!AddDate(Offered!Day, 1)' = Offered!AddDate(Offered!Day, 1)
    BY <1>1 DEF Offered!AddDate, Offered!Day, Offered!Date, Offered!Local, Offered!Offset
  <2>3. Offered!DateIsOpen' = Offered!DateIsOpen
    BY <1>1 DEF Offered!DateIsOpen, Offered!AddDate, Offered!Day, Offered!Today, Offered!Date,
       Offered!DateOf, Offered!Local, Offered!Offset
  <2>4. ASSUME NEW i PROVE Offered!IsSlot(i)' = Offered!IsSlot(i)
    <3>1. ASSUME NEW p
          PROVE  /\ Offered!DateOf(p)' = Offered!DateOf(p) /\ Offered!MinuteOf(p)' = Offered!MinuteOf(p)
                 /\ Offered!WeekdayOf(p)' = Offered!WeekdayOf(p)
      BY <1>1 DEF Offered!DateOf, Offered!MinuteOf, Offered!WeekdayOf, Offered!Local, Offered!Offset
    <3>2. ASSUME NEW h, NEW date PROVE Offered!Fits(h, date, i)' = Offered!Fits(h, date, i)
      BY <1>1, <3>1 DEF Offered!Fits
    <3>3. /\ Offered!DateOf(Offered!Day)' = Offered!DateOf(Offered!Day)
          /\ Offered!DateOf(Offered!AddDate(Offered!Day, -1))'
               = Offered!DateOf(Offered!AddDate(Offered!Day, -1))
      BY <1>1 DEF Offered!DateOf, Offered!Local, Offered!Offset, Offered!AddDate, Offered!Day, Offered!Date
    <3>4. ASSUME NEW h PROVE Offered!Opening(h, i)' = Offered!Opening(h, i)
      BY <3>1, <3>3 DEF Offered!Opening
    <3> QED
      BY <1>1, <3>2, <3>4 DEF Offered!IsSlot
  <2> QED
    BY <2>1, <2>2, <2>3, <2>4
<1>3. Offered!Day \in Int /\ Offered!AddDate(Offered!Day, 1) \in Int
  BY ArgumentsRight, DayIsALoop DEF SlotsInv
<1>4. CASE UNCHANGED <<q, start, slots>>
  BY <1>2, <1>4 DEF SlotsInv
<1>5. CASE Offered!Step
  <2>1. /\ Offered!DateIsOpen /\ start < Offered!AddDate(Offered!Day, 1) /\ start' = start + 1
        /\ slots' = IF Offered!IsSlot(start) THEN slots \union {start} ELSE slots
    BY <1>5 DEF Offered!Step
  <2>2. start' \in Offered!Day .. Offered!AddDate(Offered!Day, 1)
    BY <1>3, <2>1 DEF SlotsInv
  <2>3. slots' = {i \in Offered!Day .. (start' - 1) : Offered!IsSlot(i)}
    BY <1>3, <2>1 DEF SlotsInv
  <2> QED
    BY <1>1, <1>2, <2>1, <2>2, <2>3 DEF SlotsInv
<1> QED
  BY <1>4, <1>5 DEF Offered!vars

LEMMA SlotsSound ==
  ASSUME Offered!SlotsAssumption, SlotsInv
  PROVE  Offered!TypeOK /\ Offered!SlotsAreTheOpenings
<1>1. Arguments /\ Offered!Day \in Int
  BY ArgumentsRight, DayIsALoop DEF SlotsInv
<1>2. Offered!TypeOK
  BY <1>1 DEF SlotsInv, Offered!TypeOK
<1>3. ASSUME Offered!MidnightsExist, Offered!NightsEnd, Offered!Finished
      PROVE  slots = Offered!Reference
  <2>1. Counted
    BY <1>3, CountedRight
  <2> DEFINE last == Offered!AddDate(Offered!Day, 1)
             Open == /\ Offered!DateOf(q.now) <= q.date
                     /\ q.date <= Offered!DateOf(q.now) + q.horizon /\ q.date \notin q.closed
  <2>2. /\ Offered!DateIsOpen <=> Open
        /\ \A i \in Int : i \in Offered!Day .. (last - 1) <=> Offered!DateOf(i) = q.date
    BY <1>1, <2>1, LoopOfTheDate
  <2>3. Offered!Reference =
          {i \in Offered!Instants : /\ Offered!DateOf(i) = q.date /\ i >= q.now + q.lead
                                    /\ Open /\ InAnOpening(i)}
    BY DEF Offered!Reference, InAnOpening
  <2>4. CASE ~ Offered!DateIsOpen
    BY <1>1, <2>2, <2>3, <2>4 DEF SlotsInv
  <2>5. CASE Offered!DateIsOpen
    <3>1. start = last
      BY <1>3, <2>5 DEF Offered!Finished
    <3>2. slots = {i \in Offered!Day .. (last - 1) : Offered!IsSlot(i)}
      BY <3>1 DEF SlotsInv
    <3>3. Offered!Day .. (last - 1) \subseteq Offered!Instants
      <4>1. q.date \in Int /\ DayLength \in Nat \ {0}
        BY <1>1 DEF Arguments
      <4>2. Offered!Day = Midnight(q.date) /\ last = Midnight(q.date + 1)
        BY <1>1, <2>1, LoopOfTheDate
      <4>3. Midnight(q.date) \in Offered!Around(q.date)
        BY <1>1, <2>1, <4>1, MidnightFound DEF Counted
      <4>4. Midnight(q.date + 1) \in Offered!Around(q.date + 1)
        BY <1>1, <2>1, <4>1, MidnightFound DEF Counted
      <4>5. (q.date + 1) + 1 = q.date + 2
        BY <4>1
      <4>6. (q.date - 1) * DayLength \in Int /\ (q.date + 2) * DayLength \in Int
        BY <4>1
      <4> QED
        BY <4>2, <4>3, <4>4, <4>5, <4>6 DEF Offered!Around, Offered!Instants
    <3>4. Offered!Instants \subseteq Int
      BY <1>1 DEF Arguments, Offered!Instants
    <3>5. \A i \in Int : Offered!DateOf(i) = q.date =>
            (Offered!IsSlot(i) <=> i >= q.now + q.lead /\ InAnOpening(i))
      BY <1>1, <1>3, <2>1, InstantRight
    <3> QED
      BY <2>2, <2>3, <2>5, <3>2, <3>3, <3>4, <3>5
  <2> QED
    BY <2>4, <2>5
<1> QED
  BY <1>2, <1>3 DEF Offered!SlotsAreTheOpenings

-----------------------------------------------------------------------------
(* The marketplace: places and areas                                       *)

\* An area fits a query if and only if some place lies in both.
LEMMA AreaServes ==
  ASSUME Marketplace!ReachAssumption, NEW x \in Queries, Marketplace!HasAreaFilter(x),
         NEW a \in Marketplace!AnyArea
  PROVE  Marketplace!AreaFits(a, x) <=>
           \E p \in Marketplace!Places : Marketplace!Asked(p, x) /\ Marketplace!InArea(p, a)
<1>1. /\ x.area \in [Marketplace!Fields -> Words \union {Null}]
      /\ a \in [Marketplace!Fields -> Words \union {Null}]
      /\ \A f \in Marketplace!Required : a[f] # Null
      /\ Null \notin Words /\ \A w \in Words : Key[w] # Null
  BY DEF Marketplace!ReachAssumption, Marketplace!AnyArea
<1>2. PICK w0 : w0 \in Words
  BY <1>1 DEF Marketplace!HasAreaFilter
<1>3. ASSUME Marketplace!AreaFits(a, x)
      PROVE  \E p \in Marketplace!Places : Marketplace!Asked(p, x) /\ Marketplace!InArea(p, a)
  <2> DEFINE ask(f) == Marketplace!QueryKey(x, f)
             has(f) == Marketplace!AreaKey(a, f)
             p == [f \in Marketplace!Fields |->
                     IF ask(f) # Null THEN ask(f) ELSE IF has(f) # Null THEN has(f) ELSE Key[w0]]
  <2>1. \A f \in Marketplace!Fields :
          /\ ask(f) # Null => ask(f) \in {Key[w] : w \in Words}
          /\ has(f) # Null => has(f) \in {Key[w] : w \in Words}
    BY <1>1 DEF Marketplace!QueryKey, Marketplace!AreaKey
  <2>2. \A f \in Marketplace!Fields :
          x.area[f] # Null /\ Key[x.area[f]] # Blank => ask(f) = Key[x.area[f]] /\ ask(f) # Null
    BY <1>1 DEF Marketplace!QueryKey
  <2>3. \A f \in Marketplace!Fields :
          a[f] # Null /\ (f \in Marketplace!Required \/ Key[a[f]] # Blank) =>
            has(f) = Key[a[f]] /\ has(f) # Null
    BY <1>1 DEF Marketplace!AreaKey
  <2>4. \A f \in Marketplace!Fields : ask(f) # Null /\ has(f) # Null => has(f) = ask(f)
    BY <1>3 DEF Marketplace!AreaFits
  <2> HIDE DEF ask, has
  <2>5. p \in Marketplace!Places
    BY <1>2, <2>1 DEF Marketplace!Places
  <2>6. Marketplace!Asked(p, x)
    BY <2>2 DEF Marketplace!Asked
  <2>7. Marketplace!InArea(p, a)
    BY <2>3, <2>4 DEF Marketplace!InArea
  <2> QED
    BY <2>5, <2>6, <2>7
<1>4. ASSUME NEW p \in Marketplace!Places, Marketplace!Asked(p, x), Marketplace!InArea(p, a)
      PROVE  Marketplace!AreaFits(a, x)
  BY <1>1, <1>4 DEF Marketplace!Asked, Marketplace!InArea, Marketplace!AreaFits,
     Marketplace!QueryKey, Marketplace!AreaKey, Marketplace!Required
<1> QED
  BY <1>3, <1>4

ShopsTyped == DOMAIN shop = Shops /\ \A s \in Shops : shop[s] \in Rows[s]

LEMMA MobileReached ==
  ASSUME Marketplace!ReachAssumption, ShopsTyped, NEW x \in Queries, Marketplace!HasAreaFilter(x),
         NEW s \in Shops, shop[s].mode = "mobile"
  PROVE  s \in Marketplace!Listed(x) <=> shop[s].active /\ Marketplace!Serves(shop[s].areas, x)
<1>1. shop[s].areas \subseteq Marketplace!AnyArea
  BY DEF Marketplace!ReachAssumption, ShopsTyped
<1>2. Marketplace!Reached(shop[s], x) <=> \E a \in shop[s].areas : Marketplace!AreaFits(a, x)
  BY DEF Marketplace!Reached
<1>3. Marketplace!Serves(shop[s].areas, x) <=> \E a \in shop[s].areas : Marketplace!AreaFits(a, x)
  BY <1>1, AreaServes DEF Marketplace!Serves
<1> QED
  BY <1>2, <1>3 DEF Marketplace!Listed

\* x is asked in fewer fields than y.
Wider(x, y) == \A f \in Marketplace!Fields : x.area[f] # Null => y.area[f] = x.area[f]

LEMMA WiderReachesMore ==
  ASSUME NEW x, NEW y, ~ Marketplace!HasBBox(x), ~ Marketplace!HasBBox(y), Wider(x, y)
  PROVE  Marketplace!Listed(y) \subseteq Marketplace!Listed(x)
<1>1. Marketplace!HasAreaFilter(x) => Marketplace!HasAreaFilter(y)
  BY DEF Marketplace!HasAreaFilter, Wider
<1>2. ASSUME NEW r, Marketplace!AddressFits(r, y), Marketplace!HasAreaFilter(x)
      PROVE  Marketplace!AddressFits(r, x)
  BY <1>2 DEF Marketplace!AddressFits, Wider, Marketplace!Fields
<1>3. ASSUME NEW a, Marketplace!AreaFits(a, y) PROVE Marketplace!AreaFits(a, x)
  BY <1>3 DEF Marketplace!AreaFits, Marketplace!QueryKey, Wider
<1>4. ASSUME NEW r, Marketplace!Reached(r, y) PROVE Marketplace!Reached(r, x)
  BY <1>1, <1>2, <1>3, <1>4 DEF Marketplace!Reached, Marketplace!InBox
<1> QED
  BY <1>4 DEF Marketplace!Listed

-----------------------------------------------------------------------------
(* The marketplace: the order of its pages                                 *)

Name(s) == shop[s].name
NamesDiffer(L) == \A s, t \in L : Name(s) = Name(t) => s = t
Earlier(L, s) == {t \in L : Name(t) < Name(s)}

LEMMA ReachCardinality == \A S : Marketplace!Cardinality(S) = Cardinality(S)
BY DEF Cardinality, Marketplace!Cardinality

LEMMA ListedNames ==
  ASSUME Marketplace!ReachAssumption, ShopsTyped, NEW x
  PROVE  /\ Marketplace!Listed(x) \subseteq Shops /\ IsFiniteSet(Marketplace!Listed(x))
         /\ \A s \in Marketplace!Listed(x) : Name(s) \in Int
<1>1. IsFiniteSet(Shops)
  BY DEF Marketplace!ReachAssumption, IsFiniteSet, Marketplace!IsFiniteSet
<1>2. Marketplace!Listed(x) \subseteq Shops
  BY DEF Marketplace!Listed
<1>3. \A s \in Shops : Name(s) \in Int
  BY DEF Marketplace!ReachAssumption, ShopsTyped, Name
<1> QED
  BY <1>1, <1>2, <1>3, FS_Subset

\* A list by name is a sequence of all its elements, each once.
LEMMA ListByName ==
  ASSUME NEW L, IsFiniteSet(L), NEW o \in Marketplace!ByName(L)
  PROVE  /\ Cardinality(L) \in Nat /\ o \in [1 .. Cardinality(L) -> L]
         /\ o \in Seq(L) /\ Len(o) = Cardinality(L)
         /\ \A i, j \in 1 .. Cardinality(L) : i # j => o[i] # o[j]
         /\ \A i, j \in 1 .. Cardinality(L) : i < j => Name(o[i]) <= Name(o[j])
         /\ \A s \in L : \E i \in 1 .. Cardinality(L) : o[i] = s
<1> DEFINE n == Cardinality(L)
<1>1. n \in Nat
  BY FS_CardinalityType
<1>2. o \in [1 .. n -> L] /\ \A i, j \in 1 .. n : i # j => o[i] # o[j]
  BY ReachCardinality DEF Marketplace!ByName, Marketplace!SetToSeqs
<1>3. \A i, j \in 1 .. n : i < j => Name(o[i]) <= Name(o[j])
  BY <1>2 DEF Marketplace!ByName, Name
<1>4. o \in Injection(1 .. n, L)
  BY <1>2 DEF Injection, IsInjective
<1>5. Cardinality(1 .. n) = n
  BY <1>1, FS_Interval
<1>6. o \in Surjection(1 .. n, L)
  BY <1>4, <1>5, FS_Injection
<1>7. \A s \in L : \E i \in 1 .. n : o[i] = s
  BY <1>6 DEF Surjection
<1>8. o \in Seq(L) /\ Len(o) = n
  BY <1>1, <1>2
<1> QED
  BY <1>1, <1>2, <1>3, <1>7, <1>8

\* Where names differ, a place is the number of the names before it.
LEMMA PlaceByName ==
  ASSUME NEW L, IsFiniteSet(L), \A s \in L : Name(s) \in Int, NamesDiffer(L),
         NEW o \in Marketplace!ByName(L), NEW i \in 1 .. Cardinality(L)
  PROVE  Cardinality(Earlier(L, o[i])) = i - 1
<1> DEFINE n == Cardinality(L)
           T == Earlier(L, o[i])
           f == [j \in 1 .. i - 1 |-> o[j]]
<1>1. /\ n \in Nat /\ o \in [1 .. n -> L]
      /\ \A j, k \in 1 .. n : j # k => o[j] # o[k]
      /\ \A j, k \in 1 .. n : j < k => Name(o[j]) <= Name(o[k])
      /\ \A s \in L : \E j \in 1 .. n : o[j] = s
  BY ListByName
<1>2. \A j, k \in 1 .. n : j < k => Name(o[j]) < Name(o[k])
  BY <1>1 DEF NamesDiffer
<1>3. i \in 1 .. n /\ 1 .. i - 1 \subseteq 1 .. n
  BY <1>1
<1>4. \A j \in 1 .. i - 1 : f[j] \in T
  BY <1>1, <1>2, <1>3 DEF Earlier
<1>5. ASSUME NEW t \in T PROVE \E j \in 1 .. i - 1 : f[j] = t
  <2>1. PICK j \in 1 .. n : o[j] = t
    BY <1>1 DEF Earlier
  <2>2. Name(o[j]) < Name(o[i]) /\ Name(o[j]) \in Int /\ Name(o[i]) \in Int
    BY <1>1, <1>3, <2>1 DEF Earlier
  <2>3. j < i
    BY <1>1, <1>2, <1>3, <2>2
  <2> QED
    BY <1>1, <1>3, <2>1, <2>3
<1>6. \A j, k \in 1 .. i - 1 : j # k => f[j] # f[k]
  BY <1>1, <1>3
<1> HIDE DEF T
<1>7. f \in Bijection(1 .. i - 1, T)
  BY <1>4, <1>5, <1>6 DEF Bijection, Injection, Surjection, IsInjective
<1>8. Cardinality(1 .. i - 1) = i - 1 /\ IsFiniteSet(1 .. i - 1)
  <2>1. i - 1 \in Nat
    BY <1>1, <1>3
  <2> QED
    BY <2>1, FS_Interval
<1>9. ExistsBijection(1 .. i - 1, T)
  BY <1>7, Zenon DEF ExistsBijection
<1> QED
  BY <1>8, <1>9, FS_Bijection DEF T

LEMMA OneOrder ==
  ASSUME NEW L, IsFiniteSet(L), \A s \in L : Name(s) \in Int, NamesDiffer(L),
         NEW o \in Marketplace!ByName(L), NEW u \in Marketplace!ByName(L)
  PROVE  o = u
<1> DEFINE n == Cardinality(L)
<1>1. /\ n \in Nat /\ o \in [1 .. n -> L] /\ u \in [1 .. n -> L]
      /\ \A s \in L : \E j \in 1 .. n : u[j] = s
  BY ListByName
<1>2. ASSUME NEW i \in 1 .. n PROVE o[i] = u[i]
  <2>1. PICK j \in 1 .. n : u[j] = o[i]
    BY <1>1
  <2>2. Cardinality(Earlier(L, o[i])) = i - 1 /\ Cardinality(Earlier(L, u[j])) = j - 1
    BY PlaceByName
  <2> QED
    BY <1>1, <2>1, <2>2
<1> QED
  BY <1>1, <1>2

-----------------------------------------------------------------------------
(* The marketplace: pages of a list *)

LEMMA Cutting ==
  ASSUME PerPage \in Nat \ {0}, NEW S, NEW o \in Seq(S), NEW k \in 0 .. Len(o)
  PROVE  /\ Marketplace!Cut(o, k) \in Seq(S) /\ Len(Marketplace!Cut(o, k)) \in 0 .. PerPage
         /\ k + Len(Marketplace!Cut(o, k)) \in k .. Len(o)
         /\ Len(Marketplace!Cut(o, k)) < PerPage => k + Len(Marketplace!Cut(o, k)) = Len(o)
         /\ SubSeq(o, 1, k) \o Marketplace!Cut(o, k) = SubSeq(o, 1, k + Len(Marketplace!Cut(o, k)))
<1> DEFINE m == IF Len(o) <= k + PerPage THEN Len(o) ELSE k + PerPage
<1>1. Len(o) \in Nat /\ m \in k .. Len(o) /\ m - k <= PerPage /\ (m - k < PerPage => m = Len(o))
  OBVIOUS
<1>2. Marketplace!Min({Len(o), k + PerPage}) = m
  BY <1>1 DEF Marketplace!Min
<1>3. Marketplace!Cut(o, k) = SubSeq(o, k + 1, m)
  BY <1>2 DEF Marketplace!Cut
<1> HIDE DEF m
<1>4. SubSeq(o, k + 1, m) \in Seq(S) /\ Len(SubSeq(o, k + 1, m)) = m - k
  BY <1>1
<1>5. SubSeq(o, 1, k) \o SubSeq(o, k + 1, m) = SubSeq(o, 1, m)
  BY <1>1
<1> QED
  BY <1>1, <1>3, <1>4, <1>5

-----------------------------------------------------------------------------
(* The marketplace: the inductive invariant *)

Visits ==
  [at : {"idle", "businesses", "areas", "answered"}, q : Queries \union {Null}, offset : Nat,
   rows : Seq(Shops), areas : Seq(SUBSET Marketplace!AnyArea)]

VisitTyped ==
  /\ visit \in Visits /\ seen \in Seq(Shops) /\ changed \in BOOLEAN
  /\ visit.at # "idle" => visit.q \in Queries
  /\ Len(visit.rows) <= PerPage /\ \E k \in Nat : visit.offset = k * PerPage

\* As long as nothing changes, a page shows what is listed, with its areas.
PageInv ==
  ~ changed =>
    /\ visit.at \in {"areas", "answered"} =>
         \A i \in DOMAIN visit.rows : visit.rows[i] \in Marketplace!Listed(visit.q)
    /\ visit.at = "answered" => visit.areas = Marketplace!AreasByBusiness(visit.rows)

\* Where names differ too, the pages are the beginning of the only list there is.
Begun(o) == visit.offset \in 0 .. Len(o) /\ seen = SubSeq(o, 1, visit.offset)
Cutoff(o) == visit.offset \in 0 .. Len(o) /\ visit.rows = Marketplace!Cut(o, visit.offset)
WalkedInv ==
  LET L == Marketplace!Listed(visit.q) IN
  ~ changed /\ NamesDiffer(L) =>
    /\ visit.at = "businesses" => \A o \in Marketplace!ByName(L) : Begun(o)
    /\ visit.at = "areas" => \E o \in Marketplace!ByName(L) : Begun(o) /\ Cutoff(o)
    /\ visit.at = "answered" => \E o \in Marketplace!ByName(L) :
         Cutoff(o) /\ seen = SubSeq(o, 1, visit.offset + Len(visit.rows))

ReachInv == ShopsTyped /\ VisitTyped /\ PageInv /\ WalkedInv

LEMMA ReachStarts ==
  ASSUME Marketplace!ReachAssumption, Marketplace!Init
  PROVE  ReachInv
<1>1. /\ DOMAIN shop = Shops /\ \A s \in Shops : shop[s] \in Rows[s]
      /\ visit = Marketplace!Idle /\ seen = <<>> /\ changed = FALSE
  BY DEF Marketplace!Init
<1>2. /\ visit \in Visits /\ visit.at = "idle" /\ visit.rows = <<>> /\ visit.offset = 0
      /\ seen \in Seq(Shops)
  BY <1>1 DEF Marketplace!Idle, Visits
<1>3. Len(visit.rows) <= PerPage /\ visit.offset = 0 * PerPage
  BY <1>2 DEF Marketplace!ReachAssumption
<1>4. ShopsTyped /\ VisitTyped
  <2>1. (\E k \in Nat : visit.offset = k * PerPage) /\ changed \in BOOLEAN
    BY <1>1, <1>3
  <2> QED
    BY <1>1, <1>2, <1>3, <2>1 DEF ShopsTyped, VisitTyped
<1>5. PageInv /\ WalkedInv
  BY <1>2 DEF PageInv, WalkedInv
<1> QED
  BY <1>4, <1>5 DEF ReachInv

\* What is listed by an unchanged query of unchanged shops, and its order.
LEMMA ListedStill ==
  ASSUME UNCHANGED shop, NEW x
  PROVE  /\ Marketplace!Listed(x)' = Marketplace!Listed(x)
         /\ Marketplace!ByName(Marketplace!Listed(x))' = Marketplace!ByName(Marketplace!Listed(x))
         /\ NamesDiffer(Marketplace!Listed(x))' <=> NamesDiffer(Marketplace!Listed(x))
BY DEF Marketplace!Listed, Marketplace!ByName, NamesDiffer, Name

LEMMA AskKeeps ==
  ASSUME Marketplace!ReachAssumption, ReachInv, NEW x \in Queries, Marketplace!Ask(x)
  PROVE  ReachInv'
<1>1. /\ visit' = [at |-> "businesses", q |-> x, offset |-> 0, rows |-> <<>>, areas |-> <<>>]
      /\ seen' = <<>> /\ changed' = FALSE /\ UNCHANGED shop
  BY DEF Marketplace!Ask, Marketplace!Idle
<1>2. /\ visit' \in Visits /\ visit'.at = "businesses" /\ visit'.q = x /\ visit'.offset = 0
      /\ visit'.rows = <<>> /\ seen' \in Seq(Shops)
  BY <1>1 DEF Visits
<1>3. Len(visit'.rows) <= PerPage /\ visit'.offset = 0 * PerPage
  BY <1>2 DEF Marketplace!ReachAssumption
<1>4. VisitTyped' /\ ShopsTyped' /\ PageInv'
  BY <1>1, <1>2, <1>3 DEF ReachInv, VisitTyped, ShopsTyped, PageInv
<1>5. ASSUME NEW o \in Marketplace!ByName(Marketplace!Listed(x))
      PROVE  visit'.offset \in 0 .. Len(o) /\ seen' = SubSeq(o, 1, visit'.offset)
  <2>1. o \in Seq(Marketplace!Listed(x))
    BY ListedNames, ListByName DEF ReachInv
  <2> QED
    BY <1>1, <1>2, <2>1
<1>6. WalkedInv'
  BY <1>1, <1>2, <1>5, ListedStill DEF WalkedInv, Begun
<1> QED
  BY <1>4, <1>6 DEF ReachInv

LEMMA CutTyped ==
  ASSUME PerPage \in Nat \ {0}, NEW S, NEW o \in Seq(S), NEW k \in Nat
  PROVE  Marketplace!Cut(o, k) \in Seq(S) /\ Len(Marketplace!Cut(o, k)) \in 0 .. PerPage
<1> DEFINE m == IF Len(o) <= k + PerPage THEN Len(o) ELSE k + PerPage
<1>1. Len(o) \in Nat /\ m \in 0 .. Len(o) /\ m - k <= PerPage
  OBVIOUS
<1>2. Marketplace!Min({Len(o), k + PerPage}) = m
  BY <1>1 DEF Marketplace!Min
<1>3. Marketplace!Cut(o, k) = SubSeq(o, k + 1, m)
  BY <1>2 DEF Marketplace!Cut
<1> HIDE DEF m
<1>4. CASE k <= m
  BY <1>1, <1>3, <1>4
<1>5. CASE m < k
  <2>1. SubSeq(o, k + 1, m) = <<>>
    BY <1>1, <1>5
  <2>2. <<>> \in Seq(S) /\ Len(<<>>) = 0 /\ 0 \in 0 .. PerPage
    OBVIOUS
  <2> QED
    BY <1>3, <2>1, <2>2
<1> QED
  BY <1>1, <1>4, <1>5

LEMMA ListKeeps ==
  ASSUME Marketplace!ReachAssumption, ReachInv, Marketplace!ListPublicBusinesses
  PROVE  ReachInv'
<1> DEFINE L == Marketplace!Listed(visit.q)
<1>1. PICK o \in Marketplace!ByName(L) :
        visit' = [visit EXCEPT !.at = "areas", !.rows = Marketplace!Cut(o, visit.offset)]
  BY DEF Marketplace!ListPublicBusinesses
<1>2. visit.at = "businesses" /\ UNCHANGED <<shop, seen, changed>> /\ visit \in Visits
  BY DEF Marketplace!ListPublicBusinesses, ReachInv, VisitTyped
<1>3. L \subseteq Shops /\ IsFiniteSet(L) /\ o \in Seq(L)
  BY ListedNames, ListByName DEF ReachInv
<1> DEFINE cut == Marketplace!Cut(o, visit.offset)
<1>4. cut \in Seq(L) /\ Len(cut) <= PerPage /\ visit.offset \in Nat
  BY <1>2, <1>3, CutTyped DEF Marketplace!ReachAssumption, Visits
<1>5. cut \in Seq(Shops) /\ \A i \in DOMAIN cut : cut[i] \in L
  BY <1>3, <1>4
<1> HIDE DEF cut
<1>6. /\ visit'.at = "areas" /\ visit'.rows = cut /\ visit'.q = visit.q
      /\ visit'.offset = visit.offset /\ visit'.areas = visit.areas
      /\ visit' \in Visits
  BY <1>1, <1>2, <1>5 DEF Visits, cut
<1>7. VisitTyped' /\ ShopsTyped'
  BY <1>2, <1>4, <1>6 DEF ReachInv, VisitTyped, ShopsTyped
<1>8. PageInv'
  BY <1>2, <1>5, <1>6, ListedStill DEF PageInv
<1>9. ASSUME ~ changed, NamesDiffer(L) PROVE Begun(o) /\ Begun(o)' /\ Cutoff(o)'
  <2>1. Begun(o)
    BY <1>1, <1>2, <1>9 DEF ReachInv, WalkedInv
  <2> QED
    BY <1>2, <1>6, <2>1 DEF Begun, Cutoff, cut, Marketplace!Cut
<1>10. WalkedInv'
  BY <1>1, <1>2, <1>6, <1>9, ListedStill DEF WalkedInv, Begun, Cutoff
<1> QED
  BY <1>7, <1>8, <1>10 DEF ReachInv

LEMMA AreasKeep ==
  ASSUME Marketplace!ReachAssumption, ReachInv, Marketplace!ListBusinessServiceAreasForBusinesses
  PROVE  ReachInv'
<1> DEFINE L == Marketplace!Listed(visit.q)
           areas == Marketplace!AreasByBusiness(visit.rows)
<1>1. /\ visit.at = "areas" /\ visit' = [visit EXCEPT !.at = "answered", !.areas = areas]
      /\ seen' = seen \o visit.rows /\ UNCHANGED <<shop, changed>>
  BY DEF Marketplace!ListBusinessServiceAreasForBusinesses
<1>2. visit \in Visits /\ visit.rows \in Seq(Shops) /\ seen \in Seq(Shops) /\ ShopsTyped
  BY DEF ReachInv, VisitTyped, Visits
<1>3. areas \in Seq(SUBSET Marketplace!AnyArea)
  <2>1. \A s \in Shops : shop[s].areas \in SUBSET Marketplace!AnyArea
    BY <1>2 DEF ShopsTyped, Marketplace!ReachAssumption
  <2>2. /\ Len(visit.rows) \in Nat /\ DOMAIN visit.rows = 1 .. Len(visit.rows)
        /\ \A i \in 1 .. Len(visit.rows) : visit.rows[i] \in Shops
    BY <1>2
  <2>3. areas = [i \in 1 .. Len(visit.rows) |-> shop[visit.rows[i]].areas]
    BY <2>2 DEF Marketplace!AreasByBusiness
  <2> HIDE DEF areas
  <2> QED
    BY <2>1, <2>2, <2>3
<1> HIDE DEF areas
<1>4. /\ visit'.at = "answered" /\ visit'.rows = visit.rows /\ visit'.q = visit.q
      /\ visit'.offset = visit.offset /\ visit'.areas = areas
      /\ visit' \in Visits
  BY <1>1, <1>2, <1>3 DEF Visits
<1>5. VisitTyped' /\ ShopsTyped'
  BY <1>1, <1>2, <1>4 DEF ReachInv, VisitTyped, ShopsTyped
<1>6. PageInv'
  BY <1>1, <1>4, ListedStill DEF ReachInv, PageInv, areas, Marketplace!AreasByBusiness
<1>7. ASSUME ~ changed, NamesDiffer(L), NEW o \in Marketplace!ByName(L), Begun(o), Cutoff(o)
      PROVE  Cutoff(o)' /\ seen' = SubSeq(o, 1, visit'.offset + Len(visit'.rows))
  <2>1. o \in Seq(L)
    BY ListedNames, ListByName DEF ReachInv
  <2>2. visit.offset \in 0 .. Len(o) /\ seen = SubSeq(o, 1, visit.offset)
        /\ visit.rows = Marketplace!Cut(o, visit.offset)
    BY <1>7 DEF Begun, Cutoff
  <2>3. seen \o visit.rows = SubSeq(o, 1, visit.offset + Len(visit.rows))
    BY <2>1, <2>2, Cutting DEF Marketplace!ReachAssumption
  <2> QED
    BY <1>1, <1>4, <2>2, <2>3 DEF Cutoff, Marketplace!Cut
<1>8. WalkedInv'
  BY <1>1, <1>4, <1>7, ListedStill DEF ReachInv, WalkedInv, Cutoff
<1> QED
  BY <1>5, <1>6, <1>8 DEF ReachInv

LEMMA NextPageKeeps ==
  ASSUME Marketplace!ReachAssumption, ReachInv, Marketplace!NextPage
  PROVE  ReachInv'
<1> DEFINE L == Marketplace!Listed(visit.q)
<1>1. /\ visit.at = "answered" /\ Len(visit.rows) = PerPage
      /\ visit' = [visit EXCEPT !.at = "businesses", !.offset = visit.offset + PerPage,
                                !.rows = <<>>, !.areas = <<>>]
      /\ UNCHANGED <<shop, seen, changed>>
  BY DEF Marketplace!NextPage
<1>2. visit \in Visits /\ visit.offset \in Nat /\ PerPage \in Nat \ {0}
  BY DEF ReachInv, VisitTyped, Visits, Marketplace!ReachAssumption
<1>3. /\ visit'.at = "businesses" /\ visit'.rows = <<>> /\ visit'.q = visit.q
      /\ visit'.offset = visit.offset + PerPage /\ visit'.areas = <<>>
  BY <1>1, <1>2 DEF Visits
<1>4. visit' \in Visits
  <2>1. visit' = [at |-> "businesses", q |-> visit.q, offset |-> visit.offset + PerPage,
                  rows |-> <<>>, areas |-> <<>>]
    BY <1>1, <1>2 DEF Visits
  <2>2. <<>> \in Seq(Shops) /\ <<>> \in Seq(SUBSET Marketplace!AnyArea)
    OBVIOUS
  <2> QED
    BY <1>2, <2>1, <2>2 DEF Visits
<1>5. \E k \in Nat : visit.offset + PerPage = k * PerPage
  <2>1. PICK k \in Nat : visit.offset = k * PerPage
    BY DEF ReachInv, VisitTyped
  <2>2. visit.offset + PerPage = (k + 1) * PerPage
    BY <1>2, <2>1
  <2> QED
    BY <2>2
<1>6. VisitTyped' /\ ShopsTyped'
  BY <1>1, <1>2, <1>3, <1>4, <1>5 DEF ReachInv, VisitTyped, ShopsTyped
<1>7. PageInv'
  BY <1>1, <1>3 DEF PageInv
<1>8. ASSUME ~ changed, NamesDiffer(L), NEW o \in Marketplace!ByName(L)
      PROVE  visit'.offset \in 0 .. Len(o) /\ seen' = SubSeq(o, 1, visit'.offset)
  <2>1. PICK u \in Marketplace!ByName(L) :
          Cutoff(u) /\ seen = SubSeq(u, 1, visit.offset + Len(visit.rows))
    BY <1>1, <1>8 DEF ReachInv, WalkedInv
  <2>2. o = u /\ o \in Seq(L)
    BY <1>8, OneOrder, ListedNames, ListByName DEF ReachInv
  <2>3. visit.offset \in 0 .. Len(o) /\ visit.rows = Marketplace!Cut(o, visit.offset)
    BY <2>1, <2>2 DEF Cutoff
  <2>4. visit.offset + Len(visit.rows) \in visit.offset .. Len(o)
    BY <1>2, <2>2, <2>3, Cutting
  <2> QED
    BY <1>1, <1>2, <1>3, <2>1, <2>2, <2>3, <2>4
<1>9. WalkedInv'
  BY <1>1, <1>3, <1>8, ListedStill DEF WalkedInv, Begun
<1> QED
  BY <1>6, <1>7, <1>9 DEF ReachInv

LEMMA UpdateKeeps ==
  ASSUME ReachInv, NEW s \in Shops, NEW r \in Rows[s], Marketplace!UpdateBusiness(s, r)
  PROVE  ReachInv'
<1>1. shop' = [shop EXCEPT ![s] = r] /\ changed' = TRUE /\ UNCHANGED <<visit, seen>>
  BY DEF Marketplace!UpdateBusiness
<1> QED
  BY <1>1 DEF ReachInv, ShopsTyped, VisitTyped, PageInv, WalkedInv

LEMMA ReachStepKeeps ==
  ASSUME Marketplace!ReachAssumption, ReachInv, [Marketplace!Next]_reachVars
  PROVE  ReachInv'
<1>1. CASE UNCHANGED reachVars
  <2>1. UNCHANGED <<shop, visit, seen, changed>>
    BY <1>1 DEF reachVars
  <2>2. ShopsTyped' /\ VisitTyped'
    BY <2>1 DEF ReachInv, ShopsTyped, VisitTyped
  <2>3. PageInv'
    BY <2>1, ListedStill DEF ReachInv, PageInv, Marketplace!AreasByBusiness
  <2>4. WalkedInv'
    BY <2>1, ListedStill DEF ReachInv, WalkedInv, Begun, Cutoff, Marketplace!Cut
  <2> QED
    BY <2>2, <2>3, <2>4 DEF ReachInv
<1> QED
  BY <1>1, AskKeeps, ListKeeps, AreasKeep, NextPageKeeps, UpdateKeeps DEF Marketplace!Next

LEMMA ReachSound ==
  ASSUME Marketplace!ReachAssumption, ReachInv
  PROVE  /\ Marketplace!TypeOK /\ Marketplace!FoundWhereItServes /\ Marketplace!ShownWithItsArea
         /\ Marketplace!NarrowerShowsLess /\ Marketplace!WalkShowsEachOnce
<1>1. /\ visit \in Visits /\ visit.rows \in Seq(Shops) /\ visit.offset \in Nat
      /\ visit.at # "idle" => visit.q \in Queries
  BY DEF ReachInv, VisitTyped, Visits
<1>2. Marketplace!TypeOK
  <2>1. PICK k \in Nat : visit.offset = k * PerPage
    BY DEF ReachInv, VisitTyped
  <2>2. visit.offset % PerPage = 0
    <3> DEFINE d == visit.offset \div PerPage
               m == visit.offset % PerPage
    <3>1. d \in Int /\ m \in 0 .. PerPage - 1 /\ visit.offset = PerPage * d + m /\ PerPage \in Nat \ {0}
      BY <1>1 DEF Marketplace!ReachAssumption
    <3> HIDE DEF d, m
    <3>2. m = PerPage * (k - d)
      BY <2>1, <3>1
    <3>3. CASE k - d <= 0
      BY <3>1, <3>2, <3>3
    <3>4. CASE k - d >= 1
      BY <3>1, <3>2, <3>4
    <3>5. m = 0
      BY <3>1, <3>3, <3>4
    <3> QED
      BY <3>5 DEF m
  <2> QED
    BY <1>1, <2>2 DEF ReachInv, VisitTyped, ShopsTyped, Visits, Marketplace!TypeOK
<1>3. Marketplace!FoundWhereItServes
  BY <1>1, MobileReached DEF ReachInv, Marketplace!FoundWhereItServes
<1>4. Marketplace!ShownWithItsArea
  <2> SUFFICES ASSUME visit.at = "answered", ~ changed, Marketplace!HasAreaFilter(visit.q),
                      NEW i \in DOMAIN visit.rows, shop[visit.rows[i]].mode = "mobile"
               PROVE  Marketplace!Serves(visit.areas[i], visit.q)
    BY DEF Marketplace!ShownWithItsArea
  <2>1. visit.rows[i] \in Marketplace!Listed(visit.q) /\ visit.rows[i] \in Shops
    BY <1>1 DEF ReachInv, PageInv
  <2>2. visit.areas[i] = shop[visit.rows[i]].areas
    BY DEF ReachInv, PageInv, Marketplace!AreasByBusiness
  <2> QED
    BY <1>1, <2>1, <2>2, MobileReached DEF ReachInv
<1>5. Marketplace!NarrowerShowsLess
  BY WiderReachesMore DEF Marketplace!NarrowerShowsLess, Wider
<1>6. Marketplace!WalkShowsEachOnce
  <2> DEFINE L == Marketplace!Listed(visit.q)
  <2> SUFFICES ASSUME visit.at = "answered", Len(visit.rows) < PerPage, ~ changed, NamesDiffer(L)
               PROVE  seen \in Marketplace!SetToSeqs(L)
    BY DEF Marketplace!WalkShowsEachOnce, NamesDiffer, Name
  <2>1. PICK o \in Marketplace!ByName(L) :
          Cutoff(o) /\ seen = SubSeq(o, 1, visit.offset + Len(visit.rows))
    BY DEF ReachInv, WalkedInv
  <2>2. o \in Seq(L)
    BY ListedNames, ListByName DEF ReachInv
  <2>3. visit.offset + Len(visit.rows) = Len(o)
    BY <2>1, <2>2, Cutting DEF Cutoff, Marketplace!ReachAssumption
  <2>4. seen = o
    BY <2>1, <2>2, <2>3
  <2> QED
    BY <2>4 DEF Marketplace!ByName
<1> QED
  BY <1>2, <1>3, <1>4, <1>5, <1>6

-----------------------------------------------------------------------------
(* Offers: theorems *)

LEMMA ReachInvariant == ASSUME Marketplace!ReachAssumption PROVE Marketplace!Spec => []ReachInv
<1>1. Marketplace!Init => ReachInv
  BY ReachStarts
<1>2. ReachInv /\ [Marketplace!Next]_(Marketplace!vars) => ReachInv'
  BY ReachStepKeeps DEF Marketplace!vars, reachVars
<1> QED
  BY <1>1, <1>2, PTL DEF Marketplace!Spec

LEMMA SlotsInvariant == ASSUME Offered!SlotsAssumption PROVE Offered!Spec => []SlotsInv
<1>1. Offered!Init => SlotsInv
  BY SlotsStart
<1>2. SlotsInv /\ [Offered!Step]_(Offered!vars) => SlotsInv'
  BY SlotsStepKeeps
<1> QED
  BY <1>1, <1>2, PTL DEF Offered!Spec

LEMMA SlotsPart == OffersSpec => Offered!Spec
<1>1. OffersInit => Offered!Init
  BY DEF OffersInit, SlotsRest
<1>2. [OffersNext]_offerVars => [Offered!Step]_(Offered!vars)
  BY DEF OffersNext, SlotsDone, offerVars, slotVars, Offered!vars
<1> QED
  BY <1>1, <1>2, PTL DEF OffersSpec, Offered!Spec

LEMMA ReachPart == OffersSpec => Marketplace!Spec
<1>1. OffersInit => Marketplace!Init
  BY DEF OffersInit, ReachRests
<1>2. [OffersNext]_offerVars => [Marketplace!Next]_(Marketplace!vars)
  BY DEF OffersNext, SlotsDone, offerVars, reachVars, Marketplace!vars
<1> QED
  BY <1>1, <1>2, PTL DEF OffersSpec, Marketplace!Spec

\* parseReachFilter and the statement of ListPublicBusinesses: a mobile business is found if
\* and only if it serves some part of the place asked for, and is shown with an area that
\* does; one more field finds nobody else; and the pages of an unchanged marketplace in which
\* names differ are one list, each business once, whatever order each statement chose.
THEOREM FoundRight == OffersSpec => []FoundWhereItServes
<1>1. Marketplace!ReachAssumption
  BY OffersAssumption
<1>2. ReachInv => FoundWhereItServes
  BY <1>1, ReachSound DEF FoundWhereItServes
<1> QED
  BY <1>1, <1>2, ReachPart, ReachInvariant, PTL

\* Slots of internal/scheduling: once the loop over a date ends it has offered every start that
\* lies in an opening with its duration and buffer, and no other, for any hours, closed dates
\* and zone, and any change of its offset that leaves the midnights that count.
THEOREM SlotsRight == OffersSpec => []SlotsAreTheOpenings
<1>1. Offered!SlotsAssumption
  BY OffersAssumption
<1>2. SlotsInv => SlotsAreTheOpenings
  BY <1>1, SlotsSound DEF SlotsAreTheOpenings
<1> QED
  BY <1>1, <1>2, SlotsPart, SlotsInvariant, PTL
=============================================================================
