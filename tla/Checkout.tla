------------------------------ MODULE Checkout ------------------------------
(***************************************************************************)
(* The checkout action of internal/billing: how a business without a       *)
(* subscription comes to have one.  The handler holds the lock of the      *)
(* subscription row while it makes the customer, looks for subscriptions   *)
(* and open checkout sessions, and makes a session; the buyer pays an open *)
(* session at any time.  Stripe keeps an idempotency key for about a day:  *)
(* here, until it forgets it.                                              *)
(***************************************************************************)
EXTENDS Integers, FiniteSets

CONSTANTS
  Keys,           \* Idempotency-Key values
  Plans,        \* selections of a tier and its modules
  None,
  MaxSessions,    \* bound: sessions ever made
  MaxTries        \* bound: requests with one key

CheckoutAssumption ==
  /\ None \notin Keys \union Plans
  /\ MaxSessions \in Nat \ {0} /\ MaxTries \in Nat

VARIABLES
  customers,      \* number of customers made at Stripe for the business
  known,          \* Stripe's idempotency key of the business: customer made with it, or 0
  mapped,         \* customer of the row, or 0
  sessions,       \* number of a checkout session at Stripe -> its state
  made,           \* Stripe's idempotency keys: key of a creation -> session and parameters
  saved,          \* billing_operations: key -> input and session answered, or None
  call,           \* key -> request under way
  holder,         \* request that holds the lock of the row, or None
  answered        \* auxiliary: pairs of an input and the session answered for it

stripe == <<customers, known, sessions, made>>
vars == <<stripe, mapped, saved, call, holder, answered>>

Idle == [at |-> "idle", tries |-> 0, input |-> None, customer |-> 0, open |-> {}, session |-> 0]
Put(f, k, x) == [j \in DOMAIN f \union {k} |-> IF j = k THEN x ELSE f[j]]

Open == {s \in DOMAIN sessions : sessions[s].state = "open"}
OpenOf(c) == {s \in Open : sessions[s].customer = c}

\* A session that was paid is a subscription of its customer until that is canceled.
Subscriptions(c) == {s \in DOMAIN sessions : sessions[s].customer = c /\ sessions[s].state = "complete"}
Goes(k, place) == call' = [call EXCEPT ![k].at = place]
Ends(k) == call' = [call EXCEPT ![k] = [Idle EXCEPT !.tries = call[k].tries]]
Holds(k, place) == holder = k /\ call[k].at = place
-----------------------------------------------------------------------------
(* Stripe and the buyer *)

Pay(s) ==
  /\ s \in Open /\ sessions' = [sessions EXCEPT ![s].state = "complete"]
  /\ UNCHANGED <<customers, known, made, mapped, saved, call, holder, answered>>

Lapse(s) ==
  /\ s \in Open /\ sessions' = [sessions EXCEPT ![s].state = "expired"]
  /\ UNCHANGED <<customers, known, made, mapped, saved, call, holder, answered>>

Cancel(s) ==
  /\ sessions[s].state = "complete" /\ sessions' = [sessions EXCEPT ![s].state = "canceled"]
  /\ UNCHANGED <<customers, known, made, mapped, saved, call, holder, answered>>

\* The time of a key is over.  It is missed by requests to come, if they name it at all.
ForgetCustomer ==
  /\ known # 0 /\ mapped = 0 /\ holder = None /\ known' = 0
  /\ UNCHANGED <<customers, sessions, made, mapped, saved, call, holder, answered>>

ForgetSession(k) ==
  /\ call[k].at = "idle" /\ call[k].tries < MaxTries /\ saved[k] = None
  /\ k \in DOMAIN made /\ made' = [j \in DOMAIN made \ {k} |-> made[j]]
  /\ UNCHANGED <<customers, known, sessions, mapped, saved, call, holder, answered>>
-----------------------------------------------------------------------------
(* mutate *)

\* EnsureSubscription, then LockSubscription.
LockSubscription(k) == holder = None /\ holder' = k

Lock(k, input) ==
  /\ call[k].at = "idle" /\ call[k].tries < MaxTries /\ saved[k] = None
  /\ LockSubscription(k)
  /\ call' = [call EXCEPT ![k] =
                [Idle EXCEPT !.at = IF mapped = 0 THEN "customer" ELSE "subscriptions",
                             !.tries = call[k].tries + 1, !.input = input, !.customer = mapped]]
  /\ UNCHANGED <<stripe, mapped, saved, answered>>

\* The key has been answered: the same answer for the same input, and none for another.
Replay(k, input) ==
  /\ call[k].at = "idle" /\ saved[k] # None /\ saved[k].input = input
  /\ answered' = answered \union {<<input, saved[k].session>>}
  /\ UNCHANGED <<stripe, mapped, saved, call, holder>>

\* The idempotency key of the customer is the business: a second creation after a rollback
\* returns the first customer, as long as Stripe has the key.
CreateCustomer(k) ==
  /\ Holds(k, "customer")
  /\ IF known = 0 THEN customers' = customers + 1 /\ known' = customers'
                  ELSE UNCHANGED <<customers, known>>
  /\ call' = [call EXCEPT ![k].at = "subscriptions", ![k].customer = known']
  /\ UNCHANGED <<sessions, made, mapped, saved, holder, answered>>

\* The answer is saved, and the customer if it is new.
Commit(k) ==
  /\ Holds(k, "done") /\ holder' = None /\ Ends(k)
  /\ mapped' = call[k].customer
  /\ saved' = [saved EXCEPT ![k] = [input |-> call[k].input, session |-> call[k].session]]
  /\ answered' = answered \union {<<call[k].input, call[k].session>>}
  /\ UNCHANGED stripe

\* A refusal of the handler or of Stripe, a lost answer, a failed commit, a stop.
Fail(k) ==
  /\ call[k].at # "idle" /\ Ends(k)
  /\ holder' = IF holder = k THEN None ELSE holder
  /\ UNCHANGED <<stripe, mapped, saved, answered>>
-----------------------------------------------------------------------------
(* checkout *)

\* A customer with a subscription is refused.
ListSubscriptions(k) ==
  /\ Holds(k, "subscriptions") /\ Subscriptions(call[k].customer) = {} /\ Goes(k, "sessions")
  /\ UNCHANGED <<stripe, mapped, saved, holder, answered>>

ListSessions(k) ==
  /\ Holds(k, "sessions")
  /\ call' = [call EXCEPT ![k].at = "choose", ![k].open = OpenOf(call[k].customer)]
  /\ UNCHANGED <<stripe, mapped, saved, holder, answered>>

\* The one open checkout, if it is for the same selection and takes promotion codes.
Reuse(k) ==
  /\ Holds(k, "choose")
  /\ \E s \in call[k].open :
       /\ call[k].open = {s} /\ sessions[s].choice = call[k].input /\ sessions[s].promotion
       /\ call' = [call EXCEPT ![k].at = "done", ![k].session = s]
  /\ UNCHANGED <<stripe, mapped, saved, holder, answered>>

\* Mutant: the open checkout is left to expire of itself.
LeaveOld(k) ==
  /\ Holds(k, "choose")
  /\ \E s \in call[k].open :
       /\ call[k].open = {s} /\ sessions[s].choice = call[k].input /\ ~ sessions[s].promotion
       /\ Goes(k, "create")
  /\ UNCHANGED <<stripe, mapped, saved, holder, answered>>

\* One that does not is expired, unless it has been paid meanwhile.
Expire(k) ==
  /\ Holds(k, "choose")
  /\ \E s \in call[k].open :
       /\ call[k].open = {s} /\ sessions[s].choice = call[k].input /\ ~ sessions[s].promotion
       /\ s \in Open /\ sessions' = [sessions EXCEPT ![s].state = "expired"]
       /\ Goes(k, "create")
  /\ UNCHANGED <<customers, known, made, mapped, saved, holder, answered>>

\* A repeated creation is answered with its first session, whatever became of it, and refused
\* when it asks for something else.
Create(k) ==
  /\ Holds(k, "create") \/ (Holds(k, "choose") /\ call[k].open = {})
  /\ LET s == Cardinality(DOMAIN sessions) + 1
         asked == [customer |-> call[k].customer, choice |-> call[k].input]
     IN IF k \in DOMAIN made
        THEN /\ made[k].asked = asked
             /\ call' = [call EXCEPT ![k].at = "done", ![k].session = made[k].session]
             /\ UNCHANGED <<sessions, made>>
        ELSE /\ s <= MaxSessions
             /\ sessions' = Put(sessions, s, [customer |-> call[k].customer,
                                 choice |-> call[k].input, promotion |-> TRUE, state |-> "open"])
             /\ made' = Put(made, k, [session |-> s, asked |-> asked])
             /\ call' = [call EXCEPT ![k].at = "done", ![k].session = s]
  /\ UNCHANGED <<customers, known, mapped, saved, holder, answered>>
-----------------------------------------------------------------------------
\* A business that is new, or has a checkout from before promotion codes.
Init ==
  /\ \/ customers = 0 /\ mapped = 0 /\ sessions = [s \in {} |-> {}]
     \/ /\ customers = 1 /\ mapped = 1
        /\ \E p \in Plans :
             sessions = [s \in {1} |-> [customer |-> 1, choice |-> p, promotion |-> FALSE,
                                       state |-> "open"]]
  /\ known = 0 /\ made = [k \in {} |-> {}] /\ saved = [k \in Keys |-> None]
  /\ call = [k \in Keys |-> Idle] /\ holder = None /\ answered = {}

Checkouts(k) ==
  \/ \E input \in Plans : Lock(k, input) \/ Replay(k, input)
  \/ CreateCustomer(k) \/ ListSubscriptions(k) \/ ListSessions(k)
  \/ Reuse(k) \/ Expire(k) \/ Create(k) \/ Commit(k) \/ Fail(k)

Next ==
  \/ \E k \in Keys : Checkouts(k)
  \/ \E s \in DOMAIN sessions : Pay(s) \/ Lapse(s) \/ Cancel(s)
  \/ ForgetCustomer \/ \E k \in Keys : ForgetSession(k)

Spec == Init /\ [][Next]_vars
-----------------------------------------------------------------------------
\* The request that holds the lock is the one under way.
TypeOK ==
  /\ customers \in Nat /\ known \in 0 .. customers /\ mapped \in 0 .. customers
  /\ DOMAIN sessions \subseteq 1 .. MaxSessions
  /\ \A s \in DOMAIN sessions :
       /\ sessions[s].state \in {"open", "complete", "canceled", "expired"}
       /\ sessions[s].customer \in 1 .. customers
  /\ \A k \in Keys : call[k].at # "idle" <=> holder = k
  /\ \A k \in Keys : saved[k] # None => <<saved[k].input, saved[k].session>> \in answered

\* Two checkouts of a customer never wait for the buyer at once, whoever asks for them, in
\* whatever order calls fail and whatever Stripe forgets: paying both would be two
\* subscriptions.
OneOpenSession == \A c \in 1 .. customers : Cardinality(OpenOf(c)) <= 1

\* What is answered is a checkout of the customer the row has: not of one that was made by a
\* request that was rolled back, and whose payments would reach no business.
AnsweredIsOfTheRow == \A pair \in answered : sessions[pair[2]].customer = mapped

\* internal/billing/handler.go: "Never reuse a checkout for another selection".
\* Nor does a repeated key, before or after it was answered.
SelectionKept == \A pair \in answered : sessions[pair[2]].choice = pair[1]

\* README: "Existing subscriptions still use the change flow or portal."  A
\* customer with a subscription does not buy another one by a checkout.
\* The code does not keep it.
OneSubscription == \A c \in 1 .. customers : Cardinality(Subscriptions(c)) <= 1
=============================================================================
