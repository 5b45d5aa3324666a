--------------------------- MODULE AccountsProofs ---------------------------
(***************************************************************************)
(* Proofs about the five parts of Owners, which share no variable.  Each   *)
(* has an inductive invariant of its own; the theorems about Owners are at *)
(* the end.                                                                *)
(***************************************************************************)
EXTENDS Owners, FiniteSetTheorems, TLAPS

-----------------------------------------------------------------------------
(* Checkout: the inductive invariant *)

Session == [customer: Nat, choice: Plans, promotion: BOOLEAN, state: {"open", "complete", "canceled", "expired"}]
Checkout ==
  [at: {"idle", "customer", "subscriptions", "sessions", "choose", "create", "done"},
   tries: Nat, input: Plans \union {None}, customer: Nat, open: SUBSET Nat, session: Nat]

\* A session of a customer for a selection, which no step makes another's.
Answers(s, c, input) == s \in DOMAIN sessions /\ sessions[s].customer = c /\ sessions[s].choice = input
Keeps ==
  /\ DOMAIN sessions \subseteq DOMAIN sessions'
  /\ \A s \in DOMAIN sessions :
       sessions'[s].customer = sessions[s].customer /\ sessions'[s].choice = sessions[s].choice

\* Sessions are numbered; of each customer one at most is open.
SessionsInv ==
  /\ customers \in Nat /\ known \in 0 .. customers /\ mapped \in 0 .. customers
  /\ \E n \in 0 .. MaxSessions : sessions \in [1 .. n -> Session]
  /\ \A s \in DOMAIN sessions : sessions[s].customer \in 1 .. customers
  /\ \A s, t \in Subscribing!Open : sessions[s].customer = sessions[t].customer => s = t

\* The request that has the lock works for the customer of the row, if it has one; it knows
\* every open session of its customer when it chooses, and creates one only when there is
\* none: no one else makes one.
Chosen(c) ==
  /\ c.at # "idle" => c.input \in Plans
  /\ c.at = "customer" => mapped = 0
  /\ c.at \notin {"idle", "customer"} => c.customer \in 1 .. customers /\ mapped \in {0, c.customer}
  /\ c.at = "choose" =>
       /\ Subscribing!OpenOf(c.customer) \subseteq c.open
       /\ \A s \in c.open : s \in DOMAIN sessions /\ sessions[s].customer = c.customer
  /\ c.at = "create" => Subscribing!OpenOf(c.customer) = {}
  /\ c.at = "done" => Answers(c.session, c.customer, c.input)
ChoiceInv ==
  /\ holder \in Keys \union {None} /\ checkout \in [Keys -> Checkout]
  /\ \A k \in Keys : checkout[k].at # "idle" <=> holder = k
  /\ \A k \in Keys : Chosen(checkout[k])

\* Whatever was made with a key is for what was asked with it, and whatever was answered is
\* for the selection asked for and the customer of the row.
AnswersInv ==
  /\ \A k \in DOMAIN made : Answers(made[k].session, made[k].asked.customer, made[k].asked.choice)
  /\ \A pair \in answered : Answers(pair[2], mapped, pair[1])
  /\ DOMAIN saved = Keys
  /\ \A k \in Keys : saved[k] # None => <<saved[k].input, saved[k].session>> \in answered

CheckoutInv == SessionsInv /\ ChoiceInv /\ AnswersInv

-----------------------------------------------------------------------------
(* Checkout: what steps make of the sessions *)

LEMMA SameCardinality == \A S : Subscribing!Cardinality(S) = Cardinality(S)
BY DEF Cardinality, Subscribing!Cardinality

LEMMA SessionFacts ==
  ASSUME Subscribing!CheckoutAssumption, SessionsInv
  PROVE  /\ sessions \in [DOMAIN sessions -> Session]
         /\ DOMAIN sessions = 1 .. Cardinality(DOMAIN sessions)
         /\ Cardinality(DOMAIN sessions) \in 0 .. MaxSessions
<1>1. PICK n \in 0 .. MaxSessions : sessions \in [1 .. n -> Session]
  BY DEF SessionsInv
<1>2. MaxSessions \in Nat /\ n \in Nat
  BY <1>1 DEF Subscribing!CheckoutAssumption
<1>3. Cardinality(1 .. n) = n
  BY <1>2, FS_Interval
<1>4. DOMAIN sessions = 1 .. n
  BY <1>1
<1> QED
  BY <1>1, <1>3, <1>4

\* What a step leaves of the invariant when it makes no session and no answer.
SessionsKept ==
  /\ SessionsInv' /\ Subscribing!Open' \subseteq Subscribing!Open
  /\ DOMAIN sessions' = DOMAIN sessions
  /\ 1 .. customers \subseteq 1 .. customers' /\ mapped' = mapped
  /\ Keeps

LEMMA OpenOfShrinks ==
  ASSUME SessionsKept, NEW c
  PROVE  Subscribing!OpenOf(c)' \subseteq Subscribing!OpenOf(c)
BY DEF SessionsKept, Keeps, Subscribing!OpenOf, Subscribing!Open

LEMMA StayKept ==
  ASSUME SessionsInv, UNCHANGED <<sessions, mapped>>,
         \/ UNCHANGED <<customers, known>>
         \/ customers' = customers /\ known' = 0
         \/ customers' = customers + 1 /\ known' = customers'
  PROVE  SessionsKept
<1>1. customers' \in Nat /\ known' \in 0 .. customers' /\ mapped \in 0 .. customers'
      /\ 1 .. customers \subseteq 1 .. customers'
  BY DEF SessionsInv
<1>2. SessionsInv'
  BY <1>1 DEF SessionsInv, Subscribing!Open
<1> QED
  BY <1>1, <1>2 DEF SessionsKept, Subscribing!Open, Keeps

\* A session that is paid, expires or is canceled is not open; nothing else changes.
LEMMA ClosesKept ==
  ASSUME Subscribing!CheckoutAssumption, SessionsInv, NEW s \in DOMAIN sessions,
         NEW x \in {"complete", "expired", "canceled"}, sessions' = [sessions EXCEPT ![s].state = x],
         UNCHANGED <<customers, known, mapped>>
  PROVE  SessionsKept /\ Subscribing!Open' = Subscribing!Open \ {s}
<1>1. sessions \in [DOMAIN sessions -> Session]
  BY SessionFacts
<1>2. /\ sessions' \in [DOMAIN sessions -> Session] /\ DOMAIN sessions' = DOMAIN sessions
      /\ sessions'[s].state = x /\ sessions'[s].choice = sessions[s].choice
      /\ sessions'[s].customer = sessions[s].customer
      /\ \A t \in DOMAIN sessions : t # s => sessions'[t] = sessions[t]
  BY <1>1 DEF Session
<1>3. Subscribing!Open' = Subscribing!Open \ {s}
  BY <1>2 DEF Subscribing!Open
<1>4. Keeps
  BY <1>2 DEF Keeps
<1>5. \A t \in DOMAIN sessions' : sessions'[t].customer \in 1 .. customers
  BY <1>2, <1>4 DEF SessionsInv, Keeps
<1>6. \A t, u \in Subscribing!Open' : sessions'[t].customer = sessions'[u].customer => t = u
  BY <1>3, <1>4 DEF SessionsInv, Keeps, Subscribing!Open
<1>7. SessionsInv'
  BY <1>2, <1>5, <1>6 DEF SessionsInv
<1> QED
  BY <1>2, <1>3, <1>4, <1>7 DEF SessionsKept

\* A new session has the next number, and is open.
LEMMA Makes ==
  ASSUME Subscribing!CheckoutAssumption, SessionsInv, NEW c \in 1 .. customers, NEW i \in Plans, NEW s,
         s = Cardinality(DOMAIN sessions) + 1, s <= MaxSessions, Subscribing!OpenOf(c) = {},
         sessions' = Subscribing!Put(sessions, s,
                       [customer |-> c, choice |-> i, promotion |-> TRUE, state |-> "open"]),
         UNCHANGED <<customers, known, mapped>>
  PROVE  s \in Nat /\ SessionsInv' /\ Answers(s, c, i)' /\ Keeps
<1> DEFINE new == [customer |-> c, choice |-> i, promotion |-> TRUE, state |-> "open"]
           n == Cardinality(DOMAIN sessions)
<1>1. /\ sessions \in [DOMAIN sessions -> Session] /\ DOMAIN sessions = 1 .. n /\ n \in Nat
      /\ MaxSessions \in Nat
  BY SessionFacts DEF Subscribing!CheckoutAssumption
<1>2. new \in Session /\ new.customer = c /\ new.choice = i /\ new.state = "open"
  <2>1. c \in Nat
    BY DEF SessionsInv
  <2> QED
    BY <2>1 DEF Session
<1>3. s = n + 1
  OBVIOUS
<1>4. sessions' = [j \in DOMAIN sessions \union {s} |-> IF j = s THEN new ELSE sessions[j]]
  BY DEF Subscribing!Put
<1> HIDE DEF new, n
<1>5. s \notin DOMAIN sessions /\ DOMAIN sessions \union {s} = 1 .. s /\ s \in 0 .. MaxSessions /\ s \in Nat
  BY <1>1, <1>3
<1>6. /\ DOMAIN sessions' = DOMAIN sessions \union {s} /\ sessions'[s] = new
      /\ \A t \in DOMAIN sessions : sessions'[t] = sessions[t] /\ t # s
  BY <1>4, <1>5
<1>7. sessions' \in [1 .. s -> Session]
  BY <1>1, <1>2, <1>4, <1>5
<1>8. Subscribing!Open' = Subscribing!Open \union {s}
  BY <1>2, <1>6 DEF Subscribing!Open
<1>9. \A t \in Subscribing!Open : t \in DOMAIN sessions /\ sessions[t].customer # c
  BY DEF Subscribing!OpenOf, Subscribing!Open
<1>10. \A t, u \in Subscribing!Open' : sessions'[t].customer = sessions'[u].customer => t = u
  <2>1. sessions'[s].customer = c
    BY <1>2, <1>6
  <2>2. \A t \in Subscribing!Open : sessions'[t].customer = sessions[t].customer /\ sessions[t].customer # c
    BY <1>6, <1>9
  <2>3. \A t, u \in Subscribing!Open : sessions[t].customer = sessions[u].customer => t = u
    BY DEF SessionsInv
  <2>4. ASSUME NEW t \in Subscribing!Open', NEW u \in Subscribing!Open', sessions'[t].customer = sessions'[u].customer
        PROVE  t = u
    <3>1. CASE t = s \/ u = s
      BY <1>8, <2>1, <2>2, <2>4, <3>1
    <3>2. CASE t # s /\ u # s
      BY <1>8, <2>2, <2>3, <2>4, <3>2
    <3> QED
      BY <3>1, <3>2
  <2> QED
    BY <2>4
<1>11. \A t \in DOMAIN sessions' : sessions'[t].customer \in 1 .. customers
  BY <1>2, <1>6 DEF SessionsInv
<1>12. Answers(s, c, i)' /\ Keeps
  BY <1>2, <1>6 DEF Answers, Keeps
<1>13. SessionsInv'
  BY <1>5, <1>7, <1>10, <1>11 DEF SessionsInv
<1> QED
  BY <1>5, <1>12, <1>13

-----------------------------------------------------------------------------
(* Checkout: the invariant is kept *)

LEMMA CheckoutInit ==
  ASSUME Subscribing!CheckoutAssumption, Subscribing!Init
  PROVE  CheckoutInv
<1>1. MaxSessions \in Nat \ {0} /\ None \notin Keys
  BY DEF Subscribing!CheckoutAssumption
<1>2. known = 0 /\ made = [k \in {} |-> {}] /\ saved = [k \in Keys |-> None]
      /\ checkout = [k \in Keys |-> Subscribing!Idle] /\ holder = None /\ answered = {}
  BY DEF Subscribing!Init
<1>3. ASSUME customers = 0, mapped = 0, sessions = [s \in {} |-> {}] PROVE SessionsInv
  <2>1. 1 .. 0 = {} /\ 0 \in 0 .. MaxSessions
    BY <1>1
  <2>2. sessions \in [1 .. 0 -> Session] /\ DOMAIN sessions = {}
    BY <1>3, <2>1
  <2> QED
    BY <1>2, <1>3, <2>1, <2>2 DEF SessionsInv, Subscribing!Open
<1>4. ASSUME customers = 1, mapped = 1, NEW p \in Plans,
             sessions = [s \in {1} |-> [customer |-> 1, choice |-> p, promotion |-> FALSE, state |-> "open"]]
      PROVE  SessionsInv
  <2>1. 1 .. 1 = {1} /\ 1 \in 0 .. MaxSessions
    BY <1>1
  <2>2. sessions \in [1 .. 1 -> Session] /\ DOMAIN sessions = {1} /\ sessions[1].customer = 1
    BY <1>4, <2>1 DEF Session
  <2> QED
    BY <1>2, <1>4, <2>1, <2>2 DEF SessionsInv, Subscribing!Open
<1>5. SessionsInv
  BY <1>3, <1>4 DEF Subscribing!Init
<1>6. ChoiceInv
  BY <1>1, <1>2 DEF ChoiceInv, Chosen, Checkout, Subscribing!Idle
<1>7. AnswersInv
  BY <1>2 DEF AnswersInv
<1> QED
  BY <1>5, <1>6, <1>7 DEF CheckoutInv

LEMMA AnswersKept ==
  ASSUME AnswersInv, Keeps, UNCHANGED <<saved, mapped, answered>>,
         \A k \in DOMAIN made' : k \in DOMAIN made /\ made'[k] = made[k]
  PROVE  AnswersInv'
<1>1. (\A k \in DOMAIN made : Answers(made[k].session, made[k].asked.customer, made[k].asked.choice))'
  BY DEF AnswersInv, Keeps, Answers
<1>2. (\A pair \in answered : Answers(pair[2], mapped, pair[1]))'
  BY DEF AnswersInv, Keeps, Answers
<1> QED
  BY <1>1, <1>2 DEF AnswersInv

\* A request that goes on, and the sessions that others close.
LEMMA ChoiceKept ==
  ASSUME ChoiceInv, SessionsKept, UNCHANGED <<checkout, holder>>
  PROVE  ChoiceInv'
<1>1. ASSUME NEW k \in Keys PROVE Chosen(checkout[k])'
  <2>1. Chosen(checkout[k]) /\ checkout'[k] = checkout[k]
    BY DEF ChoiceInv
  <2>2. Subscribing!OpenOf(checkout[k].customer)' \subseteq Subscribing!OpenOf(checkout[k].customer)
    BY OpenOfShrinks DEF Subscribing!OpenOf
  <2> QED
    BY <2>1, <2>2 DEF Chosen, SessionsKept, Keeps, Answers
<1> QED
  BY <1>1 DEF ChoiceInv

\* What the request that has the lock, or takes it, may make of itself.
LEMMA GoesKept ==
  ASSUME Subscribing!CheckoutAssumption, ChoiceInv, NEW k \in Keys, NEW c \in Checkout,
         checkout' = [checkout EXCEPT ![k] = c], holder' \in {holder, k, None},
         holder' = k <=> c.at # "idle", holder \in {None, k}, Chosen(c)'
  PROVE  ChoiceInv'
<1>1. None \notin Keys
  BY DEF Subscribing!CheckoutAssumption
<1>2. /\ checkout' \in [Keys -> Checkout] /\ checkout'[k] = c
      /\ \A j \in Keys \ {k} : checkout'[j] = checkout[j] /\ checkout[j].at = "idle" /\ holder' # j
  BY <1>1 DEF ChoiceInv
<1>3. ASSUME NEW j \in Keys \ {k} PROVE Chosen(checkout[j])'
  BY <1>2 DEF Chosen
<1>4. Chosen(checkout[k])'
  BY <1>2 DEF Chosen
<1> QED
  BY <1>2, <1>3, <1>4 DEF ChoiceInv

\* The value a request takes when only its place changes.
LEMMA AtPlace ==
  ASSUME ChoiceInv, NEW k \in Keys, NEW place \in {"sessions", "create"}, Subscribing!Goes(k, place)
  PROVE  \E c \in Checkout :
           /\ checkout' = [checkout EXCEPT ![k] = c] /\ c.at = place
           /\ c.input = checkout[k].input /\ c.customer = checkout[k].customer
<1> DEFINE c == [checkout[k] EXCEPT !.at = place]
<1>1. checkout[k] \in Checkout
  BY DEF ChoiceInv
<1>2. c \in Checkout /\ c.at = place /\ c.input = checkout[k].input /\ c.customer = checkout[k].customer
  BY <1>1 DEF Checkout
<1>3. checkout' = [checkout EXCEPT ![k] = c]
  BY <1>1 DEF Subscribing!Goes
<1> QED
  BY <1>2, <1>3

LEMMA AtEnd ==
  ASSUME ChoiceInv, NEW k \in Keys, Subscribing!Ends(k)
  PROVE  \E c \in Checkout : checkout' = [checkout EXCEPT ![k] = c] /\ c.at = "idle"
<1> DEFINE c == [Subscribing!Idle EXCEPT !.tries = checkout[k].tries]
<1>1. checkout[k] \in Checkout
  BY DEF ChoiceInv
<1>2. c \in Checkout /\ c.at = "idle"
  BY <1>1 DEF Checkout, Subscribing!Idle
<1>3. checkout' = [checkout EXCEPT ![k] = c]
  BY DEF Subscribing!Ends
<1> QED
  BY <1>2, <1>3

\* What the holder of the lock is.
LEMMA Holding ==
  ASSUME Subscribing!CheckoutAssumption, CheckoutInv, NEW k \in Keys, NEW place, place # "idle",
         Subscribing!Holds(k, place)
  PROVE  /\ holder = k /\ holder # None /\ checkout[k] \in Checkout /\ checkout[k].at = place
         /\ checkout \in [Keys -> Checkout] /\ Chosen(checkout[k])
BY DEF CheckoutInv, ChoiceInv, Subscribing!Holds, Subscribing!CheckoutAssumption

LEMMA LockKept ==
  ASSUME Subscribing!CheckoutAssumption, CheckoutInv, NEW k \in Keys, NEW input \in Plans,
         Subscribing!Lock(k, input)
  PROVE  CheckoutInv'
<1>1. checkout[k] \in Checkout /\ holder = None /\ holder' = k /\ None \notin Keys
      /\ UNCHANGED <<customers, known, sessions, made, mapped, saved, answered>>
  BY DEF CheckoutInv, ChoiceInv, Subscribing!Lock, Subscribing!LockSubscription, Subscribing!stripe,
         Subscribing!CheckoutAssumption
<1>2. customers \in Nat /\ mapped \in 0 .. customers
  BY DEF CheckoutInv, SessionsInv
<1>3. PICK c : c = [Subscribing!Idle EXCEPT !.at = IF mapped = 0 THEN "customer" ELSE "subscriptions",
                      !.tries = checkout[k].tries + 1, !.input = input, !.customer = mapped]
  OBVIOUS
<1>4. c = [at |-> IF mapped = 0 THEN "customer" ELSE "subscriptions", tries |-> checkout[k].tries + 1,
           input |-> input, customer |-> mapped, open |-> {}, session |-> 0]
  BY <1>3 DEF Subscribing!Idle
<1>5. checkout' = [checkout EXCEPT ![k] = c]
  BY <1>3 DEF Subscribing!Lock
<1>6. c \in Checkout /\ c.at \in {"customer", "subscriptions"} /\ c.at # "idle" /\ c.input = input
      /\ c.customer = mapped /\ (c.at = "customer" => mapped = 0) /\ (c.at # "customer" => mapped # 0)
  BY <1>1, <1>2, <1>4 DEF Checkout
<1>7. Chosen(c)'
  BY <1>1, <1>2, <1>6 DEF Chosen
<1>8. ChoiceInv'
  BY <1>1, <1>5, <1>6, <1>7, GoesKept DEF CheckoutInv
<1>9. SessionsKept
  BY <1>1, StayKept DEF CheckoutInv
<1>10. AnswersInv'
  BY <1>1, <1>9, AnswersKept DEF CheckoutInv, SessionsKept
<1> QED
  BY <1>8, <1>9, <1>10 DEF CheckoutInv, SessionsKept

LEMMA ReplayKept ==
  ASSUME CheckoutInv, NEW k \in Keys, NEW input \in Plans, Subscribing!Replay(k, input)
  PROVE  CheckoutInv'
<1>1. UNCHANGED <<customers, known, sessions, made, mapped, saved, checkout, holder, answered>>
  BY DEF Subscribing!Replay, Subscribing!stripe, CheckoutInv, AnswersInv
<1>2. SessionsKept
  BY <1>1, StayKept DEF CheckoutInv
<1>3. ChoiceInv'
  BY <1>1, <1>2, ChoiceKept DEF CheckoutInv
<1>4. AnswersInv'
  BY <1>1, <1>2, AnswersKept DEF CheckoutInv, SessionsKept
<1> QED
  BY <1>2, <1>3, <1>4 DEF CheckoutInv, SessionsKept

\* The customer is the one of Stripe's key, or a new one.
LEMMA CreateCustomerKept ==
  ASSUME Subscribing!CheckoutAssumption, CheckoutInv, NEW k \in Keys, Subscribing!CreateCustomer(k)
  PROVE  CheckoutInv'
<1>1. Subscribing!Holds(k, "customer") /\ UNCHANGED <<sessions, made, mapped, saved, holder, answered>>
  BY DEF Subscribing!CreateCustomer
<1>2. /\ holder = k /\ holder # None /\ checkout[k] \in Checkout /\ checkout[k].at = "customer"
      /\ checkout \in [Keys -> Checkout] /\ Chosen(checkout[k])
  BY <1>1, Holding
<1>3. customers \in Nat /\ known \in 0 .. customers
  BY DEF CheckoutInv, SessionsInv
<1>4. known' \in 1 .. customers'
      /\ (UNCHANGED <<customers, known>> \/ (customers' = customers + 1 /\ known' = customers'))
  <2>1. CASE known = 0
    BY <1>3, <2>1 DEF Subscribing!CreateCustomer
  <2>2. CASE known # 0
    BY <1>3, <2>2 DEF Subscribing!CreateCustomer
  <2> QED
    BY <2>1, <2>2
<1>5. SessionsKept
  BY <1>1, <1>4, StayKept DEF CheckoutInv
<1>6. PICK w \in Nat : w = known' /\ w \in 1 .. customers'
  BY <1>3, <1>4
<1>7. PICK d \in Checkout : d = checkout[k]
  BY <1>2
<1> DEFINE e == [d EXCEPT !.at = "subscriptions"]
           c == [e EXCEPT !.customer = w]
<1>8. checkout' = [checkout EXCEPT ![k] = c]
  BY <1>2, <1>6, <1>7 DEF Subscribing!CreateCustomer
<1>9. e \in Checkout /\ e.at = "subscriptions" /\ e.input = d.input
  BY <1>7 DEF Checkout
<1> HIDE DEF e
<1>10. c \in Checkout /\ c.at = "subscriptions" /\ c.input = d.input /\ c.customer = w
  BY <1>6, <1>9 DEF Checkout
<1> HIDE DEF c
<1>11. Chosen(c)'
  BY <1>1, <1>2, <1>6, <1>7, <1>10 DEF Chosen
<1>12. ChoiceInv'
  BY <1>1, <1>2, <1>8, <1>10, <1>11, GoesKept DEF CheckoutInv
<1>13. AnswersInv'
  BY <1>1, <1>5, AnswersKept DEF CheckoutInv, SessionsKept
<1> QED
  BY <1>5, <1>12, <1>13 DEF CheckoutInv, SessionsKept

LEMMA ListSubscriptionsKept ==
  ASSUME Subscribing!CheckoutAssumption, CheckoutInv, NEW k \in Keys, Subscribing!ListSubscriptions(k)
  PROVE  CheckoutInv'
<1>1. /\ Subscribing!Holds(k, "subscriptions") /\ Subscribing!Goes(k, "sessions")
      /\ UNCHANGED <<customers, known, sessions, made, mapped, saved, holder, answered>>
  BY DEF Subscribing!ListSubscriptions, Subscribing!stripe
<1>2. holder = k /\ holder # None /\ checkout[k].at = "subscriptions" /\ Chosen(checkout[k])
  BY <1>1, Holding
<1>3. PICK c \in Checkout : checkout' = [checkout EXCEPT ![k] = c] /\ c.at = "sessions"
                            /\ c.input = checkout[k].input /\ c.customer = checkout[k].customer
  BY <1>1, AtPlace DEF CheckoutInv
<1>4. Chosen(c)'
  BY <1>1, <1>2, <1>3 DEF Chosen
<1>5. SessionsKept
  BY <1>1, StayKept DEF CheckoutInv
<1>6. ChoiceInv'
  BY <1>1, <1>2, <1>3, <1>4, GoesKept DEF CheckoutInv
<1>7. AnswersInv'
  BY <1>1, <1>5, AnswersKept DEF CheckoutInv, SessionsKept
<1> QED
  BY <1>5, <1>6, <1>7 DEF CheckoutInv, SessionsKept

\* Failures give the lock back.
LEMMA FailKept ==
  ASSUME Subscribing!CheckoutAssumption, CheckoutInv, NEW k \in Keys, Subscribing!Fail(k)
  PROVE  CheckoutInv'
<1>1. PICK c \in Checkout : checkout' = [checkout EXCEPT ![k] = c] /\ c.at = "idle"
  BY AtEnd DEF CheckoutInv, Subscribing!Fail
<1>2. None \notin Keys /\ holder = k /\ holder' = None
      /\ UNCHANGED <<customers, known, sessions, made, mapped, saved, answered>>
  BY DEF CheckoutInv, ChoiceInv, Subscribing!CheckoutAssumption, Subscribing!Fail, Subscribing!stripe
<1>3. SessionsKept
  BY <1>2, StayKept DEF CheckoutInv
<1>4. ChoiceInv'
  <2>1. Chosen(c)'
    BY <1>1 DEF Chosen
  <2> QED
    BY <1>1, <1>2, <2>1, GoesKept DEF CheckoutInv
<1>5. AnswersInv'
  BY <1>2, <1>3, AnswersKept DEF CheckoutInv, SessionsKept
<1> QED
  BY <1>3, <1>4, <1>5 DEF CheckoutInv, SessionsKept

\* The commit answers with the session chosen, and gives the row its customer.
LEMMA CommitKept ==
  ASSUME Subscribing!CheckoutAssumption, CheckoutInv, NEW k \in Keys, Subscribing!Commit(k)
  PROVE  CheckoutInv'
<1>1. /\ Subscribing!Holds(k, "done") /\ holder' = None /\ Subscribing!Ends(k)
      /\ UNCHANGED <<customers, known, sessions, made>>
  BY DEF Subscribing!Commit, Subscribing!stripe
<1>2. holder = k /\ holder # None /\ checkout[k].at = "done" /\ Chosen(checkout[k])
  BY <1>1, Holding
<1>3. PICK s, w, i : s = checkout[k].session /\ w = checkout[k].customer /\ i = checkout[k].input
  OBVIOUS
<1>4. Answers(s, w, i) /\ w \in 1 .. customers /\ mapped \in {0, w}
  BY <1>2, <1>3 DEF Chosen
<1>5. /\ mapped' = w /\ saved' = [saved EXCEPT ![k] = [input |-> i, session |-> s]]
      /\ answered' = answered \union {<<i, s>>}
  BY <1>3 DEF Subscribing!Commit
<1>6. customers \in Nat
  BY DEF CheckoutInv, SessionsInv
<1>7. SessionsInv'
  BY <1>1, <1>4, <1>5, <1>6 DEF CheckoutInv, SessionsInv, Subscribing!Open
<1>8. ChoiceInv'
  <2>1. PICK c \in Checkout : checkout' = [checkout EXCEPT ![k] = c] /\ c.at = "idle"
    BY <1>1, AtEnd DEF CheckoutInv
  <2>2. Chosen(c)'
    BY <2>1 DEF Chosen
  <2> QED
    BY <1>1, <1>2, <2>1, <2>2, GoesKept DEF CheckoutInv
<1>9. \A pair \in answered' : Answers(pair[2], w, pair[1])
  <2>1. ASSUME NEW pair \in answered PROVE Answers(pair[2], w, pair[1])
    <3>1. Answers(pair[2], mapped, pair[1])
      BY DEF CheckoutInv, AnswersInv
    <3>2. mapped \in 1 .. customers
      BY <3>1 DEF Answers, CheckoutInv, SessionsInv
    <3>3. mapped = w
      BY <1>4, <1>6, <3>2
    <3> QED
      BY <3>1, <3>3
  <2> QED
    BY <1>4, <1>5, <2>1
<1>10. AnswersInv'
  <2>1. \A pair \in answered' : Answers(pair[2], mapped, pair[1])'
    BY <1>1, <1>5, <1>9 DEF Answers
  <2>2. \A j \in DOMAIN made' : Answers(made[j].session, made[j].asked.customer, made[j].asked.choice)'
    BY <1>1 DEF CheckoutInv, AnswersInv, Answers
  <2>3. DOMAIN saved' = Keys /\ \A j \in Keys : saved'[j] # None => <<saved'[j].input, saved'[j].session>> \in answered'
    BY <1>5 DEF CheckoutInv, AnswersInv
  <2> QED
    BY <2>1, <2>2, <2>3 DEF AnswersInv
<1> QED
  BY <1>7, <1>8, <1>10 DEF CheckoutInv

\* The list shows what is open.
LEMMA ListSessionsKept ==
  ASSUME Subscribing!CheckoutAssumption, CheckoutInv, NEW k \in Keys, Subscribing!ListSessions(k)
  PROVE  CheckoutInv'
<1>1. /\ Subscribing!Holds(k, "sessions")
      /\ UNCHANGED <<customers, known, sessions, made, mapped, saved, holder, answered>>
  BY DEF Subscribing!ListSessions, Subscribing!stripe
<1>2. /\ holder = k /\ holder # None /\ checkout[k] \in Checkout /\ checkout[k].at = "sessions"
      /\ checkout \in [Keys -> Checkout] /\ Chosen(checkout[k])
  BY <1>1, Holding
<1>3. PICK d \in Checkout, w \in Nat, O \in SUBSET DOMAIN sessions :
           d = checkout[k] /\ w = d.customer /\ O = Subscribing!OpenOf(w)
  BY <1>2 DEF Checkout, Subscribing!OpenOf, Subscribing!Open
<1>4. O \subseteq DOMAIN sessions /\ DOMAIN sessions \subseteq Nat
  BY <1>3, SessionFacts DEF Subscribing!OpenOf, Subscribing!Open, CheckoutInv
<1> DEFINE e == [d EXCEPT !.at = "choose"]
           c == [e EXCEPT !.open = O]
<1>5. checkout' = [checkout EXCEPT ![k] = c]
  BY <1>2, <1>3 DEF Subscribing!ListSessions
<1>6. e \in Checkout /\ e.at = "choose" /\ e.input = d.input /\ e.customer = w
  BY <1>3 DEF Checkout
<1> HIDE DEF e
<1>7. c \in Checkout /\ c.at = "choose" /\ c.input = d.input /\ c.customer = w /\ c.open = O
  BY <1>4, <1>6 DEF Checkout
<1> HIDE DEF c
<1>8. Subscribing!OpenOf(w)' = O /\ \A s \in O : s \in DOMAIN sessions /\ sessions[s].customer = w
  BY <1>1, <1>3 DEF Subscribing!OpenOf, Subscribing!Open
<1>9. Chosen(c)'
  <2>1. Subscribing!OpenOf(c.customer)' = O
    BY <1>7, <1>8 DEF Subscribing!OpenOf
  <2> QED
    BY <1>1, <1>2, <1>3, <1>7, <1>8, <2>1 DEF Chosen
<1>10. ChoiceInv'
  BY <1>1, <1>2, <1>5, <1>7, <1>9, GoesKept DEF CheckoutInv
<1>11. SessionsKept
  BY <1>1, StayKept DEF CheckoutInv
<1>12. AnswersInv'
  BY <1>1, <1>11, AnswersKept DEF CheckoutInv, SessionsKept
<1> QED
  BY <1>10, <1>11, <1>12 DEF CheckoutInv, SessionsKept

\* A request that has a session of its customer for its selection.
LEMMA DoneKept ==
  ASSUME Subscribing!CheckoutAssumption, ChoiceInv, NEW k \in Keys, NEW s \in Nat, holder = k,
         checkout[k].at \notin {"idle", "customer"},
         NEW w, w = checkout[k].customer, NEW i, i = checkout[k].input,
         checkout' = [checkout EXCEPT ![k].at = "done", ![k].session = s],
         UNCHANGED <<holder, mapped, customers>>, Answers(s, w, i)'
  PROVE  ChoiceInv'
<1>1. checkout[k] \in Checkout /\ Chosen(checkout[k])
  BY DEF ChoiceInv
<1>2. PICK d \in Checkout : d = checkout[k]
  BY <1>1
<1> DEFINE e == [d EXCEPT !.at = "done"]
           c == [e EXCEPT !.session = s]
<1>3. checkout' = [checkout EXCEPT ![k] = c]
  BY <1>2 DEF ChoiceInv
<1>4. e \in Checkout /\ e.at = "done" /\ e.input = i /\ e.customer = w
  BY <1>2 DEF Checkout
<1> HIDE DEF e
<1>5. c \in Checkout /\ c.at = "done" /\ c.input = i /\ c.customer = w /\ c.session = s
  BY <1>4 DEF Checkout
<1> HIDE DEF c
<1>6. i \in Plans /\ w \in 1 .. customers /\ mapped \in {0, w}
  BY <1>1 DEF Chosen
<1>7. Chosen(c)'
  <2>1. Answers(c.session, c.customer, c.input)'
    BY <1>5 DEF Answers
  <2> QED
    BY <1>5, <1>6, <2>1 DEF Chosen
<1> QED
  BY <1>3, <1>5, <1>7, GoesKept

LEMMA ReuseKept ==
  ASSUME Subscribing!CheckoutAssumption, CheckoutInv, NEW k \in Keys, Subscribing!Reuse(k)
  PROVE  CheckoutInv'
<1>1. PICK s \in checkout[k].open :
        /\ sessions[s].choice = checkout[k].input
        /\ checkout' = [checkout EXCEPT ![k].at = "done", ![k].session = s]
  BY DEF Subscribing!Reuse
<1>2. /\ Subscribing!Holds(k, "choose")
      /\ UNCHANGED <<customers, known, sessions, made, mapped, saved, holder, answered>>
  BY DEF Subscribing!Reuse, Subscribing!stripe
<1>3. holder = k /\ checkout[k] \in Checkout /\ checkout[k].at = "choose" /\ Chosen(checkout[k])
  BY <1>2, Holding
<1>4. PICK w, i : w = checkout[k].customer /\ i = checkout[k].input
  OBVIOUS
<1>5. s \in Nat /\ Answers(s, w, i)
  BY <1>1, <1>3, <1>4 DEF Checkout, Chosen, Answers
<1>6. Answers(s, w, i)'
  BY <1>2, <1>5 DEF Answers
<1>7. ChoiceInv'
  BY <1>1, <1>2, <1>3, <1>4, <1>5, <1>6, DoneKept DEF CheckoutInv
<1>8. SessionsKept
  BY <1>2, StayKept DEF CheckoutInv
<1>9. AnswersInv'
  BY <1>2, <1>8, AnswersKept DEF CheckoutInv, SessionsKept
<1> QED
  BY <1>7, <1>8, <1>9 DEF CheckoutInv, SessionsKept

LEMMA ExpireKept ==
  ASSUME Subscribing!CheckoutAssumption, CheckoutInv, NEW k \in Keys, Subscribing!Expire(k)
  PROVE  CheckoutInv'
<1>1. PICK s \in checkout[k].open :
        /\ checkout[k].open = {s} /\ s \in Subscribing!Open /\ Subscribing!Goes(k, "create")
        /\ sessions' = [sessions EXCEPT ![s].state = "expired"]
  BY DEF Subscribing!Expire
<1>2. Subscribing!Holds(k, "choose") /\ UNCHANGED <<customers, known, made, mapped, saved, holder, answered>>
  BY DEF Subscribing!Expire
<1>3. holder = k /\ holder # None /\ checkout[k].at = "choose" /\ Chosen(checkout[k])
  BY <1>2, Holding
<1>4. SessionsKept /\ Subscribing!Open' = Subscribing!Open \ {s}
  BY <1>1, <1>2, ClosesKept DEF CheckoutInv, Subscribing!Open
<1>5. PICK w : w = checkout[k].customer
  OBVIOUS
<1>6. Subscribing!OpenOf(w)' = {}
  <2>1. Subscribing!OpenOf(w) \subseteq {s}
    BY <1>1, <1>3, <1>5 DEF Chosen
  <2>2. Subscribing!OpenOf(w)' \subseteq Subscribing!OpenOf(w)
    BY <1>4, OpenOfShrinks
  <2>3. s \notin Subscribing!OpenOf(w)'
    BY <1>4 DEF Subscribing!OpenOf
  <2> QED
    BY <2>1, <2>2, <2>3
<1>7. PICK c \in Checkout : checkout' = [checkout EXCEPT ![k] = c] /\ c.at = "create"
                            /\ c.input = checkout[k].input /\ c.customer = w
  BY <1>1, <1>5, AtPlace DEF CheckoutInv
<1>8. Chosen(c)'
  <2>1. Subscribing!OpenOf(c.customer)' = {}
    BY <1>6, <1>7 DEF Subscribing!OpenOf
  <2> QED
    BY <1>2, <1>3, <1>5, <1>7, <2>1 DEF Chosen
<1>9. ChoiceInv'
  BY <1>2, <1>3, <1>7, <1>8, GoesKept DEF CheckoutInv
<1>10. AnswersInv'
  BY <1>2, <1>4, AnswersKept DEF CheckoutInv, SessionsKept
<1> QED
  BY <1>4, <1>9, <1>10 DEF CheckoutInv, SessionsKept

\* A session is created where its customer has none open, or the key's own is answered again.
LEMMA CreateKept ==
  ASSUME Subscribing!CheckoutAssumption, CheckoutInv, NEW k \in Keys, Subscribing!Create(k)
  PROVE  CheckoutInv'
<1>1. PICK w, i : w = checkout[k].customer /\ i = checkout[k].input
  OBVIOUS
<1>2. /\ holder = k /\ checkout[k].at \in {"choose", "create"} /\ i \in Plans /\ w \in 1 .. customers
      /\ Subscribing!OpenOf(w) = {}
  <2>1. CASE Subscribing!Holds(k, "create")
    BY <1>1, <2>1, Holding DEF Chosen
  <2>2. CASE Subscribing!Holds(k, "choose") /\ checkout[k].open = {}
    BY <1>1, <2>2, Holding DEF Chosen
  <2> QED
    BY <2>1, <2>2 DEF Subscribing!Create
<1>3. UNCHANGED <<customers, known, mapped, saved, holder, answered>>
  BY DEF Subscribing!Create
<1>4. PICK n : n = Subscribing!Cardinality(DOMAIN sessions) + 1
  OBVIOUS
<1>5. CASE k \in DOMAIN made
  <2>1. /\ made[k].asked = [customer |-> w, choice |-> i]
        /\ checkout' = [checkout EXCEPT ![k].at = "done", ![k].session = made[k].session]
        /\ UNCHANGED <<sessions, made>>
    BY <1>1, <1>5 DEF Subscribing!Create
  <2>2. PICK s : s = made[k].session
    OBVIOUS
  <2>3. Answers(s, w, i)
    BY <1>5, <2>1, <2>2 DEF CheckoutInv, AnswersInv
  <2>4. s \in Nat
    BY <2>3, SessionFacts DEF Answers, CheckoutInv
  <2>5. ChoiceInv'
    <3>1. Answers(s, w, i)'
      BY <2>1, <2>3 DEF Answers
    <3> QED
      BY <1>1, <1>2, <1>3, <2>1, <2>2, <2>4, <3>1, DoneKept DEF CheckoutInv
  <2>6. SessionsKept
    BY <1>3, <2>1, StayKept DEF CheckoutInv
  <2>7. AnswersInv'
    BY <1>3, <2>1, <2>6, AnswersKept DEF CheckoutInv, SessionsKept
  <2> QED
    BY <2>5, <2>6, <2>7 DEF CheckoutInv, SessionsKept
<1>6. CASE k \notin DOMAIN made
  <2>1. /\ n <= MaxSessions
        /\ sessions' = Subscribing!Put(sessions, n, [customer |-> w, choice |-> i, promotion |-> TRUE,
                                                     state |-> "open"])
        /\ made' = Subscribing!Put(made, k, [session |-> n, asked |-> [customer |-> w, choice |-> i]])
        /\ checkout' = [checkout EXCEPT ![k].at = "done", ![k].session = n]
    BY <1>1, <1>4, <1>6 DEF Subscribing!Create
  <2>2. n = Cardinality(DOMAIN sessions) + 1
    BY <1>4, SameCardinality
  <2>3. n \in Nat /\ SessionsInv' /\ Answers(n, w, i)' /\ Keeps
    BY <1>2, <1>3, <2>1, <2>2, Makes DEF CheckoutInv
  <2>4. ChoiceInv'
    BY <1>1, <1>2, <1>3, <2>1, <2>3, DoneKept DEF CheckoutInv
  <2>5. \A j \in DOMAIN made' : j # k => j \in DOMAIN made /\ made'[j] = made[j]
    BY <2>1 DEF Subscribing!Put
  <2>6. made'[k] = [session |-> n, asked |-> [customer |-> w, choice |-> i]]
    BY <2>1 DEF Subscribing!Put
  <2>7. \A j : (j \in DOMAIN made)' => (Answers(made[j].session, made[j].asked.customer, made[j].asked.choice))'
    BY <2>3, <2>5, <2>6 DEF CheckoutInv, AnswersInv, Answers, Keeps
  <2>8. \A pair \in answered' : Answers(pair[2], mapped, pair[1])'
    BY <1>3, <2>3 DEF CheckoutInv, AnswersInv, Answers, Keeps
  <2>9. AnswersInv'
    BY <1>3, <2>7, <2>8 DEF CheckoutInv, AnswersInv
  <2> QED
    BY <2>3, <2>4, <2>9 DEF CheckoutInv
<1> QED
  BY <1>5, <1>6

\* Steps of Stripe and of the buyer, which leave requests and answers alone.
LEMMA StripeKept ==
  ASSUME CheckoutInv, SessionsKept, UNCHANGED <<mapped, saved, checkout, holder, answered>>,
         \A k \in DOMAIN made' : k \in DOMAIN made /\ made'[k] = made[k]
  PROVE  CheckoutInv'
<1>1. ChoiceInv'
  BY ChoiceKept DEF CheckoutInv
<1>2. AnswersInv'
  BY AnswersKept DEF CheckoutInv, SessionsKept
<1> QED
  BY <1>1, <1>2 DEF CheckoutInv, SessionsKept

LEMMA CheckoutStutter ==
  ASSUME CheckoutInv, UNCHANGED Subscribing!vars
  PROVE  CheckoutInv'
<1>1. SessionsKept
  BY StayKept DEF CheckoutInv, Subscribing!vars, Subscribing!stripe
<1> QED
  BY <1>1, StripeKept DEF Subscribing!vars, Subscribing!stripe

LEMMA CheckoutNext ==
  ASSUME Subscribing!CheckoutAssumption, CheckoutInv, Subscribing!Next
  PROVE  CheckoutInv'
<1>1. ASSUME NEW k \in Keys, Subscribing!Checkouts(k) PROVE CheckoutInv'
  BY <1>1, LockKept, ReplayKept, CreateCustomerKept, ListSubscriptionsKept, ListSessionsKept, ReuseKept,
     ExpireKept, CreateKept, CommitKept, FailKept DEF Subscribing!Checkouts
<1>2. ASSUME NEW s \in DOMAIN sessions, Subscribing!Pay(s) \/ Subscribing!Lapse(s) \/ Subscribing!Cancel(s)
      PROVE  CheckoutInv'
  <2>1. PICK x \in {"complete", "expired", "canceled"} : sessions' = [sessions EXCEPT ![s].state = x]
    BY <1>2 DEF Subscribing!Pay, Subscribing!Lapse, Subscribing!Cancel
  <2>2. UNCHANGED <<customers, known, made, mapped, saved, checkout, holder, answered>>
    BY <1>2 DEF Subscribing!Pay, Subscribing!Lapse, Subscribing!Cancel
  <2>3. SessionsKept
    BY <2>1, <2>2, ClosesKept DEF CheckoutInv
  <2> QED
    BY <2>2, <2>3, StripeKept
<1>3. CASE Subscribing!ForgetCustomer
  <2>1. SessionsKept
    BY <1>3, StayKept DEF CheckoutInv, Subscribing!ForgetCustomer
  <2> QED
    BY <1>3, <2>1, StripeKept DEF Subscribing!ForgetCustomer
<1>4. ASSUME NEW k \in Keys, Subscribing!ForgetSession(k) PROVE CheckoutInv'
  <2>1. SessionsKept
    BY <1>4, StayKept DEF CheckoutInv, Subscribing!ForgetSession
  <2> QED
    BY <1>4, <2>1, StripeKept DEF Subscribing!ForgetSession
<1> QED
  BY <1>1, <1>2, <1>3, <1>4 DEF Subscribing!Next

-----------------------------------------------------------------------------
(* Checkout: theorems *)

\* The invariant of internal/billing's checkout.
THEOREM CheckoutInvariant == ASSUME Subscribing!CheckoutAssumption PROVE Subscribing!Spec => []CheckoutInv
<1>1. Subscribing!Init => CheckoutInv
  BY CheckoutInit
<1>2. CheckoutInv /\ [Subscribing!Next]_(Subscribing!vars) => CheckoutInv'
  BY CheckoutStutter, CheckoutNext
<1> QED
  BY <1>1, <1>2, PTL DEF Subscribing!Spec

\* Customers, sessions, locks and answers have their values.
THEOREM CheckoutTyped == ASSUME Subscribing!CheckoutAssumption PROVE Subscribing!Spec => []Subscribing!TypeOK
<1>1. ASSUME CheckoutInv PROVE Subscribing!TypeOK
  <2>1. DOMAIN sessions \subseteq 1 .. MaxSessions
    BY <1>1, SessionFacts DEF CheckoutInv, Subscribing!CheckoutAssumption
  <2>2. \A s \in DOMAIN sessions : sessions[s].state \in {"open", "complete", "canceled", "expired"}
    BY <1>1, SessionFacts DEF CheckoutInv, Session
  <2>3. /\ customers \in Nat /\ known \in 0 .. customers /\ mapped \in 0 .. customers
        /\ \A s \in DOMAIN sessions : sessions[s].customer \in 1 .. customers
    BY <1>1 DEF CheckoutInv, SessionsInv
  <2> QED
    BY <1>1, <2>1, <2>2, <2>3 DEF CheckoutInv, ChoiceInv, AnswersInv, Subscribing!TypeOK
<1> QED
  BY <1>1, CheckoutInvariant, PTL

\* Two checkouts of a customer never wait for the buyer at once.
THEOREM OneSessionOpen ==
  ASSUME Subscribing!CheckoutAssumption PROVE Subscribing!Spec => []Subscribing!OneOpenSession
<1>1. CheckoutInv => Subscribing!OneOpenSession
  <2> SUFFICES ASSUME CheckoutInv, NEW c \in 1 .. customers PROVE Cardinality(Subscribing!OpenOf(c)) <= 1
    BY SameCardinality DEF Subscribing!OneOpenSession
  <2>1. CASE Subscribing!OpenOf(c) = {}
    BY <2>1, FS_EmptySet
  <2>2. ASSUME NEW s \in Subscribing!OpenOf(c)
        PROVE  Cardinality(Subscribing!OpenOf(c)) <= 1
    <3>1. Subscribing!OpenOf(c) = {s}
      BY <2>2 DEF CheckoutInv, SessionsInv, Subscribing!OpenOf
    <3> QED
      BY <3>1, FS_Singleton
  <2> QED
    BY <2>1, <2>2
<1> QED
  BY <1>1, CheckoutInvariant, PTL

\* No answer is a checkout of a customer that only a request that was rolled back knew.
THEOREM AnsweredOfTheRow ==
  ASSUME Subscribing!CheckoutAssumption PROVE Subscribing!Spec => []Subscribing!AnsweredIsOfTheRow
<1>1. CheckoutInv => Subscribing!AnsweredIsOfTheRow
  BY DEF CheckoutInv, AnswersInv, Answers, Subscribing!AnsweredIsOfTheRow
<1> QED
  BY <1>1, CheckoutInvariant, PTL

\* "Never reuse a checkout for another selection", nor for another key's.
THEOREM SelectionsKept ==
  ASSUME Subscribing!CheckoutAssumption PROVE Subscribing!Spec => []Subscribing!SelectionKept
<1>1. CheckoutInv => Subscribing!SelectionKept
  BY DEF CheckoutInv, AnswersInv, Answers, Subscribing!SelectionKept
<1> QED
  BY <1>1, CheckoutInvariant, PTL

-----------------------------------------------------------------------------
(* Hours: the inductive invariant *)

Entries == UNION {{q[i] : i \in DOMAIN q} : q \in Weeks}
AnyDay == {e.day : e \in Entries}
AnyTime == {e.opens : e \in Entries} \union {e.closes : e \in Entries}
Entry == [day: AnyDay, opens: AnyTime, closes: AnyTime, closed: BOOLEAN]
AnyId == [by: Replacements, day: AnyDay]
HourRow == [id: AnyId, day: AnyDay, opens: AnyTime, closes: AnyTime, closed: BOOLEAN]
Replacement ==
  [at: {"idle", "delete", "upsert", "done"}, todo: Seq(Entry), week: Seq(Entry),
   seen: SUBSET AnyId, gone: SUBSET AnyId, wrote: SUBSET HourRow]

Elements(q) == {q[i] : i \in DOMAIN q}
Data(r) == [day |-> r.day, opens |-> r.opens, closes |-> r.closes, closed |-> r.closed]
OnePerDay(S) == \A r, s \in S : r.day = s.day => r = s
Timed(r) == r.closed <=> r.opens = None
Active(x) == x.at \in {"delete", "upsert"}

\* What a replacement has written, with what it has yet to write, is its week.
Progress(x) ==
  /\ x.gone \subseteq x.seen /\ (x.at # "upsert" => x.wrote = {} /\ x.gone = {})
  /\ OnePerDay(x.wrote) /\ \A r \in x.wrote : Timed(r) /\ Data(r) \in Elements(x.week)
  /\ \A e \in Elements(x.week) :
       Timed(e) /\ (e \in Elements(x.todo) \/ \E r \in x.wrote : Data(r) = e)
  /\ \A i, j \in DOMAIN x.todo : x.todo[i].day = x.todo[j].day => i = j
  /\ \A e \in Elements(x.todo) : e \in Elements(x.week) /\ \A r \in x.wrote : r.day # e.day

\* A committed row of a day it has written is the row it updates, or one it deletes.
Meets(x) == \A w \in x.wrote, r \in rows : r.day = w.day => r.id = w.id \/ r.id \in x.gone

\* No other has committed since it began: it deletes every row.
Fresh(x) ==
  Active(x) => x.seen = Schedule!Ids(rows) /\ (x.at = "upsert" => x.gone = Schedule!Ids(rows))

OtherDays(x, y) == \A w \in x.wrote, v \in y.wrote : w.day # v.day

HoursInv ==
  /\ rows \in SUBSET HourRow /\ OnePerDay(rows) /\ \A r \in rows : Timed(r)
  /\ \A e \in Elements(week) : \E r \in rows : Data(r) = e
  /\ replacement \in [Replacements -> Replacement]
  /\ \A c \in Replacements : Progress(replacement[c]) /\ Meets(replacement[c])
  /\ \A c, d \in Replacements : c # d => OtherDays(replacement[c], replacement[d])
  /\ \A c \in Replacements : c \notin behind => Fresh(replacement[c])

-----------------------------------------------------------------------------
(* Hours: the invariant is kept *)

LEMMA EntryTyped ==
  ASSUME Schedule!HoursAssumption
  PROVE  Weeks \subseteq Seq(Entry)
<1> SUFFICES ASSUME NEW q \in Weeks PROVE q \in Seq(Entry)
  OBVIOUS
<1>1. q \in Seq({q[i] : i \in DOMAIN q})
  BY DEF Schedule!HoursAssumption
<1>2. \A i \in DOMAIN q : q[i] \in Entry
  <2> SUFFICES ASSUME NEW i \in DOMAIN q PROVE q[i] \in Entry
    OBVIOUS
  <2>1. /\ q[i] = [day |-> q[i].day, opens |-> q[i].opens, closes |-> q[i].closes, closed |-> q[i].closed]
        /\ q[i].closed \in BOOLEAN
    BY DEF Schedule!HoursAssumption
  <2>2. q[i] \in Entries
    BY DEF Entries
  <2>3. q[i].day \in AnyDay /\ q[i].opens \in AnyTime /\ q[i].closes \in AnyTime
    BY <2>2 DEF AnyDay, AnyTime
  <2> QED
    BY <2>1, <2>3 DEF Entry
<1> QED
  BY <1>1, <1>2

\* A step of one replacement that commits nothing.
LEMMA OneMoves ==
  ASSUME HoursInv, NEW c \in Replacements, NEW x \in Replacement,
         replacement' = [replacement EXCEPT ![c] = x], UNCHANGED <<rows, week>>,
         \A d \in Replacements \ {c} : d \in behind' <=> d \in behind,
         Progress(x), Meets(x), c \notin behind' => Fresh(x),
         \A d \in Replacements \ {c} : OtherDays(x, replacement[d])
  PROVE  HoursInv'
<1>1. /\ replacement' \in [Replacements -> Replacement] /\ replacement'[c] = x
      /\ \A d \in Replacements \ {c} : replacement'[d] = replacement[d]
  BY DEF HoursInv
<1>2. \A d \in Replacements : (Progress(replacement[d]) /\ Meets(replacement[d]))'
  BY <1>1 DEF HoursInv, Progress, Meets
<1>3. \A d \in Replacements : (d \notin behind => Fresh(replacement[d]))'
  BY <1>1 DEF HoursInv, Fresh, Active, Schedule!Ids
<1>4. \A d, e \in Replacements : d # e => OtherDays(replacement[d], replacement[e])'
  BY <1>1 DEF HoursInv, OtherDays
<1>5. (\A e \in Elements(week) : \E r \in rows : Data(r) = e)'
  BY DEF HoursInv, Elements, Data
<1> QED
  BY <1>1, <1>2, <1>3, <1>4, <1>5 DEF HoursInv, OnePerDay, Timed

LEMMA BeginKept ==
  ASSUME Schedule!HoursAssumption, HoursInv, NEW c \in Replacements, NEW q \in Weeks,
         Schedule!Begin(c, q)
  PROVE  HoursInv'
<1> DEFINE x == [at |-> "delete", todo |-> q, week |-> q, seen |-> Schedule!Ids(rows),
                 gone |-> {}, wrote |-> {}]
<1>1. q \in Seq(Entry)
  BY EntryTyped
<1>2. Schedule!Ids(rows) \subseteq AnyId
  BY DEF HoursInv, Schedule!Ids, HourRow
<1>3. x \in Replacement
  BY <1>1, <1>2 DEF Replacement
<1>4. replacement' = [replacement EXCEPT ![c] = x]
  BY DEF Schedule!Begin
<1>5. Progress(x)
  <2>1. \A e \in Elements(q) : Timed(e)
    BY <1>1 DEF Schedule!Begin, Schedule!HoursParams, Timed, Elements, Entry
  <2> QED
    BY <2>1 DEF Progress, OnePerDay, Schedule!Begin, Schedule!HoursParams
<1>6. Meets(x) /\ Fresh(x) /\ \A d \in Replacements : OtherDays(x, replacement[d])
  BY DEF Meets, Fresh, OtherDays
<1> HIDE DEF x
<1>7. PICK y \in Replacement : y = x
  BY <1>3
<1> QED
  BY <1>4, <1>5, <1>6, <1>7, OneMoves DEF Schedule!Begin

LEMMA DeleteKept ==
  ASSUME HoursInv, NEW c \in Replacements, Schedule!DeleteBusinessHours(c)
  PROVE  HoursInv'
<1>1. PICK y \in Replacement : y = replacement[c]
  BY DEF HoursInv
<1>2. PICK g \in SUBSET AnyId : g = replacement[c].seen \intersect Schedule!Ids(rows)
  BY <1>1 DEF Replacement
<1> DEFINE d == [y EXCEPT !.at = "upsert"]
           x == [d EXCEPT !.gone = g]
<1>3. replacement' = [replacement EXCEPT ![c] = x]
  BY <1>1, <1>2 DEF Schedule!DeleteBusinessHours, HoursInv
<1>4. /\ d \in Replacement /\ d.at = "upsert" /\ d.todo = y.todo /\ d.week = y.week
      /\ d.seen = y.seen /\ d.wrote = y.wrote
  BY DEF Replacement
<1> HIDE DEF d
<1>5. /\ x \in Replacement /\ x.at = "upsert" /\ x.todo = y.todo /\ x.week = y.week
      /\ x.seen = y.seen /\ x.wrote = y.wrote /\ x.gone = g
  BY <1>4 DEF Replacement
<1> HIDE DEF x
<1>6. y.at = "delete" /\ y.wrote = {} /\ Progress(y)
  BY <1>1 DEF Schedule!DeleteBusinessHours, HoursInv, Progress
<1>7. Progress(x) /\ Meets(x) /\ \A e \in Replacements : OtherDays(x, replacement[e])
  BY <1>1, <1>2, <1>5, <1>6 DEF Progress, Meets, OtherDays, OnePerDay
<1>8. c \notin behind => Fresh(x)
  BY <1>1, <1>2, <1>5, <1>6 DEF HoursInv, Fresh, Active
<1> QED
  BY <1>3, <1>5, <1>7, <1>8, OneMoves DEF Schedule!DeleteBusinessHours

\* The elements of a sequence are its first and those of the rest.
LEMMA Rest ==
  ASSUME NEW S, NEW q \in Seq(S), q # <<>>
  PROVE  /\ Head(q) \in S /\ Tail(q) \in Seq(S) /\ Head(q) = q[1] /\ 1 \in DOMAIN q
         /\ \A i \in DOMAIN Tail(q) : i + 1 \in DOMAIN q /\ i + 1 # 1 /\ Tail(q)[i] = q[i + 1]
         /\ Elements(q) = {Head(q)} \union Elements(Tail(q))
<1>1. /\ Head(q) \in S /\ Tail(q) \in Seq(S) /\ Head(q) = q[1] /\ 1 \in DOMAIN q
      /\ \A i \in DOMAIN Tail(q) : i + 1 \in DOMAIN q /\ i + 1 # 1 /\ Tail(q)[i] = q[i + 1]
  OBVIOUS
<1>2. \A i \in DOMAIN q : i = 1 \/ (i - 1 \in DOMAIN Tail(q) /\ Tail(q)[i - 1] = q[i])
  OBVIOUS
<1>3. \A i \in DOMAIN q : q[i] = Head(q) \/ \E j \in DOMAIN Tail(q) : q[i] = Tail(q)[j]
  BY <1>1, <1>2
<1>4. \A j \in DOMAIN Tail(q) : \E i \in DOMAIN q : q[i] = Tail(q)[j]
  BY <1>1
<1>5. \E i \in DOMAIN q : q[i] = Head(q)
  BY <1>1
<1> HIDE <1>2
<1>6. Elements(q) = {Head(q)} \union Elements(Tail(q))
  <2> SUFFICES ASSUME NEW v
               PROVE  v \in Elements(q) <=> v \in {Head(q)} \union Elements(Tail(q))
    OBVIOUS
  <2> QED
    BY <1>3, <1>4, <1>5 DEF Elements
<1> QED
  BY <1>1, <1>6

\* The row written is that of the day, if there is one left, and nobody else writes it.
LEMMA UpsertKept ==
  ASSUME HoursInv, NEW c \in Replacements, Schedule!UpsertBusinessHour(c)
  PROVE  HoursInv'
<1>1. PICK y \in Replacement : y = replacement[c]
  BY DEF HoursInv
<1>2. y.at = "upsert" /\ y.todo # <<>> /\ y.todo \in Seq(Entry) /\ Progress(y) /\ Meets(y)
  BY <1>1 DEF Schedule!UpsertBusinessHour, HoursInv, Replacement
<1>3. PICK e \in Entry : e = Head(y.todo)
  BY <1>2, Rest
<1> DEFINE same == Schedule!Same(c, e)
           fresh == [by |-> c, day |-> e.day]
<1>0. same = {r \in rows : r.day = e.day /\ r.id \notin y.gone}
  BY <1>1 DEF Schedule!Same
<1>4. PICK id \in AnyId : IF same = {} THEN id = fresh ELSE Schedule!Ids(same) = {id}
  <2>1. fresh \in AnyId
    BY DEF AnyId, Entry
  <2>2. ASSUME NEW r \in same
        PROVE  r.id \in AnyId /\ Schedule!Ids(same) = {r.id}
    BY <1>0, <2>2 DEF HoursInv, OnePerDay, Schedule!Ids, HourRow
  <2> QED
    BY <2>1, <2>2
<1> DEFINE w == [id |-> id, day |-> e.day, opens |-> e.opens, closes |-> e.closes, closed |-> e.closed]
<1>5. w \in HourRow /\ w.day = e.day /\ w.id = id /\ Data(w) = e /\ w.opens = e.opens /\ w.closed = e.closed
  BY DEF HourRow, Data, Entry
<1>6. PICK t \in Seq(Entry), W \in SUBSET HourRow : t = Tail(y.todo) /\ W = y.wrote \union {w}
  BY <1>2, <1>5, Rest DEF Replacement
<1>7. Schedule!Upserted(c, e) = {w}
  BY <1>4 DEF Schedule!Row, Schedule!Upserted
<1> DEFINE d == [y EXCEPT !.todo = t]
           x == [d EXCEPT !.wrote = W]
<1>8. replacement' = [replacement EXCEPT ![c] = x]
  <2> HIDE DEF w
  <2>1. replacement' = [replacement EXCEPT ![c].todo = t, ![c].wrote = W]
    BY <1>1, <1>3, <1>6, <1>7 DEF Schedule!UpsertBusinessHour, HoursInv
  <2> QED
    BY <1>1, <2>1 DEF HoursInv
<1> HIDE DEF w
<1>9. d \in Replacement /\ d.at = y.at /\ d.todo = t /\ d.week = y.week
      /\ d.seen = y.seen /\ d.gone = y.gone
  BY <1>6 DEF Replacement
<1> HIDE DEF d
<1>10. /\ x \in Replacement /\ x.at = y.at /\ x.todo = t /\ x.week = y.week
       /\ x.seen = y.seen /\ x.gone = y.gone /\ x.wrote = W
  BY <1>6, <1>9 DEF Replacement
<1> HIDE DEF x
<1>11. e \in Elements(y.todo) /\ e \in Elements(y.week) /\ Timed(e)
  BY <1>2, <1>3, Rest DEF Progress
<1>12. Progress(x)
  <2>1. OnePerDay(W) /\ \A r \in W : Timed(r) /\ Data(r) \in Elements(y.week)
    BY <1>2, <1>5, <1>6, <1>11 DEF Progress, OnePerDay, Timed
  <2>2. \A f \in Elements(y.week) : Timed(f) /\ (f \in Elements(t) \/ \E r \in W : Data(r) = f)
    BY <1>2, <1>3, <1>5, <1>6, Rest DEF Progress
  <2>3. \A i, j \in DOMAIN t : t[i].day = t[j].day => i = j
    <3>1. \A i \in DOMAIN t : i + 1 \in DOMAIN y.todo /\ t[i] = y.todo[i + 1] /\ i \in Int
      BY <1>2, <1>6, Rest
    <3>2. \A i, j \in Int : i + 1 = j + 1 => i = j
      OBVIOUS
    <3> TAKE i, j \in DOMAIN t
    <3>3. HAVE t[i].day = t[j].day
    <3>4. i + 1 = j + 1
      BY <1>2, <3>1, <3>3 DEF Progress
    <3> QED
      BY <3>1, <3>2, <3>4
  <2>4. \A f \in Elements(t) : f \in Elements(y.week) /\ \A r \in W : r.day # f.day
    <3>1. \A f \in Elements(t) : f \in Elements(y.todo)
      BY <1>2, <1>6, Rest
    <3>2. \A f \in Elements(t) : f.day # e.day
      BY <1>2, <1>3, <1>6, Rest DEF Progress, Elements
    <3> QED
      BY <1>2, <1>5, <1>6, <3>1, <3>2 DEF Progress
  <2> QED
    BY <1>2, <1>10, <2>1, <2>2, <2>3, <2>4 DEF Progress
<1>13. Meets(x)
  <2>1. \A r \in rows : r.day = e.day => r.id = id \/ r.id \in y.gone
    BY <1>0, <1>4 DEF Schedule!Ids
  <2> QED
    BY <1>2, <1>5, <1>6, <1>10, <2>1 DEF Meets
<1>14. \A f \in Replacements \ {c} : OtherDays(x, replacement[f])
  <2>1. \A f \in Replacements \ {c} : \A r \in replacement[f].wrote : r.day # e.day
    BY <1>1, <1>3 DEF Schedule!UpsertBusinessHour, Schedule!Others
  <2> QED
    BY <1>1, <1>5, <1>6, <1>10, <2>1 DEF HoursInv, OtherDays
<1>15. c \notin behind => Fresh(x)
  BY <1>1, <1>2, <1>10 DEF HoursInv, Fresh, Active
<1> QED
  BY <1>8, <1>10, <1>12, <1>13, <1>14, <1>15, OneMoves DEF Schedule!UpsertBusinessHour

\* A call that is over.
Over == [Schedule!Idle EXCEPT !.at = "done"]

LEMMA IdleTyped ==
  /\ Schedule!Idle \in Replacement /\ Schedule!Idle.wrote = {} /\ Schedule!Idle.at = "idle"
  /\ Over \in Replacement /\ Over.wrote = {} /\ Over.at = "done"
  /\ Progress(Schedule!Idle) /\ Progress(Over)
<1>1. <<>> \in Seq(Entry) /\ Elements(<<>>) = {} /\ DOMAIN <<>> = {}
  BY DEF Elements
<1>2. /\ Schedule!Idle \in Replacement /\ Schedule!Idle.wrote = {} /\ Schedule!Idle.at = "idle"
      /\ Schedule!Idle.gone = {} /\ Schedule!Idle.todo = <<>> /\ Schedule!Idle.week = <<>>
  BY <1>1 DEF Schedule!Idle, Replacement
<1>3. /\ Over \in Replacement /\ Over.wrote = {} /\ Over.at = "done" /\ Over.gone = {}
      /\ Over.todo = <<>> /\ Over.week = <<>>
  BY <1>2 DEF Over, Replacement
<1>4. Progress(Schedule!Idle)
  BY <1>1, <1>2 DEF Progress, OnePerDay
<1>5. Progress(Over)
  BY <1>1, <1>3 DEF Progress, OnePerDay
<1> QED
  BY <1>2, <1>3, <1>4, <1>5

LEMMA FailedKept ==
  ASSUME HoursInv, NEW c \in Replacements, Schedule!Fail(c)
  PROVE  HoursInv'
<1>1. PICK x \in Replacement : x = Over
  BY IdleTyped
<1>2. replacement' = [replacement EXCEPT ![c] = x]
  BY <1>1 DEF Schedule!Fail, Over
<1>3. Progress(x) /\ Meets(x) /\ Fresh(x) /\ \A d \in Replacements : OtherDays(x, replacement[d])
  BY <1>1, IdleTyped DEF Meets, Fresh, Active, OtherDays
<1> QED
  BY <1>2, <1>3, OneMoves DEF Schedule!Fail

\* The commit leaves one row a day, the whole week among them.
LEMMA CommitHoursKept ==
  ASSUME HoursInv, NEW c \in Replacements, Schedule!Commit(c)
  PROVE  HoursInv'
<1>1. PICK y \in Replacement : y = replacement[c]
  BY DEF HoursInv
<1>2. y.at = "upsert" /\ y.todo = <<>> /\ Progress(y) /\ Meets(y)
  BY <1>1 DEF Schedule!Commit, HoursInv
<1> DEFINE rest == {r \in rows : r.id \notin y.gone \union Schedule!Ids(y.wrote)}
<1>3. rows' = rest \union y.wrote /\ week' = y.week
  BY <1>1 DEF Schedule!Commit, Schedule!ListBusinessHours
<1>4. rows' \in SUBSET HourRow
  BY <1>3 DEF HoursInv, Replacement
<1>5. \A r \in rest, w \in y.wrote : r.day # w.day
  BY <1>2 DEF Meets, Schedule!Ids
<1>6. OnePerDay(rows)' /\ \A r \in rows' : Timed(r)
  BY <1>2, <1>3, <1>5 DEF HoursInv, OnePerDay, Progress
<1>7. \A e \in Elements(y.week) : \E r \in rows' : Data(r) = e
  BY <1>2, <1>3 DEF Progress, Elements
<1>8. /\ replacement' \in [Replacements -> Replacement] /\ replacement'[c] = Over
      /\ \A d \in Replacements \ {c} : replacement'[d] = replacement[d]
  BY IdleTyped DEF Schedule!Commit, HoursInv, Over
<1>9. \A d \in Replacements : Progress(replacement'[d])
  BY <1>8, IdleTyped DEF HoursInv
<1>10. \A d \in Replacements : Meets(replacement[d])'
  <2> SUFFICES ASSUME NEW d \in Replacements, NEW w \in replacement'[d].wrote, NEW r \in rows',
                      r.day = w.day
               PROVE  r.id = w.id \/ r.id \in replacement'[d].gone
    BY DEF Meets
  <2>1. d # c /\ replacement'[d] = replacement[d]
    BY <1>8, IdleTyped
  <2>2. CASE r \in y.wrote
    BY <1>1, <2>1, <2>2 DEF HoursInv, OtherDays
  <2>3. CASE r \in rows
    BY <2>1, <2>3 DEF HoursInv, Meets
  <2> QED
    BY <1>3, <2>2, <2>3
<1>11. \A d, e \in Replacements : d # e => OtherDays(replacement'[d], replacement'[e])
  BY <1>8, IdleTyped DEF HoursInv, OtherDays
<1>12. \A d \in Replacements : (d \notin behind => Fresh(replacement[d]))'
  <2> SUFFICES ASSUME NEW d \in Replacements, d \notin behind', Active(replacement'[d])
               PROVE  FALSE
    BY DEF Fresh
  <2>1. d # c /\ replacement'[d] = replacement[d]
    BY <1>8, IdleTyped DEF Active
  <2> QED
    BY <2>1 DEF Schedule!Commit, Schedule!Others, Active
<1>13. (\A e \in Elements(week) : \E r \in rows : Data(r) = e)'
  BY <1>3, <1>7 DEF Elements, Data
<1>14. \A d, e \in Replacements : d # e => OtherDays(replacement[d], replacement[e])'
  BY <1>11 DEF OtherDays
<1>15. \A d \in Replacements : Progress(replacement[d])'
  BY <1>9 DEF Progress
<1>16. (\A r \in rows : Timed(r))'
  BY <1>6 DEF Timed
<1> QED
  BY <1>4, <1>6, <1>8, <1>10, <1>12, <1>13, <1>14, <1>15, <1>16 DEF HoursInv

LEMMA HoursInit ==
  ASSUME Schedule!Init
  PROVE  HoursInv
<1>1. replacement \in [Replacements -> Replacement] /\ \A c \in Replacements : replacement[c] = Schedule!Idle
  BY IdleTyped DEF Schedule!Init
<1>2. Elements(week) = {}
  BY DEF Schedule!Init, Elements
<1> QED
  BY <1>1, <1>2, IdleTyped DEF Schedule!Init, HoursInv, OnePerDay, Meets, OtherDays, Fresh, Active

LEMMA HoursStutter ==
  ASSUME HoursInv, UNCHANGED Schedule!vars
  PROVE  HoursInv'
BY DEF HoursInv, Schedule!vars, OnePerDay, Timed, Elements, Data, Progress, Meets, Fresh, Active,
       OtherDays, Schedule!Ids

-----------------------------------------------------------------------------
(* Hours: theorems *)

\* The invariant of replaceHours.
THEOREM HoursInvariant == ASSUME Schedule!HoursAssumption PROVE Schedule!Spec => []HoursInv
<1>1. Schedule!Init => HoursInv
  BY HoursInit
<1>2. HoursInv /\ [Schedule!Next]_(Schedule!vars) => HoursInv'
  BY HoursStutter, BeginKept, DeleteKept, UpsertKept, FailedKept, CommitHoursKept DEF Schedule!Next
<1> QED
  BY <1>1, <1>2, PTL DEF Schedule!Spec

\* One row a day, whatever transactions interleave, and no open day without times.
THEOREM HoursTyped == ASSUME Schedule!HoursAssumption PROVE Schedule!Spec => []Schedule!TypeOK
<1>1. HoursInv => Schedule!TypeOK
  BY DEF HoursInv, Progress, OnePerDay, Timed, Replacement, Schedule!TypeOK
<1> QED
  BY <1>1, HoursInvariant, PTL

\* The days of the week committed last are all stored.
THEOREM LastWeekStored == ASSUME Schedule!HoursAssumption PROVE Schedule!Spec => []Schedule!LastWeekIsWhole
<1>1. HoursInv => Schedule!LastWeekIsWhole
  <2> SUFFICES ASSUME HoursInv, NEW e \in Elements(week)
               PROVE  e \in Schedule!Stored
    BY DEF Schedule!LastWeekIsWhole, Schedule!Week, Schedule!ToSet, Elements
  <2> QED
    BY DEF HoursInv, Data, Schedule!Stored
<1> QED
  BY <1>1, HoursInvariant, PTL

\* A replacement during which no other committed leaves its week and nothing else.
THEOREM AloneReplaces == ASSUME Schedule!HoursAssumption PROVE Schedule!Spec => Schedule!ReplacedWhenApart
<1> DEFINE A == \A c \in Replacements :
       /\ replacement[c].at = "upsert" /\ replacement'[c].at = "done" /\ c \notin behind
       /\ rows' # rows /\ week' = replacement[c].week
       => Schedule!Stored' = Schedule!Week(week')
<1>1. ASSUME HoursInv, [Schedule!Next]_(Schedule!vars)
      PROVE  [A]_(Schedule!vars)
  <2> SUFFICES ASSUME NEW c \in Replacements, replacement[c].at = "upsert",
                      replacement'[c].at = "done", c \notin behind, rows' # rows
               PROVE  Schedule!Stored' = Schedule!Week(week')
    OBVIOUS
  <2>1. PICK d \in Replacements : Schedule!Commit(d)
    BY <1>1 DEF Schedule!vars, Schedule!Next, Schedule!Begin, Schedule!DeleteBusinessHours,
                Schedule!UpsertBusinessHour, Schedule!Fail
  <2>2. d = c
    BY <1>1, <2>1 DEF Schedule!Commit, HoursInv
  <2>3. Progress(replacement[c]) /\ Fresh(replacement[c]) /\ replacement[c].todo = <<>>
    BY <1>1, <2>1, <2>2 DEF HoursInv, Schedule!Commit
  <2>4. rows' = replacement[c].wrote /\ week' = replacement[c].week
    BY <2>1, <2>2, <2>3 DEF Schedule!Commit, Schedule!ListBusinessHours, Fresh, Active, Schedule!Ids
  <2>5. \A e : e \in Elements(week') <=> \E r \in rows' : Data(r) = e
    <3>1. Elements(replacement[c].todo) = {}
      BY <2>3 DEF Elements
    <3>2. \A e : e \in Elements(replacement[c].week) <=> \E r \in replacement[c].wrote : Data(r) = e
      BY <2>3, <3>1 DEF Progress
    <3> QED
      BY <2>4, <3>2
  <2> QED
    BY <2>5 DEF Schedule!Stored, Schedule!Week, Schedule!ToSet, Elements, Data
<1>2. HoursInv /\ [Schedule!Next]_(Schedule!vars) => [A]_(Schedule!vars)
  BY <1>1
<1> QED
  BY <1>2, HoursInvariant, PTL DEF Schedule!Spec, Schedule!ReplacedWhenApart

-----------------------------------------------------------------------------
(* JwksCache: the inductive invariant *)

Never == Signing!Never
Check == [at: Signing!States, kid: Kids \union {None}, fetched: SUBSET Kids, time: Int]

\* A set answered at time t has no key that was withdrawn before, and each that was
\* published before and still is.
AnsweredAt(S, t) ==
  /\ t \in Int /\ t <= now
  /\ \A k \in S : since[k] <= t /\ (until[k] # Never => until[k] >= t)
  /\ \A k \in Kids : until[k] = Never /\ since[k] < t => k \in S

\* A withdrawal is later than now by less than a fresh answer and a late one.
Refused(k) == until[k] # Never => now - until[k] < FreshFor + Timeout

\* The cache is the answer of a moment not long before it was stored; between the second
\* look-up and the answer of the API no time passes.
JwksInv ==
  /\ now \in 0 .. MaxTime /\ since \in [Kids -> (0 .. now) \union {Never}]
  /\ until \in [Kids -> (0 .. now) \union {Never}]
  /\ \A k \in Kids : until[k] # Never => since[k] # Never
  /\ keys \subseteq Kids /\ loaded \in Int /\ loaded <= now
  /\ \E t \in Int : AnsweredAt(keys, t) /\ t <= loaded /\ loaded <= t + Timeout
  /\ check \in [Tokens -> Check]
  /\ \A r \in Tokens : check[r].at # "idle" => check[r].kid \in Kids
  /\ \A r \in Tokens : check[r].at = "store" =>
       AnsweredAt(check[r].fetched, check[r].time) /\ now <= check[r].time + Timeout
  /\ \A r \in Tokens : check[r].at = "again" => loaded = now
  /\ \A r \in Tokens : check[r].at = "accepted" => Refused(check[r].kid)
  /\ \A r \in Tokens : check[r].at = "missing" /\ until[check[r].kid] = Never =>
       now <= since[check[r].kid] + Timeout

-----------------------------------------------------------------------------
(* JwksCache: the invariant is kept *)

LEMMA JwksConstants ==
  ASSUME Signing!JwksAssumption
  PROVE  /\ FreshFor \in Nat /\ FreshFor > 0 /\ Timeout \in Nat /\ MaxTime \in Nat /\ None \notin Kids
         /\ Never \in Nat /\ MaxTime + FreshFor + Timeout < Never /\ MaxTime < Never
BY DEF Signing!JwksAssumption, Never, Signing!Never

\* A request goes on, and the rest stays.
LEMMA CheckMoves ==
  ASSUME JwksInv, NEW r \in Tokens, NEW c \in Check, check' = [check EXCEPT ![r] = c],
         UNCHANGED <<now, since, until, keys, loaded>>,
         c.at # "idle" => c.kid \in Kids,
         c.at = "store" => AnsweredAt(c.fetched, c.time) /\ now <= c.time + Timeout,
         c.at = "again" => loaded = now,
         c.at = "accepted" => Refused(c.kid),
         c.at = "missing" /\ until[c.kid] = Never => now <= since[c.kid] + Timeout
  PROVE  JwksInv'
<1>1. /\ check' \in [Tokens -> Check] /\ check'[r] = c
      /\ \A q \in Tokens \ {r} : check'[q] = check[q]
  BY DEF JwksInv
<1>2. \A S, t : AnsweredAt(S, t)' <=> AnsweredAt(S, t)
  BY DEF AnsweredAt, Never, Signing!Never
<1>3. \A k : Refused(k)' <=> Refused(k)
  BY DEF Refused, Never, Signing!Never
<1>4. Never' = Never
  BY DEF Never, Signing!Never
<1>5. \E t \in Int : AnsweredAt(keys, t)' /\ t <= loaded' /\ loaded' <= t + Timeout
  <2>1. PICK t \in Int : AnsweredAt(keys, t) /\ t <= loaded /\ loaded <= t + Timeout
    BY DEF JwksInv
  <2>2. AnsweredAt(keys, t)'
    BY <2>1 DEF AnsweredAt, Never, Signing!Never
  <2> QED
    BY <2>1, <2>2
<1>6. \A q \in Tokens : (check[q].at = "store" =>
        AnsweredAt(check[q].fetched, check[q].time) /\ now <= check[q].time + Timeout)'
  BY <1>1, <1>2 DEF JwksInv, AnsweredAt, Never, Signing!Never
<1>7. \A q \in Tokens : (check[q].at = "accepted" => Refused(check[q].kid))'
  BY <1>1, <1>3 DEF JwksInv, Refused, Never, Signing!Never
<1>8. \A q \in Tokens : (check[q].at = "missing" /\ until[check[q].kid] = Never =>
        now <= since[check[q].kid] + Timeout)'
  BY <1>1, <1>4 DEF JwksInv
<1> QED
  BY <1>1, <1>4, <1>5, <1>6, <1>7, <1>8 DEF JwksInv

LEMMA CheckIdle == Signing!Idle \in Check /\ Signing!Idle.at = "idle"
BY DEF Signing!Idle, Check, Signing!States

\* A request for a key, at a place where it has fetched nothing yet.
LEMMA CheckAt ==
  ASSUME NEW k \in Kids, NEW place \in Signing!States
  PROVE  /\ [Signing!Idle EXCEPT !.at = place, !.kid = k] \in Check
         /\ [Signing!Idle EXCEPT !.at = place, !.kid = k].at = place
         /\ [Signing!Idle EXCEPT !.at = place, !.kid = k].kid = k
<1> DEFINE d == [Signing!Idle EXCEPT !.at = place]
<1>1. d \in Check /\ d.at = place
  BY CheckIdle DEF Check
<1> HIDE DEF d
<1>2. [d EXCEPT !.kid = k] \in Check /\ [d EXCEPT !.kid = k].at = place /\ [d EXCEPT !.kid = k].kid = k
  BY <1>1 DEF Check
<1> QED
  BY <1>2 DEF d

LEMMA PlaceMoves ==
  ASSUME JwksInv, NEW r \in Tokens, NEW place \in Signing!States,
         check' = [check EXCEPT ![r].at = place]
  PROVE  \E c \in Check : /\ check' = [check EXCEPT ![r] = c] /\ c.at = place
                          /\ c.kid = check[r].kid /\ c.fetched = check[r].fetched /\ c.time = check[r].time
<1>1. PICK d \in Check : d = check[r]
  BY DEF JwksInv
<1> DEFINE c == [d EXCEPT !.at = place]
<1>2. c \in Check /\ c.at = place /\ c.kid = d.kid /\ c.fetched = d.fetched /\ c.time = d.time
  BY DEF Check
<1>3. check' = [check EXCEPT ![r] = c]
  BY <1>1 DEF JwksInv
<1> QED
  BY <1>1, <1>2, <1>3

LEMMA ArriveKept ==
  ASSUME JwksInv, NEW r \in Tokens, NEW k \in Kids, Signing!Arrive(r, k)
  PROVE  JwksInv'
<1> DEFINE c == [Signing!Idle EXCEPT !.at = "look", !.kid = k]
<1>1. "look" \in Signing!States
  BY DEF Signing!States
<1>2. c \in Check /\ c.at = "look" /\ c.kid = k
  BY <1>1, CheckAt
<1>3. check' = [check EXCEPT ![r] = c]
  BY DEF Signing!Arrive
<1>4. UNCHANGED <<now, until, since, keys, loaded>>
  BY DEF Signing!Arrive
<1> HIDE DEF c
<1> QED
  BY <1>2, <1>3, <1>4, CheckMoves

LEMMA IdleKept ==
  ASSUME JwksInv, NEW r \in Tokens, Signing!Fail(r) \/ Signing!Done(r)
  PROVE  JwksInv'
<1>1. PICK c \in Check : c = Signing!Idle /\ c.at = "idle"
  BY CheckIdle
<1> QED
  BY <1>1, CheckMoves DEF Signing!Fail, Signing!Done

\* What is in the cache was not withdrawn long before it was loaded.
LEMMA KnownIsRefusedLater ==
  ASSUME Signing!JwksAssumption, JwksInv, NEW k \in keys, now - loaded < FreshFor
  PROVE  Refused(k)
<1>1. PICK t \in Int : AnsweredAt(keys, t) /\ t <= loaded /\ loaded <= t + Timeout
  BY DEF JwksInv
<1>2. until[k] # Never => until[k] >= t /\ until[k] \in Int
  <2>1. k \in Kids /\ now \in Int
    BY DEF JwksInv
  <2> QED
    BY <1>1, <2>1 DEF AnsweredAt, JwksInv
<1> QED
  BY <1>1, <1>2, JwksConstants DEF Refused, JwksInv

LEMMA LookKept ==
  ASSUME Signing!JwksAssumption, JwksInv, NEW r \in Tokens, Signing!Look(r)
  PROVE  JwksInv'
<1>1. PICK place \in {"accepted", "fetch"} :
        /\ place = IF check[r].kid \in keys /\ now - loaded < FreshFor THEN "accepted" ELSE "fetch"
        /\ check' = [check EXCEPT ![r].at = place]
  BY DEF Signing!Look
<1>2. PICK c \in Check : check' = [check EXCEPT ![r] = c] /\ c.at = place /\ c.kid = check[r].kid
  BY <1>1, PlaceMoves DEF Signing!States
<1>3. c.kid \in Kids
  BY <1>2 DEF Signing!Look, JwksInv
<1>4. c.at = "accepted" => Refused(c.kid)
  BY <1>1, <1>2, KnownIsRefusedLater
<1> QED
  BY <1>1, <1>2, <1>3, <1>4, CheckMoves DEF Signing!Look

LEMMA AnswerKept ==
  ASSUME Signing!JwksAssumption, JwksInv, NEW r \in Tokens, Signing!Answer(r)
  PROVE  JwksInv'
<1>1. PICK d \in Check : d = check[r]
  BY DEF JwksInv
<1>2. PICK P \in SUBSET Kids, t \in Int : P = Signing!Published /\ t = now
  <2>1. Signing!Published \in SUBSET Kids /\ now \in Int
    BY JwksConstants DEF Signing!Published, JwksInv
  <2> QED
    BY <2>1
<1> DEFINE e == [d EXCEPT !.at = "store"]
           f == [e EXCEPT !.fetched = P]
           c == [f EXCEPT !.time = t]
<1>3. e \in Check /\ e.at = "store" /\ e.kid = d.kid
  BY DEF Check, Signing!States
<1>4. check' = [check EXCEPT ![r] = c]
  BY <1>1, <1>2 DEF Signing!Answer, JwksInv
<1> HIDE DEF e
<1>5. f \in Check /\ f.at = "store" /\ f.kid = d.kid /\ f.fetched = P
  BY <1>3 DEF Check
<1> HIDE DEF f
<1>6. c \in Check /\ c.at = "store" /\ c.kid = d.kid /\ c.fetched = P /\ c.time = t
  BY <1>5 DEF Check
<1> HIDE DEF c
<1>7. AnsweredAt(P, t)
  <2>1. \A k \in Kids : since[k] # Never => since[k] <= now
    BY DEF JwksInv
  <2>2. \A k \in Kids : since[k] < now => since[k] # Never
    BY JwksConstants DEF JwksInv
  <2> QED
    BY <1>2, <2>1, <2>2 DEF AnsweredAt, Signing!Published, Never, JwksInv
<1>8. d.kid \in Kids /\ now <= t + Timeout
  BY <1>1, <1>2, JwksConstants DEF Signing!Answer, JwksInv
<1> QED
  BY <1>4, <1>6, <1>7, <1>8, CheckMoves DEF Signing!Answer

\* The answer becomes the cache, whatever was stored before it.
LEMMA StoreKept ==
  ASSUME Signing!JwksAssumption, JwksInv, NEW r \in Tokens, Signing!Store(r)
  PROVE  JwksInv'
<1>1. check[r] \in Check /\ check[r].at = "store" /\ check[r].kid \in Kids
      /\ AnsweredAt(check[r].fetched, check[r].time) /\ now <= check[r].time + Timeout
      /\ check[r].fetched \subseteq Kids
  BY DEF Signing!Store, JwksInv, Check
<1>2. PICK t \in Int, S \in SUBSET Kids : t = check[r].time /\ S = check[r].fetched
  BY <1>1 DEF Check
<1>12. PICK k \in Kids : k = check[r].kid
  BY <1>1
<1>13. "again" \in Signing!States
  BY DEF Signing!States
<1>3. PICK c \in Check : /\ c = [Signing!Idle EXCEPT !.at = "again", !.kid = k]
                         /\ c.at = "again" /\ c.kid = k
  BY <1>13, CheckAt
<1>4. /\ check' \in [Tokens -> Check] /\ check'[r] = c
      /\ \A q \in Tokens \ {r} : check'[q] = check[q]
  BY <1>3, <1>12 DEF Signing!Store, JwksInv
<1>5. keys' = S /\ loaded' = now /\ UNCHANGED <<now, since, until>> /\ Never' = Never
  BY <1>2 DEF Signing!Store, Never, Signing!Never
<1>6. AnsweredAt(S, t)' /\ t <= now
  BY <1>1, <1>2, <1>5 DEF AnsweredAt
<1>7. \E u \in Int : AnsweredAt(keys, u)' /\ u <= loaded' /\ loaded' <= u + Timeout
  <2>1. AnsweredAt(keys, t)'
    BY <1>5, <1>6 DEF AnsweredAt
  <2> QED
    BY <1>1, <1>2, <1>5, <1>6, <2>1
<1>8. \A q \in Tokens : (check[q].at = "store" =>
        AnsweredAt(check[q].fetched, check[q].time) /\ now <= check[q].time + Timeout)'
  BY <1>3, <1>4, <1>5 DEF JwksInv, AnsweredAt
<1>9. \A q \in Tokens : (check[q].at = "accepted" => Refused(check[q].kid))'
  BY <1>3, <1>4, <1>5 DEF JwksInv, Refused
<1>10. \A q \in Tokens : (check[q].at = "missing" /\ until[check[q].kid] = Never =>
         now <= since[check[q].kid] + Timeout)'
  BY <1>3, <1>4, <1>5 DEF JwksInv
<1>11. \A q \in Tokens : (check[q].at # "idle" => check[q].kid \in Kids)'
  BY <1>1, <1>3, <1>4 DEF JwksInv
<1> QED
  BY <1>4, <1>5, <1>7, <1>8, <1>9, <1>10, <1>11 DEF JwksInv

LEMMA LookAgainKept ==
  ASSUME Signing!JwksAssumption, JwksInv, NEW r \in Tokens, Signing!LookAgain(r)
  PROVE  JwksInv'
<1>1. PICK place \in {"accepted", "missing"} :
        /\ place = IF check[r].kid \in keys THEN "accepted" ELSE "missing"
        /\ check' = [check EXCEPT ![r].at = place]
  BY DEF Signing!LookAgain
<1>2. PICK c \in Check : check' = [check EXCEPT ![r] = c] /\ c.at = place /\ c.kid = check[r].kid
  BY <1>1, PlaceMoves DEF Signing!States
<1>3. c.kid \in Kids /\ loaded = now
  BY <1>2 DEF Signing!LookAgain, JwksInv
<1>4. c.at = "accepted" => Refused(c.kid)
  BY <1>1, <1>2, <1>3, KnownIsRefusedLater, JwksConstants DEF JwksInv
<1>5. c.at = "missing" /\ until[c.kid] = Never => now <= since[c.kid] + Timeout
  <2>1. PICK t \in Int : AnsweredAt(keys, t) /\ t <= loaded /\ loaded <= t + Timeout
    BY DEF JwksInv
  <2> SUFFICES ASSUME c.at = "missing", until[c.kid] = Never
               PROVE  now <= since[c.kid] + Timeout
    OBVIOUS
  <2>2. ~ (since[c.kid] < t)
    BY <1>1, <1>2, <1>3, <2>1 DEF AnsweredAt
  <2>3. since[c.kid] \in Int /\ now \in Int
    BY <1>3, JwksConstants DEF JwksInv
  <2> QED
    BY <1>3, <2>1, <2>2, <2>3, JwksConstants
<1> QED
  BY <1>1, <1>2, <1>3, <1>4, <1>5, CheckMoves DEF Signing!LookAgain

\* Clerk publishes a key or withdraws one: the answers given stay what they were.
LEMMA KeyChanges ==
  ASSUME Signing!JwksAssumption, JwksInv, NEW j \in Kids,
         Signing!Publish(j) \/ Signing!Withdraw(j)
  PROVE  JwksInv'
<1>1. /\ UNCHANGED <<now, keys, loaded, check>> /\ Never' = Never /\ now \in Nat /\ now < Never
      /\ now \in 0 .. MaxTime
  BY JwksConstants DEF Signing!Publish, Signing!Withdraw, Never, Signing!Never, JwksInv
<1>2. /\ since' \in [Kids -> (0 .. now) \union {Never}] /\ until' \in [Kids -> (0 .. now) \union {Never}]
      /\ \A k \in Kids \ {j} : since'[k] = since[k] /\ until'[k] = until[k]
  BY <1>1 DEF Signing!Publish, Signing!Withdraw, JwksInv
<1>3. \/ since[j] = Never /\ since'[j] = now /\ until'[j] = until[j] /\ until[j] = Never
      \/ since[j] # Never /\ since'[j] = since[j] /\ until[j] = Never /\ until'[j] = now
  BY DEF Signing!Publish, Signing!Withdraw, Signing!Published, JwksInv, Never
<1>4. ASSUME NEW S \in SUBSET Kids, NEW t \in Int, AnsweredAt(S, t)
      PROVE  AnsweredAt(S, t)'
  <2>1. \A k \in S : since'[k] <= t /\ (until'[k] # Never => until'[k] >= t)
    <3>2. ASSUME j \in S PROVE since'[j] = since[j] /\ (until'[j] # Never => until'[j] >= t)
      BY <1>1, <1>3, <1>4, <3>2, JwksConstants DEF AnsweredAt
    <3> QED
      BY <1>2, <1>4, <3>2 DEF AnsweredAt
  <2>2. \A k \in Kids : until'[k] = Never /\ since'[k] < t => k \in S
    BY <1>1, <1>2, <1>3, <1>4 DEF AnsweredAt
  <2> QED
    BY <1>1, <1>4, <2>1, <2>2 DEF AnsweredAt
<1>5. \E t \in Int : AnsweredAt(keys, t)' /\ t <= loaded' /\ loaded' <= t + Timeout
  <2>1. PICK t \in Int : AnsweredAt(keys, t) /\ t <= loaded /\ loaded <= t + Timeout
    BY DEF JwksInv
  <2>2. AnsweredAt(keys, t)'
    <3>1. PICK S \in SUBSET Kids : S = keys
      BY DEF JwksInv
    <3>2. AnsweredAt(S, t)'
      BY <1>4, <2>1, <3>1
    <3> QED
      BY <1>1, <3>1, <3>2 DEF AnsweredAt
  <2> QED
    BY <1>1, <2>1, <2>2
<1>6. \A q \in Tokens : (check[q].at = "store" =>
        AnsweredAt(check[q].fetched, check[q].time) /\ now <= check[q].time + Timeout)'
  <2> SUFFICES ASSUME NEW q \in Tokens, check[q].at = "store"
               PROVE  (AnsweredAt(check[q].fetched, check[q].time))' /\ now <= check[q].time + Timeout
    BY <1>1
  <2>1. PICK S \in SUBSET Kids, t \in Int : S = check[q].fetched /\ t = check[q].time
    BY DEF JwksInv, Check
  <2>2. AnsweredAt(S, t) /\ now <= t + Timeout
    BY <2>1 DEF JwksInv
  <2>3. AnsweredAt(S, t)'
    BY <1>4, <2>2
  <2> QED
    BY <1>1, <2>1, <2>2, <2>3 DEF AnsweredAt
<1>7. \A q \in Tokens : (check[q].at = "accepted" => Refused(check[q].kid))'
  <2>1. \A k \in Kids : Refused(k) => Refused(k)'
    BY <1>1, <1>2, <1>3, JwksConstants DEF Refused
  <2> SUFFICES ASSUME NEW q \in Tokens, check[q].at = "accepted" PROVE (Refused(check[q].kid))'
    BY <1>1
  <2>2. PICK k \in Kids : k = check[q].kid
    BY DEF JwksInv
  <2>3. Refused(k)'
    BY <2>1, <2>2 DEF JwksInv
  <2> QED
    BY <1>1, <2>2, <2>3 DEF Refused
<1>8. \A q \in Tokens : (check[q].at = "missing" /\ until[check[q].kid] = Never =>
        now <= since[check[q].kid] + Timeout)'
  <2>1. \A k \in Kids : (until[k] = Never => now <= since[k] + Timeout)
                        => (until'[k] = Never => now <= since'[k] + Timeout)
    BY <1>1, <1>2, <1>3, JwksConstants
  <2> QED
    BY <1>1, <2>1 DEF JwksInv
<1>9. \A k \in Kids : until'[k] # Never => since'[k] # Never
  BY <1>1, <1>2, <1>3 DEF JwksInv
<1>10. /\ check' \in [Tokens -> Check]
       /\ \A r \in Tokens : check'[r].at # "idle" => check'[r].kid \in Kids
       /\ \A r \in Tokens : check'[r].at = "again" => loaded' = now'
       /\ keys' \subseteq Kids /\ loaded' \in Int /\ loaded' <= now'
  BY <1>1 DEF JwksInv
<1> QED
  BY <1>1, <1>2, <1>5, <1>6, <1>7, <1>8, <1>9, <1>10 DEF JwksInv

\* No time passes while a request is between its second look-up and its answer.
LEMMA TickKept ==
  ASSUME Signing!JwksAssumption, JwksInv, Signing!Tick
  PROVE  JwksInv'
<1>1. /\ now \in Int /\ now' = now + 1 /\ now' \in 0 .. MaxTime /\ Never' = Never /\ now' < Never
      /\ UNCHANGED <<since, until, keys, loaded, check>>
  BY JwksConstants DEF Signing!Tick, Never, Signing!Never, JwksInv
<1>2. \A r \in Tokens : /\ check[r].at \in {"idle", "fetch", "store"}
                        /\ check[r].at = "store" => now - check[r].time < Timeout
  BY DEF Signing!Tick
<1>3. since' \in [Kids -> (0 .. now') \union {Never}] /\ until' \in [Kids -> (0 .. now') \union {Never}]
  <2>1. 0 .. now \subseteq 0 .. now'
    BY <1>1
  <2> QED
    BY <1>1, <2>1 DEF JwksInv
<1>4. \E t \in Int : AnsweredAt(keys, t)' /\ t <= loaded' /\ loaded' <= t + Timeout
  <2>1. PICK t \in Int : AnsweredAt(keys, t) /\ t <= loaded /\ loaded <= t + Timeout
    BY DEF JwksInv
  <2>2. AnsweredAt(keys, t)'
    BY <1>1, <2>1 DEF AnsweredAt
  <2> QED
    BY <1>1, <2>1, <2>2
<1>5. \A q \in Tokens : (check[q].at = "store" =>
        AnsweredAt(check[q].fetched, check[q].time) /\ now <= check[q].time + Timeout)'
  <2> SUFFICES ASSUME NEW q \in Tokens, check[q].at = "store"
               PROVE  (AnsweredAt(check[q].fetched, check[q].time) /\ now <= check[q].time + Timeout)'
    BY <1>1
  <2>1. check[q].time \in Int /\ AnsweredAt(check[q].fetched, check[q].time)
    BY DEF JwksInv, Check
  <2>2. (AnsweredAt(check[q].fetched, check[q].time))'
    BY <1>1, <2>1 DEF AnsweredAt
  <2>3. now' <= check[q].time + Timeout
    BY <1>1, <1>2, <2>1, JwksConstants
  <2> QED
    BY <1>1, <2>2, <2>3
<1>6. loaded \in Int /\ loaded' <= now'
  BY <1>1 DEF JwksInv
<1> QED
  BY <1>1, <1>2, <1>3, <1>4, <1>5, <1>6 DEF JwksInv

LEMMA JwksInit ==
  ASSUME Signing!JwksAssumption, Signing!Init
  PROVE  JwksInv
<1>1. /\ check \in [Tokens -> Check] /\ \A r \in Tokens : check[r].at = "idle"
  BY CheckIdle DEF Signing!Init
<1>2. AnsweredAt({}, loaded)
  BY JwksConstants DEF Signing!Init, AnsweredAt, Never
<1> QED
  BY <1>1, <1>2, JwksConstants DEF Signing!Init, JwksInv, Never

LEMMA JwksStutter ==
  ASSUME JwksInv, UNCHANGED Signing!vars
  PROVE  JwksInv'
<1>1. UNCHANGED <<now, since, until, keys, loaded, check>> /\ Never' = Never
  BY DEF Signing!vars, Never, Signing!Never
<1> QED
  BY <1>1 DEF JwksInv, AnsweredAt, Refused

-----------------------------------------------------------------------------
(* JwksCache: theorems *)

\* The invariant of Verifier.key and Verifier.refresh.
THEOREM JwksInvariant == ASSUME Signing!JwksAssumption PROVE Signing!Spec => []JwksInv
<1>1. Signing!Init => JwksInv
  BY JwksInit
<1>2. JwksInv /\ [Signing!Next]_(Signing!vars) => JwksInv'
  BY JwksStutter, ArriveKept, LookKept, AnswerKept, IdleKept, StoreKept, LookAgainKept, KeyChanges,
     TickKept DEF Signing!Next
<1> QED
  BY <1>1, <1>2, PTL DEF Signing!Spec

\* Keys that are stored were published, and an answer is stored within the timeout.
THEOREM JwksTyped == ASSUME Signing!JwksAssumption PROVE Signing!Spec => []Signing!TypeOK
<1>1. ASSUME Signing!JwksAssumption, JwksInv PROVE Signing!TypeOK
  <2>1. \A k \in keys : since[k] <= now
    BY <1>1, JwksConstants DEF JwksInv, AnsweredAt
  <2>2. \A r \in Tokens : check[r].at = "store" => now - check[r].time <= Timeout
    BY <1>1, JwksConstants DEF JwksInv, Check
  <2>3. \A r \in Tokens : check[r].at \in Signing!States /\ check[r].fetched \subseteq Kids
    BY <1>1 DEF JwksInv, Check, Signing!States
  <2> QED
    BY <1>1, <2>1, <2>2, <2>3, JwksConstants DEF JwksInv, Signing!TypeOK
<1> QED
  BY <1>1, JwksInvariant, PTL

\* A withdrawn key is refused once the set that had it is stale, whichever answer is stored last.
THEOREM WithdrawnRefused == ASSUME Signing!JwksAssumption PROVE Signing!Spec => []Signing!WithdrawnIsRefused
<1>1. JwksInv => Signing!WithdrawnIsRefused
  <2> SUFFICES ASSUME JwksInv, NEW r \in Tokens, check[r].at = "accepted"
               PROVE  now - (IF until[check[r].kid] = Never THEN now ELSE until[check[r].kid]) < FreshFor + Timeout
    BY DEF Signing!WithdrawnIsRefused, Never
  <2>1. Refused(check[r].kid) /\ now \in Int
    BY JwksConstants DEF JwksInv
  <2> QED
    BY <2>1, JwksConstants DEF Refused
<1> QED
  BY <1>1, JwksInvariant, PTL

\* A key published for longer than an answer can be late is never answered as not found.
THEOREM PublishedFound == ASSUME Signing!JwksAssumption PROVE Signing!Spec => []Signing!PublishedIsFound
<1>1. JwksInv => Signing!PublishedIsFound
  <2> SUFFICES ASSUME JwksInv, NEW r \in Tokens, check[r].at = "missing", check[r].kid \in Signing!Published
               PROVE  now - since[check[r].kid] <= Timeout
    BY DEF Signing!PublishedIsFound
  <2>1. until[check[r].kid] = Never /\ check[r].kid \in Kids /\ now <= since[check[r].kid] + Timeout
    BY DEF JwksInv, Signing!Published, Never
  <2>2. now \in Int /\ since[check[r].kid] \in Int
    BY <2>1, JwksConstants DEF JwksInv
  <2> QED
    BY <2>1, <2>2, JwksConstants
<1> QED
  BY <1>1, JwksInvariant, PTL

-----------------------------------------------------------------------------
(* Profile: the inductive invariant *)

Edit == [at: {"idle", "areas", "write", "done"}, body: Bodies \union {None},
         read: Reachable!Profiles \union {None}, stale: BOOLEAN]

\* What an update was validated with is what it writes, unless another came between: then it
\* is marked.  The areas it was sent are few and differ in any case.
Validated(x) ==
  /\ x.at \in {"areas", "write"} => x.body \in Bodies /\ x.read \in Reachable!Profiles
  /\ x.at = "write" /\ x.body.areas # None => Reachable!NormalizeServiceAreas(x.body.areas)
  /\ x.at = "write" /\ ~ x.stale =>
       Reachable!CreateParams(x.read, Reachable!ReplaceAreas(areas, x.body.areas))

ProfileInv ==
  /\ profile \in Reachable!Profiles /\ areas \subseteq Areas /\ areas \in lists /\ stale \in BOOLEAN
  /\ Cardinality(areas) <= MaxAreas
  /\ ~ stale => Reachable!CreateParams(profile, areas)
  /\ edit \in [Edits -> Edit] /\ \A c \in Edits : Validated(edit[c])

-----------------------------------------------------------------------------
(* Profile: the invariant is kept *)

LEMMA AreasCardinality == \A S : Reachable!Cardinality(S) = Cardinality(S)
BY DEF Cardinality, Reachable!Cardinality

\* What a body that leaves fields out becomes.
LEMMA Filled ==
  ASSUME Reachable!ProfileAssumption, NEW body \in Bodies, NEW p \in Reachable!Profiles,
         NEW A \in SUBSET Areas
  PROVE  /\ Reachable!Plain(Reachable!Fill(body, p, A)) \in Reachable!Profiles
         /\ Reachable!Fill(body, p, A).areas = Reachable!ReplaceAreas(A, body.areas)
         /\ Reachable!ReplaceAreas(A, body.areas) \in SUBSET Areas
<1>1. body \in Reachable!AnyBody
  BY DEF Reachable!ProfileAssumption
<1> QED
  BY <1>1 DEF Reachable!Plain, Reachable!Fill, Reachable!ReplaceAreas, Reachable!AnyBody,
              Reachable!Profiles

LEMMA EditMoves ==
  ASSUME ProfileInv, NEW c \in Edits, NEW x \in Edit, edit' = [edit EXCEPT ![c] = x],
         Validated(x), UNCHANGED <<profile, areas, stale, lists>>
  PROVE  ProfileInv'
<1>1. edit' \in [Edits -> Edit] /\ edit'[c] = x /\ \A d \in Edits \ {c} : edit'[d] = edit[d]
  BY DEF ProfileInv
<1>2. \A d \in Edits : Validated(edit[d])'
  BY <1>1 DEF ProfileInv, Validated
<1> QED
  BY <1>1, <1>2 DEF ProfileInv

LEMMA GetKept ==
  ASSUME ProfileInv, NEW c \in Edits, NEW body \in Bodies, Reachable!GetBusinessForMember(c, body)
  PROVE  ProfileInv'
<1>1. PICK y \in Edit, p \in Reachable!Profiles : y = edit[c] /\ p = profile
  BY DEF ProfileInv
<1> DEFINE d == [y EXCEPT !.at = "areas"]
           e == [d EXCEPT !.body = body]
           x == [e EXCEPT !.read = p]
<1>2. d \in Edit /\ d.at = "areas"
  BY DEF Edit
<1>3. edit' = [edit EXCEPT ![c] = x]
  BY <1>1 DEF Reachable!GetBusinessForMember
<1> HIDE DEF d
<1>4. e \in Edit /\ e.at = "areas" /\ e.body = body
  BY <1>2 DEF Edit
<1> HIDE DEF e
<1>5. x \in Edit /\ x.at = "areas" /\ x.body = body /\ x.read = p
  BY <1>4 DEF Edit
<1> HIDE DEF x
<1> QED
  BY <1>3, <1>5, EditMoves DEF Validated, Reachable!GetBusinessForMember

LEMMA ListKept ==
  ASSUME Reachable!ProfileAssumption, ProfileInv, NEW c \in Edits, Reachable!ListBusinessServiceAreas(c)
  PROVE  ProfileInv'
<1>1. PICK y \in Edit : y = edit[c]
  BY DEF ProfileInv
<1>2. y.at = "areas" /\ y.body \in Bodies /\ y.read \in Reachable!Profiles
  BY <1>1 DEF Reachable!ListBusinessServiceAreas, ProfileInv, Validated
<1>3. areas \in SUBSET Areas
  BY DEF ProfileInv
<1>4. PICK p \in Reachable!Profiles : p = Reachable!Plain(Reachable!Fill(y.body, y.read, areas))
  BY <1>2, <1>3, Filled
<1>5. Reachable!Fill(y.body, y.read, areas).areas = Reachable!ReplaceAreas(areas, y.body.areas)
  BY <1>2, <1>3, Filled
<1>6. PICK place \in {"write", "done"}, b \in BOOLEAN :
        /\ place = IF Reachable!CreateParams(p, Reachable!ReplaceAreas(areas, y.body.areas)) THEN "write" ELSE "done"
        /\ b = (profile # y.read)
  OBVIOUS
<1> DEFINE d == [y EXCEPT !.at = place]
           e == [d EXCEPT !.read = p]
           x == [e EXCEPT !.stale = b]
<1>7. edit' = [edit EXCEPT ![c].at = place, ![c].read = p, ![c].stale = b]
  BY <1>1, <1>4, <1>5, <1>6 DEF Reachable!ListBusinessServiceAreas
<1>8. edit' = [edit EXCEPT ![c] = x]
  BY <1>1, <1>7 DEF ProfileInv
<1>9. d \in Edit /\ d.at = place /\ d.body = y.body
  BY DEF Edit
<1> HIDE DEF d
<1>10. e \in Edit /\ e.at = place /\ e.body = y.body /\ e.read = p
  BY <1>9 DEF Edit
<1> HIDE DEF e
<1>11. x \in Edit /\ x.at = place /\ x.body = y.body /\ x.read = p
  BY <1>10 DEF Edit
<1> HIDE DEF x
<1>12. Validated(x)
  <2>1. x.at = "write" => Reachable!CreateParams(x.read, Reachable!ReplaceAreas(areas, x.body.areas))
    BY <1>6, <1>11
  <2>2. x.at = "write" /\ x.body.areas # None => Reachable!NormalizeServiceAreas(x.body.areas)
    BY <2>1 DEF Reachable!CreateParams, Reachable!ReplaceAreas
  <2> QED
    BY <1>2, <1>11, <2>1, <2>2 DEF Validated
<1> QED
  BY <1>8, <1>11, <1>12, EditMoves DEF Reachable!ListBusinessServiceAreas

LEMMA UpdateKept ==
  ASSUME Reachable!ProfileAssumption, ProfileInv, NEW c \in Edits, Reachable!UpdateBusiness(c)
  PROVE  ProfileInv'
<1>1. PICK y \in Edit : y = edit[c]
  BY DEF ProfileInv
<1>2. y.at = "write" /\ y.body \in Bodies /\ y.read \in Reachable!Profiles /\ Validated(y)
  BY <1>1 DEF Reachable!UpdateBusiness, ProfileInv, Validated
<1>3. PICK A : A = Reachable!ReplaceAreas(areas, y.body.areas)
  OBVIOUS
<1>4. A \in SUBSET Areas
  BY <1>2, <1>3, Filled DEF ProfileInv
<1>5. /\ profile' = y.read /\ areas' = A /\ stale' = (stale \/ y.stale)
      /\ lists' = IF y.body.areas = None THEN lists ELSE lists \union {y.body.areas}
      /\ edit' = [d \in Edits |->
           IF d = c THEN [edit[d] EXCEPT !.at = "done"] ELSE [edit[d] EXCEPT !.stale = TRUE]]
  BY <1>1, <1>3 DEF Reachable!UpdateBusiness
<1>6. A \in lists'
  BY <1>3, <1>5 DEF Reachable!ReplaceAreas, ProfileInv
<1>7. Cardinality(A) <= MaxAreas
  BY <1>2, <1>3, AreasCardinality DEF Reachable!ReplaceAreas, ProfileInv, Validated,
                                      Reachable!NormalizeServiceAreas
<1>8. ~ stale' => Reachable!CreateParams(profile', areas')
  BY <1>2, <1>3, <1>5 DEF Validated, ProfileInv
<1>9. edit' \in [Edits -> Edit]
  BY <1>5 DEF ProfileInv, Edit
<1>10. \A d \in Edits : Validated(edit[d])'
  <2> SUFFICES ASSUME NEW d \in Edits PROVE Validated(edit[d])'
    OBVIOUS
  <2>1. PICK z \in Edit : z = edit[d]
    BY DEF ProfileInv
  <2>2. CASE d = c
    <3>1. edit'[d].at = "done"
      BY <1>5, <2>1, <2>2 DEF Edit
    <3> QED
      BY <3>1 DEF Validated
  <2>3. CASE d # c
    <3>1. /\ edit'[d].at = z.at /\ edit'[d].body = z.body /\ edit'[d].read = z.read
          /\ edit'[d].stale = TRUE
      BY <1>5, <2>1, <2>3 DEF Edit
    <3>2. Validated(z)
      BY <2>1 DEF ProfileInv
    <3> QED
      BY <3>1, <3>2 DEF Validated, Reachable!NormalizeServiceAreas
  <2> QED
    BY <2>2, <2>3
<1>11. stale' \in BOOLEAN
  BY <1>5 DEF ProfileInv, Edit
<1> QED
  BY <1>2, <1>4, <1>5, <1>6, <1>7, <1>8, <1>9, <1>10, <1>11 DEF ProfileInv

LEMMA EditFails ==
  ASSUME ProfileInv, NEW c \in Edits, Reachable!Fail(c)
  PROVE  ProfileInv'
<1>1. PICK y \in Edit : y = edit[c]
  BY DEF ProfileInv
<1> DEFINE x == [y EXCEPT !.at = "done"]
<1>2. x \in Edit /\ x.at = "done"
  BY DEF Edit
<1>3. edit' = [edit EXCEPT ![c] = x]
  BY <1>1 DEF Reachable!Fail
<1> HIDE DEF x
<1> QED
  BY <1>2, <1>3, EditMoves DEF Validated, Reachable!Fail

LEMMA ProfileInit ==
  ASSUME Reachable!ProfileAssumption, Reachable!Init
  PROVE  ProfileInv
<1>1. Cardinality(areas) <= MaxAreas
  BY AreasCardinality DEF Reachable!Init, Reachable!CreateParams, Reachable!NormalizeServiceAreas
<1>2. edit \in [Edits -> Edit] /\ \A c \in Edits : edit[c].at = "idle"
  BY DEF Reachable!Init, Edit
<1> QED
  BY <1>1, <1>2 DEF Reachable!Init, ProfileInv, Validated

LEMMA ProfileStutter ==
  ASSUME ProfileInv, UNCHANGED Reachable!vars
  PROVE  ProfileInv'
BY DEF ProfileInv, Reachable!vars, Validated

-----------------------------------------------------------------------------
(* Profile: theorems *)

\* The invariant of update.
THEOREM ProfileInvariant == ASSUME Reachable!ProfileAssumption PROVE Reachable!Spec => []ProfileInv
<1>1. Reachable!Init => ProfileInv
  BY ProfileInit
<1>2. ProfileInv /\ [Reachable!Next]_(Reachable!vars) => ProfileInv'
  BY ProfileStutter, GetKept, ListKept, UpdateKept, EditFails DEF Reachable!Next
<1> QED
  BY <1>1, <1>2, PTL DEF Reachable!Spec

\* At most MaxAreas areas are stored, and an update is at one of its steps.
THEOREM ProfileTyped == ASSUME Reachable!ProfileAssumption PROVE Reachable!Spec => []Reachable!TypeOK
<1>1. ProfileInv => Reachable!TypeOK
  BY AreasCardinality DEF ProfileInv, Edit, Reachable!TypeOK
<1> QED
  BY <1>1, ProfileInvariant, PTL

\* Areas are one list that was sent, never parts of two.
THEOREM AreasWhole == ASSUME Reachable!ProfileAssumption PROVE Reachable!Spec => []Reachable!AreasOfOneList
<1>1. ProfileInv => Reachable!AreasOfOneList
  BY DEF ProfileInv, Reachable!AreasOfOneList
<1> QED
  BY <1>1, ProfileInvariant, PTL

\* Mode, coordinates and areas fit as long as nothing is written over an unread profile.
THEOREM ProfileValid == ASSUME Reachable!ProfileAssumption PROVE Reachable!Spec => []Reachable!ValidUnlessStale
<1>1. ProfileInv => Reachable!ValidUnlessStale
  BY DEF ProfileInv, Reachable!ValidUnlessStale
<1> QED
  BY <1>1, ProfileInvariant, PTL

-----------------------------------------------------------------------------
(* Accounts: the inductive invariant *)

Kinds == {"membership", "membership.deleted", "user", "user.deleted", "organization.deleted"}
Message == [type: Kinds, org: Orgs \union {None}, user: Users \union {None},
            role: ClerkRoles \union {None}, n: Nat]
WellFormed(e) ==
  /\ e.type \in {"membership", "membership.deleted"} => e.org \in Orgs /\ e.user \in Users
  /\ e.type = "membership" => e.role \in ClerkRoles
  /\ e.type \in {"user", "user.deleted"} => e.org = None /\ e.user \in Users
  /\ e.type = "organization.deleted" => e.org \in Orgs /\ e.user = None

Creation == [at: {"idle", "made", "undo"}, org: Orgs \union {None}, row: BOOLEAN]

AccountsTyped ==
  /\ Members!TypeOK /\ posted \in SUBSET Message /\ \A e \in posted : WellFormed(e)
  /\ last \in [Orgs -> [Users -> {"early", "apart", "overlapping"}]]

\* An attempt between its statements is of a membership, whose business is there.
AttemptsInv ==
  /\ attempts \in SUBSET [e: Message, row: BOOLEAN]
  /\ \A a \in attempts :
       /\ a.e.type \in {"membership", "membership.deleted"}
       /\ a.e.type = "membership" => business[a.e.org] # "none"

\* A creation under way has an organization of its own, which is there.
CreationsInv ==
  /\ \A u \in Users : call[u].at # "idle" => call[u].org \in Orgs /\ org[call[u].org] = "live"
  /\ \A u, v \in Users : call[u].at # "idle" /\ call[v].at # "idle" /\ u # v => call[u].org # call[v].org
  /\ \A u \in Users : call[u].row => u \in users

\* There is one business, for an organization that was made.  It is not on sale without its
\* organization, unless the message is on its way or somebody has put it on sale again.
BusinessInv ==
  /\ \A o, p \in Orgs : business[o] # "none" /\ business[p] # "none" => o = p
  /\ \A o \in Orgs : org[o] = "none" => business[o] = "none"
  /\ \A o \in Orgs : business[o] = "none" => \A u \in Users : last[o][u] = "early"
  /\ \A o \in Orgs : org[o] = "deleted" /\ business[o] = "active" =>
       update.org = o \/ \E e \in posted : e.type = "organization.deleted" /\ e.org = o

\* What a message is about.
Concerns(e, o, u) == e.user = u /\ (e.org = o \/ e.type = "user.deleted")

\* As long as changes come apart, what is on its way is what Clerk has, and when nothing is
\* on its way the table has it too.  A deletion that lost the row of its user has nothing
\* left to delete.
Current(e, o, u) == clerk[o][u] = IF e.type = "membership" THEN e.role ELSE None
Copied(o, u) == member[o][u] = IF clerk[o][u] = None THEN None ELSE Members!LocalRole(clerk[o][u])
Lost(o, u) ==
  \A a \in attempts :
    a.e.type = "membership.deleted" /\ ~ a.row /\ Concerns(a.e, o, u) => member[o][u] = None
Sync(o, u) ==
  last[o][u] = "apart" /\ org[o] = "live" =>
    /\ Lost(o, u)
    /\ \A e \in Members!About(o, u) : Current(e, o, u)
    /\ Members!About(o, u) = {} => Copied(o, u)
SyncInv == \A o \in Orgs, u \in Users : Sync(o, u)

AccountsInv == AccountsTyped /\ AttemptsInv /\ CreationsInv /\ BusinessInv /\ SyncInv

-----------------------------------------------------------------------------
(* Accounts: facts about roles, tables and messages *)

LEMMA Apart3 ==
  ASSUME Members!AccountsAssumption
  PROVE  /\ None \notin ClerkRoles /\ None \notin Users /\ None \notin Orgs /\ "org:admin" \in ClerkRoles
         /\ None \notin {"owner", "manager", "staff"} /\ MaxChanges \in Nat
BY DEF Members!AccountsAssumption

LEMMA OneField ==
  ASSUME NEW S, NEW f \in [Orgs -> [Users -> S]], NEW o \in Orgs, NEW u \in Users, NEW v \in S
  PROVE  /\ [f EXCEPT ![o][u] = v] \in [Orgs -> [Users -> S]]
         /\ [f EXCEPT ![o][u] = v][o][u] = v
         /\ \A p \in Orgs, w \in Users : p # o \/ w # u => [f EXCEPT ![o][u] = v][p][w] = f[p][w]
OBVIOUS

LEMMA Mapped ==
  ASSUME Members!AccountsAssumption, NEW r
  PROVE  /\ Members!MapClerkRole(r) \in {"owner", "staff", None}
         /\ Members!MapClerkRole(r) = "owner" => r = "org:admin"
<1>1. "owner" # "staff" /\ None # "owner"
  BY DEF Members!AccountsAssumption
<1>2. CASE r = "org:admin"
  BY <1>2 DEF Members!MapClerkRole
<1>3. CASE r = "org:member" /\ r # "org:admin"
  BY <1>1, <1>3 DEF Members!MapClerkRole
<1>4. CASE r # "org:member" /\ r # "org:admin"
  BY <1>1, <1>4 DEF Members!MapClerkRole
<1> QED
  BY <1>2, <1>3, <1>4

LEMMA Local ==
  ASSUME Members!AccountsAssumption, NEW r
  PROVE  /\ Members!LocalRole(r) \in {"owner", "staff"}
         /\ Members!LocalRole(r) = "owner" => r = "org:admin"
BY Mapped DEF Members!LocalRole

\* What a new message does to the messages.
Sends(type, o, u, r) ==
  \E m \in Message :
    /\ m.type = type /\ m.org = o /\ m.user = u /\ m.role = r /\ WellFormed(m)
    /\ posted' = posted \union {m} /\ changes' \in 0 .. MaxChanges

LEMMA PostSends ==
  ASSUME Members!AccountsAssumption, AccountsInv, NEW type \in Kinds, NEW o \in Orgs \union {None},
         NEW u \in Users \union {None}, NEW r \in ClerkRoles \union {None},
         type \in {"membership", "membership.deleted"} => o \in Orgs /\ u \in Users,
         type = "membership" => r \in ClerkRoles,
         type \in {"user", "user.deleted"} => o = None /\ u \in Users,
         type = "organization.deleted" => o \in Orgs /\ u = None,
         Members!Post([type |-> type, org |-> o, user |-> u, role |-> r])
  PROVE  Sends(type, o, u, r)
<1> DEFINE m == [type |-> type, org |-> o, user |-> u, role |-> r, n |-> changes]
<1>1. changes \in 0 .. MaxChanges /\ MaxChanges \in Nat
  BY Apart3 DEF AccountsInv, AccountsTyped, Members!TypeOK
<1>2. m \in Message
  BY <1>1 DEF Message
<1>3. m.type = type /\ m.org = o /\ m.user = u /\ m.role = r
  OBVIOUS
<1>4. posted' = posted \union {m} /\ changes' = changes + 1 /\ changes < MaxChanges
  BY DEF Members!Post
<1> HIDE DEF m
<1>5. WellFormed(m)
  BY <1>3 DEF WellFormed
<1> QED
  BY <1>1, <1>2, <1>3, <1>4, <1>5 DEF Sends

LEMMA SendsTyped ==
  ASSUME AccountsInv, NEW type, NEW o, NEW u, NEW r, Sends(type, o, u, r)
  PROVE  /\ posted' \in SUBSET Message /\ \A e \in posted' : WellFormed(e)
         /\ changes' \in 0 .. MaxChanges /\ posted \subseteq posted'
BY DEF Sends, AccountsInv, AccountsTyped

\* A member that a step leaves alone.
LEMMA SyncFrame ==
  ASSUME NEW o \in Orgs, NEW u \in Users, Sync(o, u),
         last'[o][u] = last[o][u], clerk'[o][u] = clerk[o][u], member'[o][u] = member[o][u],
         org'[o] = "live" => org[o] = "live",
         {e \in posted' : Concerns(e, o, u)} = {e \in posted : Concerns(e, o, u)},
         \A a \in attempts' : Concerns(a.e, o, u) /\ ~ a.row => a \in attempts
  PROVE  Sync(o, u)'
<1>1. Members!About(o, u)' = Members!About(o, u)
  BY DEF Members!About, Concerns
<1> QED
  BY <1>1 DEF Sync, Current, Copied, Lost

\* A change of a member at Clerk, which is apart only when nothing is on its way.
LEMMA SyncChange ==
  ASSUME AccountsInv, NEW o \in Orgs, NEW u \in Users, NEW m,
         last'[o][u] = "apart" => Members!About(o, u) = {},
         posted' = posted \union {m}, Concerns(m, o, u), UNCHANGED attempts,
         clerk'[o][u] = IF m.type = "membership" THEN m.role ELSE None
  PROVE  Sync(o, u)'
<1>1. Members!About(o, u)' = Members!About(o, u) \union {m}
  BY DEF Members!About, Concerns
<1>2. ASSUME last'[o][u] = "apart" PROVE \A e \in Members!About(o, u)' : Current(e, o, u)'
  BY <1>1, <1>2 DEF Current
<1>3. ASSUME last'[o][u] = "apart" PROVE Lost(o, u)'
  <2>1. \A a \in attempts : a.e \in posted
    BY DEF AccountsInv, AccountsTyped, Members!TypeOK
  <2>2. \A a \in attempts : ~ Concerns(a.e, o, u)
    BY <1>3, <2>1 DEF Members!About, Concerns
  <2> QED
    BY <2>2 DEF Lost
<1> QED
  BY <1>1, <1>2, <1>3 DEF Sync

-----------------------------------------------------------------------------
(* Accounts: every step at Clerk keeps the invariant *)

LEMMA AttemptsFrame ==
  ASSUME AccountsInv, UNCHANGED attempts, \A o \in Orgs : business[o] # "none" => business'[o] # "none"
  PROVE  AttemptsInv'
<1>1. \A a \in attempts : a.e.type = "membership" => a.e.org \in Orgs
  BY DEF AccountsInv, AccountsTyped, AttemptsInv, Members!TypeOK, WellFormed
<1> QED
  BY <1>1 DEF AccountsInv, AttemptsInv

LEMMA CreationsFrame ==
  ASSUME AccountsInv, UNCHANGED <<org, users, call>>
  PROVE  CreationsInv'
BY DEF AccountsInv, CreationsInv

LEMMA BusinessFrame ==
  ASSUME AccountsInv, UNCHANGED <<org, business, update>>, posted \subseteq posted',
         \A o \in Orgs, u \in Users : last'[o][u] = last[o][u] \/ last'[o][u] = Members!How(o, u)
  PROVE  BusinessInv'
<1>1. BusinessInv
  BY DEF AccountsInv
<1>2. \A o \in Orgs : business'[o] = "none" => \A u \in Users : last'[o][u] = "early"
  BY <1>1 DEF BusinessInv, Members!How
<1> QED
  BY <1>1, <1>2 DEF BusinessInv

LEMMA HowTyped ==
  ASSUME NEW o, NEW u
  PROVE  /\ Members!How(o, u) \in {"early", "apart", "overlapping"}
         /\ Members!How(o, u) = "apart" => Members!About(o, u) = {}
BY DEF Members!How

\* One member changes.
LEMMA MemberChanges ==
  ASSUME Members!AccountsAssumption, AccountsInv, NEW o \in Orgs, NEW u \in Users,
         NEW type \in {"membership", "membership.deleted"}, NEW r \in ClerkRoles \union {None},
         type = "membership" => r \in ClerkRoles, type = "membership.deleted" => r = None,
         clerk' = [clerk EXCEPT ![o][u] = r], Members!Noted(o, u),
         Members!Post([type |-> type, org |-> o, user |-> u, role |-> r]),
         UNCHANGED <<org, accounts, tokens, attempts, users, business, member, call, update>>
  PROVE  AccountsInv'
<1>1. Sends(type, o, u, r)
  BY PostSends DEF Kinds
<1>2. clerk \in [Orgs -> [Users -> ClerkRoles \union {None}]] /\ last \in [Orgs -> [Users -> {"early", "apart", "overlapping"}]]
  BY DEF AccountsInv, AccountsTyped, Members!TypeOK
<1>3. clerk' \in [Orgs -> [Users -> ClerkRoles \union {None}]] /\ clerk'[o][u] = r
      /\ \A p \in Orgs, w \in Users : p # o \/ w # u => clerk'[p][w] = clerk[p][w]
  BY <1>2, OneField
<1>4. last' \in [Orgs -> [Users -> {"early", "apart", "overlapping"}]] /\ last'[o][u] = Members!How(o, u)
      /\ \A p \in Orgs, w \in Users : p # o \/ w # u => last'[p][w] = last[p][w]
  BY <1>2, HowTyped, OneField DEF Members!Noted
<1>5. AccountsTyped'
  BY <1>1, <1>3, <1>4, SendsTyped DEF AccountsInv, AccountsTyped, Members!TypeOK, Members!GetBusinessIDByClerkOrgID
<1>6. CreationsInv'
  BY CreationsFrame
<1>7. BusinessInv'
  BY <1>1, <1>4, BusinessFrame DEF Sends
<1>8. ASSUME NEW p \in Orgs, NEW w \in Users PROVE Sync(p, w)'
  <2>1. PICK m \in Message : posted' = posted \union {m} /\ m.type = type /\ m.org = o /\ m.user = u /\ m.role = r
    BY <1>1 DEF Sends
  <2>2. CASE p = o /\ w = u
    BY <1>3, <1>4, <2>1, <2>2, HowTyped, SyncChange DEF Concerns
  <2>3. CASE p # o \/ w # u
    <3>1. ~ Concerns(m, p, w)
      BY <2>1, <2>3 DEF Concerns
    <3>2. Sync(p, w)
      BY DEF AccountsInv, SyncInv
    <3> QED
      BY <1>3, <1>4, <2>1, <2>3, <3>1, <3>2, SyncFrame
  <2> QED
    BY <2>2, <2>3
<1> QED
  BY <1>5, <1>6, <1>7, <1>8, AttemptsFrame DEF AccountsInv, SyncInv

LEMMA SetRoleKept ==
  ASSUME Members!AccountsAssumption, AccountsInv, NEW o \in Orgs, NEW u \in Users, NEW r \in ClerkRoles,
         Members!SetRole(o, u, r)
  PROVE  AccountsInv'
BY MemberChanges DEF Members!SetRole

LEMMA RemoveMemberKept ==
  ASSUME Members!AccountsAssumption, AccountsInv, NEW o \in Orgs, NEW u \in Users, Members!RemoveMember(o, u)
  PROVE  AccountsInv'
BY MemberChanges DEF Members!RemoveMember

LEMMA DeleteAccountKept ==
  ASSUME Members!AccountsAssumption, AccountsInv, NEW u \in Users, Members!DeleteAccount(u)
  PROVE  AccountsInv'
<1>1. Sends("user.deleted", None, u, None)
  BY PostSends DEF Kinds, Members!DeleteAccount
<1>2. clerk \in [Orgs -> [Users -> ClerkRoles \union {None}]] /\ last \in [Orgs -> [Users -> {"early", "apart", "overlapping"}]]
  BY DEF AccountsInv, AccountsTyped, Members!TypeOK
<1>3. clerk' \in [Orgs -> [Users -> ClerkRoles \union {None}]]
      /\ \A p \in Orgs, w \in Users : clerk'[p][w] = IF w = u THEN None ELSE clerk[p][w]
  BY <1>2 DEF Members!DeleteAccount
<1>4. last' \in [Orgs -> [Users -> {"early", "apart", "overlapping"}]]
      /\ \A p \in Orgs, w \in Users : last'[p][w] = IF w = u THEN Members!How(p, u) ELSE last[p][w]
  BY <1>2, HowTyped DEF Members!DeleteAccount
<1>5. AccountsTyped'
  BY <1>1, <1>3, <1>4, SendsTyped
  DEF AccountsInv, AccountsTyped, Members!TypeOK, Members!GetBusinessIDByClerkOrgID, Members!DeleteAccount
<1>6. CreationsInv'
  BY CreationsFrame DEF Members!DeleteAccount
<1>7. BusinessInv'
  BY <1>1, <1>4, BusinessFrame DEF Sends, Members!DeleteAccount
<1>8. ASSUME NEW p \in Orgs, NEW w \in Users PROVE Sync(p, w)'
  <2>1. PICK m \in Message : posted' = posted \union {m} /\ m.type = "user.deleted" /\ m.user = u /\ m.role = None
    BY <1>1 DEF Sends
  <2>2. CASE w = u
    BY <1>3, <1>4, <2>1, <2>2, HowTyped, SyncChange DEF Concerns, Members!DeleteAccount
  <2>3. CASE w # u
    <3>1. ~ Concerns(m, p, w)
      BY <2>1, <2>3 DEF Concerns
    <3>2. Sync(p, w)
      BY DEF AccountsInv, SyncInv
    <3> QED
      BY <1>3, <1>4, <2>1, <2>3, <3>1, <3>2, SyncFrame DEF Members!DeleteAccount
  <2> QED
    BY <2>2, <2>3
<1>9. AttemptsInv'
  BY AttemptsFrame DEF Members!DeleteAccount
<1> QED
  BY <1>5, <1>6, <1>7, <1>8, <1>9 DEF AccountsInv, SyncInv

LEMMA UpdateAccountKept ==
  ASSUME Members!AccountsAssumption, AccountsInv, NEW u \in Users, Members!UpdateAccount(u)
  PROVE  AccountsInv'
<1>1. Sends("user", None, u, None)
  BY PostSends DEF Kinds, Members!UpdateAccount
<1>2. UNCHANGED <<org, clerk, accounts, tokens, attempts, users, business, member, call, update, last>>
  BY DEF Members!UpdateAccount, Members!clerkVars
<1>3. AccountsTyped'
  BY <1>1, <1>2, SendsTyped DEF AccountsInv, AccountsTyped, Members!TypeOK, Members!GetBusinessIDByClerkOrgID
<1>4. CreationsInv' /\ BusinessInv'
  BY <1>1, <1>2, CreationsFrame, BusinessFrame DEF Sends
<1>5. ASSUME NEW p \in Orgs, NEW w \in Users PROVE Sync(p, w)'
  <2>1. PICK m \in Message : posted' = posted \union {m} /\ m.type = "user" /\ m.org = None
    BY <1>1 DEF Sends
  <2>2. ~ Concerns(m, p, w)
    BY <2>1, Apart3 DEF Concerns
  <2>3. Sync(p, w)
    BY DEF AccountsInv, SyncInv
  <2> QED
    BY <1>2, <2>1, <2>2, <2>3, SyncFrame
<1>6. AttemptsInv'
  BY <1>2, AttemptsFrame
<1> QED
  BY <1>3, <1>4, <1>5, <1>6 DEF AccountsInv, SyncInv

LEMMA TokensKept ==
  ASSUME AccountsInv, tokens' \subseteq [user : Users, org : Orgs, role : ClerkRoles],
         UNCHANGED <<org, clerk, accounts, posted, attempts, changes, users, business, member, call, update, last>>
  PROVE  AccountsInv'
<1>1. AccountsTyped' /\ CreationsInv' /\ BusinessInv'
  BY DEF AccountsInv, AccountsTyped, CreationsInv, BusinessInv, Members!TypeOK, Members!GetBusinessIDByClerkOrgID
<1>2. ASSUME NEW p \in Orgs, NEW w \in Users PROVE Sync(p, w)'
  BY SyncFrame DEF AccountsInv, SyncInv
<1> QED
  BY <1>1, <1>2, AttemptsFrame DEF AccountsInv, SyncInv

LEMMA IssueTokenKept ==
  ASSUME AccountsInv, NEW o \in Orgs, NEW u \in Users, Members!IssueToken(o, u)
  PROVE  AccountsInv'
<1>1. clerk[o][u] \in ClerkRoles
  BY DEF AccountsInv, AccountsTyped, Members!TypeOK, Members!IssueToken
<1>2. tokens' \subseteq [user : Users, org : Orgs, role : ClerkRoles]
  BY <1>1 DEF AccountsInv, AccountsTyped, Members!TypeOK, Members!IssueToken
<1> QED
  BY <1>2, TokensKept DEF Members!IssueToken, Members!clerkVars

LEMMA ExpireTokenKept ==
  ASSUME AccountsInv, NEW t \in tokens, Members!ExpireToken(t)
  PROVE  AccountsInv'
<1>1. tokens' \subseteq [user : Users, org : Orgs, role : ClerkRoles]
  BY DEF AccountsInv, AccountsTyped, Members!TypeOK, Members!ExpireToken
<1> QED
  BY <1>1, TokensKept DEF Members!ExpireToken, Members!clerkVars

-----------------------------------------------------------------------------
(* Accounts: every step of a creation keeps the invariant *)

LEMMA Moved ==
  ASSUME NEW u \in Users, NEW c \in Creation, call \in [Users -> Creation], call' = [call EXCEPT ![u] = c]
  PROVE  call' \in [Users -> Creation] /\ call'[u] = c /\ \A w \in Users \ {u} : call'[w] = call[w]
OBVIOUS

LEMMA AtField ==
  ASSUME NEW c \in Creation, NEW a \in {"idle", "made", "undo"}
  PROVE  /\ [c EXCEPT !.at = a] \in Creation
         /\ [c EXCEPT !.at = a].at = a /\ [c EXCEPT !.at = a].org = c.org /\ [c EXCEPT !.at = a].row = c.row
BY DEF Creation

LEMMA IdleCreation == Members!Idle \in Creation /\ Members!Idle.at = "idle" /\ ~ Members!Idle.row
BY DEF Members!Idle, Creation

LEMMA Creations ==
  ASSUME AccountsInv
  PROVE  call \in [Users -> Creation]
BY DEF AccountsInv, AccountsTyped, Members!TypeOK, Creation

LEMMA CreateOrganizationKept ==
  ASSUME Members!AccountsAssumption, AccountsInv, NEW o \in Orgs, NEW u \in Users, Members!CreateOrganization(o, u)
  PROVE  AccountsInv'
<1>1. Sends("membership", o, u, "org:admin")
  BY Apart3, PostSends DEF Kinds, Members!CreateOrganization
<1>2. org \in [Orgs -> {"none", "live", "deleted"}] /\ clerk \in [Orgs -> [Users -> ClerkRoles \union {None}]]
  BY DEF AccountsInv, AccountsTyped, Members!TypeOK
<1>3. org' \in [Orgs -> {"none", "live", "deleted"}] /\ org[o] = "none" /\ org'[o] = "live"
      /\ \A p \in Orgs \ {o} : org'[p] = org[p] /\ org[p] # "live"
  BY <1>2 DEF Members!CreateOrganization
<1>4. clerk' \in [Orgs -> [Users -> ClerkRoles \union {None}]]
      /\ \A p \in Orgs, w \in Users : p # o \/ w # u => clerk'[p][w] = clerk[p][w]
  <2>1. "org:admin" \in ClerkRoles \union {None}
    BY Apart3
  <2>2. clerk' = [clerk EXCEPT ![o][u] = "org:admin"]
    BY DEF Members!CreateOrganization
  <2> QED
    BY <1>2, <2>1, <2>2, OneField
<1>5. users' = users \union {u}
  BY DEF Members!CreateOrganization, Members!CurrentUser, Members!UpsertUserFromClerk
<1>6. call' \in [Users -> Creation] /\ (\A w \in Users \ {u} : call'[w] = call[w])
      /\ (call'[u] = call[u] \/ (call'[u].org = o /\ call'[u].at = "made")) /\ call[u].at = "idle"
  <2>1. [at |-> "made", org |-> o, row |-> TRUE] \in Creation
    BY DEF Creation
  <2>2. CASE call' = call
    BY <2>2, Creations DEF Members!CreateOrganization
  <2>3. CASE call' = [call EXCEPT ![u] = [at |-> "made", org |-> o, row |-> TRUE]]
    BY <2>1, <2>3, Creations DEF Members!CreateOrganization
  <2> QED
    BY <2>2, <2>3 DEF Members!CreateOrganization
<1>7. UNCHANGED <<accounts, tokens, attempts, business, member, update, last>>
  BY DEF Members!CreateOrganization
<1>8. AccountsTyped'
  <2>1. \A p \in Orgs, w \in Users : member[p][w] # None => w \in users /\ business[p] # "none"
    BY DEF AccountsInv, AccountsTyped, Members!TypeOK, Members!GetBusinessIDByClerkOrgID
  <2> QED
    BY <1>1, <1>3, <1>4, <1>5, <1>6, <1>7, <2>1, SendsTyped
    DEF AccountsInv, AccountsTyped, Members!TypeOK, Members!GetBusinessIDByClerkOrgID, Creation
<1>9. CreationsInv'
  <2>1. \A w \in Users : call[w].at # "idle" => call[w].org \in Orgs /\ org[call[w].org] = "live" /\ call[w].org # o
    BY <1>3 DEF AccountsInv, CreationsInv
  <2>2. \A w \in Users : call[w].at = "idle"
    BY <1>3, <2>1
  <2>3. \A w \in Users : call'[w].at # "idle" => w = u /\ call'[w].org = o
    BY <1>6, <2>2
  <2> QED
    BY <1>3, <1>5, <1>6, <2>3 DEF AccountsInv, CreationsInv
<1>10. BusinessInv'
  BY <1>1, <1>3, <1>7 DEF AccountsInv, BusinessInv, Sends
<1>11. ASSUME NEW p \in Orgs, NEW w \in Users PROVE Sync(p, w)'
  <2>1. CASE p = o
    BY <1>3, <1>7, <2>1 DEF AccountsInv, BusinessInv, Sync
  <2>2. CASE p # o
    <3>1. PICK m \in Message : posted' = posted \union {m} /\ m.type = "membership" /\ m.org = o
      BY <1>1 DEF Sends
    <3>2. ~ Concerns(m, p, w)
      BY <2>2, <3>1 DEF Concerns
    <3>3. Sync(p, w)
      BY DEF AccountsInv, SyncInv
    <3> QED
      BY <1>3, <1>4, <1>7, <2>2, <3>1, <3>2, <3>3, SyncFrame
  <2> QED
    BY <2>1, <2>2
<1>12. AttemptsInv'
  BY <1>7, AttemptsFrame
<1> QED
  BY <1>8, <1>9, <1>10, <1>11, <1>12 DEF AccountsInv, SyncInv

\* A creation that goes on or ends changes nothing else.
LEMMA CreationMoves ==
  ASSUME AccountsInv, NEW u \in Users, NEW c \in Creation, call[u].at # "idle", call' = [call EXCEPT ![u] = c],
         (c.at = "idle" /\ ~ c.row) \/ (c.org = call[u].org /\ c.row = call[u].row),
         UNCHANGED <<org, clerk, accounts, tokens, posted, attempts, changes, users, business, member, update, last>>
  PROVE  AccountsInv'
<1>1. call' \in [Users -> Creation] /\ call'[u] = c /\ \A w \in Users \ {u} : call'[w] = call[w]
  BY Creations, Moved
<1>2. AccountsTyped'
  BY <1>1 DEF AccountsInv, AccountsTyped, Members!TypeOK, Members!GetBusinessIDByClerkOrgID, Creation
<1>3. CreationsInv'
  BY <1>1 DEF AccountsInv, CreationsInv
<1>4. BusinessInv'
  BY DEF AccountsInv, BusinessInv
<1>5. ASSUME NEW p \in Orgs, NEW w \in Users PROVE Sync(p, w)'
  BY SyncFrame DEF AccountsInv, SyncInv
<1> QED
  BY <1>2, <1>3, <1>4, <1>5, AttemptsFrame DEF AccountsInv, SyncInv

LEMMA FailBusinessKept ==
  ASSUME AccountsInv, NEW u \in Users, Members!FailBusiness(u)
  PROVE  AccountsInv'
<1>1. call[u] \in Creation
  BY Creations
<1>2. call' = [call EXCEPT ![u] = [call[u] EXCEPT !.at = "undo"]] /\ call[u].at = "made"
  BY DEF Members!FailBusiness
<1> DEFINE c == [call[u] EXCEPT !.at = "undo"]
<1>3. c \in Creation /\ c.org = call[u].org /\ c.row = call[u].row
  BY <1>1, AtField
<1> HIDE DEF c
<1> QED
  BY <1>2, <1>3, CreationMoves DEF c, Members!FailBusiness, Members!clerkVars

LEMMA GiveUpKept ==
  ASSUME AccountsInv, NEW u \in Users, Members!GiveUp(u)
  PROVE  AccountsInv'
<1>1. call' = [call EXCEPT ![u] = Members!Idle] /\ call[u].at # "idle"
  BY DEF Members!GiveUp
<1> QED
  BY <1>1, IdleCreation, CreationMoves DEF Members!GiveUp, Members!clerkVars

LEMMA CommitBusinessKept ==
  ASSUME Members!AccountsAssumption, AccountsInv, NEW u \in Users, Members!CommitBusiness(u)
  PROVE  AccountsInv'
<1>1. PICK o : o = call[u].org
  OBVIOUS
<1>2. call[u].at = "made" /\ call[u].row /\ o \in Orgs /\ org[o] = "live" /\ u \in users
  BY <1>1 DEF AccountsInv, CreationsInv, Members!CommitBusiness
<1>3. business \in [Orgs -> {"none", "active", "archived"}] /\ member \in [Orgs -> [Users -> Members!Roles \union {None}]]
  BY DEF AccountsInv, AccountsTyped, Members!TypeOK
<1>4. business' \in [Orgs -> {"none", "active", "archived"}] /\ business'[o] = "active"
      /\ (\A p \in Orgs : business[p] = "none") /\ \A p \in Orgs \ {o} : business'[p] = "none"
  BY <1>1, <1>2, <1>3 DEF Members!CommitBusiness, Members!CreateBusiness
<1>5. member' \in [Orgs -> [Users -> Members!Roles \union {None}]]
      /\ \A p \in Orgs, w \in Users : p # o \/ w # u => member'[p][w] = member[p][w]
  <2>1. member' = [member EXCEPT ![o][u] = "owner"]
    BY <1>1 DEF Members!CommitBusiness, Members!AddBusinessMember
  <2>2. "owner" \in Members!Roles \union {None}
    BY DEF Members!Roles
  <2> QED
    BY <1>2, <1>3, <2>1, <2>2, OneField
<1>6. call' \in [Users -> Creation] /\ (\A w \in Users \ {u} : call'[w] = call[w])
      /\ (call'[u] = Members!Idle \/ (call'[u].org = o /\ call'[u].row = call[u].row))
  <2>1. [call[u] EXCEPT !.at = "undo"] \in Creation /\ [call[u] EXCEPT !.at = "undo"].org = o
        /\ [call[u] EXCEPT !.at = "undo"].row = call[u].row
    BY <1>1, Creations, AtField
  <2>2. CASE call' = [call EXCEPT ![u] = Members!Idle]
    BY <2>2, Creations, IdleCreation, Moved
  <2>3. CASE call' = [call EXCEPT ![u].at = "undo"]
    <3>1. call' = [call EXCEPT ![u] = [call[u] EXCEPT !.at = "undo"]]
      BY <2>3
    <3> HIDE DEF Creation
    <3> QED
      BY <2>1, <3>1, Creations, Moved
  <2> QED
    BY <2>2, <2>3 DEF Members!CommitBusiness
<1>7. UNCHANGED <<org, clerk, accounts, tokens, posted, attempts, changes, users, update, last>>
  BY DEF Members!CommitBusiness, Members!clerkVars
<1>8. AccountsTyped'
  <2>1. \A p \in Orgs, w \in Users : member[p][w] # None => w \in users /\ business[p] # "none"
    BY DEF AccountsInv, AccountsTyped, Members!TypeOK, Members!GetBusinessIDByClerkOrgID
  <2>2. \A p \in Orgs, w \in Users : member'[p][w] # None => w \in users /\ business'[p] # "none"
    BY <1>2, <1>4, <1>5, <2>1
  <2> QED
    BY <1>4, <1>5, <1>6, <1>7, <2>2
    DEF AccountsInv, AccountsTyped, Members!TypeOK, Members!GetBusinessIDByClerkOrgID, Creation
<1>9. CreationsInv'
  <2>1. CreationsInv /\ "made" # "idle"
    BY DEF AccountsInv
  <2>2. call'[u].at # "idle" => call'[u].org = o
    BY <1>6, IdleCreation
  <2>3. \A w \in Users \ {u} : call'[w].at # "idle" => call'[w].org \in Orgs /\ org[call'[w].org] = "live" /\ call'[w].org # o
    BY <1>1, <1>2, <1>6, <2>1 DEF CreationsInv
  <2>4. \A w \in Users : call'[w].row => w \in users
    BY <1>2, <1>6, <2>1 DEF CreationsInv
  <2>5. \A v, w \in Users \ {u} : call'[v].at # "idle" /\ call'[w].at # "idle" /\ v # w => call'[v].org # call'[w].org
    BY <1>6, <2>1 DEF CreationsInv
  <2> QED
    BY <1>2, <1>7, <2>2, <2>3, <2>4, <2>5 DEF CreationsInv
<1>10. BusinessInv'
  BY <1>2, <1>4, <1>7 DEF AccountsInv, BusinessInv
<1>11. ASSUME NEW p \in Orgs, NEW w \in Users PROVE Sync(p, w)'
  <2>1. CASE p = o
    BY <1>4, <1>7, <2>1 DEF AccountsInv, BusinessInv, Sync
  <2>2. CASE p # o
    BY <1>5, <1>7, <2>2, SyncFrame DEF AccountsInv, SyncInv
  <2> QED
    BY <2>1, <2>2
<1>12. AttemptsInv'
  BY <1>4, <1>7, AttemptsFrame
<1> QED
  BY <1>8, <1>9, <1>10, <1>11, <1>12 DEF AccountsInv, SyncInv

LEMMA DeleteOrganizationKept ==
  ASSUME Members!AccountsAssumption, AccountsInv, NEW u \in Users, Members!DeleteOrganization(u)
  PROVE  AccountsInv'
<1>1. PICK o : o = call[u].org
  OBVIOUS
<1>2. call[u].at = "undo" /\ o \in Orgs /\ org[o] = "live"
  BY <1>1 DEF AccountsInv, CreationsInv, Members!DeleteOrganization
<1>3. Sends("organization.deleted", o, None, None)
  BY <1>1, <1>2, PostSends DEF Kinds, Members!DeleteOrganization
<1>4. org \in [Orgs -> {"none", "live", "deleted"}] /\ clerk \in [Orgs -> [Users -> ClerkRoles \union {None}]]
  BY DEF AccountsInv, AccountsTyped, Members!TypeOK
<1>5. org' \in [Orgs -> {"none", "live", "deleted"}] /\ org'[o] = "deleted" /\ \A p \in Orgs \ {o} : org'[p] = org[p]
  BY <1>1, <1>2, <1>4 DEF Members!DeleteOrganization
<1>6. clerk' \in [Orgs -> [Users -> ClerkRoles \union {None}]] /\ \A p \in Orgs \ {o} : clerk'[p] = clerk[p]
  BY <1>1, <1>2, <1>4 DEF Members!DeleteOrganization
<1>7. call' \in [Users -> Creation] /\ (\A w \in Users \ {u} : call'[w] = call[w]) /\ call'[u] = Members!Idle
  BY Creations, IdleCreation, Moved DEF Members!DeleteOrganization
<1>8. UNCHANGED <<accounts, tokens, attempts, users, business, member, update, last>>
  BY DEF Members!DeleteOrganization
<1>9. AccountsTyped'
  <2>1. \A p \in Orgs, w \in Users : member[p][w] # None => w \in users /\ business[p] # "none"
    BY DEF AccountsInv, AccountsTyped, Members!TypeOK, Members!GetBusinessIDByClerkOrgID
  <2> QED
    BY <1>3, <1>5, <1>6, <1>7, <1>8, <2>1, SendsTyped
    DEF AccountsInv, AccountsTyped, Members!TypeOK, Members!GetBusinessIDByClerkOrgID, Creation
<1>10. CreationsInv'
  <2>1. \A w \in Users : call'[w].at # "idle" => w # u /\ call'[w] = call[w] /\ call[w].org # o
    BY <1>1, <1>2, <1>7, IdleCreation DEF AccountsInv, CreationsInv
  <2>2. \A w \in Users : call'[w].row => call'[w] = call[w]
    BY <1>7, IdleCreation
  <2> QED
    BY <1>5, <1>8, <2>1, <2>2 DEF AccountsInv, CreationsInv
<1>11. PICK m \in Message : posted' = posted \union {m} /\ m.type = "organization.deleted" /\ m.org = o /\ m.user = None
  BY <1>3 DEF Sends
<1>12. BusinessInv'
  BY <1>5, <1>2, <1>8, <1>11 DEF AccountsInv, BusinessInv
<1>13. ASSUME NEW p \in Orgs, NEW w \in Users PROVE Sync(p, w)'
  <2>1. CASE p = o
    BY <1>5, <2>1 DEF Sync
  <2>2. CASE p # o
    <3>1. ~ Concerns(m, p, w)
      BY <1>11, Apart3 DEF Concerns
    <3>2. Sync(p, w)
      BY DEF AccountsInv, SyncInv
    <3> QED
      BY <1>5, <1>6, <1>8, <1>11, <2>2, <3>1, <3>2, SyncFrame
  <2> QED
    BY <2>1, <2>2
<1>14. AttemptsInv'
  BY <1>8, AttemptsFrame
<1> QED
  BY <1>9, <1>10, <1>12, <1>13, <1>14 DEF AccountsInv, SyncInv

-----------------------------------------------------------------------------
(* Accounts: every message received keeps the invariant *)

LEMMA SyncReceived ==
  ASSUME AccountsInv, NEW e \in posted, posted' \in {posted \ {e}, posted}, UNCHANGED <<org, clerk, last>>,
         NEW o \in Orgs, NEW u \in Users, last[o][u] = "apart" /\ org[o] = "live" => Lost(o, u)',
         Concerns(e, o, u) /\ posted' # posted /\ last[o][u] = "apart" /\ org[o] = "live" =>
           (Current(e, o, u) => Copied(o, u)'),
         ~ Concerns(e, o, u) => member'[o][u] = member[o][u]
  PROVE  Sync(o, u)'
<1>1. Sync(o, u)
  BY DEF AccountsInv, SyncInv
<1>2. Members!About(o, u)' \subseteq Members!About(o, u)
  BY DEF Members!About
<1>3. ASSUME last[o][u] = "apart", org[o] = "live"
      PROVE  \A m \in Members!About(o, u) : Current(m, o, u)
  BY <1>1, <1>3 DEF Sync
<1>4. CASE ~ Concerns(e, o, u)
  <2>1. Members!About(o, u)' = Members!About(o, u)
    BY <1>4 DEF Members!About, Concerns
  <2>2. Copied(o, u) => Copied(o, u)'
    BY <1>4 DEF Copied
  <2> QED
    BY <1>1, <1>3, <2>1, <2>2 DEF Sync, Current
<1>5. CASE Concerns(e, o, u)
  <2>1. e \in Members!About(o, u)
    BY <1>5 DEF Members!About, Concerns
  <2>2. posted' = posted => e \in Members!About(o, u)'
    BY <1>5 DEF Members!About, Concerns
  <2> QED
    BY <1>2, <1>3, <1>5, <2>1, <2>2 DEF Sync, Current
<1> QED
  BY <1>4, <1>5

LEMMA Rows ==
  ASSUME AccountsInv
  PROVE  /\ member \in [Orgs -> [Users -> Members!Roles \union {None}]]
         /\ \A o \in Orgs, u \in Users : member[o][u] # None => u \in users /\ business[o] # "none"
BY DEF AccountsInv, AccountsTyped, Members!TypeOK, Members!GetBusinessIDByClerkOrgID

\* What an attempt between its statements is.
Attempted(a) ==
  /\ a \in [e: Message, row: BOOLEAN] /\ a.e \in posted
  /\ a.e.type \in {"membership", "membership.deleted"}
  /\ a.e.type = "membership" => business[a.e.org] # "none"
  /\ a.row => a.e.user \in users

LEMMA AttemptsAre ==
  ASSUME AccountsInv
  PROVE  \A a \in attempts : Attempted(a)
BY DEF AccountsInv, AccountsTyped, AttemptsInv, Attempted, Members!TypeOK

\* A message of a member or a user, which leaves businesses alone.
LEMMA RowsWritten ==
  ASSUME AccountsInv, NEW e \in posted, Members!Answered(e),
         UNCHANGED <<org, clerk, accounts, tokens, changes, business, update, last>>,
         users' \in SUBSET Users, member' \in [Orgs -> [Users -> Members!Roles \union {None}]],
         \A o \in Orgs, u \in Users : member'[o][u] # None => u \in users' /\ business[o] # "none",
         call' \in [Users -> Creation],
         \A u \in Users : /\ call'[u].at = call[u].at /\ call'[u].org = call[u].org
                          /\ call'[u].row => u \in users',
         \A a \in attempts' :
           /\ a \in [e: Message, row: BOOLEAN] /\ a.e \in posted
           /\ a.e.type \in {"membership", "membership.deleted"}
           /\ a.e.type = "membership" => business[a.e.org] # "none"
           /\ a.row => a.e.user \in users',
         e.type # "organization.deleted",
         \A o \in Orgs, u \in Users : last[o][u] = "apart" /\ org[o] = "live" =>
           /\ Lost(o, u)'
           /\ Concerns(e, o, u) /\ posted' # posted /\ Current(e, o, u) => Copied(o, u)',
         \A o \in Orgs, u \in Users : ~ Concerns(e, o, u) => member'[o][u] = member[o][u]
  PROVE  AccountsInv'
<1>1. posted' \in {posted \ {e}, posted} /\ \A a \in attempts' : a.e \in posted'
  BY DEF Members!Answered
<1>2. AccountsTyped'
  BY <1>1 DEF AccountsInv, AccountsTyped, Members!TypeOK, Members!GetBusinessIDByClerkOrgID, Creation
<1>3. AttemptsInv'
  BY DEF AttemptsInv
<1>4. CreationsInv'
  BY DEF AccountsInv, CreationsInv
<1>5. BusinessInv'
  BY <1>1 DEF AccountsInv, BusinessInv
<1>6. ASSUME NEW o \in Orgs, NEW u \in Users PROVE Sync(o, u)'
  BY <1>1, SyncReceived
<1> QED
  BY <1>2, <1>3, <1>4, <1>5, <1>6 DEF AccountsInv, SyncInv

LEMMA Received ==
  ASSUME AccountsInv, NEW e \in posted, Members!HandleClerk(e)
  PROVE  /\ Members!Answered(e) /\ Members!Dispatch(e) /\ WellFormed(e) /\ e.type \in Kinds /\ e \in Message
         /\ UNCHANGED <<org, clerk, accounts, tokens, changes, update, last>>
         /\ users \in SUBSET Users
BY DEF AccountsInv, AccountsTyped, Members!TypeOK, Members!HandleClerk, Members!clerkVars, Message

\* Creations when users gain a row.
LEMMA CallsKept ==
  ASSUME AccountsInv, UNCHANGED call, users \subseteq users'
  PROVE  /\ call' \in [Users -> Creation]
         /\ \A u \in Users : /\ call'[u].at = call[u].at /\ call'[u].org = call[u].org
                             /\ call'[u].row => u \in users'
BY Creations DEF AccountsInv, CreationsInv

\* No attempt has lost its row, and no member is another.
LEMMA LostFrame ==
  ASSUME AccountsInv, NEW o \in Orgs, NEW u \in Users, last[o][u] = "apart" /\ org[o] = "live",
         member'[o][u] = member[o][u],
         \A a \in attempts' : Concerns(a.e, o, u) /\ ~ a.row => a \in attempts
  PROVE  Lost(o, u)'
BY DEF AccountsInv, SyncInv, Sync, Lost

LEMMA UserReceived ==
  ASSUME Members!AccountsAssumption, AccountsInv, NEW e \in posted, Members!HandleClerk(e), e.type = "user"
  PROVE  AccountsInv'
<1>1. users' = users \union {e.user} /\ UNCHANGED <<attempts, business, member, call>> /\ e.org = None /\ e.user \in Users
  BY Received DEF Members!Dispatch, Members!UpsertUserFromClerk, WellFormed
<1>2. \A o \in Orgs, u \in Users : ~ Concerns(e, o, u)
  BY <1>1, Apart3 DEF Concerns
<1>3. \A o \in Orgs, u \in Users : last[o][u] = "apart" /\ org[o] = "live" => Lost(o, u)'
  BY <1>1, LostFrame
<1> QED
  BY <1>1, <1>2, <1>3, Received, Rows, CallsKept, AttemptsAre, RowsWritten DEF Attempted

LEMMA UserDeletedReceived ==
  ASSUME Members!AccountsAssumption, AccountsInv, NEW e \in posted, Members!HandleClerk(e), e.type = "user.deleted"
  PROVE  AccountsInv'
<1>1. PICK v : v = e.user
  OBVIOUS
<1>2. v \in Users /\ UNCHANGED business /\ Members!DeleteUserByClerkID(v) /\ e.org = None
  BY <1>1, Received DEF Members!Dispatch, WellFormed
<1>3. users' = users \ {v}
      /\ \A o \in Orgs, u \in Users : member'[o][u] = IF u = v THEN None ELSE member[o][u]
  BY <1>2, Rows DEF Members!DeleteUserByClerkID
<1>4. member' \in [Orgs -> [Users -> Members!Roles \union {None}]]
  BY <1>2, Rows DEF Members!DeleteUserByClerkID
<1>5. /\ call' \in [Users -> Creation]
      /\ \A u \in Users : /\ call'[u].at = call[u].at /\ call'[u].org = call[u].org
                          /\ call'[u].row => u \in users'
  <2> DEFINE c == [call[v] EXCEPT !.row = FALSE]
  <2>1. c \in Creation /\ c.at = call[v].at /\ c.org = call[v].org /\ ~ c.row
    BY <1>2, Creations DEF Creation
  <2>2. call' = [call EXCEPT ![v] = c]
    BY <1>2 DEF Members!DeleteUserByClerkID
  <2> HIDE DEF c
  <2>3. call' \in [Users -> Creation] /\ call'[v] = c /\ \A w \in Users \ {v} : call'[w] = call[w]
    BY <1>2, <2>1, <2>2, Creations, Moved
  <2>4. \A u \in Users : call[u].row => u \in users
    BY DEF AccountsInv, CreationsInv
  <2> QED
    BY <1>3, <2>1, <2>3, <2>4
<1>6. \A o \in Orgs, u \in Users : member'[o][u] # None => u \in users' /\ business[o] # "none"
  BY <1>3, Rows
<1>7. ASSUME NEW b \in attempts'
      PROVE  \E a \in attempts : /\ b \in [e: Message, row: BOOLEAN] /\ b.e = a.e
                                 /\ IF a.e.user = v THEN ~ b.row ELSE b = a
  <2>1. PICK a \in attempts : b = IF a.e.user = v THEN [a EXCEPT !.row = FALSE] ELSE a
    BY <1>2 DEF Members!DeleteUserByClerkID
  <2>2. a \in [e: Message, row: BOOLEAN]
    BY AttemptsAre DEF Attempted
  <2> QED
    BY <2>1, <2>2
<1>8. \A b \in attempts' :
        /\ b \in [e: Message, row: BOOLEAN] /\ b.e \in posted
        /\ b.e.type \in {"membership", "membership.deleted"}
        /\ b.e.type = "membership" => business[b.e.org] # "none"
        /\ b.row => b.e.user \in users'
  BY <1>3, <1>7, AttemptsAre DEF Attempted
<1>9. ASSUME NEW o \in Orgs, NEW u \in Users
      PROVE  /\ last[o][u] = "apart" /\ org[o] = "live" => Lost(o, u)'
             /\ Concerns(e, o, u) /\ Current(e, o, u) => Copied(o, u)'
             /\ ~ Concerns(e, o, u) => member'[o][u] = member[o][u]
  <2>1. clerk' = clerk
    BY Received
  <2>2. CASE u = v
    BY <1>1, <1>3, <2>1, <2>2 DEF Concerns, Copied, Current, Lost
  <2>3. CASE u # v
    <3>1. member'[o][u] = member[o][u] /\ ~ Concerns(e, o, u)
      BY <1>1, <1>3, <2>3 DEF Concerns
    <3>2. \A b \in attempts' : Concerns(b.e, o, u) => b \in attempts
      BY <1>7, <2>3 DEF Concerns
    <3> QED
      BY <3>1, <3>2, LostFrame
  <2> QED
    BY <2>2, <2>3
<1>10. /\ Members!Answered(e) /\ users' \in SUBSET Users /\ e.type # "organization.deleted"
       /\ UNCHANGED <<org, clerk, accounts, tokens, changes, business, update, last>>
  BY <1>2, <1>3, Received
<1> QED
  BY <1>4, <1>5, <1>6, <1>8, <1>9, <1>10, RowsWritten

\* An attempt of a membership begins, or its message is answered as handled.
LEMMA AttemptBegins ==
  ASSUME Members!AccountsAssumption, AccountsInv, NEW e \in posted, Members!HandleClerk(e),
         e.type \in {"membership", "membership.deleted"}, UNCHANGED <<business, member, call>>,
         users \subseteq users', users' \subseteq Users,
         \/ /\ attempts' = attempts \union {[e |-> e, row |-> TRUE]} /\ e.user \in users'
            /\ e.type = "membership" => business[e.org] # "none"
         \/ /\ attempts' = attempts /\ users' = users
            /\ last[e.org][e.user] = "apart" /\ Current(e, e.org, e.user) => Copied(e.org, e.user)
  PROVE  AccountsInv'
<1> DEFINE b == [e |-> e, row |-> TRUE]
<1>1. b \in [e: Message, row: BOOLEAN] /\ b.e = e /\ b.row
  BY Received
<1> HIDE DEF b
<1>2. \A a \in attempts' : a \in attempts \/ (a = b /\ attempts' = attempts \union {b})
  BY DEF b
<1>3. \A a \in attempts' :
        /\ a \in [e: Message, row: BOOLEAN] /\ a.e \in posted
        /\ a.e.type \in {"membership", "membership.deleted"}
        /\ a.e.type = "membership" => business[a.e.org] # "none"
        /\ a.row => a.e.user \in users'
  <2>1. ASSUME attempts' = attempts \union {b} PROVE e.user \in users' /\ (e.type = "membership" => business[e.org] # "none")
    <3>1. b \notin attempts => attempts' # attempts
      BY <2>1
    <3>2. b \in attempts => Attempted(b)
      BY AttemptsAre
    <3> QED
      BY <1>1, <3>1, <3>2 DEF Attempted, b
  <2>2. ASSUME NEW a \in attempts PROVE Attempted(a)
    BY AttemptsAre
  <2> QED
    BY <1>1, <1>2, <2>1, <2>2 DEF Attempted
<1>4. ASSUME NEW o \in Orgs, NEW u \in Users, last[o][u] = "apart", org[o] = "live"
      PROVE  /\ Lost(o, u)'
             /\ Concerns(e, o, u) /\ posted' # posted /\ Current(e, o, u) => Copied(o, u)'
  <2>1. Lost(o, u)'
    BY <1>1, <1>2, <1>4, LostFrame
  <2>2. ASSUME Concerns(e, o, u), posted' # posted, Current(e, o, u) PROVE Copied(o, u)'
    <3>1. \A a \in attempts' : a.e # e
      BY <2>2, Received DEF Members!Answered
    <3>2. attempts' = attempts /\ Copied(o, u)
      BY <1>1, <1>4, <2>2, <3>1 DEF Concerns, b
    <3> QED
      BY <3>2, Received DEF Copied
  <2> QED
    BY <2>1, <2>2
<1> QED
  BY <1>3, <1>4, Received, Rows, CallsKept, RowsWritten

LEMMA MembershipReceived ==
  ASSUME Members!AccountsAssumption, AccountsInv, NEW e \in posted, Members!HandleClerk(e), e.type = "membership"
  PROVE  AccountsInv'
<1>1. e.org \in Orgs /\ e.user \in Users /\ UNCHANGED <<business, member, call>> /\ Members!UpsertMembership(e)
  BY Received DEF Members!Dispatch, WellFormed
<1>2. CASE business[e.org] = "none"
  <2>1. UNCHANGED <<users, attempts>>
    BY <1>1, <1>2 DEF Members!UpsertMembership, Members!GetBusinessIDByClerkOrgID
  <2>2. last[e.org][e.user] = "early"
    BY <1>1, <1>2 DEF AccountsInv, BusinessInv
  <2> QED
    BY <1>1, <2>1, <2>2, Received, AttemptBegins
<1>3. CASE business[e.org] # "none"
  <2>1. users' = users \union {e.user} /\ attempts' = attempts \union {[e |-> e, row |-> TRUE]}
    BY <1>1, <1>3
    DEF Members!UpsertMembership, Members!GetBusinessIDByClerkOrgID, Members!UpsertUserFromClerk, Members!Begin
  <2> QED
    BY <1>1, <1>3, <2>1, Received, AttemptBegins
<1> QED
  BY <1>2, <1>3

LEMMA MembershipDeletedReceived ==
  ASSUME Members!AccountsAssumption, AccountsInv, NEW e \in posted, Members!HandleClerk(e),
         e.type = "membership.deleted"
  PROVE  AccountsInv'
<1>1. e.org \in Orgs /\ e.user \in Users /\ UNCHANGED <<users, business, member, call>> /\ Members!DeleteMembership(e)
  BY Received DEF Members!Dispatch, WellFormed
<1>2. CASE e.user \in users
  BY <1>1, <1>2, Received, AttemptBegins DEF Members!DeleteMembership, Members!Begin
<1>3. CASE e.user \notin users
  <2>1. member[e.org][e.user] = None
    BY <1>1, <1>3, Rows
  <2>2. Current(e, e.org, e.user) => Copied(e.org, e.user)
    BY <2>1 DEF Current, Copied
  <2> QED
    BY <1>1, <1>3, <2>2, Received, AttemptBegins DEF Members!DeleteMembership
<1> QED
  BY <1>2, <1>3

\* An attempt runs its second statement.
LEMMA AttemptEnds ==
  ASSUME Members!AccountsAssumption, AccountsInv, NEW a \in attempts, Members!Ends(a), Members!Answered(a.e),
         UNCHANGED <<org, clerk, accounts, tokens, changes, users, business, call, update, last>>,
         member' \in [Orgs -> [Users -> Members!Roles \union {None}]],
         \A o \in Orgs, u \in Users : member'[o][u] # None => u \in users /\ business[o] # "none",
         \A o \in Orgs, u \in Users : last[o][u] = "apart" /\ org[o] = "live" /\ Concerns(a.e, o, u) =>
           Lost(o, u)' /\ (Current(a.e, o, u) => Copied(o, u)'),
         \A o \in Orgs, u \in Users : ~ Concerns(a.e, o, u) => member'[o][u] = member[o][u]
  PROVE  AccountsInv'
<1>1. Attempted(a) /\ attempts' \subseteq attempts
  BY AttemptsAre DEF Members!Ends
<1>2. PICK e \in posted : e = a.e /\ e.type # "organization.deleted"
  BY <1>1 DEF Attempted
<1>3. users' \in SUBSET Users
  BY DEF AccountsInv, AccountsTyped, Members!TypeOK
<1>4. \A b \in attempts' : Attempted(b)
  BY <1>1, AttemptsAre
<1>5. \A o \in Orgs, u \in Users : last[o][u] = "apart" /\ org[o] = "live" =>
        /\ Lost(o, u)'
        /\ Concerns(e, o, u) /\ posted' # posted /\ Current(e, o, u) => Copied(o, u)'
  BY <1>1, <1>2, LostFrame
<1> QED
  BY <1>2, <1>3, <1>4, <1>5, CallsKept, RowsWritten DEF Attempted

LEMMA UpsertMemberKept ==
  ASSUME Members!AccountsAssumption, AccountsInv, NEW a \in attempts, Members!UpsertMember(a)
  PROVE  AccountsInv'
<1>1. PICK e, o, u, r : e = a.e /\ o = e.org /\ u = e.user /\ r = e.role
  OBVIOUS
<1>2. Attempted(a) /\ e \in posted /\ e.type = "membership" /\ a.row
  BY <1>1, AttemptsAre DEF Members!UpsertMember, Attempted
<1>3. o \in Orgs /\ u \in Users /\ r \in ClerkRoles /\ u \in users /\ business[o] # "none"
  BY <1>1, <1>2 DEF Attempted, AccountsInv, AccountsTyped, WellFormed
<1>4. \A p \in Orgs, w \in Users : Concerns(e, p, w) <=> p = o /\ w = u
  BY <1>1, <1>2 DEF Concerns
<1> DEFINE role == Members!LocalRole(r)
<1>5. member' = [member EXCEPT ![o][u] = role]
  BY <1>1 DEF Members!UpsertMember, Members!AddBusinessMember
<1>6. role \in Members!Roles \union {None}
  BY Local DEF Members!Roles
<1> HIDE DEF role
<1>7. member' \in [Orgs -> [Users -> Members!Roles \union {None}]] /\ member'[o][u] = role
      /\ \A p \in Orgs, w \in Users : p # o \/ w # u => member'[p][w] = member[p][w]
  BY <1>3, <1>5, <1>6, Rows, OneField
<1>8. \A p \in Orgs, w \in Users : member'[p][w] # None => w \in users /\ business[p] # "none"
  BY <1>3, <1>7, Rows
<1>9. UNCHANGED <<org, clerk, accounts, tokens, changes, users, business, call, update, last>>
      /\ Members!Ends(a) /\ Members!Answered(a.e)
  BY DEF Members!UpsertMember, Members!clerkVars
<1>10. Current(e, o, u) => Copied(o, u)'
  <2>1. r # None
    BY <1>3, Apart3
  <2> QED
    BY <1>1, <1>2, <1>7, <1>9, <2>1 DEF Current, Copied, role
<1>11. ASSUME last[o][u] = "apart", org[o] = "live" PROVE Lost(o, u)'
  <2>1. \A m \in Members!About(o, u) : Current(m, o, u)
    BY <1>3, <1>11 DEF AccountsInv, SyncInv, Sync
  <2>2. clerk[o][u] # None
    <3>1. e \in Members!About(o, u) /\ r # None
      BY <1>1, <1>2, <1>3, Apart3 DEF Members!About
    <3> QED
      BY <1>1, <1>2, <2>1, <3>1 DEF Current
  <2>3. ASSUME NEW b \in attempts, b.e.type = "membership.deleted", Concerns(b.e, o, u) PROVE FALSE
    <3>1. b.e \in Members!About(o, u)
      BY <2>3, AttemptsAre DEF Attempted, Concerns, Members!About
    <3> QED
      BY <2>1, <2>2, <2>3, <3>1 DEF Current
  <2>4. attempts' \subseteq attempts
    BY <1>9 DEF Members!Ends
  <2> QED
    BY <2>3, <2>4 DEF Lost
<1> QED
  BY <1>1, <1>4, <1>7, <1>8, <1>9, <1>10, <1>11, AttemptEnds

LEMMA DeleteMemberKept ==
  ASSUME Members!AccountsAssumption, AccountsInv, NEW a \in attempts, Members!DeleteMember(a)
  PROVE  AccountsInv'
<1>1. PICK e, o, u : e = a.e /\ o = e.org /\ u = e.user
  OBVIOUS
<1>2. Attempted(a) /\ e \in posted /\ e.type = "membership.deleted"
  BY <1>1, AttemptsAre DEF Members!DeleteMember, Attempted
<1>3. o \in Orgs /\ u \in Users
  BY <1>1, <1>2 DEF AccountsInv, AccountsTyped, WellFormed
<1>4. \A p \in Orgs, w \in Users : Concerns(e, p, w) <=> p = o /\ w = u
  BY <1>1, <1>2 DEF Concerns
<1>5. UNCHANGED <<org, clerk, accounts, tokens, changes, users, business, call, update, last>>
      /\ Members!Ends(a) /\ Members!Answered(a.e)
  BY DEF Members!DeleteMember, Members!clerkVars
<1>6. member' \in [Orgs -> [Users -> Members!Roles \union {None}]]
      /\ (\A p \in Orgs, w \in Users : p # o \/ w # u => member'[p][w] = member[p][w])
      /\ IF a.row THEN member'[o][u] = None ELSE member'[o][u] = member[o][u]
  <2>1. CASE a.row
    <3>1. member' = [member EXCEPT ![o][u] = None]
      BY <1>1, <2>1 DEF Members!DeleteMember, Members!DeleteBusinessMember
    <3> QED
      BY <1>3, <2>1, <3>1, Rows, OneField
  <2>2. CASE ~ a.row
    BY <2>2, Rows DEF Members!DeleteMember
  <2> QED
    BY <2>1, <2>2
<1>7. \A p \in Orgs, w \in Users : member'[p][w] # None => w \in users /\ business[p] # "none"
  BY <1>3, <1>6, Rows, Apart3
<1>8. ASSUME last[o][u] = "apart", org[o] = "live" PROVE member'[o][u] = None
  <2>1. Lost(o, u)
    BY <1>3, <1>8 DEF AccountsInv, SyncInv, Sync
  <2>2. Concerns(e, o, u)
    BY <1>3, <1>4
  <2> QED
    BY <1>1, <1>2, <1>6, <2>1, <2>2 DEF Lost
<1>9. ASSUME last[o][u] = "apart", org[o] = "live" PROVE Lost(o, u)' /\ (Current(e, o, u) => Copied(o, u)')
  BY <1>2, <1>5, <1>8, <1>9 DEF Lost, Current, Copied
<1> QED
  BY <1>1, <1>4, <1>5, <1>6, <1>7, <1>9, AttemptEnds

LEMMA FailAttemptKept ==
  ASSUME AccountsInv, NEW a \in attempts, Members!FailAttempt(a)
  PROVE  AccountsInv'
<1>1. attempts' \subseteq attempts
      /\ UNCHANGED <<org, clerk, accounts, tokens, posted, changes, users, business, member, call, update, last>>
  BY DEF Members!FailAttempt, Members!clerkVars
<1>2. AccountsTyped' /\ CreationsInv' /\ BusinessInv'
  BY <1>1 DEF AccountsInv, AccountsTyped, CreationsInv, BusinessInv, Members!TypeOK, Members!GetBusinessIDByClerkOrgID
<1>3. AttemptsInv'
  BY <1>1 DEF AccountsInv, AttemptsInv
<1>4. ASSUME NEW p \in Orgs, NEW w \in Users PROVE Sync(p, w)'
  BY <1>1, SyncFrame DEF AccountsInv, SyncInv
<1> QED
  BY <1>2, <1>3, <1>4 DEF AccountsInv, SyncInv

LEMMA OrganizationDeletedReceived ==
  ASSUME Members!AccountsAssumption, AccountsInv, NEW e \in posted, Members!HandleClerk(e),
         e.type = "organization.deleted"
  PROVE  AccountsInv'
<1>1. PICK o : o = e.org
  OBVIOUS
<1>2. /\ o \in Orgs /\ e.user = None /\ UNCHANGED <<attempts, users, member, call>>
      /\ Members!ArchiveBusinessesByClerkOrgID(o)
  BY <1>1, Received DEF Members!Dispatch, WellFormed
<1>3. business \in [Orgs -> {"none", "active", "archived"}]
  BY DEF AccountsInv, AccountsTyped, Members!TypeOK
<1>4. business' \in [Orgs -> {"none", "active", "archived"}] /\ business'[o] # "active"
      /\ (business'[o] = "none" <=> business[o] = "none") /\ \A p \in Orgs \ {o} : business'[p] = business[p]
  BY <1>2, <1>3 DEF Members!ArchiveBusinessesByClerkOrgID, Members!GetBusinessIDByClerkOrgID
<1>5. posted' \in {posted \ {e}, posted} /\ (\A a \in attempts : a.e = e => posted' = posted)
      /\ UNCHANGED <<org, clerk, accounts, tokens, changes, update, last>>
  BY <1>2, Received DEF Members!Answered
<1>6. AccountsTyped'
  <2>1. \A p \in Orgs : business'[p] = "none" <=> business[p] = "none"
    BY <1>4
  <2>2. \A a \in attempts : a.e \in posted'
    BY <1>5, AttemptsAre DEF Attempted
  <2> QED
    BY <1>2, <1>4, <1>5, <2>1, <2>2 DEF AccountsInv, AccountsTyped, Members!TypeOK, Members!GetBusinessIDByClerkOrgID
<1>7. CreationsInv'
  BY <1>2, <1>5 DEF AccountsInv, CreationsInv
<1>8. BusinessInv'
  BY <1>1, <1>4, <1>5 DEF AccountsInv, BusinessInv
<1>9. ASSUME NEW p \in Orgs, NEW w \in Users PROVE Sync(p, w)'
  <2>1. ~ Concerns(e, p, w)
    BY <1>2, Apart3 DEF Concerns
  <2>2. last[p][w] = "apart" /\ org[p] = "live" => Lost(p, w)'
    BY <1>2, LostFrame
  <2> QED
    BY <1>2, <1>5, <2>1, <2>2, SyncReceived
<1>10. AttemptsInv'
  BY <1>2, <1>4, AttemptsFrame
<1> QED
  BY <1>6, <1>7, <1>8, <1>9, <1>10 DEF AccountsInv, SyncInv

LEMMA HandleClerkKept ==
  ASSUME Members!AccountsAssumption, AccountsInv, NEW e \in posted, Members!HandleClerk(e)
  PROVE  AccountsInv'
BY Received, UserReceived, UserDeletedReceived, MembershipReceived, MembershipDeletedReceived,
   OrganizationDeletedReceived DEF Kinds

LEMMA WebhookKept ==
  ASSUME Members!AccountsAssumption, AccountsInv, Members!Webhook
  PROVE  AccountsInv'
BY HandleClerkKept, UpsertMemberKept, DeleteMemberKept, FailAttemptKept DEF Members!Webhook

-----------------------------------------------------------------------------
(* Accounts: every request keeps the invariant *)

\* A request writes the row of its user, and an update the status of a business.
LEMMA RequestKept ==
  ASSUME AccountsInv, NEW u \in Users, users' = users \union {u},
         UNCHANGED <<org, clerk, accounts, tokens, posted, attempts, changes, member, call, last>>,
         (business' = business /\ update' = update) \/
           (\E o \in Orgs, s \in {"active", "archived"} :
              business[o] # "none" /\ business' = [business EXCEPT ![o] = s] /\ update' = [user |-> u, org |-> o])
  PROVE  AccountsInv'
<1>1. business \in [Orgs -> {"none", "active", "archived"}]
  BY DEF AccountsInv, AccountsTyped, Members!TypeOK
<1>2. /\ business' \in [Orgs -> {"none", "active", "archived"}]
      /\ \A p \in Orgs : business'[p] = "none" <=> business[p] = "none"
      /\ \A p \in Orgs : business[p] # "none" /\ business'[p] # business[p] => update'.org = p
  BY <1>1
<1>3. AccountsTyped'
  BY <1>2, Creations, CallsKept DEF AccountsInv, AccountsTyped, Members!TypeOK, Members!GetBusinessIDByClerkOrgID
<1>4. CreationsInv'
  BY DEF AccountsInv, CreationsInv
<1>5. BusinessInv'
  <2>1. CASE business' = business /\ update' = update
    BY <2>1 DEF AccountsInv, BusinessInv
  <2>2. CASE ~ (business' = business /\ update' = update)
    <3>1. PICK o \in Orgs : business[o] # "none" /\ update' = [user |-> u, org |-> o]
      BY <2>2
    <3>2. \A p \in Orgs : business'[p] # "none" => p = o
      BY <1>2, <3>1 DEF AccountsInv, BusinessInv
    <3>3. update'.org = o
      BY <3>1
    <3> QED
      BY <1>2, <3>2, <3>3 DEF AccountsInv, BusinessInv
  <2> QED
    BY <2>1, <2>2
<1>6. ASSUME NEW p \in Orgs, NEW w \in Users PROVE Sync(p, w)'
  BY SyncFrame DEF AccountsInv, SyncInv
<1>7. AttemptsInv'
  BY <1>2, AttemptsFrame
<1> QED
  BY <1>3, <1>4, <1>5, <1>6, <1>7 DEF AccountsInv, SyncInv

LEMMA TokenTyped ==
  ASSUME AccountsInv, NEW t \in tokens
  PROVE  t \in [user : Users, org : Orgs, role : ClerkRoles]
BY DEF AccountsInv, AccountsTyped, Members!TypeOK

LEMMA RequestsKept ==
  ASSUME AccountsInv, Members!Requests
  PROVE  AccountsInv'
<1>1. ASSUME NEW t \in tokens, Members!Get(t) PROVE AccountsInv'
  BY <1>1, TokenTyped, RequestKept DEF Members!Get, Members!CurrentUser, Members!UpsertUserFromClerk, Members!clerkVars
<1>2. ASSUME NEW t \in tokens, NEW s \in {"active", "archived"}, Members!Update(t, s) PROVE AccountsInv'
  BY <1>2, TokenTyped, RequestKept
  DEF Members!Update, Members!CurrentUser, Members!UpsertUserFromClerk, Members!GetBusinessIDByClerkOrgID, Members!clerkVars
<1>3. ASSUME NEW u \in Users, Members!Me(u) PROVE AccountsInv'
  BY <1>3, RequestKept DEF Members!Me, Members!CurrentUser, Members!UpsertUserFromClerk, Members!clerkVars
<1> QED
  BY <1>1, <1>2, <1>3 DEF Members!Requests

LEMMA AccountsInit ==
  ASSUME Members!AccountsAssumption, Members!Init
  PROVE  AccountsInv
<1>1. changes \in 0 .. MaxChanges
  BY Apart3 DEF Members!Init
<1>2. \A u \in Users : call[u].at = "idle" /\ ~ call[u].row
  BY DEF Members!Init, Members!Idle
<1>3. call \in [Users -> Creation]
  BY IdleCreation DEF Members!Init
<1>4. Members!TypeOK
  BY <1>1, <1>3 DEF Members!Init, Members!TypeOK, Creation
<1>5. last \in [Orgs -> [Users -> {"early", "apart", "overlapping"}]] /\ posted = {}
  BY DEF Members!Init
<1>6. AccountsTyped
  BY <1>4, <1>5 DEF AccountsTyped
<1>7. CreationsInv
  BY <1>2 DEF CreationsInv
<1>8. BusinessInv
  BY DEF Members!Init, BusinessInv
<1>9. SyncInv
  BY DEF Members!Init, SyncInv, Sync
<1>10. AttemptsInv
  BY DEF Members!Init, AttemptsInv
<1> QED
  BY <1>6, <1>7, <1>8, <1>9, <1>10 DEF AccountsInv

LEMMA AccountsStutter ==
  ASSUME AccountsInv, UNCHANGED Members!vars
  PROVE  AccountsInv'
<1>1. AccountsTyped' /\ CreationsInv' /\ BusinessInv'
  BY DEF AccountsInv, AccountsTyped, CreationsInv, BusinessInv, Members!TypeOK, Members!GetBusinessIDByClerkOrgID,
     Members!vars, Members!clerkVars
<1>2. ASSUME NEW p \in Orgs, NEW w \in Users PROVE Sync(p, w)'
  BY SyncFrame DEF AccountsInv, SyncInv, Members!vars, Members!clerkVars
<1>3. AttemptsInv'
  BY AttemptsFrame DEF Members!vars
<1> QED
  BY <1>1, <1>2, <1>3 DEF AccountsInv, SyncInv

LEMMA AccountsStep ==
  ASSUME Members!AccountsAssumption, AccountsInv, [Members!Next]_(Members!vars)
  PROVE  AccountsInv'
<1>1. CASE Members!AtClerk
  BY <1>1, SetRoleKept, RemoveMemberKept, DeleteAccountKept, UpdateAccountKept, IssueTokenKept, ExpireTokenKept
  DEF Members!AtClerk
<1>2. CASE Members!Creating
  BY <1>2, CreateOrganizationKept, CommitBusinessKept, FailBusinessKept, DeleteOrganizationKept, GiveUpKept
  DEF Members!Creating
<1>3. CASE Members!Requests
  BY <1>3, RequestsKept
<1>4. CASE Members!Webhook
  BY <1>4, WebhookKept
<1> QED
  BY <1>1, <1>2, <1>3, <1>4, AccountsStutter DEF Members!Next

-----------------------------------------------------------------------------
(* Accounts: theorems *)

\* The invariant of memberships, creations and webhook messages.
THEOREM AccountsInvariant == ASSUME Members!AccountsAssumption PROVE Members!Spec => []AccountsInv
<1>1. Members!Init => AccountsInv
  BY AccountsInit
<1>2. AccountsInv /\ [Members!Next]_(Members!vars) => AccountsInv'
  BY AccountsStep
<1> QED
  BY <1>1, <1>2, PTL DEF Members!Spec

\* A membership has a user's row and a business, and every column has its values.
THEOREM AccountsAreTyped == ASSUME Members!AccountsAssumption PROVE Members!Spec => []Members!TypeOK
<1>1. AccountsInv => Members!TypeOK
  BY DEF AccountsInv, AccountsTyped
<1> QED
  BY <1>1, AccountsInvariant, PTL

\* handleClerk: a member whose changes are delivered one by one is as at Clerk.
THEOREM Synced == ASSUME Members!AccountsAssumption PROVE Members!Spec => []Members!SyncedWhenApart
<1>1. AccountsInv => Members!SyncedWhenApart
  BY DEF AccountsInv, SyncInv, Sync, Copied, Members!SyncedWhenApart
<1> QED
  BY <1>1, AccountsInvariant, PTL

\* create: a creation that was undone leaves no business on sale, also when it was committed.
THEOREM UndoneIsArchived ==
  ASSUME Members!AccountsAssumption PROVE Members!Spec => []Members!FailedCreationIsArchived
<1>1. AccountsInv => Members!FailedCreationIsArchived
  BY DEF AccountsInv, BusinessInv, Members!FailedCreationIsArchived, Members!Settled
<1> QED
  BY <1>1, AccountsInvariant, PTL

\* What an update needs of somebody who is no admin any more.
LEMMA UpdateNeedsBoth ==
  ASSUME Members!AccountsAssumption, AccountsInv, [Members!Next]_(Members!vars), NEW o \in Orgs, NEW u \in Users,
         business[o] = "archived", business'[o] = "active", update' = [user |-> u, org |-> o],
         clerk[o][u] # "org:admin"
  PROVE  /\ [user |-> u, org |-> o, role |-> "org:admin"] \in tokens
         /\ Members!About(o, u) # {} \/ last[o][u] # "apart" \/ org[o] # "live"
<1>1. business \in [Orgs -> {"none", "active", "archived"}]
  BY DEF AccountsInv, AccountsTyped, Members!TypeOK
<1>2. ~ Members!Webhook
  <2>1. ASSUME NEW e \in posted, Members!HandleClerk(e) PROVE FALSE
    <3>1. business' = business \/ (e.org \in Orgs /\ Members!ArchiveBusinessesByClerkOrgID(e.org))
      BY <2>1, Received DEF Members!Dispatch, Kinds, WellFormed
    <3> QED
      BY <1>1, <3>1 DEF Members!ArchiveBusinessesByClerkOrgID
  <2>2. \A a \in attempts : ~ (Members!UpsertMember(a) \/ Members!DeleteMember(a) \/ Members!FailAttempt(a))
    BY DEF Members!UpsertMember, Members!DeleteMember, Members!FailAttempt
  <2> QED
    BY <2>1, <2>2 DEF Members!Webhook
<1>3. ~ Members!AtClerk
  BY DEF Members!AtClerk, Members!RemoveMember, Members!IssueToken, Members!SetRole, Members!DeleteAccount,
     Members!UpdateAccount, Members!ExpireToken
<1>4. ~ Members!Creating
  <2>1. ~ \E v \in Users : Members!CommitBusiness(v)
    BY DEF Members!CommitBusiness, Members!CreateBusiness
  <2> QED
    BY <2>1 DEF Members!Creating, Members!CreateOrganization, Members!FailBusiness, Members!DeleteOrganization, Members!GiveUp
<1>5. PICK t \in tokens : \E s \in {"active", "archived"} : Members!Update(t, s)
  <2>1. Members!Requests
    BY <1>2, <1>3, <1>4 DEF Members!Next, Members!vars
  <2> QED
    BY <2>1 DEF Members!Requests, Members!Get, Members!Me
<1>6. t.user = u /\ t.org = o
  BY <1>5 DEF Members!Update
<1>7. Members!MapClerkRole(t.role) \in {"owner", "manager"} /\ member[o][u] \in {"owner", "manager"}
  BY <1>5, <1>6 DEF Members!Update, Members!RequireBusinessRole, Members!GetBusinessMemberRole
<1>8. t = [user |-> u, org |-> o, role |-> "org:admin"]
  <2>1. Members!MapClerkRole(t.role) = "owner"
    BY <1>7, Mapped, Apart3
  <2> QED
    BY <1>6, <2>1, Mapped, TokenTyped
<1>9. ASSUME Members!About(o, u) = {}, last[o][u] = "apart", org[o] = "live" PROVE FALSE
  <2>1. Copied(o, u)
    BY <1>9 DEF AccountsInv, SyncInv, Sync
  <2>2. member[o][u] \in {None, "staff"}
    BY <2>1, Local DEF Copied
  <2> QED
    BY <1>7, <2>2, Apart3
<1> QED
  BY <1>8, <1>9

\* README.md:81: a role takes a token and a row.
THEOREM BothAreNeeded == ASSUME Members!AccountsAssumption PROVE Members!Spec => Members!StaleRoleNeedsBoth
<1>1. AccountsInv /\ [Members!Next]_(Members!vars) =>
        [\A o \in Orgs, u \in Users :
           /\ business[o] = "archived" /\ business'[o] = "active"
           /\ update' = [user |-> u, org |-> o] /\ clerk[o][u] # "org:admin"
           => /\ [user |-> u, org |-> o, role |-> "org:admin"] \in tokens
              /\ Members!About(o, u) # {} \/ last[o][u] # "apart" \/ org[o] # "live"]_(Members!vars)
  BY UpdateNeedsBoth
<1> QED
  BY <1>1, AccountsInvariant, PTL DEF Members!Spec, Members!StaleRoleNeedsBoth

-----------------------------------------------------------------------------
(* Owners: a behaviour is one of each part, which a step of another leaves *)
(* as it is                                                                *)

LEMMA MembersPart == Spec => Members!Spec
<1>1. Init => Members!Init
  BY DEF Init
<1>2. [Next]_allVars => [Members!Next]_(Members!vars)
  BY DEF Next, allVars, memberVars, Members!vars, Members!clerkVars
<1> QED
  BY <1>1, <1>2, PTL DEF Spec, Members!Spec

LEMMA HoursPart == Spec => Schedule!Spec
<1>1. Init => Schedule!Init
  BY DEF Init
<1>2. [Next]_allVars => [Schedule!Next]_(Schedule!vars)
  BY DEF Next, allVars, hourVars, Schedule!vars
<1> QED
  BY <1>1, <1>2, PTL DEF Spec, Schedule!Spec

LEMMA ProfilePart == Spec => Reachable!Spec
<1>1. Init => Reachable!Init
  BY DEF Init, ProfileRests
<1>2. [Next]_allVars => [Reachable!Next]_(Reachable!vars)
  BY DEF Next, allVars, profileVars, Reachable!vars
<1> QED
  BY <1>1, <1>2, PTL DEF Spec, Reachable!Spec

LEMMA CheckoutPart == Spec => Subscribing!Spec
<1>1. Init => Subscribing!Init
  BY DEF Init, CheckoutRests
<1>2. [Next]_allVars => [Subscribing!Next]_(Subscribing!vars)
  BY DEF Next, allVars, checkoutVars, Subscribing!vars, Subscribing!stripe
<1> QED
  BY <1>1, <1>2, PTL DEF Spec, Subscribing!Spec

LEMMA KeysPart == Spec => Signing!Spec
<1>1. Init => Signing!Init
  BY DEF Init
<1>2. [Next]_allVars => [Signing!Next]_(Signing!vars)
  BY DEF Next, allVars, keyVars, Signing!vars
<1> QED
  BY <1>1, <1>2, PTL DEF Spec, Signing!Spec

-----------------------------------------------------------------------------
(* Owners: theorems *)

\* handleClerk and create: a member whose changes are delivered one by one is as at Clerk, and
\* a creation that was undone leaves no business on sale.
THEOREM MembersAreSynced == Spec => []SyncedWhenApart
<1>1. Members!TypeOK /\ Members!SyncedWhenApart /\ Members!FailedCreationIsArchived => SyncedWhenApart
  BY DEF SyncedWhenApart
<1> QED
  BY <1>1, OwnersAssumption, MembersPart, AccountsAreTyped, Synced, UndoneIsArchived, PTL

\* requireBusinessRole: who is no longer an admin updates a business only with a token of
\* before and a message that is late or came out of order.
THEOREM RoleTakesBoth == Spec => StaleRoleNeedsBoth
  BY OwnersAssumption, MembersPart, BothAreNeeded, PTL DEF StaleRoleNeedsBoth

\* replaceHours: the days of the week committed last are all stored.
THEOREM WeekIsStored == Spec => []LastWeekIsWhole
<1>1. Schedule!TypeOK /\ Schedule!LastWeekIsWhole => LastWeekIsWhole
  BY DEF LastWeekIsWhole
<1> QED
  BY <1>1, OwnersAssumption, HoursPart, HoursTyped, LastWeekStored, PTL

\* replaceHours: with no other committed meanwhile, its week is all that is stored.
THEOREM WeekReplaces == Spec => ReplacedWhenApart
  BY OwnersAssumption, HoursPart, AloneReplaces, PTL DEF ReplacedWhenApart

\* update: the areas are one list that was sent; and a profile is valid, unless an update
\* was written over one that changed after it was read.
THEOREM ProfileIsValid == Spec => []ValidUnlessStale
<1>1. Reachable!TypeOK /\ Reachable!AreasOfOneList /\ Reachable!ValidUnlessStale => ValidUnlessStale
  BY DEF ValidUnlessStale
<1> QED
  BY <1>1, OwnersAssumption, ProfilePart, ProfileTyped, AreasWhole, ProfileValid, PTL

\* checkout: one open session at most of each customer, and none answered for another selection
\* or of another customer than the row's.
THEOREM CheckoutsAreOne == Spec => []OneOpenSession
<1>1. /\ Subscribing!TypeOK /\ Subscribing!AnsweredIsOfTheRow
      /\ Subscribing!OneOpenSession /\ Subscribing!SelectionKept
      => OneOpenSession
  BY DEF OneOpenSession
<1> QED
  BY <1>1, OwnersAssumption, CheckoutPart, CheckoutTyped, AnsweredOfTheRow, OneSessionOpen, SelectionsKept, PTL

\* JWKS: withdrawn keys are refused when their set is stale, published ones are found.
THEOREM KeysAreFollowed == Spec => []KeysAreCurrent
<1>1. Signing!TypeOK /\ Signing!WithdrawnIsRefused /\ Signing!PublishedIsFound => KeysAreCurrent
  BY DEF KeysAreCurrent
<1> QED
  BY <1>1, OwnersAssumption, KeysPart, JwksTyped, WithdrawnRefused, PublishedFound, PTL
=============================================================================
