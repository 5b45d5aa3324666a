------------------------------- MODULE Sweeps -------------------------------
(***************************************************************************)
(* The loop of a worker (Run in internal/jobs): a batch of the queue every *)
(* second, a sweep of expired requests every minute, a reconciliation of   *)
(* all customers every quarter of an hour, one at a time.  Each of the two *)
(* sweeps walks a list and ends at its first error.                        *)
(***************************************************************************)
EXTENDS Integers, Sequences, FiniteSets, SequencesExt

CONSTANTS
  Appointments, Preorders,    \* requests, numbered in the order of their expiry
  Customers,                  \* Stripe customers, numbered in the order of business_id
  Litter,                     \* of the tables "replay", "access" and "archive", those watched
  Refused,                    \* customers whose reconciliation always returns an error
  PageSize                    \* 100 in DueAppointments, DuePreorders and ReconcileAll

SweepsAssumption ==
  /\ Appointments \subseteq Nat /\ Preorders \subseteq Nat /\ Customers \subseteq Nat
  /\ Appointments \intersect Preorders = {}
  /\ Refused \subseteq Customers
  /\ Litter \subseteq {"replay", "access", "archive"}
  /\ PageSize \in Nat \ {0}

Tickers == {"poll", "sweep", "reconcile"}

VARIABLES
  due,          \* requests that are pending past their expiry
  seen,         \* requests that have ever been due
  customers,    \* customers with a subscription row
  outdated,     \* customers whose row is behind the subscription at Stripe
  litter,       \* tables with rows older than their time of keeping
  ticked,       \* tickers whose channel holds a tick
  at,           \* what the worker is doing
  todo,         \* rows of the list it has read and not handled yet
  offset,       \* offset of the page of customers
  full,         \* that page was full when it was read
  unvisited     \* auxiliary: customers from before this reconciliation, not reached yet

worker == <<ticked, at, todo, offset, full, unvisited>>
vars == <<due, seen, customers, outdated, litter, worker>>

\* The rows before x in a list of numbers.
Rank(x, set) == Cardinality({y \in set : y < x})

\* The first PageSize members of a set of numbers, after skipping some.
Page(set, skipped) ==
  LET rest == Cardinality(set) - skipped
  IN  [n \in 1 .. (IF PageSize < rest THEN PageSize ELSE rest) |->
         CHOOSE x \in set : Rank(x, set) = skipped + n - 1]

Goto(place, list) == at' = place /\ todo' = list
Stay == UNCHANGED <<ticked, offset, full, unvisited>>
-----------------------------------------------------------------------------
(* Surroundings *)

Tick(t) ==
  /\ ticked' = ticked \union {t}
  /\ UNCHANGED <<due, seen, customers, outdated, litter, at, todo, offset, full, unvisited>>

FallDue(r) ==
  /\ r \notin seen /\ seen' = seen \union {r} /\ due' = due \union {r}
  /\ UNCHANGED <<customers, outdated, litter, worker>>

Subscribe(c) ==
  /\ c \notin customers /\ customers' = customers \union {c}
  /\ outdated' = outdated \union {c}
  /\ UNCHANGED <<due, seen, litter, worker>>

ChangeAtStripe(c) ==
  /\ c \in customers /\ outdated' = outdated \union {c}
  /\ UNCHANGED <<due, seen, customers, litter, worker>>

Expires(table) ==
  /\ litter' = litter \union {table}
  /\ UNCHANGED <<due, seen, customers, outdated, worker>>
-----------------------------------------------------------------------------
(* The loop *)

DueAppointments == Page(due \intersect Appointments, 0)
DuePreorders == Page(due \intersect Preorders, 0)
ListBillingCustomers(skipped) == Page(customers, skipped)

\* Mutant: the first page is taken for the last one.
ReadPageOnce(skipped) ==
  /\ Goto("reconcile", ListBillingCustomers(skipped))
  /\ offset' = skipped /\ full' = FALSE

\* The next page of ReconcileAll.
ReadPage(skipped) ==
  /\ Goto("reconcile", ListBillingCustomers(skipped))
  /\ offset' = skipped /\ full' = (Len(ListBillingCustomers(skipped)) = PageSize)

\* select: of the tickers that are ready, any.
Choose(t) ==
  /\ at = "select" /\ t \in ticked
  /\ ticked' = ticked \ {t}
  /\ \/ t = "poll" /\ Goto("process", <<>>) /\ UNCHANGED <<offset, full, unvisited>>
     \/ /\ t = "sweep" /\ Goto("appointments", DueAppointments)
        /\ UNCHANGED <<offset, full, unvisited>>
     \/ t = "reconcile" /\ ReadPage(0) /\ unvisited' = customers
  /\ UNCHANGED <<due, seen, customers, outdated, litter>>

\* A batch of the queue, at most 45 seconds; JobQueue says what happens in it.
Process ==
  /\ at = "process" /\ Goto("select", <<>>)
  /\ Stay /\ UNCHANGED <<due, seen, customers, outdated, litter>>

\* Expire of the first request of the list.
ExpireFirst ==
  /\ at \in {"appointments", "preorders"} /\ todo # <<>>
  /\ due' = due \ {Head(todo)} /\ Goto(at, Tail(todo))
  /\ Stay /\ UNCHANGED <<seen, customers, outdated, litter>>

AppointmentsDone ==
  /\ at = "appointments" /\ todo = <<>> /\ Goto("preorders", DuePreorders)
  /\ Stay /\ UNCHANGED <<due, seen, customers, outdated, litter>>

PreordersDone ==
  /\ at = "preorders" /\ todo = <<>> /\ Goto("cleanReplay", <<>>)
  /\ Stay /\ UNCHANGED <<due, seen, customers, outdated, litter>>

\* CleanRequestReplay, CleanRequestAccess, CleanJobArchive.
Clean(table, here, next) ==
  /\ at = here /\ litter' = litter \ {table} /\ Goto(next, <<>>)
  /\ Stay /\ UNCHANGED <<due, seen, customers, outdated>>
CleanUp ==
  \/ Clean("replay", "cleanReplay", "cleanAccess")
  \/ Clean("access", "cleanAccess", "cleanArchive")
  \/ Clean("archive", "cleanArchive", "select")

\* Reconcile of the first customer of the page.
ReconcileFirst ==
  /\ at = "reconcile" /\ todo # <<>> /\ Head(todo) \notin Refused
  /\ outdated' = outdated \ {Head(todo)} /\ unvisited' = unvisited \ {Head(todo)}
  /\ Goto(at, Tail(todo))
  /\ UNCHANGED <<due, seen, customers, litter, ticked, offset, full>>

NextPage ==
  /\ at = "reconcile" /\ todo = <<>>
  /\ IF full THEN ReadPage(offset + PageSize)
             ELSE Goto("select", <<>>) /\ UNCHANGED <<offset, full>>
  /\ UNCHANGED <<due, seen, customers, outdated, litter, ticked, unvisited>>

\* An error of any call or statement ends the batch or the sweep, and is logged.
Fail ==
  /\ at # "select" /\ Goto("select", <<>>)
  /\ unvisited' = {}
  /\ UNCHANGED <<due, seen, customers, outdated, litter, ticked, offset, full>>

Init ==
  /\ due = {} /\ seen = {} /\ customers = {} /\ outdated = {} /\ litter = {}
  /\ ticked = {} /\ at = "select" /\ todo = <<>>
  /\ offset = 0 /\ full = FALSE /\ unvisited = {}

Environment ==
  \/ \E t \in Tickers : Tick(t)
  \/ \E r \in Appointments \union Preorders : FallDue(r)
  \/ \E c \in Customers : Subscribe(c) \/ ChangeAtStripe(c)
  \/ \E table \in Litter : Expires(table)
Work ==
  \/ \E t \in Tickers : Choose(t)
  \/ Process \/ ExpireFirst \/ AppointmentsDone \/ PreordersDone \/ CleanUp
  \/ ReconcileFirst \/ NextPage

Next == Environment \/ Work \/ Fail

Spec == Init /\ [][Next]_vars

\* Tickers tick, select chooses each case that is ready often enough at random,
\* and no statement or call fails every time it is made, but for the
\* reconciliation of the refused customers.
FirstIs(x) == todo # <<>> /\ Head(todo) = x
FairSpec ==
  /\ Spec
  /\ \A t \in Tickers : WF_vars(Tick(t)) /\ SF_vars(Choose(t))
  /\ WF_vars(Process \/ Fail)
  /\ \A r \in Appointments \union Preorders : SF_vars(FirstIs(r) /\ ExpireFirst)
  /\ SF_vars(AppointmentsDone) /\ SF_vars(PreordersDone)
  /\ \A place \in {"cleanReplay", "cleanAccess", "cleanArchive"} :
       SF_vars(at = place /\ CleanUp)
  /\ \A c \in Customers : SF_vars(FirstIs(c) /\ ReconcileFirst)
  /\ SF_vars(NextPage)
-----------------------------------------------------------------------------
\* The list under way holds requests of its module, or customers.
TypeOK ==
  /\ due \subseteq seen /\ seen \subseteq Appointments \union Preorders
  /\ customers \subseteq Customers /\ outdated \subseteq customers
  /\ litter \subseteq Litter /\ ticked \subseteq Tickers
  /\ at \in {"select", "process", "appointments", "preorders", "reconcile",
             "cleanReplay", "cleanAccess", "cleanArchive"}
  /\ Range(todo) \subseteq CASE at = "appointments" -> Appointments
                              [] at = "preorders" -> Preorders
                              [] at = "reconcile" -> customers
                              [] OTHER -> {}
  /\ offset \in Nat /\ full \in BOOLEAN
  /\ unvisited \subseteq customers

\* ReconcileAll reads its pages with OFFSET while customers subscribe: one that
\* ends without an error has reached every customer that was there when it began.
NobodySkipped == at # "reconcile" => unvisited = {}

\* A request that is past its expiry is expired by the sweep alone, however many
\* others are due, and though sweeps end early.
DueExpire ==
  \A r \in Appointments \union Preorders : r \in due ~> r \notin due

\* What may be deleted is deleted.
LitterGoes == \A table \in Litter : table \in litter ~> table \notin litter

\* internal/billing/handler.go, on an applied change that was not reconciled:
\* "webhook jobs and the periodic sweep will retry it."  The sweep reaches
\* every customer whose own reconciliation is not refused.
\* The code does not keep it when there is one that is.
SweepRetries ==
  \A c \in Customers \ Refused : c \in outdated ~> c \notin outdated

\* What the code keeps of it: a sweep that a refused customer ends, every time, has reached
\* those before it in the list, on whichever page they are.
SweepReaches ==
  \A c \in Customers :
    (\A d \in Refused : c < d) => (c \in outdated ~> c \notin outdated)
=============================================================================
