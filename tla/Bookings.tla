------------------------------ MODULE Bookings ------------------------------
(***************************************************************************)
(* What a business and its customers are promised about requests, with no  *)
(* transactions, processes, queues or clocks: a booking is requested once, *)
(* moves along its life cycle one decision at a time, may be moved while   *)
(* undecided or held, and an appointment is only ever confirmed or moved   *)
(* into time that no other held appointment of the resource occupies.      *)
(***************************************************************************)
EXTENDS Integers, Lifecycle

CONSTANTS Ids, Places

\* from .. to is the time an appointment occupies, its buffer included.
Booking == [module: Modules, status: Statuses, where: Places, from: Nat, to: Nat]

VARIABLE book   \* the bookings made so far, by identifier

\* Two held appointments that need the resource at the same time.
Conflict(a, b) ==
  /\ a.module = "appointments" /\ b.module = "appointments"
  /\ a.where = b.where
  /\ a.status \in HoldingAppointment /\ b.status \in HoldingAppointment
  /\ a.from < b.to /\ b.from < a.to

\* b, held as confirmed, conflicts with no booking but id.
Free(id, b) ==
  \A j \in DOMAIN book \ {id} : ~ Conflict([b EXCEPT !.status = "confirmed"], book[j])

\* Booking id is all that the step touches.
Only(id) ==
  /\ DOMAIN book' = DOMAIN book \union {id}
  /\ \A j \in DOMAIN book \ {id} : book'[j] = book[j]
  /\ book'[id] \in Booking

Ask(id) ==
  /\ id \notin DOMAIN book
  /\ Only(id)
  /\ book'[id].status = "requested"

Decide(id) ==
  /\ Only(id)
  /\ book'[id] = [book[id] EXCEPT !.status = book'[id].status]
  /\ book'[id].status \in Allowed(book[id].module, book[id].status)
  /\ book'[id].status = "confirmed" => Free(id, book'[id])

Lapse(id) ==
  /\ Only(id)
  /\ book[id].status = "requested"
  /\ book'[id] = [book[id] EXCEPT !.status = "expired"]

Move(id) ==
  /\ Only(id)
  /\ ~ Terminal(book[id].module, book[id].status)
  /\ book'[id].module = book[id].module /\ book'[id].status = book[id].status
  /\ Free(id, book'[id])

BookInit == book = [i \in {} |-> 0]
BookNext ==
  \/ \E id \in Ids : Ask(id)
  \/ \E id \in DOMAIN book : Decide(id) \/ Lapse(id) \/ Move(id)
BookSpec == BookInit /\ [][BookNext]_book

\* No two held appointments occupy a resource at the same time.
NoConflict ==
  \A i, j \in DOMAIN book : i # j => ~ Conflict(book[i], book[j])
=============================================================================
