---------------------------- MODULE StockLedger ----------------------------
(***************************************************************************)
(* What the stock of a variant promises: the stock of a place is the sum   *)
(* of the entries booked there.  Entries are booked, amended and cancelled *)
(* in single steps; an amendment or a cancellation may not take stock that *)
(* is not there.                                                           *)
(***************************************************************************)
EXTENDS Integers, FiniteSetsExt

CONSTANTS Ids, Places

VARIABLES
  entries,    \* identifier -> [where, amount], amounts being signed
  stock       \* place -> quantity on hand

Balance(e, place) ==
  MapThenSumSet(LAMBDA i : e[i].amount, {i \in DOMAIN e : e[i].where = place})

\* Stock taken away by the step was there.
Covered == \A q \in Places : stock'[q] < stock[q] => stock'[q] >= 0

Book(i) ==
  /\ i \notin DOMAIN entries
  /\ DOMAIN entries' = DOMAIN entries \union {i}
  /\ \A j \in DOMAIN entries : entries'[j] = entries[j]

Amend(i) ==
  /\ DOMAIN entries' = DOMAIN entries
  /\ \A j \in DOMAIN entries \ {i} : entries'[j] = entries[j]
  /\ Covered

Cancel(i) ==
  /\ DOMAIN entries' = DOMAIN entries \ {i}
  /\ \A j \in DOMAIN entries' : entries'[j] = entries[j]
  /\ Covered

Init == entries = [i \in {} |-> 0] /\ stock = [q \in Places |-> 0]

Next ==
  /\ \/ \E i \in Ids : Book(i)
     \/ \E i \in DOMAIN entries : Amend(i) \/ Cancel(i)
  /\ stock' = [q \in Places |-> Balance(entries', q)]

Spec == Init /\ [][Next]_<<entries, stock>>
=============================================================================
