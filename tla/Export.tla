-------------------------------- MODULE Export --------------------------------
(***************************************************************************)
(* Lists with an offset: the export of the requests of a period (export    *)
(* and records of internal/operations).  Each page is a list and a count,  *)
(* two statements without a transaction, while requests are made and moved *)
(* to other times.                                                         *)
(***************************************************************************)
EXTENDS Integers, Sequences, FiniteSets, SequencesExt

CONSTANTS
  Ids,            \* requests, numbered in the order of their ids
  MaxTime,        \* times are 1..MaxTime, and the period exported leaves the last one out
  PageSize,       \* 100 in the code
  Cap,            \* most requests an export may have: 10000
  MaxChanges      \* bound: requests made or moved

ExportAssumption ==
  /\ Ids \subseteq Nat /\ IsFiniteSet(Ids) /\ MaxTime \in Nat
  /\ PageSize \in Nat \ {0} /\ Cap \in Nat \ {0} /\ MaxChanges \in Nat

VARIABLES
  starts,         \* request -> starts_at, or Absent
  at,             \* "list", "count", "next", "done" or "refused"
  offset, total,
  out,            \* rows written
  first,          \* auxiliary: the rows of the period when the export began
  created, moved  \* auxiliary: requests made, and moved, since

vars == <<starts, at, offset, total, out, first, created, moved>>

Absent == 0
InPeriod(s, i) == s[i] # Absent /\ s[i] < MaxTime

\* ORDER BY starts_at DESC, id
Earlier(s, i, j) == s[i] > s[j] \/ (s[i] = s[j] /\ i < j)
Sorted(s) == LET rows == {i \in Ids : InPeriod(s, i)} IN
  [n \in 1 .. Cardinality(rows) |->
     CHOOSE i \in rows : Cardinality({j \in rows : Earlier(s, j, i)}) = n - 1]

\* ListAppointments and ListPreorders, LIMIT PageSize OFFSET offset.
ListRecords ==
  LET all == Sorted(starts)
      last == IF Len(all) < offset + PageSize THEN Len(all) ELSE offset + PageSize IN
  /\ at = "list" /\ at' = "count"
  /\ out' = out \o SubSeq(all, offset + 1, last)
  /\ UNCHANGED <<starts, offset, total, first, created, moved>>

\* Mutant: the first count is used for all pages.
CountOnce ==
  /\ at = "count" /\ at' = "next"
  /\ total' = IF offset = 0 THEN Cardinality({i \in Ids : InPeriod(starts, i)}) ELSE total
  /\ UNCHANGED <<starts, offset, out, first, created, moved>>

\* CountAppointments and CountPreorders
CountRecords ==
  /\ at = "count" /\ at' = "next"
  /\ total' = Cardinality({i \in Ids : InPeriod(starts, i)})
  /\ UNCHANGED <<starts, offset, out, first, created, moved>>

\* The loop of export: refused beyond the cap, over when the count is reached.
NextPage ==
  /\ at = "next"
  /\ at' = IF total > Cap THEN "refused" ELSE IF offset + PageSize >= total THEN "done" ELSE "list"
  /\ offset' = IF at' = "list" THEN offset + PageSize ELSE offset
  /\ UNCHANGED <<starts, total, out, first, created, moved>>

Create(i, t) ==
  /\ starts[i] = Absent /\ created + moved < MaxChanges
  /\ starts' = [starts EXCEPT ![i] = t] /\ created' = created + 1
  /\ UNCHANGED <<at, offset, total, out, first, moved>>

Move(i, t) ==
  /\ starts[i] # Absent /\ starts[i] # t /\ created + moved < MaxChanges
  /\ starts' = [starts EXCEPT ![i] = t] /\ moved' = moved + 1
  /\ UNCHANGED <<at, offset, total, out, first, created>>

Init ==
  /\ starts \in [Ids -> 0..MaxTime] /\ first = Sorted(starts)
  /\ at = "list" /\ offset = 0 /\ total = 0 /\ out = <<>> /\ created = 0 /\ moved = 0

Next ==
  \/ ListRecords \/ CountRecords \/ NextPage
  \/ at \notin {"done", "refused"} /\ \E i \in Ids, t \in 1..MaxTime : Create(i, t) \/ Move(i, t)

Spec == Init /\ [][Next]_vars
-----------------------------------------------------------------------------
TypeOK ==
  /\ starts \in [Ids -> 0..MaxTime] /\ total \in 0..Cardinality(Ids)
  /\ at \in {"list", "count", "next", "done", "refused"}
  /\ offset \in {n * PageSize : n \in 0 .. offset} /\ Len(out) <= Cap + PageSize - 1

\* An export during which nothing was made or moved is the period, in order.
ExportIsThePeriod == at = "done" /\ created + moved = 0 => out = first

\* Requests made while it runs may push others onto two pages, never off all of them: an
\* export that is answered has every request of the period that was not moved meanwhile,
\* as long as none was.
CreationsLoseNothing == at = "done" /\ moved = 0 => ToSet(first) \subseteq ToSet(out)
=============================================================================
