-------------------------------- MODULE Hours --------------------------------
(***************************************************************************)
(* The weekly hours of a business: PUT /businesses/:id/hours deletes the   *)
(* rows and writes the new ones in one transaction (replaceHours of        *)
(* internal/business).  Its statements run at READ COMMITTED: a DELETE     *)
(* waits for a row that another transaction has changed, skips it when     *)
(* that one deletes it, and does not see what was inserted since it began. *)
(***************************************************************************)
EXTENDS Integers, Sequences, FiniteSets, SequencesExt

CONSTANTS
  Calls,          \* replacements, one request each
  Requests,       \* bodies: sequences of days with their hours
  None

\* A body is a sequence of days, each with its hours.
HoursAssumption ==
  \A q \in Requests :
    /\ q \in Seq({q[i] : i \in DOMAIN q})
    /\ \A i \in DOMAIN q :
         /\ q[i] = [day |-> q[i].day, opens |-> q[i].opens, closes |-> q[i].closes, closed |-> q[i].closed]
         /\ q[i].closed \in BOOLEAN

VARIABLES
  rows,           \* business_hours as committed: [id, day, opens, closes, closed]
  call,           \* call -> transaction under way
  last,           \* auxiliary: the week committed last
  behind          \* auxiliary: calls under way when another one committed

vars == <<rows, call, last, behind>>

Ids(S) == {r.id : r \in S}
Days == 0..6
Idle == [at |-> "idle", todo |-> <<>>, week |-> <<>>, seen |-> {}, gone |-> {}, wrote |-> {}]
Others(c) == Calls \ {c}
Locked(c) == UNION {call[d].gone \union Ids(call[d].wrote) : d \in Others(c)}
Row(id, e) == [id |-> id, day |-> e.day, opens |-> e.opens, closes |-> e.closes, closed |-> e.closed]

\* The bodies HoursParams takes: at most seven days, each once, closed without times or
\* open with two times that differ.  A closing time before the opening one is a night.
HoursParams(q) ==
  /\ Len(q) <= 7
  /\ \A i, j \in DOMAIN q : q[i].day = q[j].day => i = j
  /\ \A i \in DOMAIN q :
       /\ q[i].day \in Days
       /\ IF q[i].closed THEN q[i].opens = None /\ q[i].closes = None
          ELSE q[i].opens # None /\ q[i].closes # None /\ q[i].opens # q[i].closes
-----------------------------------------------------------------------------
\* The DELETE begins: it sees the rows committed so far.
Begin(c, q) ==
  /\ call[c].at = "idle" /\ HoursParams(q)
  /\ call' = [call EXCEPT ![c] = [at |-> "delete", todo |-> q, week |-> q, seen |-> Ids(rows),
                                  gone |-> {}, wrote |-> {}]]
  /\ behind' = behind \ {c}
  /\ UNCHANGED <<rows, last>>

\* Mutant: only the days of the request are deleted.
DeleteTheseDays(c) ==
  /\ call[c].at = "delete" /\ call[c].seen \intersect Locked(c) = {}
  /\ LET days == {e.day : e \in ToSet(call[c].todo)} IN
     call' = [call EXCEPT ![c].at = "upsert",
       ![c].gone = call[c].seen \intersect Ids({r \in rows : r.day \in days})]
  /\ UNCHANGED <<rows, last, behind>>

\* It goes on when no row it saw is locked, with those that are still there.
DeleteBusinessHours(c) ==
  /\ call[c].at = "delete" /\ call[c].seen \intersect Locked(c) = {}
  /\ call' = [call EXCEPT ![c].at = "upsert", ![c].gone = call[c].seen \intersect Ids(rows)]
  /\ UNCHANGED <<rows, last, behind>>

\* The rows of the day of e that the DELETE of c has left.
Same(c, e) == {r \in rows : r.day = e.day /\ r.id \notin call[c].gone}

\* Mutant: ON CONFLICT DO NOTHING.
InsertOnly(c, e) == IF Same(c, e) = {} THEN {Row([by |-> c, day |-> e.day], e)} ELSE {}

\* ON CONFLICT DO UPDATE.
Upserted(c, e) ==
  {Row(id, e) : id \in IF Same(c, e) = {} THEN {[by |-> c, day |-> e.day]} ELSE Ids(Same(c, e))}

\* The unique index of (business, day) makes it wait for a row of that day that another
\* transaction has written or deleted; a row committed since the DELETE is updated.
UpsertBusinessHour(c) ==
  /\ call[c].at = "upsert" /\ call[c].todo # <<>>
  /\ LET e == Head(call[c].todo) IN
     /\ \A d \in Others(c) : \A r \in call[d].wrote : r.day # e.day
     /\ Ids(Same(c, e)) \intersect Locked(c) = {}
     /\ call' = [call EXCEPT ![c].todo = Tail(@), ![c].wrote = @ \union Upserted(c, e)]
  /\ UNCHANGED <<rows, last, behind>>

\* ListBusinessHours in the transaction: what is committed, with what it did itself.
ListBusinessHours(c) ==
  {r \in rows : r.id \notin call[c].gone \union Ids(call[c].wrote)} \union call[c].wrote

Commit(c) ==
  /\ call[c].at = "upsert" /\ call[c].todo = <<>>
  /\ rows' = ListBusinessHours(c)
  /\ last' = call[c].week
  /\ behind' = behind \union {d \in Others(c) : call[d].at # "idle"}
  /\ call' = [call EXCEPT ![c] = [Idle EXCEPT !.at = "done"]]

\* An error of any statement, or the end of a deadlock: rolled back.
Fail(c) ==
  /\ call[c].at \in {"delete", "upsert"}
  /\ call' = [call EXCEPT ![c] = [Idle EXCEPT !.at = "done"]]
  /\ UNCHANGED <<rows, last, behind>>

Init == rows = {} /\ call = [c \in Calls |-> Idle] /\ last = <<>> /\ behind = {}

Next == \E c \in Calls :
  \/ \E q \in Requests : Begin(c, q)
  \/ DeleteBusinessHours(c) \/ UpsertBusinessHour(c) \/ Commit(c) \/ Fail(c)

Spec == Init /\ [][Next]_vars
-----------------------------------------------------------------------------
Week(q) == ToSet(q)
Stored == {[day |-> r.day, opens |-> r.opens, closes |-> r.closes, closed |-> r.closed] : r \in rows}

TypeOK ==
  /\ \A c \in Calls :
       call[c].at \in {"idle", "delete", "upsert", "done"} /\ call[c].gone \subseteq call[c].seen
  /\ \A r, s \in rows : r.day = s.day => r = s
  /\ \A r \in rows : r.closed <=> r.opens = None

\* The days of the week committed last are all there, with its hours, whatever was
\* written at the same time.
LastWeekIsWhole == Week(last) \subseteq Stored

\* A replacement during which no other one committed leaves its week and nothing else.
ReplacedWhenApart ==
  [][\A c \in Calls :
       /\ call[c].at = "upsert" /\ call'[c].at = "done" /\ c \notin behind
       /\ rows' # rows /\ last' = call[c].week
       => Stored' = Week(last')]_vars

\* docs/openapi.yaml: "Atomically replaces the complete opening-hours schedule."
\* The code does not keep it.
HoursAreOneWeek == Stored = Week(last)
=============================================================================
