------------------------------- MODULE Cursors -------------------------------
(***************************************************************************)
(* The lists a person walks page by page with a cursor: saved businesses   *)
(* (internal/savedbusinesses) and personal activity (personalActivity of   *)
(* internal/operations).  Both order rows by time of creation and id, the  *)
(* newest first; rows come and go between two pages.                       *)
(***************************************************************************)
EXTENDS Integers, Sequences, FiniteSets, SequencesExt

CONSTANTS
  Ids,            \* businesses or requests, numbered in the order of their ids
  MaxTime,        \* bound of the clock
  Limits          \* page sizes a client asks for

CursorsAssumption ==
  /\ Ids \subseteq Nat \ {0} /\ IsFiniteSet(Ids)
  /\ MaxTime \in Nat \ {0} /\ Limits \subseteq Nat \ {0}

VARIABLES
  now,
  created,        \* row -> created_at, or Absent
  cursor,         \* position the client holds, or Start
  page,           \* the page it was sent last
  listed,         \* all pages since the walk began
  ended,          \* next_cursor was null
  stable          \* auxiliary: rows that have been there since the walk began

vars == <<now, created, cursor, page, listed, ended, stable>>

Absent == 0
Start == [at |-> 0, id |-> 0]
Present == {i \in Ids : created[i] # Absent}
Position(i) == [at |-> created[i], id |-> i]

\* Mutant: rows of one time are not told apart.
BeforeTime(i, c) == c = Start \/ created[i] < c.at

\* (created_at, id) < (before_at, before_id), or no cursor.
Before(i, c) == c = Start \/ created[i] < c.at \/ (created[i] = c.at /\ i < c.id)

\* ORDER BY created_at DESC, id DESC
Newer(i, j) == created[i] > created[j] \/ (created[i] = created[j] /\ i > j)
Ordered(S) ==
  [n \in 1 .. Cardinality(S) |->
     CHOOSE i \in S : Cardinality({j \in S : Newer(j, i)}) = n - 1]

\* ListSavedBusinesses and PersonalActivity: the rows before the cursor, limited.
ListSavedBusinesses(c, limit) ==
  LET all == Ordered({i \in Present : Before(i, c)}) IN
  SubSeq(all, 1, IF Len(all) < limit THEN Len(all) ELSE limit)

\* list: one row more than the limit tells whether there is a next page, which begins
\* after the last row that is sent.
Page(limit) ==
  LET rows == ListSavedBusinesses(cursor, limit + 1)
      more == Len(rows) > limit IN
  /\ ~ ended
  /\ page' = SubSeq(rows, 1, IF more THEN limit ELSE Len(rows))
  /\ cursor' = IF more THEN Position(rows[limit]) ELSE cursor
  /\ ended' = ~ more /\ listed' = listed \o page'
  /\ UNCHANGED <<now, created, stable>>

\* The client begins again without a cursor.
Again ==
  /\ listed # <<>>
  /\ cursor' = Start /\ page' = <<>> /\ listed' = <<>> /\ ended' = FALSE /\ stable' = Present
  /\ UNCHANGED <<now, created>>

\* SaveBusiness, or a new request.  created_at is when its transaction began, which may
\* be before rows that are seen already; a row that is there keeps its own.
SaveBusiness(i) ==
  /\ created' = [created EXCEPT ![i] = IF @ # Absent THEN @ ELSE now]
  /\ UNCHANGED <<now, cursor, page, listed, ended, stable>>

SaveLate(i) ==
  /\ created[i] = Absent /\ now > 1 /\ created' = [created EXCEPT ![i] = now - 1]
  /\ UNCHANGED <<now, cursor, page, listed, ended, stable>>

RemoveSavedBusiness(i) ==
  /\ created' = [created EXCEPT ![i] = Absent] /\ stable' = stable \ {i}
  /\ UNCHANGED <<now, cursor, page, listed, ended>>

Tick == now < MaxTime /\ now' = now + 1 /\ UNCHANGED <<created, cursor, page, listed, ended, stable>>

Init ==
  /\ now = 1 /\ created \in [Ids -> {Absent, 1}]
  /\ cursor = Start /\ page = <<>> /\ listed = <<>> /\ ended = FALSE /\ stable = Present

Next ==
  \/ \E limit \in Limits : Page(limit)
  \/ \E i \in Ids : SaveBusiness(i) \/ SaveLate(i) \/ RemoveSavedBusiness(i)
  \/ Again \/ Tick

Spec == Init /\ [][Next]_vars
-----------------------------------------------------------------------------
TypeOK ==
  /\ now \in 1..MaxTime /\ created \in [Ids -> 0..MaxTime] /\ stable \subseteq Present
  /\ page = <<>> \/ \E limit \in Limits : Len(page) <= limit
  /\ cursor = Start \/ cursor \in [at: 1..MaxTime, id: Ids]

Times(i) == Cardinality({n \in DOMAIN listed : listed[n] = i})

\* Whoever walks to the end sees every row that was there all along, and none twice,
\* whatever was saved, removed, or saved again with the same time meanwhile.
StableListedOnce ==
  \A i \in stable : Times(i) <= 1 /\ (ended => Times(i) = 1)
=============================================================================
