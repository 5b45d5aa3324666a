------------------------------- MODULE Profile -------------------------------
(***************************************************************************)
(* Where a business says it is: its location mode, coordinates, pickup and *)
(* service areas (update of internal/business).  PATCH reads the profile   *)
(* to fill in what the body leaves out, validates, and writes in a         *)
(* transaction that does not look at the profile again.                    *)
(***************************************************************************)
EXTENDS Integers, FiniteSets

CONSTANTS
  Calls,          \* updates, one request each
  Bodies,         \* bodies of requests
  Areas,          \* service areas as a body gives them
  Keys,           \* their normalized keys
  Key,            \* area -> its key: what two spellings of a place share
  MaxAreas,       \* most areas of a business
  None            \* a field the body leaves out

Modes == {"fixed", "mobile", "hybrid"}
Profiles == [mode : Modes, active : BOOLEAN, located : BOOLEAN, pickup : BOOLEAN]
AnyBody == [mode : Modes \union {None}, active : BOOLEAN, located : BOOLEAN, pickup : BOOLEAN,
            areas : {None} \union SUBSET Areas]

ProfileAssumption ==
  /\ Key \in [Areas -> Keys] /\ MaxAreas \in Nat
  /\ Bodies \subseteq AnyBody

VARIABLES
  profile,        \* row of businesses
  areas,          \* rows of business_service_areas
  call,           \* update -> its progress
  stale,          \* auxiliary: an update was written on a profile that it had not read
  lists           \* auxiliary: lists of areas that were ever sent

vars == <<profile, areas, call, stale, lists>>

\* NormalizeServiceAreas refuses too many areas and two spellings of one.
NormalizeServiceAreas(A) ==
  /\ Cardinality(A) <= MaxAreas
  /\ \A a, b \in A : Key[a] = Key[b] => a = b

\* What CreateParams asks of a location mode; UpdateParams is CreateParams.
CreateParams(p, A) ==
  /\ NormalizeServiceAreas(A)
  /\ p.mode = "fixed"  => A = {} /\ (p.active => p.located)
  /\ p.mode = "mobile" => ~ p.located /\ ~ p.pickup /\ (p.active => A # {})
  /\ p.mode = "hybrid" => (p.active => p.located /\ A # {})

\* Mutant: areas the body leaves out are not looked at.
FillModeOnly(body, p, A) ==
  [mode |-> IF body.mode = None THEN p.mode ELSE body.mode, active |-> body.active,
   located |-> body.located, pickup |-> body.pickup,
   areas |-> IF body.areas = None THEN IF body.mode \in {None, "fixed"} THEN {} ELSE A ELSE body.areas]

\* The body with the mode and the areas it leaves out; the other fields fall back to
\* their defaults, not to what is stored.
Fill(body, p, A) ==
  [mode |-> IF body.mode = None THEN p.mode ELSE body.mode, active |-> body.active,
   located |-> body.located, pickup |-> body.pickup,
   areas |-> IF body.areas = None THEN A ELSE body.areas]

Plain(x) == [mode |-> x.mode, active |-> x.active, located |-> x.located, pickup |-> x.pickup]
-----------------------------------------------------------------------------
\* GetBusinessForMember and ListBusinessServiceAreas, two statements.
GetBusinessForMember(c, body) ==
  /\ call[c].at = "idle"
  /\ call' = [call EXCEPT ![c] = [@ EXCEPT !.at = "areas", !.body = body, !.read = profile]]
  /\ UNCHANGED <<profile, areas, stale, lists>>

\* Then UpdateParams; a body that does not fit what was read is refused.
ListBusinessServiceAreas(c) ==
  LET x == Fill(call[c].body, call[c].read, areas) IN
  /\ call[c].at = "areas"
  /\ call' = [call EXCEPT
       ![c].at = IF CreateParams(Plain(x), x.areas) THEN "write" ELSE "done",
       ![c].read = Plain(x), ![c].stale = profile # call[c].read]
  /\ UNCHANGED <<profile, areas, stale, lists>>

\* DeleteBusinessServiceAreas and CreateBusinessServiceArea, when the body has areas.
ReplaceAreas(old, given) == IF given = None THEN old ELSE given

\* The transaction.  UpdateBusiness locks the row of the business first, so two of them
\* never interleave; the unique key of an area is not checked for areas left alone.
UpdateBusiness(c) ==
  LET body == call[c].body
      new == ReplaceAreas(areas, body.areas) IN
  /\ call[c].at = "write"
  /\ \A a, b \in new : Key[a] = Key[b] => a = b
  /\ profile' = call[c].read /\ areas' = new
  /\ stale' = (stale \/ call[c].stale)
  /\ lists' = IF body.areas = None THEN lists ELSE lists \union {body.areas}
  /\ call' = [d \in Calls |->
       IF d = c THEN [call[d] EXCEPT !.at = "done"] ELSE [call[d] EXCEPT !.stale = TRUE]]

Fail(c) ==
  /\ call[c].at \in {"areas", "write"} /\ call' = [call EXCEPT ![c].at = "done"]
  /\ UNCHANGED <<profile, areas, stale, lists>>

Init ==
  /\ profile \in Profiles /\ areas \in SUBSET Areas /\ CreateParams(profile, areas)
  /\ call = [c \in Calls |-> [at |-> "idle", body |-> None, read |-> None, stale |-> FALSE]]
  /\ stale = FALSE /\ lists = {areas}

Next == \E c \in Calls :
  \/ \E body \in Bodies : GetBusinessForMember(c, body)
  \/ ListBusinessServiceAreas(c) \/ UpdateBusiness(c) \/ Fail(c)

Spec == Init /\ [][Next]_vars
-----------------------------------------------------------------------------
TypeOK ==
  /\ profile \in Profiles /\ areas \subseteq Areas
  /\ Cardinality(areas) <= MaxAreas
  /\ \A c \in Calls : call[c].at \in {"idle", "areas", "write", "done"}

\* README.md: areas are "replaced atomically with the business profile".  They are one
\* list that somebody sent, never parts of two.
AreasOfOneList == areas \in lists

\* As long as no update is written on a profile that changed after it was read, the
\* stored mode, coordinates and areas are ones that a body may ask for, whatever the
\* bodies left out.
ValidUnlessStale == ~ stale => CreateParams(profile, areas)

\* internal/business/dto.go: "active mobile businesses require at least one service area",
\* "fixed businesses must not define service_areas".
\* The code does not keep it.
ProfileIsValid == CreateParams(profile, areas)
=============================================================================
