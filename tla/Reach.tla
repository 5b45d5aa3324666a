-------------------------------- MODULE Reach --------------------------------
(***************************************************************************)
(* Who finds which business (internal/marketplace).  A visitor names a     *)
(* place, a box of coordinates, or both, and walks the pages of the        *)
(* answer; businesses edit their addresses and service areas meanwhile.    *)
(* Addresses are compared as text, service areas by normalized keys.       *)
(***************************************************************************)
EXTENDS Integers, Sequences, FiniteSets, SequencesExt

CONSTANTS
  Shops,          \* businesses
  Rows,           \* shop -> the profiles it may have, each one that CreateParams accepts
  Queries,        \* what visitors ask for
  Words,          \* names of places and postal codes as people type them
  Lower,          \* word -> its lower case
  Key,            \* word -> its SearchKey or PostalKey: no case, accents, punctuation
  Blank,          \* the key of a word of nothing but punctuation
  Limit,          \* page size
  None            \* NULL

VARIABLES
  shop,           \* rows of businesses with their business_service_areas
  visit,          \* the visitor: query, offset, rows of this page and their areas
  seen,           \* the pages before this one, and this one
  changed         \* auxiliary: a profile was written since the first page was asked for

vars == <<shop, visit, seen, changed>>

Fields == {"country", "state", "municipality", "city", "neighborhood", "postal_code"}
Required == {"country", "state"}
AnyArea == {a \in [Fields -> Words \union {None}] : \A f \in Required : a[f] # None}
Bounds == {"min_lat", "max_lat", "min_lng", "max_lng"}

\* Names are numbered in their order, and NULL is neither a word nor a key.
ReachAssumption ==
  /\ Limit \in Nat \ {0} /\ IsFiniteSet(Shops) /\ None \notin Queries /\ None \notin Words
  /\ DOMAIN Lower = Words /\ DOMAIN Key = Words /\ \A w \in Words : Key[w] # None
  /\ \A s \in Shops : \A r \in Rows[s] : r.areas \subseteq AnyArea /\ r.name \in Int
  /\ \A q \in Queries : q.area \in [Fields -> Words \union {None}]
-----------------------------------------------------------------------------
(* parseReachFilter *)
HasAreaFilter(q) == \E f \in Fields : q.area[f] # None
HasBBox(q) == \E b \in Bounds : q.box[b] # None

\* A word without letters or digits names a field for addresses and none for areas.
QueryKey(q, f) == IF q.area[f] = None \/ Key[q.area[f]] = Blank THEN None ELSE Key[q.area[f]]

ParseReachFilter(q) ==
  /\ q.box["min_lat"] # None /\ q.box["max_lat"] # None => q.box["min_lat"] <= q.box["max_lat"]
  /\ q.box["min_lng"] # None /\ q.box["max_lng"] # None => q.box["min_lng"] <= q.box["max_lng"]

\* keyPtr: the optional fields of an area without a key are NULL.
AreaKey(a, f) ==
  IF f \in Required THEN Key[a[f]]
  ELSE IF a[f] = None \/ Key[a[f]] = Blank THEN None ELSE Key[a[f]]
-----------------------------------------------------------------------------
(* The conditions of ListPublicBusinesses and SearchMarketplaceProducts *)
SameText(word, x) == word # None /\ Lower[word] = Lower[x]

InBox(r, q) ==
  /\ HasBBox(q) /\ r.at # None
  /\ q.box["min_lat"] # None => r.at.lat >= q.box["min_lat"]
  /\ q.box["max_lat"] # None => r.at.lat <= q.box["max_lat"]
  /\ q.box["min_lng"] # None => r.at.lng >= q.box["min_lng"]
  /\ q.box["max_lng"] # None => r.at.lng <= q.box["max_lng"]

\* A municipality is the city or the neighborhood of an address; a postal code is exact.
AddressFits(r, q) ==
  /\ HasAreaFilter(q)
  /\ \A f \in Fields \ {"municipality", "postal_code"} :
       q.area[f] # None => SameText(r.address[f], q.area[f])
  /\ q.area["municipality"] # None =>
       \E f \in {"city", "neighborhood"} : SameText(r.address[f], q.area["municipality"])
  /\ q.area["postal_code"] # None => r.address["postal_code"] = q.area["postal_code"]

\* Mutant: an area that names no city serves no city.
AreaFitsExactly(a, q) ==
  \A f \in Fields : QueryKey(q, f) # None => AreaKey(a, f) = QueryKey(q, f)

\* Country and state must be the area's; a narrower field that the area leaves open is.
AreaFits(a, q) ==
  \A f \in Fields : QueryKey(q, f) # None =>
    \/ AreaKey(a, f) = QueryKey(q, f)
    \/ f \notin Required /\ AreaKey(a, f) = None

Reached(r, q) ==
  \/ ~ HasBBox(q) /\ ~ HasAreaFilter(q)
  \/ r.mode \in {"fixed", "hybrid"} /\ (InBox(r, q) \/ AddressFits(r, q))
  \/ HasAreaFilter(q) /\ r.mode \in {"mobile", "hybrid"} /\ \E a \in r.areas : AreaFits(a, q)

Listed(q) == {s \in Shops : shop[s].active /\ Reached(shop[s], q)}

\* ORDER BY name: businesses of one name come in any order, anew for every page.
ByName(S) == {o \in SetToSeqs(S) : \A i, j \in DOMAIN o : i < j => shop[o[i]].name <= shop[o[j]].name}
-----------------------------------------------------------------------------
Idle == [at |-> "idle", q |-> None, offset |-> 0, rows |-> <<>>, areas |-> <<>>]

\* LIMIT and OFFSET
Cut(o, offset) == SubSeq(o, offset + 1, Min({Len(o), offset + Limit}))

Ask(q) ==
  /\ visit.at \in {"idle", "answered"} /\ ParseReachFilter(q)
  /\ visit' = [Idle EXCEPT !.at = "businesses", !.q = q]
  /\ seen' = <<>> /\ changed' = FALSE /\ UNCHANGED shop

ListPublicBusinesses ==
  /\ visit.at = "businesses"
  /\ \E o \in ByName(Listed(visit.q)) :
       visit' = [visit EXCEPT !.at = "areas",
                                 !.rows = Cut(o, visit.offset)]
  /\ UNCHANGED <<shop, seen, changed>>

\* GroupServiceAreasByBusiness
AreasByBusiness(rows) == [i \in DOMAIN rows |-> shop[rows[i]].areas]

\* The areas of all the businesses of the page, another statement and snapshot.
ListBusinessServiceAreasForBusinesses ==
  /\ visit.at = "areas"
  /\ visit' = [visit EXCEPT !.at = "answered",
                            !.areas = AreasByBusiness(visit.rows)]
  /\ seen' = seen \o visit.rows
  /\ UNCHANGED <<shop, changed>>

\* A visitor goes on until a page is not full.
NextPage ==
  /\ visit.at = "answered" /\ Len(visit.rows) = Limit
  /\ visit' = [visit EXCEPT !.at = "businesses", !.offset = @ + Limit, !.rows = <<>>, !.areas = <<>>]
  /\ UNCHANGED <<shop, seen, changed>>

\* update of internal/business: profile and areas in one transaction.
UpdateBusiness(s, r) ==
  /\ r # shop[s]
  /\ shop' = [shop EXCEPT ![s] = r] /\ changed' = TRUE
  /\ UNCHANGED <<visit, seen>>

Init == /\ shop \in {f \in [Shops -> UNION {Rows[s] : s \in Shops}] : \A s \in Shops : f[s] \in Rows[s]}
        /\ visit = Idle /\ seen = <<>> /\ changed = FALSE

Next ==
  \/ \E q \in Queries : Ask(q)
  \/ ListPublicBusinesses \/ ListBusinessServiceAreasForBusinesses \/ NextPage
  \/ \E s \in Shops : \E r \in Rows[s] : UpdateBusiness(s, r)

Spec == Init /\ [][Next]_vars
-----------------------------------------------------------------------------
\* The rows are profiles that businesses may have, and a page has at most Limit.
TypeOK ==
  /\ \A s \in Shops : shop[s] \in Rows[s]
  /\ visit.at \in {"idle", "businesses", "areas", "answered"} /\ visit.q \in Queries \union {None}
  /\ visit.rows \in Seq(Shops) /\ Len(visit.rows) <= Limit /\ visit.offset % Limit = 0
  /\ changed \in BOOLEAN /\ seen \in Seq(Shops)

\* A place names all fields.  An area or a query that leaves a field open, or gives an
\* optional one no letter or digit, is all the places that agree with the others.
Places == [Fields -> {Key[w] : w \in Words}]
InArea(p, a) == \A f \in Fields :
  a[f] # None /\ (f \in Required \/ Key[a[f]] # Blank) => p[f] = Key[a[f]]
Asked(p, q) == \A f \in Fields :
  q.area[f] # None /\ Key[q.area[f]] # Blank => p[f] = Key[q.area[f]]
Serves(A, q) == \E p \in Places : Asked(p, q) /\ \E a \in A : InArea(p, a)

\* README.md: areas are "used by marketplace reach filtering".  When a place is asked
\* for, the mobile businesses found are the active ones that serve some part of
\* it, however both sides spelled it and however narrow each of them is.
FoundWhereItServes ==
  visit.at = "businesses" /\ HasAreaFilter(visit.q) =>
    \A s \in Shops : shop[s].mode = "mobile" =>
      (s \in Listed(visit.q) <=> shop[s].active /\ Serves(shop[s].areas, visit.q))

\* Who names one more field of the place finds no business that was not found before.
NarrowerShowsLess ==
  visit.at = "businesses" /\ ~ HasBBox(visit.q) =>
    \A q \in Queries :
      /\ ~ HasBBox(q)
      /\ \A f \in Fields : visit.q.area[f] # None => q.area[f] = visit.q.area[f]
      => Listed(q) \subseteq Listed(visit.q)

\* Pages are cut from an order by name alone.  If names differ and no profile changes, a
\* walk to the end shows every business of the answer exactly once.
WalkShowsEachOnce ==
  /\ visit.at = "answered" /\ Len(visit.rows) < Limit /\ ~ changed
  /\ \A s, t \in Listed(visit.q) : shop[s].name = shop[t].name => s = t
  => seen \in SetToSeqs(Listed(visit.q))

\* Rows and areas are read by two statements.  Unless a profile changed in between, every
\* mobile business that a visitor finds by its place is shown with an area that serves it.
ShownWithItsArea ==
  visit.at = "answered" /\ ~ changed /\ HasAreaFilter(visit.q) =>
    \A i \in DOMAIN visit.rows :
      shop[visit.rows[i]].mode = "mobile" => Serves(visit.areas[i], visit.q)
=============================================================================
