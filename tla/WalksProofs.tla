----------------------------- MODULE WalksProofs -----------------------------
(***************************************************************************)
(* Proofs about the lists of Walks, which change while they are walked:    *)
(* first what the place of a row in an ordered list is, then an inductive  *)
(* invariant for each of the three parts.                                  *)
(***************************************************************************)
EXTENDS Walks, FiniteSetTheorems, SequenceTheorems, TLAPS

-----------------------------------------------------------------------------
(* The place of a row in a list                                            *)

Under(S, R, x) == {y \in S : <<y, x>> \in R}
Place(S, R, x) == Cardinality(Under(S, R, x))
Orders(R, S) ==
  /\ \A x, y, z \in S : <<x, y>> \in R /\ <<y, z>> \in R => <<x, z>> \in R
  /\ \A x \in S : <<x, x>> \notin R
  /\ \A x, y \in S : x # y => <<x, y>> \in R \/ <<y, x>> \in R

LEMMA PlaceRises ==
  ASSUME NEW S, IsFiniteSet(S), NEW R, Orders(R, S)
  PROVE  /\ \A x \in S : Place(S, R, x) \in 0 .. Cardinality(S) - 1
         /\ \A x, y \in S : <<x, y>> \in R => Place(S, R, x) < Place(S, R, y)
<1>1. ASSUME NEW x \in S
      PROVE  /\ IsFiniteSet(Under(S, R, x)) /\ Place(S, R, x) \in Nat
             /\ IsFiniteSet(Under(S, R, x) \union {x})
             /\ Cardinality(Under(S, R, x) \union {x}) = Place(S, R, x) + 1
  <2>1. Under(S, R, x) \subseteq S /\ x \notin Under(S, R, x)
    BY DEF Under, Orders
  <2>2. IsFiniteSet(Under(S, R, x))
    BY <2>1, FS_Subset
  <2> QED
    BY <2>1, <2>2, FS_AddElement, FS_CardinalityType DEF Place
<1>2. ASSUME NEW x \in S PROVE Place(S, R, x) \in 0 .. Cardinality(S) - 1
  <2>1. Under(S, R, x) \union {x} \subseteq S
    BY DEF Under
  <2>2. Place(S, R, x) + 1 <= Cardinality(S)
    BY <1>1, <2>1, FS_Subset, Zenon
  <2>3. Cardinality(S) \in Nat
    BY FS_CardinalityType
  <2>4. Place(S, R, x) \in Nat
    BY <1>1
  <2> QED
    BY <2>2, <2>3, <2>4
<1>3. ASSUME NEW x \in S, NEW y \in S, <<x, y>> \in R PROVE Place(S, R, x) < Place(S, R, y)
  <2>1. Under(S, R, x) \union {x} \subseteq Under(S, R, y)
    BY <1>3 DEF Under, Orders
  <2>2. Cardinality(Under(S, R, x) \union {x}) <= Place(S, R, y)
    BY <1>1, <2>1, FS_Subset DEF Place
  <2>3. Place(S, R, x) + 1 <= Place(S, R, y)
    BY <1>1, <2>2
  <2>4. Place(S, R, x) \in Nat /\ Place(S, R, y) \in Nat
    BY <1>1
  <2> QED
    BY <2>3, <2>4
<1> QED
  BY <1>2, <1>3

\* No two rows have one place, and each place of the list has its row.
LEMMA Apart ==
  ASSUME NEW S, IsFiniteSet(S), NEW R, Orders(R, S), NEW x \in S, NEW y \in S,
         Place(S, R, x) = Place(S, R, y)
  PROVE  x = y
<1>1. Place(S, R, x) \in Int /\ Place(S, R, y) \in Int
  BY PlaceRises, FS_CardinalityType
<1>2. ~ (<<x, y>> \in R) /\ ~ (<<y, x>> \in R)
  BY <1>1, PlaceRises
<1> QED
  BY <1>2 DEF Orders

LEMMA Taken ==
  ASSUME NEW S, IsFiniteSet(S), NEW R, Orders(R, S), NEW n \in 0 .. Cardinality(S) - 1
  PROVE  \E x \in S : Place(S, R, x) = n
<1> DEFINE k == Cardinality(S)
           f == [x \in S |-> Place(S, R, x) + 1]
<1>0. k \in Nat
  BY FS_CardinalityType
<1>1. \A x \in S : Place(S, R, x) \in 0 .. k - 1
  BY PlaceRises
<1>2. f \in [S -> 1 .. k]
  BY <1>0, <1>1
<1>3. IsFiniteSet(1 .. k) /\ Cardinality(1 .. k) = k
  BY <1>0, FS_Interval
<1>4. ASSUME NEW x \in S, NEW y \in S, f[x] = f[y] PROVE x = y
  <2>1. Place(S, R, x) = Place(S, R, y)
    BY <1>0, <1>1, <1>4
  <2> QED
    BY <2>1, Apart
<1>5. f \in Injection(S, 1 .. k)
  BY <1>2, <1>4 DEF Injection, IsInjective
<1>6. f \in Surjection(S, 1 .. k)
  BY <1>3, <1>5, FS_Injection
<1>7. n + 1 \in 1 .. k
  BY <1>0
<1>8. PICK x \in S : f[x] = n + 1
  BY <1>6, <1>7 DEF Surjection
<1> QED
  BY <1>0, <1>1, <1>7, <1>8

LEMMA FunctionSeq ==
  ASSUME NEW S, NEW m \in Nat, NEW f \in [1 .. m -> S]
  PROVE  f \in Seq(S) /\ Len(f) = m /\ DOMAIN f = 1 .. m
OBVIOUS

LEMMA Beginning ==
  ASSUME NEW S, NEW s \in Seq(S), NEW m \in 0 .. Len(s)
  PROVE  /\ SubSeq(s, 1, m) \in Seq(S) /\ Len(SubSeq(s, 1, m)) = m
         /\ \A n \in 1 .. m : SubSeq(s, 1, m)[n] = s[n]
<1>1. Len(s) \in Nat /\ \A n \in 1 .. Len(s) : s[n] \in S
  OBVIOUS
<1>2. SubSeq(s, 1, m) \in Seq(S) /\ Len(SubSeq(s, 1, m)) = m
  BY <1>1
<1>3. \A n \in 1 .. m : SubSeq(s, 1, m)[n] = s[n]
  BY <1>1, <1>2
<1> QED
  BY <1>2, <1>3

\* A list of the rows by their places has each of them once, in order.
IsList(L, S, R) ==
  /\ L \in Seq(S) /\ Len(L) = Cardinality(S)
  /\ \A n \in 1 .. Len(L) : L[n] \in S /\ Place(S, R, L[n]) = n - 1

LEMMA Everyone ==
  ASSUME NEW S, IsFiniteSet(S), NEW R, Orders(R, S), NEW L, IsList(L, S, R), NEW x \in S
  PROVE  Place(S, R, x) + 1 \in 1 .. Len(L) /\ L[Place(S, R, x) + 1] = x
<1>1. Len(L) \in Nat /\ Place(S, R, x) \in 0 .. Len(L) - 1
  BY PlaceRises DEF IsList
<1>2. PICK n \in 1 .. Len(L) : n = Place(S, R, x) + 1
  BY <1>1
<1>3. L[n] \in S /\ Place(S, R, L[n]) = Place(S, R, x)
  BY <1>1, <1>2 DEF IsList
<1>4. L[n] = x
  BY <1>3, Apart
<1> QED
  BY <1>2, <1>4

LEMMA InOrder ==
  ASSUME NEW S, IsFiniteSet(S), NEW R, Orders(R, S), NEW L, IsList(L, S, R),
         NEW m \in 1 .. Len(L), NEW n \in 1 .. Len(L), m < n
  PROVE  <<L[m], L[n]>> \in R /\ L[m] # L[n]
<1>1. /\ L[m] \in S /\ Place(S, R, L[m]) = m - 1
      /\ L[n] \in S /\ Place(S, R, L[n]) = n - 1 /\ Len(L) \in Nat
  BY DEF IsList
<1>2. L[m] # L[n]
  BY <1>1
<1>3. ~ (<<L[n], L[m]>> \in R)
  <2>1. <<L[n], L[m]>> \in R => Place(S, R, L[n]) < Place(S, R, L[m])
    BY <1>1, PlaceRises
  <2> QED
    BY <1>1, <2>1
<1> QED
  BY <1>1, <1>2, <1>3 DEF Orders

-----------------------------------------------------------------------------
(* The loop of a worker: pages of numbers                                  *)

LEMMA LoopCardinality == \A S : Loop!Cardinality(S) = Cardinality(S)
BY DEF Cardinality, Loop!Cardinality

NumberOrder(S) == {p \in S \X S : p[1] < p[2]}

LEMMA Ranked ==
  ASSUME NEW S \in SUBSET Nat, IsFiniteSet(S)
  PROVE  /\ \A x \in S : Loop!Rank(x, S) \in 0 .. Cardinality(S) - 1
         /\ \A x, y \in S : Loop!Rank(x, S) = Loop!Rank(y, S) => x = y
         /\ \A n \in 0 .. Cardinality(S) - 1 : \E x \in S : Loop!Rank(x, S) = n
<1>1. Orders(NumberOrder(S), S)
  BY DEF Orders, NumberOrder
<1>2. ASSUME NEW x \in S PROVE Loop!Rank(x, S) = Place(S, NumberOrder(S), x)
  <2>1. {y \in S : y < x} = Under(S, NumberOrder(S), x)
    BY DEF Under, NumberOrder
  <2> QED
    BY <2>1, LoopCardinality DEF Loop!Rank, Place
<1>3. \A x \in S : Place(S, NumberOrder(S), x) \in 0 .. Cardinality(S) - 1
  BY <1>1, PlaceRises
<1>4. /\ \A x, y \in S : Place(S, NumberOrder(S), x) = Place(S, NumberOrder(S), y) => x = y
      /\ \A n \in 0 .. Cardinality(S) - 1 : \E x \in S : Place(S, NumberOrder(S), x) = n
  <2>1. \A x, y \in S : Place(S, NumberOrder(S), x) = Place(S, NumberOrder(S), y) => x = y
    BY <1>1, Apart
  <2>2. ASSUME NEW n \in 0 .. Cardinality(S) - 1 PROVE \E x \in S : Place(S, NumberOrder(S), x) = n
    BY <1>1, Taken
  <2> QED
    BY <2>1, <2>2
<1>5. /\ \A x, y \in S : Loop!Rank(x, S) = Loop!Rank(y, S) => x = y
      /\ \A n \in 0 .. Cardinality(S) - 1 : \E x \in S : Loop!Rank(x, S) = n
  BY <1>2, <1>4
<1> QED
  BY <1>2, <1>3, <1>5

\* A page holds the rows from the first it does not skip; those after it are more than a
\* full page away.
LEMMA Paged ==
  ASSUME NEW S \in SUBSET Nat, IsFiniteSet(S), NEW k \in Nat, PageSize \in Nat \ {0}
  PROVE  /\ Loop!Page(S, k) \in Seq(S) /\ Loop!Range(Loop!Page(S, k)) \subseteq S
         /\ \A x \in S : Loop!Rank(x, S) \in Nat
         /\ \A x \in S : Loop!Rank(x, S) >= k =>
              \/ x \in Loop!Range(Loop!Page(S, k))
              \/ Len(Loop!Page(S, k)) = PageSize /\ Loop!Rank(x, S) >= k + PageSize
<1> DEFINE c == Cardinality(S)
           m == IF PageSize < c - k THEN PageSize ELSE IF c > k THEN c - k ELSE 0
           P == Loop!Page(S, k)
<1>1. c \in Nat /\ m \in Nat
  BY FS_CardinalityType
<1>2. \A n \in 1 .. m : k + n - 1 \in 0 .. c - 1
  BY <1>1
<1>3. P = [n \in 1 .. m |-> CHOOSE x \in S : Loop!Rank(x, S) = k + n - 1]
  <2>1. 1 .. m = 1 .. (IF PageSize < c - k THEN PageSize ELSE c - k)
    BY <1>1
  <2> QED
    BY <2>1, LoopCardinality DEF Loop!Page
<1>4. ASSUME NEW n \in 1 .. m PROVE P[n] \in S /\ Loop!Rank(P[n], S) = k + n - 1
  <2>1. \E x \in S : Loop!Rank(x, S) = k + n - 1
    BY <1>2, Ranked
  <2> QED
    BY <1>3, <2>1
<1>5. P \in Seq(S) /\ Len(P) = m /\ DOMAIN P = 1 .. m
  <2>1. P \in [1 .. m -> S]
    BY <1>3, <1>4
  <2> QED
    BY <1>1, <2>1
<1>6. \A x \in S : Loop!Rank(x, S) \in 0 .. c - 1
  BY Ranked
<1>7. ASSUME NEW x \in S, Loop!Rank(x, S) >= k
      PROVE  \/ x \in Loop!Range(P)
             \/ Len(P) = PageSize /\ Loop!Rank(x, S) >= k + PageSize
  <2> DEFINE r == Loop!Rank(x, S)
  <2>1. r \in 0 .. c - 1
    BY <1>6
  <2>2. CASE r - k + 1 \in 1 .. m
    <3>1. P[r - k + 1] \in S /\ Loop!Rank(P[r - k + 1], S) = r
      BY <1>4, <2>1, <2>2
    <3>2. P[r - k + 1] = x
      BY <3>1, Ranked
    <3> QED
      BY <1>5, <2>2, <3>2 DEF Loop!Range
  <2>3. CASE r - k + 1 \notin 1 .. m
    <3> HIDE DEF r
    <3>1. r >= k
      BY <1>7 DEF r
    <3>2. m = PageSize /\ r >= k + PageSize
      BY <1>1, <2>1, <2>3, <3>1
    <3> QED
      BY <1>5, <3>2 DEF r
  <2> QED
    BY <2>2, <2>3
<1>8. Loop!Range(P) \subseteq S
  BY <1>4, <1>5 DEF Loop!Range
<1>9. \A x \in S : Loop!Rank(x, S) \in Nat
  BY <1>1, <1>6
<1> QED
  BY <1>5, <1>7, <1>8, <1>9

-----------------------------------------------------------------------------
(* The loop of a worker: the inductive invariant                           *)

LoopTyped ==
  /\ Loop!TypeOK /\ todo \in Seq(Nat)
  /\ IsFiniteSet(seen) /\ IsFiniteSet(customers)

\* A customer that is not reached yet is on the page under way, or so far down the list
\* that the next page, which is not skipped when this one was full, cannot begin after it.
Ahead(c) ==
  \/ c \in Loop!Range(todo)
  \/ full /\ Loop!Rank(c, customers) >= offset + PageSize
ReachInv ==
  /\ doing # "reconcile" => unvisited = {}
  /\ doing = "reconcile" => \A c \in unvisited : Ahead(c)
LoopInv == LoopTyped /\ ReachInv

\* What is left of a list after its first row.
LEMMA RestOf ==
  ASSUME NEW s \in Seq(Nat), s # <<>>
  PROVE  /\ Head(s) \in Loop!Range(s) /\ Tail(s) \in Seq(Nat)
         /\ Loop!Range(Tail(s)) \subseteq Loop!Range(s)
         /\ \A x \in Loop!Range(s) : x = Head(s) \/ x \in Loop!Range(Tail(s))
<1>1. Len(s) \in Nat \ {0} /\ DOMAIN s = 1 .. Len(s)
  OBVIOUS
<1>2. /\ Tail(s) \in Seq(Nat) /\ DOMAIN Tail(s) = 1 .. Len(s) - 1
      /\ \A n \in 1 .. Len(s) - 1 : Tail(s)[n] = s[n + 1]
  BY <1>1
<1>3. Head(s) = s[1]
  OBVIOUS
<1>4. ASSUME NEW x \in Loop!Range(s) PROVE x = Head(s) \/ x \in Loop!Range(Tail(s))
  <2>1. PICK n \in 1 .. Len(s) : x = s[n]
    BY <1>1 DEF Loop!Range
  <2>2. CASE n # 1
    <3>1. n - 1 \in 1 .. Len(s) - 1 /\ Tail(s)[n - 1] = x
      BY <1>1, <1>2, <2>1, <2>2
    <3> QED
      BY <1>2, <3>1 DEF Loop!Range
  <2> QED
    BY <1>3, <2>1, <2>2
<1>5. Loop!Range(Tail(s)) \subseteq Loop!Range(s)
  <2>1. \A n \in 1 .. Len(s) - 1 : n + 1 \in 1 .. Len(s)
    BY <1>1
  <2> QED
    BY <1>1, <1>2, <2>1 DEF Loop!Range
<1> QED
  BY <1>1, <1>2, <1>3, <1>4, <1>5 DEF Loop!Range

LEMMA NothingListed == <<>> \in Seq(Nat) /\ Loop!Range(<<>>) = {}
BY DEF Loop!Range

\* One more number is before a row, or none.
LEMMA RankRises ==
  ASSUME NEW S \in SUBSET Nat, IsFiniteSet(S), NEW d \in Nat, NEW x \in S
  PROVE  Loop!Rank(x, S) \in Nat /\ Loop!Rank(x, S \union {d}) \in Nat
         /\ Loop!Rank(x, S \union {d}) >= Loop!Rank(x, S)
<1> DEFINE A == {y \in S : y < x}
           B == {y \in S \union {d} : y < x}
<1>1. IsFiniteSet(S \union {d})
  BY FS_AddElement
<1>2. A \in SUBSET B /\ A \in SUBSET S /\ B \in SUBSET (S \union {d})
  OBVIOUS
<1>3. IsFiniteSet(A) /\ IsFiniteSet(B)
  BY <1>1, <1>2, FS_Subset
<1>4. Cardinality(A) <= Cardinality(B) /\ Cardinality(A) \in Nat /\ Cardinality(B) \in Nat
  BY <1>2, <1>3, FS_Subset, FS_CardinalityType
<1>5. Loop!Rank(x, S) = Cardinality(A) /\ Loop!Rank(x, S \union {d}) = Cardinality(B)
  BY LoopCardinality DEF Loop!Rank
<1> QED
  BY <1>4, <1>5

-----------------------------------------------------------------------------
(* The loop of a worker: its steps keep the invariant                      *)

LEMMA SurroundingsKept ==
  ASSUME Loop!SweepsAssumption, LoopInv, Loop!Environment
  PROVE  LoopInv'
<1> USE DEF LoopInv, LoopTyped, ReachInv, Ahead, Loop!TypeOK, Loop!worker
<1>1. ASSUME NEW t \in Loop!Tickers, Loop!Tick(t) PROVE LoopInv'
  BY <1>1 DEF Loop!Tick
<1>2. ASSUME NEW r \in Appointments \union Preorders, Loop!FallDue(r) PROVE LoopInv'
  <2>1. IsFiniteSet(seen \union {r})
    BY FS_AddElement
  <2> QED
    BY <1>2, <2>1 DEF Loop!FallDue
<1>3. ASSUME NEW c \in Customers, Loop!Subscribe(c) PROVE LoopInv'
  <2>1. IsFiniteSet(customers \union {c})
    BY FS_AddElement
  <2>2. customers \in SUBSET Nat /\ c \in Nat
    BY DEF Loop!SweepsAssumption
  <2>3. ASSUME NEW x \in unvisited PROVE Loop!Rank(x, customers') >= Loop!Rank(x, customers)
                                          /\ Loop!Rank(x, customers') \in Nat /\ Loop!Rank(x, customers) \in Nat
    <3>1. x \in customers /\ customers' = customers \union {c}
      BY <1>3 DEF Loop!Subscribe
    <3> QED
      BY <2>2, <3>1, RankRises
  <2>4. LoopTyped'
    BY <1>3, <2>1 DEF Loop!Subscribe
  <2>5. ReachInv'
    <3>1. ASSUME NEW x \in unvisited, Ahead(x) PROVE Ahead(x)'
      <4>1. todo' = todo /\ full' = full /\ offset' = offset
        BY <1>3 DEF Loop!Subscribe
      <4>2. offset \in Nat /\ PageSize \in Nat
        BY DEF Loop!SweepsAssumption
      <4> QED
        BY <2>3, <3>1, <4>1, <4>2
    <3>2. doing' = doing /\ unvisited' = unvisited
      BY <1>3 DEF Loop!Subscribe
    <3> QED
      BY <3>1, <3>2
  <2> QED
    BY <2>4, <2>5
<1>4. ASSUME NEW c \in Customers, Loop!ChangeAtStripe(c) PROVE LoopInv'
  BY <1>4 DEF Loop!ChangeAtStripe
<1>5. ASSUME NEW table \in Litter, Loop!Expires(table) PROVE LoopInv'
  BY <1>5 DEF Loop!Expires
<1> QED
  BY <1>1, <1>2, <1>3, <1>4, <1>5 DEF Loop!Environment

\* Reading a page from k on, for all the customers that are not reached yet.
LEMMA ReadKept ==
  ASSUME Loop!SweepsAssumption, LoopInv, NEW k \in Nat, Loop!ReadPage(k), doing' = "reconcile",
         customers' = customers, unvisited' \subseteq customers,
         \A c \in unvisited' : Loop!Rank(c, customers) >= k
  PROVE  /\ todo' \in Seq(Nat) /\ Loop!Range(todo') \subseteq customers
         /\ offset' \in Nat /\ full' \in BOOLEAN /\ ReachInv'
<1>1. customers \in SUBSET Nat /\ IsFiniteSet(customers) /\ PageSize \in Nat \ {0}
  BY DEF Loop!SweepsAssumption, LoopInv, LoopTyped, Loop!TypeOK
<1>2. todo' = Loop!Page(customers, k) /\ offset' = k /\ full' = (Len(todo') = PageSize)
  BY DEF Loop!ReadPage, Loop!Goto, Loop!ListBillingCustomers
<1>3. todo' \in Seq(customers) /\ Loop!Range(todo') \subseteq customers
  BY <1>1, <1>2, Paged
<1>4. ASSUME NEW c \in unvisited' PROVE Ahead(c)'
  <2>1. \/ c \in Loop!Range(todo')
        \/ Len(todo') = PageSize /\ Loop!Rank(c, customers) >= k + PageSize
    BY <1>1, <1>2, Paged
  <2> QED
    BY <1>2, <2>1 DEF Ahead
<1>5. todo' \in Seq(Nat)
  <2>1. Len(todo') \in Nat /\ todo' \in [1 .. Len(todo') -> customers]
    BY <1>3
  <2>2. todo' \in [1 .. Len(todo') -> Nat]
    BY <1>1, <2>1
  <2> QED
    BY <2>1, <2>2
<1> QED
  BY <1>2, <1>3, <1>4, <1>5 DEF ReachInv

LEMMA ChooseKept ==
  ASSUME Loop!SweepsAssumption, LoopInv, NEW t \in Loop!Tickers, Loop!Choose(t)
  PROVE  LoopInv'
<1>1. CASE doing' = "process"
  <2>1. todo' = <<>> /\ UNCHANGED <<due, seen, customers, outdated, litter, offset, full, unvisited>>
        /\ ticked' \subseteq Loop!Tickers /\ unvisited = {}
    BY <1>1 DEF Loop!Choose, Loop!Goto, LoopInv, LoopTyped, ReachInv, Loop!TypeOK, Loop!ReadPage
  <2> QED
    BY <1>1, <2>1, NothingListed DEF LoopInv, LoopTyped, ReachInv, Loop!TypeOK
<1>2. CASE doing' = "appointments"
  <2>1. todo' = Loop!DueAppointments /\ UNCHANGED <<due, seen, customers, outdated, litter, offset, full, unvisited>>
        /\ ticked' \subseteq Loop!Tickers /\ unvisited = {}
    BY <1>2 DEF Loop!Choose, Loop!Goto, LoopInv, LoopTyped, ReachInv, Loop!TypeOK, Loop!ReadPage
  <2>2. IsFiniteSet(due \intersect Appointments) /\ due \intersect Appointments \in SUBSET Nat
    <3>1. due \intersect Appointments \in SUBSET seen
      BY DEF LoopInv, LoopTyped, Loop!TypeOK
    <3> QED
      BY <3>1, FS_Subset DEF LoopInv, LoopTyped, Loop!SweepsAssumption
  <2>3. todo' \in Seq(due \intersect Appointments) /\ Loop!Range(todo') \subseteq due \intersect Appointments
    BY <2>1, <2>2, Paged DEF Loop!DueAppointments, Loop!SweepsAssumption
  <2>4. todo' \in Seq(Nat)
    BY <2>2, <2>3
  <2> QED
    BY <1>2, <2>1, <2>3, <2>4 DEF LoopInv, LoopTyped, ReachInv, Loop!TypeOK
<1>3. CASE doing' = "reconcile"
  <2>1. /\ Loop!ReadPage(0) /\ unvisited' = customers /\ ticked' \subseteq Loop!Tickers
        /\ UNCHANGED <<due, seen, customers, outdated, litter>>
    BY <1>3 DEF Loop!Choose, Loop!Goto, LoopInv, LoopTyped, Loop!TypeOK
  <2>2. \A c \in customers : Loop!Rank(c, customers) >= 0
    <3>1. \A c \in customers : Loop!Rank(c, customers) \in 0 .. Cardinality(customers) - 1
      BY Ranked DEF LoopInv, LoopTyped, Loop!TypeOK, Loop!SweepsAssumption
    <3> QED
      BY <3>1
  <2>3. /\ todo' \in Seq(Nat) /\ Loop!Range(todo') \subseteq customers
        /\ offset' \in Nat /\ full' \in BOOLEAN /\ ReachInv'
    BY <1>3, <2>1, <2>2, ReadKept
  <2> QED
    BY <1>3, <2>1, <2>3 DEF LoopInv, LoopTyped, Loop!TypeOK
<1>4. doing' \in {"process", "appointments", "reconcile"}
  BY DEF Loop!Choose, Loop!Goto, Loop!ReadPage
<1> QED
  BY <1>1, <1>2, <1>3, <1>4

LEMMA NextPageKept ==
  ASSUME Loop!SweepsAssumption, LoopInv, Loop!NextPage
  PROVE  LoopInv'
<1>0. /\ UNCHANGED <<due, seen, customers, outdated, litter, ticked, unvisited>>
      /\ doing = "reconcile" /\ todo = <<>> /\ offset \in Nat /\ PageSize \in Nat
  BY DEF Loop!NextPage, LoopInv, LoopTyped, Loop!TypeOK, Loop!SweepsAssumption
<1>1. CASE full
  <2>1. Loop!ReadPage(offset + PageSize) /\ doing' = "reconcile"
    BY <1>1 DEF Loop!NextPage, Loop!ReadPage, Loop!Goto
  <2>2. \A c \in unvisited : Loop!Rank(c, customers) >= offset + PageSize
    BY <1>0, NothingListed DEF LoopInv, ReachInv, Ahead
  <2>3. offset + PageSize \in Nat /\ unvisited' \subseteq customers /\ customers' = customers
    BY <1>0 DEF LoopInv, LoopTyped, Loop!TypeOK
  <2>4. \A c \in unvisited' : Loop!Rank(c, customers) >= offset + PageSize
    BY <1>0, <2>2
  <2>5. /\ todo' \in Seq(Nat) /\ Loop!Range(todo') \subseteq customers
        /\ offset' \in Nat /\ full' \in BOOLEAN /\ ReachInv'
    BY <2>1, <2>3, <2>4, ReadKept
  <2> QED
    BY <1>0, <2>1, <2>5 DEF LoopInv, LoopTyped, Loop!TypeOK
<1>2. CASE ~ full
  <2>1. doing' = "select" /\ todo' = <<>> /\ UNCHANGED <<offset, full>>
    BY <1>2 DEF Loop!NextPage, Loop!Goto
  <2>2. unvisited = {}
    BY <1>0, <1>2, NothingListed DEF LoopInv, ReachInv, Ahead
  <2> QED
    BY <1>0, <2>1, <2>2, NothingListed DEF LoopInv, LoopTyped, ReachInv, Loop!TypeOK
<1> QED
  BY <1>1, <1>2

LEMMA ReconcileKept ==
  ASSUME Loop!SweepsAssumption, LoopInv, Loop!ReconcileFirst
  PROVE  LoopInv'
<1>1. /\ doing = "reconcile" /\ doing' = doing /\ todo # <<>> /\ todo' = Tail(todo)
      /\ UNCHANGED <<due, seen, customers, litter, ticked, offset, full>>
      /\ outdated' \subseteq outdated /\ unvisited' = unvisited \ {Head(todo)}
  BY DEF Loop!ReconcileFirst, Loop!Goto
<1>2. todo \in Seq(Nat) /\ Loop!Range(todo) \subseteq customers
  BY <1>1 DEF LoopInv, LoopTyped, Loop!TypeOK
<1>3. /\ todo' \in Seq(Nat) /\ Loop!Range(todo') \subseteq customers
      /\ \A c \in Loop!Range(todo) : c = Head(todo) \/ c \in Loop!Range(todo')
  BY <1>1, <1>2, RestOf
<1>4. ReachInv'
  BY <1>1, <1>3 DEF LoopInv, ReachInv, Ahead
<1>5. LoopTyped'
  BY <1>1, <1>3 DEF LoopInv, LoopTyped, Loop!TypeOK
<1> QED
  BY <1>4, <1>5 DEF LoopInv

LEMMA SweepKept ==
  ASSUME Loop!SweepsAssumption, LoopInv,
         \/ Loop!Process \/ Loop!ExpireFirst \/ Loop!AppointmentsDone
         \/ Loop!PreordersDone \/ Loop!CleanUp \/ Loop!Fail
  PROVE  LoopInv'
<1>1. CASE Loop!ExpireFirst
  <2>1. /\ doing \in {"appointments", "preorders"} /\ doing' = doing /\ todo # <<>> /\ todo' = Tail(todo)
        /\ UNCHANGED <<seen, customers, outdated, litter, ticked, offset, full, unvisited>>
        /\ due' \subseteq due
    BY <1>1 DEF Loop!ExpireFirst, Loop!Goto, Loop!Stay
  <2>2. todo' \in Seq(Nat) /\ Loop!Range(todo') \subseteq Loop!Range(todo)
    BY <2>1, RestOf DEF LoopInv, LoopTyped
  <2> QED
    BY <2>1, <2>2 DEF LoopInv, LoopTyped, ReachInv, Loop!TypeOK
<1>2. CASE Loop!AppointmentsDone
  <2>1. /\ doing = "appointments" /\ doing' = "preorders" /\ todo' = Loop!DuePreorders
        /\ UNCHANGED <<due, seen, customers, outdated, litter, ticked, offset, full, unvisited>>
    BY <1>2 DEF Loop!AppointmentsDone, Loop!Goto, Loop!Stay
  <2>2. IsFiniteSet(due \intersect Preorders) /\ due \intersect Preorders \in SUBSET Nat
    <3>1. due \intersect Preorders \in SUBSET seen
      BY DEF LoopInv, LoopTyped, Loop!TypeOK
    <3> QED
      BY <3>1, FS_Subset DEF LoopInv, LoopTyped, Loop!SweepsAssumption
  <2>3. todo' \in Seq(due \intersect Preorders) /\ Loop!Range(todo') \subseteq due \intersect Preorders
    BY <2>1, <2>2, Paged DEF Loop!DuePreorders, Loop!SweepsAssumption
  <2>4. todo' \in Seq(Nat)
    BY <2>2, <2>3
  <2> QED
    BY <2>1, <2>3, <2>4 DEF LoopInv, LoopTyped, ReachInv, Loop!TypeOK
<1>3. CASE Loop!Process \/ Loop!PreordersDone \/ Loop!CleanUp
  <2>1. /\ doing # "reconcile" /\ todo' = <<>>
        /\ doing' \in {"select", "cleanReplay", "cleanAccess", "cleanArchive"}
        /\ UNCHANGED <<due, seen, customers, outdated, ticked, offset, full, unvisited>>
        /\ litter' \subseteq litter
    BY <1>3 DEF Loop!Process, Loop!PreordersDone, Loop!CleanUp, Loop!Clean, Loop!Goto, Loop!Stay
  <2> QED
    BY <2>1, NothingListed DEF LoopInv, LoopTyped, ReachInv, Loop!TypeOK
<1>4. CASE Loop!Fail
  BY <1>4, NothingListed DEF Loop!Fail, Loop!Goto, LoopInv, LoopTyped, ReachInv, Loop!TypeOK
<1> QED
  BY <1>1, <1>2, <1>3, <1>4

LEMMA LoopInit == Loop!SweepsAssumption /\ Loop!Init => LoopInv
<1> SUFFICES ASSUME Loop!SweepsAssumption, Loop!Init PROVE LoopInv
  OBVIOUS
<1>1. IsFiniteSet(seen) /\ IsFiniteSet(customers)
  BY FS_EmptySet DEF Loop!Init
<1> QED
  BY <1>1, NothingListed DEF Loop!Init, LoopInv, LoopTyped, ReachInv, Loop!TypeOK

-----------------------------------------------------------------------------
(* The loop of a worker: theorems                                          *)

\* The invariant of the worker's loop.
THEOREM LoopInvariant == ASSUME Loop!SweepsAssumption PROVE Loop!Spec => []LoopInv
<1>1. Loop!Init => LoopInv
  BY LoopInit
<1>2. LoopInv /\ [Loop!Next]_(Loop!vars) => LoopInv'
  <2> SUFFICES ASSUME LoopInv, [Loop!Next]_(Loop!vars) PROVE LoopInv'
    OBVIOUS
  <2>1. CASE UNCHANGED Loop!vars
    BY <2>1 DEF Loop!vars, Loop!worker, LoopInv, LoopTyped, ReachInv, Ahead, Loop!TypeOK
  <2>2. CASE Loop!Next
    BY <2>2, SurroundingsKept, ChooseKept, NextPageKept, ReconcileKept, SweepKept DEF Loop!Next, Loop!Work
  <2> QED
    BY <2>1, <2>2
<1> QED
  BY <1>1, <1>2, PTL DEF Loop!Spec

\* ReconcileAll: at the end of its pages every customer from before them has been reached.
THEOREM AllReached == ASSUME Loop!SweepsAssumption PROVE Loop!Spec => [](Loop!TypeOK /\ Loop!NobodySkipped)
<1>1. LoopInv => Loop!TypeOK /\ Loop!NobodySkipped
  BY DEF LoopInv, LoopTyped, ReachInv, Loop!NobodySkipped
<1> QED
  BY <1>1, LoopInvariant, PTL

-----------------------------------------------------------------------------
(* Pages by cursor: the inductive invariant                                *)

Missing(i) == \A n \in 1 .. Len(listed) : listed[n] # i
Once(i) ==
  \E n \in 1 .. Len(listed) :
    listed[n] = i /\ \A m \in 1 .. Len(listed) : listed[m] = i => m = n

\* Of the rows that were there all along, those that are not before the cursor have been
\* listed, each once, and at the end of the walk all have been.
WalkedInv ==
  \A i \in stable : IF ended \/ ~ Pages!Before(i, cursor) THEN Once(i) ELSE Missing(i)
PagesInv == Pages!TypeOK /\ listed \in Seq(Rows) /\ WalkedInv

-----------------------------------------------------------------------------
(* Pages by cursor: the rows of a page                                     *)

LEMMA PagesCardinality == \A S : Pages!Cardinality(S) = Cardinality(S)
BY DEF Cardinality, Pages!Cardinality

LEMMA PagesFinite == \A S : Pages!IsFiniteSet(S) <=> IsFiniteSet(S)
BY DEF IsFiniteSet, Pages!IsFiniteSet

NewerOrder(S) == {p \in S \X S : Pages!Newer(p[1], p[2])}

LEMMA OrderedNewest ==
  ASSUME Pages!CursorsAssumption, created \in [Rows -> Nat], NEW S \in SUBSET Rows
  PROVE  /\ Pages!Ordered(S) \in Seq(S)
         /\ \A n \in 1 .. Len(Pages!Ordered(S)) : Pages!Ordered(S)[n] \in S
         /\ \A x \in S : \E n \in 1 .. Len(Pages!Ordered(S)) : Pages!Ordered(S)[n] = x
         /\ \A m, n \in 1 .. Len(Pages!Ordered(S)) :
              m < n => /\ Pages!Newer(Pages!Ordered(S)[m], Pages!Ordered(S)[n])
                       /\ Pages!Ordered(S)[m] # Pages!Ordered(S)[n]
<1> DEFINE R == NewerOrder(S)
           L == Pages!Ordered(S)
           k == Cardinality(S)
<1>1. IsFiniteSet(S) /\ k \in Nat
  BY PagesFinite, FS_Subset, FS_CardinalityType DEF Pages!CursorsAssumption
<1>2. \A x \in S : x \in Nat /\ created[x] \in Nat
  BY DEF Pages!CursorsAssumption
<1>3. Orders(R, S)
  BY <1>2 DEF Orders, NewerOrder, Pages!Newer
<1>4. ASSUME NEW x \in S
      PROVE  Pages!Cardinality({y \in S : Pages!Newer(y, x)}) = Place(S, R, x)
  <2>1. {y \in S : Pages!Newer(y, x)} = Under(S, R, x)
    BY DEF Under, NewerOrder
  <2> QED
    BY <2>1, PagesCardinality DEF Place
<1>5. ASSUME NEW n \in 1 .. k PROVE L[n] \in S /\ Place(S, R, L[n]) = n - 1
  <2>1. n - 1 \in 0 .. k - 1
    BY <1>1
  <2>2. PICK x \in S : Place(S, R, x) = n - 1
    BY <1>1, <1>3, <2>1, Taken
  <2>3. Pages!Cardinality({y \in S : Pages!Newer(y, x)}) = n - 1
    BY <1>4, <2>2
  <2>4. L[n] = CHOOSE i \in S : Pages!Cardinality({j \in S : Pages!Newer(j, i)}) = n - 1
    BY PagesCardinality DEF Pages!Ordered
  <2>5. L[n] \in S /\ Pages!Cardinality({y \in S : Pages!Newer(y, L[n])}) = n - 1
    BY <2>3, <2>4
  <2> QED
    BY <1>4, <2>5
<1>6. IsList(L, S, R)
  <2>1. L \in [1 .. k -> S]
    BY <1>5, PagesCardinality DEF Pages!Ordered
  <2>2. L \in Seq(S) /\ Len(L) = k
    BY <1>1, <2>1, FunctionSeq
  <2> QED
    BY <1>5, <2>2 DEF IsList
<1> HIDE DEF R, L
<1>7. ASSUME NEW x \in S PROVE \E n \in 1 .. Len(L) : L[n] = x
  BY <1>1, <1>3, <1>6, Everyone
<1>8. ASSUME NEW m \in 1 .. Len(L), NEW n \in 1 .. Len(L), m < n
      PROVE  Pages!Newer(L[m], L[n]) /\ L[m] # L[n]
  <2>1. <<L[m], L[n]>> \in R /\ L[m] # L[n]
    BY <1>1, <1>3, <1>6, <1>8, InOrder
  <2> QED
    BY <2>1 DEF R, NewerOrder
<1>9. L \in Seq(S) /\ \A n \in 1 .. Len(L) : L[n] \in S
  BY <1>6 DEF IsList
<1> QED
  BY <1>7, <1>8, <1>9 DEF L

\* A page is the beginning of the list, up to the limit, and the cursor the place of its end.
LEMMA PageRows ==
  ASSUME Pages!CursorsAssumption, PagesInv, NEW limit \in Limits, Pages!Page(limit),
         NEW all, all = Pages!Ordered({i \in Pages!Present : Pages!Before(i, cursor)})
  PROVE  /\ all \in Seq(Rows) /\ page' \in Seq(Rows) /\ Len(page') <= limit
         /\ Len(page') = IF Len(all) > limit THEN limit ELSE Len(all)
         /\ \A n \in 1 .. Len(page') : page'[n] = all[n]
         /\ ended' = (Len(all) <= limit)
         /\ cursor' = IF Len(all) > limit THEN Pages!Position(all[limit]) ELSE cursor
<1> DEFINE m == IF Len(all) < limit + 1 THEN Len(all) ELSE limit + 1
           rows == SubSeq(all, 1, m)
           p == IF Len(rows) > limit THEN limit ELSE Len(rows)
<1>1. limit \in Nat \ {0} /\ created \in [Rows -> Nat]
  BY DEF Pages!CursorsAssumption, PagesInv, Pages!TypeOK
<1>2. all \in Seq(Rows)
  <2> DEFINE S == {i \in Pages!Present : Pages!Before(i, cursor)}
  <2>1. S \in SUBSET Rows
    BY DEF Pages!Present
  <2> HIDE DEF S
  <2>2. all \in Seq(S)
    BY <1>1, <2>1, OrderedNewest DEF S
  <2> QED
    BY <2>1, <2>2, SeqMonotonic
<1>3. Len(all) \in Nat /\ m \in 0 .. Len(all) /\ m \in 0 .. limit + 1
  BY <1>1, <1>2
<1>4. /\ rows \in Seq(Rows) /\ Len(rows) = m
      /\ \A n \in 1 .. m : rows[n] = all[n]
  BY <1>2, <1>3, Beginning
<1>5. rows = Pages!ListSavedBusinesses(cursor, limit + 1)
  BY DEF Pages!ListSavedBusinesses
<1>6. /\ page' = SubSeq(rows, 1, p) /\ ended' = ~ (Len(rows) > limit)
      /\ cursor' = IF Len(rows) > limit THEN Pages!Position(rows[limit]) ELSE cursor
  BY <1>5 DEF Pages!Page
<1> HIDE DEF rows
<1>7. p \in 0 .. m /\ p <= limit /\ (Len(rows) > limit <=> Len(all) > limit)
      /\ p = IF Len(all) > limit THEN limit ELSE Len(all)
  BY <1>1, <1>3, <1>4
<1> HIDE DEF p, m
<1>8. /\ page' \in Seq(Rows) /\ Len(page') = p
      /\ \A n \in 1 .. p : page'[n] = rows[n]
  BY <1>4, <1>6, <1>7, Beginning
<1>9. \A n \in 1 .. p : page'[n] = all[n]
  BY <1>3, <1>4, <1>7, <1>8
<1>10. ended' = (Len(all) <= limit)
  BY <1>1, <1>3, <1>6, <1>7
<1>11. cursor' = IF Len(all) > limit THEN Pages!Position(all[limit]) ELSE cursor
  <2>1. Len(all) > limit => rows[limit] = all[limit]
    BY <1>1, <1>3, <1>4, <1>7
  <2> QED
    BY <1>6, <1>7, <2>1
<1> QED
  BY <1>2, <1>7, <1>8, <1>9, <1>10, <1>11

\* What an element is of two sequences, one after the other.
LEMMA Joined ==
  ASSUME NEW S, NEW s \in Seq(S), NEW t \in Seq(S)
  PROVE  /\ s \o t \in Seq(S) /\ Len(s \o t) = Len(s) + Len(t)
         /\ Len(s) \in Nat /\ Len(t) \in Nat
         /\ \A n \in 1 .. Len(s) : (s \o t)[n] = s[n]
         /\ \A n \in 1 .. Len(t) : (s \o t)[Len(s) + n] = t[n]
         /\ \A n \in 1 .. Len(s \o t) : n > Len(s) => (s \o t)[n] = t[n - Len(s)]
OBVIOUS

LEMMA Adding ==
  ASSUME listed \in Seq(Rows), page' \in Seq(Rows), listed' = listed \o page', NEW i
  PROVE  /\ Once(i) /\ (\A n \in 1 .. Len(page') : page'[n] # i) => Once(i)'
         /\ Missing(i) /\ (\A n \in 1 .. Len(page') : page'[n] # i) => Missing(i)'
         /\ \A n \in 1 .. Len(page') :
              /\ Missing(i) /\ page'[n] = i
              /\ \A m \in 1 .. Len(page') : page'[m] = i => m = n
              => Once(i)'
<1>0. /\ Len(listed') = Len(listed) + Len(page') /\ Len(listed) \in Nat /\ Len(page') \in Nat
      /\ \A n \in 1 .. Len(listed) : listed'[n] = listed[n]
      /\ \A n \in 1 .. Len(page') : listed'[Len(listed) + n] = page'[n]
      /\ \A n \in 1 .. Len(listed') : n > Len(listed) => listed'[n] = page'[n - Len(listed)]
  BY Joined
<1>1. ASSUME NEW n \in 1 .. Len(listed')
      PROVE  n \in 1 .. Len(listed) \/ (n > Len(listed) /\ n - Len(listed) \in 1 .. Len(page'))
  BY <1>0
<1>2. ASSUME Missing(i), \A n \in 1 .. Len(page') : page'[n] # i PROVE Missing(i)'
  BY <1>0, <1>1, <1>2 DEF Missing
<1>3. ASSUME Once(i), \A n \in 1 .. Len(page') : page'[n] # i PROVE Once(i)'
  <2>1. PICK n \in 1 .. Len(listed) :
          listed[n] = i /\ \A m \in 1 .. Len(listed) : listed[m] = i => m = n
    BY <1>3 DEF Once
  <2>2. n \in 1 .. Len(listed') /\ listed'[n] = i
    BY <1>0, <2>1
  <2>3. \A m \in 1 .. Len(listed') : listed'[m] = i => m = n
    BY <1>0, <1>1, <1>3, <2>1
  <2> QED
    BY <2>2, <2>3 DEF Once
<1>4. ASSUME Missing(i), NEW n \in 1 .. Len(page'), page'[n] = i,
             \A m \in 1 .. Len(page') : page'[m] = i => m = n
      PROVE  Once(i)'
  <2>1. Len(listed) + n \in 1 .. Len(listed') /\ listed'[Len(listed) + n] = i
    BY <1>0, <1>4
  <2>2. ASSUME NEW m \in 1 .. Len(listed'), listed'[m] = i PROVE m = Len(listed) + n
    <3>1. m > Len(listed) /\ m - Len(listed) \in 1 .. Len(page')
      BY <1>0, <1>1, <1>4, <2>2 DEF Missing
    <3>2. m - Len(listed) = n
      BY <1>0, <1>4, <2>2, <3>1
    <3> QED
      BY <1>0, <3>1, <3>2
  <2> QED
    BY <2>1, <2>2 DEF Once
<1> QED
  BY <1>2, <1>3, <1>4

LEMMA PageKept ==
  ASSUME Pages!CursorsAssumption, PagesInv, NEW limit \in Limits, Pages!Page(limit)
  PROVE  PagesInv'
<1> DEFINE S == {i \in Pages!Present : Pages!Before(i, cursor)}
           all == Pages!Ordered(S)
<1>1. /\ ~ ended /\ listed' = listed \o page' /\ UNCHANGED <<now, created, stable>>
      /\ limit \in Nat \ {0} /\ created \in [Rows -> 0 .. MaxTime] /\ stable \subseteq Pages!Present
      /\ listed \in Seq(Rows) /\ Rows \subseteq Nat \ {0} /\ MaxTime \in Nat
  BY DEF Pages!Page, PagesInv, Pages!TypeOK, Pages!CursorsAssumption
<1>2. /\ \A i \in Pages!Present : i \in Rows /\ i \in Nat \ {0} /\ created[i] \in 1 .. MaxTime
      /\ S \subseteq Pages!Present /\ S \in SUBSET Rows
  BY <1>1 DEF Pages!Present, Pages!Absent
<1>3. created \in [Rows -> Nat]
  BY <1>1
<1>4. /\ \A n \in 1 .. Len(all) : all[n] \in S
      /\ \A x \in S : \E n \in 1 .. Len(all) : all[n] = x
      /\ \A m, n \in 1 .. Len(all) : m < n => Pages!Newer(all[m], all[n]) /\ all[m] # all[n]
  BY <1>2, <1>3, OrderedNewest
<1>5. /\ all \in Seq(Rows) /\ page' \in Seq(Rows) /\ Len(page') <= limit
      /\ Len(page') = IF Len(all) > limit THEN limit ELSE Len(all)
      /\ \A n \in 1 .. Len(page') : page'[n] = all[n]
      /\ ended' = (Len(all) <= limit)
      /\ cursor' = IF Len(all) > limit THEN Pages!Position(all[limit]) ELSE cursor
  BY PageRows
<1>6. \A x : x \in S <=> x \in Pages!Present /\ Pages!Before(x, cursor)
  OBVIOUS
<1> HIDE DEF S, all
<1>7. Len(all) \in Nat
  BY <1>5
<1>8. cursor = Pages!Start \/ cursor \in [at: 1 .. MaxTime, id: Rows]
  BY DEF PagesInv, Pages!TypeOK
<1>9. CASE Len(all) > limit
  <2>0. limit \in 1 .. Len(all) /\ Len(page') = limit /\ ~ ended'
    <3>1. limit \in 1 .. Len(all) /\ Len(page') = limit /\ ~ (Len(all) <= limit)
      BY <1>1, <1>5, <1>7, <1>9
    <3> QED
      BY <1>5, <3>1
  <2> DEFINE e == all[limit]
  <2>1. e \in S /\ e \in Pages!Present
    BY <1>2, <1>4, <2>0
  <2>2. cursor' = [at |-> created[e], id |-> e]
    BY <1>5, <1>9 DEF Pages!Position
  <2> HIDE DEF e
  <2>3. e \in Rows /\ e \in Nat \ {0} /\ created[e] \in 1 .. MaxTime
    BY <1>2, <2>1
  <2>4. cursor'.at = created[e] /\ cursor'.id = e /\ cursor' # Pages!Start
    BY <2>2, <2>3 DEF Pages!Start
  <2>5. ASSUME NEW i \in stable
        PROVE  IF Pages!Before(i, cursor') THEN Missing(i)' ELSE Once(i)'
    <3>1. i \in Pages!Present /\ i \in Rows /\ i \in Nat \ {0} /\ created[i] \in 1 .. MaxTime
      BY <1>1, <1>2
    <3>2. Pages!Before(i, cursor') <=> Pages!Newer(e, i)
      BY <2>3, <2>4, <3>1 DEF Pages!Before, Pages!Newer
    <3>3. CASE ~ Pages!Before(i, cursor)
      <4>1. i \notin S /\ Once(i)
        BY <1>1, <1>6, <3>3 DEF PagesInv, WalkedInv
      <4>2. \A n \in 1 .. Len(page') : page'[n] # i
        BY <1>4, <1>5, <1>7, <4>1, <2>0
      <4>3. Once(i)'
        BY <1>1, <1>5, <4>1, <4>2, Adding
      <4>4. cursor # Pages!Start /\ cursor.at \in 1 .. MaxTime /\ cursor.id \in Rows
        BY <1>8, <3>3 DEF Pages!Before
      <4>5. ~ Pages!Newer(e, i)
        <5>1. created[e] < cursor.at \/ (created[e] = cursor.at /\ e < cursor.id)
          BY <1>6, <2>1, <4>4 DEF Pages!Before
        <5>2. ~ (created[i] < cursor.at) /\ ~ (created[i] = cursor.at /\ i < cursor.id)
          BY <3>3 DEF Pages!Before
        <5>3. cursor.id \in Nat
          BY <1>1, <4>4
        <5> QED
          BY <2>3, <3>1, <4>4, <5>1, <5>2, <5>3 DEF Pages!Newer
      <4> QED
        BY <3>2, <4>3, <4>5
    <3>4. CASE Pages!Before(i, cursor)
      <4>1. i \in S /\ Missing(i)
        BY <1>1, <1>6, <3>1, <3>4 DEF PagesInv, WalkedInv
      <4>2. PICK n \in 1 .. Len(all) : all[n] = i
        BY <1>4, <4>1
      <4>3. \A m \in 1 .. Len(all) : all[m] = i => m = n
        BY <1>4, <1>7, <4>2
      <4>4. CASE n <= limit
        <5>1. n \in 1 .. Len(page') /\ page'[n] = i
          BY <1>5, <1>7, <2>0, <4>2, <4>4
        <5>2. \A m \in 1 .. Len(page') : page'[m] = i => m = n
          BY <1>5, <1>7, <2>0, <4>3
        <5>3. Once(i)'
          BY <1>1, <1>5, <4>1, <5>1, <5>2, Adding
        <5>4. i = e \/ Pages!Newer(i, e)
          BY <1>4, <1>7, <2>0, <4>2, <4>4 DEF e
        <5>5. ~ Pages!Newer(e, i)
          BY <2>3, <3>1, <5>4 DEF Pages!Newer
        <5> QED
          BY <3>2, <5>3, <5>5
      <4>5. CASE n > limit
        <5>1. Pages!Newer(e, i)
          BY <1>4, <1>7, <2>0, <4>2, <4>5 DEF e
        <5>2. \A m \in 1 .. Len(page') : page'[m] # i
          BY <1>5, <1>7, <2>0, <4>2, <4>3, <4>5
        <5>3. Missing(i)'
          BY <1>1, <1>5, <4>1, <5>2, Adding
        <5> QED
          BY <3>2, <5>1, <5>3
      <4> QED
        BY <1>1, <1>7, <4>4, <4>5
    <3> QED
      BY <3>3, <3>4
  <2>6. WalkedInv'
    <3>1. ASSUME NEW i \in stable PROVE Pages!Before(i, cursor)' <=> Pages!Before(i, cursor')
      BY <1>1 DEF Pages!Before
    <3> QED
      BY <1>1, <2>0, <2>5, <3>1 DEF WalkedInv
  <2>7. cursor' \in [at: 1 .. MaxTime, id: Rows]
    BY <2>2, <2>3
  <2>8. listed' \in Seq(Rows) /\ Pages!TypeOK'
    BY <1>1, <1>5, <2>7, Joined DEF PagesInv, Pages!TypeOK, Pages!Present
  <2> QED
    BY <2>6, <2>8 DEF PagesInv
<1>10. CASE ~ (Len(all) > limit)
  <2>1. ended' = TRUE /\ cursor' = cursor /\ Len(page') = Len(all)
    BY <1>1, <1>5, <1>7, <1>10
  <2>2. ASSUME NEW i \in stable PROVE Once(i)'
    <3>1. i \in Pages!Present
      BY <1>1
    <3>2. CASE Pages!Before(i, cursor)
      <4>1. i \in S /\ Missing(i)
        BY <1>1, <1>6, <3>1, <3>2 DEF PagesInv, WalkedInv
      <4>2. PICK n \in 1 .. Len(all) : all[n] = i
        BY <1>4, <4>1
      <4>3. n \in 1 .. Len(page') /\ page'[n] = i
        BY <1>5, <2>1, <4>2
      <4>4. \A m \in 1 .. Len(page') : page'[m] = i => m = n
        BY <1>4, <1>5, <1>7, <2>1, <4>2
      <4> QED
        BY <1>1, <1>5, <4>1, <4>3, <4>4, Adding
    <3>3. CASE ~ Pages!Before(i, cursor)
      <4>1. i \notin S /\ Once(i)
        BY <1>1, <1>6, <3>3 DEF PagesInv, WalkedInv
      <4>2. \A n \in 1 .. Len(page') : page'[n] # i
        BY <1>4, <1>5, <2>1, <4>1
      <4> QED
        BY <1>1, <1>5, <4>1, <4>2, Adding
    <3> QED
      BY <3>2, <3>3
  <2>3. WalkedInv'
    BY <1>1, <2>1, <2>2 DEF WalkedInv
  <2>4. listed' \in Seq(Rows) /\ Pages!TypeOK'
    BY <1>1, <1>5, <2>1, Joined DEF PagesInv, Pages!TypeOK, Pages!Present
  <2> QED
    BY <2>3, <2>4 DEF PagesInv
<1> QED
  BY <1>9, <1>10

LEMMA AgainKept ==
  ASSUME PagesInv, Pages!Again
  PROVE  PagesInv'
<1>1. /\ cursor' = Pages!Start /\ page' = <<>> /\ listed' = <<>> /\ ended' = FALSE
      /\ stable' = Pages!Present /\ UNCHANGED <<now, created>>
  BY DEF Pages!Again
<1>2. Pages!TypeOK' /\ listed' \in Seq(Rows)
  BY <1>1 DEF PagesInv, Pages!TypeOK, Pages!Present
<1>3. WalkedInv'
  BY <1>1 DEF WalkedInv, Missing, Pages!Before
<1> QED
  BY <1>2, <1>3 DEF PagesInv

\* A row that is saved was not there, or keeps its time; one that is removed is not stable.
LEMMA RowsChange ==
  ASSUME PagesInv, created' \in [Rows -> 0 .. MaxTime],
         now' \in 1 .. MaxTime, UNCHANGED <<cursor, page, listed, ended>>,
         stable' \subseteq stable, \A i \in stable' : created'[i] = created[i]
  PROVE  PagesInv'
<1>1. \A i \in stable' : i \in Rows /\ created'[i] # Pages!Absent
  BY DEF PagesInv, Pages!TypeOK, Pages!Present
<1>2. Pages!TypeOK' /\ listed' \in Seq(Rows)
  BY <1>1 DEF PagesInv, Pages!TypeOK, Pages!Present
<1>3. \A i \in stable' : Pages!Before(i, cursor)' <=> Pages!Before(i, cursor)
  BY DEF Pages!Before
<1>4. \A i : (Once(i)' <=> Once(i)) /\ (Missing(i)' <=> Missing(i))
  BY DEF Once, Missing
<1>5. WalkedInv'
  BY <1>3, <1>4 DEF PagesInv, WalkedInv
<1> QED
  BY <1>2, <1>5 DEF PagesInv

LEMMA RowsKept ==
  ASSUME Pages!CursorsAssumption, PagesInv,
         \/ \E i \in Rows : Pages!SaveBusiness(i) \/ Pages!SaveLate(i) \/ Pages!RemoveSavedBusiness(i)
         \/ Pages!Tick
  PROVE  PagesInv'
<1> USE DEF Pages!Absent
<1>1. /\ now \in 1 .. MaxTime /\ MaxTime \in Nat /\ created \in [Rows -> 0 .. MaxTime]
      /\ \A i \in stable : i \in Rows /\ created[i] # 0
  BY DEF PagesInv, Pages!TypeOK, Pages!Present, Pages!CursorsAssumption
<1>2. ASSUME NEW i \in Rows, Pages!SaveBusiness(i) PROVE PagesInv'
  <2>1. created' \in [Rows -> 0 .. MaxTime] /\ now' \in 1 .. MaxTime
    BY <1>1, <1>2 DEF Pages!SaveBusiness
  <2>2. \A j \in stable : created'[j] = created[j]
    BY <1>1, <1>2 DEF Pages!SaveBusiness
  <2> QED
    BY <1>2, <2>1, <2>2, RowsChange DEF Pages!SaveBusiness
<1>3. ASSUME NEW i \in Rows, Pages!SaveLate(i) PROVE PagesInv'
  <2>1. created' \in [Rows -> 0 .. MaxTime] /\ now' \in 1 .. MaxTime
    BY <1>1, <1>3 DEF Pages!SaveLate
  <2>2. \A j \in stable : created'[j] = created[j]
    BY <1>1, <1>3 DEF Pages!SaveLate
  <2> QED
    BY <1>3, <2>1, <2>2, RowsChange DEF Pages!SaveLate
<1>4. ASSUME NEW i \in Rows, Pages!RemoveSavedBusiness(i) PROVE PagesInv'
  <2>1. created' \in [Rows -> 0 .. MaxTime] /\ now' \in 1 .. MaxTime
    BY <1>1, <1>4 DEF Pages!RemoveSavedBusiness
  <2>2. \A j \in stable \ {i} : created'[j] = created[j]
    BY <1>1, <1>4 DEF Pages!RemoveSavedBusiness
  <2> QED
    BY <1>4, <2>1, <2>2, RowsChange DEF Pages!RemoveSavedBusiness
<1>5. ASSUME Pages!Tick PROVE PagesInv'
  <2>1. created' \in [Rows -> 0 .. MaxTime] /\ now' \in 1 .. MaxTime
    BY <1>1, <1>5 DEF Pages!Tick
  <2> QED
    BY <1>5, <2>1, RowsChange DEF Pages!Tick
<1> QED
  BY <1>2, <1>3, <1>4, <1>5

LEMMA PagesInit ==
  ASSUME Pages!CursorsAssumption, Pages!Init
  PROVE  PagesInv
<1>1. Pages!TypeOK /\ listed \in Seq(Rows)
  BY DEF Pages!Init, Pages!TypeOK, Pages!CursorsAssumption, Pages!Absent, Pages!Present
<1>2. WalkedInv
  BY DEF Pages!Init, WalkedInv, Missing, Pages!Before
<1> QED
  BY <1>1, <1>2 DEF PagesInv

-----------------------------------------------------------------------------
(* Pages by cursor: theorems                                               *)

\* The invariant of a walk by cursor.
THEOREM PagesInvariant == ASSUME Pages!CursorsAssumption PROVE Pages!Spec => []PagesInv
<1>1. Pages!Init => PagesInv
  BY PagesInit
<1>2. PagesInv /\ [Pages!Next]_(Pages!vars) => PagesInv'
  <2> SUFFICES ASSUME PagesInv, [Pages!Next]_(Pages!vars) PROVE PagesInv'
    OBVIOUS
  <2>1. CASE UNCHANGED Pages!vars
    <3>1. \A i : (Once(i)' <=> Once(i)) /\ (Missing(i)' <=> Missing(i))
      BY <2>1 DEF Once, Missing, Pages!vars
    <3> QED
      BY <2>1, <3>1 DEF Pages!vars, PagesInv, Pages!TypeOK, Pages!Present, WalkedInv, Pages!Before
  <2>2. CASE Pages!Next
    BY <2>2, PageKept, AgainKept, RowsKept DEF Pages!Next
  <2> QED
    BY <2>1, <2>2
<1> QED
  BY <1>1, <1>2, PTL DEF Pages!Spec

LEMMA TimesListed ==
  ASSUME listed \in Seq(Rows), NEW i
  PROVE  /\ Once(i) => Pages!Times(i) = 1
         /\ Missing(i) => Pages!Times(i) = 0
<1> DEFINE T == {n \in DOMAIN listed : listed[n] = i}
<1>1. DOMAIN listed = 1 .. Len(listed)
  OBVIOUS
<1>2. Pages!Times(i) = Cardinality(T)
  BY PagesCardinality DEF Pages!Times
<1>3. ASSUME Once(i) PROVE Cardinality(T) = 1
  <2>1. PICK n \in 1 .. Len(listed) : T = {n}
    BY <1>1, <1>3 DEF Once
  <2> QED
    BY <2>1, FS_Singleton
<1>4. ASSUME Missing(i) PROVE Cardinality(T) = 0
  <2>1. T = {}
    BY <1>1, <1>4 DEF Missing
  <2> QED
    BY <2>1, FS_EmptySet
<1> QED
  BY <1>2, <1>3, <1>4

\* list, with a cursor: every row that stays is shown once by the end, and never twice.
THEOREM ShownOnce ==
  ASSUME Pages!CursorsAssumption PROVE Pages!Spec => [](Pages!TypeOK /\ Pages!StableListedOnce)
<1>1. PagesInv => Pages!TypeOK /\ Pages!StableListedOnce
  <2> SUFFICES ASSUME PagesInv, NEW i \in stable
               PROVE  Pages!TypeOK /\ Pages!Times(i) <= 1 /\ (ended => Pages!Times(i) = 1)
    BY DEF Pages!StableListedOnce, PagesInv
  <2>1. IF ended \/ ~ Pages!Before(i, cursor) THEN Once(i) ELSE Missing(i)
    BY DEF PagesInv, WalkedInv
  <2> QED
    BY <2>1, TimesListed DEF PagesInv
<1> QED
  BY <1>1, PagesInvariant, PTL

-----------------------------------------------------------------------------
(* Exports: the list of a period                                           *)

LEMMA CsvCardinality == \A S : Csv!Cardinality(S) = Cardinality(S)
BY DEF Cardinality, Csv!Cardinality

LEMMA CsvFinite == \A S : Csv!IsFiniteSet(S) <=> IsFiniteSet(S)
BY DEF IsFiniteSet, Csv!IsFiniteSet

Starts == [Requests -> 0 .. PeriodEnd]
Period(s) == {i \in Requests : Csv!InPeriod(s, i)}
StartOrder(s) == {p \in Period(s) \X Period(s) : Csv!Earlier(s, p[1], p[2])}
Row(s, i) == Place(Period(s), StartOrder(s), i)    \* rows before i in the list

LEMMA PeriodOrdered ==
  ASSUME Csv!ExportAssumption, NEW s \in Starts
  PROVE  /\ IsFiniteSet(Period(s)) /\ Cardinality(Period(s)) \in 0 .. Cardinality(Requests)
         /\ Orders(StartOrder(s), Period(s))
<1>1. Requests \subseteq Nat /\ IsFiniteSet(Requests) /\ Period(s) \in SUBSET Requests
  BY CsvFinite DEF Csv!ExportAssumption, Period
<1>2. IsFiniteSet(Period(s)) /\ Cardinality(Period(s)) <= Cardinality(Requests)
  BY <1>1, FS_Subset
<1>3. Cardinality(Period(s)) \in Nat /\ Cardinality(Requests) \in Nat
  BY <1>1, <1>2, FS_CardinalityType
<1>4. ASSUME NEW x \in Period(s) PROVE x \in Nat /\ s[x] \in Nat
  <2>1. x \in Requests /\ PeriodEnd \in Nat
    BY <1>1 DEF Csv!ExportAssumption
  <2> QED
    BY <1>1, <2>1 DEF Starts
<1>5. Orders(StartOrder(s), Period(s))
  BY <1>4 DEF Orders, StartOrder, Csv!Earlier
<1> QED
  BY <1>2, <1>3, <1>5

LEMMA SortedPeriod ==
  ASSUME Csv!ExportAssumption, NEW s \in Starts
  PROVE  IsList(Csv!Sorted(s), Period(s), StartOrder(s))
<1> DEFINE S == Period(s)
           R == StartOrder(s)
           L == Csv!Sorted(s)
           k == Cardinality(S)
<1>1. IsFiniteSet(S) /\ k \in Nat /\ Orders(R, S)
  BY PeriodOrdered, FS_CardinalityType
<1>2. ASSUME NEW x \in S
      PROVE  Csv!Cardinality({y \in S : Csv!Earlier(s, y, x)}) = Place(S, R, x)
  <2>1. {y \in S : Csv!Earlier(s, y, x)} = Under(S, R, x)
    BY DEF Under, StartOrder
  <2> QED
    BY <2>1, CsvCardinality DEF Place
<1>3. L = [n \in 1 .. k |-> CHOOSE i \in S : Csv!Cardinality({j \in S : Csv!Earlier(s, j, i)}) = n - 1]
  BY CsvCardinality DEF Csv!Sorted, Period
<1>4. ASSUME NEW n \in 1 .. k PROVE L[n] \in S /\ Place(S, R, L[n]) = n - 1
  <2>1. n - 1 \in 0 .. k - 1
    BY <1>1
  <2>2. PICK x \in S : Place(S, R, x) = n - 1
    BY <1>1, <2>1, Taken
  <2>3. Csv!Cardinality({y \in S : Csv!Earlier(s, y, x)}) = n - 1
    BY <1>2, <2>2
  <2>4. L[n] = CHOOSE i \in S : Csv!Cardinality({j \in S : Csv!Earlier(s, j, i)}) = n - 1
    BY <1>3
  <2>5. L[n] \in S /\ Csv!Cardinality({y \in S : Csv!Earlier(s, y, L[n])}) = n - 1
    BY <2>3, <2>4
  <2> QED
    BY <1>2, <2>5
<1>5. L \in [1 .. k -> S]
  BY <1>3, <1>4
<1>6. L \in Seq(S) /\ Len(L) = k
  BY <1>1, <1>5, FunctionSeq
<1> QED
  BY <1>4, <1>6 DEF IsList

LEMMA SortedRows ==
  ASSUME Csv!ExportAssumption, NEW s \in Starts
  PROVE  /\ Csv!Sorted(s) \in Seq(Requests) /\ Len(Csv!Sorted(s)) = Cardinality(Period(s))
         /\ Len(Csv!Sorted(s)) \in Nat
         /\ Csv!ToSet(Csv!Sorted(s)) = Period(s)
         /\ \A x \in Period(s) : Row(s, x) + 1 \in 1 .. Len(Csv!Sorted(s)) /\ Csv!Sorted(s)[Row(s, x) + 1] = x
<1> DEFINE L == Csv!Sorted(s)
<1>1. IsList(L, Period(s), StartOrder(s))
  BY SortedPeriod
<1>2. IsFiniteSet(Period(s)) /\ Orders(StartOrder(s), Period(s))
  BY PeriodOrdered
<1> HIDE DEF L
<1>3. ASSUME NEW x \in Period(s) PROVE Row(s, x) + 1 \in 1 .. Len(L) /\ L[Row(s, x) + 1] = x
  BY <1>1, <1>2, Everyone DEF Row
<1>4. /\ L \in Seq(Period(s)) /\ Len(L) = Cardinality(Period(s))
      /\ \A n \in 1 .. Len(L) : L[n] \in Period(s)
  BY <1>1 DEF IsList
<1>5. L \in Seq(Requests) /\ DOMAIN L = 1 .. Len(L) /\ Len(L) \in Nat
  BY <1>4, SeqMonotonic, LenProperties DEF Period
<1>6. Csv!ToSet(L) = Period(s)
  <2>1. \A n \in DOMAIN L : L[n] \in Period(s)
    BY <1>4, <1>5
  <2>2. ASSUME NEW x \in Period(s) PROVE \E n \in DOMAIN L : L[n] = x
    BY <1>3, <1>5
  <2> QED
    BY <2>1, <2>2 DEF Csv!ToSet
<1> QED
  BY <1>3, <1>4, <1>5, <1>6 DEF L

-----------------------------------------------------------------------------
(* Exports: the inductive invariant                                        *)

CsvTyped ==
  /\ starts \in Starts /\ total \in 0 .. Cardinality(Requests)
  /\ at \in {"list", "count", "next", "done", "refused"}
  /\ skipped \in Nat /\ skipped \in {n * ExportPage : n \in 0 .. skipped}
  /\ skipped = 0 \/ skipped < Cap
  /\ out \in Seq(Requests) /\ first \in Seq(Requests) /\ added \in Nat /\ moved \in Nat
  /\ Len(out) <= IF at = "list" THEN skipped ELSE skipped + ExportPage

\* Requests that are made push others down, past none that is still to come: a row that is
\* not written is after those that were skipped, and the count knows of it.
Coming(x) ==
  \/ at = "refused"
  \/ at = "list" /\ Row(starts, x) >= skipped
  \/ at = "count" /\ Row(starts, x) >= skipped + ExportPage
  \/ at = "next" /\ Row(starts, x) >= skipped + ExportPage /\ total > skipped + ExportPage
ComingInv ==
  moved = 0 => \A x \in Csv!ToSet(first) : x \in Period(starts) /\ (x \in Csv!ToSet(out) \/ Coming(x))

\* While nothing changes, what is written is the beginning of the list.
Written == IF skipped + ExportPage < Len(first) THEN skipped + ExportPage ELSE Len(first)
StillInv ==
  added + moved = 0 =>
    /\ first = Csv!Sorted(starts)
    /\ at = "list" => skipped <= Len(first) /\ out = SubSeq(first, 1, skipped)
    /\ at \in {"count", "next"} => skipped <= Len(first) /\ out = SubSeq(first, 1, Written)
    /\ at = "next" => total = Len(first)
    /\ at = "done" => out = first
CsvInv == CsvTyped /\ ComingInv /\ StillInv

-----------------------------------------------------------------------------
(* Exports: the steps keep the invariant                                   *)

LEMMA CsvConstants ==
  ASSUME Csv!ExportAssumption
  PROVE  ExportPage \in Nat \ {0} /\ Cap \in Nat \ {0} /\ PeriodEnd \in Nat /\ Cardinality(Requests) \in Nat
BY CsvFinite, FS_CardinalityType DEF Csv!ExportAssumption

LEMMA ListRecordsKept ==
  ASSUME Csv!ExportAssumption, CsvInv, Csv!ListRecords
  PROVE  CsvInv'
<1> DEFINE all == Csv!Sorted(starts)
           last == IF Len(all) < skipped + ExportPage THEN Len(all) ELSE skipped + ExportPage
           rows == SubSeq(all, skipped + 1, last)
<1>1. /\ at = "list" /\ at' = "count" /\ out' = out \o rows
      /\ UNCHANGED <<starts, skipped, total, first, added, moved>>
  BY DEF Csv!ListRecords
<1>2. /\ starts \in Starts /\ skipped \in Nat /\ out \in Seq(Requests) /\ first \in Seq(Requests)
      /\ Len(out) <= skipped /\ added \in Nat /\ moved \in Nat
  BY <1>1 DEF CsvInv, CsvTyped
<1>3. /\ all \in Seq(Requests) /\ Len(all) \in Nat
      /\ \A x \in Period(starts) : Row(starts, x) + 1 \in 1 .. Len(all) /\ all[Row(starts, x) + 1] = x
  BY <1>2, SortedRows
<1> HIDE DEF all
<1>4. ExportPage \in Nat \ {0}
  BY CsvConstants
<1>5. last \in Int /\ last <= Len(all) /\ last <= skipped + ExportPage
      /\ (skipped <= Len(all) => last >= skipped)
  BY <1>2, <1>3, <1>4
<1>6. /\ rows \in Seq(Requests) /\ Len(rows) \in Nat
      /\ Len(rows) = IF skipped + 1 <= last THEN last - skipped ELSE 0
      /\ \A n \in 1 .. last - skipped : rows[n] = all[skipped + n]
  <2>1. \A i \in skipped + 1 .. last : all[i] \in Requests
    <3>1. \A i \in skipped + 1 .. last : i \in 1 .. Len(all)
      BY <1>2, <1>3, <1>5
    <3> QED
      BY <1>3, <3>1, ElementOfSeq
  <2> HIDE DEF last
  <2>2. skipped + 1 \in Int /\ last \in Int
    BY <1>2, <1>5
  <2>3. /\ rows \in Seq(Requests)
        /\ Len(rows) = IF skipped + 1 <= last THEN last - (skipped + 1) + 1 ELSE 0
        /\ \A n \in 1 .. last - (skipped + 1) + 1 : rows[n] = all[skipped + 1 + n - 1]
    BY <2>1, <2>2, SubSeqProperties
  <2>4. last - (skipped + 1) + 1 = last - skipped /\ \A n \in 1 .. last - skipped : skipped + 1 + n - 1 = skipped + n
    BY <1>2, <1>5
  <2>5. Len(rows) = IF skipped + 1 <= last THEN last - skipped ELSE 0
    BY <2>3, <2>4
  <2>6. \A n \in 1 .. last - skipped : rows[n] = all[skipped + n]
    BY <2>3, <2>4
  <2> QED
    BY <2>3, <2>5, <2>6, LenProperties
<1> HIDE DEF rows, last
<1>7. /\ out' \in Seq(Requests) /\ Len(out') = Len(out) + Len(rows) /\ Len(out) \in Nat
      /\ \A n \in 1 .. Len(out) : out'[n] = out[n]
      /\ \A n \in 1 .. Len(rows) : out'[Len(out) + n] = rows[n]
  BY <1>1, <1>2, <1>6, Joined
<1>8. CsvTyped'
  <2>1. Len(out') <= skipped + ExportPage
    BY <1>2, <1>4, <1>5, <1>6, <1>7
  <2> QED
    BY <1>1, <1>7, <2>1 DEF CsvInv, CsvTyped
<1>9. ComingInv'
  <2> SUFFICES ASSUME moved = 0, NEW x \in Csv!ToSet(first)
               PROVE  x \in Period(starts) /\ (x \in Csv!ToSet(out') \/ Row(starts, x) >= skipped + ExportPage)
    BY <1>1 DEF ComingInv, Coming
  <2>1. x \in Period(starts) /\ (x \in Csv!ToSet(out) \/ Row(starts, x) >= skipped)
    BY <1>1 DEF CsvInv, ComingInv, Coming
  <2>2. CASE x \in Csv!ToSet(out)
    <3>1. PICK n \in 1 .. Len(out) : out[n] = x
      BY <1>2, <2>2, LenProperties DEF Csv!ToSet
    <3>2. n \in 1 .. Len(out') /\ out'[n] = x
      BY <1>6, <1>7, <3>1
    <3> QED
      BY <1>7, <2>1, <3>2, LenProperties DEF Csv!ToSet
  <2>3. CASE Row(starts, x) >= skipped
    <3> DEFINE r == Row(starts, x)
    <3>1. r + 1 \in 1 .. Len(all) /\ all[r + 1] = x /\ r \in Nat
      <4>1. r \in 0 .. Cardinality(Period(starts)) - 1
        BY <1>2, <2>1, PeriodOrdered, PlaceRises DEF Row
      <4> QED
        BY <1>3, <2>1, <4>1
    <3>2. r >= skipped
      BY <2>3
    <3> HIDE DEF r
    <3>3. CASE r < last
      <4>1. r - skipped + 1 \in 1 .. last - skipped /\ skipped + (r - skipped + 1) = r + 1
        BY <1>2, <1>5, <3>1, <3>2, <3>3
      <4>2. rows[r - skipped + 1] = x /\ r - skipped + 1 \in 1 .. Len(rows)
        BY <1>2, <1>5, <1>6, <3>1, <4>1
      <4>3. Len(out) + (r - skipped + 1) \in 1 .. Len(out') /\ out'[Len(out) + (r - skipped + 1)] = x
        BY <1>6, <1>7, <4>1, <4>2
      <4> QED
        BY <1>7, <2>1, <4>3, LenProperties DEF Csv!ToSet
    <3>4. CASE ~ (r < last)
      <4>1. r >= skipped + ExportPage
        BY <1>2, <1>3, <1>4, <1>5, <3>1, <3>2, <3>4 DEF last
      <4> QED
        BY <2>1, <4>1 DEF r
    <3> QED
      BY <3>3, <3>4
  <2> QED
    BY <2>1, <2>2, <2>3
<1>10. StillInv'
  <2> SUFFICES ASSUME added + moved = 0
               PROVE  /\ first = all /\ skipped <= Len(first)
                      /\ out' = SubSeq(first, 1, Written)
    BY <1>1 DEF StillInv, Written, all
  <2>1. first = all /\ skipped <= Len(first) /\ out = SubSeq(first, 1, skipped)
    BY <1>1 DEF CsvInv, StillInv, all
  <2>2. last = Written /\ last \in skipped .. Len(first)
    BY <1>2, <1>3, <1>4, <2>1 DEF last, Written
  <2>3. SubSeq(first, 1, skipped) \o SubSeq(first, skipped + 1, last) = SubSeq(first, 1, last)
    <3>1. 1 \in 1 .. Len(first) + 1 /\ skipped \in 1 - 1 .. Len(first)
      BY <1>2, <1>3, <2>1
    <3> QED
      BY <1>2, <2>2, <3>1, ConcatAdjacentSubSeq
  <2> QED
    BY <1>1, <2>1, <2>2, <2>3 DEF rows
<1> QED
  BY <1>8, <1>9, <1>10 DEF CsvInv

\* Where a row of the period is.
LEMMA RowPlaced ==
  ASSUME Csv!ExportAssumption, NEW s \in Starts, NEW x \in Period(s)
  PROVE  Row(s, x) \in Nat /\ Row(s, x) < Cardinality(Period(s))
<1>1. Row(s, x) \in 0 .. Cardinality(Period(s)) - 1 /\ Cardinality(Period(s)) \in Nat
  BY PeriodOrdered, PlaceRises DEF Row
<1> QED
  BY <1>1

LEMMA CountRecordsKept ==
  ASSUME Csv!ExportAssumption, CsvInv, Csv!CountRecords
  PROVE  CsvInv'
<1>1. /\ at = "count" /\ at' = "next" /\ total' = Cardinality(Period(starts))
      /\ UNCHANGED <<starts, skipped, out, first, added, moved>>
  BY CsvCardinality DEF Csv!CountRecords, Period
<1>2. /\ starts \in Starts /\ skipped \in Nat /\ ExportPage \in Nat
  BY CsvConstants DEF CsvInv, CsvTyped
<1>3. CsvTyped'
  <2>1. total' \in 0 .. Cardinality(Requests)
    BY <1>1, <1>2, PeriodOrdered
  <2> QED
    BY <1>1, <2>1 DEF CsvInv, CsvTyped
<1>4. ComingInv'
  <2> SUFFICES ASSUME moved = 0, NEW x \in Csv!ToSet(first)
               PROVE  /\ x \in Period(starts)
                      /\ \/ x \in Csv!ToSet(out)
                         \/ Row(starts, x) >= skipped + ExportPage /\ total' > skipped + ExportPage
    BY <1>1 DEF ComingInv, Coming
  <2>1. x \in Period(starts) /\ (x \in Csv!ToSet(out) \/ Row(starts, x) >= skipped + ExportPage)
    BY <1>1 DEF CsvInv, ComingInv, Coming
  <2>2. Row(starts, x) \in Nat /\ Row(starts, x) < Cardinality(Period(starts)) /\ total' \in Nat
    BY <1>1, <1>2, <1>3, <2>1, RowPlaced, CsvConstants DEF CsvTyped
  <2> QED
    BY <1>1, <1>2, <2>1, <2>2
<1>5. StillInv'
  <2>1. Len(Csv!Sorted(starts)) = Cardinality(Period(starts))
    BY <1>2, SortedRows
  <2> QED
    BY <1>1, <2>1 DEF CsvInv, StillInv, Written
<1> QED
  BY <1>3, <1>4, <1>5 DEF CsvInv

LEMMA NextExportKept ==
  ASSUME Csv!ExportAssumption, CsvInv, Csv!NextPage
  PROVE  CsvInv'
<1>1. /\ at = "next" /\ UNCHANGED <<starts, total, out, first, added, moved>>
      /\ at' = IF total > Cap THEN "refused" ELSE IF skipped + ExportPage >= total THEN "done" ELSE "list"
      /\ skipped' = IF at' = "list" THEN skipped + ExportPage ELSE skipped
  BY DEF Csv!NextPage
<1>2. /\ skipped \in Nat /\ ExportPage \in Nat \ {0} /\ Cap \in Nat /\ total \in Nat
      /\ Len(out) <= skipped + ExportPage /\ Len(out) \in Nat /\ first \in Seq(Requests)
  BY <1>1, CsvConstants, LenProperties DEF CsvInv, CsvTyped
<1>3. CASE at' = "list"
  <2>1. skipped' = skipped + ExportPage /\ skipped + ExportPage < total /\ total <= Cap
    BY <1>1, <1>2, <1>3
  <2>2. skipped' \in {n * ExportPage : n \in 0 .. skipped'}
    <3>1. PICK n \in 0 .. skipped : skipped = n * ExportPage
      BY DEF CsvInv, CsvTyped
    <3>2. n + 1 \in 0 .. skipped' /\ skipped' = (n + 1) * ExportPage
      BY <1>2, <2>1, <3>1
    <3> QED
      BY <3>2
  <2>3. skipped' \in Nat /\ skipped' < Cap
    BY <1>2, <2>1
  <2>4. CsvTyped'
    <3>1. Len(out') <= skipped'
      BY <1>1, <1>2, <2>1
    <3> QED
      BY <1>1, <1>3, <2>2, <2>3, <3>1 DEF CsvInv, CsvTyped
  <2>5. ComingInv'
    BY <1>1, <1>3, <2>1 DEF CsvInv, ComingInv, Coming
  <2>6. StillInv'
    <3> SUFFICES ASSUME added + moved = 0
                 PROVE  /\ first = Csv!Sorted(starts) /\ skipped' <= Len(first)
                        /\ out = SubSeq(first, 1, skipped')
      BY <1>1, <1>3 DEF StillInv
    <3>1. /\ first = Csv!Sorted(starts) /\ out = SubSeq(first, 1, Written) /\ total = Len(first)
      BY <1>1 DEF CsvInv, StillInv
    <3>2. Written = skipped' /\ skipped' <= Len(first)
      BY <1>2, <2>1, <3>1 DEF Written
    <3> QED
      BY <3>1, <3>2
  <2> QED
    BY <2>4, <2>5, <2>6 DEF CsvInv
<1>4. CASE at' = "done"
  <2>1. skipped' = skipped /\ ~ (total > skipped + ExportPage)
    BY <1>1, <1>2, <1>4
  <2>2. CsvTyped'
    BY <1>1, <1>4, <2>1 DEF CsvInv, CsvTyped
  <2>3. ComingInv'
    BY <1>1, <1>4, <2>1 DEF CsvInv, ComingInv, Coming
  <2>4. StillInv'
    <3> SUFFICES ASSUME added + moved = 0 PROVE first = Csv!Sorted(starts) /\ out = first
      BY <1>1, <1>4 DEF StillInv
    <3>1. /\ first = Csv!Sorted(starts) /\ out = SubSeq(first, 1, Written) /\ total = Len(first)
      BY <1>1 DEF CsvInv, StillInv
    <3>2. Written = Len(first)
      BY <1>2, <2>1, <3>1 DEF Written
    <3> QED
      BY <1>2, <3>1, <3>2, SubSeqFull
  <2> QED
    BY <2>2, <2>3, <2>4 DEF CsvInv
<1>5. CASE at' = "refused"
  <2>1. skipped' = skipped
    BY <1>1, <1>5
  <2>2. CsvTyped'
    BY <1>1, <1>5, <2>1 DEF CsvInv, CsvTyped
  <2>3. ComingInv' /\ StillInv'
    BY <1>1, <1>5, <2>1 DEF CsvInv, ComingInv, Coming, StillInv
  <2> QED
    BY <2>2, <2>3 DEF CsvInv
<1> QED
  BY <1>1, <1>3, <1>4, <1>5

\* One more request leaves those of the period in it, none nearer to the beginning.
LEMMA RowsPushed ==
  ASSUME Csv!ExportAssumption, NEW s \in Starts, NEW i \in Requests, s[i] = 0, NEW t \in 1 .. PeriodEnd,
         NEW x \in Period(s)
  PROVE  LET u == [s EXCEPT ![i] = t] IN x \in Period(u) /\ Row(u, x) >= Row(s, x)
<1> DEFINE u == [s EXCEPT ![i] = t]
           A == Under(Period(s), StartOrder(s), x)
           B == Under(Period(u), StartOrder(u), x)
<1>0. PeriodEnd \in Nat
  BY CsvConstants
<1>1. u \in Starts /\ \A j \in Requests : j # i => u[j] = s[j]
  BY <1>0 DEF Starts
<1>2. i \notin Period(s) /\ Period(s) \subseteq Requests
  BY DEF Period, Csv!InPeriod, Csv!Absent
<1>3. \A j \in Period(s) : j \in Requests /\ j # i /\ u[j] = s[j]
  BY <1>1, <1>2
<1>4. Period(s) \subseteq Period(u)
  BY <1>3 DEF Period, Csv!InPeriod
<1>5. A \subseteq B
  <2>1. ASSUME NEW y \in A PROVE y \in B
    <3>1. y \in Period(s) /\ Csv!Earlier(s, y, x)
      BY DEF Under, StartOrder
    <3>2. Csv!Earlier(u, y, x)
      BY <1>3, <3>1 DEF Csv!Earlier
    <3> QED
      BY <1>4, <3>1, <3>2 DEF Under, StartOrder
  <2> QED
    BY <2>1
<1>6. IsFiniteSet(B) /\ IsFiniteSet(A)
  <2>1. IsFiniteSet(Period(u)) /\ IsFiniteSet(Period(s))
    BY <1>1, PeriodOrdered
  <2>2. A \subseteq Period(s) /\ B \subseteq Period(u)
    BY DEF Under
  <2> QED
    BY <2>1, <2>2, FS_Subset
<1> HIDE DEF A, B, u
<1>7. Cardinality(A) <= Cardinality(B) /\ Cardinality(A) \in Nat /\ Cardinality(B) \in Nat
  BY <1>5, <1>6, FS_Subset, FS_CardinalityType
<1>8. Row(u, x) = Cardinality(B) /\ Row(s, x) = Cardinality(A)
  BY DEF Row, Place, A, B
<1>9. x \in Period(u) /\ Row(u, x) >= Row(s, x)
  BY <1>4, <1>7, <1>8
<1> QED
  BY <1>9 DEF u

LEMMA CreateKept ==
  ASSUME Csv!ExportAssumption, CsvInv, at \notin {"done", "refused"},
         NEW i \in Requests, NEW t \in 1 .. PeriodEnd, Csv!Create(i, t)
  PROVE  CsvInv'
<1>1. /\ starts[i] = 0 /\ starts' = [starts EXCEPT ![i] = t] /\ added' = added + 1
      /\ UNCHANGED <<at, skipped, total, out, first, moved>>
  BY DEF Csv!Create, Csv!Absent
<1>2. /\ starts \in Starts /\ PeriodEnd \in Nat /\ added \in Nat /\ moved \in Nat
      /\ skipped \in Nat /\ ExportPage \in Nat
  BY CsvConstants DEF CsvInv, CsvTyped
<1>3. CsvTyped'
  <2>1. starts' \in Starts /\ added' \in Nat
    BY <1>1, <1>2 DEF Starts
  <2> QED
    BY <1>1, <2>1 DEF CsvInv, CsvTyped
<1>4. ComingInv'
  <2> SUFFICES ASSUME moved = 0, NEW x \in Csv!ToSet(first)
               PROVE  x \in Period(starts') /\ (x \in Csv!ToSet(out) \/ Coming(x)')
    BY <1>1 DEF ComingInv
  <2>1. x \in Period(starts) /\ (x \in Csv!ToSet(out) \/ Coming(x))
    BY DEF CsvInv, ComingInv
  <2>2. x \in Period(starts') /\ Row(starts', x) >= Row(starts, x)
    BY <1>1, <1>2, <2>1, RowsPushed
  <2>3. Row(starts, x) \in Nat /\ Row(starts', x) \in Nat
    BY <1>2, <1>3, <2>1, <2>2, RowPlaced DEF CsvTyped
  <2>4. Coming(x) => Coming(x)'
    <3> DEFINE r == Row(starts, x)
               q == Row(starts', x)
    <3>1. q >= r /\ q \in Nat /\ r \in Nat
      BY <2>2, <2>3
    <3> HIDE DEF q, r
    <3>2. (r >= skipped => q >= skipped) /\ (r >= skipped + ExportPage => q >= skipped + ExportPage)
      BY <1>2, <3>1
    <3> QED
      BY <1>1, <3>2 DEF Coming, q, r
  <2> QED
    BY <2>1, <2>2, <2>4
<1>5. StillInv'
  BY <1>1, <1>2 DEF StillInv
<1> QED
  BY <1>3, <1>4, <1>5 DEF CsvInv

LEMMA MoveKept ==
  ASSUME Csv!ExportAssumption, CsvInv, NEW i \in Requests, NEW t \in 1 .. PeriodEnd, Csv!Move(i, t)
  PROVE  CsvInv'
<1>1. /\ starts' = [starts EXCEPT ![i] = t] /\ moved' = moved + 1
      /\ UNCHANGED <<at, skipped, total, out, first, added>>
  BY DEF Csv!Move
<1>2. starts \in Starts /\ PeriodEnd \in Nat /\ added \in Nat /\ moved \in Nat
  BY CsvConstants DEF CsvInv, CsvTyped
<1>3. starts' \in Starts /\ moved' \in Nat /\ moved' # 0 /\ added' + moved' # 0
  BY <1>1, <1>2 DEF Starts
<1> QED
  BY <1>1, <1>3 DEF CsvInv, CsvTyped, ComingInv, StillInv

LEMMA CsvInit ==
  ASSUME Csv!ExportAssumption, Csv!Init
  PROVE  CsvInv
<1>1. /\ starts \in Starts /\ first = Csv!Sorted(starts) /\ at = "list" /\ skipped = 0 /\ total = 0
      /\ out = <<>> /\ added = 0 /\ moved = 0
  BY DEF Csv!Init, Starts
<1>2. /\ first \in Seq(Requests) /\ Len(first) \in Nat /\ Csv!ToSet(first) = Period(starts)
  BY <1>1, SortedRows
<1>3. CsvTyped
  <2>1. 0 \in {n * ExportPage : n \in 0 .. 0}
    BY CsvConstants
  <2>2. <<>> \in Seq(Requests) /\ Len(<<>>) = 0
    OBVIOUS
  <2>3. 0 \in 0 .. Cardinality(Requests)
    BY CsvConstants
  <2> QED
    BY <1>1, <1>2, <2>1, <2>2, <2>3 DEF CsvTyped
<1>4. ComingInv
  <2>1. \A x \in Period(starts) : Row(starts, x) >= 0
    BY <1>1, RowPlaced
  <2> QED
    BY <1>1, <1>2, <2>1 DEF ComingInv, Coming
<1>5. StillInv
  <2>1. SubSeq(first, 1, 0) = <<>>
    BY SubSeqEmpty
  <2> QED
    BY <1>1, <1>2, <2>1 DEF StillInv
<1> QED
  BY <1>3, <1>4, <1>5 DEF CsvInv

-----------------------------------------------------------------------------
(* Exports: theorems                                                       *)

\* The invariant of an export.
THEOREM CsvInvariant == ASSUME Csv!ExportAssumption PROVE Csv!Spec => []CsvInv
<1>1. Csv!Init => CsvInv
  BY CsvInit
<1>2. CsvInv /\ [Csv!Next]_(Csv!vars) => CsvInv'
  <2> SUFFICES ASSUME CsvInv, [Csv!Next]_(Csv!vars) PROVE CsvInv'
    OBVIOUS
  <2>1. CASE UNCHANGED Csv!vars
    BY <2>1 DEF Csv!vars, CsvInv, CsvTyped, ComingInv, Coming, StillInv, Written
  <2>2. CASE Csv!Next
    BY <2>2, ListRecordsKept, CountRecordsKept, NextExportKept, CreateKept, MoveKept DEF Csv!Next
  <2> QED
    BY <2>1, <2>2
<1> QED
  BY <1>1, <1>2, PTL DEF Csv!Spec

\* export: what is answered has every request of the period, though others were made, and is
\* the period in its order when nothing changed.
THEOREM PeriodExported ==
  ASSUME Csv!ExportAssumption
  PROVE  Csv!Spec => [](Csv!TypeOK /\ Csv!CreationsLoseNothing /\ Csv!ExportIsThePeriod)
<1>1. CsvInv => Csv!TypeOK
  <2> SUFFICES ASSUME CsvInv PROVE Csv!TypeOK
    OBVIOUS
  <2>1. Len(out) <= Cap + ExportPage - 1
    <3>1. /\ Len(out) \in Nat /\ skipped \in Nat /\ (skipped = 0 \/ skipped < Cap)
          /\ Len(out) <= skipped + ExportPage /\ ExportPage \in Nat \ {0} /\ Cap \in Nat \ {0}
      BY CsvConstants, LenProperties DEF CsvInv, CsvTyped
    <3> QED
      BY <3>1
  <2> QED
    BY <2>1, CsvCardinality DEF CsvInv, CsvTyped, Starts, Csv!TypeOK
<1>2. CsvInv => Csv!CreationsLoseNothing
  BY DEF CsvInv, ComingInv, Coming, Csv!CreationsLoseNothing
<1>3. CsvInv => Csv!ExportIsThePeriod
  BY DEF CsvInv, StillInv, Csv!ExportIsThePeriod
<1> QED
  BY <1>1, <1>2, <1>3, CsvInvariant, PTL

-----------------------------------------------------------------------------
(* Walks: a behaviour is one of each part, which a step of another leaves  *)
(* as it is                                                                *)

LEMMA LoopPart == WalksSpec => Loop!Spec
<1>1. WalksInit => Loop!Init
  BY DEF WalksInit
<1>2. [WalksNext]_walkVars => [Loop!Next]_(Loop!vars)
  BY DEF WalksNext, walkVars, loopVars, Exported, Loop!vars, Loop!worker
<1> QED
  BY <1>1, <1>2, PTL DEF WalksSpec, Loop!Spec

LEMMA PagesPart == WalksSpec => Pages!Spec
<1>1. WalksInit => Pages!Init
  BY DEF WalksInit, PagesRest
<1>2. [WalksNext]_walkVars => [Pages!Next]_(Pages!vars)
  BY DEF WalksNext, walkVars, pageVars, Exported, Pages!vars
<1> QED
  BY <1>1, <1>2, PTL DEF WalksSpec, Pages!Spec

LEMMA CsvPart == WalksSpec => Csv!Spec
<1>1. WalksInit => Csv!Init
  BY DEF WalksInit, CsvRests
<1>2. [WalksNext]_walkVars => [Csv!Next]_(Csv!vars)
  BY DEF WalksNext, walkVars, csvVars, Exported, Csv!vars
<1> QED
  BY <1>1, <1>2, PTL DEF WalksSpec, Csv!Spec

-----------------------------------------------------------------------------
(* Walks: theorems                                                         *)

\* ReconcileAll: a reconciliation that ends without an error has reached every customer that was
\* there when it began, though customers subscribe between its pages.
THEOREM CustomersAreReached == WalksSpec => []NobodySkipped
<1>1. Loop!TypeOK /\ Loop!NobodySkipped => NobodySkipped
  BY DEF NobodySkipped
<1> QED
  BY <1>1, WalksAssumption, LoopPart, AllReached, PTL

\* list of saved businesses and personal activity: a walk to the end shows each row that stays,
\* and none twice.
THEOREM RowsAreShownOnce == WalksSpec => []StableListedOnce
<1>1. Pages!TypeOK /\ Pages!StableListedOnce => StableListedOnce
  BY DEF StableListedOnce
<1> QED
  BY <1>1, WalksAssumption, PagesPart, ShownOnce, PTL

\* export: every request of the period, and nothing else and in order when nothing changes.
THEOREM PeriodsAreExported == WalksSpec => []ExportsAreWhole
<1>1. Csv!TypeOK /\ Csv!CreationsLoseNothing /\ Csv!ExportIsThePeriod => ExportsAreWhole
  BY DEF ExportsAreWhole
<1> QED
  BY <1>1, WalksAssumption, CsvPart, PeriodExported, PTL
=============================================================================
