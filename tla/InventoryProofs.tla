--------------------------- MODULE InventoryProofs ---------------------------
(***************************************************************************)
(* Proofs about Goods.  Inventory: every commit is one step of             *)
(* StockLedger, so that the levels are the sums of the movements; a key is *)
(* held by one movement; and a deletion is never part of a deadlock.       *)
(* Catalog: a variant has one image at most and is as was asked.  Orders:  *)
(* rules are complete, items are written by them, and totals add up.       *)
(***************************************************************************)
EXTENDS Goods, FiniteSetTheorems, SequenceTheorems, TLAPS

-----------------------------------------------------------------------------
(* The inductive invariant *)

LevelNames == {"take", "lookUp", "add"}
Names == LevelNames \union {"getDefault", "makeDefault", "insert", "lock", "update", "delete"}
Statements == [name: Names, place: Places \union {Unspecified}, delta: Int]

NoRow == [key |-> Unspecified]

Transactions ==
  [kind: {"create", "edit", "delete"}, form: CreateForms \union EditForms \union {NoRow},
   id: Ids, todo: Seq(Statements), write: {"none", "insert", "update", "delete"},
   row: StockMovement \union {NoRow}, deltas: UNION {[D -> Int] : D \in SUBSET Places},
   locked: SUBSET Ids, default: BOOLEAN]

\* Below, t is an open transaction, m the movements, O the identifiers once committed, and
\* l the levels.

\* A creation before and after its row is inserted.
CreateShape(t, O) ==
  /\ t.form \in CreateForms /\ t.locked = {} /\ t.id \notin O
  /\ \/ /\ t.write = "none" /\ DOMAIN t.deltas = {}
        /\ t.todo \in {<<Statement("getDefault"), Statement("insert")>>,
                       <<Statement("makeDefault"), Statement("insert")>>,
                       <<Statement("insert")>>}
     \/ /\ t.write = "insert" /\ t.row \in StockMovement
        /\ \/ t.todo = <<>>
           \/ \E place \in Places, delta \in Int : t.todo = <<LevelStatement("add", place, delta)>>

\* An edit or a deletion that has the lock, before and after its row is written.
LockedShape(t, last, m) ==
  /\ t.locked = {t.id} /\ t.id \in DOMAIN m
  /\ \/ t.todo = <<>> /\ t.write = last
     \/ /\ t.write = "none" /\ t.todo # <<>>
        /\ t.todo[Len(t.todo)] = Statement(last)
        /\ \A i \in 1 .. Len(t.todo) - 1 : t.todo[i].name \in LevelNames

ChangeShape(t, last, m, O) ==
  /\ t.id \in O /\ t.default = FALSE
  /\ \/ /\ t.locked = {} /\ t.write = "none" /\ DOMAIN t.deltas = {}
        /\ t.todo = <<Statement("lock")>>
     \/ LockedShape(t, last, m)

Shape(t, m, O) ==
  \/ t.kind = "create" /\ CreateShape(t, O)
  \/ /\ t.kind = "edit" /\ t.form \in EditForms /\ ChangeShape(t, "update", m, O)
     /\ t.locked # {} => t.row \in StockMovement /\ t.row.key = t.form.key
  \/ t.kind = "delete" /\ ChangeShape(t, "delete", m, O)

\* What a movement adds to a place, and what the commit of t will add.
Amount(row, place) == IF row.where = place THEN SignedQuantity(row) ELSE 0

Effect(t, m, place) ==
  (IF t.write = "insert" \/ (t.kind = "edit" /\ t.locked # {}) THEN Amount(t.row, place) ELSE 0)
    - (IF t.locked # {} THEN Amount(m[t.id], place) ELSE 0)

LevelSteps(t) == {i \in 1 .. Len(t.todo) : t.todo[i].name \in LevelNames}

\* The levels that t has changed, and those it is to change, are what it adds to each.
Planned(t, m) ==
  /\ \A q \in DOMAIN t.deltas : t.deltas[q] # 0 /\ t.deltas[q] = Effect(t, m, q)
  /\ \A i \in LevelSteps(t) :
       /\ t.todo[i].place \in Places \ DOMAIN t.deltas
       /\ t.todo[i].delta # 0 /\ t.todo[i].delta = Effect(t, m, t.todo[i].place)
       /\ t.kind # "create" /\ t.todo[i].name # "take" => t.todo[i].delta > 0
       /\ \A j \in LevelSteps(t) : t.todo[i].place = t.todo[j].place => i = j
  /\ \A q \in Places : Effect(t, m, q) # 0 =>
       q \in DOMAIN t.deltas \/ \E i \in LevelSteps(t) : t.todo[i].place = q

\* A level that is changed and not committed still fits its column, and is not below zero
\* when an edit or a deletion takes from it.
Level(l, place) == IF place \in DOMAIN l THEN l[place] ELSE 0

Room(t, l) ==
  \A q \in DOMAIN t.deltas :
    /\ Fits(Level(l, q) + t.deltas[q])
    /\ t.kind # "create" /\ t.deltas[q] < 0 => Level(l, q) + t.deltas[q] >= 0

\* A key that t has written is not the key of a committed movement.
WritesKey(t) == t.write \in {"insert", "update"}
KeyIsFree(t, m) == WritesKey(t) => \A i \in DOMAIN m : m[i].key # t.row.key

Sound(t, m, O, l) == Shape(t, m, O) /\ Planned(t, m) /\ Room(t, l) /\ KeyIsFree(t, m)

\* Two transactions do not hold one row lock, change one level, or insert one identifier
\* or key.
Apart(t, u) ==
  /\ t.locked \intersect u.locked = {}
  /\ DOMAIN t.deltas \intersect DOMAIN u.deltas = {}
  /\ t.kind = "create" /\ u.kind = "create" => t.id # u.id
  /\ WritesKey(t) /\ WritesKey(u) => t.row.key # u.row.key

Entries == [i \in DOMAIN movements |->
              [where |-> movements[i].where, amount |-> SignedQuantity(movements[i])]]

\* The levels are the sums of the movements.
RowsInv ==
  /\ DOMAIN movements \subseteq DOMAIN origin /\ DOMAIN origin \subseteq Ids
  /\ movements \in [DOMAIN movements -> StockMovement]
  /\ origin \in [DOMAIN origin -> Keys]
  /\ DOMAIN levels \subseteq Places /\ levels \in [DOMAIN levels -> Int]
  /\ \A q \in DOMAIN levels : Fits(levels[q])
  /\ \A i, j \in DOMAIN movements : movements[i].key = movements[j].key => i = j
  /\ IsFiniteSet(DOMAIN movements)
  /\ \A q \in Places : Level(levels, q) = Ledger!Balance(Entries, q)

TransactionsInv ==
  /\ hasDefault \in BOOLEAN
  /\ DOMAIN tx \subseteq Handlers /\ tx \in [DOMAIN tx -> Transactions]
  /\ \A p \in DOMAIN tx : Sound(tx[p], movements, DOMAIN origin, levels)
  /\ \A p, q \in DOMAIN tx : p # q => Apart(tx[p], tx[q])

StockInv == RowsInv /\ TransactionsInv

-----------------------------------------------------------------------------
(* Sums over the entries of a place *)

Total(e, S) == Ledger!MapThenSumSet(LAMBDA i : e[i].amount, S)

\* The function that MapThenSumSet folds with.
IsTotal(g, e, S) ==
  g = [s \in SUBSET S |->
         IF s = {} THEN 0
         ELSE e[CHOOSE x \in s : TRUE].amount + g[s \ {CHOOSE x \in s : TRUE}]]

LEMMA TotalIsFold ==
  ASSUME NEW e, NEW S
  PROVE  Total(e, S) = (CHOOSE g : IsTotal(g, e, S))[S]
  BY DEF Total, Ledger!MapThenSumSet, Ledger!MapThenFoldSet, IsTotal

LEMMA BalanceIsTotal ==
  ASSUME NEW e, NEW place
  PROVE  Ledger!Balance(e, place) = Total(e, {i \in DOMAIN e : e[i].where = place})
  BY DEF Total, Ledger!Balance

\* Induction over finite sets, as the principle of the least counterexample.
LEMMA Minimal ==
  ASSUME NEW S, IsFiniteSet(S), NEW B \in SUBSET SUBSET S, B # {}
  PROVE  \E T \in B : \A U \in B : U \subseteq T => U = T
<1>1. IsWellFoundedOn(StrictSubsetOrdering(S), SUBSET S)
  BY FS_FiniteSubsetsOfFinite, FS_StrictSubsetOrderingWellFounded
<1>2. PICK T \in B : \A U \in B : <<U, T>> \notin StrictSubsetOrdering(S)
  BY <1>1, WFMin
<1>3. ASSUME NEW U \in B, U \subseteq T, U # T
      PROVE  <<U, T>> \in StrictSubsetOrdering(S)
  <2>1. <<U, T>> \in (SUBSET S) \X (SUBSET S)
    OBVIOUS
  <2> QED
    BY <1>3, <2>1 DEF StrictSubsetOrdering
<1>4. \A U \in B : U \subseteq T => U = T
  BY <1>2, <1>3
<1> QED
  BY <1>4

LEMMA FoldsAgree ==
  ASSUME NEW e, NEW V, NEW U \in SUBSET V, IsFiniteSet(U),
         NEW g, IsTotal(g, e, U), NEW h, IsTotal(h, e, V)
  PROVE  g[U] = h[U]
<1> DEFINE Bad == {s \in SUBSET U : g[s] # h[s]}
<1> SUFFICES ASSUME Bad # {} PROVE FALSE
  OBVIOUS
<1>1. PICK s \in Bad : \A r \in Bad : r \subseteq s => r = s
  <2>1. Bad \in SUBSET SUBSET U
    OBVIOUS
  <2> HIDE DEF Bad
  <2> QED
    BY <2>1, Minimal
<1>2. s # {}
  BY <1>1 DEF IsTotal
<1> DEFINE c == CHOOSE x \in s : TRUE
<1>3. c \in s
  BY <1>2
<1>4. g[s \ {c}] = h[s \ {c}]
  BY <1>1, <1>3
<1>5. g[s] = e[c].amount + g[s \ {c}]
  BY <1>1, <1>2 DEF IsTotal
<1>6. h[s] = e[c].amount + h[s \ {c}]
  BY <1>1, <1>2 DEF IsTotal
<1>7. g[s] = h[s]
  <2> HIDE DEF c
  <2> QED
    BY <1>4, <1>5, <1>6
<1> QED
  BY <1>1, <1>7

LEMMA FoldExists ==
  ASSUME NEW e, NEW S, IsFiniteSet(S)
  PROVE  \E g : IsTotal(g, e, S)
<1> DEFINE Bad == {T \in SUBSET S : ~ \E g : IsTotal(g, e, T)}
<1> SUFFICES ASSUME Bad # {} PROVE FALSE
  OBVIOUS
<1>1. PICK T \in Bad : \A U \in Bad : U \subseteq T => U = T
  <2>1. Bad \in SUBSET SUBSET S
    OBVIOUS
  <2> HIDE DEF Bad
  <2> QED
    BY <2>1, Minimal
<1> DEFINE Of(U) == (CHOOSE g : IsTotal(g, e, U))
           First(s) == CHOOSE x \in s : TRUE
           G == [s \in SUBSET T |->
                   IF s = {} THEN 0 ELSE e[First(s)].amount + Of(s \ {First(s)})[s \ {First(s)}]]
<1>2. \A U \in SUBSET T : U # T => IsTotal(Of(U), e, U)
  BY <1>1
<1>3. ASSUME NEW s \in SUBSET T, s # {}
      PROVE  Of(s \ {First(s)})[s \ {First(s)}] = G[s \ {First(s)}]
  <2> DEFINE u == s \ {First(s)}
  <2>1. First(s) \in s
    BY <1>3
  <2>2. u \in SUBSET T /\ u # T /\ IsFiniteSet(u)
    BY <2>1, FS_Subset
  <2>3. IsTotal(Of(u), e, u)
    BY <1>2, <2>2
  <2>4. CASE u = {}
    <3>1. Of(u)[u] = 0
      BY <2>3, <2>4 DEF IsTotal
    <3> QED
      BY <3>1, <2>2, <2>4
  <2>5. CASE u # {}
    <3> DEFINE v == u \ {First(u)}
    <3>1. First(u) \in u
      BY <2>5
    <3>2. v \in SUBSET u /\ v \in SUBSET T /\ v # T /\ IsFiniteSet(v)
      BY <3>1, <2>2, FS_Subset
    <3>3. IsTotal(Of(v), e, v)
      BY <1>2, <3>2
    <3>4. Of(v)[v] = Of(u)[v]
      <4> HIDE DEF Of, u, v
      <4> QED
        BY <3>2, <3>3, <2>3, FoldsAgree
    <3>5. Of(u)[u] = e[First(u)].amount + Of(u)[v]
      <4> HIDE DEF Of
      <4> QED
        BY <2>3, <2>5 DEF IsTotal
    <3>6. G[u] = e[First(u)].amount + Of(v)[v]
      <4> HIDE DEF Of, First, u
      <4> QED
        BY <2>2, <2>5
    <3> QED
      BY <3>4, <3>5, <3>6
  <2> QED
    BY <2>4, <2>5
<1> HIDE DEF Of, First
<1>4. IsTotal(G, e, T)
  <2> DEFINE F == [s \in SUBSET T |->
                     IF s = {} THEN 0 ELSE e[First(s)].amount + G[s \ {First(s)}]]
  <2>1. \A s \in SUBSET T : G[s] = F[s]
    BY <1>3
  <2>2. G = F
    BY <2>1
  <2> QED
    BY <2>2 DEF IsTotal, First
<1> QED
  BY <1>1, <1>4

LEMMA TotalStep ==
  ASSUME NEW e, NEW S, IsFiniteSet(S)
  PROVE  /\ Total(e, {}) = 0
         /\ S # {} => \E x \in S : Total(e, S) = e[x].amount + Total(e, S \ {x})
<1> DEFINE Of(U) == CHOOSE g : IsTotal(g, e, U)
<1>1. \A U \in SUBSET S : IsFiniteSet(U) /\ IsTotal(Of(U), e, U) /\ Total(e, U) = Of(U)[U]
  BY FS_Subset, FoldExists, TotalIsFold
<1> HIDE DEF Of
<1>2. Total(e, {}) = 0
  BY <1>1 DEF IsTotal
<1>3. ASSUME S # {} PROVE \E x \in S : Total(e, S) = e[x].amount + Total(e, S \ {x})
  <2> DEFINE x == CHOOSE y \in S : TRUE
             r == S \ {x}
  <2>1. x \in S
    BY <1>3
  <2>2. Total(e, S) = e[x].amount + Of(S)[r]
    <3>1. IsTotal(Of(S), e, S) /\ Total(e, S) = Of(S)[S]
      BY <1>1
    <3> QED
      BY <3>1, <1>3 DEF IsTotal
  <2>3. Of(r)[r] = Of(S)[r]
    BY <1>1, FoldsAgree
  <2>4. Total(e, r) = Of(r)[r]
    BY <1>1
  <2>5. Total(e, S) = e[x].amount + Total(e, S \ {x})
    BY <2>2, <2>3, <2>4
  <2> HIDE DEF x
  <2> QED
    BY <2>1, <2>5
<1> QED
  BY <1>2, <1>3

LEMMA TotalType ==
  ASSUME NEW e, NEW S, IsFiniteSet(S), \A i \in S : e[i].amount \in Int
  PROVE  Total(e, S) \in Int
<1> DEFINE Bad == {s \in SUBSET S : Total(e, s) \notin Int}
<1> SUFFICES ASSUME Bad # {} PROVE FALSE
  OBVIOUS
<1>1. PICK s \in Bad : \A r \in Bad : r \subseteq s => r = s
  <2>1. Bad \in SUBSET SUBSET S
    OBVIOUS
  <2> HIDE DEF Bad
  <2> QED
    BY <2>1, Minimal
<1>2. IsFiniteSet(s) /\ s \in SUBSET S /\ Total(e, s) \notin Int
  BY <1>1, FS_Subset
<1>3. s # {}
  <2>1. Total(e, {}) = 0
    BY TotalStep
  <2> QED
    BY <1>2, <2>1
<1>4. PICK x \in s : Total(e, s) = e[x].amount + Total(e, s \ {x})
  BY <1>2, <1>3, TotalStep
<1>5. s \ {x} \notin Bad
  BY <1>1, <1>4
<1>6. Total(e, s \ {x}) \in Int
  BY <1>2, <1>5
<1> HIDE DEF Bad
<1> QED
  BY <1>2, <1>4, <1>6

\* Whatever order the fold takes the entries in, each counts once.
LEMMA TotalRemove ==
  ASSUME NEW e, NEW S, IsFiniteSet(S), \A i \in S : e[i].amount \in Int, NEW z \in S
  PROVE  Total(e, S) = e[z].amount + Total(e, S \ {z})
<1> DEFINE Each(s) == \A x \in s : Total(e, s) = e[x].amount + Total(e, s \ {x})
           Bad == {s \in SUBSET S : ~ Each(s)}
<1> SUFFICES ASSUME Bad # {} PROVE FALSE
  OBVIOUS
<1>1. PICK s \in Bad : \A r \in Bad : r \subseteq s => r = s
  <2>1. Bad \in SUBSET SUBSET S
    OBVIOUS
  <2> HIDE DEF Bad
  <2> QED
    BY <2>1, Minimal
<1>2. \A r \in SUBSET S : IsFiniteSet(r) /\ Total(e, r) \in Int
  BY FS_Subset, TotalType
<1>3. s \in SUBSET S /\ ~ Each(s)
  BY <1>1
<1>4. PICK x \in s : Total(e, s) # e[x].amount + Total(e, s \ {x})
  BY <1>3
<1>5. PICK y \in s : Total(e, s) = e[y].amount + Total(e, s \ {y})
  BY <1>2, <1>4, TotalStep
<1>6. x # y
  BY <1>4, <1>5
<1>7. \A r \in SUBSET s : r # s => Each(r)
  BY <1>1, <1>3
<1> DEFINE r == s \ {x, y}
<1>8. Total(e, s \ {y}) = e[x].amount + Total(e, r)
  <2>1. Each(s \ {y})
    BY <1>5, <1>7
  <2>2. (s \ {y}) \ {x} = r
    OBVIOUS
  <2> QED
    BY <2>1, <2>2, <1>6
<1>9. Total(e, s \ {x}) = e[y].amount + Total(e, r)
  <2>1. Each(s \ {x})
    BY <1>4, <1>7
  <2>2. (s \ {x}) \ {y} = r
    OBVIOUS
  <2> QED
    BY <2>1, <2>2, <1>6
<1>10. Total(e, r) \in Int /\ e[x].amount \in Int /\ e[y].amount \in Int
  BY <1>2, <1>3
<1> HIDE DEF r, Each, Bad
<1> QED
  BY <1>4, <1>5, <1>8, <1>9, <1>10

LEMMA TotalSame ==
  ASSUME NEW e, NEW f, NEW S, IsFiniteSet(S), \A i \in S : e[i].amount = f[i].amount,
         \A i \in S : e[i].amount \in Int
  PROVE  Total(e, S) = Total(f, S)
<1> DEFINE Bad == {s \in SUBSET S : Total(e, s) # Total(f, s)}
<1> SUFFICES ASSUME Bad # {} PROVE FALSE
  OBVIOUS
<1>1. PICK s \in Bad : \A r \in Bad : r \subseteq s => r = s
  <2>1. Bad \in SUBSET SUBSET S
    OBVIOUS
  <2> HIDE DEF Bad
  <2> QED
    BY <2>1, Minimal
<1>2. s \in SUBSET S /\ IsFiniteSet(s) /\ Total(e, s) # Total(f, s)
  BY <1>1, FS_Subset
<1>3. s # {}
  BY <1>2, TotalStep
<1>4. PICK x \in s : Total(e, s) = e[x].amount + Total(e, s \ {x})
  BY <1>2, <1>3, TotalStep
<1>5. Total(f, s) = f[x].amount + Total(f, s \ {x})
  BY <1>2, TotalRemove
<1>6. s \ {x} \notin Bad
  BY <1>1, <1>4
<1>7. Total(e, s \ {x}) = Total(f, s \ {x})
  BY <1>2, <1>6
<1> HIDE DEF Bad
<1> QED
  BY <1>2, <1>4, <1>5, <1>7

\* What entry i adds to a place, and the sum of the others.
At0(e, i, place) == IF i \in DOMAIN e /\ e[i].where = place THEN e[i].amount ELSE 0
Others(e, i, place) == {j \in DOMAIN e \ {i} : e[j].where = place}

LEMMA BalanceSplit ==
  ASSUME NEW e, IsFiniteSet(DOMAIN e), \A j \in DOMAIN e : e[j].amount \in Int,
         NEW i, NEW place
  PROVE  /\ Total(e, Others(e, i, place)) \in Int
         /\ Ledger!Balance(e, place) = Total(e, Others(e, i, place)) + At0(e, i, place)
<1> DEFINE all == {j \in DOMAIN e : e[j].where = place}
           rest == Others(e, i, place)
<1>1. IsFiniteSet(all) /\ IsFiniteSet(rest)
  BY FS_Subset DEF Others
<1>2. (\A j \in all : e[j].amount \in Int) /\ (\A j \in rest : e[j].amount \in Int)
  BY DEF Others
<1>3. Total(e, rest) \in Int
  <2> HIDE DEF rest
  <2> QED
    BY <1>1, <1>2, TotalType
<1>4. CASE i \in all
  <2>1. rest = all \ {i}
    BY DEF Others
  <2>2. Total(e, all) = e[i].amount + Total(e, all \ {i})
    <3> HIDE DEF all
    <3> QED
      BY <1>1, <1>2, <1>4, TotalRemove
  <2> QED
    BY <2>1, <2>2, <1>2, <1>3, <1>4, BalanceIsTotal DEF At0
<1>5. CASE i \notin all
  <2>1. rest = all
    BY <1>5 DEF Others
  <2> QED
    BY <2>1, <1>3, <1>5, BalanceIsTotal DEF At0
<1> QED
  BY <1>3, <1>4, <1>5

\* A change of one entry changes the balance of a place by what it changes there.
LEMMA BalanceChange ==
  ASSUME NEW e, IsFiniteSet(DOMAIN e), \A j \in DOMAIN e : e[j].amount \in Int,
         NEW f, IsFiniteSet(DOMAIN f), \A j \in DOMAIN f : f[j].amount \in Int,
         NEW i, DOMAIN e \ {i} = DOMAIN f \ {i}, \A j \in DOMAIN e \ {i} : e[j] = f[j],
         NEW place
  PROVE  /\ Ledger!Balance(e, place) \in Int
         /\ Ledger!Balance(f, place)
              = Ledger!Balance(e, place) + At0(f, i, place) - At0(e, i, place)
<1>1. Others(e, i, place) = Others(f, i, place)
  BY DEF Others
<1>2. Total(e, Others(e, i, place)) = Total(f, Others(e, i, place))
  <2> DEFINE S == Others(e, i, place)
  <2>1. /\ IsFiniteSet(S)
        /\ \A j \in S : e[j].amount = f[j].amount /\ e[j].amount \in Int
    BY FS_Subset DEF Others
  <2>2. Total(e, S) = Total(f, S)
    <3> HIDE DEF S
    <3> QED
      BY <2>1, TotalSame
  <2> QED
    BY <2>2
<1>3. At0(e, i, place) \in Int /\ At0(f, i, place) \in Int
  BY DEF At0
<1>4. /\ Total(e, Others(e, i, place)) \in Int
      /\ Ledger!Balance(e, place) = Total(e, Others(e, i, place)) + At0(e, i, place)
  BY BalanceSplit
<1>5. Ledger!Balance(f, place) = Total(f, Others(f, i, place)) + At0(f, i, place)
  BY BalanceSplit
<1> QED
  BY <1>1, <1>2, <1>3, <1>4, <1>5

LEMMA BalanceOfNone == \A place : Ledger!Balance([i \in {} |-> 0], place) = 0
<1> TAKE place
<1> DEFINE e == [i \in {} |-> 0]
<1>1. {i \in DOMAIN e : e[i].where = place} = {}
  OBVIOUS
<1>2. Total(e, {}) = 0
  BY FS_EmptySet, TotalStep
<1>3. Ledger!Balance(e, place) = 0
  <2> HIDE DEF e
  <2> QED
    BY <1>1, <1>2, BalanceIsTotal
<1> QED
  BY <1>3

-----------------------------------------------------------------------------
(* How the invariant is kept: by a step of one transaction, or a commit *)

LEMMA TransactionType ==
  ASSUME NEW t \in Transactions
  PROVE  /\ t.kind \in {"create", "edit", "delete"} /\ t.id \in Ids /\ t.todo \in Seq(Statements)
         /\ t.write \in {"none", "insert", "update", "delete"} /\ t.default \in BOOLEAN
         /\ DOMAIN t.deltas \subseteq Places /\ t.deltas \in [DOMAIN t.deltas -> Int]
         /\ t.locked \in SUBSET Ids
  BY DEF Transactions

LEMMA RowsStay ==
  ASSUME RowsInv, UNCHANGED <<movements, levels, origin>>
  PROVE  RowsInv'
  BY DEF RowsInv, Entries, Fits, Level

LEMMA LeaveKeeps ==
  ASSUME StockInv, NEW p \in DOMAIN tx, Leave(p)
  PROVE  StockInv'
<1> USE DEF StockInv, Leave
<1>1. RowsInv'
  BY RowsStay
<1>2. DOMAIN tx' = DOMAIN tx \ {p} /\ \A q \in DOMAIN tx' : tx'[q] = tx[q]
  BY DEF Without
<1>3. tx' \in [DOMAIN tx' -> Transactions]
  BY DEF TransactionsInv, Without
<1>4. TransactionsInv'
  BY <1>2, <1>3 DEF TransactionsInv
<1> QED
  BY <1>1, <1>4

LEMMA ApartBoth == \A t, u : Apart(t, u) => Apart(u, t)
  BY DEF Apart

LEMMA SucceedKeeps ==
  ASSUME StockInv, NEW p \in DOMAIN tx, NEW t \in Transactions,
         Sound(t, movements, DOMAIN origin, levels),
         \A q \in DOMAIN tx \ {p} : Apart(t, tx[q]),
         Succeed(p, t)
  PROVE  StockInv'
<1> USE DEF StockInv, Succeed
<1>1. RowsInv'
  BY RowsStay
<1>2. /\ DOMAIN tx' = DOMAIN tx /\ tx'[p] = t
      /\ \A q \in DOMAIN tx \ {p} : tx'[q] = tx[q]
      /\ tx' \in [DOMAIN tx' -> Transactions]
  BY DEF TransactionsInv
<1>3. \A q \in DOMAIN tx' : Sound(tx'[q], movements, DOMAIN origin, levels)
  BY <1>2 DEF TransactionsInv
<1>4. \A q, r \in DOMAIN tx' : q # r => Apart(tx'[q], tx'[r])
  BY <1>2, ApartBoth DEF TransactionsInv
<1>5. TransactionsInv'
  BY <1>2, <1>3, <1>4 DEF TransactionsInv
<1> QED
  BY <1>1, <1>5

LEMMA OpenKeeps ==
  ASSUME StockInv, NEW p \in Handlers \ DOMAIN tx, NEW t \in Transactions,
         Sound(t, movements, DOMAIN origin, levels),
         \A q \in DOMAIN tx : Apart(t, tx[q]),
         tx' = Put(tx, p, t), UNCHANGED <<movements, levels, hasDefault, origin>>
  PROVE  StockInv'
<1> USE DEF StockInv
<1>1. RowsInv'
  BY RowsStay
<1>2. /\ DOMAIN tx' = DOMAIN tx \union {p} /\ tx'[p] = t
      /\ \A q \in DOMAIN tx : tx'[q] = tx[q]
      /\ tx' \in [DOMAIN tx' -> Transactions]
  BY DEF TransactionsInv, Put
<1>3. \A q \in DOMAIN tx' : Sound(tx'[q], movements, DOMAIN origin, levels)
  BY <1>2 DEF TransactionsInv
<1>4. \A q, r \in DOMAIN tx' : q # r => Apart(tx'[q], tx'[r])
  BY <1>2, ApartBoth DEF TransactionsInv
<1>5. TransactionsInv'
  BY <1>2, <1>3, <1>4 DEF TransactionsInv
<1> QED
  BY <1>1, <1>5

LEMMA FirstOf ==
  ASSUME NEW S, NEW c \in S, NEW s \in Seq(S)
  PROVE  /\ <<c>> \o s \in Seq(S) /\ Len(<<c>> \o s) = Len(s) + 1
         /\ (<<c>> \o s)[1] = c
         /\ \A i \in 1 .. Len(s) : (<<c>> \o s)[i + 1] = s[i]
<1>1. <<c>> \in Seq(S) /\ Len(<<c>>) = 1 /\ <<c>>[1] = c
  OBVIOUS
<1> DEFINE r == <<c>>
<1> HIDE DEF r
<1>2. r \o s \in Seq(S) /\ Len(r \o s) = Len(r) + Len(s)
      /\ \A i \in 1 .. Len(r) + Len(s) : (r \o s)[i] = IF i <= Len(r) THEN r[i] ELSE s[i - Len(r)]
  BY <1>1, ConcatProperties DEF r
<1>3. r \in Seq(S) /\ Len(r) = 1 /\ r[1] = c /\ Len(s) \in Nat
  BY <1>1, LenProperties DEF r
<1>4. ASSUME NEW i \in 1 .. Len(s) PROVE (r \o s)[i + 1] = s[i]
  <2>1. i + 1 \in 1 .. Len(r) + Len(s) /\ ~ (i + 1 <= Len(r)) /\ (i + 1) - Len(r) = i
    BY <1>3
  <2> QED
    BY <2>1, <1>2
<1>5. (r \o s)[1] = c /\ Len(r \o s) = Len(s) + 1
  <2>1. 1 \in 1 .. Len(r) + Len(s) /\ 1 <= Len(r)
    BY <1>3
  <2> QED
    BY <2>1, <1>2, <1>3
<1> QED
  BY <1>2, <1>4, <1>5 DEF r

LEMMA PairOf == ASSUME NEW b, NEW c PROVE <<c>> \o <<b>> = <<c, b>>
<1> DEFINE s == <<b>>
           r == <<c>> \o s
           u == <<c, b>>
<1>1. s \in Seq({b, c}) /\ Len(s) = 1 /\ s[1] = b
  OBVIOUS
<1>2. u \in Seq({b, c}) /\ Len(u) = 2 /\ u[1] = c /\ u[2] = b
  OBVIOUS
<1> HIDE DEF s, u
<1>3. r \in Seq({b, c}) /\ Len(r) = 2 /\ r[1] = c /\ r[1 + 1] = b
  BY <1>1, FirstOf
<1> HIDE DEF r
<1>4. \A i \in 1 .. Len(r) : r[i] = u[i]
  BY <1>2, <1>3
<1>5. r = u
  BY <1>2, <1>3, <1>4, SeqEqual
<1> QED
  BY <1>5 DEF r, s, u

LEMMA StatementType ==
  /\ \A name \in Names : Statement(name) \in Statements
  /\ \A name \in Names, place \in Places, delta \in Int :
       LevelStatement(name, place, delta) \in Statements
  BY DEF Statement, LevelStatement, Statements

LEMMA OneOrTwo ==
  ASSUME NEW S, NEW a \in S, NEW b \in S, NEW s, s = <<a>> \/ s = <<a, b>>
  PROVE  s \in Seq(S) /\ s # <<>> /\ \A i \in 1 .. Len(s) : s[i] \in {a, b}
<1>1. CASE s = <<a>>
  BY <1>1
<1>2. CASE s = <<a, b>>
  <2>1. s \in Seq(S) /\ Len(s) = 2 /\ s[1] = a /\ s[2] = b
    BY <1>2
  <2> QED
    BY <2>1
<1> QED
  BY <1>1, <1>2

\* A transaction that has changed no level and is to change none adds nothing.
LEMMA NothingPlanned ==
  ASSUME NEW t, t.write = "none", t.locked = {}, DOMAIN t.deltas = {}, LevelSteps(t) = {}, NEW m
  PROVE  Planned(t, m)
<1>1. \A q : Effect(t, m, q) = 0
  BY DEF Effect
<1> QED
  BY <1>1 DEF Planned

LEMMA OpenSound ==
  ASSUME StockInv, NEW p \in Handlers, NEW kind \in {"create", "edit", "delete"},
         NEW form \in CreateForms \union EditForms \union {NoRow}, NEW id \in Ids,
         NEW todo, Open(p, kind, form, id, todo),
         \/ /\ kind = "create" /\ form \in CreateForms /\ id \notin DOMAIN origin
            /\ \A q \in DOMAIN tx : id # tx[q].id
            /\ todo \in {<<Statement("getDefault"), Statement("insert")>>, <<Statement("insert")>>}
         \/ /\ kind \in {"edit", "delete"} /\ id \in DOMAIN origin
            /\ todo = <<Statement("lock")>> /\ (kind = "edit" => form \in EditForms)
  PROVE  StockInv'
<1> DEFINE none == [q \in {} |-> 0]
           t == [kind |-> kind, form |-> form, id |-> id, todo |-> todo, write |-> "none",
                 row |-> NoRow, deltas |-> none, locked |-> {}, default |-> FALSE]
<1>1. p \notin DOMAIN tx /\ tx' = Put(tx, p, t) /\ UNCHANGED <<movements, levels, hasDefault, origin>>
  BY DEF Open, NoRow
<1>2. none \in UNION {[D -> Int] : D \in SUBSET Places} /\ DOMAIN none = {}
  <2>1. none \in [{} -> Int]
    OBVIOUS
  <2> QED
    BY <2>1
<1>3. todo \in Seq(Statements) /\ todo # <<>> /\ \A i \in 1 .. Len(todo) : todo[i].name \notin LevelNames
  <2>1. {"getDefault", "insert", "lock"} \subseteq Names \ LevelNames
    BY DEF Names, LevelNames
  <2>2. \A name : Statement(name).name = name
    BY DEF Statement
  <2>3. \A name \in {"getDefault", "insert", "lock"} : Statement(name) \in Statements
    BY <2>1, StatementType
  <2>4. \A name \in {"getDefault", "insert", "lock"} : Statement(name).name \notin LevelNames
    BY <2>1, <2>2
  <2>5. PICK a \in {"getDefault", "insert", "lock"}, b \in {"getDefault", "insert", "lock"} :
          todo = <<Statement(a), Statement(b)>> \/ todo = <<Statement(a)>>
    OBVIOUS
  <2>6. /\ todo \in Seq(Statements) /\ todo # <<>>
        /\ \A i \in 1 .. Len(todo) : todo[i] \in {Statement(a), Statement(b)}
    BY <2>3, <2>5, OneOrTwo
  <2> QED
    BY <2>4, <2>6
<1> HIDE DEF none
<1>4. t \in Transactions
  BY <1>2, <1>3 DEF Transactions
<1>5. Shape(t, movements, DOMAIN origin)
  BY <1>2 DEF Shape, CreateShape, ChangeShape
<1>6. Planned(t, movements)
  <2>1. LevelSteps(t) = {}
    BY <1>3 DEF LevelSteps
  <2> QED
    BY <1>2, <2>1, NothingPlanned
<1>7. Room(t, levels) /\ KeyIsFree(t, movements)
  BY <1>2 DEF Room, KeyIsFree, WritesKey
<1>8. \A q \in DOMAIN tx : Apart(t, tx[q])
  <2>1. ASSUME NEW q \in DOMAIN tx PROVE kind = "create" /\ tx[q].kind = "create" => id # tx[q].id
    OBVIOUS
  <2> QED
    BY <1>2, <2>1 DEF Apart, WritesKey
<1> HIDE DEF t
<1> QED
  BY <1>1, <1>4, <1>5, <1>6, <1>7, <1>8, OpenKeeps DEF Sound

LEMMA ArriveKeeps ==
  ASSUME StockInv, InventoryAssumption, NEW p \in Handlers, Arrive(p)
  PROVE  StockInv'
<1>1. ASSUME Create(p) PROVE StockInv'
  <2>1. PICK f \in CreateForms, id \in Ids \ (DOMAIN origin \union {tx[q].id : q \in DOMAIN tx}) :
          Open(p, "create", f, id,
               IF f.where = Unspecified THEN <<Statement("getDefault"), Statement("insert")>>
                                        ELSE <<Statement("insert")>>)
    BY <1>1 DEF Create
  <2> QED
    BY <2>1, OpenSound
<1>2. ASSUME Update(p) PROVE StockInv'
  <2>1. PICK f \in EditForms, id \in DOMAIN origin : Open(p, "edit", f, id, <<Statement("lock")>>)
    BY <1>2 DEF Update
  <2>2. id \in Ids
    BY DEF StockInv, RowsInv
  <2> QED
    BY <2>1, <2>2, OpenSound
<1>3. ASSUME Delete(p) PROVE StockInv'
  <2>1. PICK id \in DOMAIN origin : Open(p, "delete", NoRow, id, <<Statement("lock")>>)
    BY <1>3 DEF Delete, NoRow
  <2>2. id \in Ids
    BY DEF StockInv, RowsInv
  <2> QED
    BY <2>1, <2>2, OpenSound
<1> QED
  BY <1>1, <1>2, <1>3 DEF Arrive

LEMMA Context ==
  ASSUME StockInv, NEW p \in DOMAIN tx
  PROVE  /\ tx[p] \in Transactions /\ Sound(tx[p], movements, DOMAIN origin, levels)
         /\ \A q \in DOMAIN tx \ {p} : Apart(tx[p], tx[q])
  BY DEF StockInv, TransactionsInv

\* What a transaction is and has done is told by its next statement.
CreatesNext(t, todo) == t.kind = "create" /\ t.write = "none" /\ t.todo = todo
WritesLast(t, name) ==
  /\ t.kind = (IF name = "update" THEN "edit" ELSE "delete")
  /\ t.locked = {t.id} /\ t.write = "none" /\ t.todo = <<Statement(name)>>

LEMMA HeadTells ==
  ASSUME NEW t \in Transactions, NEW m, NEW O, Shape(t, m, O), t.todo # <<>>,
         NEW name, name = Head(t.todo).name
  PROVE  /\ name = "getDefault" =>
              CreatesNext(t, <<Statement("getDefault"), Statement("insert")>>)
         /\ name = "makeDefault" =>
              CreatesNext(t, <<Statement("makeDefault"), Statement("insert")>>)
         /\ name = "insert" => CreatesNext(t, <<Statement("insert")>>)
         /\ name = "lock" =>
              /\ t.kind \in {"edit", "delete"} /\ t.locked = {} /\ t.write = "none"
              /\ t.todo = <<Statement("lock")>> /\ DOMAIN t.deltas = {}
         /\ name \in {"update", "delete"} => WritesLast(t, name)
         /\ name \in LevelNames =>
              \/ t.kind = "create" /\ t.write = "insert" /\ name = "add" /\ Len(t.todo) = 1
              \/ /\ t.kind # "create" /\ t.locked = {t.id} /\ t.write = "none"
                 /\ Len(t.todo) > 1
<1>1. t.todo \in Seq(Statements) /\ Head(t.todo) = t.todo[1] /\ Len(t.todo) \in Nat \ {0}
  BY TransactionType
<1>2. /\ \A x : Statement(x).name = x
      /\ \A x, place, delta : LevelStatement(x, place, delta).name = x
  BY DEF Statement, LevelStatement
<1>3. CASE t.kind = "create"
  <2>1. CreateShape(t, O)
    BY <1>3 DEF Shape
  <2>2. ASSUME t.write = "none", NEW first \in {"getDefault", "makeDefault"},
               t.todo = <<Statement(first), Statement("insert")>>
        PROVE  name = first
    BY <1>1, <1>2, <2>2
  <2>3. ASSUME t.todo = <<Statement("insert")>> PROVE name = "insert"
    BY <1>1, <1>2, <2>3
  <2>4. ASSUME NEW place, NEW delta, t.todo = <<LevelStatement("add", place, delta)>>
        PROVE  name = "add" /\ Len(t.todo) = 1
    BY <1>1, <1>2, <2>4
  <2>5. CASE t.write = "none"
    BY <1>3, <2>1, <2>2, <2>3, <2>5 DEF CreateShape, LevelNames, CreatesNext
  <2>6. CASE t.write = "insert"
    BY <1>3, <2>1, <2>4, <2>6 DEF CreateShape, LevelNames
  <2> QED
    BY <2>1, <2>5, <2>6 DEF CreateShape
<1>4. ASSUME NEW last \in {"update", "delete"}, ChangeShape(t, last, m, O), t.kind # "create",
             t.kind = (IF last = "update" THEN "edit" ELSE "delete")
      PROVE  \/ name = "lock" /\ t.locked = {} /\ t.write = "none" /\ t.todo = <<Statement("lock")>>
                  /\ DOMAIN t.deltas = {}
             \/ name = last /\ WritesLast(t, last)
             \/ /\ name \in LevelNames /\ t.locked = {t.id} /\ t.write = "none"
                /\ Len(t.todo) > 1
  <2>1. CASE t.locked = {} /\ t.todo = <<Statement("lock")>>
    <3>1. name = "lock"
      BY <1>1, <1>2, <2>1
    <3> QED
      BY <3>1, <2>1, <1>4 DEF ChangeShape, LockedShape
  <2>2. CASE LockedShape(t, last, m) /\ Len(t.todo) = 1
    <3>1. t.todo[1] = Statement(last) /\ t.locked = {t.id} /\ t.write = "none"
      BY <1>1, <2>2 DEF LockedShape
    <3>2. t.todo = <<Statement(last)>>
      BY <1>1, <2>2, <3>1
    <3> QED
      BY <1>1, <1>2, <1>4, <3>1, <3>2 DEF WritesLast
  <2>3. CASE LockedShape(t, last, m) /\ Len(t.todo) # 1
    <3>1. Len(t.todo) > 1 /\ 1 \in 1 .. Len(t.todo) - 1
      <4>1. \A n \in Nat \ {0} : n # 1 => n > 1 /\ 1 \in 1 .. n - 1
        OBVIOUS
      <4>2. Len(t.todo) \in Nat \ {0} /\ Len(t.todo) # 1
        BY <1>1, <2>3
      <4> QED
        BY <4>1, <4>2, Zenon
    <3>2. /\ t.write = "none" /\ t.locked = {t.id}
          /\ \A i \in 1 .. Len(t.todo) - 1 : t.todo[i].name \in LevelNames
      BY <2>3 DEF LockedShape
    <3> QED
      BY <1>1, <3>1, <3>2
  <2> QED
    BY <1>4, <2>1, <2>2, <2>3 DEF ChangeShape
<1>5. CASE t.kind = "edit"
  BY <1>4, <1>5 DEF Shape, LevelNames
<1>6. CASE t.kind = "delete"
  BY <1>4, <1>6 DEF Shape, LevelNames
<1> QED
  BY <1>3, <1>5, <1>6, TransactionType

-----------------------------------------------------------------------------
(* Statements of a creation *)

\* The statements before a creation inserts its row.
SameBut(t, u) ==
  /\ t.kind = u.kind /\ t.form = u.form /\ t.id = u.id /\ t.row = u.row
  /\ t.deltas = u.deltas /\ t.locked = u.locked /\ t.write = u.write

LEMMA PreludeKeeps ==
  ASSUME StockInv, NEW p \in DOMAIN tx, CreatesNext(tx[p], tx[p].todo),
         NEW t \in Transactions, SameBut(t, tx[p]),
         t.todo \in {<<Statement("makeDefault"), Statement("insert")>>, <<Statement("insert")>>},
         Succeed(p, t)
  PROVE  StockInv'
<1> DEFINE u == tx[p]
<1>1. /\ u \in Transactions /\ Sound(u, movements, DOMAIN origin, levels)
      /\ \A q \in DOMAIN tx \ {p} : Apart(u, tx[q])
  BY Context
<1>2. CreateShape(u, DOMAIN origin) /\ u.kind = "create" /\ u.write = "none"
  BY <1>1 DEF Sound, Shape, CreatesNext
<1> HIDE DEF u
<1>3. Shape(t, movements, DOMAIN origin)
  BY <1>2 DEF Shape, CreateShape, SameBut, u
<1>4. Planned(t, movements)
  <2>1. PICK first \in {"makeDefault", "insert"} :
          t.todo = <<Statement(first)>> \/ t.todo = <<Statement(first), Statement("insert")>>
    OBVIOUS
  <2>2. Statement(first) \in Statements /\ Statement("insert") \in Statements
    BY StatementType DEF Names
  <2>3. \A i \in 1 .. Len(t.todo) : t.todo[i] \in {Statement(first), Statement("insert")}
    BY <2>1, <2>2, OneOrTwo
  <2>4. \A name : Statement(name).name = name
    BY DEF Statement
  <2>5. LevelSteps(t) = {}
    BY <2>3, <2>4 DEF LevelSteps, LevelNames
  <2>6. t.write = "none" /\ t.locked = {} /\ DOMAIN t.deltas = {}
    BY <1>2 DEF SameBut, CreateShape, u
  <2> QED
    BY <2>5, <2>6, NothingPlanned
<1>5. Room(t, levels) /\ KeyIsFree(t, movements)
  BY <1>2 DEF SameBut, CreateShape, Room, KeyIsFree, WritesKey, u
<1>6. \A q \in DOMAIN tx \ {p} : Apart(t, tx[q])
  BY <1>1 DEF Apart, SameBut, WritesKey, u
<1> QED
  BY <1>3, <1>4, <1>5, <1>6, SucceedKeeps DEF Sound

LEMMA GetDefaultKeeps ==
  ASSUME StockInv, NEW p, GetDefault(p)
  PROVE  StockInv'
<1> DEFINE u == tx[p]
           begin == <<Statement("getDefault"), Statement("insert")>>
           make == <<Statement("makeDefault"), Statement("insert")>>
<1>1. p \in DOMAIN tx /\ u.todo # <<>> /\ Head(u.todo).name = "getDefault"
  BY DEF GetDefault, Runs, At, Pending
<1>2. u \in Transactions /\ Shape(u, movements, DOMAIN origin)
  BY <1>1, Context DEF Sound
<1>3. CreatesNext(u, begin)
  BY <1>1, <1>2, HeadTells
<1>4. Tail(u.todo) = <<Statement("insert")>> /\ <<Statement("makeDefault")>> \o Tail(u.todo) = make
  <2> DEFINE a == Statement("getDefault")
             b == Statement("insert")
             c == Statement("makeDefault")
  <2>1. u.todo = <<a, b>>
    BY <1>3 DEF CreatesNext
  <2> HIDE DEF a, b, c
  <2>2. Tail(<<a, b>>) = <<b>> /\ <<c>> \o <<b>> = <<c, b>>
    BY PairOf
  <2> QED
    BY <2>1, <2>2 DEF a, b, c
<1>5. PICK todo \in {make, <<Statement("insert")>>} : Succeed(p, [u EXCEPT !.todo = todo])
  <2> HIDE DEF make, begin
  <2> QED
    BY <1>4 DEF GetDefault, Done, After
<1>6. todo \in Seq(Statements)
  <2>1. Statement("makeDefault") \in Statements /\ Statement("insert") \in Statements
    BY StatementType DEF Names
  <2>2. make \in Seq(Statements) /\ <<Statement("insert")>> \in Seq(Statements)
    BY <2>1, OneOrTwo
  <2> HIDE DEF make
  <2> QED
    BY <2>2
<1> DEFINE t == [u EXCEPT !.todo = todo]
<1>7. t \in Transactions /\ SameBut(t, u) /\ t.todo = todo
  BY <1>2, <1>6 DEF Transactions, SameBut
<1>8. CreatesNext(u, u.todo)
  BY <1>3 DEF CreatesNext
<1> HIDE DEF t
<1> QED
  BY <1>1, <1>5, <1>7, <1>8, PreludeKeeps DEF t

LEMMA MakeDefaultKeeps ==
  ASSUME StockInv, NEW p, MakeDefault(p)
  PROVE  StockInv'
<1> DEFINE u == tx[p]
<1>1. p \in DOMAIN tx /\ u.todo # <<>> /\ Head(u.todo).name = "makeDefault"
  BY DEF MakeDefault, Runs, At, Pending
<1>2. u \in Transactions /\ Shape(u, movements, DOMAIN origin)
  BY <1>1, Context DEF Sound
<1>3. CreatesNext(u, <<Statement("makeDefault"), Statement("insert")>>)
  BY <1>1, <1>2, HeadTells
<1>4. Tail(u.todo) = <<Statement("insert")>>
  <2> DEFINE a == Statement("makeDefault")
             b == Statement("insert")
  <2>1. u.todo = <<a, b>>
    BY <1>3 DEF CreatesNext
  <2> HIDE DEF a, b
  <2>2. Tail(<<a, b>>) = <<b>>
    OBVIOUS
  <2> QED
    BY <2>1, <2>2 DEF b
<1>5. CASE hasDefault
  BY <1>1, <1>5, LeaveKeeps DEF MakeDefault
<1>6. CASE ~ hasDefault
  <2> DEFINE todo == <<Statement("insert")>>
             t == [[u EXCEPT !.todo = todo] EXCEPT !.default = TRUE]
  <2>1. Succeed(p, t)
    BY <1>4, <1>6 DEF MakeDefault, Done, After
  <2>2. todo \in Seq(Statements)
    BY StatementType DEF Names
  <2>3. t \in Transactions /\ SameBut(t, u) /\ t.todo = todo
    <3> HIDE DEF todo
    <3> QED
      BY <1>2, <2>2 DEF Transactions, SameBut
  <2>4. CreatesNext(u, u.todo)
    BY <1>3 DEF CreatesNext
  <2>5. t.todo = <<Statement("insert")>>
    BY <2>3
  <2> HIDE DEF t
  <2> QED
    BY <1>1, <2>1, <2>3, <2>4, <2>5, PreludeKeeps
<1> QED
  BY <1>5, <1>6

LEMMA AmountType ==
  ASSUME InventoryAssumption, NEW row \in StockMovement, NEW place
  PROVE  /\ SignedQuantity(row) \in Int /\ SignedQuantity(row) # 0 /\ row.where \in Places
         /\ Amount(row, place) \in Int
         /\ Amount(row, place) # 0 <=> row.where = place
<1>1. row.quantity \in Int /\ row.quantity > 0 /\ row.where \in Places
  BY DEF StockMovement, InventoryAssumption
<1> QED
  BY <1>1 DEF SignedQuantity, Amount

\* The row a form asks for is one that fits its columns.
LEMMA RowType ==
  ASSUME InventoryAssumption, NEW form \in StockMovementRequest, NEW otherwise \in Places,
         NEW by \in Users
  PROVE  RowOf(form, otherwise, by) \in StockMovement /\ RowOf(form, otherwise, by).key = form.key
  BY DEF RowOf, StockMovement, StockMovementRequest, InventoryAssumption, Places

LEMMA InsertKeeps ==
  ASSUME StockInv, InventoryAssumption, NEW p, Insert(p)
  PROVE  StockInv'
<1> DEFINE u == tx[p]
           row == RowOf(u.form, Default, u.form.by)
           add == LevelStatement("add", row.where, SignedQuantity(row))
           t == [u EXCEPT !.write = "insert", !.row = row, !.todo = <<add>>]
<1>1. p \in DOMAIN tx /\ u.todo # <<>> /\ Head(u.todo).name = "insert"
  BY DEF Insert, Runs, At, Pending
<1>2. /\ u \in Transactions /\ Sound(u, movements, DOMAIN origin, levels)
      /\ \A q \in DOMAIN tx \ {p} : Apart(u, tx[q])
  BY <1>1, Context
<1>3. CreatesNext(u, <<Statement("insert")>>)
  BY <1>1, <1>2, HeadTells DEF Sound
<1>4. /\ u.kind = "create" /\ u.form \in CreateForms /\ u.locked = {} /\ u.id \notin DOMAIN origin
      /\ u.write = "none" /\ DOMAIN u.deltas = {}
  BY <1>2, <1>3 DEF Sound, Shape, CreateShape, CreatesNext
<1>5. row \in StockMovement /\ row.key = u.form.key
  <2>1. u.form \in StockMovementRequest /\ Default \in Places
    BY <1>4 DEF InventoryAssumption, Places
  <2>2. u.form.by \in Users
    BY <2>1 DEF StockMovementRequest
  <2> QED
    BY <2>1, <2>2, RowType
<1> HIDE DEF row
<1>6. CASE KeyHolders(row.key) # {}
  <2>1. Leave(p)
    BY <1>6 DEF Insert, row
  <2> QED
    BY <1>1, <2>1, LeaveKeeps
<1>7. CASE KeyHolders(row.key) = {}
  <2>1. Succeed(p, t)
    BY <1>7 DEF Insert, row
  <2>2. add \in Statements /\ add.name = "add" /\ add.place = row.where /\ add.delta = SignedQuantity(row)
    BY <1>5, AmountType, StatementType DEF LevelStatement, Names, LevelNames
  <2>3. /\ t \in Transactions /\ t.kind = "create" /\ t.form = u.form /\ t.id = u.id
        /\ t.todo = <<add>> /\ t.write = "insert" /\ t.row = row /\ t.deltas = u.deltas
        /\ t.locked = {}
    <3>1. <<add>> \in Seq(Statements)
      BY <2>2, OneOrTwo
    <3> HIDE DEF add
    <3> QED
      BY <1>2, <1>4, <1>5, <3>1 DEF Transactions
  <2> HIDE DEF t
  <2>4. Shape(t, movements, DOMAIN origin)
    <3>1. t.todo = <<LevelStatement("add", row.where, SignedQuantity(row))>>
      BY <2>3
    <3>2. row.where \in Places /\ SignedQuantity(row) \in Int
      BY <1>5, AmountType
    <3> HIDE DEF add
    <3> QED
      BY <1>4, <1>5, <2>3, <3>1, <3>2 DEF Shape, CreateShape
  <2>5. Planned(t, movements)
    <3>1. \A q : Effect(t, movements, q) = Amount(row, q) - 0
      BY <2>3 DEF Effect
    <3>2. \A q : Amount(row, q) \in Int /\ Effect(t, movements, q) = Amount(row, q)
      BY <3>1, <1>5, AmountType
    <3>3. Len(t.todo) = 1 /\ t.todo[1] = add
      BY <2>3
    <3>4. LevelSteps(t) = {1}
      BY <2>2, <3>3 DEF LevelSteps, LevelNames
    <3>5. Amount(row, row.where) = SignedQuantity(row)
      BY DEF Amount
    <3> HIDE DEF add
    <3> QED
      BY <1>4, <1>5, <2>2, <2>3, <3>2, <3>3, <3>4, <3>5, AmountType DEF Planned
  <2>6. Room(t, levels)
    BY <1>4, <2>3 DEF Room
  <2>7. KeyIsFree(t, movements)
    BY <1>7, <2>3 DEF KeyIsFree, KeyHolders
  <2>8. \A q \in DOMAIN tx \ {p} : Apart(t, tx[q])
    <3> TAKE q \in DOMAIN tx \ {p}
    <3>1. ~ Touches(q, u.form.key)
      BY <1>1 DEF Insert, Runs, WaitsFor
    <3>2. ~ (tx[q].write \in {"insert", "update"} /\ tx[q].row.key = row.key)
      BY <3>1, <1>5 DEF Touches
    <3>3. Apart(u, tx[q])
      BY <1>2
    <3> QED
      BY <3>2, <3>3, <1>4, <2>3 DEF Apart, WritesKey
  <2> QED
    BY <1>1, <2>1, <2>3, <2>4, <2>5, <2>6, <2>7, <2>8, SucceedKeeps DEF Sound
<1> QED
  BY <1>6, <1>7

-----------------------------------------------------------------------------
(* Statements that change a level *)

LEMMA TailType ==
  ASSUME NEW S, NEW s \in Seq(S), s # <<>>
  PROVE  /\ Tail(s) \in Seq(S) /\ Head(s) = s[1] /\ Head(s) \in S
         /\ Len(s) \in Nat \ {0} /\ Len(Tail(s)) = Len(s) - 1
         /\ \A i \in 1 .. Len(Tail(s)) : Tail(s)[i] = s[i + 1]
  OBVIOUS

\* u is t after its next statement has changed a level.
LevelChanged(t, u) ==
  /\ u.kind = t.kind /\ u.form = t.form /\ u.id = t.id /\ u.row = t.row
  /\ u.write = t.write /\ u.locked = t.locked /\ u.default = t.default
  /\ u.todo = Tail(t.todo)
  /\ u.deltas = Put(t.deltas, Head(t.todo).place, Head(t.todo).delta)

LEMMA LevelChangedShape ==
  ASSUME NEW t \in Transactions, NEW m, NEW O, Shape(t, m, O), t.todo # <<>>,
         Head(t.todo).name \in LevelNames, NEW u, LevelChanged(t, u)
  PROVE  Shape(u, m, O)
<1>1. /\ t.todo \in Seq(Statements) /\ Len(t.todo) \in Nat \ {0}
      /\ Len(u.todo) = Len(t.todo) - 1
      /\ \A i \in 1 .. Len(u.todo) : u.todo[i] = t.todo[i + 1]
      /\ u.todo \in Seq(Statements)
  BY TransactionType, TailType DEF LevelChanged
<1>2. CASE t.kind = "create" /\ t.write = "insert" /\ Len(t.todo) = 1
  <2>1. u.todo = <<>>
    <3>1. Len(u.todo) = 0
      BY <1>1, <1>2
    <3> QED
      BY <1>1, <3>1
  <2>2. CreateShape(t, O)
    BY <1>2 DEF Shape
  <2> QED
    BY <1>2, <2>1, <2>2 DEF Shape, CreateShape, LevelChanged
<1>3. CASE t.kind # "create" /\ t.locked = {t.id} /\ t.write = "none" /\ Len(t.todo) > 1
  <2>1. ASSUME NEW last, ChangeShape(t, last, m, O) PROVE ChangeShape(u, last, m, O)
    <3>1. LockedShape(t, last, m)
      BY <1>3, <2>1 DEF ChangeShape
    <3>2. /\ t.todo[Len(t.todo)] = Statement(last)
          /\ \A i \in 1 .. Len(t.todo) - 1 : t.todo[i].name \in LevelNames
      BY <1>3, <3>1 DEF LockedShape
    <3>3. u.todo # <<>> /\ u.todo[Len(u.todo)] = Statement(last)
      <4>1. Len(u.todo) \in 1 .. Len(u.todo) /\ Len(u.todo) + 1 = Len(t.todo)
        BY <1>1, <1>3
      <4> QED
        BY <1>1, <3>2, <4>1
    <3>4. \A i \in 1 .. Len(u.todo) - 1 : u.todo[i].name \in LevelNames
      <4>1. \A i \in 1 .. Len(u.todo) - 1 :
              i + 1 \in 1 .. Len(t.todo) - 1 /\ i \in 1 .. Len(u.todo)
        BY <1>1, <1>3
      <4> QED
        BY <1>1, <3>2, <4>1
    <3> QED
      BY <1>3, <2>1, <3>1, <3>3, <3>4 DEF ChangeShape, LockedShape, LevelChanged
  <2> QED
    BY <1>3, <2>1 DEF Shape, LevelChanged
<1> QED
  BY <1>2, <1>3, HeadTells

LEMMA LevelChangedPlanned ==
  ASSUME NEW t \in Transactions, NEW m, Planned(t, m), t.todo # <<>>,
         Head(t.todo).name \in LevelNames, NEW u, LevelChanged(t, u)
  PROVE  /\ Planned(u, m)
         /\ Head(t.todo).place \in Places \ DOMAIN t.deltas /\ Head(t.todo).delta \in Int
<1> DEFINE s == Head(t.todo)
<1>1. /\ t.todo \in Seq(Statements) /\ Len(t.todo) \in Nat \ {0}
      /\ Len(u.todo) = Len(t.todo) - 1
      /\ \A i \in 1 .. Len(u.todo) : u.todo[i] = t.todo[i + 1]
      /\ s = t.todo[1] /\ s \in Statements
  BY TransactionType, TailType DEF LevelChanged
<1> HIDE DEF s
<1>2. 1 \in LevelSteps(t)
  BY <1>1 DEF LevelSteps, s
<1>3. \A i : i \in LevelSteps(u) <=> i \in Nat \ {0} /\ i + 1 \in LevelSteps(t)
  BY <1>1 DEF LevelSteps
<1>4. \A i \in LevelSteps(u) : u.todo[i] = t.todo[i + 1] /\ i # 0
  BY <1>1 DEF LevelSteps
<1>5. \A q : Effect(u, m, q) = Effect(t, m, q)
  BY DEF Effect, LevelChanged
<1>6. /\ s.place \in Places \ DOMAIN t.deltas /\ s.delta # 0 /\ s.delta = Effect(t, m, s.place)
      /\ \A j \in LevelSteps(t) : t.todo[j].place = s.place => j = 1
  BY <1>1, <1>2 DEF Planned
<1>7. /\ DOMAIN u.deltas = DOMAIN t.deltas \union {s.place} /\ u.deltas[s.place] = s.delta
      /\ \A q \in DOMAIN t.deltas : u.deltas[q] = t.deltas[q]
  BY <1>6 DEF LevelChanged, Put, s
<1>8. \A q \in DOMAIN u.deltas : u.deltas[q] # 0 /\ u.deltas[q] = Effect(u, m, q)
  BY <1>5, <1>6, <1>7 DEF Planned
<1>9. ASSUME NEW i \in LevelSteps(u)
      PROVE  /\ u.todo[i].place \in Places \ DOMAIN u.deltas
             /\ u.todo[i].delta # 0 /\ u.todo[i].delta = Effect(u, m, u.todo[i].place)
             /\ u.kind # "create" /\ u.todo[i].name # "take" => u.todo[i].delta > 0
             /\ \A j \in LevelSteps(u) : u.todo[i].place = u.todo[j].place => i = j
  <2>1. i + 1 \in LevelSteps(t) /\ u.todo[i] = t.todo[i + 1] /\ i + 1 # 1 /\ i \in Nat
    BY <1>3, <1>4
  <2>2. \A j \in LevelSteps(u) : j \in Nat /\ j + 1 \in LevelSteps(t) /\ u.todo[j] = t.todo[j + 1]
    BY <1>3, <1>4
  <2>3. t.todo[i + 1].place # s.place
    BY <1>6, <2>1
  <2>4. ASSUME NEW j \in LevelSteps(u), u.todo[i].place = u.todo[j].place PROVE i = j
    <3>1. i + 1 = j + 1
      BY <2>1, <2>2, <2>4 DEF Planned
    <3> QED
      BY <3>1, <2>1, <2>2
  <2>5. u.kind = t.kind
    BY DEF LevelChanged
  <2> QED
    BY <1>5, <1>7, <2>1, <2>3, <2>4, <2>5 DEF Planned
<1>10. ASSUME NEW q \in Places, Effect(u, m, q) # 0
       PROVE  q \in DOMAIN u.deltas \/ \E i \in LevelSteps(u) : u.todo[i].place = q
  <2>1. q \in DOMAIN t.deltas \/ \E i \in LevelSteps(t) : t.todo[i].place = q
    BY <1>5, <1>10 DEF Planned
  <2>2. ASSUME NEW i \in LevelSteps(t), t.todo[i].place = q, i # 1
        PROVE  \E j \in LevelSteps(u) : u.todo[j].place = q
    <3>1. i - 1 \in Nat \ {0} /\ (i - 1) + 1 = i
      BY <1>1, <2>2 DEF LevelSteps
    <3>2. i - 1 \in LevelSteps(u)
      BY <1>3, <2>2, <3>1
    <3> QED
      BY <1>4, <2>2, <3>1, <3>2
  <2> QED
    BY <1>1, <1>7, <2>1, <2>2
<1>11. s.delta \in Int
  BY <1>1 DEF Statements
<1> QED
  BY <1>6, <1>8, <1>9, <1>10, <1>11 DEF Planned, s

LEMMA ChangeLevelKeeps ==
  ASSUME StockInv, NEW p, NEW name \in {"add", "take"}, Runs(p, name), ChangeLevel(p),
         name = "take" => Sees(Pending(p))
  PROVE  StockInv'
<1> DEFINE u == tx[p]
           s == Head(u.todo)
           t == [[u EXCEPT !.todo = Tail(u.todo)] EXCEPT !.deltas = Put(@, s.place, s.delta)]
<1>1. p \in DOMAIN tx /\ u.todo # <<>> /\ s.name = name /\ Pending(p) = s
  BY DEF Runs, At, Pending
<1>2. /\ u \in Transactions /\ Sound(u, movements, DOMAIN origin, levels)
      /\ \A q \in DOMAIN tx \ {p} : Apart(u, tx[q])
  BY <1>1, Context
<1>3. LevelChanged(u, t)
  BY <1>2 DEF LevelChanged, Transactions
<1>4. s.name \in LevelNames
  BY <1>1 DEF LevelNames
<1>5. Shape(t, movements, DOMAIN origin)
  BY <1>1, <1>2, <1>3, <1>4, LevelChangedShape DEF Sound
<1>6. Planned(t, movements) /\ s.place \in Places \ DOMAIN u.deltas /\ s.delta \in Int
  <2> HIDE DEF t
  <2> QED
    BY <1>1, <1>2, <1>3, <1>4, LevelChangedPlanned DEF Sound
<1>7. t \in Transactions
  <2>1. Tail(u.todo) \in Seq(Statements)
    BY <1>1, <1>2, TransactionType, TailType
  <2>2. Put(u.deltas, s.place, s.delta) \in UNION {[D -> Int] : D \in SUBSET Places}
    <3>1. DOMAIN u.deltas \union {s.place} \in SUBSET Places
      BY <1>2, <1>6, TransactionType
    <3>2. Put(u.deltas, s.place, s.delta) \in [DOMAIN u.deltas \union {s.place} -> Int]
      <4> HIDE DEF s, u
      <4> QED
        BY <1>2, <1>6, TransactionType DEF Put
    <3> QED
      BY <3>1, <3>2
  <2> HIDE DEF s
  <2> QED
    BY <1>2, <2>1, <2>2 DEF Transactions
<1>8. CASE ~ Fits(OnHand(s.place) + s.delta)
  BY <1>1, <1>8, LeaveKeeps DEF ChangeLevel
<1>9. CASE Fits(OnHand(s.place) + s.delta)
  <2>1. Succeed(p, t)
    BY <1>1, <1>9 DEF ChangeLevel, Done, After
  <2> HIDE DEF t
  <2>2. /\ DOMAIN t.deltas = DOMAIN u.deltas \union {s.place} /\ t.deltas[s.place] = s.delta
        /\ \A q \in DOMAIN u.deltas : t.deltas[q] = u.deltas[q]
        /\ t.kind = u.kind /\ t.locked = u.locked /\ t.write = u.write /\ t.row = u.row
        /\ t.id = u.id
    BY <1>3, <1>6 DEF LevelChanged, Put
  <2>3. Level(levels, s.place) = OnHand(s.place)
    BY DEF Level, OnHand
  <2>4. u.kind # "create" /\ s.delta < 0 => OnHand(s.place) + s.delta >= 0
    <3>1. u.kind # "create" /\ s.delta < 0 => name = "take"
      <4>1. u.todo \in Seq(Statements) /\ s = u.todo[1] /\ Len(u.todo) \in Nat \ {0}
        BY <1>1, <1>2, TransactionType, TailType
      <4>2. 1 \in LevelSteps(u)
        BY <1>4, <4>1 DEF LevelSteps
      <4>3. u.kind # "create" /\ s.name # "take" => s.delta > 0
        BY <1>2, <4>1, <4>2 DEF Sound, Planned
      <4> QED
        BY <1>1, <1>6, <4>3
    <3>2. name = "take" => OnHand(s.place) + s.delta >= 0
      BY <1>1 DEF Sees, OnHand
    <3> QED
      BY <3>1, <3>2
  <2>5. Room(t, levels)
    <3> HIDE DEF s, u
    <3> QED
      BY <1>2, <1>6, <1>9, <2>2, <2>3, <2>4 DEF Sound, Room
  <2>6. KeyIsFree(t, movements)
    BY <1>2, <2>2 DEF Sound, KeyIsFree, WritesKey
  <2>7. \A q \in DOMAIN tx \ {p} : Apart(t, tx[q])
    <3> TAKE q \in DOMAIN tx \ {p}
    <3>1. s.place \notin DOMAIN tx[q].deltas
      BY <1>1 DEF Runs, WaitsFor
    <3>2. Apart(u, tx[q])
      BY <1>2
    <3> QED
      BY <3>1, <3>2, <2>2 DEF Apart, WritesKey
  <2> QED
    BY <1>1, <1>5, <1>6, <1>7, <2>1, <2>5, <2>6, <2>7, SucceedKeeps DEF Sound
<1> QED
  BY <1>8, <1>9

\* An addition that found no row is looked up, and added without the guard.
LEMMA RenamedKeeps ==
  ASSUME StockInv, NEW p, NEW old \in {"take", "lookUp"}, Runs(p, old), Pending(p).delta > 0,
         NEW new \in {"lookUp", "add"},
         Succeed(p, After(p, <<LevelStatement(new, Pending(p).place, Pending(p).delta)>>
                               \o Tail(tx[p].todo)))
  PROVE  StockInv'
<1> DEFINE u == tx[p]
           s == Head(u.todo)
           r == LevelStatement(new, s.place, s.delta)
           todo == <<r>> \o Tail(u.todo)
           t == [u EXCEPT !.todo = todo]
<1>1. p \in DOMAIN tx /\ u.todo # <<>> /\ s.name = old /\ Pending(p) = s /\ s.delta > 0
  BY DEF Runs, At, Pending
<1>2. /\ u \in Transactions /\ Sound(u, movements, DOMAIN origin, levels)
      /\ \A q \in DOMAIN tx \ {p} : Apart(u, tx[q])
  BY <1>1, Context
<1>3. old \in LevelNames /\ new \in LevelNames
  BY DEF LevelNames
<1>4. /\ u.todo \in Seq(Statements) /\ Len(u.todo) \in Nat \ {0}
      /\ s = u.todo[1] /\ s \in Statements /\ Tail(u.todo) \in Seq(Statements)
      /\ Len(Tail(u.todo)) = Len(u.todo) - 1
      /\ \A i \in 1 .. Len(Tail(u.todo)) : Tail(u.todo)[i] = u.todo[i + 1]
  BY <1>1, <1>2, TransactionType, TailType
<1>5. u.kind # "create" /\ u.locked = {u.id} /\ u.write = "none" /\ Len(u.todo) > 1
  BY <1>1, <1>2, <1>3, HeadTells DEF Sound
<1>6. 1 \in LevelSteps(u)
  BY <1>1, <1>3, <1>4 DEF LevelSteps
<1>7. /\ r \in Statements /\ r.name = new /\ r.place = s.place /\ r.delta = s.delta
  <2>1. s.place \in Places /\ s.delta \in Int
    BY <1>2, <1>4, <1>6 DEF Sound, Planned, Statements
  <2> QED
    BY <1>3, <2>1, StatementType DEF LevelStatement, Names
<1> HIDE DEF r
<1>8. /\ todo \in Seq(Statements) /\ Len(todo) = Len(u.todo) /\ todo[1] = r
      /\ \A i \in 1 .. Len(u.todo) : i # 1 => todo[i] = u.todo[i]
  <2> DEFINE rest == Tail(u.todo)
  <2>1. rest \in Seq(Statements) /\ Len(rest) = Len(u.todo) - 1
        /\ \A i \in 1 .. Len(rest) : rest[i] = u.todo[i + 1]
    BY <1>4
  <2> HIDE DEF rest
  <2>2. todo \in Seq(Statements) /\ Len(todo) = Len(rest) + 1 /\ todo[1] = r
        /\ \A i \in 1 .. Len(rest) : todo[i + 1] = rest[i]
    BY <1>7, <2>1, FirstOf DEF rest
  <2>3. ASSUME NEW i \in 1 .. Len(u.todo), i # 1 PROVE todo[i] = u.todo[i]
    <3>1. i - 1 \in 1 .. Len(rest) /\ (i - 1) + 1 = i
      BY <1>4, <2>1, <2>3
    <3> QED
      BY <2>1, <2>2, <3>1
  <2> HIDE DEF todo
  <2> QED
    BY <1>4, <2>1, <2>2, <2>3
<1> HIDE DEF todo
<1>9. t \in Transactions /\ t.todo = todo /\ SameBut(t, u) /\ t.default = u.default
  BY <1>2, <1>8 DEF Transactions, SameBut
<1>10. Succeed(p, t)
  BY <1>1 DEF After, todo, r
<1> HIDE DEF t
<1>11. \A i \in 1 .. Len(u.todo) :
         /\ t.todo[i].name \in LevelNames <=> u.todo[i].name \in LevelNames
         /\ t.todo[i].place = u.todo[i].place /\ t.todo[i].delta = u.todo[i].delta
         /\ i # 1 => t.todo[i] = u.todo[i]
  BY <1>1, <1>3, <1>4, <1>7, <1>8, <1>9
<1>12. Shape(t, movements, DOMAIN origin)
  <2>1. ASSUME NEW last, ChangeShape(u, last, movements, DOMAIN origin)
        PROVE  ChangeShape(t, last, movements, DOMAIN origin)
    <3>1. LockedShape(u, last, movements)
      BY <1>5, <2>1 DEF ChangeShape
    <3>2. t.todo # <<>> /\ t.todo[Len(t.todo)] = Statement(last)
      <4>1. Len(u.todo) \in 1 .. Len(u.todo) /\ Len(u.todo) # 1
        <5>1. \A n \in Nat \ {0} : n > 1 => n \in 1 .. n /\ n # 1
          OBVIOUS
        <5> QED
          BY <1>4, <1>5, <5>1, Zenon
      <4>2. t.todo[Len(u.todo)] = u.todo[Len(u.todo)]
        BY <1>11, <4>1
      <4>3. u.todo[Len(u.todo)] = Statement(last)
        BY <1>1, <3>1 DEF LockedShape
      <4>4. t.todo # <<>>
        BY <1>4, <1>8, <1>9
      <4> QED
        BY <1>8, <1>9, <4>2, <4>3, <4>4
    <3>3. \A i \in 1 .. Len(t.todo) - 1 : t.todo[i].name \in LevelNames
      <4>1. \A i \in 1 .. Len(u.todo) - 1 : u.todo[i].name \in LevelNames
        BY <1>1, <3>1 DEF LockedShape
      <4> QED
        BY <1>4, <1>8, <1>9, <1>11, <4>1
    <3> QED
      BY <1>5, <1>9, <2>1, <3>1, <3>2, <3>3 DEF ChangeShape, LockedShape, SameBut
  <2> QED
    BY <1>2, <1>5, <1>9, <2>1 DEF Sound, Shape, SameBut
<1>13. Planned(t, movements)
  <2>1. \A i : i \in LevelSteps(t) <=> i \in LevelSteps(u)
    BY <1>8, <1>9, <1>11 DEF LevelSteps
  <2>2. \A q : Effect(t, movements, q) = Effect(u, movements, q)
    BY <1>9 DEF Effect, SameBut
  <2>3. t.kind = u.kind /\ t.deltas = u.deltas
    BY <1>9 DEF SameBut
  <2>4. \A i \in LevelSteps(u) : i \in 1 .. Len(u.todo)
    BY DEF LevelSteps
  <2>5. ASSUME NEW i \in LevelSteps(u), t.todo[i].name # "take" PROVE t.todo[i].delta > 0
    <3>1. CASE i = 1
      BY <1>1, <1>4, <1>11, <2>4, <3>1
    <3>2. CASE i # 1
      BY <1>2, <1>5, <1>11, <2>4, <2>5, <3>2 DEF Sound, Planned
    <3> QED
      BY <3>1, <3>2
  <2>6. \A i \in LevelSteps(u) : t.todo[i].place = u.todo[i].place /\ t.todo[i].delta = u.todo[i].delta
    BY <1>11, <2>4
  <2>7. Planned(u, movements)
    BY <1>2 DEF Sound
  <2> QED
    BY <2>1, <2>2, <2>3, <2>5, <2>6, <2>7 DEF Planned
<1>14. Room(t, levels) /\ KeyIsFree(t, movements)
  BY <1>2, <1>9 DEF Sound, Room, KeyIsFree, WritesKey, SameBut
<1>15. \A q \in DOMAIN tx \ {p} : Apart(t, tx[q])
  BY <1>2, <1>9 DEF Apart, SameBut, WritesKey
<1> QED
  BY <1>1, <1>9, <1>10, <1>12, <1>13, <1>14, <1>15, SucceedKeeps DEF Sound

LEMMA LevelStepsKeep ==
  ASSUME StockInv, NEW p,
         ApplyStockDelta(p) \/ ApplyNonnegativeStockDelta(p) \/ GetStockLevel(p)
  PROVE  StockInv'
<1> DEFINE s == Pending(p)
<1>1. CASE ApplyStockDelta(p)
  BY <1>1, ChangeLevelKeeps DEF ApplyStockDelta
<1>2. CASE ApplyNonnegativeStockDelta(p)
  <2>1. CASE Sees(s)
    BY <1>2, <2>1, ChangeLevelKeeps DEF ApplyNonnegativeStockDelta
  <2>2. CASE ~ Sees(s) /\ s.delta > 0
    BY <1>2, <2>2, RenamedKeeps DEF ApplyNonnegativeStockDelta
  <2>3. CASE ~ Sees(s) /\ ~ (s.delta > 0)
    BY <1>2, <2>3, LeaveKeeps DEF ApplyNonnegativeStockDelta, Runs, At
  <2> QED
    BY <2>1, <2>2, <2>3
<1>3. CASE GetStockLevel(p)
  <2>1. Runs(p, "lookUp") /\ p \in DOMAIN tx
    BY <1>3 DEF GetStockLevel, Runs, At
  <2>2. CASE s.place \in DOMAIN levels
    BY <1>3, <2>1, <2>2, LeaveKeeps DEF GetStockLevel
  <2>3. CASE s.place \notin DOMAIN levels
    <3>1. s.delta > 0
      <4> DEFINE u == tx[p]
      <4>1. u.todo # <<>> /\ s = Head(u.todo) /\ s.name = "lookUp"
        BY <2>1 DEF Runs, At, Pending
      <4>2. u \in Transactions /\ Sound(u, movements, DOMAIN origin, levels)
        BY <2>1, Context
      <4>3. u.todo \in Seq(Statements) /\ s = u.todo[1] /\ Len(u.todo) \in Nat \ {0}
        BY <4>1, <4>2, TransactionType, TailType
      <4>4. 1 \in LevelSteps(u)
        BY <4>1, <4>3 DEF LevelSteps, LevelNames
      <4>5. u.kind # "create"
        BY <4>1, <4>2, HeadTells DEF Sound, LevelNames
      <4> QED
        BY <4>1, <4>2, <4>3, <4>4, <4>5 DEF Sound, Planned
    <3> QED
      BY <1>3, <2>1, <2>3, <3>1, RenamedKeeps DEF GetStockLevel
  <2> QED
    BY <2>2, <2>3
<1> QED
  BY <1>1, <1>2, <1>3

-----------------------------------------------------------------------------
(* The lock of a row, and what is planned with it *)

LEMMA LastOf ==
  ASSUME NEW S, NEW c \in S, NEW s \in Seq(S)
  PROVE  /\ s \o <<c>> \in Seq(S) /\ Len(s \o <<c>>) = Len(s) + 1
         /\ (s \o <<c>>)[Len(s) + 1] = c
         /\ \A i \in 1 .. Len(s) : (s \o <<c>>)[i] = s[i]
<1> DEFINE r == <<c>>
<1>1. r \in Seq(S) /\ Len(r) = 1 /\ r[1] = c /\ Len(s) \in Nat
  BY LenProperties
<1> HIDE DEF r
<1>2. s \o r \in Seq(S) /\ Len(s \o r) = Len(s) + Len(r)
      /\ \A i \in 1 .. Len(s) + Len(r) : (s \o r)[i] = IF i <= Len(s) THEN s[i] ELSE r[i - Len(s)]
  BY <1>1, ConcatProperties
<1>3. \A i \in 1 .. Len(s) : (s \o r)[i] = s[i]
  BY <1>1, <1>2
<1>4. (s \o r)[Len(s) + 1] = c
  <2>1. Len(s) + 1 \in 1 .. Len(s) + Len(r) /\ ~ (Len(s) + 1 <= Len(s)) /\ (Len(s) + 1) - Len(s) = 1
    BY <1>1
  <2> QED
    BY <2>1, <1>1, <1>2
<1> QED
  BY <1>1, <1>2, <1>3, <1>4 DEF r

\* The statements ds change each place by D, and every place that D changes.
Carries(ds, D) ==
  /\ ds \in Seq(Statements)
  /\ \A i \in 1 .. Len(ds) :
       /\ ds[i].name = "take" /\ ds[i].place \in Places
       /\ ds[i].delta # 0 /\ ds[i].delta = D[ds[i].place]
       /\ \A j \in 1 .. Len(ds) : ds[i].place = ds[j].place => i = j
  /\ \A q \in Places : D[q] # 0 => \E i \in 1 .. Len(ds) : ds[i].place = q

LEMMA TakeType ==
  ASSUME NEW place \in Places, NEW delta \in Int
  PROVE  /\ LevelStatement("take", place, delta) \in Statements
         /\ LevelStatement("take", place, delta).name = "take"
         /\ LevelStatement("take", place, delta).place = place
         /\ LevelStatement("take", place, delta).delta = delta
  BY StatementType DEF LevelStatement, Names, LevelNames

LEMMA OneCarries ==
  ASSUME NEW place \in Places, NEW delta \in Int, NEW D,
         \A q \in Places : D[q] = IF q = place THEN delta ELSE 0
  PROVE  Carries(NonnegativeDelta(place, delta), D)
<1>1. CASE delta = 0
  BY <1>1 DEF Carries, NonnegativeDelta
<1>2. CASE delta # 0
  <2> DEFINE s == LevelStatement("take", place, delta)
             ds == <<s>>
  <2>1. s \in Statements /\ s.name = "take" /\ s.place = place /\ s.delta = delta
    BY TakeType
  <2> HIDE DEF s
  <2>2. ds \in Seq(Statements) /\ Len(ds) = 1 /\ ds[1] = s
    BY <2>1
  <2>3. NonnegativeDelta(place, delta) = ds
    BY <1>2 DEF NonnegativeDelta, s
  <2> HIDE DEF ds
  <2>4. (\A i \in 1 .. Len(ds) : i = 1) /\ 1 \in 1 .. Len(ds)
    BY <2>2
  <2>5. D[place] = delta /\ \A q \in Places : D[q] # 0 => q = place
    OBVIOUS
  <2>6. \A i \in 1 .. Len(ds) :
          /\ ds[i].name = "take" /\ ds[i].place \in Places
          /\ ds[i].delta # 0 /\ ds[i].delta = D[ds[i].place]
          /\ \A j \in 1 .. Len(ds) : ds[i].place = ds[j].place => i = j
    BY <1>2, <2>1, <2>2, <2>4, <2>5
  <2>7. \A q \in Places : D[q] # 0 => \E i \in 1 .. Len(ds) : ds[i].place = q
    BY <2>1, <2>2, <2>4, <2>5
  <2> QED
    BY <2>2, <2>3, <2>6, <2>7 DEF Carries
<1> QED
  BY <1>1, <1>2

LEMMA TwoCarry ==
  ASSUME NEW a \in Places, NEW b \in Places, a # b, NEW x \in Int, x # 0, NEW y \in Int, y # 0,
         NEW D, \A q \in Places : D[q] = IF q = a THEN x ELSE IF q = b THEN y ELSE 0
  PROVE  Carries(NonnegativeDelta(a, x) \o NonnegativeDelta(b, y), D)
<1> DEFINE s == LevelStatement("take", a, x)
           r == LevelStatement("take", b, y)
           ds == <<s, r>>
<1>1. /\ s \in Statements /\ s.name = "take" /\ s.place = a /\ s.delta = x
      /\ r \in Statements /\ r.name = "take" /\ r.place = b /\ r.delta = y
  BY TakeType
<1>2. NonnegativeDelta(a, x) \o NonnegativeDelta(b, y) = ds
  BY PairOf DEF NonnegativeDelta
<1> HIDE DEF s, r
<1>3. ds \in Seq(Statements) /\ Len(ds) = 2 /\ ds[1] = s /\ ds[2] = r
  BY <1>1
<1> HIDE DEF ds
<1>4. \A i \in 1 .. Len(ds) : i = 1 \/ i = 2
  BY <1>3
<1>5. 1 \in 1 .. Len(ds) /\ 2 \in 1 .. Len(ds)
  BY <1>3
<1>6. \A i \in 1 .. Len(ds) :
        /\ ds[i].name = "take" /\ ds[i].place \in Places
        /\ ds[i].delta # 0 /\ ds[i].delta = D[ds[i].place]
        /\ \A j \in 1 .. Len(ds) : ds[i].place = ds[j].place => i = j
  BY <1>1, <1>3, <1>4
<1>7. \A q \in Places : D[q] # 0 => \E i \in 1 .. Len(ds) : ds[i].place = q
  BY <1>1, <1>3, <1>5
<1> QED
  BY <1>2, <1>3, <1>6, <1>7 DEF Carries

\* applyMovementEditDelta: the edit of a row changes each place by what the row adds to it.
LEMMA EditCarries ==
  ASSUME InventoryAssumption, NEW old \in StockMovement, NEW new \in StockMovement, NEW D,
         \A q \in Places : D[q] = Amount(new, q) - Amount(old, q)
  PROVE  Carries(MovementEditDelta(old, new), D)
<1>1. /\ SignedQuantity(old) \in Int /\ SignedQuantity(old) # 0 /\ old.where \in Places
      /\ SignedQuantity(new) \in Int /\ SignedQuantity(new) # 0 /\ new.where \in Places
  BY AmountType
<1>2. CASE old.where = new.where
  <2>1. MovementDelta(old, new) \in Int
    BY <1>1 DEF MovementDelta
  <2>2. \A q \in Places : D[q] = IF q = old.where THEN MovementDelta(old, new) ELSE 0
    BY <1>1, <1>2 DEF Amount, MovementDelta
  <2> QED
    BY <1>1, <1>2, <2>1, <2>2, OneCarries DEF MovementEditDelta
<1>3. CASE old.where # new.where
  <2>1. - SignedQuantity(old) \in Int /\ - SignedQuantity(old) # 0
    BY <1>1
  <2>2. \A q \in Places : D[q] = IF q = old.where THEN - SignedQuantity(old)
                                 ELSE IF q = new.where THEN SignedQuantity(new) ELSE 0
    BY <1>1, <1>3 DEF Amount
  <2>3. Carries(NonnegativeDelta(old.where, - SignedQuantity(old))
                  \o NonnegativeDelta(new.where, SignedQuantity(new)), D)
    BY <1>1, <1>3, <2>1, <2>2, TwoCarry
  <2> QED
    BY <1>3, <2>3 DEF MovementEditDelta
<1> QED
  BY <1>2, <1>3

LEMMA LockKeeps ==
  ASSUME StockInv, NEW p, Runs(p, "lock"), tx[p].id \in DOMAIN movements,
         NEW last \in {"update", "delete"},
         tx[p].kind = (IF last = "update" THEN "edit" ELSE "delete"),
         NEW t, NEW ds, NEW row \in StockMovement \union {NoRow},
         t = [tx[p] EXCEPT !.locked = {tx[p].id}, !.row = row, !.todo = ds \o <<Statement(last)>>],
         last = "update" => row \in StockMovement /\ row.key = tx[p].form.key,
         Carries(ds, [q \in Places |-> (IF last = "update" THEN Amount(row, q) ELSE 0)
                                         - Amount(movements[tx[p].id], q)]),
         Succeed(p, t)
  PROVE  StockInv'
<1> DEFINE u == tx[p]
           todo == ds \o <<Statement(last)>>
           D == [q \in Places |-> (IF last = "update" THEN Amount(row, q) ELSE 0)
                                    - Amount(movements[u.id], q)]
<1>1. p \in DOMAIN tx /\ u.todo # <<>> /\ Head(u.todo).name = "lock"
  BY DEF Runs, At, Pending
<1>2. /\ u \in Transactions /\ Sound(u, movements, DOMAIN origin, levels)
      /\ \A q \in DOMAIN tx \ {p} : Apart(u, tx[q])
  BY <1>1, Context
<1>3. u.locked = {} /\ u.write = "none" /\ u.todo = <<Statement("lock")>> /\ DOMAIN u.deltas = {}
  BY <1>1, <1>2, HeadTells DEF Sound
<1>4. ChangeShape(u, last, movements, DOMAIN origin)
  BY <1>2 DEF Sound, Shape
<1>5. Carries(ds, D)
  OBVIOUS
<1> HIDE DEF D
<1>6. /\ todo \in Seq(Statements) /\ Len(todo) = Len(ds) + 1 /\ Len(ds) \in Nat
      /\ todo[Len(ds) + 1] = Statement(last)
      /\ \A i \in 1 .. Len(ds) : todo[i] = ds[i]
  <2>1. Statement(last) \in Statements
    BY StatementType DEF Names
  <2>2. ds \in Seq(Statements) /\ Len(ds) \in Nat
    BY <1>5, LenProperties DEF Carries
  <2> QED
    BY <2>1, <2>2, LastOf
<1> HIDE DEF todo
<1>7. t = [u EXCEPT !.locked = {u.id}, !.row = row, !.todo = todo]
  BY DEF todo
<1>8. /\ t \in Transactions /\ t.kind = u.kind /\ t.form = u.form /\ t.id = u.id /\ t.todo = todo
      /\ t.write = "none" /\ t.row = row /\ t.deltas = u.deltas /\ t.locked = {u.id}
      /\ t.default = u.default
  <2>1. {u.id} \in SUBSET Ids
    BY <1>2, TransactionType
  <2> QED
    BY <1>2, <1>3, <1>6, <1>7, <2>1 DEF Transactions
<1>9. \A i \in 1 .. Len(ds) : todo[i].name \in LevelNames
  BY <1>5, <1>6 DEF Carries, LevelNames
<1>10. Shape(t, movements, DOMAIN origin)
  <2>1. todo # <<>> /\ todo[Len(todo)] = Statement(last)
    BY <1>6
  <2>2. \A i \in 1 .. Len(todo) - 1 : todo[i].name \in LevelNames
    BY <1>6, <1>9
  <2>3. ChangeShape(t, last, movements, DOMAIN origin)
    BY <1>4, <1>8, <2>1, <2>2 DEF ChangeShape, LockedShape
  <2>4. u.kind = "edit" => u.form \in EditForms
    BY <1>2 DEF Sound, Shape
  <2> QED
    BY <1>8, <2>3, <2>4 DEF Shape
<1>11. Planned(t, movements)
  <2>1. LevelSteps(t) = 1 .. Len(ds)
    <3>1. Statement(last).name \notin LevelNames
      BY DEF Statement, LevelNames
    <3>2. \A i \in 1 .. Len(todo) : i \in 1 .. Len(ds) \/ i = Len(ds) + 1
      BY <1>6
    <3>3. \A i \in 1 .. Len(ds) : i \in 1 .. Len(todo)
      BY <1>6
    <3> QED
      BY <1>6, <1>8, <1>9, <3>1, <3>2, <3>3 DEF LevelSteps
  <2>2. \A q \in Places : Effect(t, movements, q) = D[q]
    BY <1>8 DEF Effect, D
  <2>3. \A i \in 1 .. Len(ds) : t.todo[i] = ds[i]
    BY <1>6, <1>8
  <2>4. DOMAIN t.deltas = {}
    BY <1>3, <1>8
  <2> QED
    BY <1>5, <2>1, <2>2, <2>3, <2>4 DEF Carries, Planned
<1>12. Room(t, levels) /\ KeyIsFree(t, movements)
  BY <1>3, <1>8 DEF Room, KeyIsFree, WritesKey
<1>13. \A q \in DOMAIN tx \ {p} : Apart(t, tx[q])
  <2> TAKE q \in DOMAIN tx \ {p}
  <2>1. u.id \notin tx[q].locked
    BY DEF Runs, WaitsFor
  <2> QED
    BY <1>2, <1>3, <1>8, <2>1 DEF Apart, WritesKey
<1> QED
  BY <1>1, <1>8, <1>10, <1>11, <1>12, <1>13, SucceedKeeps DEF Sound

LEMMA GetStockMovementForUpdateKeeps ==
  ASSUME StockInv, InventoryAssumption, NEW p, GetStockMovementForUpdate(p)
  PROVE  StockInv'
<1> DEFINE u == tx[p]
           old == movements[u.id]
<1>1. Runs(p, "lock") /\ p \in DOMAIN tx /\ u.todo # <<>> /\ Head(u.todo).name = "lock"
  BY DEF GetStockMovementForUpdate, Runs, At, Pending
<1>2. u \in Transactions /\ Sound(u, movements, DOMAIN origin, levels)
  BY <1>1, Context
<1>3. u.kind \in {"edit", "delete"}
  BY <1>1, <1>2, HeadTells DEF Sound
<1>4. CASE u.id \notin DOMAIN movements
  BY <1>1, <1>4, LeaveKeeps DEF GetStockMovementForUpdate
<1>5. CASE u.id \in DOMAIN movements /\ u.kind = "edit"
  <2> DEFINE new == RowOf(u.form, old.where, old.by)
  <2>1. Edited(p, old)
    BY <1>5 DEF GetStockMovementForUpdate
  <2>2. old \in StockMovement
    BY <1>5 DEF StockInv, RowsInv
  <2>3. new \in StockMovement /\ new.key = u.form.key
    <3>1. u.form \in EditForms
      BY <1>2, <1>5 DEF Sound, Shape
    <3>2. u.form \in StockMovementRequest /\ old.where \in Places /\ old.by \in Users
      BY <2>2, <3>1 DEF StockMovement, InventoryAssumption
    <3> QED
      BY <3>2, RowType
  <2> HIDE DEF new
  <2>4. CASE old.key = new.key
    BY <1>1, <2>1, <2>4, LeaveKeeps DEF Edited, new
  <2>5. CASE old.key # new.key
    <3> DEFINE ds == MovementEditDelta(old, new)
               t == [u EXCEPT !.locked = {u.id}, !.row = new, !.todo = ds \o <<Statement("update")>>]
               D == [q \in Places |-> (IF "update" = "update" THEN Amount(new, q) ELSE 0)
                                        - Amount(old, q)]
    <3>1. Succeed(p, t)
      BY <2>1, <2>5 DEF Edited, new
    <3>2. Carries(ds, D)
      <4>1. \A q \in Places : D[q] = Amount(new, q) - Amount(old, q)
        OBVIOUS
      <4> HIDE DEF D
      <4> QED
        BY <2>2, <2>3, <4>1, EditCarries
    <3> HIDE DEF ds
    <3> QED
      BY <1>1, <1>5, <2>3, <3>1, <3>2, LockKeeps
  <2> QED
    BY <2>4, <2>5
<1>6. CASE u.id \in DOMAIN movements /\ u.kind = "delete"
  <2> DEFINE ds == NonnegativeDelta(old.where, - SignedQuantity(old))
             t == [u EXCEPT !.locked = {u.id}, !.row = u.row, !.todo = ds \o <<Statement("delete")>>]
             D == [q \in Places |-> (IF "delete" = "update" THEN Amount(u.row, q) ELSE 0)
                                      - Amount(old, q)]
  <2>1. Succeed(p, [u EXCEPT !.locked = {u.id}, !.todo = ds \o <<Statement("delete")>>])
    BY <1>6 DEF GetStockMovementForUpdate, Reversed
  <2>2. u.row \in StockMovement \union {NoRow}
    BY <1>2 DEF Transactions
  <2>3. Carries(ds, D)
    <3>1. old \in StockMovement
      BY <1>6 DEF StockInv, RowsInv
    <3>2. SignedQuantity(old) \in Int /\ old.where \in Places
      BY <3>1, AmountType
    <3>3. \A q \in Places : D[q] = IF q = old.where THEN - SignedQuantity(old) ELSE 0
      BY <3>2 DEF Amount
    <3>4. - SignedQuantity(old) \in Int
      BY <3>2
    <3> HIDE DEF D
    <3> QED
      BY <3>2, <3>3, <3>4, OneCarries
  <2> HIDE DEF ds
  <2>4. Succeed(p, t)
    <3>1. t = [u EXCEPT !.locked = {u.id}, !.todo = ds \o <<Statement("delete")>>]
      BY <1>2 DEF Transactions
    <3> QED
      BY <2>1, <3>1
  <2> QED
    BY <1>1, <1>6, <2>2, <2>3, <2>4, LockKeeps
<1> QED
  BY <1>3, <1>4, <1>5, <1>6

\* The row of the movement is written last, when its levels have been changed.
LEMMA WriteKeeps ==
  ASSUME StockInv, NEW p, NEW last \in {"update", "delete"}, Runs(p, last),
         last = "update" => KeyHolders(tx[p].row.key) = {},
         Succeed(p, [Done(p) EXCEPT !.write = last])
  PROVE  StockInv'
<1> DEFINE u == tx[p]
           t == [[u EXCEPT !.todo = Tail(u.todo)] EXCEPT !.write = last]
<1>1. p \in DOMAIN tx /\ u.todo # <<>> /\ Head(u.todo).name = last
  BY DEF Runs, At, Pending
<1>2. /\ u \in Transactions /\ Sound(u, movements, DOMAIN origin, levels)
      /\ \A q \in DOMAIN tx \ {p} : Apart(u, tx[q])
  BY <1>1, Context
<1>3. /\ u.kind = (IF last = "update" THEN "edit" ELSE "delete")
      /\ u.locked = {u.id} /\ u.write = "none" /\ u.todo = <<Statement(last)>>
  BY <1>1, <1>2, HeadTells DEF Sound, WritesLast
<1>4. Tail(u.todo) = <<>> /\ Len(u.todo) = 1 /\ u.todo[1].name = last
  <2> DEFINE a == Statement(last)
  <2>1. u.todo = <<a>> /\ a.name = last
    BY <1>3 DEF Statement
  <2> HIDE DEF a
  <2> QED
    BY <2>1
<1>5. /\ t \in Transactions /\ t.todo = <<>> /\ t.write = last /\ t.kind = u.kind /\ t.form = u.form
      /\ t.id = u.id /\ t.row = u.row /\ t.deltas = u.deltas /\ t.locked = u.locked
      /\ t.default = u.default
  <2>1. Tail(u.todo) \in Seq(Statements)
    <3>1. <<>> \in Seq(Statements)
      OBVIOUS
    <3> QED
      BY <1>4, <3>1, Zenon
  <2> QED
    BY <1>2, <1>4, <2>1 DEF Transactions
<1>6. Succeed(p, t)
  BY DEF Done, After
<1> HIDE DEF t
<1>7. Shape(t, movements, DOMAIN origin)
  <2>1. ChangeShape(u, last, movements, DOMAIN origin) /\ u.locked # {}
    BY <1>2, <1>3 DEF Sound, Shape
  <2>2. ChangeShape(t, last, movements, DOMAIN origin)
    BY <2>1, <1>5 DEF ChangeShape, LockedShape
  <2> QED
    BY <1>2, <1>3, <1>5, <2>2 DEF Sound, Shape
<1>8. Planned(t, movements)
  <2>1. LevelSteps(t) = {}
    BY <1>5 DEF LevelSteps
  <2>2. LevelSteps(u) = {}
    BY <1>4 DEF LevelSteps, LevelNames
  <2>3. \A q : Effect(t, movements, q) = Effect(u, movements, q)
    BY <1>3, <1>5 DEF Effect
  <2> QED
    BY <1>2, <1>5, <2>1, <2>2, <2>3 DEF Sound, Planned
<1>9. Room(t, levels)
  BY <1>2, <1>5 DEF Sound, Room
<1>10. KeyIsFree(t, movements)
  BY <1>5 DEF KeyIsFree, WritesKey, KeyHolders
<1>11. \A q \in DOMAIN tx \ {p} : Apart(t, tx[q])
  <2> TAKE q \in DOMAIN tx \ {p}
  <2>1. ASSUME WritesKey(t), WritesKey(tx[q]) PROVE t.row.key # tx[q].row.key
    <3>1. last = "update"
      BY <1>5, <2>1 DEF WritesKey
    <3>2. u.row.key = u.form.key
      BY <1>2, <1>3, <3>1 DEF Sound, Shape
    <3>3. ~ Touches(q, u.form.key)
      BY <3>1 DEF Runs, WaitsFor
    <3> QED
      BY <1>5, <2>1, <3>2, <3>3 DEF Touches, WritesKey
  <2>2. Apart(u, tx[q])
    BY <1>2
  <2> QED
    BY <1>5, <2>1, <2>2 DEF Apart
<1> QED
  BY <1>1, <1>5, <1>6, <1>7, <1>8, <1>9, <1>10, <1>11, SucceedKeeps DEF Sound

LEMMA WritesKeep ==
  ASSUME StockInv, NEW p, UpdateStockMovement(p) \/ DeleteStockMovement(p)
  PROVE  StockInv'
<1>1. CASE UpdateStockMovement(p) /\ KeyHolders(tx[p].row.key) # {}
  BY <1>1, LeaveKeeps DEF UpdateStockMovement, Runs, At
<1>2. CASE UpdateStockMovement(p) /\ KeyHolders(tx[p].row.key) = {}
  BY <1>2, WriteKeeps DEF UpdateStockMovement
<1>3. CASE DeleteStockMovement(p)
  BY <1>3, WriteKeeps DEF DeleteStockMovement
<1> QED
  BY <1>1, <1>2, <1>3

-----------------------------------------------------------------------------
(* Commits *)

\* A transaction that commits has written its row.
CommitShape(t, m, O) ==
  \/ /\ t.kind = "create" /\ t.write = "insert" /\ t.row \in StockMovement
     /\ t.locked = {} /\ t.id \notin O
  \/ /\ t.kind = "edit" /\ t.write = "update" /\ t.row \in StockMovement
     /\ t.locked = {t.id} /\ t.id \in DOMAIN m
  \/ t.kind = "delete" /\ t.write = "delete" /\ t.locked = {t.id} /\ t.id \in DOMAIN m

LEMMA CommitShaped ==
  ASSUME NEW t, NEW m, NEW O, Shape(t, m, O), t.todo = <<>>
  PROVE  CommitShape(t, m, O)
<1>1. \A a, b : <<a>> # <<>> /\ <<a, b>> # <<>>
  OBVIOUS
<1>2. CASE t.kind = "create"
  <2>1. CreateShape(t, O)
    BY <1>2 DEF Shape
  <2>2. t.todo \notin {<<Statement("getDefault"), Statement("insert")>>,
                       <<Statement("makeDefault"), Statement("insert")>>,
                       <<Statement("insert")>>}
    BY <1>1, Zenon
  <2> QED
    BY <1>2, <2>1, <2>2 DEF CreateShape, CommitShape
<1>3. ASSUME NEW last, ChangeShape(t, last, m, O)
      PROVE  t.locked = {t.id} /\ t.id \in DOMAIN m /\ t.write = last
  <2>1. t.todo # <<Statement("lock")>>
    BY <1>1, Zenon
  <2> QED
    BY <1>3, <2>1 DEF ChangeShape, LockedShape
<1>4. CASE t.kind = "edit"
  BY <1>3, <1>4 DEF Shape, CommitShape
<1>5. CASE t.kind = "delete"
  BY <1>3, <1>5 DEF Shape, CommitShape
<1> QED
  BY <1>2, <1>4, <1>5 DEF Shape

LEMMA CommitContext ==
  ASSUME StockInv, NEW p, Commit(p)
  PROVE  /\ p \in DOMAIN tx /\ tx[p] \in Transactions
         /\ Sound(tx[p], movements, DOMAIN origin, levels)
         /\ \A q \in DOMAIN tx \ {p} : Apart(tx[p], tx[q])
         /\ CommitShape(tx[p], movements, DOMAIN origin)
         /\ LevelSteps(tx[p]) = {}
<1>1. p \in DOMAIN tx /\ tx[p].todo = <<>>
  BY DEF Commit
<1>2. LevelSteps(tx[p]) = {}
  BY <1>1 DEF LevelSteps
<1> QED
  BY <1>1, <1>2, Context, CommitShaped DEF Sound

LEMMA EffectType ==
  ASSUME InventoryAssumption, NEW t, NEW m, m \in [DOMAIN m -> StockMovement],
         t.locked # {} => t.id \in DOMAIN m,
         t.write = "insert" \/ (t.kind = "edit" /\ t.locked # {}) => t.row \in StockMovement,
         NEW q
  PROVE  Effect(t, m, q) \in Int
<1>1. t.locked # {} => Amount(m[t.id], q) \in Int
  BY AmountType
<1>2. t.write = "insert" \/ (t.kind = "edit" /\ t.locked # {}) => Amount(t.row, q) \in Int
  BY AmountType
<1> QED
  BY <1>1, <1>2 DEF Effect

\* Every level ends where its deltas say, and these are what the rows change.
LEMMA CommitLevels ==
  ASSUME StockInv, InventoryAssumption, NEW p, Commit(p)
  PROVE  /\ DOMAIN levels' = DOMAIN levels \union DOMAIN tx[p].deltas
         /\ DOMAIN levels' \subseteq Places /\ levels' \in [DOMAIN levels' -> Int]
         /\ \A q \in DOMAIN levels' : Fits(levels'[q])
         /\ \A q \in Places : /\ Level(levels, q) \in Int /\ Effect(tx[p], movements, q) \in Int
                              /\ Level(levels', q) = Level(levels, q) + Effect(tx[p], movements, q)
         /\ \A q \in Places : q \notin DOMAIN tx[p].deltas => Level(levels', q) = Level(levels, q)
         /\ tx[p].kind # "create" => \A q \in Places :
              Level(levels', q) < Level(levels, q) => Level(levels', q) >= 0
<1> DEFINE t == tx[p]
<1>1. /\ p \in DOMAIN tx /\ t \in Transactions /\ Planned(t, movements) /\ Room(t, levels)
      /\ CommitShape(t, movements, DOMAIN origin) /\ LevelSteps(t) = {}
  BY CommitContext DEF Sound
<1>2. levels' = [q \in DOMAIN levels \union DOMAIN t.deltas |->
                   OnHand(q) + IF q \in DOMAIN t.deltas THEN t.deltas[q] ELSE 0]
  BY DEF Commit
<1>3. \A q : OnHand(q) = Level(levels, q)
  BY DEF OnHand, Level
<1>4. \A q : Level(levels, q) \in Int
  BY DEF StockInv, RowsInv, Level
<1>5. DOMAIN t.deltas \subseteq Places /\ \A q \in DOMAIN t.deltas : t.deltas[q] \in Int
  BY <1>1, TransactionType
<1>6. \A q : Effect(t, movements, q) \in Int
  <2>1. movements \in [DOMAIN movements -> StockMovement]
    BY DEF StockInv, RowsInv
  <2>2. /\ t.locked # {} => t.id \in DOMAIN movements
        /\ t.write = "insert" \/ (t.kind = "edit" /\ t.locked # {}) => t.row \in StockMovement
    BY <1>1 DEF CommitShape
  <2> QED
    BY <2>1, <2>2, EffectType
<1> HIDE DEF t
<1>7. \A q \in DOMAIN levels' :
        levels'[q] = Level(levels, q) + IF q \in DOMAIN t.deltas THEN t.deltas[q] ELSE 0
  BY <1>2, <1>3
<1>8. DOMAIN levels' = DOMAIN levels \union DOMAIN t.deltas
  BY <1>2
<1>9. DOMAIN levels' \subseteq Places
  BY <1>5, <1>8 DEF StockInv, RowsInv
<1>10. levels' \in [DOMAIN levels' -> Int]
  BY <1>2, <1>3, <1>4, <1>5
<1>11. ASSUME NEW q \in DOMAIN levels' PROVE Fits(levels'[q])
  <2>1. CASE q \in DOMAIN t.deltas
    BY <1>1, <1>7, <2>1 DEF Room
  <2>2. CASE q \notin DOMAIN t.deltas
    <3>1. q \in DOMAIN levels /\ levels'[q] = Level(levels, q) + 0
      BY <1>7, <1>8, <2>2
    <3>2. levels'[q] = levels[q] /\ Fits(levels[q])
      BY <3>1, <1>4 DEF Level, StockInv, RowsInv
    <3> QED
      BY <3>2
  <2> QED
    BY <2>1, <2>2
<1>12. \A q : Level(levels', q) =
                IF q \in DOMAIN t.deltas THEN Level(levels, q) + t.deltas[q] ELSE Level(levels, q)
  <2> TAKE q
  <2>1. CASE q \in DOMAIN t.deltas
    BY <1>7, <1>8, <2>1 DEF Level
  <2>2. CASE q \notin DOMAIN t.deltas
    BY <1>4, <1>7, <1>8, <2>2 DEF Level
  <2> QED
    BY <2>1, <2>2
<1>13. ASSUME NEW q \in Places
       PROVE  Level(levels', q) = Level(levels, q) + Effect(t, movements, q)
  <2>1. q \notin DOMAIN t.deltas => Effect(t, movements, q) = 0
    BY <1>1 DEF Planned
  <2>2. q \in DOMAIN t.deltas => t.deltas[q] = Effect(t, movements, q)
    BY <1>1 DEF Planned
  <2> QED
    BY <1>4, <1>12, <2>1, <2>2
<1>14. ASSUME t.kind # "create", NEW q \in Places, Level(levels', q) < Level(levels, q)
       PROVE  Level(levels', q) >= 0
  <2>1. q \in DOMAIN t.deltas
    BY <1>4, <1>12, <1>14
  <2>2. t.deltas[q] < 0
    BY <1>4, <1>5, <1>12, <1>14, <2>1
  <2> QED
    BY <1>1, <1>12, <1>14, <2>1, <2>2 DEF Room
<1> QED
  BY <1>4, <1>6, <1>8, <1>9, <1>10, <1>11, <1>12, <1>13, <1>14 DEF t

LEMMA CommitRows ==
  ASSUME StockInv, NEW p, Commit(p)
  PROVE  /\ tx[p].write = "delete" =>
              /\ DOMAIN movements' = DOMAIN movements \ {tx[p].id} /\ origin' = origin
         /\ tx[p].write # "delete" =>
              /\ DOMAIN movements' = DOMAIN movements \union {tx[p].id}
              /\ movements'[tx[p].id] = tx[p].row
         /\ tx[p].write = "insert" => origin' = Put(origin, tx[p].id, tx[p].row.key)
         /\ tx[p].write # "insert" => origin' = origin
         /\ \A i \in DOMAIN movements \ {tx[p].id} : movements'[i] = movements[i]
         /\ movements' \in [DOMAIN movements' -> StockMovement]
<1> DEFINE t == tx[p]
<1>1. CommitShape(t, movements, DOMAIN origin)
  BY CommitContext
<1>2. movements \in [DOMAIN movements -> StockMovement]
  BY DEF StockInv, RowsInv
<1>3. /\ movements' = IF t.write = "delete" THEN Without(movements, t.id)
                                            ELSE Put(movements, t.id, t.row)
      /\ origin' = IF t.write = "insert" THEN Put(origin, t.id, t.row.key) ELSE origin
  BY DEF Commit
<1> HIDE DEF t
<1>4. CASE t.write = "delete"
  BY <1>2, <1>3, <1>4 DEF Without, t
<1>5. CASE t.write # "delete"
  <2>1. t.row \in StockMovement
    BY <1>1, <1>5 DEF CommitShape
  <2> QED
    BY <1>2, <1>3, <1>5, <2>1 DEF Put, t
<1> QED
  BY <1>4, <1>5

\* The levels after the commit are the sums of the movements after it.
LEMMA CommitBalances ==
  ASSUME StockInv, InventoryAssumption, NEW p, Commit(p)
  PROVE  /\ IsFiniteSet(DOMAIN movements')
         /\ \A q \in Places : Level(levels', q) = Ledger!Balance(Entries', q)
<1> DEFINE t == tx[p]
           e == Entries
           f == Entries'
<1>1. CommitShape(t, movements, DOMAIN origin)
  BY CommitContext
<1>2. /\ DOMAIN movements \subseteq DOMAIN origin
      /\ movements \in [DOMAIN movements -> StockMovement] /\ IsFiniteSet(DOMAIN movements)
      /\ \A q \in Places : Level(levels, q) = Ledger!Balance(e, q)
  BY DEF StockInv, RowsInv
<1>3. /\ t.write = "delete" => DOMAIN movements' = DOMAIN movements \ {t.id}
      /\ t.write # "delete" => /\ DOMAIN movements' = DOMAIN movements \union {t.id}
                               /\ movements'[t.id] = t.row
      /\ \A i \in DOMAIN movements \ {t.id} : movements'[i] = movements[i]
      /\ movements' \in [DOMAIN movements' -> StockMovement]
  BY CommitRows
<1> HIDE DEF t
<1>4. IsFiniteSet(DOMAIN movements')
  BY <1>2, <1>3, FS_AddElement, FS_RemoveElement
<1>5. /\ DOMAIN e = DOMAIN movements
      /\ \A i \in DOMAIN movements :
           e[i].where = movements[i].where /\ e[i].amount = SignedQuantity(movements[i])
  BY DEF Entries
<1>6. /\ DOMAIN f = DOMAIN movements'
      /\ \A i \in DOMAIN movements' :
           f[i].where = movements'[i].where /\ f[i].amount = SignedQuantity(movements'[i])
  BY DEF Entries
<1>7. \A i \in DOMAIN movements : e[i].amount \in Int
  BY <1>2, <1>5, AmountType
<1>8. \A i \in DOMAIN movements' : f[i].amount \in Int
  BY <1>3, <1>6, AmountType
<1>9. DOMAIN e \ {t.id} = DOMAIN f \ {t.id}
  BY <1>3, <1>5, <1>6
<1>10. \A i \in DOMAIN e \ {t.id} : e[i] = f[i]
  <2> TAKE i \in DOMAIN e \ {t.id}
  <2>1. i \in DOMAIN movements /\ i \in DOMAIN movements' /\ movements'[i] = movements[i]
    BY <1>3, <1>5, <1>6, <1>9
  <2> QED
    BY <2>1 DEF Entries
<1>11. ASSUME NEW q \in Places
       PROVE  /\ At0(e, t.id, q) \in Int /\ At0(f, t.id, q) \in Int
              /\ At0(f, t.id, q) - At0(e, t.id, q) = Effect(t, movements, q)
  <2>1. At0(e, t.id, q) = IF t.id \in DOMAIN movements THEN Amount(movements[t.id], q) ELSE 0
    BY <1>5 DEF At0, Amount
  <2>2. At0(f, t.id, q) = IF t.id \in DOMAIN movements' THEN Amount(movements'[t.id], q) ELSE 0
    BY <1>6 DEF At0, Amount
  <2>3. At0(e, t.id, q) \in Int /\ At0(f, t.id, q) \in Int
    BY <1>5, <1>6, <1>7, <1>8 DEF At0
  <2>4. CASE t.kind = "create" /\ t.write = "insert" /\ t.locked = {} /\ t.id \notin DOMAIN origin
    BY <1>2, <1>3, <2>1, <2>2, <2>3, <2>4 DEF Effect
  <2>5. CASE t.kind = "edit" /\ t.write = "update" /\ t.locked = {t.id} /\ t.id \in DOMAIN movements
    BY <1>3, <2>1, <2>2, <2>3, <2>5 DEF Effect
  <2>6. CASE t.kind = "delete" /\ t.write = "delete" /\ t.locked = {t.id} /\ t.id \in DOMAIN movements
    <3>1. t.id \notin DOMAIN movements'
      BY <1>3, <2>6
    <3> QED
      BY <2>1, <2>2, <2>3, <2>6, <3>1 DEF Effect
  <2> QED
    BY <1>1, <2>3, <2>4, <2>5, <2>6 DEF CommitShape
<1> HIDE DEF e, f
<1>12. ASSUME NEW q \in Places PROVE Level(levels', q) = Ledger!Balance(f, q)
  <2>1. /\ Ledger!Balance(e, q) \in Int
        /\ Ledger!Balance(f, q) = Ledger!Balance(e, q) + At0(f, t.id, q) - At0(e, t.id, q)
    BY <1>2, <1>4, <1>5, <1>6, <1>7, <1>8, <1>9, <1>10, BalanceChange
  <2>2. /\ Level(levels, q) \in Int /\ Effect(t, movements, q) \in Int
        /\ Level(levels', q) = Level(levels, q) + Effect(t, movements, q)
    BY CommitLevels DEF t
  <2> QED
    BY <1>2, <1>11, <2>1, <2>2
<1> QED
  BY <1>4, <1>12 DEF f

LEMMA CommitKeepsRows ==
  ASSUME StockInv, InventoryAssumption, NEW p, Commit(p)
  PROVE  RowsInv'
<1> DEFINE t == tx[p]
<1>1. /\ CommitShape(t, movements, DOMAIN origin) /\ KeyIsFree(t, movements) /\ t.id \in Ids
  BY CommitContext, TransactionType DEF Sound
<1>2. /\ t.write = "delete" =>
           DOMAIN movements' = DOMAIN movements \ {t.id} /\ origin' = origin
      /\ t.write # "delete" => /\ DOMAIN movements' = DOMAIN movements \union {t.id}
                               /\ movements'[t.id] = t.row
      /\ t.write = "insert" => origin' = Put(origin, t.id, t.row.key)
      /\ t.write # "insert" => origin' = origin
      /\ \A i \in DOMAIN movements \ {t.id} : movements'[i] = movements[i]
      /\ movements' \in [DOMAIN movements' -> StockMovement]
  BY CommitRows
<1> HIDE DEF t
<1>3. DOMAIN movements' \subseteq DOMAIN origin' /\ DOMAIN origin' \subseteq Ids
      /\ origin' \in [DOMAIN origin' -> Keys]
  <2>1. /\ DOMAIN movements \subseteq DOMAIN origin /\ DOMAIN origin \subseteq Ids
        /\ origin \in [DOMAIN origin -> Keys]
    BY DEF StockInv, RowsInv
  <2>2. CASE t.write = "insert"
    <3>1. t.row.key \in Keys
      BY <1>1, <2>2 DEF CommitShape, StockMovement
    <3>2. DOMAIN origin' = DOMAIN origin \union {t.id} /\ origin' \in [DOMAIN origin' -> Keys]
      BY <1>2, <2>1, <2>2, <3>1 DEF Put
    <3> QED
      BY <1>1, <1>2, <2>1, <2>2, <3>2
  <2>3. CASE t.write # "insert"
    BY <1>1, <1>2, <2>1, <2>3 DEF CommitShape
  <2> QED
    BY <2>2, <2>3
<1>4. ASSUME NEW i \in DOMAIN movements', NEW j \in DOMAIN movements',
             movements'[i].key = movements'[j].key
      PROVE  i = j
  <2>1. \A a, b \in DOMAIN movements : movements[a].key = movements[b].key => a = b
    BY DEF StockInv, RowsInv
  <2>2. \A a \in DOMAIN movements' : a # t.id => a \in DOMAIN movements /\ movements'[a] = movements[a]
    BY <1>2
  <2>3. ASSUME t.id \in DOMAIN movements' PROVE \A a \in DOMAIN movements : movements[a].key # t.row.key
    BY <1>1, <1>2, <2>3 DEF CommitShape, KeyIsFree, WritesKey
  <2>4. t.id \in DOMAIN movements' => movements'[t.id] = t.row
    BY <1>2
  <2> QED
    BY <1>4, <2>1, <2>2, <2>3, <2>4
<1> QED
  BY <1>2, <1>3, <1>4, CommitLevels, CommitBalances DEF RowsInv

LEMMA CommitKeepsOthers ==
  ASSUME StockInv, InventoryAssumption, NEW p, Commit(p)
  PROVE  TransactionsInv'
<1> DEFINE t == tx[p]
<1>1. /\ CommitShape(t, movements, DOMAIN origin) /\ p \in DOMAIN tx /\ t \in Transactions
      /\ \A q \in DOMAIN tx \ {p} : Apart(t, tx[q])
  BY CommitContext
<1>2. /\ t.write = "delete" =>
           DOMAIN movements' = DOMAIN movements \ {t.id} /\ origin' = origin
      /\ t.write # "delete" => /\ DOMAIN movements' = DOMAIN movements \union {t.id}
                               /\ movements'[t.id] = t.row
      /\ t.write = "insert" => origin' = Put(origin, t.id, t.row.key)
      /\ t.write # "insert" => origin' = origin
      /\ \A i \in DOMAIN movements \ {t.id} : movements'[i] = movements[i]
  BY CommitRows
<1>3. DOMAIN tx' = DOMAIN tx \ {p} /\ (\A q \in DOMAIN tx' : tx'[q] = tx[q])
      /\ tx' \in [DOMAIN tx' -> Transactions]
  BY DEF Commit, Without, StockInv, TransactionsInv
<1>4. hasDefault' \in BOOLEAN
  BY DEF Commit, StockInv, TransactionsInv
<1>5. DOMAIN origin \subseteq DOMAIN origin'
      /\ (t.write # "insert" => DOMAIN origin' = DOMAIN origin)
      /\ (t.write = "insert" => DOMAIN origin' = DOMAIN origin \union {t.id})
  BY <1>2 DEF Put
<1>6. \A q \in Places : q \notin DOMAIN t.deltas => Level(levels', q) = Level(levels, q)
  BY CommitLevels
<1> HIDE DEF t
<1>7. ASSUME NEW q \in DOMAIN tx \ {p}
      PROVE  Sound(tx[q], movements', DOMAIN origin', levels')
  <2> DEFINE u == tx[q]
  <2>1. u \in Transactions /\ Sound(u, movements, DOMAIN origin, levels) /\ Apart(t, u)
    BY <1>1, Context
  <2>2. DOMAIN u.deltas \subseteq Places
    BY <2>1, TransactionType
  <2>3. CommitShape(t, movements, DOMAIN origin) /\ DOMAIN movements \subseteq DOMAIN origin
    BY <1>1 DEF StockInv, RowsInv
  <2> HIDE DEF u
  <2>4. ASSUME u.locked = {u.id}, u.id \in DOMAIN movements
        PROVE  u.id # t.id /\ u.id \in DOMAIN movements' /\ movements'[u.id] = movements[u.id]
    <3>1. u.id # t.id
      BY <2>1, <2>3, <2>4 DEF CommitShape, Apart
    <3> QED
      BY <1>2, <2>4, <3>1
  <2>5. u.locked # {} => u.locked = {u.id} /\ u.id \in DOMAIN movements
    BY <2>1 DEF Sound, Shape, CreateShape, ChangeShape, LockedShape
  <2>6. u.kind = "create" => u.id \notin DOMAIN origin'
    <3>1. u.kind = "create" => u.id \notin DOMAIN origin
      BY <2>1 DEF Sound, Shape, CreateShape
    <3>2. u.kind = "create" /\ t.write = "insert" => u.id # t.id
      BY <2>1, <2>3 DEF CommitShape, Apart
    <3> QED
      BY <1>5, <3>1, <3>2
  <2>7. Shape(u, movements', DOMAIN origin')
    <3>1. ASSUME NEW last, ChangeShape(u, last, movements, DOMAIN origin)
          PROVE  ChangeShape(u, last, movements', DOMAIN origin')
      BY <1>5, <2>4, <3>1 DEF ChangeShape, LockedShape
    <3>2. CreateShape(u, DOMAIN origin) /\ u.id \notin DOMAIN origin'
            => CreateShape(u, DOMAIN origin')
      BY DEF CreateShape
    <3> QED
      BY <2>1, <2>6, <3>1, <3>2 DEF Sound, Shape
  <2>8. Planned(u, movements')
    <3>1. \A place : Effect(u, movements', place) = Effect(u, movements, place)
      BY <2>4, <2>5 DEF Effect
    <3> QED
      BY <2>1, <3>1 DEF Sound, Planned
  <2>9. Room(u, levels')
    <3>1. \A place \in DOMAIN u.deltas : Level(levels', place) = Level(levels, place)
      BY <1>6, <2>1, <2>2 DEF Apart
    <3> QED
      BY <2>1, <3>1 DEF Sound, Room
  <2>10. KeyIsFree(u, movements')
    <3> SUFFICES ASSUME WritesKey(u), NEW i \in DOMAIN movements'
                 PROVE  movements'[i].key # u.row.key
      BY DEF KeyIsFree
    <3>1. CASE i # t.id
      <4>1. i \in DOMAIN movements /\ movements'[i] = movements[i]
        BY <1>2, <3>1
      <4> QED
        BY <2>1, <4>1 DEF Sound, KeyIsFree
    <3>2. CASE i = t.id
      <4>1. t.write # "delete" /\ movements'[i] = t.row
        BY <1>2, <3>2
      <4>2. WritesKey(t)
        BY <2>3, <4>1 DEF CommitShape, WritesKey
      <4> QED
        BY <2>1, <4>1, <4>2 DEF Apart
    <3> QED
      BY <3>1, <3>2
  <2> QED
    BY <2>7, <2>8, <2>9, <2>10 DEF Sound, u
<1>8. \A q, r \in DOMAIN tx' : q # r => Apart(tx'[q], tx'[r])
  BY <1>3 DEF StockInv, TransactionsInv
<1>9. DOMAIN tx' \subseteq Handlers
  BY <1>3 DEF StockInv, TransactionsInv
<1> QED
  BY <1>3, <1>4, <1>7, <1>8, <1>9 DEF TransactionsInv

-----------------------------------------------------------------------------
(* The invariant *)

LEMMA InitStock == ASSUME Init PROVE StockInv
<1> DEFINE none == [i \in {} |-> 0]
<1>1. /\ movements = none /\ levels = none /\ tx = none /\ origin = none /\ hasDefault = FALSE
  BY DEF Init
<1>2. DOMAIN none = {} /\ \A S : none \in [{} -> S]
  OBVIOUS
<1>3. Entries = none
  <2>1. [i \in {} |-> [where |-> movements[i].where, amount |-> SignedQuantity(movements[i])]] = none
    OBVIOUS
  <2> QED
    BY <1>1, <2>1 DEF Entries
<1>4. \A q : Ledger!Balance(none, q) = 0
  BY BalanceOfNone
<1> HIDE DEF none
<1>5. \A q : Level(levels, q) = 0
  BY <1>1, <1>2 DEF Level
<1>6. RowsInv
  BY <1>1, <1>2, <1>3, <1>4, <1>5, FS_EmptySet DEF RowsInv
<1>7. TransactionsInv
  BY <1>1, <1>2 DEF TransactionsInv
<1> QED
  BY <1>6, <1>7 DEF StockInv

LEMMA CommitKeeps ==
  ASSUME StockInv, InventoryAssumption, NEW p, Commit(p)
  PROVE  StockInv'
  BY CommitKeepsRows, CommitKeepsOthers DEF StockInv

LEMMA ExecuteKeeps ==
  ASSUME StockInv, InventoryAssumption, NEW p, Execute(p)
  PROVE  StockInv'
  BY GetDefaultKeeps, MakeDefaultKeeps, InsertKeeps, GetStockMovementForUpdateKeeps, WritesKeep,
     LevelStepsKeep, CommitKeeps DEF Execute

LEMMA NextKeeps ==
  ASSUME StockInv, InventoryAssumption, [Next]_vars
  PROVE  StockInv'
<1>1. CASE Next
  <2>1. PICK p \in Handlers : Arrive(p) \/ Execute(p) \/ Lost(p) \/ DeadlockVictim(p)
    BY <1>1 DEF Next
  <2>2. CASE Arrive(p)
    BY <2>2, ArriveKeeps
  <2>3. CASE Execute(p)
    BY <2>3, ExecuteKeeps
  <2>4. CASE Lost(p) \/ DeadlockVictim(p)
    BY <2>4, LeaveKeeps DEF Lost, DeadlockVictim
  <2> QED
    BY <2>1, <2>2, <2>3, <2>4
<1>2. CASE UNCHANGED vars
  <2>1. RowsInv'
    BY <1>2, RowsStay DEF vars, StockInv
  <2>2. TransactionsInv'
    BY <1>2 DEF vars, StockInv, TransactionsInv
  <2> QED
    BY <2>1, <2>2 DEF StockInv
<1> QED
  BY <1>1, <1>2

\* Whatever transactions interleave, wait or are rolled back, each has planned what its row
\* changes in the levels, no two hold one lock, and the levels are the sums of the movements.
THEOREM StockInvariant ==
  ASSUME InventoryAssumption
  PROVE  Spec => []StockInv
<1>1. Init => StockInv
  BY InitStock
<1>2. StockInv /\ [Next]_vars => StockInv'
  BY NextKeeps
<1> QED
  BY <1>1, <1>2, PTL DEF Spec

\* Rows fit their columns, and an open transaction has locked the row it has written.
THEOREM TypeCorrect ==
  ASSUME InventoryAssumption
  PROVE  Spec => []TypeOK
<1>1. StockInv => TypeOK
  <2> SUFFICES ASSUME StockInv PROVE TypeOK
    OBVIOUS
  <2>1. ASSUME NEW p \in DOMAIN tx
        PROVE  /\ tx[p].locked \subseteq DOMAIN movements
               /\ DOMAIN tx[p].deltas \subseteq Places
               /\ tx[p].write = "insert" => tx[p].id \notin DOMAIN origin
               /\ tx[p].write \in {"update", "delete"} => tx[p].locked = {tx[p].id}
    <3>1. tx[p] \in Transactions /\ Shape(tx[p], movements, DOMAIN origin)
      BY Context DEF Sound
    <3>2. DOMAIN tx[p].deltas \subseteq Places
      BY <3>1, TransactionType
    <3> QED
      BY <3>1, <3>2 DEF Shape, CreateShape, ChangeShape, LockedShape
  <2>2. \A i \in DOMAIN movements : movements[i] \in StockMovement
    BY DEF StockInv, RowsInv
  <2>3. \A i \in DOMAIN origin : origin[i] \in Keys
    BY DEF StockInv, RowsInv
  <2> QED
    BY <2>1, <2>2, <2>3 DEF TypeOK, StockInv, RowsInv, TransactionsInv
<1> QED
  BY <1>1, StockInvariant, PTL

\* A key is held by one movement, whichever creations and edits bring it at once.
THEOREM KeyHeldOnce ==
  ASSUME InventoryAssumption
  PROVE  Spec => []OneMovementPerKey
<1>1. StockInv => OneMovementPerKey
  <2> SUFFICES ASSUME StockInv, NEW k \in Keys PROVE Cardinality(KeyHolders(k)) <= 1
    BY DEF OneMovementPerKey
  <2>1. CASE KeyHolders(k) = {}
    BY <2>1, FS_EmptySet
  <2>2. CASE KeyHolders(k) # {}
    <3>1. PICK i \in DOMAIN movements : movements[i].key = k
      BY <2>2 DEF KeyHolders
    <3>2. KeyHolders(k) = {i}
      BY <3>1 DEF StockInv, RowsInv, KeyHolders
    <3>3. Cardinality({i}) = 1
      BY FS_Singleton
    <3> QED
      BY <3>2, <3>3
  <2> QED
    BY <2>1, <2>2
<1> QED
  BY <1>1, StockInvariant, PTL

-----------------------------------------------------------------------------
(* Deadlocks *)

\* What others may wait for.
Holds(t) == t.locked # {} \/ DOMAIN t.deltas # {} \/ t.write # "none" \/ t.default

LEMMA AwaitedHolds ==
  ASSUME StockInv, NEW p \in DOMAIN tx, NEW q \in DOMAIN tx, WaitsFor(p, q)
  PROVE  Holds(tx[q])
<1>1. tx[q].write \in {"none", "insert", "update", "delete"}
  BY Context, TransactionType
<1> QED
  BY <1>1 DEF WaitsFor, Touches, Holds

\* A deletion waits for the lock of its row, or for the one level it takes from.
LEMMA DeletionWaits ==
  ASSUME StockInv, InventoryAssumption, NEW p \in DOMAIN tx, tx[p].kind = "delete",
         NEW q \in DOMAIN tx, WaitsFor(p, q)
  PROVE  DOMAIN tx[p].deltas = {} /\ tx[p].write = "none" /\ tx[p].default = FALSE
<1> DEFINE u == tx[p]
           name == Head(u.todo).name
<1>1. u \in Transactions /\ Sound(u, movements, DOMAIN origin, levels)
  BY Context
<1>2. u.todo # <<>> /\ name \in {"lock", "makeDefault", "insert", "update", "add", "take"}
  BY DEF WaitsFor, At, Pending
<1>3. u.default = FALSE
  BY <1>1 DEF Sound, Shape, ChangeShape
<1>4. CASE name \in {"lock", "makeDefault", "insert", "update"}
  <2>1. name = "lock"
    BY <1>1, <1>2, <1>4, HeadTells DEF Sound, CreatesNext, WritesLast
  <2> QED
    BY <1>1, <1>2, <1>3, <2>1, HeadTells DEF Sound
<1>5. CASE name \in LevelNames
  <2>1. u.locked = {u.id} /\ u.write = "none"
    BY <1>1, <1>2, <1>5, HeadTells DEF Sound
  <2>2. u.todo \in Seq(Statements) /\ Head(u.todo) = u.todo[1] /\ Len(u.todo) \in Nat \ {0}
    BY <1>1, <1>2, TransactionType, TailType
  <2>3. 1 \in LevelSteps(u)
    BY <1>5, <2>2 DEF LevelSteps
  <2>4. u.id \in DOMAIN movements
    BY <1>1, <2>1 DEF Sound, Shape, ChangeShape, LockedShape
  <2>5. movements[u.id] \in StockMovement
    BY <2>4 DEF StockInv, RowsInv
  <2>6. \A place : Effect(u, movements, place) # 0 => place = movements[u.id].where
    <3>1. \A place : Effect(u, movements, place) = 0 - Amount(movements[u.id], place)
      BY <2>1 DEF Effect
    <3>2. \A place : place # movements[u.id].where => Amount(movements[u.id], place) = 0
      BY DEF Amount
    <3> QED
      BY <3>1, <3>2
  <2>7. u.todo[1].place = movements[u.id].where /\ u.todo[1].place \notin DOMAIN u.deltas
    BY <1>1, <2>3, <2>6 DEF Sound, Planned
  <2>8. \A place \in DOMAIN u.deltas : place = movements[u.id].where
    BY <1>1, <2>6 DEF Sound, Planned
  <2>9. DOMAIN u.deltas = {}
    BY <2>7, <2>8
  <2> QED
    BY <1>3, <2>1, <2>9
<1> QED
  BY <1>2, <1>4, <1>5 DEF LevelNames

\* A transaction that waits for a row's lock holds nothing yet.
LEMMA LockersHoldNothing ==
  ASSUME StockInv, NEW p \in DOMAIN tx, At(p, "lock")
  PROVE  ~ Holds(tx[p])
<1> DEFINE u == tx[p]
<1>1. u \in Transactions /\ Shape(u, movements, DOMAIN origin)
  BY Context DEF Sound
<1>2. u.kind # "create" /\ u.locked = {} /\ u.write = "none" /\ DOMAIN u.deltas = {}
  BY <1>1, HeadTells DEF At, Pending
<1>3. u.default = FALSE
  BY <1>1, <1>2 DEF Shape, ChangeShape
<1> QED
  BY <1>2, <1>3 DEF Holds

\* Edits and creations may deadlock over levels and keys, a deletion never is one of them:
\* it changes the one level before it deletes the row.
THEOREM DeletionsAreSafe ==
  ASSUME InventoryAssumption
  PROVE  Spec => []DeletionsNeverDeadlock
<1>1. StockInv => DeletionsNeverDeadlock
  <2> SUFFICES ASSUME StockInv, NEW C \in SUBSET DOMAIN tx, Circle(C),
                      NEW p \in C, tx[p].kind = "delete"
               PROVE  FALSE
    BY DEF DeletionsNeverDeadlock
  <2>1. \A r \in C : (\E q \in C : WaitsFor(r, q)) /\ (\E q \in C : WaitsFor(q, r))
    BY DEF Circle
  <2>2. \A r \in C : r \in DOMAIN tx /\ Holds(tx[r])
    BY <2>1, AwaitedHolds
  <2>3. PICK q \in C : WaitsFor(p, q)
    BY <2>1
  <2>4. DOMAIN tx[p].deltas = {} /\ tx[p].write = "none" /\ tx[p].default = FALSE
    BY <2>2, <2>3, DeletionWaits
  <2>5. PICK r \in C : WaitsFor(r, p)
    BY <2>1
  <2>6. At(r, "lock")
    BY <2>4, <2>5 DEF WaitsFor, Touches
  <2> QED
    BY <2>2, <2>6, LockersHoldNothing
<1> QED
  BY <1>1, StockInvariant, PTL

-----------------------------------------------------------------------------
(* The ledger *)

LEMMA CommitIsLedgerStep ==
  ASSUME StockInv, InventoryAssumption, NEW p, Commit(p)
  PROVE  Ledger!Next
<1> DEFINE t == tx[p]
           stock == [q \in Places |-> OnHand(q)]
<1>1. CommitShape(t, movements, DOMAIN origin) /\ t.id \in Ids
  BY CommitContext, TransactionType
<1>2. /\ t.write = "delete" => DOMAIN movements' = DOMAIN movements \ {t.id}
      /\ t.write # "delete" => DOMAIN movements' = DOMAIN movements \union {t.id}
      /\ \A i \in DOMAIN movements \ {t.id} : movements'[i] = movements[i]
  BY CommitRows
<1>3. DOMAIN movements \subseteq DOMAIN origin
  BY DEF StockInv, RowsInv
<1> HIDE DEF t
<1>4. DOMAIN Entries = DOMAIN movements /\ DOMAIN Entries' = DOMAIN movements'
  BY DEF Entries
<1>5. \A i \in DOMAIN movements \ {t.id} : i \in DOMAIN movements' => Entries'[i] = Entries[i]
  BY <1>2 DEF Entries
<1>6. \A q \in Places : stock[q] = Level(levels, q) /\ stock'[q] = Level(levels', q)
  BY DEF OnHand, Level
<1>7. stock' = [q \in Places |-> Ledger!Balance(Entries', q)]
  <2>1. \A q \in Places : stock'[q] = Ledger!Balance(Entries', q)
    BY <1>6, CommitBalances
  <2> QED
    BY <2>1
<1>8. t.kind # "create" => \A q \in Places : stock'[q] < stock[q] => stock'[q] >= 0
  BY <1>6, CommitLevels DEF t
<1> DEFINE Some ==
      \/ \E i \in Ids : Ledger!Book(i)
      \/ \E i \in DOMAIN Entries : Ledger!Amend(i) \/ Ledger!Cancel(i)
<1>9. ASSUME t.kind = "create" /\ t.write = "insert" /\ t.id \notin DOMAIN origin
      PROVE  Some
  <2>1. /\ t.id \notin DOMAIN Entries /\ DOMAIN Entries' = DOMAIN Entries \union {t.id}
        /\ \A i \in DOMAIN Entries : Entries'[i] = Entries[i]
    BY <1>2, <1>3, <1>4, <1>5, <1>9
  <2>2. Some
    BY <1>1, <2>1 DEF Ledger!Book, Entries
  <2> QED
    BY <2>2
<1>10. ASSUME t.kind = "edit" /\ t.write = "update" /\ t.id \in DOMAIN movements
      PROVE  Some
  <2>1. /\ t.id \in DOMAIN Entries /\ DOMAIN Entries' = DOMAIN Entries
        /\ \A i \in DOMAIN Entries \ {t.id} : Entries'[i] = Entries[i]
    BY <1>2, <1>4, <1>5, <1>10
  <2>2. Some
    BY <1>8, <1>10, <2>1 DEF Ledger!Amend, Ledger!Covered, Entries
  <2> QED
    BY <2>2
<1>11. ASSUME t.kind = "delete" /\ t.write = "delete" /\ t.id \in DOMAIN movements
      PROVE  Some
  <2>1. /\ t.id \in DOMAIN Entries /\ DOMAIN Entries' = DOMAIN Entries \ {t.id}
        /\ \A i \in DOMAIN Entries' : Entries'[i] = Entries[i]
    BY <1>2, <1>4, <1>5, <1>11
  <2>2. Some
    BY <1>8, <1>11, <2>1 DEF Ledger!Cancel, Ledger!Covered, Entries
  <2> QED
    BY <2>2
<1>12. Some
  BY <1>1, <1>9, <1>10, <1>11 DEF CommitShape
<1> QED
  BY <1>7, <1>12 DEF Ledger!Next, Entries

\* Every commit books, amends or cancels one entry, the stock of a place is the sum of its
\* entries, and no edit or deletion takes stock that is not there; all else is invisible.
THEOREM ImplementsStockLedger ==
  ASSUME InventoryAssumption
  PROVE  Spec => ImplementsLedger
<1> DEFINE stock == [q \in Places |-> OnHand(q)]
<1>1. Init => Ledger!Init
  <2> SUFFICES ASSUME Init PROVE Ledger!Init
    OBVIOUS
  <2>1. movements = [i \in {} |-> 0] /\ levels = [i \in {} |-> 0]
    BY DEF Init
  <2>2. Entries = [i \in {} |-> 0]
    BY <2>1 DEF Entries
  <2>3. \A q : OnHand(q) = 0
    BY <2>1 DEF OnHand
  <2> QED
    BY <2>2, <2>3 DEF Ledger!Init, Entries
<1>2. StockInv /\ [Next]_vars => [Ledger!Next]_<<Entries, stock>>
  <2> SUFFICES ASSUME StockInv, [Next]_vars PROVE Ledger!Next \/ UNCHANGED <<Entries, stock>>
    OBVIOUS
  <2>1. CASE \E p : Commit(p)
    BY <2>1, CommitIsLedgerStep
  <2>2. CASE UNCHANGED <<movements, levels>>
    BY <2>2 DEF Entries, OnHand
  <2>3. (\E p : Commit(p)) \/ UNCHANGED <<movements, levels>>
    BY DEF Next, vars, Arrive, Create, Update, Delete, Open, Execute, GetDefault, MakeDefault,
       Insert, GetStockMovementForUpdate, Edited, Reversed, UpdateStockMovement,
       DeleteStockMovement, ApplyStockDelta, ApplyNonnegativeStockDelta, GetStockLevel,
       ChangeLevel, Lost, DeadlockVictim, Leave, Succeed
  <2> QED
    BY <2>1, <2>2, <2>3
<1> QED
  BY <1>1, <1>2, StockInvariant, PTL DEF Spec, ImplementsLedger, Ledger!Spec, Entries

-----------------------------------------------------------------------------
(* Catalogue: the inductive invariant                                      *)

VariantRows == [status : {"active", "archived"}, code : Codes \union {NoCode}, public : BOOLEAN,
                tracked : BOOLEAN]
ImageRows == [url : Images!Urls, by : Calls \union {"earlier"}]
Writes ==
  [phase : {"idle", "begin", "key", "image", "add", "commit", "done", "refused"},
   op : {"create", "update"}, v : Variants, image : ImageAsks \union {Keep},
   public : PublicAsks \union {Omit}, row : VariantRows \union {Images!Absent},
   gone : SUBSET ImageRows, added : SUBSET ImageRows, answer : ImageAsks \union {NoImage}]

CatalogTyped == Images!TypeOK /\ calls \in [Calls -> Writes]
                /\ rows \in [Variants -> VariantRows \union {Images!Absent}]
                /\ images \in [Variants -> SUBSET ImageRows]

\* A creation has its variant to itself; of writes of one variant, one is past its lock.
Alone ==
  /\ \A c \in Calls : Images!Active(c) /\ calls[c].op = "create" =>
       rows[calls[c].v] = Images!Absent
         /\ \A d \in Calls \ {c} : Images!Active(d) => calls[d].v # calls[c].v
  /\ \A c, d \in Calls : Images!Wrote(c) /\ Images!Wrote(d) /\ calls[c].v = calls[d].v => c = d

\* Whether the variant will be public is what was asked for, or what the row says.
RowAsAsked(c) ==
  Images!Active(c) =>
    /\ calls[c].row \in VariantRows
    /\ calls[c].row.public =>
         \/ calls[c].public = TRUE
         \/ /\ calls[c].public = Omit
            /\ calls[c].op = "create" \/ calls[c].phase = "begin" \/ rows[calls[c].v].public

\* What the images were read to be is what they are until the commit.
ImagesAsRead(c) ==
  LET w == calls[c]
      there == images[w.v] IN
  /\ w.phase # "commit" => w.added = {}
  /\ w.phase = "add" => w.image \in Images!Urls /\ w.gone = there /\ w.answer = w.image
  /\ w.phase = "commit" =>
       IF w.image = Keep THEN w.gone = {} /\ w.added = {} /\ w.answer = Images!GetVariantImage(w.v)
       ELSE /\ w.gone = there /\ w.answer = w.image
            /\ IF w.image \in Images!Urls THEN w.added = {[url |-> w.image, by |-> c]}
               ELSE w.added = {} /\ w.image = NoImage

OneAtMost == \A v \in Variants : images[v] = {} \/ \E i \in ImageRows : images[v] = {i}

CatalogInv ==
  /\ CatalogTyped /\ Alone /\ OneAtMost
  /\ \A c \in Calls : RowAsAsked(c) /\ ImagesAsRead(c)

\* A step of one call that writes nothing yet: w is what the call becomes.
InProgress(w) == w.phase \in {"begin", "key", "image", "add", "commit"}
PastLock(w) == w.phase \in {"key", "image", "add", "commit"}
Joins(c, w) ==
  /\ InProgress(w) /\ w.op = "create" =>
       rows[w.v] = Images!Absent /\ \A d \in Calls \ {c} : Images!Active(d) => calls[d].v # w.v
  /\ InProgress(w) => \A d \in Calls \ {c} :
       Images!Active(d) /\ calls[d].op = "create" => calls[d].v # w.v
  /\ PastLock(w) => \A d \in Calls \ {c} : Images!Wrote(d) => calls[d].v # w.v

LEMMA CallMoves ==
  ASSUME CatalogInv, NEW c \in Calls, NEW w \in Writes, calls' = [calls EXCEPT ![c] = w],
         UNCHANGED <<product, rows, images>>, Joins(c, w), RowAsAsked(c)', ImagesAsRead(c)'
  PROVE  CatalogInv'
<1>1. calls'[c] = w /\ \A d \in Calls \ {c} : calls'[d] = calls[d]
  BY DEF CatalogInv, CatalogTyped
<1>2. CatalogTyped'
  BY DEF CatalogInv, CatalogTyped, Images!TypeOK
<1>3. \A d \in Calls \ {c} :
        /\ Images!Active(d)' <=> Images!Active(d)
        /\ Images!Wrote(d)' <=> Images!Wrote(d)
  BY <1>1 DEF Images!Active, Images!Wrote
<1>4. (Images!Active(c)' <=> InProgress(w)) /\ (Images!Wrote(c)' <=> PastLock(w))
  BY <1>1 DEF Images!Active, Images!Wrote, InProgress, PastLock
<1>5. Alone'
  <2>1. Alone
    BY DEF CatalogInv
  <2>2. ASSUME NEW d \in Calls, Images!Active(d)', calls'[d].op = "create"
        PROVE  /\ rows[calls'[d].v] = Images!Absent
               /\ \A e \in Calls \ {d} : Images!Active(e)' => calls'[e].v # calls'[d].v
    BY <1>1, <1>3, <1>4, <2>1, <2>2 DEF Alone, Joins
  <2>3. ASSUME NEW d \in Calls, NEW e \in Calls, Images!Wrote(d)', Images!Wrote(e)',
               calls'[d].v = calls'[e].v
        PROVE  d = e
    BY <1>1, <1>3, <1>4, <2>1, <2>3 DEF Alone, Joins
  <2> QED
    BY <2>2, <2>3 DEF Alone
<1>6. OneAtMost'
  BY DEF CatalogInv, OneAtMost
<1>7. ASSUME NEW d \in Calls PROVE RowAsAsked(d)' /\ ImagesAsRead(d)'
  <2>1. CASE d = c
    BY <2>1
  <2>2. CASE d # c
    <3>1. RowAsAsked(d) /\ ImagesAsRead(d) /\ calls'[d] = calls[d]
      BY <1>1, <2>2 DEF CatalogInv
    <3>2. RowAsAsked(d)'
      BY <1>3, <2>2, <3>1 DEF RowAsAsked
    <3>3. ImagesAsRead(d)'
      BY <3>1 DEF ImagesAsRead, Images!GetVariantImage
    <3> QED
      BY <3>2, <3>3
  <2> QED
    BY <2>1, <2>2
<1> QED
  BY <1>2, <1>5, <1>6, <1>7 DEF CatalogInv

LEMMA IdleType ==
  ASSUME Images!CatalogAssumption, NEW phase \in {"idle", "done", "refused"}
  PROVE  [Images!Idle EXCEPT !.phase = phase] \in Writes /\ Images!Idle \in Writes
  BY DEF Images!Idle, Images!CatalogAssumption, Writes, Images!Absent

LEMMA CallEnds ==
  ASSUME Images!CatalogAssumption, CatalogInv, NEW c \in Calls, calls' = Images!End(c, "refused"),
         UNCHANGED <<product, rows, images>>
  PROVE  CatalogInv'
<1> DEFINE w == [Images!Idle EXCEPT !.phase = "refused"]
<1>1. w \in Writes /\ w.phase = "refused" /\ w.added = {}
  BY IdleType DEF Images!Idle
<1>2. calls' = [calls EXCEPT ![c] = w] /\ calls'[c] = w
  BY DEF Images!End, CatalogInv, CatalogTyped
<1> HIDE DEF w
<1>3. Joins(c, w)
  BY <1>1 DEF Joins, InProgress, PastLock
<1>4. RowAsAsked(c)' /\ ImagesAsRead(c)'
  BY <1>1, <1>2 DEF RowAsAsked, ImagesAsRead, Images!Active
<1> QED
  BY <1>1, <1>2, <1>3, <1>4, CallMoves

LEMMA RequestKeeps ==
  ASSUME Images!CatalogAssumption, CatalogInv, NEW c \in Calls, Images!Request(c)
  PROVE  CatalogInv'
<1>1. PICK op \in {"create", "update"}, v \in Variants, code \in Codes \union {NoCode},
           image \in ImageAsks, public \in PublicAsks, track \in TrackAsks, status \in AskedStatuses :
        /\ op = "create" => rows[v] = Images!Absent /\ \A d \in Calls : Images!Active(d) => calls[d].v # v
        /\ op = "update" => rows[v] # Images!Absent
        /\ calls' = [calls EXCEPT ![c] = [Images!Idle EXCEPT !.phase = "begin", !.op = op, !.v = v,
             !.image = image, !.public = public,
             !.row = [status |-> status, code |-> code, public |-> public # FALSE,
                      tracked |-> track = TRUE]]]
  BY Zenon DEF Images!Request
<1> DEFINE r == [status |-> status, code |-> code, public |-> public # FALSE, tracked |-> track = TRUE]
           w == [Images!Idle EXCEPT !.phase = "begin", !.op = op, !.v = v, !.image = image,
                   !.public = public, !.row = r]
<1>2. r \in VariantRows
  BY DEF VariantRows, Images!CatalogAssumption
<1>3. r.public => public = TRUE \/ public = Omit
  BY DEF Images!CatalogAssumption
<1>4. calls' = [calls EXCEPT ![c] = w] /\ UNCHANGED <<product, rows, images>>
  BY <1>1 DEF Images!Request
<1>5. Images!Idle \in Writes /\ Images!Idle.added = {}
  BY IdleType DEF Images!Idle
<1> HIDE DEF r
<1>6. /\ w \in Writes /\ w.phase = "begin" /\ w.op = op /\ w.v = v /\ w.public = public /\ w.row = r
      /\ w.added = {}
  BY <1>2, <1>5 DEF Writes
<1> HIDE DEF w
<1>7. calls'[c] = w
  BY <1>4 DEF CatalogInv, CatalogTyped
<1>8. Joins(c, w)
  <2>1. \A d \in Calls \ {c} : Images!Active(d) /\ calls[d].op = "create" => calls[d].v # v
    BY <1>1 DEF CatalogInv, Alone
  <2> QED
    BY <1>1, <1>6, <2>1 DEF Joins, InProgress, PastLock
<1>9. RowAsAsked(c)'
  BY <1>2, <1>3, <1>6, <1>7 DEF RowAsAsked
<1>10. ImagesAsRead(c)'
  BY <1>6, <1>7 DEF ImagesAsRead
<1> QED
  BY <1>4, <1>6, <1>8, <1>9, <1>10, CallMoves

\* What does not join anew is joined as before.
LEMMA JoinsStill ==
  ASSUME CatalogInv, NEW c \in Calls, NEW w \in Writes, Images!Active(c),
         w.v = calls[c].v, w.op = calls[c].op, PastLock(w) => Images!Wrote(c)
  PROVE  Joins(c, w)
<1> USE DEF CatalogInv, Alone, Joins
<1>1. Images!Active(c) /\ w.op = "create" =>
        rows[w.v] = Images!Absent /\ \A d \in Calls \ {c} : Images!Active(d) => calls[d].v # w.v
  OBVIOUS
<1>2. \A d \in Calls \ {c} : Images!Active(d) /\ calls[d].op = "create" => calls[d].v # w.v
  OBVIOUS
<1>3. PastLock(w) => \A d \in Calls \ {c} : Images!Wrote(d) => calls[d].v # w.v
  OBVIOUS
<1> QED
  BY <1>1, <1>2, <1>3

LEMMA CreateVariantKeeps ==
  ASSUME Images!CatalogAssumption, CatalogInv, NEW c \in Calls, Images!CreateVariant(c)
  PROVE  CatalogInv'
<1>1. calls[c].phase = "begin" /\ calls[c].op = "create" /\ UNCHANGED <<product, rows, images>>
  BY DEF Images!CreateVariant
<1>2. CASE calls' = Images!End(c, "refused")
  BY <1>1, <1>2, CallEnds
<1>3. CASE calls' = [calls EXCEPT ![c].phase = "key"]
  <2> DEFINE w == [calls[c] EXCEPT !.phase = "key"]
  <2>1. calls[c] \in Writes /\ RowAsAsked(c) /\ ImagesAsRead(c)
    BY DEF CatalogInv, CatalogTyped
  <2>2. /\ w \in Writes /\ calls' = [calls EXCEPT ![c] = w] /\ calls'[c] = w
        /\ w.phase = "key" /\ w.op = calls[c].op /\ w.v = calls[c].v /\ w.public = calls[c].public
        /\ w.row = calls[c].row /\ w.added = calls[c].added
    BY <1>3, <2>1 DEF Writes, CatalogInv, CatalogTyped
  <2> HIDE DEF w
  <2>3. Images!Active(c) /\ InProgress(w) /\ PastLock(w)
    BY <1>1, <2>2 DEF Images!Active, InProgress, PastLock
  <2>4. Joins(c, w)
    <3>1. /\ rows[w.v] = Images!Absent /\ w.op = "create"
          /\ \A d \in Calls \ {c} : Images!Active(d) => calls[d].v # w.v
      BY <1>1, <2>2, <2>3 DEF CatalogInv, Alone
    <3>2. \A d \in Calls : Images!Wrote(d) => Images!Active(d)
      BY DEF Images!Wrote, Images!Active
    <3> QED
      BY <3>1, <3>2 DEF Joins
  <2>5. RowAsAsked(c)'
    BY <1>1, <2>1, <2>2, <2>3 DEF RowAsAsked
  <2>6. ImagesAsRead(c)'
    BY <1>1, <2>1, <2>2 DEF ImagesAsRead
  <2> QED
    BY <1>1, <2>2, <2>4, <2>5, <2>6, CallMoves
<1> QED
  BY <1>2, <1>3 DEF Images!CreateVariant

LEMMA UpdateVariantKeeps ==
  ASSUME Images!CatalogAssumption, CatalogInv, NEW c \in Calls, Images!UpdateVariant(c)
  PROVE  CatalogInv'
<1>1. /\ calls[c].phase = "begin" /\ calls[c].op = "update" /\ Images!RowFree(c)
      /\ UNCHANGED <<product, rows, images>>
  BY DEF Images!UpdateVariant
<1> DEFINE p == IF calls[c].public = Omit THEN rows[calls[c].v].public ELSE calls[c].row.public
           w == [calls[c] EXCEPT !.phase = "key", !.row.public = p]
<1>2. calls[c] \in Writes /\ RowAsAsked(c) /\ ImagesAsRead(c)
  BY DEF CatalogInv, CatalogTyped
<1>3. Images!Active(c) /\ calls[c].row \in VariantRows /\ p \in BOOLEAN
  <2>1. ASSUME NEW r \in VariantRows \union {Images!Absent} PROVE r.public \in BOOLEAN
    <3>1. CASE r \in VariantRows
      BY <3>1 DEF VariantRows
    <3>2. CASE r = Images!Absent
      BY <3>2 DEF Images!Absent
    <3> QED
      BY <3>1, <3>2
  <2>2. Images!Active(c) /\ calls[c].row \in VariantRows /\ calls[c].v \in Variants
    BY <1>1, <1>2 DEF Writes, RowAsAsked, Images!Active
  <2>3. rows[calls[c].v] \in VariantRows \union {Images!Absent}
    BY <2>2 DEF CatalogInv, CatalogTyped
  <2> QED
    BY <2>1, <2>2, <2>3
<1>4. calls' = [calls EXCEPT ![c] = w]
  BY <1>2 DEF Images!UpdateVariant, CatalogInv, CatalogTyped
<1>5. w.row \in VariantRows /\ w.row.public = p
  BY <1>2, <1>3 DEF VariantRows, Writes
<1>6. /\ w \in Writes /\ calls'[c] = w /\ w.phase = "key" /\ w.op = "update"
      /\ w.v = calls[c].v /\ w.public = calls[c].public /\ w.added = calls[c].added
  BY <1>1, <1>2, <1>4, <1>5 DEF Writes, CatalogInv, CatalogTyped
<1> HIDE DEF w
<1>7. Joins(c, w)
  <2>1. \A d \in Calls \ {c} : Images!Active(d) /\ calls[d].op = "create" => calls[d].v # w.v
    BY <1>3, <1>6 DEF CatalogInv, Alone
  <2>2. \A d \in Calls \ {c} : Images!Wrote(d) => calls[d].v # w.v
    BY <1>1, <1>6 DEF Images!RowFree
  <2> QED
    BY <1>6, <2>1, <2>2 DEF Joins
<1>8. RowAsAsked(c)'
  <2>1. CASE calls[c].public = Omit
    BY <1>1, <1>5, <1>6, <2>1 DEF RowAsAsked
  <2>2. CASE calls[c].public # Omit
    BY <1>1, <1>2, <1>3, <1>5, <1>6, <2>2 DEF RowAsAsked
  <2> QED
    BY <2>1, <2>2
<1>9. ImagesAsRead(c)'
  BY <1>1, <1>2, <1>6 DEF ImagesAsRead
<1> QED
  BY <1>1, <1>4, <1>6, <1>7, <1>8, <1>9, CallMoves

LEMMA UniqueCodeKeeps ==
  ASSUME Images!CatalogAssumption, CatalogInv, NEW c \in Calls, Images!UniqueCode(c)
  PROVE  CatalogInv'
<1>1. calls[c].phase = "key" /\ UNCHANGED <<product, rows, images>>
  BY DEF Images!UniqueCode
<1>2. CASE calls' = Images!End(c, "refused")
  BY <1>1, <1>2, CallEnds
<1>3. CASE calls' = [calls EXCEPT ![c].phase = "image"]
  <2> DEFINE w == [calls[c] EXCEPT !.phase = "image"]
  <2>1. calls[c] \in Writes /\ RowAsAsked(c) /\ ImagesAsRead(c)
    BY DEF CatalogInv, CatalogTyped
  <2>2. /\ w \in Writes /\ calls' = [calls EXCEPT ![c] = w] /\ calls'[c] = w
        /\ w.phase = "image" /\ w.op = calls[c].op /\ w.v = calls[c].v /\ w.public = calls[c].public
        /\ w.row = calls[c].row /\ w.added = calls[c].added
    BY <1>3, <2>1 DEF Writes, CatalogInv, CatalogTyped
  <2> HIDE DEF w
  <2>3. Images!Active(c) /\ Images!Wrote(c)
    BY <1>1 DEF Images!Active, Images!Wrote
  <2>4. Joins(c, w)
    BY <2>2, <2>3, JoinsStill
  <2>5. RowAsAsked(c)'
    BY <1>1, <2>1, <2>2, <2>3 DEF RowAsAsked
  <2>6. ImagesAsRead(c)'
    BY <1>1, <2>1, <2>2 DEF ImagesAsRead
  <2> QED
    BY <1>1, <2>2, <2>4, <2>5, <2>6, CallMoves
<1> QED
  BY <1>2, <1>3 DEF Images!UniqueCode

\* The image a variant has, if any, is one of those that are stored.
LEMMA ImageType ==
  ASSUME CatalogInv, NEW v \in Variants
  PROVE  Images!GetVariantImage(v) \in ImageAsks \union {NoImage}
<1>1. CASE images[v] = {}
  BY <1>1 DEF Images!GetVariantImage
<1>2. CASE images[v] # {}
  <2>1. PICK i \in ImageRows : images[v] = {i}
    BY <1>2 DEF CatalogInv, OneAtMost
  <2>2. Images!GetVariantImage(v) = i.url
    BY <2>1 DEF Images!GetVariantImage
  <2> QED
    BY <2>1, <2>2 DEF ImageRows, Images!Urls
<1> QED
  BY <1>1, <1>2

LEMMA ApplyVariantImageKeeps ==
  ASSUME Images!CatalogAssumption, CatalogInv, NEW c \in Calls, Images!ApplyVariantImage(c)
  PROVE  CatalogInv'
<1> DEFINE v == calls[c].v
           image == calls[c].image
           w == [calls[c] EXCEPT !.phase = IF image \in Images!Urls THEN "add" ELSE "commit",
                   !.gone = IF image = Keep THEN {} ELSE images[v],
                   !.answer = IF image = Keep THEN Images!GetVariantImage(v) ELSE image]
<1>1. calls[c].phase = "image" /\ UNCHANGED <<product, rows, images>>
  BY DEF Images!ApplyVariantImage
<1>2. calls[c] \in Writes /\ RowAsAsked(c) /\ ImagesAsRead(c)
  BY DEF CatalogInv, CatalogTyped
<1>3. calls' = [calls EXCEPT ![c] = w]
  BY <1>2 DEF Images!ApplyVariantImage, CatalogInv, CatalogTyped
<1>4. v \in Variants /\ image \in ImageAsks \union {Keep}
  BY <1>2 DEF Writes
<1>5. w \in Writes
  <2>1. images[v] \in SUBSET ImageRows
    BY <1>4 DEF CatalogInv, CatalogTyped
  <2>2. Images!GetVariantImage(v) \in ImageAsks \union {NoImage}
    BY <1>4, ImageType
  <2>3. (IF image = Keep THEN Images!GetVariantImage(v) ELSE image) \in ImageAsks \union {NoImage}
    BY <1>4, <2>2
  <2>4. (IF image = Keep THEN {} ELSE images[v]) \in SUBSET ImageRows
    BY <2>1
  <2> QED
    BY <1>2, <2>3, <2>4 DEF Writes
<1>6. /\ calls'[c] = w /\ w.v = v /\ w.op = calls[c].op /\ w.public = calls[c].public
      /\ w.row = calls[c].row /\ w.added = calls[c].added /\ w.image = image
      /\ w.phase = IF image \in Images!Urls THEN "add" ELSE "commit"
      /\ w.gone = IF image = Keep THEN {} ELSE images[v]
      /\ w.answer = IF image = Keep THEN Images!GetVariantImage(v) ELSE image
  BY <1>2, <1>3 DEF Writes, CatalogInv, CatalogTyped
<1> HIDE DEF w
<1>7. Images!Active(c) /\ Images!Wrote(c)
  BY <1>1 DEF Images!Active, Images!Wrote
<1>8. Joins(c, w)
  BY <1>5, <1>6, <1>7, JoinsStill
<1>9. RowAsAsked(c)'
  BY <1>1, <1>2, <1>6, <1>7 DEF RowAsAsked
<1>10. ImagesAsRead(c)'
  <2>1. calls[c].added = {}
    BY <1>1, <1>2 DEF ImagesAsRead
  <2>2. CASE image \in Images!Urls
    BY <1>1, <1>6, <2>1, <2>2 DEF ImagesAsRead, Images!Urls
  <2>3. CASE image \notin Images!Urls /\ image # Keep
    <3>1. image = NoImage
      BY <1>4, <2>3 DEF Images!Urls
    <3> QED
      BY <1>1, <1>6, <2>1, <2>3, <3>1 DEF ImagesAsRead
  <2>4. CASE image = Keep
    <3>1. w.phase = "commit"
      BY <1>6, <2>4 DEF Images!Urls
    <3>2. Images!GetVariantImage(v)' = Images!GetVariantImage(v)
      BY <1>1, <1>6 DEF Images!GetVariantImage
    <3> QED
      BY <1>1, <1>6, <2>1, <2>4, <3>1, <3>2 DEF ImagesAsRead
  <2> QED
    BY <2>2, <2>3, <2>4
<1> QED
  BY <1>1, <1>3, <1>5, <1>6, <1>8, <1>9, <1>10, CallMoves

LEMMA CreateVariantImageKeeps ==
  ASSUME Images!CatalogAssumption, CatalogInv, NEW c \in Calls, Images!CreateVariantImage(c)
  PROVE  CatalogInv'
<1> DEFINE new == [url |-> calls[c].image, by |-> c]
           w == [calls[c] EXCEPT !.phase = "commit", !.added = {new}]
<1>1. calls[c].phase = "add" /\ UNCHANGED <<product, rows, images>>
  BY DEF Images!CreateVariantImage
<1>2. calls[c] \in Writes /\ RowAsAsked(c) /\ ImagesAsRead(c)
  BY DEF CatalogInv, CatalogTyped
<1>3. calls' = [calls EXCEPT ![c] = w]
  BY <1>2 DEF Images!CreateVariantImage, CatalogInv, CatalogTyped
<1>4. /\ calls[c].image \in Images!Urls /\ calls[c].gone = images[calls[c].v]
      /\ calls[c].answer = calls[c].image
  BY <1>1, <1>2 DEF ImagesAsRead
<1>5. w \in Writes
  <2>1. {new} \in SUBSET ImageRows
    BY <1>4 DEF ImageRows
  <2> HIDE DEF new
  <2> QED
    BY <1>2, <2>1 DEF Writes
<1>6. /\ calls'[c] = w /\ w.v = calls[c].v /\ w.op = calls[c].op /\ w.public = calls[c].public
      /\ w.row = calls[c].row /\ w.added = {new} /\ w.image = calls[c].image
      /\ w.gone = calls[c].gone /\ w.answer = calls[c].answer /\ w.phase = "commit"
  BY <1>2, <1>3 DEF Writes, CatalogInv, CatalogTyped
<1> HIDE DEF w
<1>7. Images!Active(c) /\ Images!Wrote(c)
  BY <1>1 DEF Images!Active, Images!Wrote
<1>8. Joins(c, w)
  BY <1>5, <1>6, <1>7, JoinsStill
<1>9. RowAsAsked(c)'
  BY <1>1, <1>2, <1>6, <1>7 DEF RowAsAsked
<1>10. ImagesAsRead(c)'
  <2>1. calls[c].image # Keep
    BY <1>4 DEF Images!Urls
  <2> QED
    BY <1>1, <1>4, <1>6, <2>1 DEF ImagesAsRead
<1> QED
  BY <1>1, <1>3, <1>5, <1>6, <1>8, <1>9, <1>10, CallMoves

\* What a commit leaves of the images of its variant, and what it answers.
LEMMA CommittedImages ==
  ASSUME CatalogInv, NEW c \in Calls, NEW v \in Variants, calls[c].v = v, Images!Commit(c)
  PROVE  /\ images'[v] = {} \/ \E i \in ImageRows : images'[v] = {i}
         /\ calls[c].answer = Images!GetVariantImage(v)'
<1> DEFINE w == calls[c]
<1>1. /\ w \in Writes /\ w.phase = "commit" /\ ImagesAsRead(c)
      /\ images'[v] = (images[v] \ w.gone) \union w.added
  <2>1. images' = [images EXCEPT ![v] = (images[v] \ w.gone) \union w.added]
    BY DEF Images!Commit
  <2> QED
    BY <2>1 DEF CatalogInv, CatalogTyped, Images!Commit
<1>2. w.gone \in SUBSET ImageRows /\ w.added \in SUBSET ImageRows /\ w.image \in ImageAsks \union {Keep}
  BY <1>1 DEF Writes
<1> HIDE DEF w
<1>3. CASE w.image = Keep
  <2>1. w.gone = {} /\ w.added = {} /\ w.answer = Images!GetVariantImage(v)
    BY <1>1, <1>3 DEF ImagesAsRead, w
  <2>2. images'[v] = images[v]
    BY <1>1, <2>1
  <2>3. Images!GetVariantImage(v)' = Images!GetVariantImage(v)
    BY <2>2 DEF Images!GetVariantImage
  <2> QED
    BY <2>1, <2>2, <2>3 DEF CatalogInv, OneAtMost, w
<1>4. CASE w.image # Keep /\ w.image \in Images!Urls
  <2> DEFINE i == [url |-> w.image, by |-> c]
  <2>1. w.gone = images[v] /\ w.added = {i} /\ w.answer = w.image
    BY <1>1, <1>4 DEF ImagesAsRead, w
  <2>2. i \in ImageRows /\ i.url = w.image
    BY <1>4 DEF ImageRows
  <2> HIDE DEF i
  <2>3. images'[v] = {i}
    BY <1>1, <2>1
  <2>4. Images!GetVariantImage(v)' = w.image
    BY <2>2, <2>3 DEF Images!GetVariantImage
  <2> QED
    BY <2>1, <2>2, <2>3, <2>4 DEF w
<1>5. CASE w.image # Keep /\ w.image \notin Images!Urls
  <2>1. w.gone = images[v] /\ w.added = {} /\ w.answer = w.image /\ w.image = NoImage
    BY <1>1, <1>5 DEF ImagesAsRead, w
  <2>2. images'[v] = {}
    BY <1>1, <2>1
  <2>3. Images!GetVariantImage(v)' = NoImage
    BY <2>2 DEF Images!GetVariantImage
  <2> QED
    BY <2>1, <2>2, <2>3 DEF w
<1> QED
  BY <1>3, <1>4, <1>5

LEMMA CommitVariantKeeps ==
  ASSUME Images!CatalogAssumption, CatalogInv, NEW c \in Calls, Images!Commit(c)
  PROVE  CatalogInv'
<1> DEFINE w == [Images!Idle EXCEPT !.phase = "done"]
           v == calls[c].v
<1>1. /\ calls[c] \in Writes /\ calls[c].phase = "commit" /\ v \in Variants
      /\ calls' = [calls EXCEPT ![c] = w] /\ UNCHANGED product
      /\ rows' = [rows EXCEPT ![v] = calls[c].row]
      /\ images' = [images EXCEPT ![v] = (images[v] \ calls[c].gone) \union calls[c].added]
  BY DEF Images!Commit, Images!End, CatalogInv, CatalogTyped, Writes
<1>2. w \in Writes /\ w.phase = "done" /\ w.added = {}
  BY IdleType DEF Images!Idle
<1> HIDE DEF w
<1>3. calls'[c] = w /\ calls' \in [Calls -> Writes] /\ \A d \in Calls \ {c} : calls'[d] = calls[d]
  BY <1>1, <1>2 DEF CatalogInv, CatalogTyped
<1>4. Images!Active(c) /\ Images!Wrote(c) /\ ~ Images!Active(c)' /\ ~ Images!Wrote(c)'
  BY <1>1, <1>2, <1>3 DEF Images!Active, Images!Wrote
<1>5. calls[c].row \in VariantRows
  BY <1>4 DEF CatalogInv, RowAsAsked
<1>6. /\ rows'[v] \in VariantRows /\ rows' \in [Variants -> VariantRows \union {Images!Absent}]
      /\ \A u \in Variants \ {v} : rows'[u] = rows[u] /\ images'[u] = images[u]
  BY <1>1, <1>5 DEF CatalogInv, CatalogTyped
<1>7. images' \in [Variants -> SUBSET ImageRows]
  <2>1. (images[v] \ calls[c].gone) \union calls[c].added \in SUBSET ImageRows
    BY <1>1 DEF CatalogInv, CatalogTyped, Writes
  <2> QED
    BY <1>1, <2>1 DEF CatalogInv, CatalogTyped
<1>8. CatalogTyped'
  <2>1. Images!TypeOK'
    BY <1>1, <1>6, <1>7 DEF CatalogInv, CatalogTyped, Images!TypeOK, VariantRows, ImageRows
  <2> QED
    BY <1>3, <1>6, <1>7, <2>1 DEF CatalogTyped
<1>9. ASSUME NEW d \in Calls \ {c}
      PROVE  /\ calls'[d] = calls[d] /\ calls[d] \in Writes /\ calls[d].v \in Variants
             /\ Images!Active(d)' <=> Images!Active(d)
             /\ Images!Wrote(d)' <=> Images!Wrote(d)
             /\ Images!Active(d) /\ calls[d].op = "create" => calls[d].v # v
             /\ Images!Wrote(d) => calls[d].v # v
  <2>1. calls'[d] = calls[d] /\ calls[d] \in Writes /\ calls[d].v \in Variants
    BY <1>3 DEF CatalogInv, CatalogTyped, Writes
  <2>2. Alone
    BY DEF CatalogInv
  <2> QED
    BY <1>4, <2>1, <2>2 DEF Alone, Images!Active, Images!Wrote
<1>10. Alone'
  <2>1. Alone
    BY DEF CatalogInv
  <2>2. ASSUME NEW d \in Calls, Images!Active(d)', calls'[d].op = "create"
        PROVE  /\ rows'[calls'[d].v] = Images!Absent
               /\ \A e \in Calls \ {d} : Images!Active(e)' => calls'[e].v # calls'[d].v
    BY <1>4, <1>6, <1>9, <2>1, <2>2 DEF Alone
  <2>3. ASSUME NEW d \in Calls, NEW e \in Calls, Images!Wrote(d)', Images!Wrote(e)',
               calls'[d].v = calls'[e].v
        PROVE  d = e
    BY <1>4, <1>9, <2>1, <2>3 DEF Alone
  <2> QED
    BY <2>2, <2>3 DEF Alone
<1>11. OneAtMost'
  <2>1. images'[v] = {} \/ \E i \in ImageRows : images'[v] = {i}
    BY <1>1, CommittedImages
  <2> HIDE DEF v
  <2> QED
    BY <1>6, <2>1 DEF CatalogInv, OneAtMost
<1>12. ASSUME NEW d \in Calls PROVE RowAsAsked(d)' /\ ImagesAsRead(d)'
  <2>1. CASE d = c
    BY <1>2, <1>3, <1>4, <2>1 DEF RowAsAsked, ImagesAsRead
  <2>2. CASE d # c
    <3>1. RowAsAsked(d) /\ ImagesAsRead(d)
      BY DEF CatalogInv
    <3>2. calls'[d] = calls[d] /\ calls[d] \in Writes
      BY <1>9, <2>2
    <3>3. RowAsAsked(d)'
      <4>1. Images!Active(d) => \/ calls[d].op = "create" \/ calls[d].phase = "begin"
                               \/ rows'[calls[d].v] = rows[calls[d].v]
        <5>1. Images!Active(d) => calls[d].phase = "begin" \/ Images!Wrote(d)
          BY DEF Images!Active, Images!Wrote
        <5> QED
          BY <1>6, <1>9, <2>2, <5>1
      <4>2. Images!Active(d)' <=> Images!Active(d)
        BY <1>9, <2>2
      <4> QED
        BY <3>1, <3>2, <4>1, <4>2 DEF RowAsAsked
    <3>4. ImagesAsRead(d)'
      <4>1. CASE Images!Wrote(d)
        <5>1. images'[calls[d].v] = images[calls[d].v]
          BY <1>6, <1>9, <2>2, <4>1
        <5> QED
          BY <3>1, <3>2, <5>1 DEF ImagesAsRead, Images!GetVariantImage
      <4>2. CASE ~ Images!Wrote(d)
        <5>1. calls[d].phase \notin {"add", "commit"}
          BY <4>2 DEF Images!Wrote
        <5> QED
          BY <3>1, <3>2, <5>1 DEF ImagesAsRead
      <4> QED
        BY <4>1, <4>2
    <3> QED
      BY <3>3, <3>4
  <2> QED
    BY <2>1, <2>2
<1> QED
  BY <1>8, <1>10, <1>11, <1>12 DEF CatalogInv

LEMMA ArchiveVariantKeeps ==
  ASSUME Images!CatalogAssumption, CatalogInv, NEW v \in Variants, Images!ArchiveVariant(v)
  PROVE  CatalogInv'
<1>1. /\ rows[v] # Images!Absent /\ \A c \in Calls : Images!Wrote(c) => calls[c].v # v
      /\ rows' = [rows EXCEPT ![v].status = "archived"] /\ UNCHANGED <<product, images, calls>>
  BY DEF Images!ArchiveVariant
<1>2. rows[v] \in VariantRows
  BY <1>1 DEF CatalogInv, CatalogTyped
<1>3. /\ rows'[v] \in VariantRows /\ rows' \in [Variants -> VariantRows \union {Images!Absent}]
      /\ \A u \in Variants \ {v} : rows'[u] = rows[u]
  <2>1. [rows[v] EXCEPT !.status = "archived"] \in VariantRows
    BY <1>2 DEF VariantRows
  <2>2. rows' = [rows EXCEPT ![v] = [rows[v] EXCEPT !.status = "archived"]]
    BY <1>1
  <2> QED
    BY <2>1, <2>2 DEF CatalogInv, CatalogTyped
<1>4. \A u \in Variants : rows[u] = Images!Absent => rows'[u] = Images!Absent
  BY <1>1, <1>3
<1>5. CatalogTyped'
  <2>1. Images!TypeOK'
    BY <1>1, <1>3 DEF CatalogInv, CatalogTyped, Images!TypeOK, VariantRows, ImageRows
  <2> QED
    BY <1>1, <1>3, <2>1 DEF CatalogInv, CatalogTyped
<1>6. \A c \in Calls : (Images!Active(c)' <=> Images!Active(c)) /\ (Images!Wrote(c)' <=> Images!Wrote(c))
  BY <1>1 DEF Images!Active, Images!Wrote
<1>7. \A c \in Calls : calls[c].v \in Variants
  BY DEF CatalogInv, CatalogTyped, Writes
<1>8. Alone'
  BY <1>1, <1>4, <1>6, <1>7 DEF CatalogInv, Alone
<1>9. OneAtMost'
  BY <1>1 DEF CatalogInv, OneAtMost
<1>10. ASSUME NEW c \in Calls PROVE RowAsAsked(c)' /\ ImagesAsRead(c)'
  <2>1. RowAsAsked(c) /\ ImagesAsRead(c) /\ calls'[c] = calls[c]
    BY <1>1 DEF CatalogInv
  <2>2. RowAsAsked(c)'
    <3>1. Images!Active(c) => calls[c].phase = "begin" \/ Images!Wrote(c)
      BY DEF Images!Active, Images!Wrote
    <3>2. Images!Wrote(c) => rows'[calls[c].v] = rows[calls[c].v]
      BY <1>1, <1>3, <1>7
    <3> QED
      BY <1>6, <2>1, <3>1, <3>2 DEF RowAsAsked
  <2>3. ImagesAsRead(c)'
    BY <1>1, <2>1 DEF ImagesAsRead, Images!GetVariantImage
  <2> QED
    BY <2>2, <2>3
<1> QED
  BY <1>5, <1>8, <1>9, <1>10 DEF CatalogInv

\* The product may change under any write.
LEMMA ProductStepsKeep ==
  ASSUME CatalogInv, UNCHANGED <<rows, images, calls>>,
         product' \in [status : {"absent"} \union Statuses, public : BOOLEAN]
  PROVE  CatalogInv'
<1>1. CatalogTyped' /\ OneAtMost'
  BY DEF CatalogInv, CatalogTyped, Images!TypeOK, OneAtMost
<1>2. \A c \in Calls : (Images!Active(c)' <=> Images!Active(c)) /\ (Images!Wrote(c)' <=> Images!Wrote(c))
  BY DEF Images!Active, Images!Wrote
<1>3. Alone'
  BY <1>2 DEF CatalogInv, Alone
<1>4. \A c \in Calls : RowAsAsked(c)' /\ ImagesAsRead(c)'
  BY <1>2 DEF CatalogInv, RowAsAsked, ImagesAsRead, Images!GetVariantImage
<1> QED
  BY <1>1, <1>3, <1>4 DEF CatalogInv

LEMMA CatalogStarts ==
  ASSUME Images!CatalogAssumption, Images!Init
  PROVE  CatalogInv
<1>1. \A c \in Calls : calls[c] = Images!Idle
  BY DEF Images!Init
<1>2. Images!Idle \in Writes /\ Images!Idle.phase = "idle" /\ Images!Idle.added = {}
  BY IdleType DEF Images!Idle
<1>3. \A c \in Calls : ~ Images!Active(c) /\ ~ Images!Wrote(c)
  BY <1>1, <1>2 DEF Images!Active, Images!Wrote
<1>4. rows \in [Variants -> VariantRows \union {Images!Absent}]
  BY DEF Images!Init, VariantRows, Images!CatalogAssumption
<1>5. \A v \in Variants : images[v] = {} \/ \E i \in ImageRows : images[v] = {i}
  BY DEF Images!Init, ImageRows
<1>6. images \in [Variants -> SUBSET ImageRows]
  BY <1>5 DEF Images!Init
<1>7. CatalogTyped
  <2>1. Images!TypeOK
    BY <1>4, <1>6 DEF Images!Init, Images!TypeOK, VariantRows, ImageRows
  <2>2. calls \in [Calls -> Writes]
    BY <1>2 DEF Images!Init
  <2> QED
    BY <1>4, <1>6, <2>1, <2>2 DEF CatalogTyped
<1>8. \A c \in Calls : RowAsAsked(c) /\ ImagesAsRead(c)
  BY <1>1, <1>2, <1>3 DEF RowAsAsked, ImagesAsRead
<1> QED
  BY <1>3, <1>5, <1>7, <1>8 DEF CatalogInv, Alone, OneAtMost

LEMMA CatalogStepKeeps ==
  ASSUME Images!CatalogAssumption, CatalogInv, [Images!Next]_catalogVars
  PROVE  CatalogInv'
<1>1. CASE UNCHANGED catalogVars
  BY <1>1, ProductStepsKeep DEF catalogVars, CatalogInv, CatalogTyped, Images!TypeOK
<1>2. ASSUME NEW c \in Calls, Images!Request(c) \/ Images!Proceed(c) \/ Images!Rollback(c)
      PROVE  CatalogInv'
  <2>1. CASE Images!Request(c)
    BY <2>1, RequestKeeps
  <2>2. CASE Images!Rollback(c)
    BY <2>2, CallEnds DEF Images!Rollback
  <2>3. CASE Images!Deadlocked(c)
    BY <2>3, CallEnds DEF Images!Deadlocked
  <2>4. CASE Images!Proceed(c) /\ ~ Images!Deadlocked(c)
    BY <2>4, CreateVariantKeeps, UpdateVariantKeeps, UniqueCodeKeeps, ApplyVariantImageKeeps,
       CreateVariantImageKeeps, CommitVariantKeeps DEF Images!Proceed
  <2> QED
    BY <1>2, <2>1, <2>2, <2>3, <2>4
<1>3. ASSUME NEW v \in Variants, Images!ArchiveVariant(v) PROVE CatalogInv'
  BY <1>3, ArchiveVariantKeeps
<1>4. ASSUME NEW status \in Statuses, NEW public \in BOOLEAN,
             Images!CreateProduct(status, public) \/ Images!UpdateProduct(status, public)
      PROVE  CatalogInv'
  BY <1>4, ProductStepsKeep DEF Images!CreateProduct, Images!UpdateProduct
<1>5. ASSUME "archived" \in Statuses, Images!ArchiveProduct PROVE CatalogInv'
  <2>1. product \in [status : {"absent"} \union Statuses, public : BOOLEAN]
    BY DEF CatalogInv, CatalogTyped, Images!TypeOK
  <2>2. product' \in [status : {"absent"} \union Statuses, public : BOOLEAN]
    BY <1>5, <2>1 DEF Images!ArchiveProduct
  <2> QED
    BY <1>5, <2>2, ProductStepsKeep DEF Images!ArchiveProduct
<1> QED
  BY <1>1, <1>2, <1>3, <1>4, <1>5 DEF Images!Next

LEMMA ImagesCardinality == \A S : Images!Cardinality(S) = Cardinality(S)
BY DEF Cardinality, Images!Cardinality

LEMMA CatalogSound == CatalogInv => Images!TypeOK /\ Images!OneImage
<1>1. ASSUME CatalogInv, NEW v \in Variants PROVE Images!Cardinality(images[v]) <= 1
  <2>1. CASE images[v] = {}
    BY <2>1, FS_EmptySet, ImagesCardinality
  <2>2. ASSUME NEW i, images[v] = {i} PROVE Images!Cardinality(images[v]) <= 1
    <3>1. Cardinality({i}) = 1
      BY FS_Singleton
    <3> QED
      BY <2>2, <3>1, ImagesCardinality
  <2> QED
    BY <1>1, <2>1, <2>2 DEF CatalogInv, OneAtMost
<1> QED
  BY <1>1 DEF CatalogInv, CatalogTyped, Images!OneImage

\* Only a commit ends a write well, and only it and the archiving of a variant change rows.
LEMMA CatalogSteps ==
  ASSUME CatalogInv, [Images!Next]_catalogVars
  PROVE  \/ \E c \in Calls : Images!Commit(c)
         \/ /\ UNCHANGED rows \/ \E v \in Variants : Images!ArchiveVariant(v)
            /\ \A c \in Calls : calls[c].phase = "commit" => calls'[c].phase # "done"
<1> DEFINE Quiet == \A c \in Calls : calls[c].phase = "commit" => calls'[c].phase # "done"
<1>1. ASSUME UNCHANGED calls PROVE Quiet
  BY <1>1
<1>2. ASSUME NEW c \in Calls, calls' = Images!End(c, "refused") PROVE Quiet
  <2>1. calls'[c].phase = "refused" /\ \A d \in Calls \ {c} : calls'[d] = calls[d]
    BY <1>2 DEF Images!End, CatalogInv, CatalogTyped, Images!Idle
  <2> QED
    BY <2>1
<1>3. ASSUME NEW c \in Calls, NEW w, calls' = [calls EXCEPT ![c] = w], calls[c].phase # "commit"
      PROVE  Quiet
  BY <1>3 DEF CatalogInv, CatalogTyped
<1> HIDE DEF Quiet
<1>4. ASSUME NEW c \in Calls, Images!Request(c) PROVE UNCHANGED rows /\ Quiet
  BY <1>3, <1>4 DEF Images!Request
<1>5. ASSUME NEW c \in Calls, Images!CreateVariant(c) PROVE UNCHANGED rows /\ Quiet
  BY <1>2, <1>3, <1>5 DEF Images!CreateVariant
<1>6. ASSUME NEW c \in Calls, Images!UpdateVariant(c) PROVE UNCHANGED rows /\ Quiet
  <2> DEFINE w == [calls[c] EXCEPT !.phase = "key",
                     !.row.public = IF calls[c].public = Omit THEN rows[calls[c].v].public ELSE @]
  <2>1. calls' = [calls EXCEPT ![c] = w] /\ calls[c].phase # "commit" /\ UNCHANGED rows
    BY <1>6 DEF Images!UpdateVariant, CatalogInv, CatalogTyped, Writes
  <2> HIDE DEF w
  <2> QED
    BY <1>3, <2>1
<1>7. ASSUME NEW c \in Calls, Images!UniqueCode(c) PROVE UNCHANGED rows /\ Quiet
  BY <1>2, <1>3, <1>7 DEF Images!UniqueCode
<1>8. ASSUME NEW c \in Calls, Images!ApplyVariantImage(c) PROVE UNCHANGED rows /\ Quiet
  BY <1>3, <1>8 DEF Images!ApplyVariantImage
<1>9. ASSUME NEW c \in Calls, Images!CreateVariantImage(c) PROVE UNCHANGED rows /\ Quiet
  BY <1>3, <1>9 DEF Images!CreateVariantImage
<1>10. ASSUME NEW c \in Calls, Images!Deadlocked(c) \/ Images!Rollback(c) PROVE UNCHANGED rows /\ Quiet
  BY <1>2, <1>10 DEF Images!Deadlocked, Images!Rollback
<1>11. ASSUME UNCHANGED catalogVars PROVE UNCHANGED rows /\ Quiet
  BY <1>1, <1>11 DEF catalogVars
<1>12. ASSUME NEW v \in Variants, Images!ArchiveVariant(v) PROVE Quiet
  BY <1>1, <1>12 DEF Images!ArchiveVariant
<1>13. ASSUME NEW status, NEW public, Images!CreateProduct(status, public) PROVE UNCHANGED rows /\ Quiet
  BY <1>1, <1>13 DEF Images!CreateProduct
<1>14. ASSUME NEW status, NEW public, Images!UpdateProduct(status, public) PROVE UNCHANGED rows /\ Quiet
  BY <1>1, <1>14 DEF Images!UpdateProduct
<1>15. ASSUME Images!ArchiveProduct PROVE UNCHANGED rows /\ Quiet
  BY <1>1, <1>15 DEF Images!ArchiveProduct
<1>16. \/ \E c \in Calls : Images!Commit(c)
       \/ (UNCHANGED rows \/ \E v \in Variants : Images!ArchiveVariant(v)) /\ Quiet
  BY <1>4, <1>5, <1>6, <1>7, <1>8, <1>9, <1>10, <1>11, <1>12, <1>13, <1>14, <1>15, Zenon
     DEF Images!Next, Images!Proceed
<1> QED
  BY <1>16 DEF Quiet

\* A commit ends its own write and no other.
LEMMA CommitEnds ==
  ASSUME CatalogInv, NEW c \in Calls, Images!Commit(c)
  PROVE  /\ calls[c].phase = "commit" /\ calls'[c].phase = "done" /\ product' = product
         /\ \A d \in Calls \ {c} : calls'[d] = calls[d]
         /\ rows'[calls[c].v] = calls[c].row
         /\ \A v \in Variants : v # calls[c].v => rows'[v] = rows[v]
<1>1. calls[c].v \in Variants
  BY DEF CatalogInv, CatalogTyped, Writes
<1> QED
  BY <1>1 DEF Images!Commit, Images!End, Images!Idle, CatalogInv, CatalogTyped

AnswerStored ==
  \A c \in Calls, v \in Variants :
    calls[c].phase = "commit" /\ calls[c].v = v /\ calls'[c].phase = "done" =>
      calls[c].answer = Images!GetVariantImage(v)'

LEMMA AnswersStep ==
  ASSUME CatalogInv, [Images!Next]_catalogVars
  PROVE  AnswerStored
<1> SUFFICES ASSUME NEW c \in Calls, NEW v \in Variants, calls[c].phase = "commit", calls[c].v = v,
                    calls'[c].phase = "done"
             PROVE  calls[c].answer = Images!GetVariantImage(v)'
  BY DEF AnswerStored
<1>1. PICK d \in Calls : Images!Commit(d)
  BY CatalogSteps
<1>2. d = c
  BY <1>1, CommitEnds
<1> QED
  BY <1>1, <1>2, CommittedImages

ShownAsAsked ==
  \A v \in Variants : ~ Images!Listed(v) /\ Images!Listed(v)' =>
    \/ product' # product
    \/ \E c \in Calls :
         /\ calls[c].phase = "commit" /\ calls'[c].phase = "done" /\ calls[c].v = v
         /\ \/ calls[c].public = TRUE
            \/ calls[c].public = Omit /\ (calls[c].op = "create" \/ rows[v].public)

LEMMA ShownStep ==
  ASSUME CatalogInv, [Images!Next]_catalogVars
  PROVE  ShownAsAsked
<1> SUFFICES ASSUME NEW v \in Variants, ~ Images!Listed(v), Images!Listed(v)', product' = product
             PROVE  \E c \in Calls :
                      /\ calls[c].phase = "commit" /\ calls'[c].phase = "done" /\ calls[c].v = v
                      /\ \/ calls[c].public = TRUE
                         \/ calls[c].public = Omit /\ (calls[c].op = "create" \/ rows[v].public)
  BY DEF ShownAsAsked
<1>1. rows'[v].status = "active" /\ rows'[v].public /\ rows'[v] # rows[v]
  BY DEF Images!Listed
<1>2. ASSUME NEW u \in Variants, Images!ArchiveVariant(u) PROVE FALSE
  <2>1. u # v => rows'[v] = rows[v]
    BY <1>2 DEF Images!ArchiveVariant, CatalogInv, CatalogTyped
  <2>2. u = v => rows'[v] = [rows[v] EXCEPT !.status = "archived"] /\ rows[v] \in VariantRows
    BY <1>2 DEF Images!ArchiveVariant, CatalogInv, CatalogTyped
  <2>3. u = v => rows'[v].status = "archived"
    BY <2>2 DEF VariantRows
  <2> QED
    BY <1>1, <2>1, <2>3
<1>3. PICK c \in Calls : Images!Commit(c)
  BY <1>1, <1>2, CatalogSteps
<1>4. /\ calls[c].phase = "commit" /\ calls'[c].phase = "done" /\ calls[c].v = v
      /\ rows'[v] = calls[c].row
  BY <1>1, <1>3, CommitEnds
<1>5. RowAsAsked(c) /\ Images!Active(c)
  BY <1>4 DEF CatalogInv, Images!Active
<1> QED
  BY <1>1, <1>4, <1>5 DEF RowAsAsked

-----------------------------------------------------------------------------
(* Preorders: sums and divisions                                           *)

IsSum(g, f, S) ==
  g = [s \in SUBSET S |->
         IF s = {} THEN 0 ELSE f[CHOOSE x \in s : TRUE] + g[s \ {CHOOSE x \in s : TRUE}]]

LEMMA SumIsFold ==
  ASSUME NEW f
  PROVE  Preorders!SumFunction(f) = (CHOOSE g : IsSum(g, f, DOMAIN f))[DOMAIN f]
  BY DEF Preorders!SumFunction, Preorders!SumFunctionOnSet, Preorders!FoldFunctionOnSet,
     Preorders!MapThenFoldSet, IsSum

LEMMA TotalNat ==
  ASSUME NEW e, NEW S, IsFiniteSet(S), \A i \in S : e[i].amount \in Nat
  PROVE  Total(e, S) \in Nat
<1> DEFINE Bad == {s \in SUBSET S : Total(e, s) \notin Nat}
<1> SUFFICES ASSUME Bad # {} PROVE FALSE
  OBVIOUS
<1>1. PICK s \in Bad : \A r \in Bad : r \subseteq s => r = s
  <2>1. Bad \in SUBSET SUBSET S
    OBVIOUS
  <2> HIDE DEF Bad
  <2> QED
    BY <2>1, Minimal
<1>2. IsFiniteSet(s) /\ s \in SUBSET S /\ Total(e, s) \notin Nat
  BY <1>1, FS_Subset
<1>3. s # {}
  BY <1>2, TotalStep
<1>4. PICK x \in s : Total(e, s) = e[x].amount + Total(e, s \ {x})
  BY <1>2, <1>3, TotalStep
<1>5. Total(e, s \ {x}) \in Nat
  BY <1>1, <1>2, <1>4
<1> HIDE DEF Bad
<1> QED
  BY <1>2, <1>4, <1>5

LEMMA SumNat ==
  ASSUME NEW S, IsFiniteSet(S), NEW f \in [S -> Nat]
  PROVE  Preorders!SumFunction(f) \in Nat
<1> DEFINE e == [i \in S |-> [amount |-> f[i]]]
           h == CHOOSE g : IsSum(g, f, S)
           H == CHOOSE g : IsTotal(g, e, S)
<1>1. \A i \in S : e[i].amount = f[i] /\ e[i].amount \in Nat
  OBVIOUS
<1> HIDE DEF e
<1>2. ASSUME NEW g PROVE IsSum(g, f, S) <=> IsTotal(g, e, S)
  <2> DEFINE F(s) == IF s = {} THEN 0 ELSE f[CHOOSE x \in s : TRUE] + g[s \ {CHOOSE x \in s : TRUE}]
             E(s) == IF s = {} THEN 0
                     ELSE e[CHOOSE x \in s : TRUE].amount + g[s \ {CHOOSE x \in s : TRUE}]
  <2>1. ASSUME NEW s \in SUBSET S PROVE F(s) = E(s)
    <3>1. s # {} => (CHOOSE x \in s : TRUE) \in S
      OBVIOUS
    <3> QED
      BY <1>1, <3>1
  <2> HIDE DEF F, E
  <2>2. [s \in SUBSET S |-> F(s)] = [s \in SUBSET S |-> E(s)]
    BY <2>1
  <2> QED
    BY <2>2 DEF F, E, IsSum, IsTotal
<1>3. \E g : IsTotal(g, e, S)
  BY FoldExists
<1>4. IsTotal(h, e, S) /\ IsTotal(H, e, S)
  BY <1>2, <1>3
<1>5. h[S] = H[S]
  <2> HIDE DEF h, H
  <2> QED
    BY <1>4, FoldsAgree
<1>6. Preorders!SumFunction(f) = h[S] /\ Total(e, S) = H[S]
  BY SumIsFold, TotalIsFold
<1> QED
  BY <1>1, <1>5, <1>6, TotalNat

\* A quotient and its remainder.
LEMMA Division ==
  ASSUME NEW a \in Int, NEW b \in Nat \ {0}
  PROVE  a \div b \in Int /\ a % b \in 0 .. b - 1 /\ a = b * (a \div b) + (a % b)
  OBVIOUS

LEMMA Quotient ==
  ASSUME NEW a \in Nat, NEW b \in Nat \ {0}
  PROVE  a \div b \in 0 .. a
  OBVIOUS

-----------------------------------------------------------------------------
(* Preorders: the inductive invariant                                      *)

OrderLines == [variant : Orderable, quantity : Int, price : Nat, line : Nat, final : Nat \union {Omit}]
OrderRows == [items : Seq(OrderLines), total : Nat, final : Nat \union {Omit}]

\* The line of an item is price times quantity, within half a cent; the total of an order is
\* the sum of its lines.
Rounded(i) == 2 * (i.line * Scale - i.price * i.quantity) \in (1 - Scale) .. Scale
Lines(items) == [n \in DOMAIN items |-> items[n].line]
AddsUp(items, total) ==
  /\ items \in Seq(OrderLines) /\ Len(items) \in 1 .. MaxItems
  /\ total \in 0 .. MaxTotal /\ total = Preorders!SumFunction(Lines(items))
  /\ \A n \in DOMAIN items : Rounded(items[n])

ByTheRules(items) ==
  \A n \in DOMAIN items :
    \E r \in Preorders!RuleFor(items[n].variant) : \E k \in 0 .. rules[r].max :
      /\ items[n].quantity = rules[r].min + k * rules[r].step
      /\ items[n].quantity <= rules[r].max

RulesInv ==
  /\ enabled \in BOOLEAN /\ (enabled => rules # <<>>) /\ DOMAIN rules \subseteq Nat \ {0}
  /\ \A n \in DOMAIN rules :
       /\ rules[n].variant \in Orderable /\ rules[n].max \in Nat
       /\ rules[n].min \in 1 .. rules[n].max /\ rules[n].step \in 1 .. rules[n].max
  /\ \A n, k \in DOMAIN rules : rules[n].variant = rules[k].variant => n = k

\* An order about to be written was checked against rules that cannot change before it is,
\* and priced at prices its variants have had since.
WritingInv ==
  writing # Preorders!Nothing =>
    /\ AddsUp(writing.items, writing.total) /\ enabled /\ ByTheRules(writing.items)
    /\ \A n \in DOMAIN writing.items : writing.items[n].price \in shown[writing.items[n].variant]

OrdersInv ==
  /\ price \in [Orderable -> Prices \union {Preorders!Hidden}]
  /\ shown \in [Orderable -> SUBSET Int]
  /\ RulesInv /\ WritingInv
  /\ orders \in Seq(OrderRows)
  /\ \A o \in DOMAIN orders : AddsUp(orders[o].items, orders[o].total)

LEMMA OrdersStart ==
  ASSUME Preorders!Init
  PROVE  OrdersInv
<1>1. writing = Preorders!Nothing /\ enabled = FALSE /\ rules = <<>> /\ orders = <<>>
  BY DEF Preorders!Init
<1>2. DOMAIN rules = {} /\ DOMAIN orders = {} /\ orders \in Seq(OrderRows)
  BY <1>1
<1>3. RulesInv
  BY <1>1, <1>2 DEF RulesInv
<1>4. WritingInv
  BY <1>1 DEF WritingInv
<1>5. price \in [Orderable -> Prices \union {Preorders!Hidden}]
  BY DEF Preorders!Init
<1>6. shown \in [Orderable -> SUBSET Int]
  BY DEF Preorders!Init
<1> QED
  BY <1>2, <1>3, <1>4, <1>5, <1>6 DEF OrdersInv

\* merge and validateSettings leave complete rules, one to a variant.
LEMMA ConfigureKeeps ==
  ASSUME Preorders!OrdersAssumption, OrdersInv, NEW body \in SettingsBodies, Preorders!Configure(body)
  PROVE  OrdersInv'
<1> DEFINE new == Preorders!Merged(body)
           on == IF body.enabled = Omit THEN enabled ELSE body.enabled
<1>1. /\ writing = Preorders!Nothing /\ Preorders!ValidSettings(new, on)
      /\ enabled' = on /\ rules' = new /\ UNCHANGED <<price, writing, orders, shown>>
  BY DEF Preorders!Configure
<1>2. on \in BOOLEAN
  BY DEF Preorders!OrdersAssumption, OrdersInv, RulesInv
<1> HIDE DEF on
<1>3. /\ DOMAIN new \subseteq Nat \ {0}
      /\ \A n \in DOMAIN new :
           /\ new[n].variant \in Orderable \union {NoVariant}
           /\ new[n].min \in Int /\ new[n].max \in Int /\ new[n].step \in Int
  <2>1. CASE body.rules = Omit
    BY <2>1 DEF Preorders!Merged, OrdersInv, RulesInv
  <2>2. CASE body.rules # Omit
    <3>1. body.rules \in Seq(Preorders!RuleBodies)
      BY <2>2 DEF Preorders!OrdersAssumption
    <3>2. DOMAIN body.rules = 1 .. Len(body.rules) /\ Len(body.rules) \in Nat
      BY <3>1
    <3>3. new = [n \in DOMAIN body.rules |-> [f \in Preorders!Fields |->
                   IF body.rules[n][f] # Omit THEN body.rules[n][f]
                   ELSE IF n \in DOMAIN rules THEN rules[n][f] ELSE Preorders!Zero(f)]]
      BY <2>2 DEF Preorders!Merged
    <3> HIDE DEF new
    <3>4. ASSUME NEW n \in DOMAIN new
          PROVE  /\ new[n].variant \in Orderable \union {NoVariant}
                 /\ new[n].min \in Int /\ new[n].max \in Int /\ new[n].step \in Int
      <4>1. body.rules[n] \in Preorders!RuleBodies /\ n \in DOMAIN body.rules
        BY <3>1, <3>2, <3>3
      <4>2. \A f \in Preorders!Fields :
              new[n][f] = IF body.rules[n][f] # Omit THEN body.rules[n][f]
                          ELSE IF n \in DOMAIN rules THEN rules[n][f] ELSE Preorders!Zero(f)
        BY <3>3, <4>1
      <4>3. new[n].variant \in Orderable \union {NoVariant}
        BY <4>1, <4>2 DEF Preorders!RuleBodies, Preorders!Fields, Preorders!Zero, OrdersInv, RulesInv
      <4>4. new[n].min \in Int
        BY <4>1, <4>2 DEF Preorders!RuleBodies, Preorders!Fields, Preorders!Zero, OrdersInv, RulesInv
      <4>5. new[n].max \in Int
        BY <4>1, <4>2 DEF Preorders!RuleBodies, Preorders!Fields, Preorders!Zero, OrdersInv, RulesInv
      <4>6. new[n].step \in Int
        BY <4>1, <4>2 DEF Preorders!RuleBodies, Preorders!Fields, Preorders!Zero, OrdersInv, RulesInv
      <4> QED
        BY <4>3, <4>4, <4>5, <4>6
    <3> QED
      BY <3>2, <3>3, <3>4
  <2> QED
    BY <2>1, <2>2
<1> HIDE DEF new
<1>4. \A n \in DOMAIN new :
        /\ new[n].variant \in Orderable /\ new[n].max \in Nat
        /\ new[n].min \in 1 .. new[n].max /\ new[n].step \in 1 .. new[n].max
  BY <1>1, <1>3 DEF Preorders!ValidSettings
<1>5. \A n, k \in DOMAIN new : new[n].variant = new[k].variant => n = k
  <2>1. \A n, k \in DOMAIN new : k < n => new[k].variant # new[n].variant
    BY <1>1, <1>3 DEF Preorders!ValidSettings
  <2> QED
    BY <1>3, <2>1
<1>6. on => new # <<>>
  BY <1>1 DEF Preorders!ValidSettings
<1>7. RulesInv'
  BY <1>1, <1>2, <1>3, <1>4, <1>5, <1>6 DEF RulesInv
<1>8. WritingInv'
  BY <1>1 DEF WritingInv
<1> QED
  BY <1>1, <1>7, <1>8 DEF OrdersInv, AddsUp

LEMMA Element ==
  ASSUME NEW T, NEW s \in Seq(T), NEW n \in DOMAIN s
  PROVE  s[n] \in T
  OBVIOUS

LEMMA ChangeVariantKeeps ==
  ASSUME Preorders!OrdersAssumption, OrdersInv, NEW v \in Orderable, Preorders!ChangeVariant(v)
  PROVE  OrdersInv'
<1>1. PICK p \in Prices \union {Preorders!Hidden} : price' = [price EXCEPT ![v] = p]
  BY DEF Preorders!ChangeVariant
<1>2. /\ UNCHANGED <<enabled, rules, writing, orders>>
      /\ shown' = IF writing = Preorders!Nothing THEN shown
                  ELSE [shown EXCEPT ![v] = shown[v] \union {price'[v]}]
  BY DEF Preorders!ChangeVariant
<1>3. price' \in [Orderable -> Prices \union {Preorders!Hidden}] /\ price'[v] = p /\ p \in Int
  BY <1>1 DEF OrdersInv, Preorders!OrdersAssumption, Preorders!Hidden
<1>4. shown' \in [Orderable -> SUBSET Int] /\ \A u \in Orderable : shown[u] \subseteq shown'[u]
  BY <1>2, <1>3 DEF OrdersInv
<1>5. RulesInv'
  BY <1>2 DEF OrdersInv, RulesInv
<1>6. WritingInv'
  <2>1. SUFFICES ASSUME writing # Preorders!Nothing
                 PROVE  \A n \in DOMAIN writing.items :
                          writing.items[n].price \in shown'[writing.items[n].variant]
    BY <1>2 DEF OrdersInv, WritingInv, AddsUp, ByTheRules, Preorders!RuleFor
  <2>2. AddsUp(writing.items, writing.total)
    BY <2>1 DEF OrdersInv, WritingInv
  <2>3. ASSUME NEW n \in DOMAIN writing.items PROVE writing.items[n].variant \in Orderable
    <3>1. writing.items[n] \in OrderLines
      BY <2>2, Element DEF AddsUp
    <3> QED
      BY <3>1 DEF OrderLines
  <2> QED
    BY <1>4, <2>1, <2>3 DEF OrdersInv, WritingInv
<1> QED
  BY <1>2, <1>3, <1>4, <1>5, <1>6 DEF OrdersInv, AddsUp

\* price.Mul(quantity).Round(2) is within half a cent of the product.
LEMMA LineRounds ==
  ASSUME Scale \in Nat \ {0}, NEW i, i.price \in Nat, i.quantity \in Nat
  PROVE  /\ Preorders!Line(i) \in Nat
         /\ 2 * (Preorders!Line(i) * Scale - i.price * i.quantity) \in (1 - Scale) .. Scale
<1> DEFINE m == i.price * i.quantity
           a == 2 * i.price * i.quantity + Scale
           d == 2 * Scale
<1>1. m \in Nat /\ a = 2 * m + Scale /\ a \in Nat /\ d \in Nat \ {0} /\ d = 2 * Scale
  OBVIOUS
<1> HIDE DEF m, a, d
<1>2. Preorders!Line(i) = a \div d
  BY DEF Preorders!Line, a, d
<1> DEFINE l == a \div d
           r == a % d
<1>3. l \in Nat /\ r \in 0 .. d - 1 /\ a = d * l + r
  <2>1. l \in 0 .. a
    BY <1>1, Quotient
  <2>2. a \in Int
    BY <1>1
  <2>3. r \in 0 .. d - 1 /\ a = d * l + r
    BY <1>1, <2>2, Division
  <2> HIDE DEF l, r
  <2> QED
    BY <1>1, <2>1, <2>3
<1> HIDE DEF l, r
<1>4. 2 * (l * Scale - m) = Scale - r
  BY <1>1, <1>3
<1>5. 2 * (l * Scale - m) \in (1 - Scale) .. Scale
  BY <1>1, <1>3, <1>4
<1> QED
  BY <1>2, <1>3, <1>5 DEF l, m

LEMMA PriceKeeps ==
  ASSUME Preorders!OrdersAssumption, OrdersInv, NEW basket \in Baskets, Preorders!Price(basket)
  PROVE  OrdersInv'
<1> DEFINE items == [n \in DOMAIN basket |-> Preorders!Item(basket[n])]
<1>1. /\ enabled /\ Len(basket) \in 1 .. MaxItems
      /\ \A n \in DOMAIN basket : Preorders!ItemAllowed(basket[n])
      /\ writing' = [items |-> items, total |-> Preorders!Total(items)]
      /\ Preorders!Total(items) <= MaxTotal
      /\ shown' = [v \in Orderable |-> {price[v]}]
      /\ UNCHANGED <<price, enabled, rules, orders>>
  BY DEF Preorders!Price, Preorders!NewOrder
<1>2. basket \in Seq([variant : Orderable, quantity : Int, price : Int])
  BY DEF Preorders!OrdersAssumption
<1>3. ASSUME NEW n \in DOMAIN basket
      PROVE  /\ Preorders!Item(basket[n]) \in OrderLines /\ Rounded(Preorders!Item(basket[n]))
             /\ Preorders!Item(basket[n]).price = price[basket[n].variant]
             /\ \E r \in Preorders!RuleFor(basket[n].variant) : \E k \in 0 .. rules[r].max :
                  /\ basket[n].quantity = rules[r].min + k * rules[r].step
                  /\ basket[n].quantity <= rules[r].max
  <2> DEFINE i == basket[n]
  <2>1. i \in [variant : Orderable, quantity : Int, price : Int]
    BY <1>2, Element
  <2>2. i.variant \in Orderable /\ i.quantity \in Int /\ Preorders!ItemAllowed(i)
    BY <1>1, <2>1
  <2> HIDE DEF i
  <2>3. i.price = price[i.variant] /\ i.price \in Nat
    BY <2>2 DEF Preorders!ItemAllowed, OrdersInv, Preorders!OrdersAssumption
  <2>4. PICK r \in Preorders!RuleFor(i.variant) :
          i.quantity \in rules[r].min .. rules[r].max /\ (i.quantity - rules[r].min) % rules[r].step = 0
    BY <2>2 DEF Preorders!ItemAllowed
  <2>5. /\ rules[r].max \in Nat /\ rules[r].min \in Nat /\ rules[r].min >= 1
        /\ rules[r].step \in Nat \ {0}
    BY <2>4 DEF OrdersInv, RulesInv, Preorders!RuleFor
  <2>6. i.quantity \in Nat /\ i.quantity <= rules[r].max
    BY <2>2, <2>4, <2>5
  <2>7. \E k \in 0 .. rules[r].max : i.quantity = rules[r].min + k * rules[r].step
    <3> DEFINE a == i.quantity - rules[r].min
               b == rules[r].step
               k == a \div b
    <3>1. a \in Nat /\ a \in Int /\ b \in Nat \ {0} /\ a % b = 0 /\ a <= rules[r].max
      BY <2>2, <2>4, <2>5
    <3>2. i.quantity = rules[r].min + a
      BY <2>2, <2>5
    <3> HIDE DEF a, b
    <3>3. k \in 0 .. a /\ a = b * k
      <4>1. k \in 0 .. a
        BY <3>1, Quotient
      <4>2. a = b * k + (a % b)
        BY <3>1, Division
      <4> HIDE DEF k
      <4> QED
        BY <3>1, <4>1, <4>2
    <3> HIDE DEF k
    <3>4. k \in 0 .. rules[r].max /\ a = k * b
      BY <2>5, <3>1, <3>3
    <3> QED
      BY <3>2, <3>4 DEF b
  <2>8. /\ Preorders!Line(i) \in Nat
        /\ 2 * (Preorders!Line(i) * Scale - i.price * i.quantity) \in (1 - Scale) .. Scale
    BY <2>3, <2>6, LineRounds DEF Preorders!OrdersAssumption
  <2>9. Preorders!Item(i) \in OrderLines /\ Rounded(Preorders!Item(i)) /\ Preorders!Item(i).price = i.price
    BY <2>2, <2>3, <2>8 DEF Preorders!Item, OrderLines, Rounded
  <2> QED
    BY <2>3, <2>4, <2>6, <2>7, <2>9 DEF i
<1>4. items \in Seq(OrderLines) /\ Len(items) = Len(basket) /\ DOMAIN items = DOMAIN basket
      /\ DOMAIN items = 1 .. Len(basket) /\ Len(basket) \in Nat
  BY <1>2, <1>3
<1>5. AddsUp(items, Preorders!Total(items))
  <2>1. Lines(items) \in [DOMAIN items -> Nat]
    BY <1>3 DEF Lines, OrderLines
  <2>2. IsFiniteSet(DOMAIN items)
    BY <1>4, FS_Interval
  <2>3. Preorders!Total(items) = Preorders!SumFunction(Lines(items))
    BY DEF Preorders!Total, Lines
  <2>4. Preorders!Total(items) \in Nat
    BY <2>1, <2>2, <2>3, SumNat
  <2>5. \A n \in DOMAIN items : Rounded(items[n])
    BY <1>3
  <2> HIDE DEF items
  <2> QED
    BY <1>1, <1>4, <2>3, <2>4, <2>5 DEF AddsUp, Preorders!OrdersAssumption
<1>6. ByTheRules(items)
  BY <1>3 DEF ByTheRules, Preorders!Item
<1>7. \A n \in DOMAIN items : items[n].price \in shown'[items[n].variant]
  <2>1. ASSUME NEW n \in DOMAIN basket PROVE basket[n].variant \in Orderable
    <3>1. basket[n] \in [variant : Orderable, quantity : Int, price : Int]
      BY <1>2, Element
    <3> QED
      BY <3>1
  <2> QED
    BY <1>1, <1>3, <2>1 DEF Preorders!Item
<1>8. shown' \in [Orderable -> SUBSET Int]
  <2>1. ASSUME NEW v \in Orderable PROVE price[v] \in Int
    <3>1. Prices \subseteq Nat /\ price[v] \in Prices \union {-1}
      BY DEF OrdersInv, Preorders!OrdersAssumption, Preorders!Hidden
    <3>2. \A p \in Prices : p \in Int
      BY <3>1
    <3>3. -1 \in Int
      OBVIOUS
    <3>4. price[v] \in Prices \/ price[v] = -1
      BY <3>1
    <3> QED
      BY <3>2, <3>3, <3>4
  <2> HIDE DEF items
  <2> QED
    BY <1>1, <2>1
<1> HIDE DEF items
<1>9. WritingInv'
  BY <1>1, <1>5, <1>6, <1>7 DEF WritingInv, AddsUp, Lines, Rounded, ByTheRules, Preorders!RuleFor
<1> QED
  BY <1>1, <1>8, <1>9 DEF OrdersInv, RulesInv, AddsUp

LEMMA PlacedCommits ==
  ASSUME OrdersInv, Preorders!Commit
  PROVE  /\ orders' = Append(orders, [items |-> writing.items, total |-> writing.total, final |-> Omit])
         /\ DOMAIN orders' = DOMAIN orders \union {Len(orders) + 1}
         /\ Len(orders) + 1 \notin DOMAIN orders
         /\ \A o \in DOMAIN orders : orders'[o] = orders[o]
         /\ orders'[Len(orders) + 1].items = writing.items
         /\ orders'[Len(orders) + 1].total = writing.total
         /\ writing # Preorders!Nothing /\ AddsUp(writing.items, writing.total)
         /\ orders' \in Seq(OrderRows)
<1> DEFINE new == [items |-> writing.items, total |-> writing.total, final |-> Omit]
<1>1. orders' = Append(orders, new) /\ writing # Preorders!Nothing
  BY DEF Preorders!Commit
<1>2. AddsUp(writing.items, writing.total)
  BY <1>1 DEF OrdersInv, WritingInv
<1>3. new \in OrderRows /\ new.items = writing.items /\ new.total = writing.total
  BY <1>2 DEF AddsUp, OrderRows
<1>4. orders \in Seq(OrderRows)
  BY DEF OrdersInv
<1> HIDE DEF new
<1>5. /\ orders' \in Seq(OrderRows) /\ Len(orders') = Len(orders) + 1 /\ Len(orders) \in Nat
      /\ \A o \in 1 .. Len(orders) : orders'[o] = orders[o]
      /\ orders'[Len(orders) + 1] = new
  BY <1>1, <1>3, <1>4, AppendProperties
<1>6. DOMAIN orders' = 1 .. Len(orders) + 1 /\ DOMAIN orders = 1 .. Len(orders)
  BY <1>4, <1>5
<1> QED
  BY <1>1, <1>2, <1>3, <1>5, <1>6 DEF new

LEMMA PlacedCommitKeeps ==
  ASSUME OrdersInv, Preorders!Commit
  PROVE  OrdersInv'
<1>1. writing' = Preorders!Nothing /\ UNCHANGED <<price, enabled, rules>>
      /\ shown' = [v \in Orderable |-> {}]
  BY DEF Preorders!Commit
<1>2. WritingInv' /\ RulesInv' /\ shown' \in [Orderable -> SUBSET Int]
  BY <1>1 DEF OrdersInv, WritingInv, RulesInv
<1>3. \A o \in DOMAIN orders' : AddsUp(orders'[o].items, orders'[o].total)
  BY PlacedCommits DEF OrdersInv
<1>4. (\A o \in DOMAIN orders : AddsUp(orders[o].items, orders[o].total))'
  BY <1>3 DEF AddsUp, Lines, Rounded
<1> QED
  BY <1>1, <1>2, <1>4, PlacedCommits DEF OrdersInv

LEMMA PlacedRollbackKeeps ==
  ASSUME OrdersInv, Preorders!Rollback
  PROVE  OrdersInv'
<1>1. writing' = Preorders!Nothing /\ UNCHANGED <<price, enabled, rules, orders>>
      /\ shown' = [v \in Orderable |-> {}]
  BY DEF Preorders!Rollback
<1>2. WritingInv' /\ RulesInv' /\ shown' \in [Orderable -> SUBSET Int]
  BY <1>1 DEF OrdersInv, WritingInv, RulesInv
<1> QED
  BY <1>1, <1>2 DEF OrdersInv, AddsUp, Lines, Rounded

\* What was handed over leaves lines and total as they were.
LEMMA ItemsAmended ==
  ASSUME NEW items, NEW total, AddsUp(items, total), NEW n \in DOMAIN items,
         NEW x \in Nat \union {Omit}
  PROVE  AddsUp([items EXCEPT ![n].final = x], total)
<1> DEFINE new == [items EXCEPT ![n] = [items[n] EXCEPT !.final = x]]
<1>1. items \in Seq(OrderLines)
  BY DEF AddsUp
<1>2. items[n] \in OrderLines
  BY <1>1, Element
<1>3. [items[n] EXCEPT !.final = x] \in OrderLines
  BY <1>2 DEF OrderLines
<1>4. new \in Seq(OrderLines) /\ Len(new) = Len(items) /\ DOMAIN new = DOMAIN items
  BY <1>1, <1>3, ExceptSeq
<1>5. \A k \in DOMAIN items :
        new[k].line = items[k].line /\ new[k].price = items[k].price /\ new[k].quantity = items[k].quantity
  <2>1. \A k \in DOMAIN items : k # n => new[k] = items[k]
    OBVIOUS
  <2>2. new[n] = [items[n] EXCEPT !.final = x]
    OBVIOUS
  <2>3. new[n].line = items[n].line /\ new[n].price = items[n].price /\ new[n].quantity = items[n].quantity
    BY <1>2, <2>2 DEF OrderLines
  <2> HIDE DEF new
  <2> QED
    BY <2>1, <2>3
<1> HIDE DEF new
<1>6. Lines(new) = Lines(items)
  BY <1>4, <1>5 DEF Lines
<1>7. AddsUp(new, total)
  BY <1>4, <1>5, <1>6 DEF AddsUp, Rounded
<1> QED
  BY <1>7 DEF new

LEMMA AmendKeeps ==
  ASSUME OrdersInv, NEW o \in DOMAIN orders, NEW row \in OrderRows, AddsUp(row.items, row.total),
         orders' = [orders EXCEPT ![o] = row], UNCHANGED <<price, enabled, rules, writing, shown>>
  PROVE  OrdersInv' /\ DOMAIN orders' = DOMAIN orders
<1>1. /\ orders' \in Seq(OrderRows) /\ DOMAIN orders' = DOMAIN orders
  BY ExceptSeq DEF OrdersInv
<1>2. \A p \in DOMAIN orders : AddsUp(orders'[p].items, orders'[p].total)
  BY DEF OrdersInv
<1>3. (\A p \in DOMAIN orders : AddsUp(orders[p].items, orders[p].total))'
  BY <1>1, <1>2 DEF AddsUp, Lines, Rounded
<1>4. WritingInv' /\ RulesInv'
  BY DEF OrdersInv, WritingInv, RulesInv, AddsUp, Lines, Rounded, ByTheRules, Preorders!RuleFor
<1> QED
  BY <1>1, <1>3, <1>4 DEF OrdersInv

LEMMA FulfilKeeps ==
  ASSUME Preorders!OrdersAssumption, OrdersInv, NEW o \in DOMAIN orders, NEW x \in Finals,
         NEW n \in DOMAIN orders[o].items, Preorders!Fulfil(o, n, x)
  PROVE  OrdersInv' /\ DOMAIN orders' = DOMAIN orders
<1> DEFINE items == [orders[o].items EXCEPT ![n].final = x]
           row == [orders[o] EXCEPT !.items = items]
<1>1. orders[o] \in OrderRows /\ AddsUp(orders[o].items, orders[o].total) /\ x \in Nat
  BY Element DEF OrdersInv, Preorders!OrdersAssumption
<1>2. AddsUp(items, orders[o].total)
  BY <1>1, ItemsAmended
<1>3. items \in Seq(OrderLines)
  BY <1>2 DEF AddsUp
<1>4. orders' = [orders EXCEPT ![o] = row] /\ UNCHANGED <<price, enabled, rules, writing, shown>>
  BY DEF Preorders!Fulfil
<1> HIDE DEF items
<1>5. row \in OrderRows /\ row.items = items /\ row.total = orders[o].total
  BY <1>1, <1>3 DEF OrderRows
<1> HIDE DEF row
<1> QED
  BY <1>2, <1>4, <1>5, AmendKeeps

LEMMA FinalTotalKeeps ==
  ASSUME Preorders!OrdersAssumption, OrdersInv, NEW o \in DOMAIN orders, NEW x \in Finals,
         Preorders!FinalTotal(o, x)
  PROVE  OrdersInv' /\ DOMAIN orders' = DOMAIN orders
<1> DEFINE row == [orders[o] EXCEPT !.final = x]
<1>1. orders[o] \in OrderRows /\ AddsUp(orders[o].items, orders[o].total) /\ x \in Nat
  BY Element DEF OrdersInv, Preorders!OrdersAssumption
<1>2. orders' = [orders EXCEPT ![o] = row] /\ UNCHANGED <<price, enabled, rules, writing, shown>>
  BY DEF Preorders!FinalTotal
<1>3. row \in OrderRows /\ row.items = orders[o].items /\ row.total = orders[o].total
  BY <1>1 DEF OrderRows
<1> HIDE DEF row
<1> QED
  BY <1>1, <1>2, <1>3, AmendKeeps

\* Only a commit adds an order.
LEMMA OrdersStepKeeps ==
  ASSUME Preorders!OrdersAssumption, OrdersInv, [Preorders!Next]_orderVars
  PROVE  OrdersInv' /\ (Preorders!Commit \/ DOMAIN orders' = DOMAIN orders)
<1>1. CASE UNCHANGED orderVars
  BY <1>1 DEF orderVars, OrdersInv, RulesInv, WritingInv, AddsUp, Lines, Rounded, ByTheRules,
     Preorders!RuleFor
<1>2. ASSUME NEW body \in SettingsBodies, Preorders!Configure(body)
      PROVE  OrdersInv' /\ DOMAIN orders' = DOMAIN orders
  BY <1>2, ConfigureKeeps DEF Preorders!Configure
<1>3. ASSUME NEW v \in Orderable, Preorders!ChangeVariant(v)
      PROVE  OrdersInv' /\ DOMAIN orders' = DOMAIN orders
  BY <1>3, ChangeVariantKeeps DEF Preorders!ChangeVariant
<1>4. ASSUME NEW basket \in Baskets, Preorders!Price(basket)
      PROVE  OrdersInv' /\ DOMAIN orders' = DOMAIN orders
  BY <1>4, PriceKeeps DEF Preorders!Price
<1>5. CASE Preorders!Commit
  BY <1>5, PlacedCommitKeeps
<1>6. CASE Preorders!Rollback
  BY <1>6, PlacedRollbackKeeps DEF Preorders!Rollback
<1>7. ASSUME NEW o \in DOMAIN orders, NEW x \in Finals,
             \/ Preorders!FinalTotal(o, x)
             \/ \E n \in DOMAIN orders[o].items : Preorders!Fulfil(o, n, x)
      PROVE  OrdersInv' /\ DOMAIN orders' = DOMAIN orders
  BY <1>7, FulfilKeeps, FinalTotalKeeps
<1>8. UNCHANGED orderVars => DOMAIN orders' = DOMAIN orders
  BY DEF orderVars
<1> QED
  BY <1>1, <1>2, <1>3, <1>4, <1>5, <1>6, <1>7, <1>8 DEF Preorders!Next

LEMMA OrdersSound ==
  OrdersInv => Preorders!TypeOK /\ Preorders!RulesAreValid /\ Preorders!TotalsAddUp
<1> SUFFICES ASSUME OrdersInv
             PROVE  Preorders!TypeOK /\ Preorders!RulesAreValid /\ Preorders!TotalsAddUp
  OBVIOUS
<1>1. ASSUME NEW o \in DOMAIN orders
      PROVE  /\ AddsUp(orders[o].items, orders[o].total)
             /\ \A n \in DOMAIN orders[o].items : orders[o].items[n].variant \in Orderable
  <2>1. AddsUp(orders[o].items, orders[o].total)
    BY DEF OrdersInv
  <2>2. ASSUME NEW n \in DOMAIN orders[o].items PROVE orders[o].items[n] \in OrderLines
    BY <2>1, Element DEF AddsUp
  <2> QED
    BY <2>1, <2>2 DEF OrderLines
<1>2. Preorders!TypeOK
  BY <1>1 DEF OrdersInv, RulesInv, AddsUp, Preorders!TypeOK
<1>3. ASSUME NEW n \in DOMAIN rules PROVE {n} = Preorders!RuleFor(rules[n].variant)
  BY DEF OrdersInv, RulesInv, Preorders!RuleFor
<1>4. Preorders!RulesAreValid
  BY <1>3 DEF OrdersInv, RulesInv, Preorders!RulesAreValid
<1>5. Preorders!TotalsAddUp
  BY <1>1 DEF AddsUp, Lines, Rounded, Preorders!TotalsAddUp
<1> QED
  BY <1>2, <1>4, <1>5

\* Who is written: what was checked and priced, by a transaction that still holds the lock.
LEMMA AddedOrder ==
  ASSUME Preorders!OrdersAssumption, OrdersInv, [Preorders!Next]_orderVars,
         NEW o \in DOMAIN orders' \ DOMAIN orders
  PROVE  orders'[o].items = writing.items /\ writing # Preorders!Nothing
<1>1. Preorders!Commit
  BY OrdersStepKeeps
<1> QED
  BY <1>1, PlacedCommits

AddedByTheRules ==
  \A o \in DOMAIN orders' \ DOMAIN orders : enabled /\
    \A n \in DOMAIN orders'[o].items : LET i == orders'[o].items[n] IN
      \E r \in Preorders!RuleFor(i.variant) : \E k \in 0 .. rules[r].max :
        /\ i.quantity = rules[r].min + k * rules[r].step
        /\ i.quantity <= rules[r].max

AddedAsShown ==
  \A o \in DOMAIN orders' \ DOMAIN orders : \A n \in DOMAIN orders'[o].items :
    orders'[o].items[n].price \in shown[orders'[o].items[n].variant]

LEMMA AddedStep ==
  ASSUME Preorders!OrdersAssumption, OrdersInv, [Preorders!Next]_orderVars
  PROVE  AddedByTheRules /\ AddedAsShown
<1>1. AddedByTheRules
  BY AddedOrder DEF AddedByTheRules, OrdersInv, WritingInv, ByTheRules
<1>2. AddedAsShown
  BY AddedOrder DEF AddedAsShown, OrdersInv, WritingInv
<1> QED
  BY <1>1, <1>2

-----------------------------------------------------------------------------
(* Goods: a behaviour is one of each part, which a step of another leaves  *)
(* as it is                                                                *)

LEMMA StockPart == PartsSpec => Spec
<1>1. PartsInit => Init
  BY DEF PartsInit
<1>2. [PartsNext]_allVars => [Next]_vars
  BY DEF PartsNext, allVars
<1> QED
  BY <1>1, <1>2, PTL DEF PartsSpec, Spec

LEMMA CatalogPart == PartsSpec => Images!Spec
<1>1. PartsInit => Images!Init
  BY DEF PartsInit, CatalogRests
<1>2. [PartsNext]_allVars => [Images!Next]_(Images!vars)
  BY DEF PartsNext, allVars, catalogVars, Images!vars
<1> QED
  BY <1>1, <1>2, PTL DEF PartsSpec, Images!Spec

LEMMA OrdersPart == PartsSpec => Preorders!Spec
<1>1. PartsInit => Preorders!Init
  BY DEF PartsInit, OrdersRest
<1>2. [PartsNext]_allVars => [Preorders!Next]_(Preorders!vars)
  BY DEF PartsNext, allVars, orderVars, Preorders!vars
<1> QED
  BY <1>1, <1>2, PTL DEF PartsSpec, Preorders!Spec

LEMMA CatalogInvariant == ASSUME Images!CatalogAssumption PROVE Images!Spec => []CatalogInv
<1>1. Images!Init => CatalogInv
  BY CatalogStarts
<1>2. CatalogInv /\ [Images!Next]_(Images!vars) => CatalogInv'
  BY CatalogStepKeeps DEF Images!vars, catalogVars
<1> QED
  BY <1>1, <1>2, PTL DEF Images!Spec

LEMMA OrdersInvariant == ASSUME Preorders!OrdersAssumption PROVE Preorders!Spec => []OrdersInv
<1>1. Preorders!Init => OrdersInv
  BY OrdersStart
<1>2. OrdersInv /\ [Preorders!Next]_(Preorders!vars) => OrdersInv'
  BY OrdersStepKeeps DEF Preorders!vars, orderVars
<1> QED
  BY <1>1, <1>2, PTL DEF Preorders!Spec

-----------------------------------------------------------------------------
(* Catalogue: codes                                                        *)

\* A call past the unique index has its code to itself, before it commits.
HasCode(c) == calls[c].phase \in {"image", "add", "commit"} /\ calls[c].row.code # NoCode
CodesInv ==
  /\ Images!OneVariantPerCode
  /\ \A c \in Calls : HasCode(c) =>
       /\ \A v \in Variants \ {calls[c].v} : rows[v].code # calls[c].row.code
       /\ \A d \in Calls \ {c} : HasCode(d) => calls[d].row.code # calls[c].row.code

\* Steps that give no code to a row or to a call.
LEMMA CodesStay ==
  ASSUME CodesInv, \A v \in Variants : rows'[v].code = rows[v].code,
         \A c \in Calls : HasCode(c)' =>
           HasCode(c) /\ calls'[c].v = calls[c].v /\ calls'[c].row = calls[c].row
  PROVE  CodesInv'
BY DEF CodesInv, Images!OneVariantPerCode

\* The index waits for whoever may have the code, then looks for it in the rows.
LEMMA UniqueCodeGives ==
  ASSUME CatalogInv, CodesInv, NEW c \in Calls, Images!UniqueCode(c)
  PROVE  CodesInv'
<1>1. calls \in [Calls -> Writes] /\ Alone /\ calls[c].v \in Variants /\ rows' = rows
  BY DEF CatalogInv, CatalogTyped, Writes, Images!UniqueCode
<1> DEFINE k == calls[c].row.code
<1>2. CASE Images!CodeTaken(c)
  <2>1. calls'[c].phase = "refused" /\ \A d \in Calls \ {c} : calls'[d] = calls[d]
    BY <1>1, <1>2 DEF Images!UniqueCode, Images!End
  <2> QED
    BY <1>1, <2>1, CodesStay DEF HasCode
<1>3. CASE ~ Images!CodeTaken(c)
  <2>1. /\ calls'[c].phase = "image" /\ calls'[c].v = calls[c].v /\ calls'[c].row = calls[c].row
        /\ \A d \in Calls \ {c} : calls'[d] = calls[d]
    BY <1>1, <1>3 DEF Images!UniqueCode
  <2>2. Images!Wrote(c) /\ \A d \in Calls : HasCode(d) => Images!Wrote(d) /\ calls[d].phase # "key"
    BY DEF Images!UniqueCode, Images!Wrote, HasCode
  <2>3. ASSUME k # NoCode, NEW v \in Variants \ {calls[c].v} PROVE rows[v].code # k
    BY <1>1, <1>3, <2>3 DEF Images!CodeTaken, Images!TakesCode, CodesInv, Images!OneVariantPerCode
  <2>4. ASSUME k # NoCode, NEW d \in Calls \ {c}, HasCode(d) PROVE calls[d].row.code # k
    <3>1. CASE Images!TakesCode(c)
      <4>1. ~ Images!Holds(d, k)
        BY <3>1 DEF Images!UniqueCode, Images!WaitsFor
      <4> QED
        BY <2>2, <2>4, <4>1 DEF Images!Holds
    <3>2. CASE ~ Images!TakesCode(c)
      <4>1. rows[calls[c].v].code = k
        BY <2>4, <3>2 DEF Images!TakesCode
      <4>2. calls[d].v # calls[c].v
        BY <1>1, <2>2, <2>4 DEF Alone
      <4> QED
        BY <1>1, <2>4, <4>1, <4>2 DEF CodesInv
    <3> QED
      BY <3>1, <3>2
  <2>5. ASSUME NEW d \in Calls \ {c} PROVE HasCode(d)' <=> HasCode(d)
    BY <2>1 DEF HasCode
  <2>6. ASSUME NEW e \in Calls, HasCode(e)'
        PROVE  /\ \A v \in Variants \ {calls'[e].v} : rows[v].code # calls'[e].row.code
               /\ \A d \in Calls \ {e} : HasCode(d)' => calls'[d].row.code # calls'[e].row.code
    <3>1. CASE e = c
      <4>1. k # NoCode
        BY <2>1, <2>6, <3>1 DEF HasCode
      <4> QED
        BY <2>1, <2>3, <2>4, <2>5, <3>1, <4>1
    <3>2. CASE e # c
      <4>1. HasCode(e) /\ calls'[e] = calls[e]
        BY <2>1, <2>5, <2>6, <3>2
      <4>2. HasCode(c)' => calls'[c].row.code # calls[e].row.code
        <5>1. HasCode(c)' => k # NoCode
          BY <2>1 DEF HasCode
        <5> QED
          BY <2>1, <2>4, <3>2, <4>1, <5>1
      <4> QED
        BY <2>1, <2>5, <3>2, <4>1, <4>2 DEF CodesInv
    <3> QED
      BY <3>1, <3>2
  <2> QED
    BY <1>1, <2>6 DEF CodesInv, Images!OneVariantPerCode
<1> QED
  BY <1>2, <1>3

LEMMA CommitKeepsCodes ==
  ASSUME CatalogInv, CodesInv, NEW c \in Calls, Images!Commit(c)
  PROVE  CodesInv'
<1>1. calls \in [Calls -> Writes] /\ calls[c].v \in Variants /\ DOMAIN rows = Variants
  BY DEF CatalogInv, CatalogTyped, Writes
<1>2. /\ calls[c].phase = "commit" /\ rows' = [rows EXCEPT ![calls[c].v] = calls[c].row]
      /\ calls'[c].phase = "done" /\ \A d \in Calls \ {c} : calls'[d] = calls[d]
  BY <1>1 DEF Images!Commit, Images!End
<1>3. /\ rows'[calls[c].v] = calls[c].row
      /\ \A v \in Variants \ {calls[c].v} : rows'[v] = rows[v]
  BY <1>1, <1>2
<1>4. \A d \in Calls : HasCode(d)' => d # c /\ HasCode(d) /\ calls'[d] = calls[d]
  BY <1>2 DEF HasCode
<1>5. calls[c].row.code # NoCode => HasCode(c)
  BY <1>2 DEF HasCode
<1>6. Images!OneVariantPerCode'
  BY <1>1, <1>3, <1>5 DEF CodesInv, Images!OneVariantPerCode
<1>7. ASSUME NEW d \in Calls, HasCode(d)'
      PROVE  /\ \A v \in Variants \ {calls'[d].v} : rows'[v].code # calls'[d].row.code
             /\ \A e \in Calls \ {d} : HasCode(e)' => calls'[e].row.code # calls'[d].row.code
  <2>1. d # c /\ HasCode(d) /\ calls'[d] = calls[d] /\ calls[d].row.code # NoCode
    BY <1>4, <1>7 DEF HasCode
  <2>2. calls[c].row.code # calls[d].row.code
    BY <1>5, <2>1 DEF CodesInv
  <2>3. ASSUME NEW v \in Variants \ {calls[d].v} PROVE rows'[v].code # calls[d].row.code
    BY <1>3, <2>1, <2>2 DEF CodesInv
  <2> QED
    BY <1>4, <2>1, <2>3 DEF CodesInv
<1> QED
  BY <1>6, <1>7 DEF CodesInv

LEMMA CodesStepKeep ==
  ASSUME CatalogInv, CodesInv, [Images!Next]_catalogVars
  PROVE  CodesInv'
<1>1. calls \in [Calls -> Writes] /\ DOMAIN rows = Variants
  BY DEF CatalogInv, CatalogTyped
<1>2. ASSUME NEW c \in Calls, UNCHANGED rows, \A d \in Calls \ {c} : calls'[d] = calls[d],
             HasCode(c)' => HasCode(c) /\ calls'[c].v = calls[c].v /\ calls'[c].row = calls[c].row
      PROVE  CodesInv'
  BY <1>2, CodesStay DEF HasCode
<1>3. ASSUME NEW c \in Calls, Images!Request(c) PROVE CodesInv'
  BY <1>1, <1>2, <1>3 DEF Images!Request, HasCode
<1>4. ASSUME NEW c \in Calls, Images!CreateVariant(c) PROVE CodesInv'
  BY <1>1, <1>2, <1>4 DEF Images!CreateVariant, Images!End, HasCode
<1>5. ASSUME NEW c \in Calls, Images!UpdateVariant(c) PROVE CodesInv'
  BY <1>1, <1>2, <1>5 DEF Images!UpdateVariant, HasCode
<1>6. ASSUME NEW c \in Calls, Images!ApplyVariantImage(c) PROVE CodesInv'
  BY <1>1, <1>2, <1>6 DEF Images!ApplyVariantImage, HasCode
<1>7. ASSUME NEW c \in Calls, Images!CreateVariantImage(c) PROVE CodesInv'
  BY <1>1, <1>2, <1>7 DEF Images!CreateVariantImage, HasCode
<1>8. ASSUME NEW c \in Calls, Images!Rollback(c) \/ Images!Deadlocked(c) PROVE CodesInv'
  <2>1. calls' = Images!End(c, "refused") /\ rows' = rows
    BY <1>8 DEF Images!Rollback, Images!Deadlocked
  <2>2. calls'[c].phase = "refused" /\ \A d \in Calls \ {c} : calls'[d] = calls[d]
    BY <1>1, <2>1 DEF Images!End
  <2> QED
    BY <1>2, <2>1, <2>2 DEF HasCode
<1>9. ASSUME NEW v \in Variants, Images!ArchiveVariant(v) PROVE CodesInv'
  <2>1. calls' = calls /\ \A w \in Variants : rows'[w].code = rows[w].code
    BY <1>1, <1>9 DEF Images!ArchiveVariant
  <2> QED
    BY <2>1, CodesStay DEF HasCode
<1>10. ASSUME UNCHANGED <<rows, calls>> PROVE CodesInv'
  BY <1>10, CodesStay DEF HasCode
<1>11. CASE UNCHANGED catalogVars
  BY <1>10, <1>11 DEF catalogVars
<1>12. ASSUME NEW status \in Statuses, NEW public \in BOOLEAN,
              Images!CreateProduct(status, public) \/ Images!UpdateProduct(status, public)
       PROVE  CodesInv'
  BY <1>10, <1>12 DEF Images!CreateProduct, Images!UpdateProduct
<1>13. CASE Images!ArchiveProduct
  BY <1>10, <1>13 DEF Images!ArchiveProduct
<1> QED
  BY <1>3, <1>4, <1>5, <1>6, <1>7, <1>8, <1>9, <1>11, <1>12, <1>13, UniqueCodeGives, CommitKeepsCodes
     DEF Images!Next, Images!Proceed

LEMMA CodesInvariant == ASSUME Images!CatalogAssumption PROVE Images!Spec => []CodesInv
<1>1. Images!Init => CatalogInv /\ CodesInv
  <2>1. Images!Init => CodesInv
    BY DEF Images!Init, Images!Idle, CodesInv, HasCode, Images!OneVariantPerCode
  <2> QED
    BY <2>1, CatalogStarts
<1>2. CatalogInv /\ CodesInv /\ [Images!Next]_(Images!vars) => CatalogInv' /\ CodesInv'
  BY CatalogStepKeeps, CodesStepKeep DEF Images!vars, catalogVars
<1> QED
  BY <1>1, <1>2, PTL DEF Images!Spec

-----------------------------------------------------------------------------
(* Goods: theorems *)

\* What transactions of stock, catalogue and preorders leave is sound: one movement to a key,
\* one image to a variant, complete rules, one to a variant, and totals that add up.
THEOREM RowsSound == PartsSpec => []RowsAreSound
<1>1. InventoryAssumption /\ Images!CatalogAssumption /\ Preorders!OrdersAssumption
  BY GoodsAssumption
<1>2. /\ TypeOK /\ OneMovementPerKey
      /\ Images!TypeOK /\ Images!OneImage
      /\ Preorders!TypeOK /\ Preorders!RulesAreValid /\ Preorders!TotalsAddUp
      => RowsAreSound
  BY DEF RowsAreSound
<1> QED
  BY <1>1, <1>2, StockPart, TypeCorrect, KeyHeldOnce, CatalogPart, CatalogInvariant, CatalogSound,
     OrdersPart, OrdersInvariant, OrdersSound, PTL

\* applyVariantImage and parseVariantInput: a write of a variant answers with the image it
\* leaves, and none shows a hidden variant unless it was asked to.
THEOREM VariantsRight == PartsSpec => VariantsAreAsAsked
<1>1. Images!CatalogAssumption
  BY GoodsAssumption
<1>2. CatalogInv /\ [Images!Next]_(Images!vars) => [AnswerStored]_(Images!vars)
  BY AnswersStep DEF Images!vars, catalogVars
<1>3. CatalogInv /\ [Images!Next]_(Images!vars) => [ShownAsAsked]_(Images!vars)
  BY ShownStep DEF Images!vars, catalogVars
<1> QED
  BY <1>1, <1>2, <1>3, CatalogPart, CatalogInvariant, PTL
     DEF Images!Spec, VariantsAreAsAsked, Images!AnswersAreStored, Images!ShownOnlyWhenAsked,
         AnswerStored, ShownAsAsked

\* create: what a preorder orders is allowed by the rules there are when it is committed, at
\* prices its variants had since they were read.
THEOREM PreordersRight == PartsSpec => PlacedAsOffered
<1>1. Preorders!OrdersAssumption
  BY GoodsAssumption
<1>2. OrdersInv /\ [Preorders!Next]_(Preorders!vars) => [AddedByTheRules]_(Preorders!vars)
  BY <1>1, AddedStep DEF Preorders!vars, orderVars
<1>3. OrdersInv /\ [Preorders!Next]_(Preorders!vars) => [AddedAsShown]_(Preorders!vars)
  BY <1>1, AddedStep DEF Preorders!vars, orderVars
<1> QED
  BY <1>1, <1>2, <1>3, OrdersPart, OrdersInvariant, PTL
     DEF Preorders!Spec, PlacedAsOffered, Preorders!CommittedByTheRules, Preorders!PricedAsShown,
         AddedByTheRules, AddedAsShown

\* The unique indexes of a variant's codes: whatever writes wait for, take and free codes at
\* once, no two variants have one, archived variants included.
THEOREM CodesAreUnique == PartsSpec => []Images!OneVariantPerCode
<1>1. Images!CatalogAssumption
  BY GoodsAssumption
<1>2. CodesInv => Images!OneVariantPerCode
  BY DEF CodesInv
<1> QED
  BY <1>1, <1>2, CatalogPart, CodesInvariant, PTL
=============================================================================
