----------------------------- MODULE MCAccounts -----------------------------
(***************************************************************************)
(* Safety of accounts, opening hours, profiles, checkouts and signing      *)
(* keys: values of the constants of Owners.                                *)
(***************************************************************************)
EXTENDS Owners, TLC

CONSTANTS
  u1, u2, o1, o2, c1, c2, c3, k1, k2, r1, r2,       \* model values
  plaza, plazaAgain, centre, north

MCUsers == {u1, u2}
MCOrgs == {o1, o2}
MCKeys == {k1, k2}
MCTokens == {r1, r2}
MCReplacements == {c1, c2, c3}
MCEdits == {c1, c2}

\* Weeks of one and two days, in both orders, a night, and bodies that are refused: a day
\* twice, equal times, an open day without times, no such day, no day.
Open(d, a, b) == [day |-> d, opens |-> a, closes |-> b, closed |-> FALSE]
Shut(d) == [day |-> d, opens |-> None, closes |-> None, closed |-> TRUE]
MCWeeks ==
  {<<Open(0, 9, 17)>>, <<Shut(1)>>, <<Open(0, 22, 2), Open(1, 9, 17)>>, <<Shut(1), Open(0, 8, 12)>>,
   <<Shut(0), Open(0, 9, 17)>>, <<Open(0, 9, 9)>>, <<Open(0, None, 17)>>, <<Open(7, 9, 17)>>, <<>>}

\* Each mode asked for or left out, areas given, emptied or left out, two spellings of
\* one place, more areas than are allowed, pickup from a mobile business.
MCAreas == {plaza, plazaAgain, centre, north}
Body(m, on, at, A) == [mode |-> m, active |-> on, located |-> at, pickup |-> FALSE, areas |-> A]
MCBodies ==
  {Body(m, TRUE, m # "mobile", A) :
     m \in {"fixed", "mobile", "hybrid", None}, A \in {None, {}, {plaza}}}
  \union {Body(None, TRUE, FALSE, {centre}), Body(None, FALSE, FALSE, {}),
          Body("fixed", FALSE, FALSE, None), Body("hybrid", TRUE, TRUE, {plaza, plazaAgain}),
          Body("hybrid", TRUE, TRUE, {plaza, centre, north}),
          [Body("mobile", TRUE, FALSE, {plaza}) EXCEPT !.pickup = TRUE]}

MCAreaKey == [a \in MCAreas |-> IF a = plazaAgain THEN plaza ELSE a]

Symmetric ==
  Permutations({u1, u2}) \union Permutations({o1, o2}) \union Permutations({c1, c2})
    \union Permutations({k1, k2}) \union Permutations({r1, r2})
=============================================================================
