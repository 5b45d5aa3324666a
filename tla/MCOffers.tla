------------------------------ MODULE MCOffers ------------------------------
(***************************************************************************)
(* Safety of what a business is granted (Billing) and of what its clients  *)
(* are offered (Offers): a behaviour is one of Billing, or of a part of    *)
(* Offers, while the others rest in an initial state.  Deadlock is checked.*)
(***************************************************************************)
EXTENDS Billing, Offers, TLC

CONSTANTS k1, k2, w1, r1, r2, stand, cart, van    \* model values

-----------------------------------------------------------------------------
\* Two owners go up and down, the row reconciled by a worker and by them; or one asks for a
\* change twice with its key, with and without the resource to retain.  One module on two
\* tiers.
MCPlan(tier) == [tier |-> tier, modules |-> {"appointments"}]
MCWant(tier, retained, dated) == [to |-> MCPlan(tier), retained |-> retained, dated |-> dated]
MCKeys == {k1, k2}
MCWorkers == {w1}
MCResources == {r1, r2}
MCPlans == {MCPlan("essential"), MCPlan("business")}
UpAndDown == {MCWant("essential", None, FALSE), MCWant("business", None, FALSE)}
Repeating ==
  {MCWant("essential", r1, FALSE), MCWant("essential", None, FALSE), MCWant("business", None, TRUE)}
MCWants == UpAndDown \union Repeating

\* The bounds of the two: requests with a key, and keys in use.
ChangesInit == Init /\ want \in [Keys -> UpAndDown] /\ active = {}
ChangesNext == Next /\ active' = {} /\ (\A k \in Keys : call'[k].tries <= 1) /\ DOMAIN used \subseteq DOMAIN used'
RetriesInit == Init /\ want[k1] \in Repeating /\ want[k2] = MCWant("essential", None, FALSE)
RetriesNext == Next /\ call'[k2] = Idle

\* A day of six hours.  The date asked for is day 2 of day 0 to 4: open by day, from
\* midnight on, over midnight, and on two dates.  A zone may skip an hour or two, also those
\* before or after the midnight of this date, of the next, or of today.
Hour(d, a, b) == [day |-> d, opens |-> a, closes |-> b]
Weeks == {
  {Hour(2, 1, 5)}, {Hour(2, 0, 4)}, {Hour(1, 4, 2)}, {Hour(1, 5, 4), Hour(2, 3, 1)},
  {Hour(1, 2, 5), Hour(2, 5, 4)}}
MCInputs ==
  {x \in [date : {2}, hours : Weeks, closed : {{}, {1}, {3}}, step : {1, 2}, duration : {1, 3},
          buffer : {0, 1}, now : {0, 13}, lead : {0, 2}, horizon : {1, 3}, at : {0} \union 9..20,
          shift : {-1, 0, 1, 2}, base : {-2, 0, 2}] :
     x.shift = 0 => x.at = 9 /\ x.base = 0}

\* Marketplace: one place in three spellings, another one, and a word of punctuation.
MCWords == {"Jardin", "JARDIN", "Jardi'n", "Norte", "..."}
MCLower ==
  [w \in MCWords |->
     CASE w \in {"Jardin", "JARDIN"} -> "jardin" [] w = "Jardi'n" -> "jardi'n" [] OTHER -> w]
MCKey ==
  [w \in MCWords |->
     CASE w \in {"Jardin", "JARDIN", "Jardi'n"} -> "jardin" [] w = "Norte" -> "norte"
       [] OTHER -> Blank]

Nowhere ==
  [f \in {"country", "state", "municipality", "city", "neighborhood", "postal_code"} |-> Null]
In(city, hood) ==
  [Nowhere EXCEPT !["country"] = "Norte", !["state"] = "Norte", !["city"] = city,
                  !["neighborhood"] = hood]
Shop(m, n, where, address, A) ==
  [active |-> TRUE, mode |-> m, name |-> n, at |-> where, address |-> address, areas |-> A]

\* A place fixed, then closed; a cart that serves a city, a neighborhood, a state or a
\* city without a key; a van that has an address and areas, or only areas, and another name.
MCRows ==
  (stand :> {Shop("fixed", 1, [lat |-> 1, lng |-> 1], In("Jardi'n", "Norte"), {}),
             [Shop("fixed", 1, Null, In(Null, Null), {}) EXCEPT !.active = FALSE],
             Shop("fixed", 1, [lat |-> 2, lng |-> 0], In(Null, "Jardin"), {})})
  @@ (cart :> {Shop("mobile", 2, Null, Nowhere, A) :
               A \in {{In("JARDIN", Null)}, {In("Norte", "Jardi'n"), In("Jardin", "Norte")},
                      {In("...", Null)}}})
  @@ (van :> {Shop("hybrid", 3, [lat |-> 0, lng |-> 2], In("Norte", Null), {In("Jardin", "Jardin")}),
              Shop("mobile", 1, Null, Nowhere, {In(Null, Null)}),
              Shop("mobile", 2, Null, Nowhere, {[In("Jardin", Null) EXCEPT !["state"] = "Jardin"]})})

\* Nothing, parts of an address, boxes open on a side, both, and one that is empty.
MCQueries ==
  LET NoBox == [b \in {"min_lat", "max_lat", "min_lng", "max_lng"} |-> Null]
      Area(A) == [area |-> A, box |-> NoBox]
      Box(B) == [area |-> Nowhere, box |-> B]
      north == [NoBox EXCEPT !["min_lat"] = 1]
      square == ("min_lat" :> 0 @@ "max_lat" :> 1 @@ "min_lng" :> 1 @@ "max_lng" :> 2)
  IN {Area(Nowhere), Area(In(Null, Null)), Area(In("Jardin", Null)), Area(In("Jardi'n", "Norte")),
      Area(In("...", Null)),
      Area([Nowhere EXCEPT !["municipality"] = "Norte"]),
      Area([In(Null, Null) EXCEPT !["municipality"] = "Jardin"]),
      Area([Nowhere EXCEPT !["country"] = "Jardin", !["municipality"] = "Jardin"]),
      Area([Nowhere EXCEPT !["country"] = "Jardin"]),
      Area([Nowhere EXCEPT !["postal_code"] = "Norte"]),
      Box(north), Box(square), [area |-> In("Jardin", Null), box |-> north]}
-----------------------------------------------------------------------------
BillingRests == ChangesInit /\ row.tier = "essential" /\ \A k \in Keys : want[k].to.tier = "essential"
OffersRest == SlotsRest /\ ReachRests

PartsInit ==
  \/ part = "changes" /\ ChangesInit /\ OffersRest
  \/ part = "retries" /\ RetriesInit /\ OffersRest
  \/ BillingRests /\ OffersInit

PartsNext ==
  \/ part = "changes" /\ ChangesNext /\ UNCHANGED offerVars
  \/ part = "retries" /\ RetriesNext /\ UNCHANGED offerVars
  \/ OffersNext /\ UNCHANGED vars

PartsSpec == PartsInit /\ [][PartsNext]_<<vars, offerVars>>
=============================================================================
