----------------------------- MODULE MCRequests -----------------------------
(***************************************************************************)
(* Values of the constants of Requests for model checking.                 *)
(***************************************************************************)
EXTENDS Requests, TLC

CONSTANTS a, b, c, h1, h2, w1, w2    \* model values, for symmetry

MCIds2 == {a, b}
MCIds3 == {a, b, c}
Workers2 == {w1, w2}
Symmetric3 == Permutations(MCIds3) \union Permutations({h1, h2})
SymmetricRace == Permutations({w1, w2})
MCHandlers == {h1, h2}
NoWindow == [w \in {} |-> 0]
Symmetric2 == Permutations(MCIds2) \union Permutations({h1, h2})

MCLimit == [free |-> 0, essential |-> 1, business |-> 2]
MCResources == [free |-> 0, essential |-> 1, business |-> 2]

Sub(tier, modules, from, to) ==
  [tier |-> tier, status |-> IF tier = "free" THEN "inactive" ELSE "active",
   modules |-> modules, periodStart |-> from, periodEnd |-> to, grace |-> 0]
Open(opens, closes) == {[opens |-> opens, closes |-> closes]}
Active(hours, ttl, max) ==
  [enabled |-> TRUE, hours |-> hours, closed |-> {}, slot |-> 1, lead |-> 0, horizon |-> 9,
   cancelBefore |-> 0, ttl |-> ttl, maxOrders |-> max]
Off == [Active({}, 2, 0) EXCEPT !.enabled = FALSE]
ServiceRow(duration, buffer) ==
  [active |-> TRUE, public |-> TRUE, duration |-> duration, buffer |-> buffer]
ResourceRow(active) == [active |-> active, services |-> {}, hours |-> {}, closed |-> {}]

\* Bodies of calls.
Ask(channel, module, key, phone, service, where, start) ==
  [kind |-> "create", channel |-> channel, module |-> module, key |-> key, phone |-> phone,
   service |-> service, where |-> where, start |-> start]
To(channel, key, status) ==
  [kind |-> "transition", channel |-> channel, key |-> key, to |-> status]
MoveTo(key, where, start) ==
  [kind |-> "edit", channel |-> "owner", key |-> key, moves |-> TRUE,
   where |-> where, start |-> start]
Note(key, where) ==
  [kind |-> "edit", channel |-> "owner", key |-> key, moves |-> FALSE,
   where |-> where, start |-> 0]

MCWindowStart == [w \in {"noon", "later"} |-> IF w = "noon" THEN 2 ELSE 3]
MCWindowEnd == [w \in {"noon", "later"} |-> IF w = "noon" THEN 3 ELSE 4]
-----------------------------------------------------------------------------
\* appointments: two requests for overlapping times of one resource.
ApptConfigured ==
  [sub |-> Sub("business", {"appointments"}, 0, 9),
   settings |-> [m \in Modules |-> IF m = "appointments" THEN Active(Open(2, 6), 2, 0) ELSE Off],
   services |-> [s \in {"svc"} |-> ServiceRow(1, 1)],
   resources |-> [r \in {"chair"} |-> ResourceRow(TRUE)]]
BookCreates ==
  {Ask("public", "appointments", "k1", "ann", "svc", "chair", 2),
   Ask("personal", "appointments", "k1", "ann", "svc", "chair", 3)}
BookTransitions == {To("owner", "k1", "confirmed"), To("owner", "k2", "completed")}
ApptEdits == {MoveTo("k1", "chair", 3)}
ApptServices == {<<"svc", ServiceRow(2, 0)>>}
-----------------------------------------------------------------------------
\* expiration: one request, moved and decided while two workers try to expire it.
RaceConfigured ==
  [ApptConfigured EXCEPT !.settings["appointments"] = Active(Open(2, 6), 2, 0)]
RaceCreates == {Ask("public", "appointments", "k1", "ann", "svc", "chair", 2)}
RaceTransitions ==
  {To("owner", "k1", "confirmed"), To("public", "k1", "cancelled")}
RaceEdits == {MoveTo("k1", "chair", 4), MoveTo("k2", "chair", 2), Note("k2", "chair")}
-----------------------------------------------------------------------------
\* preorders: one place per window, and a plan whose limit and period change.
Orders(max) == Active(Open(2, 4), 2, max)
OrderConfigured ==
  [sub |-> Sub("business", {"preorders"}, 0, 9),
   settings |-> [m \in Modules |-> IF m = "preorders" THEN Orders(1) ELSE Off],
   services |-> [s \in {} |-> ServiceRow(1, 0)],
   resources |-> [r \in {} |-> ResourceRow(TRUE)]]
OrderCreates ==
  {Ask("public", "preorders", "k1", "ann", NoService, "noon", 0),
   Ask("public", "preorders", "k2", "ann", NoService, "later", 0)}
OrderTransitions == {To("owner", "k1", "confirmed"), To("owner", "k2", "ready")}
OrderEdits == {MoveTo("k1", "noon", 0)}
OrderSettings == {<<"preorders", Orders(0)>>, <<"preorders", Orders(1)>>}
OrderSubs == {Sub("essential", {"preorders"}, 0, 9), Sub("business", {"preorders"}, 1, 9)}
-----------------------------------------------------------------------------
\* retries: the same bodies and keys sent again and again, some rejected.
RetryConfigured ==
  [OrderConfigured EXCEPT !.settings["preorders"] = [Orders(0) EXCEPT !.hours = Open(4, 5), !.ttl = 3]]
RetryStart == [w \in {"noon"} |-> 4]
RetryEnd == [w \in {"noon"} |-> 5]
RetryCreates ==
  {Ask("public", "preorders", k, "ann", NoService, "noon", 0) : k \in {"k1", "k2"}}
RetryTransitions == {To("owner", "k1", "rejected")}
-----------------------------------------------------------------------------
\* lapsing: a request that nobody decides, a plan that ends, tables that are
\* cleaned, and a resource taken out of service.
LapseEdits == {MoveTo("k1", "chair", 4)}
LapseSubs == {Sub("free", {}, 0, 9)}
LapseServices == {<<"svc", ServiceRow(1, 0)>>}
LapseResources == {<<"chair", ResourceRow(FALSE)>>}
=============================================================================
