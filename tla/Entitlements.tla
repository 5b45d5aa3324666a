---------------------------- MODULE Entitlements ----------------------------
(***************************************************************************)
(* What a business's subscription row entitles it to                       *)
(* (internal/entitlements/service.go).  The limits of a tier are           *)
(* parameters, so that a small instance can run into them: in the code     *)
(* they are 0, 50 and 1000 requests per period and 0, 1 and 5 resources.   *)
(***************************************************************************)
EXTENDS Integers

CONSTANTS
  RequestLimit,    \* Tiers -> Nat: confirmations per module and period
  ResourceLimit    \* Tiers -> Nat: active appointment resources

Tiers == {"free", "essential", "business"}

ASSUME LimitsAssumption ==
  /\ RequestLimit \in [Tiers -> Nat]
  /\ ResourceLimit \in [Tiers -> Nat]
  /\ RequestLimit["free"] = 0 /\ ResourceLimit["free"] = 0

\* The columns of business_subscriptions that the operations read; grace = 0
\* stands for a NULL grace_until.
Subscription ==
  [tier: Tiers, status: {"inactive", "active", "pilot", "past_due", "unpaid"},
   modules: SUBSET {"appointments", "preorders"},
   periodStart: Nat, periodEnd: Nat, grace: Nat]

Paid(s, now) ==
  /\ s.tier # "free"
  /\ \/ s.status \in {"active", "pilot"} /\ now < s.periodEnd
     \/ s.status = "past_due" /\ now < s.grace

\* requirePaid: paid, and the module is part of the subscription.
Subscribed(s, module, now) == Paid(s, now) /\ module \in s.modules
=============================================================================
