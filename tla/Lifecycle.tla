----------------------------- MODULE Lifecycle -----------------------------
(***************************************************************************)
(* The life cycle of a customer request, for the two operational modules:  *)
(* the transition tables of internal/appointments and internal/preorders   *)
(* and the statuses that the availability queries count as holding a place.*)
(***************************************************************************)

Modules == {"appointments", "preorders"}

AppointmentStatuses ==
  {"requested", "confirmed", "completed", "cancelled", "rejected", "expired", "no_show"}

PreorderStatuses ==
  {"requested", "confirmed", "preparing", "ready", "collected", "uncollected",
   "cancelled", "rejected", "expired"}

Statuses == AppointmentStatuses \union PreorderStatuses

\* appointments.Next
AppointmentNext(status) ==
  CASE status = "requested" -> {"confirmed", "rejected", "cancelled"}
    [] status = "confirmed" -> {"completed", "cancelled", "no_show"}
    [] OTHER -> {}

\* Mutant: a pending preorder may be marked ready at once.
PreorderNextEager(status) ==
  CASE status = "requested" -> {"confirmed", "ready", "rejected", "cancelled"}
    [] status = "confirmed" -> {"preparing", "ready", "collected", "cancelled", "uncollected"}
    [] status = "preparing" -> {"ready", "collected", "cancelled", "uncollected"}
    [] status = "ready" -> {"collected", "cancelled", "uncollected"}
    [] OTHER -> {}

\* preorders.Next
PreorderNext(status) ==
  CASE status = "requested" -> {"confirmed", "rejected", "cancelled"}
    [] status = "confirmed" -> {"preparing", "ready", "collected", "cancelled", "uncollected"}
    [] status = "preparing" -> {"ready", "collected", "cancelled", "uncollected"}
    [] status = "ready" -> {"collected", "cancelled", "uncollected"}
    [] OTHER -> {}

\* next(module, status): the transitions offered to an operator.
Allowed(module, status) ==
  IF module = "appointments" THEN AppointmentNext(status) ELSE PreorderNext(status)

\* A status with no way out.
Terminal(module, status) == Allowed(module, status) = {}

\* The statuses AppointmentOverlaps and PickupWindowUsage count: a request in
\* one of them occupies its slot or one place of its pickup window.
HoldingAppointment == {"confirmed", "completed", "no_show"}
HoldingPreorder == {"confirmed", "preparing", "ready", "collected", "uncollected"}
Holding(module) ==
  IF module = "appointments" THEN HoldingAppointment ELSE HoldingPreorder
=============================================================================
