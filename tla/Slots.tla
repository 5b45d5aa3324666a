-------------------------------- MODULE Slots --------------------------------
(***************************************************************************)
(* The times a business offers on a date (Slots of internal/scheduling):   *)
(* the loop over the instants of the day, with the wall clock of a zone    *)
(* that changes once, and what it is to find: the instants that lie in an  *)
(* opening.  Instants are numbered so that they are wall times before the  *)
(* change; a day has DayLength of them (the code's 1440 minutes).          *)
(***************************************************************************)
EXTENDS Integers, FiniteSets

CONSTANTS
  DayLength,
  Inputs          \* arguments: date, hours, closed, step, duration, buffer, now, lead,
                  \* horizon, and the zone: its offset from UTC `base` (west is
                  \* negative), which changes at instant `at` by `shift`

\* The hours Validate accepts: a weekday once, times of the day that differ.
Validate(hours) ==
  /\ Cardinality(hours) <= 7
  /\ \A g, h \in hours : g.day = h.day => g = h
  /\ \A h \in hours : h.day \in 0..6 /\ {h.opens, h.closes} \subseteq 0..(DayLength - 1) /\ h.opens # h.closes

\* The least settings and services allow, and a zone that changes by a day at most.
SlotsAssumption ==
  /\ DayLength \in Nat \ {0}
  /\ \A x \in Inputs :
       /\ Validate(x.hours) /\ x.step \in Nat \ {0} /\ x.duration \in Nat \ {0} /\ x.buffer \in Nat
       /\ x.horizon \in Nat /\ {x.date, x.now, x.lead, x.at, x.base} \subseteq Int
       /\ x.shift \in -DayLength .. DayLength

VARIABLES
  q,              \* the arguments
  start,          \* the loop's instant
  out             \* slots found: starts

vars == <<q, start, out>>

-----------------------------------------------------------------------------
(* Package time *)

Offset(i) == IF i < q.at THEN 0 ELSE q.shift
Local(i) == i + Offset(i)
DateOf(i) == Local(i) \div DayLength
MinuteOf(i) == Local(i) % DayLength
WeekdayOf(i) == DateOf(i) % 7

\* time.Date of a wall time w: the offset in force when w is taken for UTC, and if that
\* does not lead back to where it is in force, the one in force where it leads.
Date(w) ==
  LET guess == w + q.base
      first == w - Offset(guess) IN
  IF (first < q.at) = (guess < q.at) THEN first ELSE w - Offset(first)

\* Time.AddDate: the wall time so many days on.
AddDate(i, n) == Date(Local(i) + n * DayLength)
-----------------------------------------------------------------------------
(* internal/scheduling *)

Day == Date(q.date * DayLength)
Today == Date(DateOf(q.now) * DayLength)

\* A date in the past, beyond the horizon or closed has no slots.
DateIsOpen == Day >= Today /\ Day < AddDate(Today, q.horizon + 1) /\ q.date \notin q.closed

Night(h) == h.closes < h.opens

\* The opening of h that covers the wall time of instant i: [weekday, offset, date] of it.
\* The date is that of the loop's day, or of the one before for the end of a night.
Opening(h, i) ==
  IF Night(h) /\ MinuteOf(i) < h.closes
  THEN [weekday |-> (WeekdayOf(i) + 6) % 7, offset |-> MinuteOf(i) + DayLength - h.opens,
        date |-> DateOf(AddDate(Day, -1))]
  ELSE [weekday |-> WeekdayOf(i), offset |-> MinuteOf(i) - h.opens, date |-> DateOf(Day)]

\* Mutant: the first and the last instant are probed.
FitsAtEnds(h, date, i) ==
  \A p \in {i, i + q.duration + q.buffer - 1} :
    LET wall == MinuteOf(p) + IF DateOf(p) # date THEN DayLength ELSE 0 IN
    /\ h.opens <= wall /\ wall < h.closes + IF Night(h) THEN DayLength ELSE 0
    /\ DateOf(p) \notin q.closed

\* Every instant that is occupied, the buffer included, is in the opening and on no
\* closed date.
Fits(h, date, i) ==
  \A p \in i .. (i + q.duration + q.buffer - 1) :
    LET wall == MinuteOf(p) + IF DateOf(p) # date THEN DayLength ELSE 0 IN
    /\ h.opens <= wall /\ wall < h.closes + IF Night(h) THEN DayLength ELSE 0
    /\ DateOf(p) \notin q.closed

IsSlot(i) ==
  /\ i >= q.now + q.lead
  /\ \E h \in q.hours : LET o == Opening(h, i) IN
       /\ o.weekday = h.day /\ o.offset >= 0 /\ o.offset % q.step = 0
       /\ o.date \notin q.closed
       /\ Fits(h, o.date, i)

\* One turn of the loop.
Step ==
  /\ DateIsOpen /\ start < AddDate(Day, 1)
  /\ out' = IF IsSlot(start) THEN out \union {start} ELSE out
  /\ start' = start + 1 /\ UNCHANGED q

Init == q \in Inputs /\ start = Day /\ out = {}
Spec == Init /\ [][Step]_vars
-----------------------------------------------------------------------------
(* What a slot is, without a loop *)

\* Wall time of an instant since the midnight that begins a date.
WallOf(i, date) == Local(i) - date * DayLength
Closing(h) == h.closes + IF Night(h) THEN DayLength ELSE 0

\* Instant i starts a slot of the opening of h on a date.
SlotOf(h, date, i) ==
  /\ date % 7 = h.day /\ date \notin q.closed
  /\ h.opens <= WallOf(i, date) /\ (WallOf(i, date) - h.opens) % q.step = 0
  /\ \A p \in i .. (i + q.duration + q.buffer - 1) :
       /\ WallOf(p, date) \in h.opens .. (Closing(h) - 1)
       /\ DateOf(p) \notin q.closed

Instants == ((q.date - 1) * DayLength) .. ((q.date + 2) * DayLength)
Reference ==
  {i \in Instants : /\ DateOf(i) = q.date /\ i >= q.now + q.lead
                    /\ DateOf(q.now) <= q.date /\ q.date <= DateOf(q.now) + q.horizon
                    /\ q.date \notin q.closed
                    /\ \E h \in q.hours, date \in {q.date - 1, q.date} : SlotOf(h, date, i)}

TypeOK == start \in Day .. AddDate(Day, 1) /\ out \subseteq Day .. (start - 1)

Finished == ~ DateIsOpen \/ start = AddDate(Day, 1)

\* The instants that may be the midnight that begins a date, and whether one is.
Around(d) == ((d - 1) * DayLength) .. ((d + 1) * DayLength)
IsMidnight(i, d) == Local(i) = d * DayLength

\* The change of the zone leaves the midnights that count as they are: it neither skips one
\* nor comes twice to it.
Midnights == {DateOf(q.now), DateOf(q.now) + q.horizon + 1} \union (q.date - 1) .. (q.date + 2)
MidnightsExist ==
  \A d \in Midnights :
    \E i \in Around(d) : IsMidnight(i, d) /\ \A j \in Around(d) : IsMidnight(j, d) => j = i

\* A night is over before the hours that the zone may skip up to the next midnight.
NightsEnd ==
  \A h \in q.hours, d \in {q.date + 1, q.date + 2} :
    Night(h) => \A i \in Around(d) : IsMidnight(i, d) => MinuteOf(i - 1) >= h.closes

\* The loop finds the slots of the date and no others, once each: over nights, closed
\* dates before and after midnight, hours that are skipped and hours that come twice.
SlotsAreTheOpenings == MidnightsExist /\ NightsEnd /\ Finished => out = Reference

\* The comment above Slots: "This skips DST gaps and preserves both offsets in a repeated
\* hour", on every day.
\* The code does not keep it.
GapsAreSkippedOnly == Finished => out = Reference
=============================================================================
