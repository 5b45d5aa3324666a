------------------------------- MODULE Offers -------------------------------
(***************************************************************************)
(* What clients are offered, side by side: the slots of a date (Slots) and *)
(* the marketplace (Reach).  They share no variable, so a behaviour is one *)
(* of a part, `part', while the other rests in an initial state.           *)
(***************************************************************************)
EXTENDS Integers

CONSTANTS
  DayLength, Inputs,                                             \* of Slots
  Shops, Rows, Queries, Words, Lower, Key, Blank, PerPage, Null   \* of Reach

VARIABLES
  part,
  q, start, slots,
  shop, visit, seen, changed

Offered == INSTANCE Slots WITH out <- slots
Marketplace == INSTANCE Reach WITH Limit <- PerPage, None <- Null

ASSUME OffersAssumption == Offered!SlotsAssumption /\ Marketplace!ReachAssumption
-----------------------------------------------------------------------------
slotVars == <<q, start, slots>>
reachVars == <<shop, visit, seen, changed>>
offerVars == <<part, slotVars, reachVars>>

SlotsRest == q = (CHOOSE x \in Inputs : TRUE) /\ Offered!Init
ReachRests == shop = [s \in Shops |-> CHOOSE x \in Rows[s] : TRUE] /\ Marketplace!Init

OffersInit ==
  \/ part = "slots" /\ Offered!Init /\ ReachRests
  \/ part = "marketplace" /\ SlotsRest /\ Marketplace!Init

\* The loop over the instants of a date ends.
SlotsDone == part = "slots" /\ Offered!Finished /\ UNCHANGED offerVars

OffersNext ==
  \/ part = "slots" /\ Offered!Step /\ UNCHANGED <<part, reachVars>>
  \/ part = "marketplace" /\ Marketplace!Next /\ UNCHANGED <<part, slotVars>>
  \/ SlotsDone

OffersSpec == OffersInit /\ [][OffersNext]_offerVars
-----------------------------------------------------------------------------
\* The loop over the instants of a date finds its slots and no others: over nights, closed
\* dates, hours that are skipped and hours that come twice.
SlotsAreTheOpenings == Offered!TypeOK /\ Offered!SlotsAreTheOpenings

\* README.md: areas are "used by marketplace reach filtering".  The mobile businesses found
\* are those that serve some part of the place asked for, however it is spelled, each shown
\* with an area that serves it; naming one more field finds no others; and a walk by offset
\* shows every business once if names differ and no profile changes.
FoundWhereItServes ==
  /\ Marketplace!TypeOK /\ Marketplace!FoundWhereItServes /\ Marketplace!ShownWithItsArea
  /\ Marketplace!NarrowerShowsLess /\ Marketplace!WalkShowsEachOnce
=============================================================================
