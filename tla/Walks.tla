-------------------------------- MODULE Walks --------------------------------
(***************************************************************************)
(* The lists that are walked page by page while they change: the loop of a *)
(* worker through due requests and customers (Sweeps), the pages a person  *)
(* asks for with a cursor (Cursors), and the export of a period (Export).  *)
(* The three share no variable, so a behaviour is one of a part, `part',   *)
(* while the others rest in an initial state.                              *)
(***************************************************************************)
EXTENDS Integers, Sequences, FiniteSets

CONSTANTS
  Appointments, Preorders, Customers, Litter, Refused, PageSize,    \* of Sweeps
  Rows, Limits, MaxTime,                                            \* of Cursors
  Requests, PeriodEnd, ExportPage, Cap, MaxChanges                  \* of Export

VARIABLES
  part,
  due, seen, customers, outdated, litter, ticked, doing, todo, offset, full, unvisited,
  now, created, cursor, page, listed, ended, stable,
  starts, at, skipped, total, out, first, added, moved

Loop == INSTANCE Sweeps WITH at <- doing
Pages == INSTANCE Cursors WITH Ids <- Rows
Csv == INSTANCE Export WITH
  Ids <- Requests, MaxTime <- PeriodEnd, PageSize <- ExportPage, offset <- skipped, created <- added

ASSUME WalksAssumption ==
  Loop!SweepsAssumption /\ Pages!CursorsAssumption /\ Csv!ExportAssumption
-----------------------------------------------------------------------------
loopVars == <<due, seen, customers, outdated, litter, ticked, doing, todo, offset, full, unvisited>>
pageVars == <<now, created, cursor, page, listed, ended, stable>>
csvVars == <<starts, at, skipped, total, out, first, added, moved>>
walkVars == <<part, loopVars, pageVars, csvVars>>

PagesRest == created = [i \in Rows |-> Pages!Absent] /\ Pages!Init
CsvRests == starts = [i \in Requests |-> Csv!Absent] /\ Csv!Init

WalksInit ==
  /\ Loop!Init
  /\ \/ part = "loop" /\ PagesRest /\ CsvRests
     \/ part = "pages" /\ Pages!Init /\ CsvRests
     \/ part = "export" /\ PagesRest /\ Csv!Init

\* An export ends; the loop and the pages go on for ever.
Exported == part = "export" /\ at \in {"done", "refused"} /\ UNCHANGED walkVars

WalksNext ==
  \/ part = "loop" /\ Loop!Next /\ UNCHANGED <<part, pageVars, csvVars>>
  \/ part = "pages" /\ Pages!Next /\ UNCHANGED <<part, loopVars, csvVars>>
  \/ part = "export" /\ Csv!Next /\ UNCHANGED <<part, loopVars, pageVars>>
  \/ Exported

WalksSpec == WalksInit /\ [][WalksNext]_walkVars
-----------------------------------------------------------------------------
\* A reconciliation of all customers that ends without an error has reached each that was
\* there when it began, though customers subscribe between its pages.
NobodySkipped == Loop!TypeOK /\ Loop!NobodySkipped

\* A walk by cursor to the end shows every row that was there all along, and none twice,
\* whatever is saved, removed, or saved again with the same time meanwhile.
StableListedOnce == Pages!TypeOK /\ Pages!StableListedOnce

\* An export that is answered has every request of the period, though others were made
\* while it ran; one during which nothing was made or moved is the period, in order.
ExportsAreWhole ==
  Csv!TypeOK /\ Csv!CreationsLoseNothing /\ Csv!ExportIsThePeriod
=============================================================================
