----------------------------- MODULE MCBackground -----------------------------
(***************************************************************************)
(* Safety of the job queue, and of the lists that are walked while they    *)
(* change: a behaviour is one of the queue, or of a part of Walks, while   *)
(* the others rest in an initial state.  Deadlock is checked.              *)
(***************************************************************************)
EXTENDS JobQueue, Walks, TLC

CONSTANTS w1, w2    \* model values

MCWorkerPair == {w1, w2}
Symmetric == Permutations(MCWorkerPair)

PartsInit ==
  /\ Init
  /\ \/ part = "queue" /\ Loop!Init /\ PagesRest /\ CsvRests
     \/ WalksInit

PartsNext ==
  \/ part = "queue" /\ Next /\ UNCHANGED walkVars
  \/ WalksNext /\ UNCHANGED vars

PartsSpec == PartsInit /\ [][PartsNext]_<<vars, walkVars>>
=============================================================================
