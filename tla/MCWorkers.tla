----------------------------- MODULE MCWorkers -----------------------------
(***************************************************************************)
(* Progress of the job workers: the queue, and the loop of Sweeps with     *)
(* requests that fall due, with rows to delete, and with customers, one of *)
(* which can never be reconciled.  The four share no variable that matters *)
(* to two of them, so a behaviour is one of a part, the others resting:    *)
(* `part` says which.                                                      *)
(***************************************************************************)
EXTENDS JobQueue

CONSTANTS w1, w2    \* model values
MCWorkerPair == {w1, w2}

VARIABLES
  part,
  due, seen, customers, outdated, litter, ticked, at, todo, offset, full, unvisited

DueSweeps == INSTANCE Sweeps WITH
  Appointments <- {1, 2}, Preorders <- {3}, Customers <- {}, Litter <- {}, Refused <- {}, PageSize <- 1
LitterSweeps == INSTANCE Sweeps WITH
  Appointments <- {1}, Preorders <- {}, Customers <- {}, Litter <- {"archive"}, Refused <- {}, PageSize <- 1
CustomerSweeps == INSTANCE Sweeps WITH
  Appointments <- {}, Preorders <- {}, Customers <- {1, 2, 3}, Litter <- {}, Refused <- {3}, PageSize <- 1
ASSUME
  DueSweeps!SweepsAssumption /\ LitterSweeps!SweepsAssumption /\ CustomerSweeps!SweepsAssumption

sweepVars == <<due, seen, customers, outdated, litter, ticked, at, todo, offset, full, unvisited>>
allVars == <<part, vars, sweepVars>>

\* A step of one part.
OfQueue(A) == part = "queue" /\ A /\ UNCHANGED <<part, sweepVars>>
OfSweeps(p, A) == part = p /\ A /\ UNCHANGED <<part, vars>>

PartsInit == part \in {"queue", "due", "litter", "customers"} /\ Init /\ DueSweeps!Init

PartsNext ==
  \/ OfQueue(Next)
  \/ OfSweeps("due", DueSweeps!Next)
  \/ OfSweeps("litter", LitterSweeps!Next)
  \/ OfSweeps("customers", CustomerSweeps!Next)

\* What FairSpec of JobQueue and of Sweeps assume of a part when it runs.  Conditions on
\* different parts are joined in one: only one of them is ever about the behaviour.
Fairness ==
  /\ WF_allVars(OfQueue(Tick))
  /\ \A w \in Workers :
       WF_allVars(OfQueue(Poll(w))) /\ WF_allVars(OfQueue(left[w] <= 0 /\ Abandon(w)))
  /\ \A t \in {"poll", "sweep", "reconcile"} :
       WF_allVars(\/ OfSweeps("due", DueSweeps!Tick(t))
                  \/ OfSweeps("litter", LitterSweeps!Tick(t))
                  \/ OfSweeps("customers", CustomerSweeps!Tick(t)))
  /\ WF_allVars(\/ OfSweeps("due", DueSweeps!Process \/ DueSweeps!Fail)
                \/ OfSweeps("litter", LitterSweeps!Process \/ LitterSweeps!Fail)
                \/ OfSweeps("customers", CustomerSweeps!Process \/ CustomerSweeps!Fail))
  /\ \A m \in 1 .. 2 :
       /\ SF_allVars(\/ OfQueue(\E w \in Workers : HeadIs(w, m) /\ (RunJob(w, "ok") \/ RunJob(w, "failed")))
                     \/ OfSweeps("due", DueSweeps!FirstIs(m) /\ DueSweeps!ExpireFirst)
                     \/ OfSweeps("litter", LitterSweeps!FirstIs(m) /\ LitterSweeps!ExpireFirst)
                     \/ OfSweeps("customers", CustomerSweeps!FirstIs(m) /\ CustomerSweeps!ReconcileFirst))
  /\ SF_allVars(\/ OfQueue(\E w \in Workers : HeadIs(w, 1) /\ Record(w))
                \/ OfSweeps("due", DueSweeps!FirstIs(3) /\ DueSweeps!ExpireFirst)
                \/ OfSweeps("litter", LitterSweeps!PreordersDone)
                \/ OfSweeps("customers", CustomerSweeps!NextPage))
  /\ SF_allVars(\/ OfQueue(\E w \in Workers : HeadIs(w, 2) /\ Record(w))
                \/ OfSweeps("due", DueSweeps!AppointmentsDone)
                \/ OfSweeps("litter", LitterSweeps!AppointmentsDone)
                \/ OfSweeps("customers", CustomerSweeps!Choose("reconcile")))
  /\ SF_allVars(\/ OfSweeps("due", DueSweeps!Choose("sweep"))
                \/ OfSweeps("litter", LitterSweeps!Choose("sweep")))
  /\ \A place \in {"cleanReplay", "cleanAccess", "cleanArchive"} :
       SF_allVars(OfSweeps("litter", at = place /\ LitterSweeps!CleanUp))

FairParts == PartsInit /\ [][PartsNext]_allVars /\ Fairness
-----------------------------------------------------------------------------
\* The loop gets to everything though its sweeps end early: a request that is past its
\* expiry is expired, however many others are due; what may be deleted is deleted; and,
\* internal/billing/handler.go, on an applied change that was not reconciled: "webhook jobs
\* and the periodic sweep will retry it", the outdated row of every customer is reconciled
\* but for those behind one whose reconciliation never succeeds.
SweepsCatchUp ==
  DueSweeps!DueExpire /\ LitterSweeps!LitterGoes /\ CustomerSweeps!SweepReaches
=============================================================================
