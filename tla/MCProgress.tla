----------------------------- MODULE MCProgress -----------------------------
(***************************************************************************)
(* Progress of writes that wait for each other, and of a subscription row  *)
(* that follows Stripe: stock movements edited across two levels, variants *)
(* that exchange their codes, and Billing with the queue alone and with    *)
(* the sweeps.  A behaviour is one of a part, `part', while the others     *)
(* rest in an initial state.                                               *)
(***************************************************************************)
EXTENDS Integers, Sequences

CONSTANTS
  i1, i2, h1, h2, c1, c2, v1, v2, x, y, k1, w1,    \* model values
  Default, Unspecified, NoCode, NoImage, Keep, Omit, None

VARIABLES
  part,
  movements, levels, hasDefault, tx, origin,
  product, rows, images, calls,
  stripe, used, row, active, saved, want, call, holder, pending, jobs, told, fetched, granted,
  effects
-----------------------------------------------------------------------------
\* Two movements edited in opposite directions between two places.
StockAsk(key, where, quantity) ==
  [key |-> key, by |-> "ann", where |-> where, type |-> "IN_PURCHASE", quantity |-> quantity,
   rest |-> "plain"]

Stock == INSTANCE Inventory WITH
  Handlers <- {h1, h2}, Ids <- {i1, i2}, Keys <- {"k1", "k2", "k3"}, Users <- {"ann"},
  Locations <- {"shop", "store"}, Rest <- {"plain"}, MaxLevel <- 3,
  CreateForms <- {StockAsk("k1", "shop", 1), StockAsk("k2", "store", 1)},
  EditForms <- {StockAsk("k3", "store", 1), StockAsk("k2", "shop", 1)}
ASSUME Stock!InventoryAssumption

Codes == INSTANCE Catalog WITH
  Calls <- {c1, c2}, Variants <- {v1, v2}, Codes <- {x, y}, ImageAsks <- {Keep},
  PublicAsks <- {TRUE}, TrackAsks <- {TRUE}, AskedStatuses <- {"active"}, Statuses <- {"active"}
ASSUME Codes!CatalogAssumption

\* One module, a change of tier at once or at the end of the period, and states of Stripe's
\* own making, one when sweeps run and two when jobs do.
Plan(tier) == [tier |-> tier, modules |-> {"appointments"}]
Want(tier) == [to |-> Plan(tier), retained |-> None, dated |-> FALSE]

ByJobs == INSTANCE Billing WITH
  Keys <- {k1}, Workers <- {w1}, Resources <- {}, Plans <- {Plan("essential"), Plan("business")},
  Wants <- {Want("essential"), Want("business")}, MaxVersion <- 2, MaxTries <- 1,
  Interrupted <- TRUE
BySweeps == INSTANCE Billing WITH
  Keys <- {k1}, Workers <- {w1}, Resources <- {}, Plans <- {Plan("essential"), Plan("business")},
  Wants <- {Want("essential"), Want("business")}, MaxVersion <- 1, MaxTries <- 1,
  Interrupted <- TRUE
ASSUME ByJobs!BillingAssumption /\ BySweeps!BillingAssumption
-----------------------------------------------------------------------------
stockVars == <<movements, levels, hasDefault, tx, origin>>
catalogVars == <<product, rows, images, calls>>
billingVars == <<stripe, used, row, active, saved, want, call, holder, pending, jobs, told, fetched,
                 granted, effects>>
allVars == <<part, stockVars, catalogVars, billingVars>>

CatalogRests == product.status = "absent"
CatalogOnSale ==
  product = [status |-> "active", public |-> TRUE] /\ \A v \in {v1, v2} :
    rows[v] = Codes!Absent \/ (rows[v].public /\ rows[v].status = "active")

Init ==
  /\ part \in {"stock", "codes", "jobs", "sweeps"}
  /\ Stock!Init /\ Codes!Init /\ ByJobs!Init /\ row.tier = "essential"
  /\ IF part = "codes" THEN CatalogOnSale ELSE CatalogRests
  /\ part \in {"stock", "codes"} => want[k1] = Want("essential")

\* A step of one part.
OfStock(A) == part = "stock" /\ A /\ UNCHANGED <<part, catalogVars, billingVars>>
OfCodes(A) == part = "codes" /\ A /\ UNCHANGED <<part, stockVars, billingVars>>
OfJobs(A) == part = "jobs" /\ A /\ UNCHANGED <<part, stockVars, catalogVars>>
OfSweeps(A) == part = "sweeps" /\ A /\ UNCHANGED <<part, stockVars, catalogVars>>

Next ==
  OfStock(Stock!Next) \/ OfCodes(Codes!Next) \/ OfJobs(ByJobs!Next) \/ OfSweeps(BySweeps!Next)

\* What FairSpec of Inventory and of Catalog, and JobsSpec and SweepsSpec of Billing, assume
\* of a part when it runs.  Conditions on different parts are joined in one: only one of
\* them is ever about the behaviour.
Fairness ==
  /\ WF_allVars(\/ OfStock(Stock!DeadlockVictim(h1)) \/ OfCodes(Codes!Proceed(c1))
                \/ OfJobs(ByJobs!Request(k1)) \/ OfSweeps(BySweeps!Request(k1)))
  /\ WF_allVars(\/ OfStock(Stock!DeadlockVictim(h2)) \/ OfCodes(Codes!Proceed(c2))
                \/ OfSweeps(BySweeps!Fetch(w1, None)))
  /\ SF_allVars(\/ OfStock(Stock!Execute(h1)) \/ OfJobs(ByJobs!Reconcile(k1))
                \/ OfSweeps(BySweeps!Reconcile(k1)))
  /\ SF_allVars(\/ OfStock(Stock!Execute(h2)) \/ OfJobs(ByJobs!Reconcile(w1))
                \/ OfSweeps(BySweeps!Reconcile(w1)))
  /\ SF_allVars(\/ OfJobs(1 \in jobs /\ ByJobs!Fetch(w1, 1))
                \/ OfSweeps(1 \in jobs /\ BySweeps!Fetch(w1, 1)))
  /\ SF_allVars(OfJobs(2 \in jobs /\ ByJobs!Fetch(w1, 2)))

FairSpec == Init /\ [][Next]_allVars /\ Fairness
-----------------------------------------------------------------------------
\* Every call on a stock movement ends, and every write of a variant, deadlocks and waits
\* for keys, rows and levels included; and no two variants have a code, though edits
\* exchange codes and free them.
WritesEnd == Stock!CallsEnd /\ Codes!WritesEnd /\ []Codes!OneVariantPerCode

\* Every event Stripe delivered is followed by a row at least as new, by its job alone; and
\* with the sweeps the row becomes what Stripe says, though an older list may be written
\* after a newer one.
RowFollowsStripe ==
  /\ ByJobs!EventsReachTheRow
  /\ part = "sweeps" => BySweeps!RowCatchesUp
=============================================================================
