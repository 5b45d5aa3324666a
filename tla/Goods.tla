-------------------------------- MODULE Goods --------------------------------
(***************************************************************************)
(* What a shop sells, side by side: its stock (Inventory), the catalogue   *)
(* (Catalog) and the items of preorders (Orders).  The three share no      *)
(* variable, so a behaviour is one of a part, `part', while the others     *)
(* rest in an initial state.                                               *)
(***************************************************************************)
EXTENDS Inventory

CONSTANTS
  Omit,
  Calls, Variants, Codes, ImageAsks, PublicAsks,      \* of Catalog
  TrackAsks, AskedStatuses, Statuses, NoCode, NoImage, Keep,
  Orderable, NoVariant, Prices, MaxPrice, Scale,      \* of Orders, whose variants may be
  MaxTotal, MaxItems, SettingsBodies, Baskets,        \* others
  Finals, MaxOrders

VARIABLES
  part,
  product, rows, images, calls,
  price, enabled, rules, writing, orders, shown

Images == INSTANCE Catalog
Preorders == INSTANCE Orders WITH Variants <- Orderable

ASSUME GoodsAssumption ==
  InventoryAssumption /\ Images!CatalogAssumption /\ Preorders!OrdersAssumption
-----------------------------------------------------------------------------
catalogVars == <<product, rows, images, calls>>
orderVars == <<price, enabled, rules, writing, orders, shown>>
allVars == <<part, vars, catalogVars, orderVars>>

CatalogRests == Images!Init /\ product.status = "absent"
OrdersRest == Preorders!Init /\ price = [v \in Orderable |-> Preorders!Hidden]

PartsInit ==
  /\ Init
  /\ \/ part = "stock" /\ CatalogRests /\ OrdersRest
     \/ part = "images" /\ Images!Init /\ OrdersRest
     \/ part = "preorders" /\ CatalogRests /\ Preorders!Init

PartsNext ==
  \/ part = "stock" /\ Next /\ UNCHANGED <<part, catalogVars, orderVars>>
  \/ part = "images" /\ Images!Next /\ UNCHANGED <<part, vars, orderVars>>
  \/ part = "preorders" /\ Preorders!Next /\ UNCHANGED <<part, vars, catalogVars>>

PartsSpec == PartsInit /\ [][PartsNext]_allVars
-----------------------------------------------------------------------------
\* What transactions of any part leave is sound: a key is held by one movement, a variant
\* has one image at most, stored preorder rules are complete and one to a variant, whatever
\* bodies leave out, and an estimated total is what its lines add up to, also after edits.
RowsAreSound ==
  /\ TypeOK /\ OneMovementPerKey
  /\ Images!TypeOK /\ Images!OneImage
  /\ Preorders!TypeOK /\ Preorders!RulesAreValid /\ Preorders!TotalsAddUp

\* The image a write of a variant answers with is the one it leaves, and no edit of
\* something else shows a hidden variant on the storefront.
VariantsAreAsAsked == Images!AnswersAreStored /\ Images!ShownOnlyWhenAsked

\* A preorder is written in quantities the rules allow when it is committed, and at prices
\* its variants had since its transaction read them.
PlacedAsOffered == Preorders!CommittedByTheRules /\ Preorders!PricedAsShown
=============================================================================
