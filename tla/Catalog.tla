------------------------------- MODULE Catalog -------------------------------
(***************************************************************************)
(* Variants of a product (internal/catalog).  createVariant and            *)
(* updateVariant are transactions of several statements over the variant,  *)
(* its unique codes and its images; the rest are single statements.  What  *)
(* a transaction wrote stands in its call until it commits; it holds the   *)
(* variant's row, and of the codes the one it takes and the one it leaves. *)
(* sku, internal_code and barcode are unique in the same way: one of them, *)
(* which may be null like barcode, stands for the three.                   *)
(***************************************************************************)
EXTENDS Integers, FiniteSets

CONSTANTS
  Calls,          \* requests that write a variant, one each
  Variants,       \* ids of variants, of one product
  Codes,          \* barcodes
  ImageAsks,      \* image_url of a request: Keep (omitted), NoImage or a URL
  PublicAsks,     \* is_public of a request: Omit, TRUE or FALSE
  TrackAsks,      \* track_inventory of a request: Omit, TRUE or FALSE
  AskedStatuses,  \* status of a request: active or archived
  Statuses,       \* statuses a product has: draft, active and archived, or none
  NoCode, NoImage, Keep, Omit

CatalogAssumption ==
  /\ Variants # {} /\ AskedStatuses \subseteq {"active", "archived"}
  /\ PublicAsks \subseteq BOOLEAN \union {Omit} /\ TrackAsks \subseteq BOOLEAN \union {Omit}

VARIABLES
  product,        \* status and is_public of the product
  rows,           \* variant -> committed row
  images,         \* variant -> committed rows of product_images
  calls           \* call -> request, progress, and what its transaction wrote

vars == <<product, rows, images, calls>>

Absent == [status |-> "absent", code |-> NoCode, public |-> FALSE, tracked |-> FALSE]
Urls == ImageAsks \ {Keep, NoImage}
Active(c) == calls[c].phase \in {"begin", "key", "image", "add", "commit"}
Wrote(c) == calls[c].phase \in {"key", "image", "add", "commit"}

Listed(v) ==
  product = [status |-> "active", public |-> TRUE] /\ rows[v].status = "active" /\ rows[v].public

\* ORDER BY position, created_at LIMIT 1, or NoImage (empty) without one.
GetVariantImage(v) == IF images[v] = {} THEN NoImage ELSE (CHOOSE i \in images[v] : TRUE).url

\* Mutant: the variant is updated outside of the transaction, which then holds no lock.
RowFreeAlways(c) == \A d \in Calls \ {c} : TRUE

RowFree(c) == \A d \in Calls \ {c} : Wrote(d) => calls[d].v # calls[c].v

\* A transaction that checks for `code' waits for d, which may yet leave it or keep it.
Holds(d, code) ==
  /\ Wrote(d)
  /\ code \in {rows[calls[d].v].code} \union (IF calls[d].phase = "key" THEN {} ELSE {calls[d].row.code})

TakesCode(c) == calls[c].row.code \notin {NoCode, rows[calls[c].v].code}
CodeTaken(c) == TakesCode(c) /\ \E w \in Variants : rows[w].code = calls[c].row.code

\* Transactions c waits for: one that holds its row, or the code it takes.
WaitsFor(c) ==
  {d \in Calls \ {c} :
     \/ /\ calls[c].phase = "begin" /\ calls[c].op = "update"
        /\ Wrote(d) /\ calls[d].v = calls[c].v
     \/ calls[c].phase = "key" /\ TakesCode(c) /\ Holds(d, calls[c].row.code)}
-----------------------------------------------------------------------------
Idle == [phase |-> "idle", op |-> "create", v |-> CHOOSE v \in Variants : TRUE, image |-> Keep,
         public |-> Omit, row |-> Absent, gone |-> {}, added |-> {}, answer |-> NoImage]

End(c, phase) == [calls EXCEPT ![c] = [Idle EXCEPT !.phase = phase]]

\* A request is read: VariantParams and VariantImageURL.  An omitted status is active, an
\* omitted track_inventory is false.
Request(c) ==
  /\ calls[c].phase = "idle"
  /\ \E op \in {"create", "update"}, v \in Variants, code \in Codes \union {NoCode},
        image \in ImageAsks, public \in PublicAsks, track \in TrackAsks, status \in AskedStatuses :
       /\ op = "create" => rows[v] = Absent /\ \A d \in Calls : Active(d) => calls[d].v # v
       /\ op = "update" => rows[v] # Absent
       /\ calls' = [calls EXCEPT ![c] = [Idle EXCEPT !.phase = "begin", !.op = op, !.v = v,
            !.image = image, !.public = public,
            !.row = [status |-> status, code |-> code, public |-> public # FALSE, tracked |-> track = TRUE]]]
  /\ UNCHANGED <<product, rows, images>>

\* CreateVariant: the product must be there, in whatever status.
CreateVariant(c) ==
  /\ calls[c].phase = "begin" /\ calls[c].op = "create"
  /\ calls' = IF product.status = "absent" THEN End(c, "refused") ELSE [calls EXCEPT ![c].phase = "key"]
  /\ UNCHANGED <<product, rows, images>>

\* UpdateVariant: waits for the row, and keeps the row's is_public unless the request has it.
UpdateVariant(c) ==
  /\ calls[c].phase = "begin" /\ calls[c].op = "update" /\ RowFree(c)
  /\ calls' = [calls EXCEPT ![c].phase = "key",
       ![c].row.public = IF calls[c].public = Omit THEN rows[calls[c].v].public ELSE @]
  /\ UNCHANGED <<product, rows, images>>

\* The unique index: waits for a transaction that may free or take the code, then refuses
\* one that is taken.
UniqueCode(c) ==
  /\ calls[c].phase = "key" /\ WaitsFor(c) = {}
  /\ calls' = IF CodeTaken(c) THEN End(c, "refused") ELSE [calls EXCEPT ![c].phase = "image"]
  /\ UNCHANGED <<product, rows, images>>

\* applyVariantImage: an omitted image is read for the answer, another replaces them all.
ApplyVariantImage(c) ==
  LET v == calls[c].v IN
  /\ calls[c].phase = "image"
  /\ calls' = [calls EXCEPT ![c].phase = IF calls[c].image \in Urls THEN "add" ELSE "commit",
       ![c].gone = IF calls[c].image = Keep THEN {} ELSE images[v],
       ![c].answer = IF calls[c].image = Keep THEN GetVariantImage(v) ELSE calls[c].image]
  /\ UNCHANGED <<product, rows, images>>

CreateVariantImage(c) ==
  /\ calls[c].phase = "add"
  /\ calls' = [calls EXCEPT ![c].phase = "commit", ![c].added = {[url |-> calls[c].image, by |-> c]}]
  /\ UNCHANGED <<product, rows, images>>

Commit(c) ==
  /\ calls[c].phase = "commit"
  /\ calls' = End(c, "done")
  /\ rows' = [rows EXCEPT ![calls[c].v] = calls[c].row]
  /\ images' = [images EXCEPT ![calls[c].v] = (@ \ calls[c].gone) \union calls[c].added]
  /\ UNCHANGED product

\* A statement or the commit fails, or the server stops.
Rollback(c) ==
  /\ Active(c) /\ calls' = End(c, "refused")
  /\ UNCHANGED <<product, rows, images>>

\* Transactions that wait for each other: the database rolls one back.
Deadlocked(c) ==
  /\ \E S \in SUBSET Calls : c \in S /\ \A d \in S : WaitsFor(d) \intersect S # {}
  /\ calls' = End(c, "refused")
  /\ UNCHANGED <<product, rows, images>>

ArchiveVariant(v) ==
  /\ rows[v] # Absent /\ \A c \in Calls : Wrote(c) => calls[c].v # v
  /\ rows' = [rows EXCEPT ![v].status = "archived"]
  /\ UNCHANGED <<product, images, calls>>

CreateProduct(status, public) ==
  /\ product.status = "absent" /\ product' = [status |-> status, public |-> public]
  /\ UNCHANGED <<rows, images, calls>>

UpdateProduct(status, public) ==
  /\ product.status # "absent" /\ product' = [status |-> status, public |-> public]
  /\ UNCHANGED <<rows, images, calls>>

ArchiveProduct ==
  /\ product.status # "absent" /\ product' = [product EXCEPT !.status = "archived"]
  /\ UNCHANGED <<rows, images, calls>>

\* Variants there are at the beginning, of a product that is there, or none.
Init ==
  /\ product \in [status : {"absent"} \union Statuses, public : BOOLEAN]
  /\ rows \in [Variants -> {Absent} \union [status : AskedStatuses, code : Codes \union {NoCode},
                 public : BOOLEAN, tracked : {TRUE}]]
  /\ product.status = "absent" => product.public = FALSE /\ \A v \in Variants : rows[v] = Absent
  /\ \A v, w \in Variants : v # w => rows[v].code = NoCode \/ rows[v].code # rows[w].code
  /\ images \in [Variants -> {{}} \union {{[url |-> u, by |-> "earlier"]} : u \in Urls}]
  /\ \A v \in Variants : rows[v] = Absent => images[v] = {}
  /\ calls = [c \in Calls |-> Idle]

Proceed(c) ==
  \/ CreateVariant(c) \/ UpdateVariant(c) \/ UniqueCode(c) \/ ApplyVariantImage(c)
  \/ CreateVariantImage(c) \/ Commit(c) \/ Deadlocked(c)

Next ==
  \/ \E c \in Calls : Request(c) \/ Proceed(c) \/ Rollback(c)
  \/ \E v \in Variants : ArchiveVariant(v)
  \/ \E status \in Statuses, public \in BOOLEAN :
       CreateProduct(status, public) \/ UpdateProduct(status, public)
  \/ "archived" \in Statuses /\ ArchiveProduct

Spec == Init /\ [][Next]_vars

\* A statement that waits for nothing is executed, and the database finds its deadlocks.
FairSpec == Spec /\ \A c \in Calls : WF_vars(Proceed(c))
-----------------------------------------------------------------------------
TypeOK ==
  /\ product \in [status : {"absent"} \union Statuses, public : BOOLEAN]
  /\ \A v \in Variants :
       /\ rows[v] \in {Absent} \union [status : {"active", "archived"}, code : Codes \union {NoCode},
                        public : BOOLEAN, tracked : BOOLEAN]
       /\ images[v] \subseteq [url : Urls, by : Calls \union {"earlier"}]

\* A variant has one image at most (handler.go:201: "a write replaces the set"), however
\* many requests replace it at the same time.
OneImage == \A v \in Variants : Cardinality(images[v]) <= 1

\* The scanner's lookup finds one variant: no two have a code, archived ones included.
OneVariantPerCode ==
  \A v, w \in Variants : rows[v].code # NoCode /\ rows[v].code = rows[w].code => v = w

\* The image a write answers with, read before it commits, is the one it leaves.
AnswersAreStored ==
  [][\A c \in Calls, v \in Variants :
       calls[c].phase = "commit" /\ calls[c].v = v /\ calls'[c].phase = "done" =>
         calls[c].answer = GetVariantImage(v)']_vars

\* A variant comes on the storefront by a change of its product, or by a request for it that
\* says so, or says nothing of a variant that is public or new: no edit shows a hidden one.
ShownOnlyWhenAsked ==
  [][\A v \in Variants : ~ Listed(v) /\ Listed(v)' =>
       \/ product' # product
       \/ \E c \in Calls :
            /\ calls[c].phase = "commit" /\ calls'[c].phase = "done" /\ calls[c].v = v
            /\ \/ calls[c].public = TRUE
               \/ calls[c].public = Omit /\ (calls[c].op = "create" \/ rows[v].public)]_vars

\* docs/openapi.yaml gives track_inventory the default true: with requests that omit it,
\* every variant is tracked.
\* The code does not keep it.
TrackedByDefault == \A v \in Variants : rows[v] # Absent => rows[v].tracked

\* Every write ends, also when it waits for a variant or a code of another: two edits that
\* exchange their codes wait for each other.
WritesEnd == \A c \in Calls : Active(c) ~> ~ Active(c)
=============================================================================
