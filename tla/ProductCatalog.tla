---------------------------- MODULE ProductCatalog --------------------------
(* Products, their images, the opportunity lines that name them and the       *)
(* category tree, under requests and the maintenance scripts that import a    *)
(* catalogue and attach late images.  A request reads, then commits: what it  *)
(* read may be stale by then, and the database's constraints decide.          *)
EXTENDS Naturals, FiniteSets

CONSTANTS
  Products,        \* database identities, never used twice
  Skus, UserUrls,  \* image links a user may enter (http or https only)
  ScriptUrl,       \* the link the scripts give a product, under /product-images
  CatalogueSkus,   \* SKUs of the catalogue that is imported
  LateSkus,        \* SKUs of the late images
  Deals, Categories, Requests,
  MaxImages,       \* bound on the images ever stored
  None, Gone

CatalogAssumption ==
  /\ IsFiniteSet(Products) /\ IsFiniteSet(UserUrls)
  /\ ScriptUrl \notin UserUrls /\ CatalogueSkus \cup LateSkus \subseteq Skus
  /\ \A s, t \in LateSkus : s = t   \* one product stands for the four
  /\ MaxImages \in Nat /\ {None, Gone} \cap (Skus \cup Categories) = {} /\ None # Gone

VARIABLES
  sku,        \* a product's SKU, None before it exists, Gone after its deletion
  image,      \* rows of product_images
  nextImage,  \* identity of the next one
  line,       \* pairs of an opportunity and a product
  parent,     \* a category's parent, or None
  req,        \* a request in progress: what it read and what it will write
  answer      \* how the last request ended

vars == <<sku, image, nextImage, line, parent, req, answer>>

Payload == {w \in [urls : SUBSET UserUrls, flags : SUBSET UserUrls] : w.flags \subseteq w.urls}
Keep == [urls |-> {}, flags |-> {None}]   \* the payload names no image list
Idle == [op |-> "idle"]

TypeOK ==
  /\ sku \in [Products -> Skus \cup {None, Gone}]
  /\ image \subseteq [id : 1..MaxImages, of : Products, url : UserUrls \cup {ScriptUrl}, primary : BOOLEAN]
  /\ nextImage \in 1..(MaxImages + 1) /\ \A i \in image : i.id < nextImage
  /\ line \subseteq Deals \X Products
  /\ parent \in [Categories -> Categories \cup {None}]
  /\ \A r \in Requests : req[r].op \in {"idle", "update", "delete", "lines", "import", "late"}
  /\ answer \in {None, "ok", "SkuTaken", "InUse", "Error"}

Init ==
  /\ sku = [p \in Products |-> None]
  /\ image = {} /\ nextImage = 1
  /\ line = {}
  /\ parent = [c \in Categories |-> None]
  /\ req = [r \in Requests |-> Idle]
  /\ answer = None
-----------------------------------------------------------------------------
Live == {p \in Products : sku[p] \in Skus}
ImagesOf(p) == {i \in image : i.of = p}
LinesOf(d) == {p \in Products : <<d, p>> \in line}
Holder(s) == {p \in Live : sku[p] = s}
End(r, how) == req' = [req EXCEPT ![r] = Idle] /\ answer' = how
Begin(r, what) == req[r] = Idle /\ req' = [req EXCEPT ![r] = what] /\ answer' = None

(* _replace_images: at most one flag; without one the first image of the list *)
(* becomes the primary one (FlagsOnly: it does not).                          *)
FlagsOnly(w) == w.flags
Flagged(w) == IF w.flags = {} /\ w.urls # {} THEN {CHOOSE u \in w.urls : TRUE} ELSE w.flags

(* Rows for a set of links, identities in any order.                          *)
NewImages(p, urls, primaries) ==
  LET number == CHOOSE f \in [urls -> nextImage..(nextImage + Cardinality(urls) - 1)] :
                  \A u, v \in urls : f[u] = f[v] => u = v
  IN {[id |-> number[u], of |-> p, url |-> u, primary |-> u \in primaries] : u \in urls}
Room(n) == nextImage + n <= MaxImages + 1

(* The partial unique index: one primary image of a product (NoIndex: none).  *)
NoIndex(rows) == TRUE
IndexHolds(rows) == \A i, j \in rows : i.primary /\ j.primary /\ i.of = j.of => i = j
-----------------------------------------------------------------------------
Create(r) == \E p \in Products, s \in Skus, w \in Payload :
  /\ req[r] = Idle /\ UNCHANGED <<line, parent>>
  /\ sku[p] = None /\ Cardinality(w.flags) <= 1 /\ Room(Cardinality(w.urls))
  /\ IF Holder(s) # {}
     THEN End(r, "SkuTaken") /\ UNCHANGED <<sku, image, nextImage>>
     ELSE /\ sku' = [sku EXCEPT ![p] = s]
          /\ image' = image \cup NewImages(p, w.urls, Flagged(w))
          /\ nextImage' = nextImage + Cardinality(w.urls)
          /\ End(r, "ok")

StartUpdate(r) == \E p \in Live, s \in Skus, w \in Payload \cup {Keep} :
  /\ Cardinality(w.flags) <= 1 \/ w = Keep
  /\ Begin(r, [op |-> "update", on |-> p, sku |-> s, rename |-> s # sku[p], write |-> w, seen |-> ImagesOf(p)])
  /\ UNCHANGED <<sku, image, nextImage, line, parent>>

(* The images it read go, the payload's come.  A refusal by a constraint is   *)
(* answered as a taken SKU, but for a SKU taken when images are replaced: that *)
(* meets the flush before them, an error like a changed row that is gone.     *)
CommitUpdate(r) ==
  LET q == req[r]
      gone == IF q.write = Keep THEN {} ELSE {i.id : i \in q.seen}
      new == IF q.write = Keep THEN {} ELSE NewImages(q.on, q.write.urls, Flagged(q.write))
      rows == {i \in image : i.id \notin gone} \cup new
  IN
  /\ q.op = "update" /\ Room(Cardinality(new)) /\ UNCHANGED <<line, parent>>
  /\ \/ /\ q.on \in Live /\ (q.rename => Holder(q.sku) \subseteq {q.on}) /\ IndexHolds(rows)
        /\ sku' = IF q.rename THEN [sku EXCEPT ![q.on] = q.sku] ELSE sku
        /\ image' = rows /\ nextImage' = nextImage + Cardinality(new)
        /\ End(r, "ok")
     \/ /\ q.on \in Live /\ ~(IndexHolds(rows) /\ (q.rename => Holder(q.sku) \subseteq {q.on}))
        /\ End(r, IF q.write # Keep /\ q.rename /\ Holder(q.sku) \ {q.on} # {} THEN "Error" ELSE "SkuTaken")
        /\ UNCHANGED <<sku, image, nextImage>>
     \/ /\ q.on \notin Live
        /\ End(r, IF q.rename \/ new = {} THEN "Error" ELSE "SkuTaken") /\ UNCHANGED <<sku, image, nextImage>>

StartDelete(r) == \E p \in Live :
  /\ IF \E d \in Deals : p \in LinesOf(d)
     THEN req[r] = Idle /\ End(r, "InUse")
     ELSE Begin(r, [op |-> "delete", on |-> p])
  /\ UNCHANGED <<sku, image, nextImage, line, parent>>

(* A line added since the guard read stops the deletion at the flush (the     *)
(* foreign key is RESTRICT).                                                  *)
Restricted(p) == \E d \in Deals : p \in LinesOf(d)

CommitDelete(r) ==
  LET p == req[r].on IN
  /\ req[r].op = "delete" /\ UNCHANGED <<nextImage, line, parent>>
  /\ IF Restricted(p)
     THEN End(r, "Error") /\ UNCHANGED <<sku, image>>
     ELSE sku' = [sku EXCEPT ![p] = Gone] /\ image' = image \ ImagesOf(p) /\ End(r, "ok")

(* replace_opportunity_products: the products exist when it looks; the lines  *)
(* it read are deleted, the payload's inserted.                               *)
StartLines(r) == \E d \in Deals, ps \in SUBSET Live :
  /\ Begin(r, [op |-> "lines", on |-> d, seen |-> LinesOf(d), write |-> ps])
  /\ UNCHANGED <<sku, image, nextImage, line, parent>>

CommitLines(r) ==
  LET q == req[r]  kept == LinesOf(q.on) \ q.seen IN
  /\ q.op = "lines" /\ UNCHANGED <<sku, image, nextImage, parent>>
  /\ IF q.write \subseteq Live /\ q.write \cap kept = {}
     THEN /\ line' = {l \in line : l[1] # q.on} \cup ({q.on} \X (kept \cup q.write))
          /\ End(r, "ok")
     ELSE End(r, "Error") /\ UNCHANGED line
-----------------------------------------------------------------------------
(* A catalogue import: SKU by SKU it looks whether the product exists and has *)
(* an image; one commit writes what was missing, or nothing.                  *)
Missing(s) == Holder(s) = {}
Bare(s) == {p \in Holder(s) : ImagesOf(p) = {}}

StartImport(r) ==
  /\ Begin(r, [op |-> "import", todo |-> CatalogueSkus, create |-> {}, illustrate |-> {}])
  /\ UNCHANGED <<sku, image, nextImage, line, parent>>

Look(r) == \E s \in req[r].todo :
  /\ req' = [req EXCEPT ![r].todo = @ \ {s},
       ![r].create = IF Missing(s) THEN @ \cup {s} ELSE @,
       ![r].illustrate = @ \cup Bare(s)]
  /\ answer' = None /\ UNCHANGED <<sku, image, nextImage, line, parent>>

CommitImport(r) ==
  LET q == req[r]
      new == {p \in Products : sku'[p] # sku[p]} \cup q.illustrate
      number == CHOOSE f \in [new -> nextImage..(nextImage + Cardinality(new) - 1)] :
                  \A x, y \in new : f[x] = f[y] => x = y
      rows == image \cup {[id |-> number[p], of |-> p, url |-> ScriptUrl, primary |-> TRUE] : p \in new}
  IN
  /\ q.todo = {} /\ UNCHANGED <<line, parent>>
  /\ \/ /\ \A s \in q.create : Missing(s)
        /\ q.illustrate \subseteq Live
        /\ \E at \in [q.create -> {p \in Products : sku[p] = None}] :
             /\ \A s, t \in q.create : at[s] = at[t] => s = t
             /\ sku' = [p \in Products |->
                          IF \E s \in q.create : at[s] = p THEN CHOOSE s \in q.create : at[s] = p ELSE sku[p]]
        /\ Room(Cardinality(new)) /\ IndexHolds(rows)
        /\ image' = rows /\ nextImage' = nextImage + Cardinality(new)
        /\ End(r, "ok")
     \/ /\ \/ \E s \in q.create : ~Missing(s)
           \/ ~ q.illustrate \subseteq Live
           \/ \E p \in q.illustrate : \E i \in ImagesOf(p) : i.primary
        /\ End(r, "Error") /\ UNCHANGED <<sku, image, nextImage>>

(* attach_late_outdoor_images: all its products exist, or nothing happens.    *)
StartLate(r) ==
  /\ \A s \in LateSkus : Holder(s) # {}
  /\ Begin(r, [op |-> "late", on |-> {p \in Live : sku[p] \in LateSkus},
               seen |-> {i \in image : sku[i.of] \in LateSkus}])
  /\ UNCHANGED <<sku, image, nextImage, line, parent>>

(* The image with the expected link, if the script saw one.                   *)
Matched(seen, p) == {i \in seen : i.of = p /\ i.url = ScriptUrl}

(* Other images it saw stop being primary; a changed row that is gone aborts. *)
CommitLate(r) ==
  LET q == req[r]
      add == {p \in q.on : Matched(q.seen, p) = {}}
      new == UNION {NewImages(p, {ScriptUrl}, {ScriptUrl}) : p \in add}
      first == {CHOOSE i \in Matched(q.seen, p) : TRUE : p \in q.on \ add}
      changed == {i \in q.seen : i.primary \/ i \in first}
      ids == {i.id : i \in q.seen}
      rows == {i \in image : i.id \notin ids} \cup new
              \cup {[i EXCEPT !.primary = \E f \in first : f.id = i.id] : i \in {j \in image : j.id \in ids}}
  IN
  /\ q.op = "late" /\ UNCHANGED <<sku, line, parent>>
  /\ Room(Cardinality(add))
  /\ IF q.on \subseteq Live /\ {i.id : i \in changed} \subseteq {i.id : i \in image} /\ IndexHolds(rows)
     THEN image' = rows /\ nextImage' = nextImage + Cardinality(add) /\ End(r, "ok")
     ELSE End(r, "Error") /\ UNCHANGED <<image, nextImage>>

(* update_category: only the category itself is refused as a parent.          *)
MayBeUnder(c, d) == c # d
MoveCategory(r) == \E c \in Categories, d \in Categories \cup {None} :
  /\ req[r] = Idle /\ MayBeUnder(c, d)
  /\ parent' = [parent EXCEPT ![c] = d]
  /\ answer' = "ok"
  /\ UNCHANGED <<sku, image, nextImage, line, req>>

(* A lost connection or a stopped instance rolls everything back.             *)
Stop(r) == req[r] # Idle /\ End(r, "Error") /\ UNCHANGED <<sku, image, nextImage, line, parent>>

Next == \E r \in Requests :
  \/ Create(r) \/ StartUpdate(r) \/ StartDelete(r) \/ StartLines(r) \/ StartImport(r) \/ StartLate(r)
  \/ CommitUpdate(r) \/ CommitDelete(r) \/ CommitLines(r) \/ CommitLate(r)
  \/ req[r].op = "import" /\ (Look(r) \/ CommitImport(r))
  \/ MoveCategory(r) \/ Stop(r)

Spec == Init /\ [][Next]_vars
-----------------------------------------------------------------------------
(* A product with images has exactly one primary image, whatever edits and    *)
(* scripts overlap: lists, PDFs and quotations show that one.                 *)
OnePrimary == \A p \in Live : ImagesOf(p) # {} => Cardinality({i \in ImagesOf(p) : i.primary}) = 1

(* Only an unlinked product is deleted: no opportunity line is left without   *)
(* its product when deletions and line edits overlap.                         *)
LinesExist == \A l \in line : l[2] \in Live

(* Rerunning scripts, also in parallel and next to users, gives a product the *)
(* script's picture at most once.                                             *)
ScriptImageOnce == \A i, j \in image : i.of = j.of /\ i.url = ScriptUrl /\ j.url = ScriptUrl => i = j

(* An import preserves the products that exist when it commits, and the       *)
(* images of those that have some.                                            *)
KeepsProducts == \A r \in Requests : req[r].op = "import" /\ req'[r] = Idle =>
  \A p \in Live : sku'[p] = sku[p] /\ (ImagesOf(p) # {} => ImagesOf(p)' = ImagesOf(p))

(* "A product with this SKU already exists." is said when another product has *)
(* the SKU that was asked for.                                                *)
SkuAnswerIsTrue == [][\A r \in Requests :
  req[r].op = "update" /\ req'[r] = Idle /\ answer' = "SkuTaken" => \E p \in Live \ {req[r].on} : sku[p] = req[r].sku]_vars

(* Categories are hierarchical: no category lies under itself.                *)
Hierarchical == \A c, d \in Categories : ~(parent[c] = d /\ parent[d] = c)
=============================================================================
