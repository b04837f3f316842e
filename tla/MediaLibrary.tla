----------------------------- MODULE MediaLibrary -----------------------------
(***************************************************************************)
(* The images of a generation group (app/content/media.py) and what of     *)
(* them each post sends (app/publishing/service.py).                       *)
(*                                                                         *)
(* Assets belong to the group.  Each item has a selection, rows (item,     *)
(* asset, position), and each publish attempt a record of the images it    *)
(* sends.  A request of the media service is ONE transaction of several    *)
(* statements, committed when it ends, at READ COMMITTED: every statement  *)
(* sees what is committed by then and the request's own writes; a DELETE   *)
(* removes the rows it saw; rows others insert meanwhile stay.  Unique and *)
(* foreign keys refuse a commit; whatever refuses or kills a request rolls *)
(* all of it back (Abandon).  Only publish commits in the middle.          *)
(*                                                                         *)
(* An attempt is seen as far as its images go (PublishService has the      *)
(* rest): at most one that is not failed per item, and a failed one frees  *)
(* the item for the next.                                                  *)
(***************************************************************************)
EXTENDS Naturals, Sequences, FiniteSets, Functions

CONSTANTS Items,       \* content items
          Grouped,     \* those of one generation group; the others have none
          Assets,      \* ids of media_assets rows
          Files,       \* checksums of uploads
          Workers,     \* slots for requests in flight at one time
          MaxImages,   \* LIMITS[platform].max_images, per item
          MaxAssets,   \* settings.media_max_assets_per_group
          NoItem, NoAsset

ASSUME MediaAssumption ==
    /\ Grouped \subseteq Items /\ IsFiniteSet(Assets)
    /\ MaxImages \in [Items -> Nat \ {0}] /\ MaxAssets \in Nat
    /\ NoItem \notin Items /\ NoAsset \notin Assets
    /\ Files \cap {"unused", "generated", "gone"} = {}

VARIABLES
    file,          \* what each asset holds; "unused" and "gone" have no row
    grouped,       \* the assets that carry the generation group
    rows,          \* content_item_media: per item, the position of each asset
    publication,   \* the item's attempt that is not failed, and its images
    published,     \* the items whose status is published
    request        \* what each worker's request has read and not committed

vars == <<file, grouped, rows, publication, published, request>>

Empty == [x \in {} |-> x]
Ops == {"upload", "generate", "select", "delete", "publish"}
Phases == {"file", "attach", "siblings", "renumber", "commit", "claim", "calling"}

(* new: assets added; sees: rows of an item that a statement of the request  *)
(* found and nobody has deleted since; write: positions it gives to rows.    *)
NoRequest == [op |-> "none", phase |-> "none", item |-> NoItem, asset |-> NoAsset,
              new |-> Empty, todo |-> {}, images |-> <<>>,
              sees |-> [i \in Items |-> {}], write |-> [i \in Items |-> Empty]]

(* sent is a history: what the network was given. *)
NoPublication == [status |-> "none", media |-> <<>>, sent |-> <<>>]

Present(a) == file[a] \notin {"unused", "gone"}

Init ==
    /\ file = [a \in Assets |-> "unused"]
    /\ grouped = {}
    /\ rows = [i \in Items |-> Empty]
    /\ publication = [i \in Items |-> NoPublication]
    /\ published = {}
    /\ request = [w \in Workers |-> NoRequest]

-----------------------------------------------------------------------------

Begin(w, r) ==
    /\ request[w] = NoRequest
    /\ request' = [request EXCEPT ![w] = r]

Keep == UNCHANGED <<file, grouped, rows, publication, published>>

(* A function overridden by another. *)
Over(f, g) == [x \in DOMAIN f \union DOMAIN g |-> IF x \in DOMAIN g THEN g[x] ELSE f[x]]

(* The rows of an item as the request that attaches to it sees them. *)
View(w, i) == Over(rows[i], request[w].write[i])

(* _library_ids: the group's assets, or what the item has attached. *)
Library(w, i) ==
    IF i \in Grouped
    THEN {a \in grouped : Present(a)} \union DOMAIN request[w].new
    ELSE DOMAIN View(w, i)

FileOf(w, a) == IF a \in DOMAIN request[w].new THEN request[w].new[a] ELSE file[a]

Fresh == {a \in Assets : file[a] = "unused" /\ \A v \in Workers : a \notin DOMAIN request[v].new}

New(a, content) == [x \in {a} |-> content]

(* The image model has answered: the new asset, not committed. *)
BeginGenerate(w, i, a) ==
    /\ a \in Fresh
    /\ Begin(w, [NoRequest EXCEPT !.op = "generate", !.item = i, !.phase = "attach",
                                  !.asset = a, !.new = New(a, "generated")])
    /\ UNCHANGED <<file, grouped, rows, publication, published>>

BeginUpload(w, i) ==
    /\ Begin(w, [NoRequest EXCEPT !.op = "upload", !.item = i, !.phase = "file"])
    /\ UNCHANGED <<file, grouped, rows, publication, published>>

(* A second upload of a file stored again: a seeded bug. *)
NextFileAlwaysNew(w, f) ==
    LET r == request[w]
        library == Library(w, r.item)
    IN
    /\ r.op = "upload" /\ r.phase = "file"
    /\ Cardinality(library) < MaxAssets
    /\ \E a \in Fresh :
          request' = [request EXCEPT ![w].asset = a, ![w].phase = "attach",
                                     ![w].new = Over(@, New(a, f))]
    /\ Keep

(* upload of one of the request's files: the cap, then a copy of the file in *)
(* the library, or else a new asset.  The query for a copy is one step with  *)
(* that for the library: an asset deleted between them is not found.         *)
NextFile(w, f) ==
    LET r == request[w]
        library == Library(w, r.item)
        copies == {a \in library : FileOf(w, a) = f}
    IN
    /\ r.op = "upload" /\ r.phase = "file"
    /\ Cardinality(library) < MaxAssets
    /\ \/ \E a \in copies :
             request' = [request EXCEPT ![w].asset = a, ![w].phase = "attach"]
       \/ /\ copies = {}
          /\ \E a \in Fresh :
                request' = [request EXCEPT ![w].asset = a, ![w].phase = "attach",
                                           ![w].new = Over(@, New(a, f))]
    /\ Keep

(* _auto_attach: behind what is selected, unless it is there or there is no  *)
(* room.  An upload goes on to the next file.                                *)
Attach(w) ==
    LET r == request[w]
        view == View(w, r.item)
    IN
    /\ r.phase = "attach"
    /\ request' = [request EXCEPT
          ![w].phase = IF r.op = "upload" THEN "file" ELSE "commit", ![w].asset = NoAsset,
          ![w].write[r.item] =
              IF /\ Cardinality(DOMAIN view) < MaxImages[r.item]
                 /\ r.asset \notin DOMAIN view
              THEN Over(@, [x \in {r.asset} |-> Cardinality(DOMAIN view)])
              ELSE @]
    /\ Keep

(* Lists of images, in order. *)
Lists(S, n) == UNION {[1..k -> S] : k \in 0..n}
Once(list) == \A k, l \in DOMAIN list : list[k] = list[l] => k = l

(* _write_selection enumerates the list: positions from 0. *)
Positions(list) ==
    [a \in Range(list) |-> CHOOSE p \in 0..(Len(list) - 1) : list[p + 1] = a]

(* _write_selection deletes what it finds. *)
Found(i) == DOMAIN rows[i]

(* set_selection: the checks, and the selection of the item itself. *)
BeginSelect(w, i, list, toGroup) ==
    /\ Once(list) /\ Range(list) \subseteq Library(w, i)
    /\ Begin(w, [NoRequest EXCEPT
          !.op = "select", !.item = i,
          !.phase = IF toGroup /\ i \in Grouped THEN "siblings" ELSE "commit",
          !.images = IF toGroup THEN list ELSE <<>>, !.sees[i] = Found(i), !.write[i] = Positions(list)])
    /\ UNCHANGED <<file, grouped, rows, publication, published>>

(* The status of siblings not looked at: a seeded bug. *)
ReadAllSiblings(w) ==
    LET r == request[w] IN
    /\ r.phase = "siblings"
    /\ request' = [request EXCEPT
          ![w].phase = "commit",
          ![w].todo = {j \in Grouped \ {r.item} : Len(r.images) <= MaxImages[j]}]
    /\ Keep

(* apply_to_group: the siblings whose selection it replaces. *)
ReadSiblings(w) ==
    LET r == request[w] IN
    /\ r.phase = "siblings"
    /\ request' = [request EXCEPT
          ![w].phase = "commit",
          ![w].todo = {j \in Grouped \ {r.item} :
                          j \notin published /\ Len(r.images) <= MaxImages[j]}]
    /\ Keep

WriteSibling(w, j) ==
    LET r == request[w] IN
    /\ r.op = "select" /\ r.phase = "commit" /\ j \in r.todo
    /\ request' = [request EXCEPT
          ![w].todo = @ \ {j}, ![w].sees[j] = Found(j), ![w].write[j] = Positions(r.images)]
    /\ Keep

(* The row of another transaction's asset taken for granted: a seeded bug. *)
NoForeignKey(w) == TRUE

(* The foreign key of a row: its asset is committed, or the request's own. *)
AssetsThere(w) ==
    \A i \in Items : \A a \in DOMAIN request[w].write[i] :
        a \in DOMAIN request[w].new \/ Present(a)

(* uq_content_item_media_pair: a row to insert is not there, but for those   *)
(* that the request deletes.                                                 *)
PairsFree(w) ==
    \A i \in Items :
        DOMAIN request[w].write[i] \cap (DOMAIN rows[i] \ request[w].sees[i]) = {}

(* Rows that a commit of w deletes are no longer what the others saw. *)
Unsee(w, lost) ==
    request' = [v \in Workers |->
        IF v = w THEN NoRequest
        ELSE [request[v] EXCEPT !.sees = [i \in Items |-> @[i] \ lost[i]]]]

(* upload, generate and set_selection commit. *)
CommitRows(w) ==
    LET r == request[w] IN
    /\ \/ r.op = "upload" /\ r.phase = "file"
       \/ r.op \in {"generate", "select"} /\ r.phase = "commit" /\ r.todo = {}
    /\ AssetsThere(w) /\ PairsFree(w)
    /\ file' = Over(file, r.new)
    /\ grouped' = IF r.item \in Grouped THEN grouped \union DOMAIN r.new ELSE grouped
    /\ rows' = [i \in Items |->
           Over(Restrict(rows[i], DOMAIN rows[i] \ r.sees[i]), r.write[i])]
    /\ Unsee(w, r.sees)
    /\ UNCHANGED <<publication, published>>

(* The check made on the selections instead of the records: a seeded bug. *)
InUseSelected(a) ==
    \E i \in Items : publication[i].status = "succeeded" /\ a \in DOMAIN rows[i]

(* An image of a succeeded attempt is not deleted. *)
InUse(a) ==
    \E i \in Items : publication[i].status = "succeeded" /\ a \in Range(publication[i].media)

(* delete_asset: the check, and every statement up to the flush. *)
BeginDelete(w, a) ==
    /\ Present(a) /\ ~InUse(a)
    /\ Begin(w, [NoRequest EXCEPT
          !.op = "delete", !.asset = a, !.phase = "renumber",
          !.todo = {i \in Items : a \in DOMAIN rows[i]}])
    /\ UNCHANGED <<file, grouped, rows, publication, published>>

(* The rows of an item left as they are: a seeded bug. *)
Unnumbered(w, i, order) == Empty

(* The positions to change: those that are not their row's place in order. *)
Renumbered(w, i, order) ==
    LET places == Positions(order) IN
    Restrict(places, {b \in DOMAIN places : places[b] # rows[i][b]})

(* Close up the positions of one post that had it. *)
Renumber(w, i) ==
    LET r == request[w]
        left == DOMAIN rows[i] \ {r.asset}
    IN
    /\ r.phase = "renumber" /\ i \in r.todo
    /\ \E order \in [1..Cardinality(left) -> left] :
          /\ Once(order)
          /\ \A k, l \in DOMAIN order : k < l => rows[i][order[k]] <= rows[i][order[l]]
          /\ request' = [request EXCEPT
                ![w].todo = @ \ {i}, ![w].write[i] = Renumbered(w, i, order),
                ![w].sees[i] = DOMAIN Renumbered(w, i, order)]
    /\ Keep

Without(list, a) == [k \in DOMAIN list |-> IF list[k] = a THEN NoAsset ELSE list[k]]

(* delete_asset commits: rows that others inserted since go with the asset   *)
(* (CASCADE), its places in the records of attempts are emptied (SET NULL).  *)
(* An UPDATE of a row that is gone fails the request.                        *)
CommitDelete(w) ==
    LET r == request[w] IN
    /\ r.phase = "renumber" /\ r.todo = {}
    /\ \A i \in Items : DOMAIN r.write[i] \subseteq r.sees[i]
    /\ file' = [file EXCEPT ![r.asset] = "gone"]
    /\ rows' = [i \in Items |->
           Over(Restrict(rows[i], DOMAIN rows[i] \ {r.asset}), r.write[i])]
    /\ publication' = [i \in Items |->
           [publication[i] EXCEPT !.media = Without(@, r.asset)]]
    /\ Unsee(w, [i \in Items |-> {r.asset}])
    /\ UNCHANGED <<grouped, published>>

-----------------------------------------------------------------------------

(* The stored selection, in the order of its positions. *)
InOrder(i, list) ==
    /\ Range(list) = DOMAIN rows[i] /\ Once(list)
    /\ \A k, l \in DOMAIN list : k < l => rows[i][list[k]] <= rows[i][list[l]]

(* preflight of an item that may be published: the images are those of the   *)
(* request, of which nothing checks that they differ, or the selection.      *)
BeginPublish(w, i, list) ==
    /\ i \notin published /\ publication[i].status = "none"
    /\ Range(list) \subseteq Library(w, i) \/ InOrder(i, list)
    /\ Begin(w, [NoRequest EXCEPT !.op = "publish", !.item = i, !.phase = "claim",
                                  !.images = list])
    /\ UNCHANGED <<file, grouped, rows, publication, published>>

(* The selection recorded instead of what is sent: a seeded bug. *)
Selected(i, images) ==
    LET selections == {list \in [DOMAIN images -> Assets] : InOrder(i, list)} IN
    IF selections = {} THEN images ELSE CHOOSE list \in selections : TRUE

(* The rows of content_publication_media. *)
Recorded(i, images) == images

(* The first commit, with the record of the images; then the call. *)
Claim(w) ==
    LET r == request[w] IN
    /\ r.phase = "claim"
    /\ publication[r.item].status = "none"
    /\ \A k \in DOMAIN r.images : Present(r.images[k])
    /\ publication' = [publication EXCEPT ![r.item] =
           [status |-> "pending", media |-> Recorded(r.item, r.images), sent |-> r.images]]
    /\ request' = [request EXCEPT ![w].phase = "calling"]
    /\ UNCHANGED <<file, grouped, rows, published>>

Succeed(w) ==
    LET i == request[w].item IN
    /\ request[w].phase = "calling"
    /\ publication' = [publication EXCEPT ![i].status = "succeeded"]
    /\ published' = published \union {i}
    /\ request' = [request EXCEPT ![w] = NoRequest]
    /\ UNCHANGED <<file, grouped, rows>>

Fail(w) ==
    /\ request[w].phase = "calling"
    /\ publication' = [publication EXCEPT ![request[w].item] = NoPublication]
    /\ request' = [request EXCEPT ![w] = NoRequest]
    /\ UNCHANGED <<file, grouped, rows, published>>

(* The workflow's archive, as far as siblings see it. *)
Archive(i) ==
    /\ i \in published
    /\ published' = published \ {i}
    /\ UNCHANGED <<file, grouped, rows, publication, request>>

(* A refusal, an error or the end of the process: the transaction rolls back. *)
Abandon(w) ==
    /\ request[w] # NoRequest
    /\ request' = [request EXCEPT ![w] = NoRequest]
    /\ Keep

Next ==
    \/ \E w \in Workers :
          \/ \E i \in Items :
                \/ \E a \in Assets : BeginGenerate(w, i, a)
                \/ BeginUpload(w, i)
                \/ \E list \in Lists(Assets, MaxImages[i]) :
                      \/ \E toGroup \in BOOLEAN : BeginSelect(w, i, list, toGroup)
                      \/ BeginPublish(w, i, list)
                \/ WriteSibling(w, i)
                \/ Renumber(w, i)
          \/ \E f \in Files : NextFile(w, f)
          \/ \E a \in Assets : BeginDelete(w, a)
          \/ Attach(w) \/ ReadSiblings(w) \/ CommitRows(w) \/ CommitDelete(w)
          \/ Claim(w) \/ Succeed(w) \/ Fail(w) \/ Abandon(w)
    \/ \E i \in Items : Archive(i)

Spec == Init /\ [][Next]_vars

-----------------------------------------------------------------------------
(* Properties that hold however requests overlap. *)

Published(i) == publication[i].status = "succeeded"

(* Besides its types: only an item with a succeeded attempt is published,    *)
(* and a request publishes an item it names.                                 *)
TypeOK ==
    /\ file \in [Assets -> Files \union {"unused", "generated", "gone"}]
    /\ grouped \subseteq Assets /\ published \subseteq {i \in Items : Published(i)}
    /\ \A i \in Items :
          /\ DOMAIN rows[i] \subseteq Assets
          /\ \A a \in DOMAIN rows[i] : rows[i][a] \in Nat
          /\ publication[i].status \in {"none", "pending", "succeeded"}
          /\ DOMAIN publication[i].media = DOMAIN publication[i].sent
    /\ \A w \in Workers :
          /\ request[w].op \in Ops \union {"none"}
          /\ request[w].phase \in Phases \union {"none"}
          /\ request[w].phase = "calling" => publication[request[w].item].status = "pending"

(* A selection names only images that exist and that belong to the item's    *)
(* group, whatever is deleted while it is being chosen.                      *)
SelectionIsAvailable ==
    \A i \in Items : \A a \in DOMAIN rows[i] :
        Present(a) /\ (i \in Grouped <=> a \in grouped)

(* The record of an attempt never names another image than the one that was  *)
(* sent in that place: a deletion empties a place, and nothing fills it.     *)
RecordIsTrue ==
    \A i \in Items : \A k \in DOMAIN publication[i].sent :
        publication[i].media[k] \in {publication[i].sent[k], NoAsset}

(* The places in the record of an attempt that are empty, or that a delete   *)
(* which has passed its check is about to empty.                             *)
Doomed(i) ==
    LET media == publication[i].media IN
    {k \in DOMAIN media :
        \/ media[k] = NoAsset
        \/ \E w \in Workers : request[w].op = "delete" /\ request[w].asset = media[k]}

(* Deleting a published image "would hole our record of what is live": from  *)
(* the commit of a success on, however requests overlap, the success stays   *)
(* and its record loses no image but to a delete that had made its check.    *)
NoImageLostLater ==
    [][\A i \in Items : Published(i) => Published(i)' /\ Doomed(i)' \subseteq Doomed(i)]_vars

-----------------------------------------------------------------------------
(* Properties that need requests to be served one at a time. *)

(* A selection is a carousel: positions 0, 1, ... without gap or duplicate,  *)
(* and no more images than the platform takes.                               *)
SelectionIsACarousel ==
    \A i \in Items :
        /\ {rows[i][a] : a \in DOMAIN rows[i]} = 0..(Cardinality(DOMAIN rows[i]) - 1)
        /\ Cardinality(DOMAIN rows[i]) <= MaxImages[i]

(* No file is in the group's library twice by upload. *)
UploadsAreDistinct ==
    \A a, b \in grouped :
        file[a] \in Files /\ file[a] = file[b] => a = b

(* The rows of an item, seen as the list that they number. *)
ListOf(column) ==
    [k \in 1..Cardinality(DOMAIN column) |-> CHOOSE a \in DOMAIN column : column[a] = k - 1]

OnLists == INSTANCE Gallery WITH
    library <- {a \in Assets : Present(a)},
    shown <- [i \in Items |-> ListOf(rows[i])],
    sent <- [i \in {i \in Items : Published(i)} |-> publication[i].sent]

(* The service implements Gallery: what a request reads, statement by        *)
(* statement, and what it writes in one transaction amount to one operation  *)
(* on lists, the whole batch of an upload and all siblings included.         *)
ImplementsGallery == OnLists!GallerySpec

=============================================================================
