------------------------------- MODULE Gallery -------------------------------
(***************************************************************************)
(* What the media service promises, without rows, positions, requests and  *)
(* attempts: every post shows a list of images of the library, and each    *)
(* request does all it does at once.                                       *)
(***************************************************************************)
EXTENDS Naturals, Sequences

CONSTANTS Items,      \* posts
          Grouped,    \* those of one generation group
          MaxImages   \* the images that each of them may show

VARIABLES
    library,    \* the images there are
    shown,      \* the images that each post shows, in order
    published,  \* the posts whose status is published
    sent        \* by post that ever went out, the images it went out with

galleryVars == <<library, shown, published, sent>>

GalleryInit ==
    /\ library = {}
    /\ shown = [i \in Items |-> <<>>]
    /\ published = {}
    /\ sent = [i \in {} |-> <<>>]

Images(list) == {list[k] : k \in DOMAIN list}

(* Different images, and no more than the platform takes. *)
Carousel(i, list) ==
    /\ Len(list) <= MaxImages[i]
    /\ \A k, l \in DOMAIN list : list[k] = list[l] => k = l

StartsWith(list, head) ==
    Len(head) <= Len(list) /\ \A k \in DOMAIN head : list[k] = head[k]

(* Images are added, uploaded or generated for a post, and shown behind what *)
(* it shows as far as there is room.                                         *)
Add(i, list) ==
    /\ library \subseteq library' /\ Images(list) \subseteq library'
    /\ Carousel(i, list) /\ StartsWith(list, shown[i])
    /\ shown' = [shown EXCEPT ![i] = list]
    /\ UNCHANGED <<published, sent>>

(* The posts of the group that a list can be copied to. *)
Siblings(i, list) ==
    {j \in Grouped \ {i} : i \in Grouped /\ j \notin published /\ Len(list) <= MaxImages[j]}

(* A list is chosen for a post and, if asked for, for its siblings: at least *)
(* for those that never went out, and never for a published one.             *)
Choose(i, list, copies) ==
    /\ Images(list) \subseteq library /\ Carousel(i, list)
    /\ copies \subseteq Siblings(i, list)
    /\ copies = {} \/ Siblings(i, list) \ DOMAIN sent \subseteq copies
    /\ shown' = [j \in Items |-> IF j \in copies \union {i} THEN list ELSE shown[j]]
    /\ UNCHANGED <<library, published, sent>>

(* The rest of a list, in its order. *)
Rest(list, a, rest) ==
    /\ Images(rest) = Images(list) \ {a}
    /\ \A k, l \in DOMAIN rest : k < l =>
          \E m, n \in DOMAIN list : m < n /\ list[m] = rest[k] /\ list[n] = rest[l]

(* An image that never went out is deleted: no post shows it any more. *)
Delete(a) ==
    /\ \A i \in DOMAIN sent : a \notin Images(sent[i])
    /\ library' = library \ {a}
    /\ shown' \in [Items -> Seq(library')]
    /\ \A i \in Items : Rest(shown[i], a, shown'[i])
    /\ UNCHANGED <<published, sent>>

(* A post goes out, once and for all. *)
Publish(i, list) ==
    /\ i \notin DOMAIN sent
    /\ Images(list) \subseteq library
    /\ sent' = [j \in DOMAIN sent \union {i} |-> IF j = i THEN list ELSE sent[j]]
    /\ published' = published \union {i}
    /\ UNCHANGED <<library, shown>>

Archive(i) ==
    /\ published' = published \ {i}
    /\ UNCHANGED <<library, shown, sent>>

GalleryNext ==
    \/ \E i \in Items :
          \/ \E list \in {shown'[j] : j \in Items} :
                \/ Add(i, list)
                \/ \E copies \in SUBSET Siblings(i, list) : Choose(i, list, copies)
          \/ \E list \in {sent'[j] : j \in DOMAIN sent'} : Publish(i, list)
          \/ Archive(i)
    \/ \E a \in library : Delete(a)

GallerySpec == GalleryInit /\ [][GalleryNext]_galleryVars

=============================================================================
