----------------------------- MODULE MetaExchange ----------------------------
(***************************************************************************)
(* What a code exchange with Meta yields (app/publishing/oauth/meta.py):   *)
(* the Pages that Graph lists, directly or through the businesses of the   *)
(* user, each with the Instagram account linked to it.                     *)
(*                                                                         *)
(* A listed Page is a record of its id and whether a token came with it.   *)
(* An edge that answers with an error lists nothing, and a Page whose      *)
(* lookup fails has no Instagram account: both errors are caught.          *)
(***************************************************************************)
EXTENDS SequencesExt

(* Every listing: a seeded bug. *)
SeenTwice(listings) == FlattenSeq(listings)

(* seen keeps the first listing of a Page. *)
Seen(listings) ==
    LET listed == FlattenSeq(listings)
        known(i) == \E j \in 1..i - 1 : listed[j].id = listed[i].id
    IN  FlattenSeq([i \in DOMAIN listed |-> IF known(i) THEN <<>> ELSE <<listed[i]>>])

(* _pages_via_businesses: the Pages whose token was listed or, when asked    *)
(* for, given.                                                               *)
PagesViaBusinesses(edges, given) ==
    LET seen == Seen(edges)
        resolved(page) == IF page.token \/ page.id \in given
                          THEN <<[id |-> page.id, token |-> TRUE]>> ELSE <<>>
    IN  FlattenSeq([i \in DOMAIN seen |-> resolved(seen[i])])

(* _discover_accounts: the destinations in the order they are stored.  None  *)
(* at all is an OAuthError.                                                  *)
DiscoverAccounts(own, edges, given, instagram) ==
    LET pages == IF own # <<>> THEN own ELSE PagesViaBusinesses(edges, given)
        linked(id) == IF id \in DOMAIN instagram THEN <<instagram[id]>> ELSE <<>>
        connected(page) == IF page.token THEN <<page.id>> \o linked(page.id) ELSE <<>>
    IN  FlattenSeq([i \in DOMAIN pages |-> connected(pages[i])])

=============================================================================
