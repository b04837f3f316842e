------------------------------ MODULE MCAccounts -----------------------------
(***************************************************************************)
(* Accounts on a small instance: two Pages, one with an Instagram account. *)
(***************************************************************************)
EXTENDS Accounts, MetaExchange, TLC

CONSTANTS fb, ig, p1, p2, i1, a1, q1, q2

MCPlatformOf == (p1 :> fb) @@ (p2 :> fb) @@ (i1 :> ig)

Alike == Permutations({q1, q2})

(* Graph lists Pages with or without their tokens, directly or as the owned  *)
(* and the client Pages of a business.                                       *)
Page(id, token) == [id |-> id, token |-> token]
Own == {<<>>, <<Page(p1, TRUE)>>, <<Page(p1, TRUE), Page(p2, TRUE)>>,
        <<Page(p1, FALSE), Page(p2, TRUE)>>}
Edges == {<<>>, <<<<Page(p1, TRUE)>>, <<Page(p2, FALSE), Page(p1, TRUE)>>>>}

MCExchanges ==
    {DiscoverAccounts(own, edges, given, instagram) :
        own \in Own, edges \in Edges, given \in {{}, {p1, p2}}, instagram \in {p1 :> i1}}

=============================================================================
