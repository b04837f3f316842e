------------------------------ MODULE MCCatalog ------------------------------
(***************************************************************************)
(* CatalogSync on small instances.                                         *)
(***************************************************************************)
EXTENDS CatalogSync, TLC

CONSTANTS c1, c2, o1, o2, d1, d2, q1, q2

(* d2 has a price, d1 has none. *)
PricedChanges == {<<d2, d1>>}

Alike == Permutations({c1, c2})

=============================================================================
