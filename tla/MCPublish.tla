------------------------------ MODULE MCPublish ------------------------------
(***************************************************************************)
(* PublishService on small instances.  The bounds are the sizes of the     *)
(* constant sets: items, texts, requests in flight at one time and attempt *)
(* rows ever made.                                                         *)
(***************************************************************************)
EXTENDS PublishService, TLC

(* Ids and texts carry no meaning of their own. *)
Symmetry == Permutations(Items) \union Permutations(Texts)
            \union Permutations(Attempts)

=============================================================================
