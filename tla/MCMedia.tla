------------------------------- MODULE MCMedia -------------------------------
(***************************************************************************)
(* MediaLibrary on small instances.                                        *)
(***************************************************************************)
EXTENDS MediaLibrary, TLC

CONSTANTS i1, i2, u1

(* Platforms that take different numbers of images. *)
SmallLimits == [i \in Items |-> IF i = i2 THEN 1 ELSE 2]

Alike == Permutations(Assets) \union Permutations(Workers)

=============================================================================
