----------------------------- MODULE MCPublishers ----------------------------
(***************************************************************************)
(* Publishers on small instances: every network, up to MaxImages images,   *)
(* every sequence of answers.                                              *)
(***************************************************************************)
EXTENDS Publishers
=============================================================================
