----------------------------- MODULE MCGeneration ----------------------------
(***************************************************************************)
(* Generation on a small instance: every kind of request, two platforms of *)
(* two styles, a semaphore that makes calls queue.                         *)
(***************************************************************************)
EXTENDS Generation
=============================================================================
