------------------------------- MODULE MCWorkers -----------------------------
(***************************************************************************)
(* Workers on a small instance: two process numbers, so that one is given  *)
(* again, two threads each and one client.                                 *)
(***************************************************************************)
EXTENDS Workers
=============================================================================
