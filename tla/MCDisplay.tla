----------------------------- MODULE MCDisplay -----------------------------
(***************************************************************************)
(* Display with two sizes.                                                 *)
(***************************************************************************)
EXTENDS Display
=============================================================================
