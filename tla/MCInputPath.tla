----------------------------- MODULE MCInputPath -----------------------------
(***************************************************************************)
(* InputPath with one finger in range and one out of it.                   *)
(***************************************************************************)
EXTENDS InputPath
=============================================================================
