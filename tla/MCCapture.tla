------------------------------ MODULE MCCapture ------------------------------
(***************************************************************************)
(* Capture with two sizes and a bus of two.                                *)
(***************************************************************************)
EXTENDS Capture
=============================================================================
