---------------------------- MODULE MCConnection ----------------------------
(***************************************************************************)
(* Connection with one stream of each side.                                *)
(***************************************************************************)
EXTENDS Connection
=============================================================================
