--------------------------- MODULE MCRegistration ---------------------------
(***************************************************************************)
(* Registration with two keys and two requests at a time.                  *)
(***************************************************************************)
EXTENDS Registration
=============================================================================
