-------------------------- MODULE MCSessionTeardown --------------------------
(***************************************************************************)
(* SessionTeardown with the two tasks a session has.                       *)
(***************************************************************************)
EXTENDS SessionTeardown
=============================================================================
