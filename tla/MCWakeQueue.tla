----------------------------- MODULE MCWakeQueue -----------------------------
(***************************************************************************)
(* WakeQueue with two messages, the mux pump and a second producer, and    *)
(* two consumers.                                                          *)
(***************************************************************************)
EXTENDS WakeQueue
=============================================================================
