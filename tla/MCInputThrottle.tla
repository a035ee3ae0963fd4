-------------------------- MODULE MCInputThrottle --------------------------
(***************************************************************************)
(* InputThrottle with a queue of three entries, and a pointer that moves   *)
(* either way by one, in a field that holds -2 to 1.                       *)
(***************************************************************************)
EXTENDS InputThrottle

Steps == {-1, 1}
=============================================================================
