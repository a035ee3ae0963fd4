----------------------------- MODULE MCMediaPath -----------------------------
(***************************************************************************)
(* MediaPath with two codecs and channels of two and one.                  *)
(***************************************************************************)
EXTENDS MediaPath
=============================================================================
