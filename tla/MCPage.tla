------------------------------- MODULE MCPage -------------------------------
(***************************************************************************)
(* Page with two volumes, two changes of them, and a stream of MoQ's that  *)
(* comes in three chunks, one of them empty.                               *)
(***************************************************************************)
EXTENDS Page

MCChunks == <<<<1, 2>>, <<>>, <<3>>>>
MCMixes == {{"moq"}, {"word", "volume"}}
=============================================================================
