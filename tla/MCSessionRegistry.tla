-------------------------- MODULE MCSessionRegistry --------------------------
(***************************************************************************)
(* SessionRegistry on small sets of connections and users.                 *)
(***************************************************************************)
EXTENDS SessionRegistry, TLC

\* Sessions and users are interchangeable; only for runs without liveness.
Symmetry == Permutations(Session) \cup Permutations(User)
=============================================================================
