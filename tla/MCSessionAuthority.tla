-------------------------- MODULE MCSessionAuthority --------------------------
(***************************************************************************)
(* Instances of SessionAuthority for TLC.                                  *)
(***************************************************************************)
EXTENDS SessionAuthority, TLC

\* Requests are interchangeable, and so are logout interactions.
Symmetry == Permutations(Request) \cup Permutations(Logout)
=============================================================================
