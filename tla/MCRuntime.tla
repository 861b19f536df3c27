------------------------------ MODULE MCRuntime ------------------------------
(***************************************************************************)
(* Instances of Runtime for TLC.                                           *)
(***************************************************************************)
EXTENDS Runtime, TLC

\* Requests are interchangeable.
Symmetry == Permutations(Request)
=============================================================================
