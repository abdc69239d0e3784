----------------------------- MODULE MCEndpoint -----------------------------
(* Small instances of Endpoint for TLC. *)
EXTENDS Endpoint, TLC

\* No property tells the values apart.
Symmetry == Permutations(Value)
=============================================================================
