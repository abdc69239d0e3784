---------------------------- MODULE MCObservers ----------------------------
(* Small instances of Observers for TLC. *)
EXTENDS Observers, TLC

\* No property tells the scripts or the values apart.
Symmetry == Permutations(Script) \cup Permutations(Value)
=============================================================================
