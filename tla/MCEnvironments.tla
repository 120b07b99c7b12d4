--------------------------- MODULE MCEnvironments ---------------------------
(* Small instances of Environments for TLC. *)
EXTENDS Environments, TLC

\* Living objects are interchangeable, and so are the others.
Symmetry == Permutations(Living) \cup Permutations(Objects \ Living)
=============================================================================
