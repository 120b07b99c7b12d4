---------------------------- MODULE MCSessions ----------------------------
(* Small instances of Sessions for TLC. *)
EXTENDS Sessions, TLC

\* Connections are interchangeable, and so are objects.
Symmetry == Permutations(Conns) \cup Permutations(Objects)
=============================================================================
