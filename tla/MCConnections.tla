--------------------------- MODULE MCConnections ---------------------------
(* Small instances of Connections for TLC. *)
EXTENDS Connections, TLC

\* The readers of the pool are interchangeable; so are the connections.
Symmetry == Permutations(Readers) \cup Permutations(Conns)
=============================================================================
