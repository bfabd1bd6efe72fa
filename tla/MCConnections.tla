--------------------------- MODULE MCConnections ---------------------------
(* Small instances of Connections for TLC. *)
EXTENDS Connections, TLC

Symmetry == Permutations(Writers) \cup Permutations(Adapters)
=============================================================================
