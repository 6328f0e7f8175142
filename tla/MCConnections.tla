--------------------------- MODULE MCConnections ---------------------------
(* Connections with a fixed set of calls; the safety run may permute them. *)
EXTENDS Connections, TLC

CallSymmetry == Permutations(Calls)
=============================================================================
