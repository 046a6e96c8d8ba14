--------------------------- MODULE MCStreamQueue ---------------------------
(* Small instances of StreamQueue for TLC. *)
EXTENDS StreamQueue, TLC

Symmetry == Permutations(Clients)
=============================================================================
