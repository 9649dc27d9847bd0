-------------------------- MODULE MCExplicitQueue ---------------------------
(* Small instances of ExplicitQueue for TLC. *)
EXTENDS ExplicitQueue, TLC

\* Consumers and blocks are interchangeable (safety runs only).
Symmetry == Permutations(Consumers) \cup Permutations(Blocks)

=============================================================================
