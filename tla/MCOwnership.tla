----------------------------- MODULE MCOwnership -----------------------------
(* Small instances of Ownership for TLC. *)
EXTENDS Ownership, TLC

\* Tokens and writers are interchangeable, and so are queue objects.
Symmetry == Permutations(Tokens) \cup Permutations(Writers) \cup Permutations(Queues)

=============================================================================
