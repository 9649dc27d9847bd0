--------------------------- MODULE MCImplicitHash ---------------------------
(* Small instances of ImplicitHash for TLC. *)
EXTENDS ImplicitHash, TLC

\* Threads are interchangeable (safety runs only): their hashed ids are a variable.
Symmetry == Permutations(Threads)

=============================================================================
