---------------------------- MODULE MCBlockPool -----------------------------
(* Small instances of BlockPool for TLC. *)
EXTENDS BlockPool, TLC

\* Threads are interchangeable (safety runs only).
Symmetry == Permutations(Threads)

\* The locals that are still read.
LiveState == <<initialBlockPoolIndex, freeListHead, atomics, freeListNext, used,
               pc, prevHead, adding,
               [t \in Threads |-> IF pc[t] = "load" THEN Null ELSE head[t]],
               [t \in Threads |-> IF pc[t] = "acquire" THEN refs[t] ELSE <<>>],
               [t \in Threads |-> IF pc[t] = "pop" THEN next[t] ELSE Null]>>

=============================================================================
