-------------------------------- MODULE Pool --------------------------------
(***************************************************************************)
(* What the block pool promises to the sub-queues: a free block is given   *)
(* to one thread only, and a block given back becomes free again, though   *)
(* perhaps later and by the hand of another thread.                        *)
(***************************************************************************)
CONSTANTS Blocks

VARIABLES
    free,       \* may be taken
    returning,  \* given back, not free yet
    used        \* with a thread

vars == <<free, returning, used>>

Init == free = Blocks /\ returning = {} /\ used = {}

Take(b) ==
    /\ b \in free
    /\ free' = free \ {b} /\ used' = used \cup {b}
    /\ UNCHANGED returning

GiveBack(b) ==
    /\ b \in used
    /\ used' = used \ {b} /\ returning' = returning \cup {b}
    /\ UNCHANGED free

Settle(b) ==
    /\ b \in returning
    /\ returning' = returning \ {b} /\ free' = free \cup {b}
    /\ UNCHANGED used

Next == \E b \in Blocks : Take(b) \/ GiveBack(b) \/ Settle(b)

Spec == Init /\ [][Next]_vars

=============================================================================
