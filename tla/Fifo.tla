-------------------------------- MODULE Fifo --------------------------------
(***************************************************************************)
(* What one producer's sub-queue promises, whatever the memory layout:     *)
(* messages leave in the order they were accepted, each to one consumer    *)
(* only, none is made up, and at most Capacity wait at any time.  A bulk   *)
(* operation puts or takes several messages at one moment, with none of    *)
(* another thread between them.                                            *)
(***************************************************************************)
EXTENDS Integers, Sequences

CONSTANTS Consumers, Capacity

VARIABLES
    queue,      \* accepted messages that nobody has claimed
    newest,     \* the message accepted last
    hand        \* what each consumer has claimed and not yet returned with

vars == <<queue, newest, hand>>

Init == queue = <<>> /\ newest = 0 /\ hand = [c \in Consumers |-> <<>>]

\* The producer's messages are accepted in the order it offers them, those of a
\* bulk operation all or none; a refused one (a step that changes nothing here)
\* is never accepted later.
Put(k) ==
    /\ queue' = queue \o [i \in 1 .. k |-> newest + i]
    /\ newest' = newest + k
    /\ UNCHANGED hand

Take(c, k) ==
    /\ hand[c] = <<>>
    /\ hand' = [hand EXCEPT ![c] = SubSeq(queue, 1, k)]
    /\ queue' = SubSeq(queue, k + 1, Len(queue))
    /\ UNCHANGED newest

Return(c) ==
    /\ hand[c] # <<>>
    /\ hand' = [hand EXCEPT ![c] = <<>>]
    /\ UNCHANGED <<queue, newest>>

Next ==
    \/ \E k \in 1 .. Capacity - Len(queue) : Put(k)
    \/ \E c \in Consumers : Return(c) \/ \E k \in 1 .. Len(queue) : Take(c, k)

Spec == Init /\ [][Next]_vars

=============================================================================
