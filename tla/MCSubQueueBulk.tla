--------------------------- MODULE MCSubQueueBulk ---------------------------
(* Small instances of SubQueueBulk for TLC. *)
EXTENDS SubQueueBulk, TLC

\* Consumers and blocks are interchangeable.
Symmetry == Permutations(Consumers) \cup Permutations(Blocks)

\* The locals a call still reads: a ticket no longer matters once it is decided,
\* nor do the history variables to any step.  (While it waits for its second look at
\* the tail it reads the first only to see nothing older, which matters with a
\* StaleWindow above 0.)
LiveTicket(c) ==
    CASE pc[c] \in {"idle", "over", "check", "ticket"} -> ticket[c]
      [] pc[c] = "recheck" -> [ticket[c] EXCEPT !.tail = 0]
      [] OTHER -> NoTicket

\* What was asked for no longer matters once the elements are claimed.
LiveGrab(c) ==
    IF pc[c] \in {"idle", "over", "check", "ticket", "recheck", "giveup", "claim"}
    THEN grab[c] ELSE [grab[c] EXCEPT !.max = 1, !.desired = 0]

\* A block outside the sub-queue is reset before it is used again.
LiveCount(b) ==
    IF b = newBlock \/ \E s \in Slots : value[s] = b THEN elementsCompletelyDequeued[b] ELSE 0

LiveState == <<counters, blockIndex, elements, [b \in Blocks |-> LiveCount(b)], places,
               producer, pc, found, element, batch,
               [c \in Consumers |-> <<LiveTicket(c), LiveGrab(c)>>]>>

=============================================================================
