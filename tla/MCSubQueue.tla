----------------------------- MODULE MCSubQueue -----------------------------
(* Small instances of SubQueue for TLC. *)
EXTENDS SubQueue, TLC

\* Consumers and blocks are interchangeable (safety runs only).
Symmetry == Permutations(Consumers) \cup Permutations(Blocks)

\* The locals a call still reads: a ticket no longer matters once it is decided,
\* nor do the history variables to any step.
LiveTicket(c) ==
    CASE pc[c] \in {"idle", "over", "check", "ticket"} -> ticket[c]
      [] pc[c] = "recheck" -> [ticket[c] EXCEPT !.tail = 0]
      [] OTHER -> NoTicket

LiveState == <<counters, blockIndex, contents, places, producer, pc, found,
               element, [c \in Consumers |-> LiveTicket(c)]>>

=============================================================================
