------------------------- MODULE SubQueueBulkProofs -------------------------
(***************************************************************************)
(* Theorems about SubQueueBulk: the guarantees of a sub-queue on which     *)
(* enqueue_bulk and dequeue_bulk run beside the calls for one element, for *)
(* every number of consumers and blocks, every block size, every capacity  *)
(* of the sub-queue and of its index, and every set of bulk sizes.         *)
(*                                                                         *)
(* A block is known by its number: the p-th block that elements came to,   *)
(* which holds the indices from BlockSize * p.  BulkLayoutInv says of each *)
(* number whether its block is needed, and that a needed block is linked   *)
(* at the slot with its number, modulo the capacity of the index.          *)
(***************************************************************************)
EXTENDS SubQueueBulk, SubQueueProofs

-----------------------------------------------------------------------------
(* Claims never overtake the producer *)

\* The consumer's call is where it was.
Stays(c) == pc'[c] = pc[c] /\ ticket'[c] = ticket[c] /\ grab'[c] = grab[c]

LEMMA BulkTypes ==
    ASSUME BulkTypeOK
    PROVE  /\ TypeOK /\ tailIndex \in Nat /\ headIndex \in Nat
           /\ dequeueOptimisticCount \in Nat /\ dequeueOvercommit \in Nat
           /\ \A c \in Consumers :
                 /\ ticket[c].tail \in Nat /\ ticket[c].overcommit \in Nat
                 /\ ticket[c].count \in Nat
                 /\ grab[c].max \in Nat /\ grab[c].desired \in Nat /\ grab[c].actual \in Nat
                 /\ Asked(c) \in Nat /\ Granted(c) \in Nat
           /\ won \subseteq Nat /\ lost \subseteq Nat
  <1>1. TypeOK
    BY DEF BulkTypeOK
  <1>2. \A c \in Consumers : /\ ticket[c].tail \in Nat /\ ticket[c].overcommit \in Nat
                            /\ ticket[c].count \in Nat
    BY <1>1 DEF TypeOK, TicketType
  <1>3. ASSUME NEW c \in Consumers
        PROVE  grab[c].max \in Nat /\ grab[c].desired \in Nat /\ grab[c].actual \in Nat
    <2>1. grab[c] \in GrabType /\ BulkSizes \cup {0} \subseteq Nat
      BY BulkAssumption DEF BulkTypeOK
    <2> QED
      BY <2>1 DEF GrabType
  <1>4. \A c \in Consumers : Asked(c) \in Nat /\ Granted(c) \in Nat
    BY <1>3 DEF Asked, Granted
  <1> QED
    BY <1>1, <1>2, <1>3, <1>4 DEF TypeOK

LEMMA Runs ==
    ASSUME NEW a \in Nat, NEW b \in Nat, a <= b, NEW n \in Nat
    PROVE  /\ IsFiniteSet(n + a .. n + b - 1)
           /\ Cardinality(n + a .. n + b - 1) = b - a
           /\ n + a .. n + b - 1 \subseteq Nat
  <1>1. n + a \in Int /\ n + b - 1 \in Int
    OBVIOUS
  <1>2. /\ IsFiniteSet(n + a .. n + b - 1)
        /\ Cardinality(n + a .. n + b - 1) =
              IF n + a > n + b - 1 THEN 0 ELSE (n + b - 1) - (n + a) + 1
    BY <1>1, FS_Interval
  <1> QED
    BY <1>2

LEMMA GrabKept ==
    ASSUME BulkTicketInv, NEW d \in Consumers, Stays(d)
    PROVE  GrabRight(d)' /\ (Pending(d)' <=> Pending(d)) /\ HeldTickets(d)' = HeldTickets(d)
           /\ Granted(d)' = Granted(d)
  <1>1. GrabRight(d)
    BY DEF BulkTicketInv
  <1> QED
    BY <1>1 DEF Stays, GrabRight, Pending, HeldTickets, TicketsOf, Granted, Asked

LEMMA LostBeforeGrows ==
    ASSUME BulkTypeOK, TicketsCounted, NEW m \in Nat, NEW n \in Nat, m <= n
    PROVE  /\ Cardinality(LostBefore(m)) <= Cardinality(LostBefore(n))
           /\ Cardinality(LostBefore(m)) \in Nat /\ Cardinality(LostBefore(n)) \in Nat
  <1>1. LostBefore(m) \subseteq LostBefore(n) /\ LostBefore(n) \subseteq lost
    BY BulkTypes DEF LostBefore
  <1>2. IsFiniteSet(LostBefore(n))
    BY <1>1, BulkTypes, TicketSetsFinite, FS_Subset
  <1>3. IsFiniteSet(LostBefore(m))
    BY <1>1, <1>2, FS_Subset
  <1> QED
    BY <1>1, <1>2, <1>3, FS_Subset, FS_CardinalityType

\* A step that neither moves the ticket counters nor lets a consumer begin to decide.
LEMMA BulkQuiet ==
    ASSUME BulkTypeOK, BulkTicketInv, tailIndex' \in Nat, tailIndex' >= tailIndex,
           UNCHANGED <<headIndex, dequeueOptimisticCount, dequeueOvercommit, won, lost>>,
           \A c \in Consumers : \/ Stays(c)
                                \/ pc'[c] \notin Deciding /\ GrabRight(c)'
    PROVE  BulkTicketInv'
  <1>0. TicketsCounted
    BY DEF BulkTicketInv
  <1>1. TicketsCounted' /\ LastWinner'
    BY DEF BulkTicketInv, TicketsCounted, Tickets, LastWinner
  <1>2. \A c \in Consumers : Pending(c)' => Stays(c)
    BY DEF Pending, Deciding
  <1>3. \A c \in Consumers : Pending(c)' => Pending(c) /\ HeldTickets(c)' = HeldTickets(c)
    BY <1>2, GrabKept
  <1>4. BulkPendingTickets'
    <2>1. Tickets' = Tickets
      BY DEF Tickets
    <2> HIDE DEF HeldTickets, Pending
    <2> QED
      BY <1>3, <2>1 DEF BulkTicketInv, BulkPendingTickets
  <1>5. OvercommitIsPast'
    <2>1. \A n : LostBefore(n)' = LostBefore(n)
      BY DEF LostBefore
    <2> QED
      BY <2>1 DEF BulkTicketInv, OvercommitIsPast, Stays, Deciding
  <1>6. ASSUME NEW n \in Nat, Wins(n) PROVE Wins(n)'
    <2>1. Cardinality(LostBefore(n)) \in Nat
      BY <1>0, BulkTypes, LostBeforeCounts
    <2>2. LostBefore(n)' = LostBefore(n)
      BY DEF LostBefore
    <2> QED
      BY <1>6, <2>1, <2>2, BulkTypes DEF Wins
  <1>7. BulkWinnersBelowTail'
    <2>1. ASSUME NEW c \in Consumers, pc'[c] \in {"claim", "giveup"},
                 NEW n \in TicketsOf(c, 0, Granted(c))'
          PROVE  Wins(n)'
      <3>1. Stays(c) /\ pc[c] \in {"claim", "giveup"}
        BY <2>1 DEF Deciding, Stays
      <3>2. n \in TicketsOf(c, 0, Granted(c))
        BY <2>1, <3>1, GrabKept DEF TicketsOf, Stays
      <3>3. n \in Nat
        BY <3>2, BulkTypes DEF TicketsOf
      <3> QED
        BY <3>1, <3>2, <3>3, <1>6 DEF BulkTicketInv, BulkWinnersBelowTail
    <2>2. \A n \in won' : Wins(n)'
      BY <1>6, BulkTypes DEF BulkTicketInv, BulkWinnersBelowTail
    <2> QED
      BY <2>1, <2>2 DEF BulkWinnersBelowTail
  <1>8. \A c \in Consumers : GrabRight(c)'
    BY GrabKept
  <1> QED
    BY <1>1, <1>4, <1>5, <1>7, <1>8 DEF BulkTicketInv

\* Until tickets are taken, what a call may have loaded or asked for is harmless.
LEMMA BulkPrepares ==
    ASSUME BulkTypeOK, BulkTicketInv, NEW c \in Consumers,
           \A d \in Consumers \ {c} : Stays(d),
           UNCHANGED <<counters, won, lost>>,
           pc[c] \in {"over", "check"}, pc'[c] \in {"check", "ticket"},
           ticket'[c].overcommit <= Cardinality(lost), GrabRight(c)'
    PROVE  BulkTicketInv'
  <1> USE DEF counters
  <1>1. TicketsCounted' /\ LastWinner'
    BY DEF BulkTicketInv, TicketsCounted, LastWinner, Tickets
  <1>2. /\ Tickets' = Tickets /\ ~Pending(c)' /\ ~Pending(c)
        /\ \A n : LostBefore(n)' = LostBefore(n) /\ (Wins(n)' <=> Wins(n))
    BY DEF Tickets, Pending, LostBefore, Wins
  <1>3. \A d \in Consumers \ {c} : /\ Pending(d)' <=> Pending(d)
                                   /\ HeldTickets(d)' = HeldTickets(d)
                                   /\ Granted(d)' = Granted(d)
                                   /\ GrabRight(d)'
    BY GrabKept
  <1>4. BulkPendingTickets'
    <2> HIDE DEF HeldTickets, Pending
    <2> QED
      BY <1>2, <1>3 DEF BulkTicketInv, BulkPendingTickets
  <1>5. OvercommitIsPast'
    BY <1>2 DEF BulkTicketInv, OvercommitIsPast, Stays
  <1>6. BulkWinnersBelowTail'
    BY <1>2, <1>3 DEF BulkTicketInv, BulkWinnersBelowTail, Stays, TicketsOf
  <1> QED
    BY <1>1, <1>3, <1>4, <1>5, <1>6 DEF BulkTicketInv

\* The tickets taken are above all earlier ones, so every lost one is below them.
LEMMA BulkTakes ==
    ASSUME BulkTypeOK, BulkTicketInv, NEW c \in Consumers,
           \A d \in Consumers \ {c} : Stays(d),
           UNCHANGED <<tailIndex, headIndex, dequeueOvercommit, won, lost>>,
           pc[c] = "ticket", pc'[c] = "recheck", grab'[c] = grab[c],
           ticket'[c].count = dequeueOptimisticCount,
           ticket'[c].overcommit = ticket[c].overcommit,
           dequeueOptimisticCount' = dequeueOptimisticCount + Asked(c)
    PROVE  BulkTicketInv'
  <1> DEFINE n == dequeueOptimisticCount
             m == Asked(c)
  <1>1. n \in Nat /\ m \in Nat /\ m > 0
    BY BulkTypes DEF BulkTicketInv, GrabRight, Asked
  <1>2. Tickets = 0 .. n - 1 /\ Tickets' = 0 .. n + m - 1
    <2>1. dequeueOptimisticCount' - 1 = n + m - 1
      BY <1>1
    <2> QED
      BY <2>1 DEF Tickets
  <1>3. HeldTickets(c)' = n .. n + m - 1 /\ ~Pending(c) /\ Pending(c)'
    BY <1>1 DEF HeldTickets, TicketsOf, Asked, Pending
  <1> HIDE DEF n, m
  <1>4. won \subseteq 0 .. n - 1 /\ lost \subseteq 0 .. n - 1
    BY <1>2 DEF BulkTicketInv, TicketsCounted
  <1>5. TicketsCounted' /\ LastWinner'
    BY <1>1, <1>2, <1>4 DEF BulkTicketInv, TicketsCounted, LastWinner
  <1>6. \A d \in Consumers \ {c} : /\ Pending(d)' <=> Pending(d)
                                   /\ HeldTickets(d)' = HeldTickets(d)
                                   /\ Granted(d)' = Granted(d)
                                   /\ GrabRight(d)'
    BY GrabKept
  <1>7. BulkPendingTickets'
    <2> HIDE DEF HeldTickets, Pending
    <2>1. \A d \in Consumers : Pending(d) =>
             /\ HeldTickets(d) \subseteq (0 .. n - 1) \ (won \cup lost)
             /\ \A e \in Consumers \ {d} :
                   Pending(e) => HeldTickets(e) \cap HeldTickets(d) = {}
      BY <1>2 DEF BulkTicketInv, BulkPendingTickets
    <2>2. n .. n + m - 1 \subseteq (0 .. n + m - 1) \ (won \cup lost)
      BY <1>1, <1>4
    <2>3. 0 .. n - 1 \subseteq 0 .. n + m - 1 /\ (n .. n + m - 1) \cap (0 .. n - 1) = {}
      BY <1>1
    <2>4. ASSUME NEW d \in Consumers, Pending(d)'
          PROVE  /\ HeldTickets(d)' \subseteq (0 .. n + m - 1) \ (won \cup lost)
                 /\ \A e \in Consumers \ {d} :
                       Pending(e)' => HeldTickets(e)' \cap HeldTickets(d)' = {}
      <3>1. CASE d = c
        BY <3>1, <1>3, <1>6, <2>1, <2>2, <2>3
      <3>2. CASE d # c
        <4>1. Pending(d) /\ HeldTickets(d)' = HeldTickets(d)
          BY <2>4, <3>2, <1>6
        <4>2. HeldTickets(d) \subseteq (0 .. n - 1) \ (won \cup lost)
          BY <4>1, <2>1
        <4>3. \A e \in Consumers \ {d} : e # c /\ Pending(e)' =>
                 HeldTickets(e)' \cap HeldTickets(d)' = {}
          BY <4>1, <1>6, <2>1
        <4>4. HeldTickets(c)' \cap HeldTickets(d)' = {}
          BY <4>1, <4>2, <1>3, <2>3
        <4> QED
          BY <4>1, <4>2, <4>3, <4>4, <2>3
      <3> QED
        BY <3>1, <3>2
    <2> QED
      BY <1>2, <2>4 DEF BulkPendingTickets
  <1>8. OvercommitIsPast'
    <2>1. {k \in lost : k < n} = lost
      <3>1. \A k \in lost : k < n
        BY <1>1, <1>4
      <3> QED
        BY <3>1
    <2>2. ticket[c].overcommit <= Cardinality(lost)
      BY DEF BulkTicketInv, OvercommitIsPast
    <2>3. ticket'[c].overcommit <= Cardinality({k \in lost' : k < ticket'[c].count})
      BY <2>1, <2>2 DEF n
    <2> QED
      BY <2>3 DEF BulkTicketInv, OvercommitIsPast, LostBefore, Stays
  <1>9. BulkWinnersBelowTail'
    BY <1>6 DEF BulkTicketInv, BulkWinnersBelowTail, Stays, TicketsOf, Wins, LostBefore
  <1>10. GrabRight(c)'
    BY DEF BulkTicketInv, GrabRight
  <1> QED
    BY <1>5, <1>6, <1>7, <1>8, <1>9, <1>10 DEF BulkTicketInv

\* The decision: below the tail with an overcommit that counts only earlier losses,
\* as many tickets win as are granted.
LEMMA BulkDecides ==
    ASSUME BulkTypeOK, BulkTicketInv, NEW c \in Consumers,
           \A d \in Consumers \ {c} : Stays(d),
           UNCHANGED <<counters, won, lost>>, ticket'[c] = ticket[c],
           pc[c] = "recheck", pc'[c] \in {"claim", "giveup"}, GrabRight(c)',
           Asked(c)' = Asked(c), Granted(c)' \in 0 .. Asked(c),
           pc'[c] = "claim" => Granted(c)' = Asked(c),
           Granted(c)' > 0 =>
              ticket[c].count + Granted(c)' - ticket[c].overcommit <= tailIndex
    PROVE  BulkTicketInv'
  <1> USE DEF counters
  <1> DEFINE n == ticket[c].count
             o == ticket[c].overcommit
             g == Granted(c)'
  <1>1. n \in Nat /\ o \in Nat /\ tailIndex \in Nat /\ Asked(c) \in Nat /\ g \in Nat
    BY BulkTypes
  <1>2. TicketsCounted' /\ LastWinner'
    BY DEF BulkTicketInv, TicketsCounted, LastWinner, Tickets
  <1>3. /\ Tickets' = Tickets
        /\ \A k : LostBefore(k)' = LostBefore(k) /\ (Wins(k)' <=> Wins(k))
    BY DEF Tickets, LostBefore, Wins
  <1>4. HeldTickets(c)' = HeldTickets(c) /\ Pending(c) /\ Pending(c)'
    BY DEF HeldTickets, TicketsOf, Pending
  <1>5. \A d \in Consumers : /\ Pending(d)' <=> Pending(d)
                             /\ HeldTickets(d)' = HeldTickets(d)
                             /\ GrabRight(d)'
    BY <1>4, GrabKept
  <1>6. BulkPendingTickets'
    <2> HIDE DEF HeldTickets, Pending
    <2> QED
      BY <1>3, <1>5 DEF BulkTicketInv, BulkPendingTickets
  <1>7. OvercommitIsPast'
    BY <1>3 DEF BulkTicketInv, OvercommitIsPast, Stays
  <1>8. ASSUME NEW k \in TicketsOf(c, 0, Granted(c))' PROVE Wins(k)
    <2>1. k \in n .. n + g - 1
      BY <1>1 DEF TicketsOf
    <2> HIDE DEF g
    <2>2. k \in Nat /\ n <= k /\ k + 1 <= n + g /\ g > 0
      BY <1>1, <2>1
    <2>3. n + g - o <= tailIndex
      BY <2>2 DEF g
    <2>4. o <= Cardinality(LostBefore(n))
      BY DEF BulkTicketInv, OvercommitIsPast
    <2>5. /\ Cardinality(LostBefore(n)) <= Cardinality(LostBefore(k))
          /\ Cardinality(LostBefore(n)) \in Nat /\ Cardinality(LostBefore(k)) \in Nat
      BY <1>1, <2>2, LostBeforeGrows DEF BulkTicketInv
    <2> HIDE DEF n, o
    <2> QED
      BY <1>1, <2>2, <2>3, <2>4, <2>5 DEF Wins
  <1> HIDE DEF g
  <1>9. BulkWinnersBelowTail'
    <2>1. ASSUME NEW d \in Consumers \ {c}, pc'[d] \in {"claim", "giveup"},
                 NEW k \in TicketsOf(d, 0, Granted(d))'
          PROVE  Wins(k)
      BY <2>1, GrabKept DEF BulkTicketInv, BulkWinnersBelowTail, Stays, TicketsOf
    <2> QED
      BY <1>3, <1>8, <2>1 DEF BulkTicketInv, BulkWinnersBelowTail
  <1> QED
    BY <1>2, <1>5, <1>6, <1>7, <1>9 DEF BulkTicketInv

\* Tickets given up are lost: what was lost before others only grows.
LEMMA BulkGivesUp ==
    ASSUME BulkTypeOK, BulkTicketInv, NEW c \in Consumers,
           \A d \in Consumers \ {c} : Stays(d),
           UNCHANGED <<tailIndex, headIndex, dequeueOptimisticCount, won>>,
           pc[c] = "giveup", GrabRight(c)', Granted(c) <= Asked(c),
           \/ pc'[c] = "idle"
           \/ pc'[c] = "claim" /\ ticket'[c] = ticket[c] /\ Granted(c)' = Granted(c),
           dequeueOvercommit' = dequeueOvercommit + Asked(c) - Granted(c),
           lost' = lost \cup TicketsOf(c, Granted(c), Asked(c))
    PROVE  BulkTicketInv'
  <1> DEFINE n == ticket[c].count
             g == Granted(c)
             a == Asked(c)
             G == TicketsOf(c, g, a)
  <1>1. n \in Nat /\ g \in Nat /\ a \in Nat /\ g <= a /\ tailIndex \in Nat
        /\ G = n + g .. n + a - 1
    BY BulkTypes DEF TicketsOf
  <1>2. IsFiniteSet(G) /\ Cardinality(G) = a - g /\ G \subseteq Nat
    <2> HIDE DEF n, g, a, G
    <2> QED
      BY <1>1, Runs
  <1>3. Pending(c) /\ HeldTickets(c) = n .. n + a - 1
    BY <1>1 DEF Pending, HeldTickets, TicketsOf
  <1>4. G \subseteq HeldTickets(c) /\ TicketsOf(c, 0, g) \subseteq HeldTickets(c)
        /\ TicketsOf(c, 0, g) \cap G = {} /\ TicketsOf(c, 0, g) = n .. n + g - 1
    <2>1. TicketsOf(c, 0, g) = n .. n + g - 1
      BY <1>1 DEF TicketsOf
    <2> HIDE DEF n, g, a, G
    <2> QED
      BY <1>1, <1>3, <2>1
  <1> HIDE DEF g, a, G
  <1>5. HeldTickets(c) \subseteq Tickets \ (won \cup lost)
    BY <1>3 DEF BulkTicketInv, BulkPendingTickets
  <1>6. \A d \in Consumers \ {c} : Pending(d) => HeldTickets(d) \cap HeldTickets(c) = {}
    BY <1>3 DEF BulkTicketInv, BulkPendingTickets
  <1>7. lost' = lost \cup G
    BY DEF G, g, a
  <1>8. IsFiniteSet(lost) /\ Cardinality(lost) \in Nat /\ lost \subseteq Nat
        /\ won \subseteq Nat
    BY BulkTypes, TicketSetsFinite DEF BulkTicketInv
  <1>9. IsFiniteSet(lost') /\ Cardinality(lost') = Cardinality(lost) + (a - g)
    <2>1. lost \cap G = {}
      BY <1>4, <1>5
    <2>2. Cardinality(lost \cap G) = 0
      BY <2>1, FS_EmptySet
    <2>3. /\ IsFiniteSet(lost \cup G)
          /\ Cardinality(lost \cup G) = Cardinality(lost) + Cardinality(G) - Cardinality(lost \cap G)
      BY <1>2, <1>8, FS_Union
    <2>4. \A x, y, z \in Int : z = 0 => x + y - z = x + y
      OBVIOUS
    <2>5. Cardinality(lost \cup G) = Cardinality(lost) + (a - g)
      BY <1>1, <1>2, <1>8, <2>2, <2>3, <2>4
    <2> QED
      BY <1>7, <2>3, <2>5
  <1>10. TicketsCounted' /\ LastWinner'
    <2>1. dequeueOvercommit' = Cardinality(lost')
      BY <1>1, <1>9, BulkTypes DEF BulkTicketInv, TicketsCounted, a, g
    <2> QED
      BY <1>4, <1>5, <1>7, <2>1 DEF BulkTicketInv, TicketsCounted, LastWinner, Tickets
  <1>11. \A d \in Consumers \ {c} : /\ Pending(d)' <=> Pending(d)
                                    /\ HeldTickets(d)' = HeldTickets(d)
                                    /\ Granted(d)' = Granted(d)
                                    /\ GrabRight(d)'
    BY GrabKept
  <1>12. Pending(c)' => pc'[c] = "claim" /\ HeldTickets(c)' = TicketsOf(c, 0, g)
    BY DEF Pending, HeldTickets, TicketsOf, g
  <1>13. BulkPendingTickets'
    <2>1. Tickets' = Tickets
      BY DEF Tickets
    <2> HIDE DEF HeldTickets, Pending
    <2>2. ASSUME NEW d \in Consumers, Pending(d)'
          PROVE  /\ HeldTickets(d)' \subseteq HeldTickets(d) /\ Pending(d)
                 /\ HeldTickets(d)' \cap G = {}
      <3>1. CASE d = c
        BY <2>2, <3>1, <1>3, <1>4, <1>12
      <3>2. CASE d # c
        BY <2>2, <3>2, <1>4, <1>6, <1>11
      <3> QED
        BY <3>1, <3>2
    <2>3. ASSUME NEW d \in Consumers, Pending(d)'
          PROVE  /\ HeldTickets(d)' \subseteq Tickets \ (won \cup lost')
                 /\ \A e \in Consumers \ {d} :
                       Pending(e)' => HeldTickets(e)' \cap HeldTickets(d)' = {}
      BY <2>2, <2>3, <1>7 DEF BulkTicketInv, BulkPendingTickets
    <2> QED
      BY <2>1, <2>3 DEF BulkPendingTickets
  <1>14. ASSUME NEW m \in Nat
         PROVE  /\ Cardinality({x \in lost : x < m}) \in Nat
                /\ Cardinality({x \in lost' : x < m}) \in Nat
                /\ Cardinality({x \in lost : x < m}) <= Cardinality({x \in lost' : x < m})
    <2>1. /\ {x \in lost : x < m} \subseteq {x \in lost' : x < m}
          /\ {x \in lost' : x < m} \subseteq lost'
      BY <1>7
    <2>2. IsFiniteSet({x \in lost' : x < m})
      BY <1>9, <2>1, FS_Subset
    <2> QED
      BY <2>1, <2>2, FS_Subset, FS_CardinalityType
  <1>15. OvercommitIsPast'
    <2>1. ASSUME NEW d \in Consumers, d # c, pc[d] = "recheck"
          PROVE  ticket[d].overcommit <= Cardinality({x \in lost' : x < ticket[d].count})
      <3> DEFINE k == ticket[d].count
                 before == Cardinality({x \in lost : x < k})
                 after == Cardinality({x \in lost' : x < k})
      <3>1. before \in Nat /\ after \in Nat /\ before <= after
        BY <1>14, BulkTypes
      <3>2. ticket[d].overcommit <= before
        BY <2>1 DEF BulkTicketInv, OvercommitIsPast, LostBefore
      <3> HIDE DEF before, after
      <3>3. ticket[d].overcommit <= after
        BY <3>1, <3>2, BulkTypes
      <3> QED
        BY <3>3 DEF after
    <2>2. ASSUME NEW d \in Consumers, pc[d] \in {"check", "ticket"}
          PROVE  ticket[d].overcommit <= Cardinality(lost')
      <3>1. ticket[d].overcommit <= Cardinality(lost) /\ ticket[d].overcommit \in Nat
        BY <2>2, BulkTypes DEF BulkTicketInv, OvercommitIsPast
      <3>2. Cardinality(lost) <= Cardinality(lost') /\ Cardinality(lost') \in Nat
        BY <1>1, <1>8, <1>9
      <3> QED
        BY <1>8, <3>1, <3>2
    <2> QED
      BY <2>1, <2>2 DEF OvercommitIsPast, LostBefore, Stays
  <1>16. ASSUME NEW m \in Nat, Wins(m) PROVE Wins(m)'
    <2> DEFINE before == Cardinality({x \in lost : x < m})
               after == Cardinality({x \in lost' : x < m})
    <2>1. before \in Nat /\ after \in Nat /\ before <= after
      BY <1>14
    <2>2. m + 1 - before <= tailIndex
      BY <1>16 DEF Wins, LostBefore
    <2> HIDE DEF before, after
    <2>3. m + 1 - after <= tailIndex
      BY <1>1, <2>1, <2>2
    <2> QED
      BY <2>3 DEF after, Wins, LostBefore
  <1>17. BulkWinnersBelowTail'
    <2>1. ASSUME NEW d \in Consumers, pc'[d] \in {"claim", "giveup"},
                 NEW k \in TicketsOf(d, 0, Granted(d))'
          PROVE  Wins(k)'
      <3>1. pc[d] \in {"claim", "giveup"} /\ TicketsOf(d, 0, Granted(d))' = TicketsOf(d, 0, Granted(d))
        <4>1. CASE d = c
          BY <2>1, <4>1 DEF TicketsOf
        <4>2. CASE d # c
          BY <2>1, <4>2, <1>11 DEF TicketsOf, Stays
        <4> QED
          BY <4>1, <4>2
      <3>2. TicketsOf(d, 0, Granted(d)) \subseteq Nat
        BY BulkTypes DEF TicketsOf
      <3> QED
        BY <2>1, <3>1, <3>2, <1>16 DEF BulkTicketInv, BulkWinnersBelowTail
    <2>2. \A k \in won' : Wins(k)'
      BY <1>8, <1>16 DEF BulkTicketInv, BulkWinnersBelowTail
    <2> QED
      BY <2>1, <2>2 DEF BulkWinnersBelowTail
  <1> QED
    BY <1>10, <1>11, <1>13, <1>15, <1>17 DEF BulkTicketInv

\* A claim turns winning tickets into tickets won.
LEMMA BulkClaims ==
    ASSUME BulkTypeOK, BulkTicketInv, NEW c \in Consumers,
           \A d \in Consumers \ {c} : Stays(d),
           UNCHANGED <<tailIndex, dequeueOptimisticCount, dequeueOvercommit, lost>>,
           pc[c] = "claim", pc'[c] = "slot", GrabRight(c)', Granted(c) > 0,
           headIndex' = headIndex + Granted(c),
           won' = won \cup TicketsOf(c, 0, Granted(c))
    PROVE  BulkTicketInv'
  <1> DEFINE n == ticket[c].count
             g == Granted(c)
             G == TicketsOf(c, 0, g)
  <1>1. n \in Nat /\ g \in Nat /\ g > 0 /\ tailIndex \in Nat /\ G = n + 0 .. n + g - 1
        /\ headIndex \in Nat
    BY BulkTypes DEF TicketsOf
  <1>2. IsFiniteSet(G) /\ Cardinality(G) = g /\ G \subseteq Nat
    <2> HIDE DEF n, g, G
    <2>1. 0 \in Nat /\ 0 <= g /\ g - 0 = g
      BY <1>1
    <2> QED
      BY <1>1, <2>1, Runs, Zenon
  <1>3. Pending(c) /\ ~Pending(c)' /\ HeldTickets(c) = G
    BY DEF Pending, HeldTickets
  <1>4. G \subseteq Tickets \ (won \cup lost)
    BY <1>3 DEF BulkTicketInv, BulkPendingTickets
  <1>5. \A d \in Consumers \ {c} : Pending(d) => HeldTickets(d) \cap G = {}
    BY <1>3 DEF BulkTicketInv, BulkPendingTickets
  <1>6. \A k \in G : Wins(k)
    BY DEF BulkTicketInv, BulkWinnersBelowTail
  <1>7. won' = won \cup G /\ headIndex' = headIndex + g
    OBVIOUS
  <1> HIDE DEF g, G, n
  <1>8. IsFiniteSet(won) /\ Cardinality(won) \in Nat /\ won \subseteq Nat
    BY BulkTypes, TicketSetsFinite DEF BulkTicketInv
  <1>9. Cardinality(won') = Cardinality(won) + g
    <2>1. Cardinality(won \cap G) = 0
      <3>1. won \cap G = {}
        BY <1>4
      <3> QED
        BY <3>1, FS_EmptySet
    <2>2. Cardinality(won \cup G) = Cardinality(won) + Cardinality(G) - Cardinality(won \cap G)
      BY <1>2, <1>8, FS_Union
    <2>3. \A x, y, z \in Int : z = 0 => x + y - z = x + y
      OBVIOUS
    <2>4. Cardinality(won \cup G) = Cardinality(won) + g
      BY <1>1, <1>2, <1>8, <2>1, <2>2, <2>3
    <2> QED
      BY <1>7, <2>4
  <1>10. TicketsCounted'
    BY <1>4, <1>7, <1>9 DEF BulkTicketInv, TicketsCounted, Tickets
  <1>11. \A d \in Consumers \ {c} : /\ Pending(d)' <=> Pending(d)
                                    /\ HeldTickets(d)' = HeldTickets(d)
                                    /\ Granted(d)' = Granted(d)
                                    /\ GrabRight(d)'
    BY GrabKept
  <1>12. BulkPendingTickets'
    <2>1. Tickets' = Tickets
      BY DEF Tickets
    <2> HIDE DEF HeldTickets, Pending
    <2> QED
      BY <1>3, <1>5, <1>7, <1>11, <2>1 DEF BulkTicketInv, BulkPendingTickets
  <1>13. OvercommitIsPast'
    BY DEF BulkTicketInv, OvercommitIsPast, LostBefore, Stays
  <1>14. \A k : Wins(k)' <=> Wins(k)
    BY DEF Wins, LostBefore
  <1>15. BulkWinnersBelowTail'
    BY <1>6, <1>7, <1>11, <1>14
       DEF BulkTicketInv, BulkWinnersBelowTail, Stays, TicketsOf
  <1>16. LastWinner'
    <2> DEFINE z == n + g - 1
    <2>1. z \in G /\ z \in Nat /\ \A k \in G : k <= z
      BY <1>1
    <2>2. CASE won = {}
      BY <1>7, <2>1, <2>2 DEF LastWinner
    <2>3. CASE won # {}
      <3>1. PICK M \in won : \A m \in won : m <= M
        BY <2>3 DEF BulkTicketInv, LastWinner
      <3>2. M \in Nat
        BY <1>8, <3>1
      <3> HIDE DEF z
      <3>3. CASE z <= M
        <4>1. \A m \in won' : m <= M
          BY <1>2, <1>7, <2>1, <3>1, <3>2, <3>3
        <4> QED
          BY <1>7, <3>1, <4>1 DEF LastWinner
      <3>4. CASE M < z
        <4>1. \A m \in won' : m <= z
          BY <1>7, <1>8, <2>1, <3>1, <3>2, <3>4
        <4> QED
          BY <1>7, <2>1, <4>1 DEF LastWinner
      <3> QED
        BY <2>1, <3>2, <3>3, <3>4
    <2> QED
      BY <2>2, <2>3
  <1> QED
    BY <1>10, <1>11, <1>12, <1>13, <1>15, <1>16 DEF BulkTicketInv

\* A bulk dequeue has asked for something.
LEMMA GrabFields ==
    ASSUME BulkTypeOK, NEW c \in Consumers
    PROVE  /\ DOMAIN grab[c] = {"max", "desired", "actual", "first", "out"}
           /\ NoGrab.max = 0 /\ NoGrab.desired = 0
           /\ grab[c].max > 0 => grab[c] # NoGrab
  BY DEF BulkTypeOK, GrabType, NoGrab

LEMMA CallsApart ==
    ASSUME BulkTypeOK, NEW c \in Consumers, BulkConsumer(c)
    PROVE  /\ \A d \in Consumers \ {c} : Stays(d) /\ found'[d] = found[d]
           /\ UNCHANGED <<tailIndex, indexTail, key, ppc, newBlock, tailBlock, pool, other, batch>>
  <1> USE DEF counters, blockIndex, contents, places, producer, Goto, Keep, Return
  <1>1. /\ pc \in [Consumers -> ConsumerSteps] /\ ticket \in [Consumers -> TicketType]
        /\ found \in [Consumers -> FoundType] /\ grab \in [Consumers -> GrabType]
    BY DEF BulkTypeOK, TypeOK
  <1> DEFINE Apart == /\ \A d \in Consumers \ {c} :
                            pc'[d] = pc[d] /\ ticket'[d] = ticket[d] /\ found'[d] = found[d]
                      /\ UNCHANGED <<tailIndex, indexTail, key, ppc, newBlock, tailBlock, pool, other>>
             Others == \A d \in Consumers \ {c} : grab'[d] = grab[d]
  <1>2. ASSUME Consumer(c) PROVE Apart
    <2>1. CASE LoadTail(c) \/ LoadOvercommit(c) \/ TakeTicket(c) \/ Recheck(c) \/ CheckAvailable(c)
      BY <1>1, <2>1 DEF LoadTail, LoadOvercommit, TakeTicket, Recheck, CheckAvailable
    <2>2. CASE GiveUp(c) \/ Claim(c) \/ LoadIndexTail(c) \/ LookUpSlot(c) \/ LoadBlock(c)
      BY <1>1, <2>2 DEF GiveUp, Claim, LoadIndexTail, LookUpSlot, LoadBlock
    <2>3. CASE MoveElement(c) \/ SetEmpty(c) \/ UnlinkBlock(c) \/ FreeBlock(c)
      BY <1>1, <2>3 DEF MoveElement, SetEmpty, UnlinkBlock, FreeBlock
    <2> QED
      BY <1>2, <2>1, <2>2, <2>3 DEF Consumer
  <1>3. ASSUME SharedDequeueStep(c) PROVE Apart
    BY <1>2, <1>3 DEF SharedDequeueStep, Consumer
  <1>4. ASSUME NEW n \in BulkSizes, BulkLoadTail(c, n) PROVE Apart /\ Others /\ batch' = batch
    <2>1. Apart
      BY <1>2, <1>4 DEF BulkLoadTail, Consumer
    <2> QED
      BY <1>1, <1>4, <2>1 DEF BulkLoadTail
  <1>5. CASE BulkCheckAvailable(c)
    <2>1. Apart /\ batch' = batch
      BY <1>1, <1>5 DEF BulkCheckAvailable, BulkReturn
    <2>2. Others
      BY <1>1, <1>5 DEF BulkCheckAvailable, BulkReturn
    <2> QED
      BY <2>1, <2>2 DEF Stays
  <1>6. CASE TakeTickets(c) \/ BulkClaim(c) \/ MoveElements(c)
    BY <1>1, <1>6 DEF TakeTickets, BulkClaim, MoveElements, Stays
  <1>7. CASE BulkRecheck(c)
    BY <1>1, <1>7 DEF BulkRecheck, Stays
  <1>8. CASE BulkGiveUp(c)
    BY <1>1, <1>8 DEF BulkGiveUp, BulkReturn, Stays
  <1>9. CASE SetManyEmpty(c) \/ BulkFreeBlock(c)
    BY <1>1, <1>9 DEF SetManyEmpty, BulkFreeBlock, Onward, BulkReturn, Stays
  <1> QED
    BY <1>2, <1>3, <1>4, <1>5, <1>6, <1>7, <1>8, <1>9 DEF BulkConsumer, Stays

LEMMA BulkBegins ==
    ASSUME BulkTypeOK, BulkTicketInv, NEW c \in Consumers,
           \/ \E n \in BulkSizes : BulkLoadTail(c, n)
           \/ BulkCheckAvailable(c)
    PROVE  BulkTicketInv'
  <1> USE DEF counters, history
  <1>1. \A d \in Consumers \ {c} : Stays(d)
    <2>1. BulkConsumer(c)
      BY DEF BulkConsumer
    <2> QED
      BY <2>1, CallsApart
  <1>2. /\ pc \in [Consumers -> ConsumerSteps] /\ grab \in [Consumers -> GrabType]
        /\ GrabRight(c)
    BY DEF BulkTypeOK, TypeOK, BulkTicketInv
  <1>3. ASSUME NEW n \in BulkSizes, BulkLoadTail(c, n) PROVE BulkTicketInv'
    <2>1. /\ pc'[c] = "over" /\ grab'[c] = [NoGrab EXCEPT !.max = n] /\ n > 0
          /\ UNCHANGED <<counters, won, lost>>
      BY <1>2, <1>3, BulkAssumption DEF BulkLoadTail, LoadTail, Goto
    <2>2. GrabRight(c)'
      BY <2>1 DEF GrabRight, NoGrab
    <2> QED
      BY <1>1, <2>1, <2>2, BulkTypes, BulkQuiet DEF Deciding
  <1>4. CASE BulkCheckAvailable(c)
    <2>1. pc[c] = "check" /\ grab[c].max > 0 /\ UNCHANGED <<counters, won, lost>>
      BY <1>4 DEF BulkCheckAvailable, Goto
    <2>2. CASE Goto(c, "check", "idle") /\ BulkReturn(c)
      <3>1. pc'[c] = "idle" /\ grab'[c] = NoGrab
        BY <1>2, <2>2 DEF Goto, BulkReturn
      <3>2. GrabRight(c)'
        BY <3>1 DEF GrabRight
      <3> QED
        BY <1>1, <2>1, <3>1, <3>2, BulkTypes, BulkQuiet DEF Deciding
    <2>3. CASE ~(Goto(c, "check", "idle") /\ BulkReturn(c))
      <3>1. PICK n \in Recent(dequeueOptimisticCount) :
               LET left == ticket[c].tail - (n - ticket[c].overcommit) IN
               /\ left > 0
               /\ Goto(c, "check", "ticket") /\ Keep
               /\ grab' = [grab EXCEPT ![c].desired = Min2(left, grab[c].max)]
        BY <1>4, <2>3 DEF BulkCheckAvailable
      <3>2. n \in Nat
        BY BulkTypes, LoadsAreNatural
      <3> DEFINE left == ticket[c].tail - (n - ticket[c].overcommit)
                 m == Min2(left, grab[c].max)
      <3>3. left \in Int /\ left > 0
        BY <3>1, <3>2, BulkTypes
      <3>4. grab' = [grab EXCEPT ![c].desired = m]
        BY <3>1
      <3>5. m \in Nat /\ m > 0
        <4> HIDE DEF left
        <4> QED
          BY <2>1, <3>3, BulkTypes DEF Min2
      <3> HIDE DEF left, m
      <3>6. /\ pc'[c] = "ticket" /\ ticket'[c] = ticket[c]
            /\ grab'[c] = [grab[c] EXCEPT !.desired = m]
        BY <1>2, <3>1, <3>4 DEF Goto, Keep
      <3>7. GrabRight(c)'
        <4>1. grab[c] # NoGrab /\ grab[c].out = <<>>
          BY <1>2, <2>1, GrabFields DEF GrabRight
        <4>2. grab'[c].max = grab[c].max /\ grab'[c].desired = m /\ grab'[c].out = <<>>
          BY <3>6, <4>1, GrabFields
        <4> QED
          BY <2>1, <3>5, <3>6, <4>2 DEF GrabRight
      <3>8. ticket'[c].overcommit <= Cardinality(lost)
        BY <2>1, <3>6 DEF BulkTicketInv, OvercommitIsPast
      <3> QED
        BY <1>1, <2>1, <3>6, <3>7, <3>8, BulkPrepares
    <2> QED
      BY <2>2, <2>3
  <1> QED
    BY <1>3, <1>4

LEMMA BulkDecisions ==
    ASSUME BulkTypeOK, BulkTicketInv, NEW c \in Consumers,
           TakeTickets(c) \/ BulkRecheck(c) \/ BulkGiveUp(c) \/ BulkClaim(c)
    PROVE  BulkTicketInv'
  <1> USE DEF counters, history
  <1>1. \A d \in Consumers \ {c} : Stays(d)
    <2>1. BulkConsumer(c)
      BY DEF BulkConsumer
    <2> QED
      BY <2>1, CallsApart
  <1>2. /\ pc \in [Consumers -> ConsumerSteps] /\ grab \in [Consumers -> GrabType]
        /\ ticket \in [Consumers -> TicketType] /\ found \in [Consumers -> FoundType]
        /\ GrabRight(c)
    BY DEF BulkTypeOK, TypeOK, BulkTicketInv
  <1>3. grab[c].max > 0 /\ grab[c] # NoGrab
    <2>1. grab[c].max > 0
      BY DEF TakeTickets, BulkRecheck, BulkGiveUp, BulkClaim
    <2> QED
      BY <2>1, GrabFields
  <1>4. Asked(c) = grab[c].desired /\ Granted(c) = grab[c].actual
    BY <1>3 DEF Asked, Granted
  <1>5. CASE TakeTickets(c)
    <2>1. /\ pc[c] = "ticket" /\ pc'[c] = "recheck" /\ grab'[c] = grab[c]
          /\ ticket'[c].count = dequeueOptimisticCount
          /\ ticket'[c].overcommit = ticket[c].overcommit
          /\ dequeueOptimisticCount' = dequeueOptimisticCount + Asked(c)
          /\ UNCHANGED <<tailIndex, headIndex, dequeueOvercommit, won, lost>>
      BY <1>2, <1>4, <1>5 DEF TakeTickets, Goto, TicketType
    <2> QED
      BY <1>1, <2>1, BulkTakes
  <1>6. CASE BulkRecheck(c)
    <2>1. PICK t \in Recent(tailIndex) :
             LET actual == Winning(c, t - (ticket[c].count - ticket[c].overcommit)) IN
             /\ Goto(c, "recheck", IF actual < grab[c].desired THEN "giveup" ELSE "claim")
             /\ grab' = [grab EXCEPT ![c].actual = actual]
      BY <1>6 DEF BulkRecheck, RecentSince
    <2>2. t \in Nat /\ t <= tailIndex
      BY BulkTypes, LoadsAreNatural
    <2> DEFINE left == t - (ticket[c].count - ticket[c].overcommit)
               m == Winning(c, left)
    <2>3. left \in Int /\ left = t - (ticket[c].count - ticket[c].overcommit)
      BY <2>2, BulkTypes
    <2>4. /\ pc[c] = "recheck" /\ grab' = [grab EXCEPT ![c].actual = m]
          /\ pc'[c] = IF m < grab[c].desired THEN "giveup" ELSE "claim"
          /\ ticket'[c] = ticket[c] /\ UNCHANGED <<counters, won, lost>>
      BY <1>2, <1>6, <2>1 DEF Goto, BulkRecheck, Keep
    <2> HIDE DEF left
    <2>5. m \in 0 .. grab[c].desired /\ (m > 0 => m <= left)
      BY <2>3, BulkTypes DEF Winning, Min2
    <2> HIDE DEF m
    <2>6. grab[c].desired > 0 /\ grab[c].out = <<>>
      BY <1>2, <1>3, <2>4 DEF GrabRight
    <2>7. /\ grab'[c].max = grab[c].max /\ grab'[c].desired = grab[c].desired
          /\ grab'[c].actual = m /\ grab'[c].out = <<>>
      <3>1. grab'[c] = [grab[c] EXCEPT !.actual = m]
        BY <1>2, <2>4
      <3> QED
        BY <2>6, <3>1, GrabFields
    <2>8. grab'[c] # NoGrab
      <3>1. grab'[c].max # 0
        BY <1>3, <2>7
      <3> QED
        BY <3>1, GrabFields
    <2>9. GrabRight(c)'
      <3>1. m >= grab[c].desired => m = grab[c].desired
        BY <2>5, BulkTypes
      <3> QED
        BY <1>3, <2>4, <2>5, <2>6, <2>7, <3>1, BulkTypes DEF GrabRight
    <2>10. Asked(c)' = Asked(c) /\ Granted(c)' = m
      BY <1>4, <2>7, <2>8 DEF Asked, Granted
    <2>11. m > 0 => ticket[c].count + m - ticket[c].overcommit <= tailIndex
      BY <2>2, <2>3, <2>5, BulkTypes
    <2>12. /\ pc'[c] \in {"claim", "giveup"} /\ m \in 0 .. Asked(c)
           /\ pc'[c] = "claim" => m = Asked(c)
      BY <1>4, <2>4, <2>5, BulkTypes
    <2> QED
      BY <1>1, <2>4, <2>9, <2>10, <2>11, <2>12, BulkDecides
  <1>7. CASE BulkGiveUp(c)
    <2>1. /\ pc[c] = "giveup"
          /\ UNCHANGED <<tailIndex, headIndex, dequeueOptimisticCount, won>>
          /\ dequeueOvercommit' = dequeueOvercommit + Asked(c) - Granted(c)
          /\ lost' = lost \cup TicketsOf(c, Granted(c), Asked(c))
      BY <1>4, <1>7 DEF BulkGiveUp, Goto
    <2>2. grab[c].actual < grab[c].desired
      BY <1>2, <1>3, <2>1 DEF GrabRight
    <2>3. Granted(c) <= Asked(c)
      BY <1>4, <2>2, BulkTypes
    <2>4. CASE grab[c].actual > 0
      <3>1. pc'[c] = "claim" /\ ticket'[c] = ticket[c] /\ grab'[c] = grab[c]
        BY <1>2, <1>7, <2>4 DEF BulkGiveUp, Goto, Keep
      <3>2. Granted(c)' = Granted(c)
        BY <1>3, <3>1 DEF Granted
      <3>3. GrabRight(c)'
        BY <1>2, <1>3, <2>1, <2>2, <2>4, <3>1, BulkTypes DEF GrabRight
      <3> QED
        BY <1>1, <2>1, <2>3, <3>1, <3>2, <3>3, BulkGivesUp
    <2>5. CASE ~(grab[c].actual > 0)
      <3>1. pc'[c] = "idle" /\ grab'[c] = NoGrab
        BY <1>2, <1>7, <2>5 DEF BulkGiveUp, Goto, BulkReturn
      <3>2. GrabRight(c)'
        BY <3>1 DEF GrabRight
      <3> QED
        BY <1>1, <2>1, <2>3, <3>1, <3>2, BulkGivesUp
    <2> QED
      BY <2>4, <2>5
  <1>8. CASE BulkClaim(c)
    <2>1. /\ pc[c] = "claim" /\ pc'[c] = "slot" /\ headIndex' = headIndex + Granted(c)
          /\ won' = won \cup TicketsOf(c, 0, Granted(c))
          /\ grab'[c] = [grab[c] EXCEPT !.first = headIndex]
          /\ UNCHANGED <<tailIndex, dequeueOptimisticCount, dequeueOvercommit, lost>>
      BY <1>2, <1>4, <1>8 DEF BulkClaim, Goto
    <2>2. grab[c].actual > 0 /\ grab[c].desired > 0
      BY <1>2, <1>3, <2>1 DEF GrabRight
    <2>3. grab'[c].max = grab[c].max /\ grab'[c].desired = grab[c].desired
          /\ grab'[c].actual = grab[c].actual
      BY <2>1, GrabFields
    <2>4. GrabRight(c)'
      BY <1>3, <2>1, <2>2, <2>3 DEF GrabRight
    <2> QED
      BY <1>1, <1>4, <2>1, <2>2, <2>4, BulkClaims
  <1> QED
    BY <1>5, <1>6, <1>7, <1>8

\* The single steps before the claim, which either kind of call may take.
LEMMA BulkEarlySteps ==
    ASSUME BulkTypeOK, BulkTicketInv, NEW c \in Consumers, batch' = batch,
           grab[c] = NoGrab, UNCHANGED grab,
           \/ LoadTail(c) \/ CheckAvailable(c) \/ TakeTicket(c) \/ Recheck(c)
           \/ GiveUp(c) \/ Claim(c)
    PROVE  BulkTicketInv'
  <1> USE DEF counters, history
  <1>1. \A d \in Consumers \ {c} : Stays(d)
    <2>1. BulkConsumer(c)
      BY DEF BulkConsumer, Consumer
    <2> QED
      BY <2>1, CallsApart
  <1>2. /\ pc \in [Consumers -> ConsumerSteps] /\ ticket \in [Consumers -> TicketType]
        /\ found \in [Consumers -> FoundType]
    BY DEF BulkTypeOK, TypeOK
  <1>3. Asked(c) = 1 /\ (Granted(c) = IF pc[c] = "claim" THEN 1 ELSE 0)
        /\ Asked(c)' = 1 /\ (Granted(c)' = IF pc'[c] = "claim" THEN 1 ELSE 0)
        /\ GrabRight(c)'
    BY DEF Asked, Granted, GrabRight
  <1>4. CASE LoadTail(c)
    <2>1. pc'[c] = "over" /\ UNCHANGED <<counters, won, lost>>
      BY <1>2, <1>4 DEF LoadTail, Goto
    <2> QED
      BY <1>1, <1>3, <2>1, BulkTypes, BulkQuiet DEF Deciding
  <1>5. CASE CheckAvailable(c)
    <2>1. pc[c] = "check" /\ UNCHANGED <<counters, won, lost>>
      BY <1>5 DEF CheckAvailable, Goto
    <2>2. CASE Goto(c, "check", "idle")
      <3>1. pc'[c] = "idle"
        BY <1>2, <2>2 DEF Goto
      <3> QED
        BY <1>1, <1>3, <2>1, <3>1, BulkTypes, BulkQuiet DEF Deciding
    <2>3. CASE Goto(c, "check", "ticket") /\ Keep
      <3>1. pc'[c] = "ticket" /\ ticket'[c] = ticket[c]
        BY <1>2, <2>3 DEF Goto, Keep
      <3>2. ticket'[c].overcommit <= Cardinality(lost)
        BY <2>1, <3>1 DEF BulkTicketInv, OvercommitIsPast
      <3> QED
        BY <1>1, <1>3, <2>1, <3>1, <3>2, BulkPrepares
    <2> QED
      BY <1>5, <2>2, <2>3 DEF CheckAvailable
  <1>6. CASE TakeTicket(c)
    <2>1. /\ pc[c] = "ticket" /\ pc'[c] = "recheck" /\ grab'[c] = grab[c]
          /\ ticket'[c].count = dequeueOptimisticCount
          /\ ticket'[c].overcommit = ticket[c].overcommit
          /\ dequeueOptimisticCount' = dequeueOptimisticCount + Asked(c)
          /\ UNCHANGED <<tailIndex, headIndex, dequeueOvercommit, won, lost>>
      BY <1>2, <1>3, <1>6 DEF TakeTicket, Goto, TicketType
    <2> QED
      BY <1>1, <2>1, BulkTakes
  <1>7. CASE Recheck(c)
    <2> DEFINE n == ticket[c].count
               o == ticket[c].overcommit
    <2>1. PICK t \in Recent(tailIndex) :
             Goto(c, "recheck", IF Below(n, o, t) THEN "claim" ELSE "giveup")
      BY <1>7 DEF Recheck, RecentSince
    <2>2. t \in Nat /\ t <= tailIndex
      BY BulkTypes, LoadsAreNatural
    <2>3. /\ pc[c] = "recheck" /\ pc'[c] = IF Below(n, o, t) THEN "claim" ELSE "giveup"
          /\ ticket'[c] = ticket[c] /\ UNCHANGED <<counters, won, lost>>
      BY <1>2, <1>7, <2>1 DEF Goto, Recheck, Keep
    <2>4. Granted(c)' > 0 => n - o < t
      BY <1>3, <2>3 DEF Below
    <2>5. n \in Nat /\ o \in Nat /\ tailIndex \in Nat
      BY BulkTypes
    <2> HIDE DEF n, o
    <2>6. Granted(c)' > 0 => n + Granted(c)' - o <= tailIndex
      BY <1>3, <2>2, <2>4, <2>5
    <2>7. /\ pc'[c] \in {"claim", "giveup"} /\ Granted(c)' \in 0 .. Asked(c)
          /\ pc'[c] = "claim" => Granted(c)' = Asked(c)
      BY <1>3, <2>3
    <2> QED
      BY <1>1, <1>3, <2>3, <2>6, <2>7, BulkDecides DEF n, o
  <1>8. CASE GiveUp(c)
    <2>1. /\ pc[c] = "giveup" /\ pc'[c] = "idle"
          /\ UNCHANGED <<tailIndex, headIndex, dequeueOptimisticCount, won>>
          /\ dequeueOvercommit' = dequeueOvercommit + 1
          /\ lost' = lost \cup {ticket[c].count}
      BY <1>2, <1>8 DEF GiveUp, Goto
    <2>2. TicketsOf(c, Granted(c), Asked(c)) = {ticket[c].count}
      BY <1>3, <2>1, BulkTypes DEF TicketsOf
    <2>3. dequeueOvercommit + 1 = dequeueOvercommit + Asked(c) - Granted(c)
          /\ Granted(c) <= Asked(c)
      BY <1>3, <2>1, BulkTypes
    <2> QED
      BY <1>1, <1>3, <2>1, <2>2, <2>3, BulkGivesUp
  <1>9. CASE Claim(c)
    <2>1. /\ pc[c] = "claim" /\ pc'[c] = "slot" /\ headIndex' = headIndex + 1
          /\ won' = won \cup {ticket[c].count}
          /\ UNCHANGED <<tailIndex, dequeueOptimisticCount, dequeueOvercommit, lost>>
      BY <1>2, <1>9 DEF Claim, Goto
    <2>2. TicketsOf(c, 0, Granted(c)) = {ticket[c].count}
      BY <1>3, <2>1, BulkTypes DEF TicketsOf
    <2>3. headIndex + 1 = headIndex + Granted(c) /\ Granted(c) > 0
      BY <1>3, <2>1
    <2> QED
      BY <1>1, <1>3, <2>1, <2>2, <2>3, BulkClaims
  <1> QED
    BY <1>4, <1>5, <1>6, <1>7, <1>8, <1>9

LEMMA OvercommitLoads ==
    ASSUME BulkTypeOK, BulkTicketInv, NEW c \in Consumers, UNCHANGED <<batch, grab>>,
           LoadOvercommit(c)
    PROVE  BulkTicketInv'
  <1> USE DEF counters, history
  <1>1. \A d \in Consumers \ {c} : Stays(d)
    <2>1. BulkConsumer(c)
      BY DEF BulkConsumer, Consumer, SharedDequeueStep
    <2> QED
      BY <2>1, CallsApart
  <1>2. /\ pc \in [Consumers -> ConsumerSteps] /\ ticket \in [Consumers -> TicketType]
        /\ GrabRight(c)
    BY DEF BulkTypeOK, TypeOK, BulkTicketInv
  <1>3. PICK o \in Recent(dequeueOvercommit) :
           ticket' = [ticket EXCEPT ![c].overcommit = o]
    BY DEF LoadOvercommit
  <1>4. o \in Nat /\ o <= Cardinality(lost)
    BY LoadsAreNatural, BulkTypes DEF BulkTicketInv, TicketsCounted
  <1>5. /\ pc[c] = "over" /\ pc'[c] = "check" /\ ticket'[c].overcommit = o
        /\ UNCHANGED <<counters, won, lost>>
    BY <1>2, <1>3 DEF LoadOvercommit, Goto, TicketType
  <1>6. GrabRight(c)'
    BY <1>2, <1>5 DEF GrabRight
  <1> QED
    BY <1>1, <1>4, <1>5, <1>6, BulkPrepares

\* The steps after the claim.
LEMMA LaterTickets ==
    ASSUME BulkTypeOK, BulkTicketInv, NEW c \in Consumers, BulkConsumer(c),
           UNCHANGED <<counters, won, lost>>, pc'[c] \notin Deciding,
           \/ grab'[c] = NoGrab
           \/ /\ grab[c] # NoGrab
              /\ grab'[c].max = grab[c].max /\ grab'[c].desired = grab[c].desired
              /\ grab'[c].actual = grab[c].actual /\ HasClaimed(c) /\ HasClaimed(c)'
    PROVE  BulkTicketInv'
  <1>1. GrabRight(c)
    BY DEF BulkTicketInv
  <1>2. GrabRight(c)'
    <2>1. CASE grab'[c] = NoGrab
      BY <2>1 DEF GrabRight
    <2>2. CASE grab'[c] # NoGrab
      BY <1>1, <2>2 DEF GrabRight, HasClaimed
    <2> QED
      BY <2>1, <2>2
  <1> QED
    BY <1>2, CallsApart, BulkTypes, BulkQuiet DEF counters

LEMMA StepBulkTickets ==
    ASSUME BulkTypeOK, BulkTicketInv, [BulkNext]_bulkVars
    PROVE  BulkTicketInv'
  <1> USE DEF counters, history
  <1>1. ASSUME UNCHANGED <<pc, ticket, grab, headIndex, dequeueOptimisticCount,
                           dequeueOvercommit, won, lost>>,
               tailIndex' \in Nat, tailIndex' >= tailIndex
        PROVE  BulkTicketInv'
    BY <1>1, BulkQuiet DEF Stays
  <1>2. ASSUME BulkProducer PROVE BulkTicketInv'
    <2> USE DEF consumer
    <2>1. CASE batch = NoBatch /\ Producer /\ UNCHANGED grab
      <3>1. /\ UNCHANGED <<headIndex, dequeueOptimisticCount, dequeueOvercommit,
                           won, lost, pc, ticket>>
            /\ tailIndex' = tailIndex \/ tailIndex' = tailIndex + 1
        BY <2>1 DEF Producer, EnqueueStart, CheckRoom, InsertKey, InsertRefused,
                    AdvanceIndex, Requisition, RequisitionFails, RewindIndex,
                    ClearEntry, ResetEmpty, PublishBlock, WriteElement, Commit
      <3> QED
        BY <1>1, <2>1, <3>1, BulkTypes
    <2>2. CASE SharedEnqueueStep /\ UNCHANGED grab
      <3>1. UNCHANGED <<counters, won, lost, pc, ticket>>
        BY <2>2 DEF SharedEnqueueStep, AdvanceIndex, Requisition, RequisitionFails,
                    RewindIndex, ResetEmpty
      <3> QED
        BY <1>1, <2>2, <3>1, BulkTypes
    <2>3. CASE \/ \E n \in BulkSizes : BulkStart(n)
               \/ BulkCheckRoom \/ BulkInsertKey \/ BulkInsertRefused \/ BulkClearEntry
               \/ BulkPublish
      <3>1. UNCHANGED <<counters, won, lost, pc, ticket, grab>>
        BY <2>3 DEF BulkStart, BulkCheckRoom, BulkInsertKey, BulkInsertRefused, BulkClearEntry,
                    BulkPublish
      <3> QED
        BY <1>1, <3>1, BulkTypes
    <2>4. CASE UndoEntry \/ UndoTail \/ UndoBlocks \/ BulkWrite
      <3>1. UNCHANGED <<counters, won, lost, pc, ticket, grab>>
        BY <2>4 DEF UndoEntry, UndoTail, UndoBlocks, BulkWrite
      <3> QED
        BY <1>1, <3>1, BulkTypes
    <2>5. CASE BulkCommit
      <3>1. batch.count \in Nat
        <4>1. batch \in BatchType /\ BulkSizes \cup {0} \subseteq Nat
          BY BulkAssumption DEF BulkTypeOK
        <4> QED
          BY <4>1 DEF BatchType
      <3>2. /\ UNCHANGED <<headIndex, dequeueOptimisticCount, dequeueOvercommit,
                           won, lost, pc, ticket, grab>>
            /\ tailIndex' = tailIndex + batch.count
        BY <2>5 DEF BulkCommit
      <3>3. tailIndex' \in Nat /\ tailIndex' >= tailIndex
        BY <3>1, <3>2, BulkTypes
      <3> QED
        BY <1>1, <3>2, <3>3
    <2> QED
      BY <1>2, <2>1, <2>2, <2>3, <2>4, <2>5 DEF BulkProducer
  <1>3. ASSUME NEW c \in Consumers, BulkConsumer(c) PROVE BulkTicketInv'
    <2>0. pc \in [Consumers -> ConsumerSteps] /\ grab \in [Consumers -> GrabType]
      BY DEF BulkTypeOK, TypeOK
    <2>1. CASE grab[c] = NoGrab /\ Consumer(c) /\ UNCHANGED <<batch, grab>>
      <3>1. CASE LoadIndexTail(c) \/ LookUpSlot(c) \/ LoadBlock(c) \/ MoveElement(c)
        BY <1>3, <2>0, <2>1, <3>1, LaterTickets
           DEF LoadIndexTail, LookUpSlot, LoadBlock, MoveElement, Goto, Deciding
      <3>2. CASE SetEmpty(c) \/ UnlinkBlock(c) \/ FreeBlock(c)
        BY <1>3, <2>0, <2>1, <3>2, LaterTickets
           DEF SetEmpty, UnlinkBlock, FreeBlock, Goto, Deciding
      <3> QED
        BY <2>1, <3>1, <3>2, BulkEarlySteps, OvercommitLoads DEF Consumer
    <2>2. CASE grab[c] # NoGrab /\ SharedDequeueStep(c) /\ UNCHANGED <<batch, grab>>
      <3>1. CASE LoadIndexTail(c) \/ LookUpSlot(c) \/ LoadBlock(c) \/ UnlinkBlock(c)
        BY <1>3, <2>0, <2>2, <3>1, LaterTickets
           DEF LoadIndexTail, LookUpSlot, LoadBlock, UnlinkBlock, Goto, Deciding, HasClaimed
      <3> QED
        BY <2>2, <3>1, OvercommitLoads DEF SharedDequeueStep
    <2>3. CASE MoveElements(c)
      <3>1. PICK x : grab' = [grab EXCEPT ![c].out = x]
        BY <2>3 DEF MoveElements
      <3>2. grab'[c] = [grab[c] EXCEPT !.out = x]
        BY <2>0, <3>1
      <3>3. /\ grab'[c].max = grab[c].max /\ grab'[c].desired = grab[c].desired
            /\ grab'[c].actual = grab[c].actual
        BY <3>2, GrabFields
      <3>4. grab[c].max > 0 /\ pc[c] = "move" /\ pc'[c] = "empty"
            /\ UNCHANGED <<counters, won, lost>>
        BY <2>0, <2>3 DEF MoveElements, Goto
      <3>5. grab[c] # NoGrab
        BY <3>4, GrabFields
      <3> QED
        BY <1>3, <3>3, <3>4, <3>5, LaterTickets DEF HasClaimed, Deciding
    <2>4. CASE SetManyEmpty(c) \/ BulkFreeBlock(c)
      <3>1. grab[c].max > 0 /\ UNCHANGED <<counters, won, lost>>
        BY <2>4 DEF SetManyEmpty, BulkFreeBlock
      <3>2. grab[c] # NoGrab
        BY <3>1, GrabFields
      <3>3. /\ pc[c] \in {"empty", "free"} /\ pc'[c] \in {"idle", "unlink", "value"}
            /\ grab'[c] = NoGrab \/ (grab'[c] = grab[c] /\ pc'[c] # "idle")
        BY <2>0, <2>4 DEF SetManyEmpty, BulkFreeBlock, Onward, BulkReturn, Goto
      <3> QED
        BY <1>3, <3>1, <3>2, <3>3, LaterTickets DEF HasClaimed, Deciding
    <2> QED
      BY <1>3, <2>1, <2>2, <2>3, <2>4, BulkBegins, BulkDecisions DEF BulkConsumer
  <1>4. CASE PoolStep
    <2>1. UNCHANGED <<counters, won, lost, pc, ticket, grab>>
      BY <1>4 DEF PoolStep, Settle, OtherTakes, OtherReturns, Destroy, consumer
    <2> QED
      BY <1>1, <2>1, BulkTypes
  <1>5. CASE UNCHANGED bulkVars
    BY <1>1, <1>5, BulkTypes DEF bulkVars, vars, consumer
  <1> QED
    BY <1>2, <1>3, <1>4, <1>5 DEF BulkNext

LEMMA BulkClaimsBounded ==
    ASSUME BulkTypeOK, BulkTicketInv PROVE HeadNeverPassesTail
  <1>1. /\ won \in SUBSET Nat /\ lost \in SUBSET Nat
        /\ IsFiniteSet(lost) /\ won \cap lost = {} /\ tailIndex \in Nat
        /\ headIndex = Cardinality(won)
    BY BulkTypes, TicketSetsFinite DEF BulkTicketInv, TicketsCounted
  <1>2. CASE won = {}
    BY <1>1, <1>2, FS_EmptySet DEF HeadNeverPassesTail
  <1>3. CASE won # {}
    <2>1. PICK M \in won : \A m \in won : m <= M
      BY <1>3 DEF BulkTicketInv, LastWinner
    <2>2. M + 1 - Cardinality({m \in lost : m < M}) <= tailIndex
      BY <2>1 DEF BulkTicketInv, BulkWinnersBelowTail, Wins, LostBefore
    <2> QED
      BY <1>1, <2>1, <2>2, WinnersAreFew DEF HeadNeverPassesTail
  <1> QED
    BY <1>2, <1>3

LEMMA InitBulkTickets == ASSUME BulkInit PROVE BulkTicketInv
  BY FS_EmptySet
     DEF BulkInit, Init, BulkTicketInv, TicketsCounted, BulkPendingTickets, Pending,
         OvercommitIsPast, BulkWinnersBelowTail, LastWinner, GrabRight

-----------------------------------------------------------------------------
(* Blocks by their number *)

LEMMA IntParts ==
    ASSUME NEW n \in Nat, n > 0, NEW a \in Int
    PROVE  \E q \in Int, r \in 0 .. n - 1 : a = n * q + r /\ a % n = r /\ a \div n = q
  <1> DEFINE q == a \div n
             r == a % n
  <1>1. q \in Int /\ r \in 0 .. n - 1
    BY ModInRange
  <1>2. a % n = a - n * q
    OBVIOUS
  <1>3. n * q \in Int
    BY <1>1
  <1>4. a = n * q + r
    <2> DEFINE m == n * q
    <2>1. m \in Int /\ r = a - m
      BY <1>2, <1>3
    <2> HIDE DEF m, r
    <2>2. a = m + r
      BY <2>1
    <2> QED
      BY <2>2 DEF m
  <1> QED
    BY <1>1, <1>4

LEMMA Multiples ==
    ASSUME NEW n \in Nat, n > 0, NEW p \in Int, NEW q \in Int
    PROVE  /\ n * p \in Int /\ n * q \in Int /\ n * (p + 1) = n * p + n
           /\ p < q => n * p + n <= n * q
           /\ n * p = n * q => p = q
           /\ (n * p) % n = 0 /\ (n * p) \div n = p
           /\ p \in Nat => n * p \in Nat
  <1>1. n * p \in Int /\ n * q \in Int
    OBVIOUS
  <1>2. n * (p + 1) = n * p + n
    OBVIOUS
  <1>3. ASSUME NEW a \in Int, NEW b \in Int, a < b PROVE n * a + n <= n * b
    <2>1. n * b = n * (a + 1) + n * (b - a - 1)
      OBVIOUS
    <2>2. n * (b - a - 1) \in Nat
      BY <1>3
    <2>3. n * (a + 1) = n * a + n
      OBVIOUS
    <2> DEFINE x == n * a
               y == n * (b - a - 1)
               z == n * b
    <2>4. x \in Int /\ y \in Nat /\ z = x + n + y
      BY <2>1, <2>2, <2>3
    <2> HIDE DEF x, y, z
    <2>5. x + n <= z
      BY <2>4
    <2> QED
      BY <2>5 DEF x, z
  <1>4. n * p = n * q => p = q
    <2> DEFINE x == n * p
               y == n * q
    <2>1. x \in Int /\ y \in Int /\ (p < q => x + n <= y) /\ (q < p => y + n <= x)
      BY <1>1, <1>3
    <2> HIDE DEF x, y
    <2>2. x = y => p = q
      BY <2>1
    <2> QED
      BY <2>2 DEF x, y
  <1>5. n * p = n * p + 0 /\ 0 \in 0 .. n - 1
    BY <1>1
  <1>6. (n * p) % n = 0 /\ (n * p) \div n = p
    BY ONLY <1>1, <1>5, n \in Nat, n > 0, p \in Int, Quotient
  <1>7. p \in Nat => n * p \in Nat
    OBVIOUS
  <1> QED
    BY <1>1, <1>2, <1>3, <1>4, <1>6, <1>7

\* Places in the ring of slots.
LEMMA Places ==
    ASSUME NEW p \in Int
    PROVE  /\ Place(p) \in Slots
           /\ (Place(p) + 1) % IndexCap = Place(p + 1)
           /\ (Place(p) - 1) % IndexCap = Place(p - 1)
           /\ \A q \in Int : ((Place(p) + (q - p)) % IndexCap) = Place(q)
           /\ \A q \in Int : Place(q) = Place(p) /\ p < q => p + IndexCap <= q
  <1>1. IndexCap \in Nat /\ IndexCap > 1
    BY SizeAssumption
  <1>2. PICK a \in Int, r \in 0 .. IndexCap - 1 : p = IndexCap * a + r /\ p % IndexCap = r
    BY <1>1, IntParts
  <1>3. ASSUME NEW q \in Int
        PROVE  /\ ((Place(p) + (q - p)) % IndexCap) = Place(q)
               /\ Place(q) = Place(p) /\ p < q => p + IndexCap <= q
    <2>1. PICK b \in Int, s \in 0 .. IndexCap - 1 : q = IndexCap * b + s /\ q % IndexCap = s
      BY <1>1, IntParts
    <2> DEFINE x == IndexCap * a
               y == IndexCap * b
               z == IndexCap * (b - a)
    <2>2. x \in Int /\ y \in Int /\ z \in Int /\ z = y - x
      BY <1>1
    <2>3. a < b => x + IndexCap <= y
      BY <1>1, Multiples
    <2>4. b <= a => y <= x
      <3>1. b < a => y + IndexCap <= x
        BY <1>1, Multiples
      <3>2. b = a => y = x
        OBVIOUS
      <3> HIDE DEF x, y
      <3> QED
        BY <1>1, <2>2, <3>1, <3>2
    <2>5. r + (q - p) = z + s
      <3> HIDE DEF x, y, z
      <3>1. p = x + r /\ q = y + s
        BY <1>2, <2>1 DEF x, y
      <3> QED
        BY <2>2, <3>1
    <2>6. b - a \in Int /\ r + (q - p) \in Int /\ r + (q - p) = IndexCap * (b - a) + s
      BY <2>5
    <2>7. (r + (q - p)) % IndexCap = s
      <3> DEFINE d == b - a
                 w == r + (q - p)
      <3>1. d \in Int /\ w \in Int /\ w = IndexCap * d + s /\ s \in 0 .. IndexCap - 1
            /\ IndexCap \in Nat /\ IndexCap > 0
        BY <1>1, <2>1, <2>6
      <3> HIDE DEF d, w
      <3>2. w % IndexCap = s
        BY ONLY <3>1, Quotient
      <3> QED
        BY <3>2 DEF w
    <2>8. r = s /\ p < q => p + IndexCap <= q
      <3> HIDE DEF x, y, z
      <3>1. p = x + r /\ q = y + s
        BY <1>2, <2>1 DEF x, y
      <3>2. a < b \/ b <= a
        BY <1>2, <2>1
      <3> QED
        BY <1>1, <2>2, <2>3, <2>4, <3>1, <3>2
    <2> QED
      BY <1>2, <2>1, <2>7, <2>8 DEF Place
  <1>4. Place(p) \in Slots
    BY <1>1, ModInRange DEF Place, Slots
  <1>5. (p + 1) - p = 1 /\ (p - 1) - p = -1 /\ p + 1 \in Int /\ p - 1 \in Int
    OBVIOUS
  <1>6. \A x \in Int : x + (-1) = x - 1
    OBVIOUS
  <1>7. Place(p) \in Int
    BY <1>1, <1>4 DEF Slots
  <1>8. (Place(p) + ((p + 1) - p)) % IndexCap = Place(p + 1)
        /\ (Place(p) + ((p - 1) - p)) % IndexCap = Place(p - 1)
    BY <1>3, <1>5
  <1>9. (Place(p) + 1) % IndexCap = Place(p + 1) /\ (Place(p) - 1) % IndexCap = Place(p - 1)
    BY <1>5, <1>6, <1>7, <1>8
  <1> QED
    BY <1>3, <1>4, <1>9

\* The block of an index.
LEMMA BlockOf ==
    ASSUME NEW i \in Nat
    PROVE  \E p \in Nat :
              /\ Base(i) = BlockSize * p /\ i \div BlockSize = p /\ SlotAt(i) = Place(p)
              /\ BlockSize * p <= i /\ i < BlockSize * p + BlockSize
              /\ i = BlockSize * p + Cell(i) /\ Cell(i) \in Cells
              /\ BlockSize * p \in Nat
  <1>1. PICK q \in Nat, r \in Cells :
              /\ i = BlockSize * q + r /\ Cell(i) = r /\ Base(i) = BlockSize * q
              /\ BlockSize * q \in Nat
              /\ i \div BlockSize = q /\ SlotAt(i) = q % IndexCap
    BY Parts
  <1> DEFINE x == BlockSize * q
  <1>2. x \in Nat /\ i = x + r /\ r \in 0 .. BlockSize - 1 /\ BlockSize \in Nat
    BY <1>1, SizeAssumption DEF Cells
  <1> HIDE DEF x
  <1>3. x <= i /\ i < x + BlockSize
    BY <1>2
  <1> QED
    BY <1>1, <1>3 DEF Place, x

LEMMA InBlockOf ==
    ASSUME NEW p \in Nat, NEW j \in Cells
    PROVE  /\ BlockSize * p + j \in Nat /\ (BlockSize * p + j) \div BlockSize = p
           /\ Base(BlockSize * p + j) = BlockSize * p /\ Cell(BlockSize * p + j) = j
           /\ SlotAt(BlockSize * p + j) = Place(p)
  <1>1. BlockSize \in Nat /\ BlockSize > 1 /\ j \in 0 .. BlockSize - 1
    BY SizeAssumption DEF Cells
  <1> DEFINE x == BlockSize * p
             i == x + j
  <1>2. x \in Nat /\ i \in Nat
    BY <1>1
  <1>3. i % BlockSize = j /\ i \div BlockSize = p
    BY ONLY <1>1, <1>2, p \in Nat, Quotient
  <1>4. i - j = x
    <2> HIDE DEF x
    <2> QED
      BY <1>1, <1>2
  <1> QED
    BY <1>2, <1>3, <1>4 DEF Base, Cell, SlotAt, Place

\* The blocks the elements have come to.
LEMMA Rounded ==
    ASSUME NEW t \in Nat
    PROVE  \E f \in Nat :
              /\ (t + BlockSize - 1) \div BlockSize = f /\ BlockSize * f \in Nat
              /\ t <= BlockSize * f /\ BlockSize * f < t + BlockSize
              /\ Base(t - 1) = BlockSize * f - BlockSize
              /\ Base(t - 1) = BlockSize * (f - 1)
              /\ Cell(t) = 0 <=> t = BlockSize * f
  <1>1. BlockSize \in Nat /\ BlockSize > 1
    BY SizeAssumption
  <1>2. t + BlockSize - 1 \in Nat
    BY <1>1
  <1>3. PICK f \in Nat, r \in 0 .. BlockSize - 1 :
           /\ t + BlockSize - 1 = BlockSize * f + r
           /\ (t + BlockSize - 1) \div BlockSize = f
    BY <1>1, <1>2, Division
  <1> DEFINE x == BlockSize * f
             y == BlockSize * (f - 1)
  <1>4. x \in Nat /\ y \in Int /\ y = x - BlockSize
    BY <1>1
  <1>5. t - 1 = y + r
    <2> HIDE DEF x, y
    <2>1. t + BlockSize - 1 = x + r
      BY <1>3 DEF x
    <2> QED
      BY <1>1, <1>4, <2>1
  <1>6. t - 1 \in Int /\ f - 1 \in Int /\ t - 1 = BlockSize * (f - 1) + r
    BY <1>5
  <1>7. (t - 1) % BlockSize = r
    BY ONLY <1>1, <1>6, r \in 0 .. BlockSize - 1, Quotient
  <1>8. Base(t - 1) = y
    <2> HIDE DEF y
    <2> QED
      BY <1>4, <1>5, <1>7 DEF Base
  <1>9. t <= x /\ x < t + BlockSize
    <2> HIDE DEF x, y
    <2> QED
      BY <1>1, <1>4, <1>5
  <1>10. t = x => Cell(t) = 0
    BY <1>1, Multiples DEF Cell
  <1>11. Cell(t) = 0 => t = x
    <2>1. PICK p \in Nat : t = BlockSize * p + Cell(t) /\ BlockSize * p \in Nat
      BY BlockOf
    <2> DEFINE z == BlockSize * p
    <2>2. /\ p < f => z + BlockSize <= x
          /\ f < p => x + BlockSize <= z
          /\ z \in Int
      BY <1>1, Multiples
    <2>3. p = f => z = x
      OBVIOUS
    <2> HIDE DEF x, z
    <2>4. Cell(t) = 0 => t = z
      BY <2>1, <2>2 DEF z
    <2> QED
      BY <1>1, <1>4, <1>9, <2>2, <2>3, <2>4
  <1> HIDE DEF x, y
  <1>12. Base(t - 1) = x - BlockSize
    BY <1>4, <1>8
  <1> QED
    BY <1>3, <1>4, <1>8, <1>9, <1>10, <1>11, <1>12 DEF x, y

\* get_block_index_index_for_index finds the slot from any key that belongs to its slot.
LEMMA LooksUp ==
    ASSUME NEW i \in Nat, NEW s \in Slots, NEW k \in Nat, k % BlockSize = 0,
           Place(k \div BlockSize) = s
    PROVE  SlotOf(i, s, k) = SlotAt(i)
  <1>1. Cell(k) = 0 /\ SlotAt(k) = s
    BY DEF Cell, SlotAt, Place
  <1> QED
    BY <1>1, SlotFound

-----------------------------------------------------------------------------
(* What a step may change *)

BulkGood == BulkTypeOK /\ BulkTicketInv /\ HeadNeverPassesTail /\ BulkLayoutInv

LEMMA Numbers ==
    ASSUME BulkTypeOK
    PROVE  /\ BlockSize \in Nat /\ BlockSize > 1
           /\ tailIndex \in Nat /\ headIndex \in Nat
           /\ Filled \in Nat /\ Top \in Nat /\ Filled <= Top
           /\ BlockSize * Filled \in Nat /\ tailIndex <= BlockSize * Filled
           /\ BlockSize * Filled < tailIndex + BlockSize
           /\ Cell(tailIndex) = 0 <=> tailIndex = BlockSize * Filled
           /\ Base(tailIndex - 1) = BlockSize * (Filled - 1)
           /\ Base(tailIndex - 1) = BlockSize * Filled - BlockSize
           /\ Len(batch.chain) \in Nat /\ batch.undone \in Nat
           /\ batch.undone <= Len(batch.chain) /\ batch.chain \in Seq(Blocks)
           /\ batch.start \in Blocks \cup {Null} /\ batch.count \in Nat
  <1>1. BlockSize \in Nat /\ BlockSize > 1 /\ tailIndex \in Nat /\ headIndex \in Nat
    BY SizeAssumption, BulkTypes
  <1>2. batch \in BatchType /\ batch.undone <= Len(batch.chain) /\ BulkSizes \cup {0} \subseteq Nat
    BY BulkAssumption DEF BulkTypeOK
  <1>3. /\ Len(batch.chain) \in Nat /\ batch.undone \in Nat /\ batch.chain \in Seq(Blocks)
        /\ batch.start \in Blocks \cup {Null} /\ batch.count \in Nat
    BY <1>2 DEF BatchType
  <1>4. PICK f \in Nat :
              /\ (tailIndex + BlockSize - 1) \div BlockSize = f /\ BlockSize * f \in Nat
              /\ tailIndex <= BlockSize * f /\ BlockSize * f < tailIndex + BlockSize
              /\ Base(tailIndex - 1) = BlockSize * f - BlockSize
              /\ Base(tailIndex - 1) = BlockSize * (f - 1)
              /\ Cell(tailIndex) = 0 <=> tailIndex = BlockSize * f
    BY <1>1, Rounded
  <1>5. Filled = f
    BY <1>4 DEF Filled
  <1>6. Top \in Nat /\ Filled <= Top
    BY <1>3, <1>5 DEF Top
  <1> QED
    BY <1>1, <1>2, <1>3, <1>4, <1>5, <1>6

\* What a step of a consumer is, whether its call is a single or a bulk one.
Quietly(c) ==
    /\ pc[c] \in Early /\ pc'[c] \in Early
    /\ UNCHANGED <<headIndex, value, elementsCompletelyDequeued, freeing>>

Claims(c) ==
    /\ pc[c] = "claim" /\ pc'[c] = "slot"
    /\ found'[c].index = headIndex
    /\ headIndex < headIndex' /\ headIndex' \in Nat /\ Until(c)' = headIndex'
    /\ grab'[c] # NoGrab => MovedTo(c)' = headIndex
    /\ UNCHANGED <<value, elementsCompletelyDequeued, freeing>>

LooksForBlock(c) ==
    /\ \/ pc[c] = "slot" /\ pc'[c] = "key" /\ found'[c].entry = indexTail
       \/ /\ pc[c] = "key" /\ pc'[c] = "value"
          /\ found'[c].entry = SlotOf(found[c].index, found[c].entry, key[found[c].entry])
       \/ /\ pc[c] = "value" /\ pc'[c] = "move"
          /\ found'[c].entry = found[c].entry /\ found'[c].block = value[found[c].entry]
    /\ found'[c].index = found[c].index /\ grab'[c] = grab[c]
    /\ UNCHANGED <<headIndex, value, elementsCompletelyDequeued, freeing>>

Moves(c) ==
    /\ pc[c] = "move" /\ pc'[c] = "empty" /\ found'[c] = found[c]
    /\ Until(c)' = Until(c)
    /\ Front(c)' = Min2(Base(found[c].index) + BlockSize, Until(c))
    /\ UNCHANGED <<headIndex, value, elementsCompletelyDequeued, freeing>>

\* The call returns, or goes on with the next block.
Leaves(c) ==
    \/ pc'[c] = "idle" /\ grab'[c] = NoGrab /\ Front(c) = Until(c)
    \/ /\ pc'[c] = "value" /\ grab[c] # NoGrab /\ grab'[c] = grab[c]
       /\ Front(c) # Until(c) /\ Front(c) = MovedTo(c)
       /\ found'[c].index = Front(c) /\ found'[c].entry = (found[c].entry + 1) % IndexCap

Empties(c) ==
    LET b == found[c].block
        n == Front(c) - found[c].index
    IN  /\ pc[c] = "empty"
        /\ elementsCompletelyDequeued' =
              [elementsCompletelyDequeued EXCEPT ![b] = elementsCompletelyDequeued[b] + n]
        /\ \/ /\ elementsCompletelyDequeued[b] + n = BlockSize
              /\ pc'[c] = "unlink" /\ found'[c] = found[c] /\ grab'[c] = grab[c]
           \/ elementsCompletelyDequeued[b] + n # BlockSize /\ Leaves(c)
        /\ UNCHANGED <<headIndex, value, freeing>>

Unlinks(c) ==
    /\ pc[c] = "unlink" /\ pc'[c] = "free" /\ found'[c] = found[c] /\ grab'[c] = grab[c]
    /\ value' = [value EXCEPT ![found[c].entry] = Null]
    /\ UNCHANGED <<headIndex, elementsCompletelyDequeued, freeing>>

Frees(c) ==
    /\ pc[c] = "free" /\ Leaves(c)
    /\ freeing' = freeing \cup {found[c].block}
    /\ UNCHANGED <<headIndex, value, elementsCompletelyDequeued>>

LEMMA ClaimFacts ==
    ASSUME BulkGood, NEW c \in Consumers
    PROVE  /\ BulkClaimRight(c) /\ GrabRight(c)
           /\ found[c].index \in Nat /\ found[c].entry \in Slots
           /\ Until(c) \in Nat /\ Front(c) \in Nat /\ MovedTo(c) \in Nat
           /\ grab[c].out \in Seq(Nat) /\ Base(found[c].index) \in Nat
           /\ pc \in [Consumers -> ConsumerSteps] /\ found \in [Consumers -> FoundType]
           /\ grab \in [Consumers -> GrabType] /\ ticket \in [Consumers -> TicketType]
  <1>1. /\ pc \in [Consumers -> ConsumerSteps] /\ found \in [Consumers -> FoundType]
        /\ grab \in [Consumers -> GrabType] /\ ticket \in [Consumers -> TicketType]
    BY DEF BulkGood, BulkTypeOK, TypeOK
  <1>2. found[c].index \in Nat /\ found[c].entry \in Slots
    BY <1>1 DEF FoundType
  <1>3. grab[c].first \in Nat /\ grab[c].actual \in Nat /\ grab[c].out \in Seq(Nat)
    BY <1>1 DEF GrabType
  <1>4. Until(c) \in Nat /\ Front(c) \in Nat /\ MovedTo(c) \in Nat
    <2>1. Len(grab[c].out) \in Nat
      BY <1>3
    <2>2. MovedTo(c) \in Nat /\ ClaimedTo(c) \in Nat
      BY <1>3, <2>1 DEF MovedTo, ClaimedTo
    <2> QED
      BY <1>2, <2>2 DEF Until, Front
  <1>5. Base(found[c].index) \in Nat
    BY <1>2, IndexParts
  <1> QED
    BY <1>1, <1>2, <1>3, <1>4, <1>5 DEF BulkGood, BulkLayoutInv, BulkTicketInv

LEMMA EmptyingBlock ==
    ASSUME BulkGood, NEW c \in Consumers, pc[c] \in {"move", "empty", "unlink"}
    PROVE  /\ found[c].block \in Blocks /\ found[c].entry \in Slots
           /\ value[found[c].entry] = found[c].block
           /\ elementsCompletelyDequeued[found[c].block] \in Nat
  <1>1. found[c].entry \in Linked /\ found[c].block = value[found[c].entry]
    BY ClaimFacts DEF BulkClaimRight
  <1> QED
    BY <1>1 DEF Linked, BulkGood, BulkTypeOK, TypeOK

LEMMA EarlyKinds ==
    ASSUME BulkGood, NEW c \in Consumers,
           \/ LoadTail(c) \/ LoadOvercommit(c) \/ CheckAvailable(c) \/ TakeTicket(c)
           \/ Recheck(c) \/ GiveUp(c) \/ BulkCheckAvailable(c) \/ TakeTickets(c)
           \/ BulkRecheck(c) \/ BulkGiveUp(c)
    PROVE  Quietly(c)
  <1>0. pc \in [Consumers -> ConsumerSteps]
    BY ClaimFacts
  <1> USE <1>0 DEF blockIndex, contents, places, counters, Goto, Early, Quietly
  <1>1. CASE LoadTail(c) \/ LoadOvercommit(c) \/ TakeTicket(c) \/ Recheck(c)
    BY <1>1 DEF LoadTail, LoadOvercommit, TakeTicket, Recheck
  <1>2. CASE CheckAvailable(c) \/ GiveUp(c)
    BY <1>2 DEF CheckAvailable, GiveUp
  <1>3. CASE BulkCheckAvailable(c)
    BY <1>3 DEF BulkCheckAvailable
  <1>4. CASE TakeTickets(c) \/ BulkRecheck(c) \/ BulkGiveUp(c)
    BY <1>4 DEF TakeTickets, BulkRecheck, BulkGiveUp
  <1> QED
    BY <1>1, <1>2, <1>3, <1>4

LEMMA SingleKinds ==
    ASSUME BulkGood, NEW c \in Consumers, grab[c] = NoGrab, grab'[c] = NoGrab,
           \/ Claim(c) \/ MoveElement(c) \/ SetEmpty(c) \/ FreeBlock(c)
    PROVE  Claims(c) \/ Moves(c) \/ Empties(c) \/ Frees(c)
  <1>0. pc \in [Consumers -> ConsumerSteps] /\ found \in [Consumers -> FoundType]
        /\ found[c].index \in Nat /\ headIndex \in Nat
    BY ClaimFacts, Numbers DEF BulkGood
  <1>1. Until(c) = found[c].index + 1 /\ Front(c) = found[c].index + 1
        /\ Until(c)' = found'[c].index + 1 /\ Front(c)' = found'[c].index + 1
    BY DEF Until, Front
  <1> USE DEF blockIndex, contents, places, counters, Goto
  <1>2. CASE Claim(c)
    <2>1. /\ pc[c] = "claim" /\ pc'[c] = "slot" /\ found'[c].index = headIndex
          /\ headIndex' = headIndex + 1
          /\ UNCHANGED <<value, elementsCompletelyDequeued, freeing>>
      BY <1>0, <1>2 DEF Claim, FoundType
    <2> QED
      BY <1>0, <1>1, <2>1 DEF Claims
  <1>3. CASE MoveElement(c)
    <2>1. /\ pc[c] = "move" /\ pc'[c] = "empty" /\ found'[c] = found[c]
          /\ UNCHANGED <<headIndex, value, elementsCompletelyDequeued, freeing>>
      BY <1>0, <1>3 DEF MoveElement
    <2>2. found[c].index < Base(found[c].index) + BlockSize /\ Base(found[c].index) \in Nat
      BY <1>0, BlockOf, SizeAssumption
    <2>3. Min2(Base(found[c].index) + BlockSize, found[c].index + 1) = found[c].index + 1
      BY <1>0, <2>2, SizeAssumption DEF Min2
    <2> QED
      BY <1>1, <2>1, <2>3 DEF Moves
  <1>4. CASE SetEmpty(c)
    <2> DEFINE b == found[c].block
               x == elementsCompletelyDequeued[b]
    <2>1. pc[c] = "empty" /\ UNCHANGED <<headIndex, value, freeing>>
      BY <1>4 DEF SetEmpty
    <2>2. x \in Nat
      BY <2>1, EmptyingBlock
    <2>3. elementsCompletelyDequeued' = [elementsCompletelyDequeued EXCEPT ![b] = x + 1]
      BY <1>4 DEF SetEmpty
    <2>4. Front(c) - found[c].index = 1 /\ Front(c) = Until(c)
      BY <1>0, <1>1
    <2>5. CASE LastOfBlock(x)
      <3>1. pc'[c] = "unlink" /\ found'[c] = found[c]
        BY <1>0, <1>4, <2>5 DEF SetEmpty, Keep
      <3>2. x + 1 = BlockSize
        BY <2>2, <2>5, SizeAssumption DEF LastOfBlock
      <3> QED
        BY <2>1, <2>3, <2>4, <3>1, <3>2 DEF Empties
    <2>6. CASE ~LastOfBlock(x)
      <3>1. pc'[c] = "idle"
        BY <1>0, <1>4, <2>6 DEF SetEmpty
      <3>2. x + 1 # BlockSize
        BY <2>2, <2>6, SizeAssumption DEF LastOfBlock
      <3> QED
        BY <2>1, <2>3, <2>4, <3>1, <3>2 DEF Empties, Leaves
    <2> QED
      BY <2>5, <2>6
  <1>5. CASE FreeBlock(c)
    <2>1. /\ pc[c] = "free" /\ pc'[c] = "idle" /\ freeing' = freeing \cup {found[c].block}
          /\ UNCHANGED <<headIndex, value, elementsCompletelyDequeued>>
      BY <1>0, <1>5 DEF FreeBlock
    <2> QED
      BY <1>1, <2>1 DEF Frees, Leaves
  <1> QED
    BY <1>2, <1>3, <1>4, <1>5

LEMMA SharedKinds ==
    ASSUME BulkGood, NEW c \in Consumers, grab' = grab,
           LoadIndexTail(c) \/ LookUpSlot(c) \/ LoadBlock(c) \/ UnlinkBlock(c)
    PROVE  LooksForBlock(c) \/ Unlinks(c)
  <1>0. pc \in [Consumers -> ConsumerSteps] /\ found \in [Consumers -> FoundType]
    BY ClaimFacts
  <1> USE <1>0 DEF blockIndex, contents, places, counters, Goto, FoundType
  <1>1. CASE LoadIndexTail(c)
    BY <1>1 DEF LoadIndexTail, LooksForBlock
  <1>2. CASE LookUpSlot(c)
    BY <1>2 DEF LookUpSlot, LooksForBlock
  <1>3. CASE LoadBlock(c)
    BY <1>3 DEF LoadBlock, LooksForBlock
  <1>4. CASE UnlinkBlock(c)
    BY <1>4 DEF UnlinkBlock, Unlinks, Keep
  <1> QED
    BY <1>1, <1>2, <1>3, <1>4

LEMMA OnwardLeaves ==
    ASSUME BulkGood, NEW c \in Consumers, grab[c] # NoGrab, NEW at, Onward(c, at)
    PROVE  Leaves(c)
  <1>0. pc \in [Consumers -> ConsumerSteps] /\ found \in [Consumers -> FoundType]
        /\ grab \in [Consumers -> GrabType]
    BY ClaimFacts
  <1>1. Front(c) = MovedTo(c) /\ Until(c) = ClaimedTo(c)
    BY DEF Front, Until
  <1>2. CASE MovedTo(c) = ClaimedTo(c)
    BY <1>0, <1>1, <1>2 DEF Onward, Goto, BulkReturn, Leaves
  <1>3. CASE MovedTo(c) # ClaimedTo(c)
    <2> DEFINE m == MovedTo(c)
    <2>1. /\ pc'[c] = "value" /\ grab' = grab
          /\ found' = [found EXCEPT ![c].index = m, ![c].entry = (@ + 1) % IndexCap]
      BY <1>0, <1>3 DEF Onward, Goto
    <2> HIDE DEF m
    <2>2. found'[c].index = m /\ found'[c].entry = (found[c].entry + 1) % IndexCap
      BY <1>0, <2>1 DEF FoundType
    <2> QED
      BY <1>1, <1>3, <2>1, <2>2 DEF Leaves, m
  <1> QED
    BY <1>2, <1>3

LEMMA Concatenation ==
    ASSUME NEW s \in Seq(Nat), NEW n \in Nat, NEW f \in [1 .. n -> Nat]
    PROVE  s \o f \in Seq(Nat) /\ Len(s \o f) = Len(s) + n
  <1>1. f \in Seq(Nat) /\ Len(f) = n
    OBVIOUS
  <1> QED
    BY <1>1

\* What a bulk consumer moves out of a block: as many elements as it has claimed there.
LEMMA MovedOut ==
    ASSUME BulkGood, NEW c \in Consumers, MoveElements(c)
    PROVE  /\ grab[c] # NoGrab /\ grab'[c] # NoGrab
           /\ grab'[c].first = grab[c].first /\ grab'[c].actual = grab[c].actual
           /\ grab'[c].max = grab[c].max /\ grab'[c].desired = grab[c].desired
           /\ grab'[c].out \in Seq(Nat)
           /\ MovedTo(c)' = Min2(Base(found[c].index) + BlockSize, ClaimedTo(c))
  <1> DEFINE i == found[c].index
             b == found[c].block
             to == Min2(Base(i) + BlockSize, ClaimedTo(c))
             more == [k \in 1 .. to - i |-> elements[b][Cell(i) + k - 1]]
  <1>1. /\ grab \in [Consumers -> GrabType] /\ grab[c].out \in Seq(Nat) /\ i \in Nat
        /\ BulkClaimRight(c) /\ Until(c) \in Nat /\ MovedTo(c) \in Nat
    BY ClaimFacts
  <1>2. grab[c].max > 0 /\ pc[c] = "move"
    BY DEF MoveElements, Goto
  <1>3. grab[c] # NoGrab
    BY <1>2, GrabFields DEF BulkGood
  <1>4. MovedTo(c) = i /\ i < ClaimedTo(c) /\ ClaimedTo(c) \in Nat
    BY <1>1, <1>2, <1>3 DEF BulkClaimRight, HasClaimed, Until
  <1>5. PICK p \in Nat : /\ Base(i) = BlockSize * p /\ BlockSize * p \in Nat
                         /\ BlockSize * p <= i /\ i < BlockSize * p + BlockSize
                         /\ i = BlockSize * p + Cell(i) /\ Cell(i) \in Cells
    BY <1>1, BlockOf
  <1>6. to \in Nat /\ i < to /\ to <= Base(i) + BlockSize
    <2> DEFINE x == BlockSize * p
    <2>1. Base(i) = x /\ x \in Nat /\ i < x + BlockSize
      BY <1>5
    <2> HIDE DEF x, i
    <2> QED
      BY <1>1, <1>4, <2>1, SizeAssumption DEF Min2
  <1>7. b \in Blocks /\ elements \in [Blocks -> [Cells -> Nat]]
    BY <1>2, EmptyingBlock DEF BulkGood, BulkTypeOK, TypeOK
  <1>8. \A k \in 1 .. to - i : Cell(i) + k - 1 \in Cells
    <2> DEFINE x == BlockSize * p
    <2>1. Base(i) = x /\ x \in Nat /\ i = x + Cell(i) /\ Cell(i) \in 0 .. BlockSize - 1
      BY <1>5 DEF Cells
    <2> HIDE DEF x, i, to
    <2> QED
      BY <1>1, <1>6, <2>1, SizeAssumption DEF Cells
  <1>9. more \in [1 .. to - i -> Nat] /\ to - i \in Nat
    <2>1. to - i \in Nat
      <3> HIDE DEF to, i
      <3> QED
        BY <1>1, <1>6
    <2> HIDE DEF to, i, b
    <2> QED
      BY <1>7, <1>8, <2>1
  <1>10. grab' = [grab EXCEPT ![c].out = @ \o more]
    BY DEF MoveElements
  <1> HIDE DEF more, to, b, i
  <1>11. grab'[c] = [grab[c] EXCEPT !.out = grab[c].out \o more]
    BY <1>1, <1>10
  <1>12. /\ grab'[c].out = grab[c].out \o more
         /\ grab'[c].first = grab[c].first /\ grab'[c].actual = grab[c].actual
         /\ grab'[c].max = grab[c].max /\ grab'[c].desired = grab[c].desired
    BY <1>11, GrabFields DEF BulkGood
  <1>13. grab'[c].out \in Seq(Nat) /\ Len(grab'[c].out) = Len(grab[c].out) + (to - i)
    BY <1>1, <1>9, <1>12, Concatenation
  <1>14. grab'[c] # NoGrab
    BY <1>2, <1>12, GrabFields DEF BulkGood
  <1>15. MovedTo(c)' = to
    <2>1. grab[c].first \in Nat /\ Len(grab[c].out) \in Nat
      BY <1>1 DEF GrabType
    <2>2. grab[c].first + Len(grab[c].out) = i
      BY <1>4 DEF MovedTo
    <2> DEFINE f == grab[c].first
               m == Len(grab[c].out)
               w == Len(grab'[c].out)
    <2>3. MovedTo(c)' = f + w
      BY <1>12 DEF MovedTo
    <2>4. w = m + (to - i) /\ f + m = i /\ f \in Nat /\ m \in Nat /\ i \in Nat /\ to \in Nat
      BY <1>1, <1>6, <1>13, <2>1, <2>2
    <2> HIDE DEF f, m, w
    <2>5. f + w = to
      BY ONLY <2>4
    <2> QED
      BY <2>3, <2>5
  <1> QED
    BY <1>3, <1>12, <1>13, <1>14, <1>15 DEF to, i

LEMMA BulkKinds ==
    ASSUME BulkGood, NEW c \in Consumers,
           BulkClaim(c) \/ MoveElements(c) \/ SetManyEmpty(c) \/ BulkFreeBlock(c)
    PROVE  Claims(c) \/ Moves(c) \/ Empties(c) \/ Frees(c)
  <1>0. /\ pc \in [Consumers -> ConsumerSteps] /\ found \in [Consumers -> FoundType]
        /\ grab \in [Consumers -> GrabType] /\ GrabRight(c) /\ headIndex \in Nat
    BY ClaimFacts, Numbers DEF BulkGood
  <1>1. grab[c].max > 0
    BY DEF BulkClaim, MoveElements, SetManyEmpty, BulkFreeBlock
  <1>2. grab[c] # NoGrab
    BY <1>1, GrabFields DEF BulkGood
  <1>3. Front(c) = MovedTo(c) /\ Until(c) = ClaimedTo(c)
    BY <1>2 DEF Front, Until
  <1> USE DEF blockIndex, contents, places, counters, Goto
  <1>4. CASE BulkClaim(c)
    <2>1. /\ pc[c] = "claim" /\ pc'[c] = "slot" /\ found'[c].index = headIndex
          /\ headIndex' = headIndex + grab[c].actual
          /\ grab'[c] = [grab[c] EXCEPT !.first = headIndex]
          /\ UNCHANGED <<value, elementsCompletelyDequeued, freeing>>
      BY <1>0, <1>4 DEF BulkClaim, FoundType
    <2>2. grab[c].actual \in Nat /\ grab[c].actual > 0 /\ grab[c].out = <<>>
      BY <1>0, <1>2, <2>1, BulkTypes DEF GrabRight, BulkGood
    <2>3. /\ grab'[c].first = headIndex /\ grab'[c].actual = grab[c].actual
          /\ grab'[c].out = <<>> /\ grab'[c].max = grab[c].max
      BY <2>1, <2>2, GrabFields DEF BulkGood
    <2>4. grab'[c] # NoGrab
      BY <1>1, <2>3, GrabFields DEF BulkGood
    <2>5. MovedTo(c)' = headIndex /\ ClaimedTo(c)' = headIndex'
      <3>1. Len(grab'[c].out) = 0
        BY <2>3
      <3> QED
        BY <1>0, <2>1, <2>3, <3>1 DEF MovedTo, ClaimedTo
    <2>6. headIndex < headIndex' /\ headIndex' \in Nat
      BY <1>0, <2>1, <2>2
    <2> QED
      BY <2>1, <2>4, <2>5, <2>6 DEF Claims, Until
  <1>5. CASE MoveElements(c)
    <2>1. /\ pc[c] = "move" /\ pc'[c] = "empty" /\ found'[c] = found[c]
          /\ UNCHANGED <<headIndex, value, elementsCompletelyDequeued, freeing>>
      BY <1>0, <1>5 DEF MoveElements, Keep
    <2>2. ClaimedTo(c)' = ClaimedTo(c)
      BY <1>5, MovedOut DEF ClaimedTo
    <2> QED
      BY <1>3, <1>5, <2>1, <2>2, MovedOut DEF Moves, Until, Front
  <1>6. CASE SetManyEmpty(c)
    <2> DEFINE b == found[c].block
               x == elementsCompletelyDequeued[b]
               n == Front(c) - found[c].index
    <2>1. /\ pc[c] = "empty" /\ UNCHANGED <<headIndex, value, freeing>>
          /\ elementsCompletelyDequeued' = [elementsCompletelyDequeued EXCEPT ![b] = x + n]
      BY <1>3, <1>6 DEF SetManyEmpty, Emptied
    <2>2. FullyEmptied(c) <=> x + n = BlockSize
      BY <1>3 DEF FullyEmptied, Emptied
    <2>3. CASE FullyEmptied(c)
      <3>1. pc'[c] = "unlink" /\ found'[c] = found[c] /\ grab'[c] = grab[c]
        BY <1>0, <1>6, <2>3 DEF SetManyEmpty, Keep
      <3> QED
        BY <2>1, <2>2, <2>3, <3>1 DEF Empties
    <2>4. CASE ~FullyEmptied(c)
      <3>1. Leaves(c)
        BY <1>2, <1>6, <2>4, OnwardLeaves DEF SetManyEmpty
      <3> QED
        BY <2>1, <2>2, <2>4, <3>1 DEF Empties
    <2> QED
      BY <2>3, <2>4
  <1>7. CASE BulkFreeBlock(c)
    <2>1. Leaves(c)
      BY <1>2, <1>7, OnwardLeaves DEF BulkFreeBlock
    <2>2. /\ pc[c] = "free" /\ freeing' = freeing \cup {found[c].block}
          /\ UNCHANGED <<headIndex, value, elementsCompletelyDequeued>>
      BY <1>7 DEF BulkFreeBlock, Onward
    <2> QED
      BY <2>1, <2>2 DEF Frees
  <1> QED
    BY <1>4, <1>5, <1>6, <1>7

LEMMA StepKinds ==
    ASSUME BulkGood, NEW c \in Consumers, BulkConsumer(c)
    PROVE  \/ Quietly(c) \/ Claims(c) \/ LooksForBlock(c) \/ Moves(c) \/ Empties(c)
           \/ Unlinks(c) \/ Frees(c)
  <1>1. CASE grab[c] = NoGrab /\ Consumer(c) /\ UNCHANGED <<batch, grab>>
    BY <1>1, EarlyKinds, SingleKinds, SharedKinds DEF Consumer
  <1>2. CASE grab[c] # NoGrab /\ SharedDequeueStep(c) /\ UNCHANGED <<batch, grab>>
    BY <1>2, EarlyKinds, SharedKinds DEF SharedDequeueStep
  <1>3. ASSUME NEW n \in BulkSizes, BulkLoadTail(c, n) PROVE Quietly(c)
    BY <1>3, EarlyKinds DEF BulkLoadTail
  <1> QED
    BY <1>1, <1>2, <1>3, EarlyKinds, BulkKinds DEF BulkConsumer

-----------------------------------------------------------------------------
(* Which cells are counted as empty *)

LEMMA BlocksOrdered ==
    ASSUME NEW p \in Int, NEW q \in Int
    PROVE  /\ BlockSize * p \in Int
           /\ BlockSize * p < BlockSize * q <=> p < q
           /\ BlockSize * p = BlockSize * q => p = q
           /\ p < q => BlockSize * p + BlockSize <= BlockSize * q
           /\ BlockSize * (p + 1) = BlockSize * p + BlockSize
  <1>1. BlockSize \in Nat /\ BlockSize > 0
    BY SizeAssumption
  <1> DEFINE x == BlockSize * p
             y == BlockSize * q
  <1>2. /\ x \in Int /\ y \in Int /\ BlockSize * (p + 1) = x + BlockSize
        /\ p < q => x + BlockSize <= y
        /\ q < p => y + BlockSize <= x
        /\ x = y => p = q
    BY <1>1, Multiples
  <1>3. p < q \/ p = q \/ q < p
    OBVIOUS
  <1> HIDE DEF x, y
  <1>4. x < y <=> p < q
    <2>1. CASE p = q
      <3>1. x = y
        BY <2>1 DEF x, y
      <3> QED
        BY <1>2, <2>1, <3>1
    <2>2. CASE p # q
      BY <1>1, <1>2, <1>3, <2>2
    <2> QED
      BY <2>1, <2>2
  <1> QED
    BY <1>2, <1>4 DEF x, y

\* The block of an index that is not counted as emptied.
LEMMA NeededBlock ==
    ASSUME BulkGood, ppc # "destroyed", NEW i \in Nat, NotEmptied(i), i < BlockSize * Filled
    PROVE  \E p \in 0 .. Filled - 1 :
              /\ Base(i) = BlockSize * p /\ SlotAt(i) = Place(p) /\ Needed(p)
              /\ key[Place(p)] = BlockSize * p /\ Place(p) \in Linked
              /\ i = BlockSize * p + Cell(i) /\ Cell(i) \in Cells /\ BlockSize * p \in Nat
  <1>1. /\ Filled \in Nat /\ Top \in Nat /\ Filled <= Top /\ BlockSize * Filled \in Nat
    BY Numbers DEF BulkGood
  <1>2. PICK p \in Nat :
           /\ Base(i) = BlockSize * p /\ SlotAt(i) = Place(p)
           /\ BlockSize * p <= i
           /\ i = BlockSize * p + Cell(i) /\ Cell(i) \in Cells
           /\ BlockSize * p \in Nat
    BY BlockOf
  <1>3. p < Filled
    <2> DEFINE x == BlockSize * p
               y == BlockSize * Filled
    <2>1. x < y <=> p < Filled
      <3>1. p \in Int /\ Filled \in Int
        BY <1>1
      <3> QED
        BY <3>1, BlocksOrdered, Zenon
    <2>2. x <= i /\ i < y /\ x \in Nat /\ y \in Nat
      BY <1>1, <1>2
    <2> HIDE DEF x, y
    <2> QED
      BY <2>1, <2>2
  <1>4. Needed(p)
    <2>1. NotEmptied(BlockSize * p + Cell(i))
      BY <1>2
    <2>2. ~(Filled <= p)
      BY <1>1, <1>3
    <2> QED
      BY <1>2, <2>1, <2>2 DEF Needed
  <1>5. p \in 0 .. Filled - 1 /\ p \in 0 .. Top - 1
    BY <1>1, <1>3
  <1>6. key[Place(p)] = BlockSize * p /\ Place(p) \in Linked
    BY <1>4, <1>5 DEF BulkGood, BulkLayoutInv, IndexRight, NeededLinked
  <1> QED
    BY <1>2, <1>4, <1>5, <1>6

\* What a consumer has claimed and not emptied is below the head, and its block linked.
LEMMA HeldIndex ==
    ASSUME BulkGood, NEW c \in Consumers, NEW i \in Unemptied(c)
    PROVE  /\ i \in Nat /\ i < headIndex /\ i < tailIndex /\ i < BlockSize * Filled
           /\ NotEmptied(i) /\ HasClaimed(c) /\ ppc # "destroyed"
           /\ found[c].index <= i /\ i < Until(c)
  <1>1. /\ found[c].index \in Nat /\ Until(c) \in Nat /\ Front(c) \in Nat /\ BulkClaimRight(c)
        /\ Base(found[c].index) \in Nat /\ BlockSize \in Nat
        /\ headIndex \in Nat /\ tailIndex \in Nat /\ tailIndex <= BlockSize * Filled
        /\ BlockSize * Filled \in Nat /\ headIndex <= tailIndex
    BY ClaimFacts, Numbers DEF BulkGood, HeadNeverPassesTail
  <1>2. HasClaimed(c)
    BY DEF Unemptied, HasClaimed, InHand
  <1>3. found[c].index < Until(c) /\ Until(c) <= headIndex
    BY <1>1, <1>2 DEF BulkClaimRight
  <1>4. i \in found[c].index .. Until(c) - 1
    <2>1. CASE InHand(c)
      BY <2>1 DEF Unemptied
    <2>2. CASE ~InHand(c)
      <3>1. pc[c] \in {"unlink", "free"} /\ i \in Front(c) .. Until(c) - 1
        BY <2>2 DEF Unemptied
      <3>2. Front(c) = Min2(Base(found[c].index) + BlockSize, Until(c))
        BY <1>1, <3>1 DEF BulkClaimRight
      <3>3. found[c].index < Base(found[c].index) + BlockSize
        <4>1. PICK p \in Nat :
                 /\ Base(found[c].index) = BlockSize * p
                 /\ found[c].index < BlockSize * p + BlockSize
          BY <1>1, BlockOf
        <4> QED
          BY <4>1
      <3>4. found[c].index <= Front(c)
        BY <1>1, <1>3, <3>2, <3>3 DEF Min2
      <3> QED
        BY <1>1, <3>1, <3>4
    <2> QED
      BY <2>1, <2>2
  <1>5. i \in Nat /\ i < headIndex /\ i < tailIndex /\ found[c].index <= i /\ i < Until(c)
    BY <1>1, <1>3, <1>4
  <1>6. i < BlockSize * Filled
    <2> DEFINE y == BlockSize * Filled
    <2>1. y \in Nat /\ tailIndex <= y
      BY <1>1
    <2> HIDE DEF y
    <2>2. i < y
      BY <1>1, <1>5, <2>1
    <2> QED
      BY <2>2 DEF y
  <1>7. NotEmptied(i)
    BY DEF NotEmptied
  <1>8. ppc # "destroyed"
    BY <1>2 DEF BulkGood, BulkLayoutInv, HasClaimed
  <1> QED
    BY <1>2, <1>5, <1>6, <1>7, <1>8

\* The index a consumer is at, and its block.
LEMMA HandBlock ==
    ASSUME BulkGood, NEW c \in Consumers, InHand(c)
    PROVE  LET i == found[c].index IN
           /\ i \in Unemptied(c)
           /\ \E p \in 0 .. Filled - 1 :
                 /\ Base(i) = BlockSize * p /\ SlotAt(i) = Place(p) /\ Needed(p)
                 /\ key[Place(p)] = BlockSize * p /\ Place(p) \in Linked
                 /\ i = BlockSize * p + Cell(i) /\ Cell(i) \in Cells /\ BlockSize * p \in Nat
  <1>1. /\ found[c].index \in Nat /\ Until(c) \in Nat /\ BulkClaimRight(c)
    BY ClaimFacts
  <1>2. found[c].index < Until(c)
    BY <1>1 DEF BulkClaimRight, HasClaimed, InHand
  <1>3. found[c].index \in found[c].index .. Until(c) - 1
    BY <1>1, <1>2
  <1>4. found[c].index \in Unemptied(c)
    BY <1>3 DEF Unemptied
  <1>5. /\ found[c].index < BlockSize * Filled /\ NotEmptied(found[c].index)
        /\ ppc # "destroyed"
    BY <1>4, HeldIndex
  <1> QED
    BY <1>1, <1>4, <1>5, NeededBlock

LEMMA UnemptiedByOthers ==
    ASSUME BulkGood, NEW c \in Consumers, BulkConsumer(c), NEW d \in Consumers \ {c}
    PROVE  /\ Unemptied(d)' = Unemptied(d) /\ Until(d)' = Until(d) /\ Front(d)' = Front(d)
           /\ pc'[d] = pc[d] /\ found'[d] = found[d] /\ grab'[d] = grab[d]
  <1>1. pc'[d] = pc[d] /\ found'[d] = found[d] /\ grab'[d] = grab[d]
    BY CallsApart DEF BulkGood, Stays
  <1>2. Until(d)' = Until(d) /\ Front(d)' = Front(d)
    BY <1>1 DEF Until, Front, ClaimedTo, MovedTo
  <1> QED
    BY <1>1, <1>2 DEF Unemptied, InHand

\* What is left of a call after it has given a block back, or has none to give back.
LEMMA UnemptiedByLeaving ==
    ASSUME BulkGood, NEW c \in Consumers, Leaves(c)
    PROVE  Unemptied(c)' = Front(c) .. Until(c) - 1
  <1>1. Front(c) \in Nat /\ Until(c) \in Nat
    BY ClaimFacts
  <1>2. CASE pc'[c] = "idle" /\ Front(c) = Until(c)
    <2>1. Unemptied(c)' = {}
      BY <1>2 DEF Unemptied, InHand
    <2> QED
      BY <1>1, <1>2, <2>1
  <1>3. CASE pc'[c] = "value" /\ grab[c] # NoGrab /\ grab'[c] = grab[c]
             /\ found'[c].index = Front(c)
    <2>1. Until(c)' = Until(c)
      BY <1>3 DEF Until, ClaimedTo
    <2> QED
      BY <1>3, <2>1 DEF Unemptied, InHand
  <1> QED
    BY <1>2, <1>3 DEF Leaves

LEMMA UnemptiedKept ==
    ASSUME BulkGood, NEW c \in Consumers,
           Quietly(c) \/ LooksForBlock(c) \/ Moves(c) \/ Unlinks(c) \/ Frees(c)
    PROVE  Unemptied(c)' = Unemptied(c) /\ headIndex' = headIndex
           /\ elementsCompletelyDequeued' = elementsCompletelyDequeued
  <1>1. CASE Quietly(c)
    BY <1>1 DEF Quietly, Early, Unemptied, InHand
  <1>2. CASE LooksForBlock(c)
    <2>1. found'[c].index = found[c].index /\ grab'[c] = grab[c] /\ headIndex' = headIndex
          /\ InHand(c) /\ InHand(c)' /\ elementsCompletelyDequeued' = elementsCompletelyDequeued
      BY <1>2 DEF LooksForBlock, InHand
    <2> QED
      BY <2>1 DEF Unemptied, Until, ClaimedTo
  <1>3. CASE Moves(c)
    BY <1>3 DEF Moves, Unemptied, InHand
  <1>4. CASE Unlinks(c)
    <2>1. /\ pc[c] = "unlink" /\ pc'[c] = "free" /\ found'[c] = found[c] /\ grab'[c] = grab[c]
          /\ headIndex' = headIndex /\ elementsCompletelyDequeued' = elementsCompletelyDequeued
      BY <1>4 DEF Unlinks
    <2> QED
      BY <2>1 DEF Unemptied, InHand, Until, Front, ClaimedTo, MovedTo
  <1>5. CASE Frees(c)
    <2>1. Unemptied(c) = Front(c) .. Until(c) - 1
      BY <1>5 DEF Frees, Unemptied, InHand
    <2> QED
      BY <1>5, <2>1, UnemptiedByLeaving DEF Frees
  <1> QED
    BY <1>1, <1>2, <1>3, <1>4, <1>5

LEMMA UnemptiedByClaim ==
    ASSUME BulkGood, NEW c \in Consumers, Claims(c)
    PROVE  Unemptied(c) = {} /\ Unemptied(c)' = headIndex .. headIndex' - 1
  BY DEF Claims, Unemptied, InHand

LEMMA UnemptiedByEmptying ==
    ASSUME BulkGood, NEW c \in Consumers, Empties(c)
    PROVE  LET i == found[c].index IN
           /\ Unemptied(c) = i .. Until(c) - 1
           /\ Unemptied(c)' = Front(c) .. Until(c) - 1
           /\ i \in Nat /\ Until(c) \in Nat /\ Front(c) \in Nat
           /\ i < Front(c) /\ Front(c) <= Until(c) /\ Front(c) <= Base(i) + BlockSize
           /\ Base(i) \in Nat /\ Base(i) <= i
  <1> DEFINE i == found[c].index
  <1>1. /\ i \in Nat /\ Until(c) \in Nat /\ Front(c) \in Nat /\ BulkClaimRight(c)
        /\ Base(i) \in Nat /\ BlockSize \in Nat /\ pc[c] = "empty"
    BY ClaimFacts, SizeAssumption DEF Empties
  <1>2. Base(i) <= i /\ i < Base(i) + BlockSize
    <2>1. PICK p \in Nat :
             /\ Base(i) = BlockSize * p /\ BlockSize * p <= i
             /\ i < BlockSize * p + BlockSize
      BY <1>1, BlockOf
    <2> QED
      BY <2>1
  <1>3. i < Until(c) /\ Front(c) = Min2(Base(i) + BlockSize, Until(c))
    BY <1>1 DEF BulkClaimRight, HasClaimed
  <1>4. i < Front(c) /\ Front(c) <= Until(c) /\ Front(c) <= Base(i) + BlockSize
    <2> HIDE DEF i
    <2> QED
      BY <1>1, <1>2, <1>3 DEF Min2
  <1>5. Unemptied(c) = i .. Until(c) - 1
    BY <1>1 DEF Unemptied, InHand
  <1>6. Unemptied(c)' = Front(c) .. Until(c) - 1
    <2>1. CASE pc'[c] = "unlink" /\ found'[c] = found[c] /\ grab'[c] = grab[c]
      BY <2>1 DEF Unemptied, InHand, Until, Front, ClaimedTo, MovedTo
    <2>2. CASE Leaves(c)
      BY <2>2, UnemptiedByLeaving
    <2> QED
      BY <2>1, <2>2 DEF Empties
  <1> QED
    BY <1>1, <1>2, <1>4, <1>5, <1>6

\* Only set_empty and set_many_empty count cells as empty.
LEMMA NotEmptiedKept ==
    ASSUME BulkGood, NEW c \in Consumers, BulkConsumer(c), ~Empties(c), NEW i \in Nat
    PROVE  NotEmptied(i)' <=> NotEmptied(i)
  <1>1. \A d \in Consumers \ {c} : Unemptied(d)' = Unemptied(d)
    BY UnemptiedByOthers
  <1>2. headIndex \in Nat
    BY Numbers DEF BulkGood
  <1>3. CASE Claims(c)
    <2>1. Unemptied(c) = {} /\ Unemptied(c)' = headIndex .. headIndex' - 1
          /\ headIndex' \in Nat /\ headIndex < headIndex'
      BY <1>3, UnemptiedByClaim DEF Claims
    <2>2. i >= headIndex <=> i >= headIndex' \/ i \in Unemptied(c)'
      <3>1. PICK h, g : h = headIndex /\ g = headIndex'
        OBVIOUS
      <3>2. i \in Unemptied(c)' <=> i \in h .. g - 1
        BY <2>1, <3>1
      <3>3. i \in Nat /\ h \in Nat /\ g \in Nat /\ h < g
        BY <1>2, <2>1, <3>1
      <3>4. i >= h <=> i >= g \/ i \in h .. g - 1
        BY ONLY <3>3
      <3> QED
        BY <3>1, <3>2, <3>4
    <2>3. (\E d \in Consumers : i \in Unemptied(d)) <=> \E d \in Consumers \ {c} : i \in Unemptied(d)
      BY <2>1
    <2>4. (\E d \in Consumers : i \in Unemptied(d)') <=>
             i \in Unemptied(c)' \/ \E d \in Consumers \ {c} : i \in Unemptied(d)
      BY <1>1
    <2> QED
      BY <2>2, <2>3, <2>4 DEF NotEmptied
  <1>4. CASE ~Claims(c)
    <2>1. Unemptied(c)' = Unemptied(c) /\ headIndex' = headIndex
      BY <1>4, StepKinds, UnemptiedKept
    <2>2. \A d \in Consumers : Unemptied(d)' = Unemptied(d)
      BY <1>1, <2>1
    <2> QED
      BY <2>1, <2>2 DEF NotEmptied
  <1> QED
    BY <1>3, <1>4

LEMMA NotEmptiedLess ==
    ASSUME BulkGood, NEW c \in Consumers, BulkConsumer(c), Empties(c), NEW i \in Nat
    PROVE  NotEmptied(i)' <=> NotEmptied(i) /\ ~(i \in found[c].index .. Front(c) - 1)
  <1>1. \A d \in Consumers \ {c} : Unemptied(d)' = Unemptied(d)
    BY UnemptiedByOthers
  <1> DEFINE k == found[c].index
             f == Front(c)
             u == Until(c)
  <1>2. /\ Unemptied(c) = k .. u - 1 /\ Unemptied(c)' = f .. u - 1
        /\ k \in Nat /\ u \in Nat /\ f \in Nat /\ k < f /\ f <= u
    BY UnemptiedByEmptying
  <1>3. headIndex \in Nat /\ headIndex' = headIndex
    BY Numbers DEF BulkGood, Empties
  <1>4. u <= headIndex
    BY ClaimFacts DEF BulkClaimRight, HasClaimed, Empties
  <1>5. \A d \in Consumers \ {c} : Unemptied(d) \cap Unemptied(c) = {}
    BY ClaimFacts DEF BulkClaimRight
  <1> HIDE DEF k, f, u
  <1>6. i \in Unemptied(c)' <=> i \in Unemptied(c) /\ ~(i \in k .. f - 1)
    BY <1>2
  <1>7. i \in k .. f - 1 => i \in Unemptied(c) /\ ~(i >= headIndex)
    BY <1>2, <1>3, <1>4
  <1>8. i \in k .. f - 1 => \A d \in Consumers \ {c} : i \notin Unemptied(d)
    BY <1>5, <1>7
  <1>9. (\E d \in Consumers : i \in Unemptied(d)) <=>
           i \in Unemptied(c) \/ \E d \in Consumers \ {c} : i \in Unemptied(d)
    OBVIOUS
  <1>10. (\E d \in Consumers : i \in Unemptied(d)') <=>
            i \in Unemptied(c)' \/ \E d \in Consumers \ {c} : i \in Unemptied(d)
    BY <1>1
  <1>11. NotEmptied(i)' <=> NotEmptied(i) /\ ~(i \in k .. f - 1)
    BY <1>3, <1>6, <1>7, <1>8, <1>9, <1>10 DEF NotEmptied
  <1> QED
    BY <1>11 DEF k, f

-----------------------------------------------------------------------------
(* What the steps of a consumer do to blocks *)

LEMMA Alive ==
    ASSUME BulkGood, NEW c \in Consumers, BulkConsumer(c)
    PROVE  ppc # "destroyed" /\ IndexRight /\ ppc' # "destroyed"
  <1>1. CASE pc[c] # "idle"
    BY <1>1, CallsApart DEF BulkGood, BulkLayoutInv
  <1>2. CASE pc[c] = "idle"
    <2>1. LoadTail(c)
      BY <1>2 DEF BulkConsumer, Consumer, SharedDequeueStep, LoadOvercommit, CheckAvailable,
         TakeTicket, Recheck, GiveUp, Claim, LoadIndexTail, LookUpSlot, LoadBlock, MoveElement,
         SetEmpty, UnlinkBlock, FreeBlock, BulkLoadTail, BulkCheckAvailable, TakeTickets,
         BulkRecheck, BulkGiveUp, BulkClaim, MoveElements, SetManyEmpty, BulkFreeBlock, Onward,
         Goto
    <2> QED
      BY <2>1, CallsApart DEF LoadTail, BulkGood, BulkLayoutInv
  <1> QED
    BY <1>1, <1>2

\* The producer's view is what it was.
LEMMA SameRing ==
    ASSUME UNCHANGED <<tailIndex, batch, ppc>>
    PROVE  Filled' = Filled /\ Top' = Top /\ Shift' = Shift /\ (Inserting' <=> Inserting)
  BY DEF Filled, Top, Shift, Inserting, Cell

\* Emptying the last cells of a block is all that makes it not needed.
LEMMA NeededKept ==
    ASSUME BulkGood, NEW c \in Consumers, BulkConsumer(c), NEW p \in Nat
    PROVE  /\ Needed(p)' => Needed(p)
           /\ ~Empties(c) => (Needed(p)' <=> Needed(p))
           /\ Needed(p) /\ ~Needed(p)' =>
                 Base(found[c].index) = BlockSize * p /\ \A j \in Cells : ~NotEmptied(BlockSize * p + j)'
  <1>1. Filled' = Filled /\ batch' = batch
    BY SameRing, CallsApart DEF BulkGood
  <1>2. \A j \in Cells : BlockSize * p + j \in Nat
    BY InBlockOf
  <1>3. \A j \in Cells : /\ NotEmptied(BlockSize * p + j)' => NotEmptied(BlockSize * p + j)
                         /\ ~Empties(c) => (NotEmptied(BlockSize * p + j)' <=> NotEmptied(BlockSize * p + j))
    BY <1>2, NotEmptiedKept, NotEmptiedLess
  <1>4. (Needed(p)' => Needed(p)) /\ (~Empties(c) => (Needed(p)' <=> Needed(p)))
    BY <1>1, <1>3 DEF Needed
  <1>5. ASSUME Needed(p), ~Needed(p)'
        PROVE  Base(found[c].index) = BlockSize * p /\ \A j \in Cells : ~NotEmptied(BlockSize * p + j)'
    <2>1. Empties(c)
      BY <1>4, <1>5
    <2>2. \A j \in Cells : ~NotEmptied(BlockSize * p + j)'
      BY <1>1, <1>5 DEF Needed
    <2>3. PICK j \in Cells : NotEmptied(BlockSize * p + j)
      BY <1>5 DEF Needed
    <2>4. BlockSize * p + j \in found[c].index .. Front(c) - 1
      BY <1>2, <2>1, <2>2, <2>3, NotEmptiedLess
    <2> DEFINE i == found[c].index
               f == Front(c)
    <2>5. i \in Nat /\ f \in Nat /\ i < f /\ f <= Base(i) + BlockSize
      BY <2>1, UnemptiedByEmptying
    <2>6. PICK q \in Nat : Base(i) = BlockSize * q /\ BlockSize * q <= i
      BY <2>5, BlockOf
    <2> DEFINE x == BlockSize * p
               y == BlockSize * q
    <2>7. /\ x \in Int /\ y \in Int
          /\ p < q => x + BlockSize <= y
          /\ q < p => y + BlockSize <= x
      BY BlocksOrdered
    <2>8. y <= x + j /\ x + j < y + BlockSize /\ j \in 0 .. BlockSize - 1 /\ BlockSize \in Nat
      <3>1. Base(i) = y /\ y <= i /\ x + j \in i .. f - 1
        BY <2>4, <2>6
      <3>2. f <= y + BlockSize /\ i \in Nat /\ f \in Nat /\ x \in Int /\ y \in Int
        BY <2>5, <2>7, <3>1
      <3>3. BlockSize \in Nat /\ j \in 0 .. BlockSize - 1
        BY SizeAssumption DEF Cells
      <3> HIDE DEF x, y, i, f
      <3>4. y <= x + j /\ x + j < y + BlockSize
        BY ONLY <3>1, <3>2, <3>3
      <3> QED
        BY <3>3, <3>4
    <2> HIDE DEF x, y
    <2>9. p = q
      <3>1. ~(p < q) /\ ~(q < p)
        BY ONLY <2>7, <2>8
      <3> QED
        BY <3>1
    <2> QED
      BY <2>2, <2>6, <2>9
  <1> QED
    BY <1>4, <1>5

\* The cells a consumer is about to count are not counted yet.
LEMMA EmptyingRoom ==
    ASSUME BulkGood, NEW c \in Consumers, pc[c] = "empty"
    PROVE  LET i == found[c].index
               s == found[c].entry
               E == {j \in Cells : ~NotEmptied(key[s] + j)}
               D == i - key[s] .. Front(c) - key[s] - 1
           IN  /\ s = SlotAt(i) /\ s \in Linked /\ value[s] = found[c].block
               /\ key[s] = Base(i) /\ key[s] \in Nat
               /\ IsFiniteSet(E) /\ IsFiniteSet(D) /\ D \subseteq Cells
               /\ E \cap D = {} /\ Cardinality(D) = Front(c) - i
               /\ elementsCompletelyDequeued[found[c].block] = Cardinality(E)
               /\ Cardinality(E \cup D) = Cardinality(E) + (Front(c) - i)
               /\ Cardinality(E) + (Front(c) - i) <= BlockSize
               /\ Cardinality(E) + (Front(c) - i) = BlockSize => E \cup D = Cells
  <1> DEFINE i == found[c].index
             s == found[c].entry
             k == key[s]
             f == Front(c)
             E == {j \in Cells : ~NotEmptied(k + j)}
             D == i - k .. f - k - 1
  <1>1. /\ BulkClaimRight(c) /\ i \in Nat /\ f \in Nat /\ Until(c) \in Nat /\ BlockSize \in Nat
        /\ BlockSize > 0
    BY ClaimFacts, SizeAssumption
  <1>2. s = SlotAt(i) /\ s \in Linked /\ value[s] = found[c].block
    BY <1>1 DEF BulkClaimRight
  <1>3. PICK p \in Nat :
           /\ Base(i) = BlockSize * p /\ SlotAt(i) = Place(p) /\ BlockSize * p \in Nat
           /\ key[Place(p)] = BlockSize * p
           /\ i = BlockSize * p + Cell(i) /\ Cell(i) \in Cells
    BY HandBlock DEF InHand
  <1>4. k = Base(i) /\ k \in Nat /\ i = k + Cell(i) /\ Cell(i) \in 0 .. BlockSize - 1
    BY <1>2, <1>3 DEF Cells
  <1>5. i < Until(c) /\ f = Min2(Base(i) + BlockSize, Until(c))
    BY <1>1 DEF BulkClaimRight, HasClaimed
  <1>6. ppc # "destroyed" /\ elementsCompletelyDequeued[found[c].block] = Cardinality(E)
    <2>1. CountsRight
      BY DEF BulkGood, BulkLayoutInv
    <2>2. elementsCompletelyDequeued[value[s]] = Cardinality({j \in Cells : ~NotEmptied(key[s] + j)})
      BY <1>2, <2>1 DEF CountsRight
    <2> QED
      BY <1>2, <2>2 DEF BulkGood, BulkLayoutInv
  <1> HIDE DEF i, s, f, k
  <1>7. i < f /\ f <= k + BlockSize /\ f <= Until(c)
    <2> DEFINE u == Until(c)
    <2>1. u \in Nat /\ i < u /\ f = Min2(k + BlockSize, u)
      BY <1>1, <1>4, <1>5
    <2> HIDE DEF u
    <2>2. i < f /\ f <= k + BlockSize /\ f <= u
      BY <1>1, <1>4, <2>1 DEF Min2
    <2> QED
      BY <2>2 DEF u
  <1>8. D \subseteq Cells
    BY <1>1, <1>4, <1>7 DEF Cells
  <1>9. IsFiniteSet(D) /\ Cardinality(D) = f - i
    <2>1. i - k \in Int /\ f - k - 1 \in Int
      BY <1>1, <1>4
    <2>2. IsFiniteSet(D) /\ Cardinality(D) = IF i - k > f - k - 1 THEN 0 ELSE f - k - 1 - (i - k) + 1
      BY <2>1, FS_Interval
    <2>3. ~(i - k > f - k - 1) /\ f - k - 1 - (i - k) + 1 = f - i
      BY <1>1, <1>4, <1>7
    <2> QED
      BY <2>2, <2>3
  <1>10. IsFiniteSet(Cells) /\ Cardinality(Cells) = BlockSize
    <2>1. /\ IsFiniteSet(0 .. BlockSize - 1)
          /\ Cardinality(0 .. BlockSize - 1) =
                IF 0 > BlockSize - 1 THEN 0 ELSE BlockSize - 1 - 0 + 1
      BY <1>1, FS_Interval
    <2>2. ~(0 > BlockSize - 1) /\ BlockSize - 1 - 0 + 1 = BlockSize
      BY <1>1
    <2> QED
      BY <2>1, <2>2 DEF Cells
  <1>11. IsFiniteSet(E)
    BY <1>10, FS_Subset
  <1>12. E \cap D = {}
    <2> SUFFICES ASSUME NEW j \in D PROVE j \notin E
      OBVIOUS
    <2>1. k + j \in i .. f - 1
      BY <1>1, <1>4, <1>7
    <2>2. k + j \in Unemptied(c)
      <3>1. Unemptied(c) = i .. Until(c) - 1
        BY DEF Unemptied, InHand, i
      <3> QED
        BY <1>1, <1>7, <2>1, <3>1
    <2>3. NotEmptied(k + j)
      BY <2>2, HeldIndex
    <2> QED
      BY <2>3
  <1> HIDE DEF E, D
  <1>13. Cardinality(E \cup D) = Cardinality(E) + (f - i)
    <2>1. Cardinality(E \cup D) = Cardinality(E) + Cardinality(D) - Cardinality(E \cap D)
      BY <1>9, <1>11, FS_Union
    <2>2. Cardinality(E \cap D) = 0 /\ Cardinality(E) \in Nat /\ f - i \in Int
      BY <1>1, <1>11, <1>12, FS_EmptySet, FS_CardinalityType
    <2>3. \A x, y, z \in Int : z = 0 => x + y - z = x + y
      OBVIOUS
    <2> QED
      BY <1>9, <2>1, <2>2, <2>3
  <1>14. /\ Cardinality(E \cup D) <= BlockSize
         /\ Cardinality(E \cup D) = BlockSize => E \cup D = Cells
    <2>1. E \cup D \subseteq Cells
      BY <1>8 DEF E
    <2> QED
      BY <1>10, <2>1, FS_Subset
  <1>15. /\ s = SlotAt(i) /\ s \in Linked /\ value[s] = found[c].block
         /\ k = Base(i) /\ k \in Nat /\ IsFiniteSet(E) /\ IsFiniteSet(D) /\ D \subseteq Cells
         /\ E \cap D = {} /\ Cardinality(D) = f - i
         /\ elementsCompletelyDequeued[found[c].block] = Cardinality(E)
         /\ Cardinality(E \cup D) = Cardinality(E) + (f - i)
         /\ Cardinality(E) + (f - i) <= BlockSize
         /\ Cardinality(E) + (f - i) = BlockSize => E \cup D = Cells
    BY <1>2, <1>4, <1>6, <1>8, <1>9, <1>11, <1>12, <1>13, <1>14
  <1> QED
    BY <1>15 DEF i, s, k, f, E, D

LEMMA EmptyingCounts ==
    ASSUME BulkGood, NEW c \in Consumers, BulkConsumer(c), Empties(c),
           NEW p \in Nat, Base(found[c].index) = BlockSize * p
    PROVE  LET s == found[c].entry
               n == Cardinality({j \in Cells : ~NotEmptied(BlockSize * p + j)'})
           IN  /\ s \in Linked /\ s = SlotAt(found[c].index) /\ key[s] = BlockSize * p
               /\ value[s] = found[c].block
               /\ elementsCompletelyDequeued' =
                     [elementsCompletelyDequeued EXCEPT ![value[s]] = n]
               /\ n = elementsCompletelyDequeued[found[c].block]
                         + (Front(c) - found[c].index)
               /\ (\A j \in Cells : ~NotEmptied(BlockSize * p + j)') <=> n = BlockSize
  <1> DEFINE i == found[c].index
             s == found[c].entry
             k == BlockSize * p
             f == Front(c)
             E == {j \in Cells : ~NotEmptied(k + j)}
             D == i - k .. f - k - 1
             G == {j \in Cells : ~NotEmptied(k + j)'}
  <1>1. pc[c] = "empty"
    BY DEF Empties
  <1>2. /\ s = SlotAt(i) /\ s \in Linked /\ value[s] = found[c].block
        /\ key[s] = k /\ k \in Nat /\ D \subseteq Cells
        /\ elementsCompletelyDequeued[found[c].block] = Cardinality(E)
        /\ Cardinality(E \cup D) = Cardinality(E) + (f - i)
        /\ (Cardinality(E) + (f - i) = BlockSize => E \cup D = Cells)
    <2> DEFINE Has(m) ==
                  LET F == {j \in Cells : ~NotEmptied(m + j)}
                      H == i - m .. f - m - 1
                  IN  /\ H \subseteq Cells
                      /\ elementsCompletelyDequeued[found[c].block] = Cardinality(F)
                      /\ Cardinality(F \cup H) = Cardinality(F) + (f - i)
                      /\ (Cardinality(F) + (f - i) = BlockSize => F \cup H = Cells)
    <2>1. /\ s = SlotAt(i) /\ s \in Linked /\ value[s] = found[c].block
          /\ key[s] = Base(i) /\ key[s] \in Nat
      BY <1>1, EmptyingRoom
    <2>2. Has(key[s])
      BY <1>1, EmptyingRoom
    <2>3. key[s] = k
      BY <2>1
    <2> HIDE DEF Has
    <2>4. Has(k)
      BY <2>2, <2>3
    <2> QED
      BY <2>1, <2>3, <2>4 DEF Has
  <1>3. i \in Nat /\ f \in Nat
    BY ClaimFacts
  <1>4. G = E \cup D
    <2> SUFFICES ASSUME NEW j \in Cells PROVE j \in G <=> j \in E \/ j \in D
      BY <1>2
    <2>1. k + j \in Nat /\ j \in Nat
      BY InBlockOf DEF Cells
    <2>2. NotEmptied(k + j)' <=> NotEmptied(k + j) /\ ~(k + j \in i .. f - 1)
      BY <2>1, NotEmptiedLess
    <2>3. k + j \in i .. f - 1 <=> j \in D
      <3>1. k \in Nat /\ j \in Nat /\ i \in Nat /\ f \in Nat
        BY <1>2, <1>3, <2>1
      <3> HIDE DEF k, i, f
      <3> QED
        BY ONLY <3>1 DEF D
    <2> QED
      BY <2>2, <2>3
  <1>5. elementsCompletelyDequeued' =
           [elementsCompletelyDequeued EXCEPT ![value[s]] = Cardinality(G)]
    BY <1>2, <1>4 DEF Empties
  <1>6. (\A j \in Cells : ~NotEmptied(k + j)') <=> Cardinality(G) = BlockSize
    <2>1. Cardinality(G) = BlockSize => G = Cells
      BY <1>2, <1>4
    <2>2. (\A j \in Cells : ~NotEmptied(k + j)') <=> G = Cells
      OBVIOUS
    <2>3. Cardinality(Cells) = BlockSize
      <3>1. BlockSize \in Nat /\ BlockSize > 1
        BY SizeAssumption
      <3>2. Cardinality(0 .. BlockSize - 1) = IF 0 > BlockSize - 1 THEN 0 ELSE BlockSize - 1 - 0 + 1
        BY <3>1, FS_Interval
      <3> QED
        BY <3>1, <3>2 DEF Cells
    <2> QED
      BY <2>1, <2>2, <2>3
  <1> QED
    BY <1>2, <1>4, <1>5, <1>6

LEMMA UnlinksBlock ==
    ASSUME BulkGood, NEW c \in Consumers, BulkConsumer(c), Unlinks(c)
    PROVE  LET s == found[c].entry IN
           /\ s \in Linked /\ found[c].block = value[s] /\ value[s] \in Blocks
           /\ Linked' = Linked \ {s} /\ \A r \in Slots \ {s} : value'[r] = value[r]
           /\ value'[s] = Null
           /\ \A p \in 0 .. Top - 1 : Needed(p) => Place(p) # s
           /\ \A d \in Consumers \ {c} : pc[d] = "unlink" => found[d].entry # s
  <1> DEFINE s == found[c].entry
  <1>1. /\ pc[c] = "unlink" /\ value' = [value EXCEPT ![s] = Null]
        /\ value \in [Slots -> Blocks \cup {Null, Garbage}] /\ IndexRight
    BY Alive DEF Unlinks, BulkGood, BulkTypeOK, TypeOK
  <1>2. /\ BulkClaimRight(c) /\ s \in Slots /\ found[c].index \in Nat
    BY ClaimFacts
  <1>3. /\ s \in Linked /\ found[c].block = value[s] /\ key[s] = Base(found[c].index)
        /\ \A j \in Cells : ~NotEmptied(Base(found[c].index) + j)
        /\ \A d \in Consumers \ {c} : pc[d] = "unlink" => found[d].entry # s
    BY <1>1, <1>2 DEF BulkClaimRight
  <1>4. ASSUME NEW p \in 0 .. Top - 1, Needed(p), Place(p) = s PROVE FALSE
    <2>1. key[s] = BlockSize * p
      BY <1>1, <1>4 DEF IndexRight, NeededLinked
    <2> QED
      BY <1>3, <1>4, <2>1 DEF Needed
  <1> HIDE DEF s
  <1>5. Linked' = Linked \ {s} /\ \A r \in Slots \ {s} : value'[r] = value[r]
    BY <1>1, <1>2, PointerAssumption DEF Linked
  <1> QED
    BY <1>1, <1>2, <1>3, <1>4, <1>5 DEF Linked, s

LEMMA ConsumerLinks ==
    ASSUME BulkGood, NEW c \in Consumers, BulkConsumer(c)
    PROVE  /\ Linked' \subseteq Linked /\ \A s \in Linked' : value'[s] = value[s]
           /\ ~Unlinks(c) => value' = value /\ Linked' = Linked
           /\ \A p \in 0 .. Top - 1 : Needed(p) => value'[Place(p)] = value[Place(p)] /\
                 (Place(p) \in Linked => Place(p) \in Linked')
           /\ \A s \in Slots : value'[s] = Garbage => value[s] = Garbage
  <1>1. CASE Unlinks(c)
    <2>1. \A p \in 0 .. Top - 1 : Place(p) \in Slots
      BY Places
    <2> QED
      BY <1>1, <2>1, UnlinksBlock, PointerAssumption DEF Linked
  <1>2. CASE ~Unlinks(c)
    <2>1. value' = value
      BY <1>2, StepKinds DEF Quietly, Claims, LooksForBlock, Moves, Empties, Frees
    <2> QED
      BY <2>1 DEF Linked
  <1> QED
    BY <1>1, <1>2

\* A block that is not needed any more is about to be unlinked.
LEMMA UnlinkingKept ==
    ASSUME BulkGood, NEW c \in Consumers, BulkConsumer(c), NEW s \in Linked'
    PROVE  /\ Unlinking(s) => Unlinking(s)'
           /\ \A p \in Nat : key[s] = BlockSize * p /\ s = Place(p) /\ Needed(p) =>
                 Needed(p)' \/ Unlinking(s)'
  <1>1. \A d \in Consumers \ {c} : pc'[d] = pc[d] /\ found'[d] = found[d]
    BY UnemptiedByOthers
  <1>2. Unlinking(s) => Unlinking(s)'
    <2>1. CASE pc[c] = "unlink" /\ found[c].entry = s
      <3>1. Unlinks(c)
        BY <2>1, StepKinds DEF Quietly, Claims, LooksForBlock, Moves, Empties, Frees, Early
      <3> QED
        BY <2>1, <3>1, UnlinksBlock
    <2> QED
      BY <1>1, <2>1 DEF Unlinking
  <1>3. ASSUME NEW p \in Nat, key[s] = BlockSize * p, s = Place(p), Needed(p), ~Needed(p)'
        PROVE  Unlinking(s)'
    <2>1. /\ Empties(c) /\ Base(found[c].index) = BlockSize * p
          /\ \A j \in Cells : ~NotEmptied(BlockSize * p + j)'
      BY <1>3, NeededKept
    <2>2. PICK q \in Nat : Base(found[c].index) = BlockSize * q /\ SlotAt(found[c].index) = Place(q)
      BY ClaimFacts, BlockOf
    <2>3. p = q
      BY <2>1, <2>2, BlocksOrdered
    <2>4. found[c].entry = s
      BY <1>3, <2>1, <2>2, <2>3, EmptyingCounts
    <2>5. elementsCompletelyDequeued[found[c].block] + (Front(c) - found[c].index) = BlockSize
      <3>1. /\ Cardinality({j \in Cells : ~NotEmptied(BlockSize * p + j)'}) =
                  elementsCompletelyDequeued[found[c].block] + (Front(c) - found[c].index)
            /\ (\A j \in Cells : ~NotEmptied(BlockSize * p + j)') <=>
                  Cardinality({j \in Cells : ~NotEmptied(BlockSize * p + j)'}) = BlockSize
        BY <2>1, EmptyingCounts
      <3> QED
        BY <2>1, <3>1
    <2>6. pc'[c] = "unlink" /\ found'[c] = found[c]
      BY <2>1, <2>5 DEF Empties
    <2> QED
      BY <2>4, <2>6 DEF Unlinking
  <1> QED
    BY <1>2, <1>3

\* The blocks after the last element are needed, until they are undone.
LEMMA Ahead ==
    ASSUME BulkGood, NEW p \in Nat, Filled + batch.undone <= p
    PROVE  Needed(p) /\ NotEmptied(BlockSize * p + 0) /\ \A j \in Cells : NotEmptied(BlockSize * p + j)
  <1>1. /\ Filled \in Nat /\ batch.undone \in Nat /\ headIndex \in Nat /\ tailIndex \in Nat
        /\ headIndex <= tailIndex /\ tailIndex <= BlockSize * Filled /\ 0 \in Cells
    BY Numbers, SizeAssumption DEF BulkGood, HeadNeverPassesTail, Cells
  <1> DEFINE x == BlockSize * p
             y == BlockSize * Filled
  <1>2. x \in Int /\ y \in Int /\ (p < Filled <=> x < y)
    <2>1. p \in Int /\ Filled \in Int
      BY <1>1
    <2> QED
      BY <2>1, BlocksOrdered, Zenon
  <1>3. ~(p < Filled) /\ Filled <= p /\ ~(p < Filled + batch.undone)
    BY <1>1
  <1>4. y <= x /\ tailIndex <= y
    <2> HIDE DEF x, y
    <2>1. y <= x
      BY <1>2, <1>3
    <2> QED
      BY <1>1, <2>1 DEF y
  <1>5. \A j \in Cells : x + j >= headIndex
    <2>1. /\ headIndex \in Nat /\ tailIndex \in Nat /\ headIndex <= tailIndex
          /\ x \in Int /\ y \in Int /\ y <= x /\ tailIndex <= y
      BY <1>1, <1>2, <1>4
    <2>2. \A j \in Cells : j \in Nat
      BY SizeAssumption DEF Cells
    <2> HIDE DEF x, y
    <2> QED
      BY ONLY <2>1, <2>2
  <1> QED
    BY <1>1, <1>3, <1>5 DEF Needed, NotEmptied

LEMMA ChainNeeded ==
    ASSUME BulkGood, NEW k \in batch.undone + 1 .. Len(batch.chain)
    PROVE  /\ Filled + k - 1 \in 0 .. Top - 1 /\ Needed(Filled + k - 1)
           /\ batch # NoBatch /\ Top = Filled + Len(batch.chain)
  <1>1. /\ batch.undone \in Nat /\ Len(batch.chain) \in Nat /\ Filled \in Nat
    BY Numbers DEF BulkGood
  <1>2. k \in Int /\ batch.undone + 1 <= k /\ k <= Len(batch.chain)
    BY <1>1
  <1>3. batch # NoBatch
    <2>1. Len(batch.chain) > 0
      BY <1>1, <1>2
    <2> QED
      BY <2>1 DEF NoBatch
  <1>4. Top = Filled + Len(batch.chain)
    BY <1>3 DEF Top
  <1> DEFINE p == Filled + k - 1
             n == Len(batch.chain)
  <1>5. p \in Nat /\ p \in 0 .. Top - 1 /\ Filled + batch.undone <= p
    <2>1. PICK f, u : f = Filled /\ u = batch.undone
      OBVIOUS
    <2>2. f \in Nat /\ u \in Nat /\ n \in Nat /\ k \in Int /\ u + 1 <= k /\ k <= n
          /\ p = f + k - 1 /\ Top = f + n
      BY <1>1, <1>2, <1>4, <2>1
    <2> HIDE DEF p, n
    <2>3. p \in Nat /\ p \in 0 .. Top - 1 /\ f + u <= p
      BY ONLY <2>2
    <2> QED
      BY <2>1, <2>3
  <1> HIDE DEF p
  <1>6. Needed(p)
    BY <1>5, Ahead
  <1> QED
    BY <1>3, <1>4, <1>5, <1>6 DEF p

LEMMA ConsumerKeepsIndex ==
    ASSUME BulkGood, NEW c \in Consumers, BulkConsumer(c)
    PROVE  IndexRight' /\ SlotsRight' /\ BatchRight'
  <1>1. /\ UNCHANGED <<tailIndex, indexTail, key, ppc, newBlock, tailBlock, batch>>
        /\ Filled' = Filled /\ Top' = Top /\ Shift' = Shift /\ (Inserting' <=> Inserting)
    BY CallsApart, SameRing DEF BulkGood
  <1>2. IndexRight /\ SlotsRight /\ BatchRight /\ Top \in Nat /\ Filled \in Nat /\ Filled <= Top
    BY Alive, Numbers DEF BulkGood, BulkLayoutInv
  <1>3. /\ Linked' \subseteq Linked /\ \A s \in Linked' : value'[s] = value[s]
        /\ \A s \in Slots : value'[s] = Garbage => value[s] = Garbage
    BY ConsumerLinks
  <1>4. \A p \in 0 .. Top - 1 : Needed(p)' =>
           /\ Needed(p) /\ value'[Place(p)] = value[Place(p)]
           /\ Place(p) \in Linked => Place(p) \in Linked'
    <2>1. \A p \in 0 .. Top - 1 : p \in Nat
      BY <1>2
    <2> QED
      BY <2>1, NeededKept, ConsumerLinks
  <1>5. SlotsRight'
    <2>1. Place(Top)' = Place(Top)
      BY <1>1 DEF Place
    <2>2. Inserting' => key'[Place(Top)] = BlockSize * Top /\ Place(Top) \notin Linked'
      BY <1>1, <1>2, <1>3 DEF SlotsRight
    <2>3. \A s \in Slots : value'[s] = Garbage =>
             key'[s] = INVALID_BLOCK_BASE \/ (Inserting' /\ s = Place(Top))
      BY <1>1, <1>2, <1>3 DEF SlotsRight
    <2>4. newBlock' # Null <=> ppc' \in {"reset", "publish"}
      BY <1>1, <1>2 DEF SlotsRight
    <2> QED
      BY <1>1, <2>1, <2>2, <2>3, <2>4 DEF SlotsRight
  <1>6. BatchRight'
    BY <1>1, <1>2 DEF BatchRight, ChainBase, LastBase, Inserting
  <1>7. indexTail' = Place(Top - 1 + Shift)' /\ KeysInPlace'
    BY <1>1, <1>2 DEF IndexRight, KeysInPlace, Place
  <1>8. NeededLinked'
    BY <1>1, <1>2, <1>4 DEF IndexRight, NeededLinked, Place
  <1>9. LinkedNeeded'
    <2> SUFFICES ASSUME NEW s \in Linked'
                 PROVE  \E p \in 0 .. Top - 1 :
                           /\ key[s] = BlockSize * p /\ s = Place(p)
                           /\ Needed(p)' \/ Unlinking(s)'
      BY <1>1 DEF LinkedNeeded, Place
    <2>1. PICK p \in 0 .. Top - 1 :
             key[s] = BlockSize * p /\ s = Place(p) /\ (Needed(p) \/ Unlinking(s))
      BY <1>2, <1>3 DEF IndexRight, LinkedNeeded
    <2>2. p \in Nat
      BY <1>2
    <2> QED
      BY <2>1, <2>2, UnlinkingKept
  <1>10. LastKeyKept'
    BY <1>1, <1>2, <1>3 DEF IndexRight, LastKeyKept, Place
  <1>11. ChainInPlace'
    <2> SUFFICES ASSUME NEW k \in batch.undone + 1 .. Len(batch.chain)
                 PROVE  value'[Place(Filled + k - 1)] = batch.chain[k]
      BY <1>1 DEF ChainInPlace, Place
    <2>1. value[Place(Filled + k - 1)] = batch.chain[k]
      BY <1>2 DEF IndexRight, ChainInPlace
    <2>2. Filled + k - 1 \in 0 .. Top - 1 /\ Needed(Filled + k - 1)
      BY ChainNeeded
    <2> QED
      BY <2>1, <2>2, ConsumerLinks
  <1>12. TailRight'
    <2>1. PICK f, t : f = Filled /\ t = Top
      OBVIOUS
    <2>2. (f > 0 => f - 1 \in 0 .. Top - 1) /\ (t > 0 => t - 1 \in 0 .. Top - 1)
      BY <1>2, <2>1
    <2>3. f > 0 /\ Needed(f - 1)' /\ batch # NoBatch => batch.start = value'[Place(f - 1)]
      BY <1>2, <1>4, <2>1, <2>2 DEF IndexRight, TailRight
    <2>4. t > 0 /\ Needed(t - 1)' /\ batch = NoBatch => tailBlock = value'[Place(t - 1)]
      BY <1>2, <1>4, <2>1, <2>2 DEF IndexRight, TailRight
    <2>5. batch # NoBatch /\ ppc \notin {"undo", "undo tail"} =>
             tailBlock = IF batch.chain = <<>> THEN batch.start
                                               ELSE batch.chain[Len(batch.chain)]
      BY <1>2 DEF IndexRight, TailRight
    <2>6. Filled' = f /\ Top' = t
      BY <1>1, <2>1
    <2>7. /\ Needed(Filled - 1)' <=> Needed(f - 1)'
          /\ Needed(Top - 1)' <=> Needed(t - 1)'
      BY <2>6 DEF Needed
    <2>8. Place(Filled - 1)' = Place(f - 1) /\ Place(Top - 1)' = Place(t - 1)
      BY <2>6 DEF Place
    <2> QED
      BY <1>1, <2>3, <2>4, <2>5, <2>6, <2>7, <2>8 DEF TailRight
  <1> QED
    BY <1>5, <1>6, <1>7, <1>8, <1>9, <1>10, <1>11, <1>12 DEF IndexRight

LEMMA BasesAreKeys ==
    ASSUME NEW p \in Nat
    PROVE  /\ BlockSize * p # INVALID_BLOCK_BASE /\ BlockSize * p \in Nat
           /\ (BlockSize * p) % BlockSize = 0 /\ (BlockSize * p) \div BlockSize = p
  <1>1. BlockSize \in Nat /\ BlockSize > 0
    BY SizeAssumption
  <1>2. /\ BlockSize * p \in Nat /\ (BlockSize * p) % BlockSize = 0
        /\ (BlockSize * p) \div BlockSize = p
    BY <1>1, Multiples
  <1>3. BlockSize * p # INVALID_BLOCK_BASE
    BY <1>2, OneIsNoBase DEF Cell
  <1> QED
    BY <1>2, <1>3

\* A linked slot has the key of its block.
LEMMA LinkedKey ==
    ASSUME BulkGood, IndexRight, NEW s \in Linked
    PROVE  \E p \in 0 .. Top - 1 : /\ p \in Nat /\ key[s] = BlockSize * p /\ s = Place(p)
                                   /\ key[s] # INVALID_BLOCK_BASE /\ BlockSize * p \in Nat
                                   /\ Needed(p) \/ Unlinking(s)
  <1>1. PICK p \in 0 .. Top - 1 :
           key[s] = BlockSize * p /\ s = Place(p) /\ (Needed(p) \/ Unlinking(s))
    BY DEF IndexRight, LinkedNeeded
  <1>2. p \in Nat
    BY Numbers DEF BulkGood
  <1> QED
    BY <1>1, <1>2, BasesAreKeys

LEMMA TopAndUndone ==
    ASSUME BulkGood
    PROVE  /\ Filled + batch.undone <= Top /\ batch.undone \in Nat
           /\ ppc \notin {"undo", "undo tail"} => batch.undone = 0
           /\ ppc = "undo tail" => batch.undone > 0
           /\ batch = NoBatch => batch.undone = 0
  <1>1. /\ batch.undone \in Nat /\ Len(batch.chain) \in Nat /\ batch.undone <= Len(batch.chain)
        /\ Filled \in Nat /\ Top \in Nat /\ Filled <= Top
    BY Numbers DEF BulkGood
  <1>2. batch = NoBatch => batch.undone = 0
    BY DEF NoBatch
  <1>3. Filled + batch.undone <= Top
    BY <1>1, <1>2 DEF Top
  <1> QED
    BY <1>1, <1>2, <1>3 DEF BulkGood, BulkLayoutInv, BatchRight

\* get_block_index_index_for_index starts from a key that is one, whatever the producer
\* puts in the index or takes out again.
LEMMA BulkTailHasKey ==
    ASSUME BulkGood, IndexRight, tailIndex > 0
    PROVE  /\ key[indexTail] # INVALID_BLOCK_BASE /\ key[indexTail] \in Nat
           /\ key[indexTail] % BlockSize = 0 /\ Place(key[indexTail] \div BlockSize) = indexTail
           /\ indexTail \in Slots
  <1>1. /\ indexTail \in Slots /\ key \in [Slots -> Nat] /\ indexTail = Place(Top - 1 + Shift)
        /\ KeysInPlace /\ NeededLinked /\ SlotsRight
    BY DEF BulkGood, BulkTypeOK, TypeOK, IndexRight, BulkLayoutInv
  <1>2. /\ Filled \in Nat /\ Top \in Nat /\ tailIndex \in Nat /\ tailIndex <= BlockSize * Filled
        /\ BlockSize \in Nat
    BY Numbers DEF BulkGood
  <1>3. Filled > 0
    <2>1. ASSUME Filled = 0 PROVE FALSE
      <3>1. BlockSize * Filled = 0
        BY <1>2, <2>1
      <3> QED
        BY <1>2, <3>1
    <2> QED
      BY <1>2, <2>1
  <1>t. \A n \in Int : (n = 1 - batch.undone /\ batch.undone > 0) \/ n = -batch.undone =>
           Top - 1 + n \in 0 .. Top - 1
    <2>1. PICK f, t, u : f = Filled /\ t = Top /\ u = batch.undone
      OBVIOUS
    <2>2. f \in Nat /\ t \in Nat /\ u \in Nat /\ f + u <= t /\ f > 0
      BY <1>2, <1>3, <2>1, TopAndUndone
    <2>3. \A n \in Int : (n = 1 - u /\ u > 0) \/ n = -u => t - 1 + n \in 0 .. t - 1
      BY ONLY <2>2
    <2> QED
      BY <2>1, <2>3
  <1>4. key[indexTail] # INVALID_BLOCK_BASE
    <2>1. CASE Shift = 1 /\ Inserting
      <3>1. indexTail = Place(Top)
        <4>1. Top - 1 + 1 = Top
          BY <1>2
        <4> QED
          BY <1>1, <2>1, <4>1
      <3> QED
        BY <1>1, <1>2, <2>1, <3>1, BasesAreKeys DEF SlotsRight
    <2>2. CASE Top - 1 + Shift \in 0 .. Top - 1
      BY <1>1, <2>2 DEF NeededLinked
    <2>3. (Shift = 1 /\ Inserting) \/ Top - 1 + Shift \in 0 .. Top - 1
      <3>1. CASE ppc \in {"requisition", "rewind", "reset", "publish"}
        BY <3>1 DEF Shift, Inserting
      <3>2. CASE ppc = "undo tail"
        <4>1. Shift = 1 - batch.undone
          BY <3>2 DEF Shift
        <4>2. batch.undone \in Nat /\ batch.undone > 0
          BY <3>2, TopAndUndone
        <4>3. Shift \in Int
          BY <4>1, <4>2
        <4> QED
          BY <1>t, <4>1, <4>2, <4>3
      <3>3. CASE ppc \notin {"requisition", "rewind", "reset", "publish", "undo tail"}
        <4>1. Shift = -batch.undone
          BY <3>3 DEF Shift
        <4>2. batch.undone \in Nat
          BY TopAndUndone
        <4>3. Shift \in Int
          BY <4>1, <4>2
        <4> QED
          BY <1>t, <4>1, <4>2, <4>3
      <3> QED
        BY <3>1, <3>2, <3>3
    <2> QED
      BY <2>1, <2>2, <2>3
  <1> QED
    BY <1>1, <1>4 DEF KeysInPlace

LEMMA FoundInPlace ==
    ASSUME BulkGood, IndexRight, NEW i \in Nat, NEW s \in Slots, key[s] # INVALID_BLOCK_BASE
    PROVE  SlotOf(i, s, key[s]) = SlotAt(i)
  <1>1. key[s] \in Nat /\ key[s] % BlockSize = 0 /\ Place(key[s] \div BlockSize) = s
    BY DEF BulkGood, BulkTypeOK, TypeOK, IndexRight, KeysInPlace
  <1> QED
    BY <1>1, LooksUp

LEMMA ConsumersApart ==
    ASSUME BulkGood, NEW c \in Consumers, BulkConsumer(c),
           NEW d \in Consumers, NEW e \in Consumers \ {d}
    PROVE  Unemptied(d)' \cap Unemptied(e)' = {}
  <1>1. \A a \in Consumers : \A b \in Consumers \ {a} : Unemptied(a) \cap Unemptied(b) = {}
    BY ClaimFacts DEF BulkClaimRight
  <1>2. \A a \in Consumers \ {c} : Unemptied(a)' = Unemptied(a)
    BY UnemptiedByOthers
  <1>3. \A a \in Consumers \ {c} : Unemptied(a) \cap Unemptied(c)' = {}
    <2> TAKE a \in Consumers \ {c}
    <2>1. CASE Claims(c)
      <3> SUFFICES ASSUME NEW i \in Unemptied(a), i \in Unemptied(c)' PROVE FALSE
        OBVIOUS
      <3>1. i \in Nat /\ i < headIndex /\ headIndex \in Nat
        BY HeldIndex, Numbers DEF BulkGood
      <3>2. i \in headIndex .. headIndex' - 1 /\ headIndex' \in Nat
        BY <2>1, UnemptiedByClaim DEF Claims
      <3> QED
        BY <3>1, <3>2
    <2>2. CASE Empties(c)
      <3>1. Unemptied(c)' \subseteq Unemptied(c)
        <4>1. PICK i, f, u : i = found[c].index /\ f = Front(c) /\ u = Until(c)
          OBVIOUS
        <4>2. /\ Unemptied(c) = i .. u - 1 /\ Unemptied(c)' = f .. u - 1
              /\ i \in Nat /\ u \in Nat /\ f \in Nat /\ i < f
          BY <2>2, <4>1, UnemptiedByEmptying
        <4> QED
          BY <4>2
      <3> QED
        BY <1>1, <3>1
    <2>3. CASE ~Claims(c) /\ ~Empties(c)
      <3>1. Unemptied(c)' = Unemptied(c)
        BY <2>3, StepKinds, UnemptiedKept
      <3> QED
        BY <1>1, <3>1
    <2> QED
      BY <2>1, <2>2, <2>3
  <1> QED
    BY <1>1, <1>2, <1>3

\* What the other calls have, they keep.
LEMMA BulkClaimOfOthers ==
    ASSUME BulkGood, NEW c \in Consumers, BulkConsumer(c), NEW d \in Consumers \ {c}
    PROVE  BulkClaimRight(d)'
  <1> DEFINE i == found[d].index
             s == found[d].entry
  <1>1. /\ Until(d)' = Until(d) /\ Front(d)' = Front(d)
        /\ pc'[d] = pc[d] /\ found'[d] = found[d] /\ grab'[d] = grab[d]
        /\ \A e \in Consumers \ {c} : pc'[e] = pc[e] /\ found'[e] = found[e]
        /\ (HasClaimed(d)' <=> HasClaimed(d)) /\ MovedTo(d)' = MovedTo(d) /\ key' = key
    BY UnemptiedByOthers, CallsApart DEF HasClaimed, MovedTo, BulkGood
  <1>2. /\ BulkClaimRight(d) /\ i \in Nat /\ Until(d) \in Nat /\ s \in Slots /\ IndexRight
        /\ headIndex \in Nat /\ value \in [Slots -> Blocks \cup {Null, Garbage}]
    BY ClaimFacts, Alive, Numbers DEF BulkGood, BulkTypeOK, TypeOK
  <1>3. headIndex' \in Nat /\ headIndex <= headIndex'
    BY <1>2, StepKinds DEF Quietly, Claims, LooksForBlock, Moves, Empties, Unlinks, Frees
  <1>4. ASSUME pc[d] \in {"move", "empty", "unlink"}
        PROVE  s \in Linked' /\ value'[s] = value[s] /\ s \in Linked /\ found[d].block = value[s]
               /\ s = SlotAt(i)
    <2>1. s \in Linked /\ found[d].block = value[s] /\ s = SlotAt(i)
      BY <1>2, <1>4 DEF BulkClaimRight
    <2>2. s \in Linked'
      <3>1. CASE Unlinks(c)
        <4>1. CASE pc[d] = "unlink"
          BY <2>1, <3>1, <4>1, UnlinksBlock
        <4>2. CASE InHand(d)
          <5>1. PICK p \in 0 .. Filled - 1 : SlotAt(i) = Place(p) /\ Needed(p)
            BY <4>2, HandBlock
          <5>2. p \in 0 .. Top - 1
            BY <5>1, Numbers DEF BulkGood
          <5> QED
            BY <2>1, <3>1, <5>1, <5>2, UnlinksBlock
        <4> QED
          BY <1>4, <4>1, <4>2 DEF InHand
      <3> QED
        BY <2>1, <3>1, ConsumerLinks
    <2> QED
      BY <2>1, <2>2, ConsumerLinks
  <1>5. HasClaimed(d) => i < Until(d) /\ Until(d) <= headIndex'
    BY <1>2, <1>3 DEF BulkClaimRight
  <1>6. \A e \in Consumers \ {d} : Unemptied(d)' \cap Unemptied(e)' = {}
    BY ConsumersApart
  <1>7. ASSUME pc[d] = "unlink"
        PROVE  /\ \A j \in Cells : ~NotEmptied(Base(i) + j)
               /\ key[s] = Base(i)
               /\ \A e \in Consumers \ {d} : pc'[e] = "unlink" => found'[e].entry # s
    <2>1. /\ key[s] = Base(i) /\ \A j \in Cells : ~NotEmptied(Base(i) + j)
          /\ \A e \in Consumers \ {d} : pc[e] = "unlink" => found[e].entry # s
      BY <1>2, <1>7 DEF BulkClaimRight
    <2>2. ASSUME pc'[c] = "unlink", found'[c].entry = s PROVE FALSE
      <3>1. Empties(c) /\ found'[c] = found[c] /\ pc[c] = "empty"
        BY <2>2, StepKinds
           DEF Quietly, Claims, LooksForBlock, Moves, Empties, Unlinks, Frees, Leaves, Early
      <3>2. key[s] = Base(found[c].index)
        BY <2>2, <3>1, EmptyingRoom
      <3>3. found[c].index \in Unemptied(c) /\ Cell(found[c].index) \in Cells
            /\ found[c].index = Base(found[c].index) + Cell(found[c].index)
        <4>1. InHand(c) /\ found[c].index \in Nat
          BY <3>1, ClaimFacts DEF InHand
        <4> QED
          BY <4>1, HandBlock, IndexParts
      <3>4. NotEmptied(Base(i) + Cell(found[c].index))
        BY <2>1, <3>2, <3>3, HeldIndex
      <3> QED
        BY <2>1, <3>3, <3>4
    <2> QED
      BY <1>1, <2>1, <2>2
  <1>8. ASSUME pc[d] = "unlink" PROVE (\A j \in Cells : ~NotEmptied(Base(i) + j))'
    <2>1. PICK b \in Nat : b = Base(i)
      BY <1>2, IndexParts
    <2>2. Base(i)' = b
      BY <1>1, <2>1 DEF Base
    <2>3. \A j \in Cells : b + j \in Nat
      BY SizeAssumption DEF Cells
    <2>4. \A j \in Cells : ~NotEmptied(b + j)'
      BY <1>7, <1>8, <2>1, <2>3, NotEmptiedKept, NotEmptiedLess
    <2> QED
      BY <2>2, <2>4 DEF NotEmptied
  <1>9. ASSUME pc[d] = "free"
        PROVE  /\ found[d].block \in Blocks
               /\ \A e \in Consumers \ {d} : pc'[e] = "free" => found'[e].block # found[d].block
    <2>1. /\ found[d].block \in Blocks
          /\ \A e \in Consumers \ {d} : pc[e] = "free" => found[e].block # found[d].block
      BY <1>2, <1>9 DEF BulkClaimRight
    <2>2. ASSUME pc'[c] = "free", found'[c].block = found[d].block PROVE FALSE
      <3>1. Unlinks(c) /\ found'[c] = found[c]
        BY <2>2, StepKinds
           DEF Quietly, Claims, LooksForBlock, Moves, Empties, Unlinks, Frees, Leaves, Early
      <3>2. found[c].block \in InRing
        BY <3>1, UnlinksBlock DEF InRing
      <3>3. found[d].block \in Released
        BY <1>9 DEF Released
      <3> QED
        BY <2>2, <3>1, <3>2, <3>3 DEF BulkGood, BulkLayoutInv, BulkPlacesRight
    <2> QED
      BY <1>1, <2>1, <2>2
  <1>10. pc[d] = "key" => key[s] # INVALID_BLOCK_BASE
    BY <1>2 DEF BulkClaimRight
  <1>11. pc[d] \in {"value", "move", "empty", "unlink", "free"} => s = SlotAt(i)
    BY <1>2 DEF BulkClaimRight
  <1>12. /\ pc[d] \in {"slot", "key", "value", "move"} /\ grab[d] # NoGrab => MovedTo(d) = i
         /\ pc[d] \in {"empty", "unlink", "free"} => Front(d) = Min2(Base(i) + BlockSize, Until(d))
    BY <1>2 DEF BulkClaimRight
  <1> QED
    BY <1>1, <1>4, <1>5, <1>6, <1>7, <1>8, <1>9, <1>10, <1>11, <1>12 DEF BulkClaimRight, i, s

\* The next block of a bulk dequeue is in the next slot.
LEMMA LeavesRight ==
    ASSUME BulkGood, NEW c \in Consumers, BulkConsumer(c), Leaves(c),
           pc[c] \in {"empty", "free"}, headIndex' = headIndex
    PROVE  BulkClaimRight(c)'
  <1>1. \A d \in Consumers \ {c} : Unemptied(c)' \cap Unemptied(d)' = {}
    BY ConsumersApart
  <1>2. CASE pc'[c] = "idle"
    BY <1>1, <1>2 DEF BulkClaimRight, HasClaimed
  <1>3. CASE pc'[c] # "idle"
    <2> DEFINE i == found[c].index
               s == found[c].entry
               f == Front(c)
               u == Until(c)
    <2>1. /\ pc'[c] = "value" /\ grab[c] # NoGrab /\ grab'[c] = grab[c]
          /\ f # u /\ f = MovedTo(c) /\ found'[c].index = f
          /\ found'[c].entry = (s + 1) % IndexCap
      BY <1>3 DEF Leaves
    <2>2. /\ BulkClaimRight(c) /\ i \in Nat /\ f \in Nat /\ u \in Nat /\ headIndex \in Nat
      BY ClaimFacts, Numbers DEF BulkGood
    <2>3. /\ i < u /\ u <= headIndex /\ f = Min2(Base(i) + BlockSize, u) /\ s = SlotAt(i)
      BY <2>2 DEF BulkClaimRight, HasClaimed
    <2>4. PICK p \in Nat : /\ Base(i) = BlockSize * p /\ SlotAt(i) = Place(p)
                           /\ BlockSize * p \in Nat
      BY <2>2, BlockOf
    <2>5. f = BlockSize * p + BlockSize /\ f < u
      <3> DEFINE x == BlockSize * p
      <3>1. f = Min2(x + BlockSize, u) /\ x \in Nat /\ f # u /\ BlockSize \in Nat
        BY <2>1, <2>3, <2>4, SizeAssumption
      <3> HIDE DEF x, f, u
      <3>2. f = x + BlockSize /\ f < u
        BY <2>2, <3>1 DEF Min2
      <3> QED
        BY <3>2 DEF x
    <2>6. SlotAt(f) = Place(p + 1)
      <3>1. p + 1 \in Nat /\ 0 \in Cells
        BY SizeAssumption DEF Cells
      <3>2. SlotAt(BlockSize * (p + 1) + 0) = Place(p + 1)
        BY <3>1, InBlockOf
      <3>3. BlockSize * (p + 1) + 0 = f
        <4>1. BlockSize * (p + 1) = BlockSize * p + BlockSize
          BY BlocksOrdered
        <4> QED
          BY <2>2, <2>5, <4>1
      <3> QED
        BY <3>2, <3>3
    <2>7. found'[c].entry = SlotAt(f)
      BY <2>1, <2>3, <2>4, <2>6, Places
    <2>8. /\ Until(c)' = u /\ MovedTo(c)' = MovedTo(c)
      BY <2>1 DEF Until, ClaimedTo, MovedTo
    <2> HIDE DEF i, s, f, u
    <2>9. SlotAt(found[c].index)' = SlotAt(f)
      BY <2>1 DEF SlotAt
    <2> QED
      BY <1>1, <2>1, <2>3, <2>5, <2>7, <2>8, <2>9 DEF BulkClaimRight
  <1> QED
    BY <1>2, <1>3

LEMMA EmptiesRight ==
    ASSUME BulkGood, NEW c \in Consumers, BulkConsumer(c), Empties(c)
    PROVE  BulkClaimRight(c)'
  <1> DEFINE i == found[c].index
             s == found[c].entry
  <1>1. \A d \in Consumers \ {c} : Unemptied(c)' \cap Unemptied(d)' = {}
    BY ConsumersApart
  <1>2. CASE Leaves(c)
    BY <1>2, LeavesRight DEF Empties
  <1>3. CASE /\ elementsCompletelyDequeued[found[c].block] + (Front(c) - i) = BlockSize
             /\ pc'[c] = "unlink" /\ found'[c] = found[c] /\ grab'[c] = grab[c]
    <2>1. /\ BulkClaimRight(c) /\ i \in Nat /\ pc[c] = "empty" /\ UNCHANGED <<headIndex, value, key>>
      BY ClaimFacts, CallsApart DEF Empties, BulkGood
    <2>2. PICK p \in Nat : Base(i) = BlockSize * p
      BY <2>1, BlockOf
    <2>3. /\ s \in Linked /\ s = SlotAt(i) /\ key[s] = BlockSize * p /\ value[s] = found[c].block
          /\ \A j \in Cells : ~NotEmptied(BlockSize * p + j)'
      BY <1>3, <2>2, EmptyingCounts
    <2>4. \A d \in Consumers \ {c} : pc'[d] = pc[d] /\ found'[d] = found[d]
      BY UnemptiedByOthers
    <2>5. ASSUME NEW d \in Consumers \ {c}, pc[d] = "unlink", found[d].entry = s PROVE FALSE
      <3>1. key[s] = Base(found[d].index) /\ \A j \in Cells : ~NotEmptied(Base(found[d].index) + j)
        BY <2>5, ClaimFacts DEF BulkClaimRight
      <3>2. i \in Unemptied(c) /\ i = Base(i) + Cell(i) /\ Cell(i) \in Cells
        BY <2>1, HandBlock, IndexParts DEF InHand
      <3>3. NotEmptied(i)
        BY <3>2, HeldIndex
      <3> QED
        BY <2>2, <2>3, <3>1, <3>2, <3>3
    <2>6. /\ Until(c)' = Until(c) /\ Front(c)' = Front(c)
      BY <1>3 DEF Until, Front, ClaimedTo, MovedTo
    <2>7. i < Until(c) /\ Until(c) <= headIndex /\ Front(c) = Min2(Base(i) + BlockSize, Until(c))
      BY <2>1 DEF BulkClaimRight, HasClaimed
    <2>8. Base(found[c].index)' = BlockSize * p /\ SlotAt(found[c].index)' = SlotAt(i)
          /\ Linked' = Linked
      BY <1>3, <2>1, <2>2 DEF Base, SlotAt, Linked
    <2>9. (\A j \in Cells : ~NotEmptied(Base(found[c].index) + j))'
      BY <2>3, <2>8 DEF NotEmptied
    <2>10. \A d \in Consumers \ {c} : pc'[d] = "unlink" => found'[d].entry # s
      BY <2>4, <2>5
    <2> QED
      BY <1>1, <1>3, <2>1, <2>2, <2>3, <2>6, <2>7, <2>8, <2>9, <2>10 DEF BulkClaimRight, i, s
  <1> QED
    BY <1>2, <1>3 DEF Empties

LEMMA BulkClaimOfOwn ==
    ASSUME BulkGood, NEW c \in Consumers, BulkConsumer(c)
    PROVE  BulkClaimRight(c)'
  <1> DEFINE i == found[c].index
             s == found[c].entry
  <1>1. \A d \in Consumers \ {c} : Unemptied(c)' \cap Unemptied(d)' = {}
    BY ConsumersApart
  <1>2. /\ BulkClaimRight(c) /\ i \in Nat /\ s \in Slots /\ IndexRight /\ Until(c) \in Nat
        /\ headIndex \in Nat /\ tailIndex \in Nat /\ headIndex <= tailIndex /\ key' = key
        /\ \A d \in Consumers \ {c} : pc'[d] = pc[d] /\ found'[d] = found[d]
    <2>1. /\ BulkClaimRight(c) /\ i \in Nat /\ s \in Slots /\ Until(c) \in Nat
      BY ClaimFacts
    <2>2. headIndex \in Nat /\ tailIndex \in Nat /\ headIndex <= tailIndex
      BY Numbers DEF BulkGood, HeadNeverPassesTail
    <2>3. key' = key /\ \A d \in Consumers \ {c} : pc'[d] = pc[d] /\ found'[d] = found[d]
      BY CallsApart, UnemptiedByOthers DEF BulkGood
    <2> QED
      BY <2>1, <2>2, <2>3, Alive
  <1>3. CASE Quietly(c)
    BY <1>1, <1>3 DEF Quietly, Early, BulkClaimRight, HasClaimed
  <1>4. CASE Claims(c)
    BY <1>1, <1>2, <1>4 DEF Claims, BulkClaimRight, HasClaimed
  <1>5. CASE LooksForBlock(c)
    <2>1. /\ found'[c].index = i /\ grab'[c] = grab[c] /\ UNCHANGED <<headIndex, value>>
          /\ pc[c] \in {"slot", "key", "value"} /\ pc'[c] \in {"key", "value", "move"}
      BY <1>5 DEF LooksForBlock
    <2>2. /\ Until(c)' = Until(c) /\ MovedTo(c)' = MovedTo(c) /\ Linked' = Linked
          /\ SlotAt(found[c].index)' = SlotAt(i)
      BY <2>1 DEF Until, ClaimedTo, MovedTo, Linked, SlotAt
    <2>3. /\ i < Until(c) /\ Until(c) <= headIndex /\ (grab[c] # NoGrab => MovedTo(c) = i)
      BY <1>2, <2>1 DEF BulkClaimRight, HasClaimed
    <2>4. pc'[c] = "key" => key[found'[c].entry] # INVALID_BLOCK_BASE
      <3>1. pc'[c] = "key" => found'[c].entry = indexTail
        BY <1>5, <2>1 DEF LooksForBlock
      <3>2. tailIndex > 0
        BY <1>2, <2>3
      <3> QED
        BY <1>2, <3>1, <3>2, BulkTailHasKey
    <2>5. pc'[c] \in {"value", "move"} => found'[c].entry = SlotAt(i)
      <3>1. CASE pc[c] = "key"
        <4>1. key[s] # INVALID_BLOCK_BASE /\ found'[c].entry = SlotOf(i, s, key[s])
          BY <1>2, <1>5, <3>1 DEF BulkClaimRight, LooksForBlock
        <4> QED
          BY <1>2, <4>1, FoundInPlace
      <3>2. CASE pc[c] = "value"
        BY <1>2, <1>5, <3>2 DEF BulkClaimRight, LooksForBlock
      <3> QED
        BY <1>5, <2>1, <3>1, <3>2 DEF LooksForBlock
    <2>6. pc'[c] = "move" => /\ found'[c].entry \in Linked
                             /\ found'[c].block = value[found'[c].entry]
      <3> SUFFICES ASSUME pc'[c] = "move" PROVE s \in Linked /\ found'[c].entry = s
                                                /\ found'[c].block = value[s]
        OBVIOUS
      <3>1. pc[c] = "value" /\ found'[c].entry = s /\ found'[c].block = value[s]
        BY <1>5 DEF LooksForBlock
      <3>2. s = SlotAt(i) /\ SlotAt(i) \in Linked
        BY <1>2, <3>1, HandBlock DEF BulkClaimRight, InHand
      <3> QED
        BY <3>1, <3>2
    <2> QED
      BY <1>1, <1>2, <2>1, <2>2, <2>3, <2>4, <2>5, <2>6 DEF BulkClaimRight
  <1>6. CASE Moves(c)
    <2>1. /\ pc[c] = "move" /\ pc'[c] = "empty" /\ found'[c] = found[c] /\ Until(c)' = Until(c)
          /\ Front(c)' = Min2(Base(i) + BlockSize, Until(c)) /\ UNCHANGED <<headIndex, value>>
      BY <1>6 DEF Moves
    <2>2. /\ i < Until(c) /\ Until(c) <= headIndex /\ s = SlotAt(i) /\ s \in Linked
          /\ found[c].block = value[s]
      BY <1>2, <2>1 DEF BulkClaimRight, HasClaimed
    <2>3. Linked' = Linked /\ Base(found[c].index)' = Base(i)
          /\ SlotAt(found[c].index)' = SlotAt(i)
      BY <2>1 DEF Linked, Base, SlotAt
    <2> QED
      BY <1>1, <2>1, <2>2, <2>3 DEF BulkClaimRight
  <1>7. CASE Unlinks(c)
    <2>1. /\ pc[c] = "unlink" /\ pc'[c] = "free" /\ found'[c] = found[c] /\ grab'[c] = grab[c]
          /\ headIndex' = headIndex
      BY <1>7 DEF Unlinks
    <2>2. /\ i < Until(c) /\ Until(c) <= headIndex /\ s = SlotAt(i)
          /\ Front(c) = Min2(Base(i) + BlockSize, Until(c))
      BY <1>2, <2>1 DEF BulkClaimRight, HasClaimed
    <2>3. found[c].block \in Blocks /\ found[c].block \in InRing
      BY <1>7, UnlinksBlock DEF InRing
    <2>4. \A d \in Consumers \ {c} : pc'[d] = "free" => found'[d].block # found[c].block
      <3>1. \A d \in Consumers : pc[d] = "free" => found[d].block \in Released
        BY DEF Released
      <3> QED
        BY <1>2, <2>3, <3>1 DEF BulkGood, BulkLayoutInv, BulkPlacesRight
    <2>5. Until(c)' = Until(c) /\ Front(c)' = Front(c) /\ Base(found[c].index)' = Base(i)
          /\ SlotAt(found[c].index)' = SlotAt(i)
      BY <2>1 DEF Until, Front, ClaimedTo, MovedTo, Base, SlotAt
    <2> QED
      BY <1>1, <2>1, <2>2, <2>3, <2>4, <2>5 DEF BulkClaimRight
  <1>8. CASE Frees(c)
    BY <1>8, LeavesRight DEF Frees
  <1> QED
    BY <1>3, <1>4, <1>5, <1>6, <1>7, <1>8, StepKinds, EmptiesRight

LEMMA ConsumerCounts ==
    ASSUME BulkGood, NEW c \in Consumers, BulkConsumer(c)
    PROVE  CountsRight'
  <1>1. /\ UNCHANGED <<key, ppc, newBlock>> /\ CountsRight /\ IndexRight
        /\ elementsCompletelyDequeued \in [Blocks -> Nat]
    BY CallsApart, Alive DEF BulkGood, BulkLayoutInv, BulkTypeOK, TypeOK
  <1>2. Linked' \subseteq Linked /\ \A s \in Linked' : value'[s] = value[s]
    BY ConsumerLinks
  <1>3. CASE ~Empties(c)
    <2>1. elementsCompletelyDequeued' = elementsCompletelyDequeued
      BY <1>3, StepKinds DEF Quietly, Claims, LooksForBlock, Moves, Unlinks, Frees
    <2>2. ASSUME NEW s \in Linked'
          PROVE  elementsCompletelyDequeued[value[s]] =
                    Cardinality({j \in Cells : ~NotEmptied(key[s] + j)'})
      <3>1. PICK k \in Nat : k = key[s]
        BY <1>1, <1>2, <2>2, LinkedKey
      <3>2. \A j \in Cells : k + j \in Nat
        BY SizeAssumption DEF Cells
      <3>3. \A j \in Cells : NotEmptied(k + j)' <=> NotEmptied(k + j)
        BY <1>3, <3>2, NotEmptiedKept
      <3>4. {j \in Cells : ~NotEmptied(k + j)'} = {j \in Cells : ~NotEmptied(k + j)}
        BY <3>3
      <3>5. key'[s] = k
        BY <1>1, <3>1
      <3> QED
        BY <1>1, <1>2, <3>1, <3>4, <3>5 DEF CountsRight, NotEmptied
    <2> QED
      BY <1>1, <1>2, <2>1, <2>2 DEF CountsRight, NotEmptied
  <1>4. CASE Empties(c)
    <2> DEFINE h == found[c].entry
    <2>1. PICK p \in Nat : Base(found[c].index) = BlockSize * p /\ SlotAt(found[c].index) = Place(p)
      BY ClaimFacts, BlockOf
    <2>2. PICK n : /\ n = Cardinality({j \in Cells : ~NotEmptied(BlockSize * p + j)'})
                   /\ h \in Linked /\ key[h] = BlockSize * p
                   /\ elementsCompletelyDequeued' =
                         [elementsCompletelyDequeued EXCEPT ![value[h]] = n]
      BY <1>4, <2>1, EmptyingCounts
    <2>3. \A s, r \in Linked : value[s] = value[r] => s = r
      BY DEF BulkGood, BulkLayoutInv, BulkPlacesRight
    <2>4. \A s \in Linked : value[s] \in Blocks /\ value[s] \in InRing
      BY DEF Linked, InRing
    <2>5. elementsCompletelyDequeued'[value[h]] = n
      BY <1>1, <2>2, <2>4
    <2>6. ASSUME NEW s \in Linked', NEW k \in Nat, k = key[s]
          PROVE  elementsCompletelyDequeued'[value[s]] =
                    Cardinality({j \in Cells : ~NotEmptied(k + j)'})
      <3>1. CASE s = h
        BY <2>2, <2>5, <2>6, <3>1
      <3>2. CASE s # h
        <4>1. PICK q \in Nat : key[s] = BlockSize * q /\ s = Place(q)
          BY <1>1, <1>2, LinkedKey
        <4>2. q # p
          <5>1. PICK r \in Nat : key[h] = BlockSize * r /\ h = Place(r)
            BY <1>1, <2>2, LinkedKey
          <5>2. r = p
            BY <2>2, <5>1, BlocksOrdered
          <5> QED
            BY <3>2, <4>1, <5>1, <5>2
        <4>3. ASSUME NEW j \in Cells PROVE NotEmptied(k + j)' <=> NotEmptied(k + j)
          <5>1. k + j \in Nat /\ Base(k + j) = BlockSize * q
            BY <2>6, <4>1, InBlockOf
          <5>2. NotEmptied(k + j)' <=> NotEmptied(k + j) /\ ~(k + j \in found[c].index .. Front(c) - 1)
            BY <1>4, <5>1, NotEmptiedLess
          <5>3. k + j \notin found[c].index .. Front(c) - 1
            <6>1. ASSUME k + j \in found[c].index .. Front(c) - 1 PROVE FALSE
              <7> DEFINE i == found[c].index
                         f == Front(c)
                         x == BlockSize * p
                         y == BlockSize * q
              <7>1. /\ i \in Nat /\ f \in Nat /\ Base(i) \in Nat /\ Base(i) <= i
                    /\ f <= Base(i) + BlockSize
                BY <1>4, UnemptiedByEmptying
              <7>2. /\ x \in Int /\ y \in Int /\ (p < q => x + BlockSize <= y)
                    /\ (q < p => y + BlockSize <= x)
                BY BlocksOrdered
              <7>3. /\ BlockSize \in Nat /\ j \in 0 .. BlockSize - 1 /\ k = y /\ Base(i) = x
                    /\ x <= i /\ f <= x + BlockSize /\ k + j \in i .. f - 1
                BY <2>1, <2>6, <4>1, <6>1, <7>1, SizeAssumption DEF Cells
              <7>4. p < q \/ q < p
                BY <4>2
              <7> HIDE DEF i, f, x, y
              <7>5. i \in Nat /\ f \in Nat
                BY <7>1
              <7> QED
                BY ONLY <7>2, <7>3, <7>4, <7>5
            <6> QED
              BY <6>1
          <5> QED
            BY <5>2, <5>3
        <4>4. {j \in Cells : ~NotEmptied(k + j)'} = {j \in Cells : ~NotEmptied(k + j)}
          BY <4>3
        <4>5. elementsCompletelyDequeued'[value[s]] = elementsCompletelyDequeued[value[s]]
          BY <1>1, <1>2, <2>2, <2>3, <2>4, <3>2
        <4>6. elementsCompletelyDequeued[value[s]] = Cardinality({j \in Cells : ~NotEmptied(k + j)})
          BY <1>1, <1>2, <2>6 DEF CountsRight
        <4> QED
          BY <4>4, <4>5, <4>6
      <3> QED
        BY <3>1, <3>2
    <2>7. \A s \in Linked' : key[s] \in Nat
      BY <1>1, <1>2, LinkedKey
    <2>8. ppc = "publish" => elementsCompletelyDequeued'[newBlock] = 0
      <3>1. ASSUME ppc = "publish" PROVE newBlock \notin InRing /\ newBlock \in Blocks
        BY <3>1, PointerAssumption DEF BulkGood, BulkLayoutInv, BulkPlacesRight, SlotsRight,
           BulkTypeOK, TypeOK
      <3> QED
        BY <1>1, <2>2, <2>4, <3>1 DEF CountsRight
    <2>9. ASSUME NEW s \in Linked'
          PROVE  elementsCompletelyDequeued'[value'[s]] =
                    Cardinality({j \in Cells : ~NotEmptied(key[s] + j)})'
      <3>1. PICK k \in Nat : k = key[s]
        BY <2>7
      <3>2. key'[s] = k
        BY <1>1, <3>1
      <3>3. {j \in Cells : ~NotEmptied(key[s] + j)}' = {j \in Cells : ~NotEmptied(k + j)'}
        BY <3>2 DEF NotEmptied
      <3> QED
        BY <1>2, <2>6, <3>1, <3>3
    <2> QED
      BY <1>1, <2>8, <2>9 DEF CountsRight
  <1> QED
    BY <1>3, <1>4

LEMMA BulkPlacesByConsumer ==
    ASSUME BulkGood, NEW c \in Consumers, BulkConsumer(c) PROVE BulkPlacesRight'
  <1>1. /\ UNCHANGED <<pool, other, newBlock, batch>> /\ BulkPlacesRight
        /\ pc \in [Consumers -> ConsumerSteps]
    BY CallsApart, ClaimFacts DEF BulkGood, BulkLayoutInv
  <1>2. \A d \in Consumers \ {c} : pc'[d] = pc[d] /\ found'[d] = found[d]
    BY UnemptiedByOthers
  <1>3. Undone' = Undone
    BY <1>1 DEF Undone
  <1> DEFINE b == found[c].block
  <1>4. ASSUME NEW x
        PROVE  /\ x \in Released' <=> \E d \in Consumers : pc'[d] = "free" /\ found'[d].block = x
               /\ x \in Released <=> \E d \in Consumers : pc[d] = "free" /\ found[d].block = x
    BY DEF Released
  <1>5. CASE Unlinks(c)
    <2> DEFINE h == found[c].entry
    <2>1. /\ pc[c] = "unlink" /\ pc'[c] = "free" /\ found'[c].block = b /\ freeing' = freeing
      BY <1>5 DEF Unlinks
    <2>2. /\ h \in Linked /\ b = value[h] /\ b \in Blocks /\ Linked' = Linked \ {h}
          /\ \A s \in Linked' : s \in Linked /\ s # h /\ value'[s] = value[s]
      BY <1>5, UnlinksBlock DEF Linked
    <2> HIDE DEF b, h
    <2>3. Released' = Released \cup {b}
      BY <1>2, <1>4, <2>1
    <2>4. InRing' = InRing \ {b} /\ b \in InRing
      BY <1>1, <2>2 DEF InRing, BulkPlacesRight
    <2>5. \A s, r \in Linked' : value'[s] = value'[r] => s = r
      BY <1>1, <2>2 DEF BulkPlacesRight
    <2> QED
      BY <1>1, <1>3, <2>1, <2>3, <2>4, <2>5 DEF BulkPlacesRight
  <1>6. CASE Frees(c)
    <2>1. /\ pc[c] = "free" /\ pc'[c] # "free" /\ freeing' = freeing \cup {b} /\ value' = value
      BY <1>6 DEF Frees, Leaves
    <2>2. b \in Blocks /\ \A d \in Consumers \ {c} : pc[d] = "free" => found[d].block # b
      BY <2>1, ClaimFacts DEF BulkClaimRight
    <2>3. b \in Released
      BY <1>4, <2>1
    <2>4. Released' = Released \ {b}
      <3>1. \A d \in Consumers : pc'[d] = "free" <=> d # c /\ pc[d] = "free"
        BY <1>2, <2>1
      <3> QED
        BY <1>2, <1>4, <2>2, <3>1
    <2>5. Linked' = Linked /\ InRing' = InRing
      BY <2>1 DEF Linked, InRing
    <2> HIDE DEF b
    <2> QED
      BY <1>1, <1>3, <2>1, <2>2, <2>3, <2>4, <2>5 DEF BulkPlacesRight
  <1>7. CASE ~Unlinks(c) /\ ~Frees(c)
    <2>1. UNCHANGED <<value, freeing>> /\ pc[c] # "free" /\ pc'[c] # "free"
      BY <1>7, StepKinds DEF Quietly, Claims, LooksForBlock, Moves, Empties, Leaves, Early
    <2>2. Released' = Released
      BY <1>2, <1>4, <2>1
    <2>3. Linked' = Linked /\ InRing' = InRing
      BY <2>1 DEF Linked, InRing
    <2> QED
      BY <1>1, <1>3, <2>1, <2>2, <2>3 DEF BulkPlacesRight
  <1> QED
    BY <1>5, <1>6, <1>7

LEMMA ConsumerKeepsLayout ==
    ASSUME BulkGood, NEW c \in Consumers, BulkConsumer(c) PROVE BulkLayoutInv'
  <1>1. \A d \in Consumers : BulkClaimRight(d)'
    BY BulkClaimOfOwn, BulkClaimOfOthers
  <1> QED
    BY <1>1, Alive, ConsumerKeepsIndex, ConsumerCounts, BulkPlacesByConsumer DEF BulkLayoutInv

-----------------------------------------------------------------------------
(* What the producer may change *)

\* Consumers do not notice where the blocks they look for stay.
Unseen == UNCHANGED <<consumer, headIndex, grab, other>>

LEMMA UnseenKeeps ==
    ASSUME Unseen
    PROVE  /\ \A c \in Consumers : /\ Unemptied(c)' = Unemptied(c) /\ Until(c)' = Until(c)
                                   /\ Front(c)' = Front(c) /\ MovedTo(c)' = MovedTo(c)
                                   /\ HasClaimed(c)' <=> HasClaimed(c)
           /\ \A i : NotEmptied(i)' <=> NotEmptied(i)
           /\ \A s : Unlinking(s)' <=> Unlinking(s)
           /\ Released' = Released
  <1> USE DEF Unseen, consumer
  <1>1. \A c \in Consumers : /\ Unemptied(c)' = Unemptied(c) /\ Until(c)' = Until(c)
                             /\ Front(c)' = Front(c) /\ MovedTo(c)' = MovedTo(c)
                             /\ HasClaimed(c)' <=> HasClaimed(c)
    BY DEF Unemptied, Until, Front, MovedTo, ClaimedTo, InHand, HasClaimed
  <1>2. ASSUME NEW i PROVE NotEmptied(i)' <=> NotEmptied(i)
    BY <1>1 DEF NotEmptied
  <1>3. ASSUME NEW s PROVE Unlinking(s)' <=> Unlinking(s)
    BY DEF Unlinking
  <1>4. Released' = Released
    BY DEF Released
  <1> QED
    BY <1>1, <1>2, <1>3, <1>4

\* The blocks that elements were committed to stay where they are.
KeepsFilled ==
    /\ \A s \in Slots : key[s] # INVALID_BLOCK_BASE => key'[s] # INVALID_BLOCK_BASE
    /\ \A s \in Linked : key[s] < BlockSize * Filled =>
          s \in Linked' /\ key'[s] = key[s] /\ value'[s] = value[s]

LEMMA ClaimsStayRight ==
    ASSUME BulkGood, Unseen, KeepsFilled, NEW c \in Consumers
    PROVE  BulkClaimRight(c)'
  <1> DEFINE i == found[c].index
             s == found[c].entry
  <1>1. /\ BulkClaimRight(c) /\ i \in Nat /\ s \in Slots /\ Until(c) \in Nat
        /\ headIndex \in Nat /\ tailIndex \in Nat /\ headIndex <= tailIndex
        /\ tailIndex <= BlockSize * Filled /\ BlockSize * Filled \in Nat
    BY ClaimFacts, Numbers DEF BulkGood, HeadNeverPassesTail
  <1>2. pc' = pc /\ found' = found /\ grab' = grab /\ headIndex' = headIndex
    BY DEF Unseen, consumer
  <1>3. pc[c] \in {"move", "empty", "unlink"} => s \in Linked /\ key[s] < BlockSize * Filled
    <2>1. pc[c] \in {"move", "empty", "unlink"} => s = SlotAt(i) /\ s \in Linked /\ i < Until(c)
                                                   /\ Until(c) <= headIndex
      BY <1>1 DEF BulkClaimRight, HasClaimed
    <2>2. Base(i) \in Nat /\ Base(i) <= i
      <3>1. PICK p \in Nat : Base(i) = BlockSize * p /\ BlockSize * p <= i /\ BlockSize * p \in Nat
        BY <1>1, BlockOf
      <3> QED
        BY <3>1
    <2>3. ASSUME pc[c] \in {"move", "empty"} PROVE key[s] = Base(i)
      <3>1. InHand(c)
        BY <2>3 DEF InHand
      <3>2. PICK p : Base(i) = BlockSize * p /\ SlotAt(i) = Place(p) /\ key[Place(p)] = BlockSize * p
        BY <3>1, HandBlock
      <3> QED
        BY <2>1, <2>3, <3>2
    <2>4. pc[c] = "unlink" => key[s] = Base(i)
      BY <1>1 DEF BulkClaimRight
    <2> HIDE DEF i, s
    <2> QED
      BY <1>1, <2>1, <2>2, <2>3, <2>4
  <1>4. pc[c] \in {"move", "empty", "unlink"} =>
           s \in Linked' /\ key'[s] = key[s] /\ value'[s] = value[s]
    BY <1>3 DEF KeepsFilled
  <1>5. pc[c] = "key" => key'[s] # INVALID_BLOCK_BASE
    BY <1>1 DEF BulkClaimRight, KeepsFilled
  <1>6. /\ Until(c)' = Until(c) /\ Front(c)' = Front(c) /\ MovedTo(c)' = MovedTo(c)
        /\ HasClaimed(c)' <=> HasClaimed(c)
        /\ \A d \in Consumers : Unemptied(d)' = Unemptied(d)
        /\ \A n : NotEmptied(n)' <=> NotEmptied(n)
    BY UnseenKeeps
  <1>7. (\A j \in Cells : ~NotEmptied(Base(i) + j))' <=> \A j \in Cells : ~NotEmptied(Base(i) + j)
    BY <1>2, <1>6 DEF Base
  <1>8. SlotAt(i)' = SlotAt(i) /\ Base(i)' = Base(i)
    BY <1>2 DEF SlotAt, Base
  <1> HIDE DEF HasClaimed
  <1> QED
    BY <1>1, <1>2, <1>4, <1>5, <1>6, <1>7, <1>8 DEF BulkClaimRight

\* What the invariant says of blocks that did not change.
LEMMA CountsStayRight ==
    ASSUME BulkGood, ppc # "destroyed", Unseen,
           \A s \in Linked' : \/ /\ s \in Linked /\ value'[s] = value[s] /\ key'[s] = key[s]
                                 /\ elementsCompletelyDequeued'[value[s]]
                                       = elementsCompletelyDequeued[value[s]]
                              \/ /\ elementsCompletelyDequeued'[value'[s]] = 0
                                 /\ key'[s] = BlockSize * Top /\ batch.undone = 0,
           ppc' = "publish" => elementsCompletelyDequeued'[newBlock'] = 0
    PROVE  CountsRight'
  <1>1. ASSUME NEW s \in Linked', NEW k \in Nat, key'[s] = k
        PROVE  elementsCompletelyDequeued'[value'[s]] = Cardinality({j \in Cells : ~NotEmptied(k + j)})
    <2>1. CASE /\ s \in Linked /\ value'[s] = value[s] /\ key'[s] = key[s]
               /\ elementsCompletelyDequeued'[value[s]] = elementsCompletelyDequeued[value[s]]
      BY <1>1, <2>1 DEF BulkGood, BulkLayoutInv, CountsRight
    <2>2. CASE /\ elementsCompletelyDequeued'[value'[s]] = 0
               /\ key'[s] = BlockSize * Top /\ batch.undone = 0
      <3>1. Top \in Nat /\ Filled + batch.undone <= Top
        BY <2>2, Numbers, TopAndUndone DEF BulkGood
      <3>2. {j \in Cells : ~NotEmptied(k + j)} = {}
        BY <1>1, <2>2, <3>1, Ahead
      <3> QED
        BY <2>2, <3>2, CountOne
    <2> QED
      BY <2>1, <2>2
  <1>2. ASSUME NEW s \in Linked' PROVE key'[s] \in Nat
    <2>1. IndexRight /\ Top \in Nat
      BY Numbers DEF BulkGood, BulkLayoutInv
    <2> QED
      BY <2>1, LinkedKey, BasesAreKeys
  <1>3. ASSUME NEW s \in Linked'
        PROVE  elementsCompletelyDequeued'[value'[s]] =
                  Cardinality({j \in Cells : ~NotEmptied(key[s] + j)})'
    <2>1. PICK k \in Nat : key'[s] = k
      BY <1>2
    <2>2. {j \in Cells : ~NotEmptied(key[s] + j)}' = {j \in Cells : ~NotEmptied(k + j)}
      BY <2>1, UnseenKeeps DEF NotEmptied
    <2> QED
      BY <1>1, <2>1, <2>2
  <1> QED
    BY <1>3 DEF CountsRight

\* The slots of consecutive blocks are all the slots.
LEMMA AllPlaces ==
    ASSUME NEW p \in Nat, NEW s \in Slots
    PROVE  \E q \in p .. p + IndexCap - 1 : q \in Nat /\ Place(q) = s
  <1>1. IndexCap \in Nat /\ IndexCap > 0 /\ s \in 0 .. IndexCap - 1 /\ p \in Int
    BY SizeAssumption DEF Slots
  <1>2. PICK m \in Int, r \in 0 .. IndexCap - 1 : p = IndexCap * m + r
    BY <1>1, IntParts
  <1>3. ASSUME NEW n \in Int, NEW q \in Int, q = IndexCap * n + s PROVE Place(q) = s
    BY <1>1, <1>3, Quotient DEF Place
  <1> DEFINE x == IndexCap * m
             y == IndexCap * (m + 1)
  <1>4. x \in Int /\ y = x + IndexCap
    BY <1>1
  <1>5. CASE r <= s
    <2>1. Place(x + s) = s
      BY <1>1, <1>3, <1>4
    <2>2. p = x + r /\ r \in 0 .. IndexCap - 1
      BY <1>2
    <2> HIDE DEF x
    <2>3. x + s \in p .. p + IndexCap - 1 /\ x + s \in Nat
      BY <1>1, <1>4, <1>5, <2>2
    <2> QED
      BY <2>1, <2>3
  <1>6. CASE s < r
    <2>1. Place(y + s) = s
      <3>1. m + 1 \in Int /\ y + s \in Int /\ y + s = IndexCap * (m + 1) + s
        BY <1>1, <1>4
      <3> HIDE DEF y
      <3> QED
        BY <1>3, <3>1, Zenon
    <2>2. p = x + r /\ r \in 0 .. IndexCap - 1
      BY <1>2
    <2> HIDE DEF x, y
    <2>3. y + s \in p .. p + IndexCap - 1 /\ y + s \in Nat
      BY <1>1, <1>4, <1>6, <2>2
    <2> QED
      BY <2>1, <2>3
  <1> QED
    BY <1>1, <1>5, <1>6

\* While an earlier block is linked, the slot after the tail is not that of the last
\* block with elements: it would have been needed for a block of the chain.
LEMMA LastKeyElsewhere ==
    ASSUME BulkGood, IndexRight, batch.undone = 0, Place(Top) \notin Linked,
           NEW s \in Linked, key[s] < BlockSize * Filled
    PROVE  Place(Top) # Place(Filled - 1)
  <1>1. Filled \in Nat /\ Top \in Nat /\ Filled <= Top
    BY Numbers DEF BulkGood
  <1>2. PICK p \in Nat : key[s] = BlockSize * p /\ s = Place(p)
    BY LinkedKey
  <1>3. p < Filled
    BY <1>1, <1>2, BlocksOrdered
  <1> SUFFICES ASSUME Place(Top) = Place(Filled - 1) PROVE FALSE
    OBVIOUS
  <1>4. Filled - 1 \in Nat /\ Filled - 1 + IndexCap <= Top /\ IndexCap \in Nat
    <2>1. Filled - 1 \in Int /\ Top \in Int /\ Filled - 1 < Top /\ Filled - 1 \in Nat
      BY <1>1, <1>3
    <2> QED
      BY <2>1, Places, SizeAssumption
  <1>5. PICK q \in Nat : q \in Filled - 1 .. (Filled - 1) + IndexCap - 1 /\ Place(q) = s
    <2>1. PICK n \in Nat : n = Filled - 1
      BY <1>4
    <2>2. PICK q \in n .. n + IndexCap - 1 : q \in Nat /\ Place(q) = s
      BY AllPlaces DEF Linked
    <2> QED
      BY <2>1, <2>2
  <1>6. q # Filled - 1 /\ q >= Filled /\ q < Top
    BY <1>1, <1>4, <1>5
  <1>7. Needed(q) /\ q \in 0 .. Top - 1
    BY <1>1, <1>6, Ahead
  <1>8. key[s] = BlockSize * q
    BY <1>5, <1>7 DEF IndexRight, NeededLinked
  <1>9. p = q
    BY <1>2, <1>8, BlocksOrdered
  <1> QED
    BY <1>1, <1>3, <1>6, <1>9

\* Steps that leave the linked blocks, and which are wanted.  The next slot may get
\* the key of the next block.
LEMMA LinksStayRight ==
    ASSUME BulkGood, IndexRight, Unseen, tailIndex' = tailIndex,
           Linked' = Linked, \A s \in Linked : value'[s] = value[s],
           Top' = Top, batch'.chain = batch.chain, batch'.undone = batch.undone,
           key \in [Slots -> Nat],
           \/ key' = key
           \/ /\ key' = [key EXCEPT ![Place(Top)] = BlockSize * Top]
              /\ Place(Top) \notin Linked /\ batch.undone = 0
    PROVE  /\ KeysInPlace' /\ NeededLinked' /\ LinkedNeeded' /\ LastKeyKept' /\ ChainInPlace'
           /\ \A p \in 0 .. Top - 1 : (Needed(p)' <=> Needed(p)) /\
                                      (Needed(p) => value'[Place(p)] = value[Place(p)])
           /\ KeepsFilled
  <1> DEFINE t == Place(Top)
  <1>1. Filled' = Filled /\ Filled \in Nat /\ Top \in Nat /\ Filled <= Top
    BY Numbers DEF BulkGood, Filled
  <1>2. ASSUME NEW p PROVE Needed(p)' <=> Needed(p)
    BY <1>1, UnseenKeeps DEF Needed
  <1>3. \A s \in Slots \ {t} : key'[s] = key[s]
    OBVIOUS
  <1>4. t \in Slots /\ (key'[t] = key[t] \/ key'[t] = BlockSize * Top)
    BY <1>1, Places
  <1>5. BlockSize * Top # INVALID_BLOCK_BASE /\ (BlockSize * Top) % BlockSize = 0
        /\ (BlockSize * Top) \div BlockSize = Top
    BY <1>1, BasesAreKeys
  <1>6. \A s \in Linked : key'[s] = key[s]
    BY <1>3 DEF Linked
  <1> HIDE DEF t
  <1>7. KeysInPlace'
    BY <1>3, <1>4, <1>5 DEF IndexRight, KeysInPlace, t, Place
  <1>8. \A s \in Slots : key[s] # INVALID_BLOCK_BASE => key'[s] # INVALID_BLOCK_BASE
    BY <1>3, <1>4, <1>5
  <1>9. \A p \in 0 .. Top - 1 : Place(p) \in Slots
    BY <1>1, Places
  <1>10. NeededLinked'
    <2>1. \A p \in 0 .. Top - 1 : /\ key'[Place(p)] # INVALID_BLOCK_BASE
                                  /\ Needed(p) => key'[Place(p)] = BlockSize * p /\ Place(p) \in Linked
      BY <1>6, <1>8, <1>9 DEF IndexRight, NeededLinked
    <2> QED
      BY <1>2, <2>1 DEF NeededLinked, Place
  <1>11. LinkedNeeded'
    <2>1. \A s \in Linked : \E p \in 0 .. Top - 1 :
             key'[s] = BlockSize * p /\ s = Place(p) /\ (Needed(p) \/ Unlinking(s))
      BY <1>6 DEF IndexRight, LinkedNeeded
    <2> QED
      BY <1>2, <2>1, UnseenKeeps DEF LinkedNeeded, Place
  <1>12. LastKeyKept'
    <2>1. ASSUME NEW s \in Linked, key[s] < BlockSize * Filled
          PROVE  key'[Place(Filled - 1)] = BlockSize * (Filled - 1)
      <3>1. key[Place(Filled - 1)] = BlockSize * (Filled - 1)
        BY <2>1 DEF IndexRight, LastKeyKept
      <3>2. Place(Filled - 1) \in Slots
        BY <1>1, Places
      <3>3. key' = key \/ Place(Filled - 1) # t
        BY <2>1, LastKeyElsewhere DEF t
      <3> QED
        BY <1>3, <3>1, <3>2, <3>3
    <2> QED
      BY <1>1, <1>6, <2>1 DEF LastKeyKept, Place
  <1>13. ChainInPlace'
    <2>1. ASSUME NEW k \in batch.undone + 1 .. Len(batch.chain)
          PROVE  value'[Place(Filled + k - 1)] = batch.chain[k]
      BY <2>1, ChainNeeded DEF IndexRight, NeededLinked, ChainInPlace
    <2> QED
      BY <1>1, <2>1 DEF ChainInPlace, Place
  <1>14. \A p \in 0 .. Top - 1 : Needed(p) => value'[Place(p)] = value[Place(p)]
    BY DEF IndexRight, NeededLinked
  <1>15. KeepsFilled
    BY <1>6, <1>8 DEF KeepsFilled
  <1> QED
    BY <1>2, <1>7, <1>10, <1>11, <1>12, <1>13, <1>14, <1>15

\* A bulk enqueue is not begun or abandoned but at a chain without blocks.
BatchSame ==
    /\ batch'.chain = batch.chain /\ batch'.undone = batch.undone
    /\ \/ batch' = batch /\ (ppc \in {"undo", "undo tail"} => ppc' \in {"undo", "undo tail"})
       \/ batch = NoBatch /\ batch'.start = tailBlock
       \/ batch' = NoBatch /\ ppc \notin {"undo", "undo tail"}

\* What is left to show of a step that neither links nor unlinks a block.
LEMMA Prepared ==
    ASSUME BulkGood, ppc # "destroyed", Unseen, UNCHANGED <<tailIndex, tailBlock>>,
           Linked' = Linked, \A s \in Linked : value'[s] = value[s],
           Top' = Top, BatchSame,
           \/ key' = key
           \/ /\ key' = [key EXCEPT ![Place(Top)] = BlockSize * Top]
              /\ Place(Top) \notin Linked /\ batch.undone = 0,
           ppc' # "destroyed", indexTail' = Place(Top - 1 + Shift'),
           BatchRight', SlotsRight',
           \/ ppc' # "publish" /\ UNCHANGED <<pool, freeing, newBlock, elementsCompletelyDequeued>>
           \/ BulkPlacesRight' /\ CountsRight'
    PROVE  BulkLayoutInv'
  <1>1. IndexRight /\ key \in [Slots -> Nat]
    BY DEF BulkGood, BulkLayoutInv, BulkTypeOK, TypeOK
  <1>2. batch'.chain = batch.chain /\ batch'.undone = batch.undone
    BY DEF BatchSame
  <1>3. /\ KeysInPlace' /\ NeededLinked' /\ LinkedNeeded' /\ LastKeyKept' /\ ChainInPlace'
        /\ \A p \in 0 .. Top - 1 : (Needed(p)' <=> Needed(p)) /\
                                   (Needed(p) => value'[Place(p)] = value[Place(p)])
        /\ KeepsFilled
    BY <1>1, <1>2, LinksStayRight
  <1>4. Filled' = Filled /\ Filled \in Nat /\ Top \in Nat /\ Filled <= Top
    BY Numbers DEF BulkGood, Filled
  <1>5. TailRight'
    <2>1. /\ Filled > 0 => Filled - 1 \in 0 .. Top - 1
          /\ Top > 0 => Top - 1 \in 0 .. Top - 1
      BY <1>4
    <2>2. /\ Filled > 0 /\ Needed(Filled - 1) /\ batch # NoBatch =>
                batch.start = value[Place(Filled - 1)]
          /\ Top > 0 /\ Needed(Top - 1) /\ batch = NoBatch => tailBlock = value[Place(Top - 1)]
          /\ batch # NoBatch /\ ppc \notin {"undo", "undo tail"} =>
                tailBlock = IF batch.chain = <<>> THEN batch.start
                                                  ELSE batch.chain[Len(batch.chain)]
      BY <1>1 DEF IndexRight, TailRight
    <2>3. (batch = NoBatch \/ batch' = NoBatch) => batch.chain = <<>>
      BY <1>2 DEF NoBatch
    <2>4. batch.chain = <<>> => Len(batch.chain) = 0
      OBVIOUS
    <2>5. /\ batch = NoBatch /\ batch' # NoBatch => Top = Filled
          /\ batch' = NoBatch /\ batch # NoBatch => Top = Filled
      BY <1>2, <1>4, <2>3, <2>4 DEF Top
    <2>6. \A p \in 0 .. Top - 1 : Needed(p)' => Needed(p) /\ value'[Place(p)] = value[Place(p)]
      BY <1>3
    <2>8. PICK f, t : f = Filled /\ t = Top
      OBVIOUS
    <2>7. /\ f > 0 /\ Needed(f - 1)' => Needed(f - 1) /\ value'[Place(f - 1)] = value[Place(f - 1)]
          /\ t > 0 /\ Needed(t - 1)' => Needed(t - 1) /\ value'[Place(t - 1)] = value[Place(t - 1)]
      BY <2>1, <2>6, <2>8
    <2>9. TailRight' <=>
             /\ f > 0 /\ Needed(f - 1)' /\ batch' # NoBatch => batch'.start = value'[Place(f - 1)]
             /\ t > 0 /\ Needed(t - 1)' /\ batch' = NoBatch => tailBlock = value'[Place(t - 1)]
             /\ batch' # NoBatch /\ ppc' \notin {"undo", "undo tail"} =>
                   tailBlock = IF batch'.chain = <<>> THEN batch'.start
                                                      ELSE batch'.chain[Len(batch'.chain)]
      BY <1>4, <2>8 DEF TailRight, Place, Needed
    <2> HIDE DEF NoBatch
    <2>10. CASE batch' = batch /\ (ppc \in {"undo", "undo tail"} => ppc' \in {"undo", "undo tail"})
      BY <2>2, <2>7, <2>8, <2>9, <2>10
    <2>11. CASE batch = NoBatch /\ batch' # NoBatch /\ batch'.start = tailBlock
      BY <1>2, <2>2, <2>3, <2>5, <2>7, <2>8, <2>9, <2>11
    <2>12. CASE batch # NoBatch /\ batch' = NoBatch /\ ppc \notin {"undo", "undo tail"}
      BY <2>2, <2>3, <2>5, <2>7, <2>8, <2>9, <2>12
    <2>13. batch = NoBatch => ppc \notin {"undo", "undo tail"}
      BY DEF BulkGood, BulkLayoutInv, BatchRight
    <2> QED
      BY <2>13, <2>10, <2>11, <2>12, <2>13 DEF BatchSame
  <1>6. BulkPlacesRight' /\ CountsRight'
    <2> SUFFICES ASSUME ppc' # "publish",
                        UNCHANGED <<pool, freeing, newBlock, elementsCompletelyDequeued>>
                 PROVE  BulkPlacesRight' /\ CountsRight'
      OBVIOUS
    <2>1. InRing' = InRing /\ Undone' = Undone /\ Released' = Released /\ other' = other
      BY <1>2, UnseenKeeps DEF InRing, Undone, Unseen
    <2>2. BulkPlacesRight'
      BY <2>1 DEF BulkGood, BulkLayoutInv, BulkPlacesRight
    <2>3. \A s \in Linked' : s \in Linked /\ value'[s] = value[s] /\ key'[s] = key[s]
      BY <1>1 DEF Linked
    <2> QED
      BY <2>2, <2>3, CountsStayRight
  <1> QED
    BY <1>3, <1>5, <1>6, <1>4, ClaimsStayRight DEF BulkLayoutInv, IndexRight, Place

LEMMA RingNow ==
    ASSUME BulkGood, ppc # "destroyed"
    PROVE  /\ Top \in Nat /\ Filled \in Nat /\ Filled <= Top /\ Shift \in Int
           /\ Place(Top) \in Slots
           /\ indexTail = Place(Top - 1 + Shift) /\ NextSlot = Place(Top + Shift)
           /\ PrevSlot = Place(Top - 2 + Shift)
           /\ IndexRight /\ BatchRight /\ SlotsRight /\ BulkPlacesRight /\ CountsRight
           /\ value \in [Slots -> Blocks \cup {Null, Garbage}] /\ key \in [Slots -> Nat]
           /\ elementsCompletelyDequeued \in [Blocks -> Nat] /\ pool \subseteq Blocks
           /\ batch # NoBatch => Top = Filled + Len(batch.chain)
  <1>1. Top \in Nat /\ Filled \in Nat /\ Filled <= Top /\ batch.undone \in Nat
    BY Numbers DEF BulkGood
  <1>2. Shift \in Int
    <2>1. \A u \in Nat : -u \in Int /\ 1 - u \in Int
      OBVIOUS
    <2>2. Shift = 1 \/ Shift = 1 - batch.undone \/ Shift = -batch.undone
      BY DEF Shift
    <2> QED
      BY <1>1, <2>1, <2>2
  <1>3. /\ IndexRight /\ BatchRight /\ SlotsRight /\ BulkPlacesRight /\ CountsRight
        /\ value \in [Slots -> Blocks \cup {Null, Garbage}] /\ key \in [Slots -> Nat]
        /\ elementsCompletelyDequeued \in [Blocks -> Nat] /\ pool \subseteq Blocks
    BY DEF BulkGood, BulkLayoutInv, BulkTypeOK, TypeOK
  <1>4. PICK x \in Int : x = Top - 1 + Shift
    BY <1>1, <1>2
  <1>5. indexTail = Place(x)
    BY <1>3, <1>4 DEF IndexRight
  <1>6. NextSlot = Place(x + 1) /\ PrevSlot = Place(x - 1) /\ Place(Top) \in Slots
    BY <1>1, <1>5, Places DEF NextSlot, PrevSlot
  <1>7. x + 1 = Top + Shift /\ x - 1 = Top - 2 + Shift
    BY <1>1, <1>2, <1>4
  <1> QED
    BY <1>1, <1>2, <1>3, <1>4, <1>5, <1>6, <1>7 DEF Top

LEMMA DecidingSteps ==
    ASSUME BulkGood,
           \/ /\ EnqueueStart \/ CheckRoom \/ InsertRefused \/ WriteElement
              /\ batch = NoBatch /\ UNCHANGED <<batch, grab>>
           \/ RequisitionFails /\ UNCHANGED <<batch, grab>>
           \/ \E n \in BulkSizes : BulkStart(n)
           \/ BulkCheckRoom \/ BulkInsertRefused \/ BulkWrite
    PROVE  BulkLayoutInv'
  <1>0. ppc # "destroyed" /\ BatchRight /\ BulkSizes \subseteq Nat \ {0}
    BY BulkAssumption DEF BulkGood, BulkLayoutInv, EnqueueStart, CheckRoom, InsertRefused,
       WriteElement, RequisitionFails, BulkStart, BulkCheckRoom, BulkInsertRefused, BulkWrite
  <1> DEFINE Kept == UNCHANGED <<tailIndex, indexTail, key, value, elementsCompletelyDequeued,
                                 pool, freeing, newBlock, tailBlock>>
             News == /\ Top' = Top /\ Shift' = Shift /\ (Inserting' <=> Inserting)
                     /\ BatchSame /\ BatchRight'
                     /\ {ppc, ppc'} \cap {"reset", "publish", "destroyed"} = {}
  <1> USE DEF Unseen, counters, blockIndex, contents, places, consumer
  <1>1. ASSUME EnqueueStart \/ CheckRoom \/ InsertRefused \/ WriteElement,
               batch = NoBatch, UNCHANGED <<batch, grab>>
        PROVE  Unseen /\ Kept /\ News
    <2>1. Unseen /\ Kept
      BY <1>1 DEF EnqueueStart, CheckRoom, InsertRefused, WriteElement
    <2>2. \/ ppc = "idle" /\ ppc' = IF Cell(tailIndex) = 0 THEN "room" ELSE "write"
          \/ ppc = "room" /\ ppc' \in {"insert", "idle"}
          \/ ppc = "insert" /\ ppc' = "idle"
          \/ ppc = "write" /\ ppc' = "commit"
      BY <1>1 DEF EnqueueStart, CheckRoom, InsertRefused, WriteElement
    <2>3. News
      BY <1>0, <1>1, <2>1, <2>2 DEF Top, Filled, Shift, Inserting, BatchSame, BatchRight, Cell
    <2> QED
      BY <2>1, <2>3
  <1>2. ASSUME RequisitionFails, UNCHANGED <<batch, grab>> PROVE Unseen /\ Kept /\ News
    <2>1. Unseen /\ Kept
      BY <1>2 DEF RequisitionFails
    <2>2. News
      BY <1>0, <1>2, <2>1 DEF RequisitionFails, Top, Filled, Shift, Inserting, BatchSame,
         BatchRight, Cell
    <2> QED
      BY <2>1, <2>2
  <1>3. ASSUME NEW n \in BulkSizes, BulkStart(n) PROVE Unseen /\ Kept /\ News
    <2>1. Unseen /\ Kept /\ ppc = "idle" /\ ppc' \in {"write", "room"} /\ batch = NoBatch
      BY <1>0, <1>3 DEF BulkStart, BatchRight
    <2>a. n > 0
      BY <1>0
    <2>b. batch' = [NoBatch EXCEPT !.count = n, !.start = tailBlock]
      BY <1>3 DEF BulkStart
    <2>2. n > 0 /\ batch' = [count |-> n, start |-> tailBlock, chain |-> <<>>, undone |-> 0]
      BY <2>a, <2>b DEF NoBatch
    <2>3. /\ batch'.chain = <<>> /\ batch'.undone = 0 /\ batch'.start = tailBlock
          /\ batch'.count = n /\ batch' # NoBatch /\ batch.undone = 0 /\ batch.chain = <<>>
      <3>1. NoBatch.count = 0 /\ NoBatch.chain = <<>> /\ NoBatch.undone = 0
        BY DEF NoBatch
      <3>2. batch'.chain = <<>> /\ batch'.undone = 0 /\ batch'.start = tailBlock /\ batch'.count = n
        BY <2>2
      <3> HIDE DEF NoBatch
      <3> QED
        BY <2>1, <2>2, <3>1, <3>2
    <2>4. Len(batch'.chain) = 0
      BY <2>3
    <2>5. Filled' = Filled /\ Filled \in Nat
      BY <2>1, Numbers DEF Filled, BulkGood
    <2>6. Top' = Top /\ Shift' = Shift /\ (Inserting' <=> Inserting)
      BY <2>1, <2>3, <2>4, <2>5 DEF Top, Shift, Inserting
    <2>7. ppc' = "write" => (ChainBase(Len(batch.chain)) = LastBase(batch.count))'
      BY <1>3, <2>1, <2>3, <2>4 DEF BulkStart, ChainBase, LastBase, Base
    <2>8. BatchRight'
      BY <2>1, <2>2, <2>3, <2>7 DEF BatchRight, Inserting
    <2> QED
      BY <2>1, <2>3, <2>6, <2>8 DEF BatchSame
  <1>4. ASSUME BulkCheckRoom \/ BulkInsertRefused PROVE Unseen /\ Kept /\ News
    <2>1. Unseen /\ Kept /\ ppc \in {"room", "insert"} /\ batch # NoBatch
      BY <1>4 DEF BulkCheckRoom, BulkInsertRefused, Abort
    <2>2. \/ ppc' = "insert" /\ batch' = batch
          \/ batch.chain = <<>> /\ ppc' = "idle" /\ batch' = NoBatch
          \/ batch.chain # <<>> /\ ppc' = "undo" /\ batch' = batch
      BY <1>4 DEF BulkCheckRoom, BulkInsertRefused, Abort
    <2>3. batch.undone = 0 /\ NoBatch.chain = <<>> /\ NoBatch.undone = 0
      BY <1>0, <2>1 DEF BatchRight, NoBatch
    <2>4. Filled' = Filled /\ Filled \in Nat
      BY <2>1, Numbers DEF Filled, BulkGood
    <2>5. batch.chain = <<>> => Len(batch.chain) = 0
      OBVIOUS
    <2> HIDE DEF NoBatch
    <2>6. Top' = Top /\ Shift' = Shift /\ (Inserting' <=> Inserting) /\ BatchSame
      BY <2>1, <2>2, <2>3, <2>4, <2>5 DEF Top, Shift, Inserting, BatchSame
    <2>7. BatchRight'
      BY <1>0, <2>1, <2>2, <2>3 DEF BatchRight, Inserting
    <2> QED
      BY <2>1, <2>2, <2>6, <2>7
  <1>5. ASSUME BulkWrite PROVE Unseen /\ Kept /\ News
    <2>1. Unseen /\ Kept
      BY <1>5 DEF BulkWrite
    <2>2. News
      BY <1>0, <1>5, <2>1 DEF BulkWrite, Top, Filled, Shift, Inserting, BatchSame, BatchRight,
         Cell, ChainBase, LastBase, Base
    <2> QED
      BY <2>1, <2>2
  <1>6. Unseen /\ Kept /\ News
    BY <1>1, <1>2, <1>3, <1>4, <1>5
  <1>7. Linked' = Linked
    BY <1>6 DEF Linked
  <1>8. SlotsRight'
    BY <1>0, <1>6, <1>7, RingNow DEF SlotsRight, Place
  <1> QED
    BY <1>0, <1>6, <1>7, <1>8, RingNow, Prepared

LEMMA NextBaseIs ==
    ASSUME BulkGood, batch # NoBatch
    PROVE  /\ NextBase = BlockSize * Top
           /\ \A k \in Nat : ChainBase(k) = BlockSize * (Filled - 1 + k)
  <1>1. /\ Filled \in Nat /\ Len(batch.chain) \in Nat /\ Base(tailIndex - 1) = BlockSize * (Filled - 1)
        /\ Top = Filled + Len(batch.chain) /\ BlockSize \in Nat
    BY Numbers DEF BulkGood, Top
  <1>2. ASSUME NEW k \in Nat PROVE ChainBase(k) = BlockSize * (Filled - 1 + k)
    BY <1>1 DEF ChainBase
  <1>3. NextBase = BlockSize * (Filled - 1 + (Len(batch.chain) + 1))
    BY <1>1, <1>2 DEF NextBase
  <1>4. Filled - 1 + (Len(batch.chain) + 1) = Top
    BY <1>1
  <1> QED
    BY <1>2, <1>3, <1>4

\* Steps that touch the slot of the next block, the tail of the index or that block.
LEMMA SlotSteps ==
    ASSUME BulkGood,
           \/ BulkInsertKey \/ BulkClearEntry \/ UndoTail
           \/ InsertKey /\ batch = NoBatch /\ UNCHANGED <<batch, grab>>
           \/ (AdvanceIndex \/ RewindIndex) /\ UNCHANGED <<batch, grab>>
           \/ ClearEntry /\ batch = NoBatch /\ UNCHANGED <<batch, grab>>
    PROVE  BulkLayoutInv'
  <1>0. ppc # "destroyed"
    BY DEF BulkInsertKey, BulkClearEntry, UndoTail, InsertKey, AdvanceIndex, RewindIndex, ClearEntry
  <1>1. /\ Top \in Nat /\ Filled \in Nat /\ Filled <= Top /\ Place(Top) \in Slots
        /\ indexTail = Place(Top - 1 + Shift) /\ NextSlot = Place(Top + Shift)
        /\ PrevSlot = Place(Top - 2 + Shift)
        /\ BatchRight /\ SlotsRight /\ value \in [Slots -> Blocks \cup {Null, Garbage}]
        /\ key \in [Slots -> Nat]
        /\ batch # NoBatch => Top = Filled + Len(batch.chain)
        /\ BlockSize * Filled \in Nat /\ Base(tailIndex - 1) = BlockSize * (Filled - 1)
        /\ Cell(tailIndex) = 0 <=> tailIndex = BlockSize * Filled
        /\ Len(batch.chain) \in Nat /\ batch.undone \in Nat
    BY <1>0, RingNow, Numbers DEF BulkGood
  <1>2. /\ Top - 1 + 0 = Top - 1 /\ Top + 0 = Top /\ Top - 1 + 1 = Top /\ Top - 2 + 1 = Top - 1 + 0
        /\ \A u \in Nat : (u = 0 => -u = 0) /\ Top - 2 + (1 - u) = Top - 1 + (-u)
    BY <1>1
  <1> DEFINE t == Place(Top)
             Kept == UNCHANGED <<tailIndex, elementsCompletelyDequeued, pool, freeing, newBlock,
                                 tailBlock>>
             Goes == {ppc, ppc'} \cap {"publish", "destroyed"} = {}
  <1> USE DEF Unseen, counters, blockIndex, contents, places, consumer
  <1>3. CASE (InsertKey /\ batch = NoBatch /\ UNCHANGED <<batch, grab>>) \/ BulkInsertKey
    <2>1. /\ Unseen /\ Kept /\ ppc = "insert" /\ ppc' = "advance"
          /\ UNCHANGED <<value, indexTail, batch>> /\ SlotReusable(NextSlot)
      BY <1>3 DEF InsertKey, BulkInsertKey
    <2>2. batch.undone = 0 /\ Shift = 0 /\ Shift' = 0 /\ Top' = Top /\ NextSlot = t
      <3>1. batch.undone = 0
        BY <1>1, <2>1 DEF BatchRight
      <3>2. Shift = 0 /\ Shift' = 0
        BY <1>1, <1>2, <2>1, <3>1 DEF Shift
      <3>3. Top' = Top
        BY <2>1 DEF Top, Filled
      <3> QED
        BY <1>1, <1>2, <3>1, <3>2, <3>3
    <2>3. key' = [key EXCEPT ![t] = BlockSize * Top]
      <3>1. CASE InsertKey /\ batch = NoBatch /\ UNCHANGED <<batch, grab>>
        <4>1. Top = Filled /\ tailIndex = BlockSize * Filled
          BY <1>1, <2>1, <3>1 DEF Top, BatchRight
        <4> QED
          BY <2>2, <3>1, <4>1 DEF InsertKey
      <3>2. CASE BulkInsertKey
        <4>1. NextBase = BlockSize * Top
          BY <1>1, <3>2, NextBaseIs DEF BulkInsertKey
        <4> QED
          BY <2>2, <3>2, <4>1 DEF BulkInsertKey
      <3> QED
        BY <1>3, <3>1, <3>2
    <2>4. (t \notin Linked /\ value[t] # Garbage) \/ key[t] = INVALID_BLOCK_BASE
      BY <1>1, <2>1, <2>2, PointerAssumption DEF SlotReusable, Linked
    <2>5. t \notin Linked
      <3>1. CASE key[t] = INVALID_BLOCK_BASE
        BY <1>0, <3>1, RingNow, LinkedKey
      <3> QED
        BY <2>4, <3>1
    <2>6. Linked' = Linked
      BY <2>1 DEF Linked
    <2>7. BatchRight' /\ BatchSame
      BY <1>1, <2>1 DEF BatchRight, Inserting, BatchSame, Cell
    <2>8. SlotsRight'
      BY <1>1, <2>1, <2>2, <2>3, <2>5, <2>6 DEF SlotsRight, Inserting, Place
    <2> QED
      BY <1>0, <1>1, <2>1, <2>2, <2>3, <2>5, <2>6, <2>7, <2>8, Prepared
  <1>4. CASE AdvanceIndex /\ UNCHANGED <<batch, grab>>
    <2>1. /\ Unseen /\ Kept /\ ppc = "advance" /\ ppc' = "requisition"
          /\ UNCHANGED <<key, value, batch>> /\ indexTail' = NextSlot
      BY <1>4 DEF AdvanceIndex
    <2>2. batch.undone = 0 /\ Shift = 0 /\ Shift' = 1 /\ Top' = Top
      BY <1>1, <2>1 DEF Shift, Top, Filled, BatchRight
    <2>3. indexTail' = Place(Top - 1 + Shift') /\ Linked' = Linked
      BY <1>1, <1>2, <2>1, <2>2 DEF Linked
    <2>4. BatchRight' /\ BatchSame
      BY <1>1, <2>1 DEF BatchRight, Inserting, BatchSame, Cell
    <2>5. SlotsRight'
      BY <1>1, <2>1, <2>2, <2>3 DEF SlotsRight, Inserting, Place
    <2> QED
      BY <1>0, <2>1, <2>2, <2>3, <2>4, <2>5, Prepared
  <1>5. CASE RewindIndex /\ UNCHANGED <<batch, grab>>
    <2>1. /\ Unseen /\ Kept /\ ppc = "rewind" /\ ppc' = "clear"
          /\ UNCHANGED <<key, value, batch>> /\ indexTail' = PrevSlot
      BY <1>5 DEF RewindIndex
    <2>2. batch.undone = 0 /\ Shift = 1 /\ Shift' = 0 /\ Top' = Top
      BY <1>1, <2>1 DEF Shift, Top, Filled, BatchRight
    <2>3. indexTail' = Place(Top - 1 + Shift') /\ Linked' = Linked
      BY <1>1, <1>2, <2>1, <2>2 DEF Linked
    <2>4. BatchRight' /\ BatchSame
      BY <1>1, <2>1 DEF BatchRight, Inserting, BatchSame, Cell
    <2>5. SlotsRight'
      BY <1>1, <2>1, <2>2, <2>3 DEF SlotsRight, Inserting, Place
    <2> QED
      BY <1>0, <2>1, <2>2, <2>3, <2>4, <2>5, Prepared
  <1>6. CASE UndoTail
    <2>1. /\ Unseen /\ Kept /\ ppc = "undo tail" /\ ppc' = "undo"
          /\ UNCHANGED <<key, value, batch>> /\ indexTail' = PrevSlot
      BY <1>6 DEF UndoTail
    <2>2. Shift = 1 - batch.undone /\ Shift' = -batch.undone /\ Top' = Top
      BY <1>1, <2>1 DEF Shift, Top, Filled
    <2>3. indexTail' = Place(Top - 1 + Shift') /\ Linked' = Linked
      <3>1. Top - 2 + Shift = Top - 1 + Shift'
        BY <1>1, <1>2, <2>2
      <3> QED
        BY <1>1, <2>1, <3>1 DEF Linked
    <2>4. BatchRight' /\ BatchSame
      BY <1>1, <2>1 DEF BatchRight, Inserting, BatchSame
    <2>5. SlotsRight'
      BY <1>1, <2>1, <2>2, <2>3 DEF SlotsRight, Inserting, Place
    <2> QED
      BY <1>0, <2>1, <2>2, <2>3, <2>4, <2>5, Prepared
  <1>7. CASE (ClearEntry /\ batch = NoBatch /\ UNCHANGED <<batch, grab>>) \/ BulkClearEntry
    <2>1. /\ Unseen /\ Kept /\ ppc = "clear" /\ UNCHANGED <<key, indexTail>>
          /\ value' = [value EXCEPT ![NextSlot] = Null]
          /\ \/ batch = NoBatch /\ ppc' = "idle" /\ batch' = batch
             \/ batch # NoBatch /\ batch.chain = <<>> /\ ppc' = "idle" /\ batch' = NoBatch
             \/ batch # NoBatch /\ batch.chain # <<>> /\ ppc' = "undo" /\ batch' = batch
      BY <1>7 DEF ClearEntry, BulkClearEntry, Abort
    <2>2. batch.undone = 0 /\ NextSlot = t /\ NoBatch.chain = <<>> /\ NoBatch.undone = 0
      <3>1. batch.undone = 0
        BY <1>1, <2>1 DEF BatchRight
      <3>2. Shift = 0
        BY <1>1, <1>2, <2>1, <3>1 DEF Shift
      <3> QED
        BY <1>1, <1>2, <3>1, <3>2 DEF NoBatch
    <2> HIDE DEF NoBatch
    <2>3. batch'.chain = batch.chain /\ batch'.undone = 0 /\ BatchSame
      BY <2>1, <2>2 DEF BatchSame
    <2>4. Shift = 0 /\ Shift' = 0 /\ Top' = Top
      <3>1. batch.chain = <<>> => Len(batch.chain) = 0
        OBVIOUS
      <3>2. Shift = 0 /\ Shift' = 0
        BY <1>1, <1>2, <2>1, <2>2, <2>3 DEF Shift
      <3> QED
        BY <1>1, <2>1, <2>2, <2>3, <3>1, <3>2 DEF Top, Filled
    <2>5. t \notin Linked /\ value' = [value EXCEPT ![t] = Null]
      BY <1>1, <2>1, <2>2 DEF SlotsRight, Inserting
    <2>6. Linked' = Linked /\ (\A s \in Linked : value'[s] = value[s])
      BY <1>1, <2>5, PointerAssumption DEF Linked
    <2>7. BatchRight'
      BY <1>1, <2>1, <2>2 DEF BatchRight, Inserting
    <2>8. SlotsRight'
      BY <1>1, <2>1, <2>4, <2>5, <2>6, PointerAssumption DEF SlotsRight, Inserting, Place
    <2> QED
      BY <1>0, <1>1, <2>1, <2>3, <2>4, <2>6, <2>7, <2>8, Prepared
  <1> QED
    BY <1>3, <1>4, <1>5, <1>6, <1>7

\* A block is taken from the pool, and emptied.
LEMMA BlockSteps ==
    ASSUME BulkGood, Requisition \/ ResetEmpty, UNCHANGED <<batch, grab>>
    PROVE  BulkLayoutInv'
  <1>0. ppc # "destroyed"
    BY DEF Requisition, ResetEmpty
  <1>1. /\ Top \in Nat /\ Place(Top) \in Slots /\ indexTail = Place(Top - 1 + Shift)
        /\ BatchRight /\ SlotsRight /\ BulkPlacesRight /\ CountsRight /\ pool \subseteq Blocks
        /\ elementsCompletelyDequeued \in [Blocks -> Nat] /\ newBlock \in Blocks \cup {Null}
    BY <1>0, RingNow DEF BulkGood, BulkTypeOK, TypeOK
  <1> USE DEF counters, blockIndex, contents, places, consumer
  <1>2. /\ Unseen /\ UNCHANGED <<tailIndex, indexTail, key, value, tailBlock, freeing>>
    BY DEF Requisition, ResetEmpty, Unseen
  <1>3. \/ ppc = "requisition" /\ ppc' = "reset"
        \/ ppc = "reset" /\ ppc' = "publish"
    BY DEF Requisition, ResetEmpty
  <1>4. Top' = Top /\ Shift' = Shift /\ Linked' = Linked /\ BatchSame /\ BatchRight'
    BY <1>1, <1>2, <1>3 DEF Top, Filled, Shift, Linked, BatchSame, BatchRight, Inserting, Cell
  <1>5. InRing' = InRing /\ Undone' = Undone /\ Released' = Released /\ other' = other
    BY <1>2, UnseenKeeps DEF InRing, Linked, Undone, Unseen
  <1>6. SlotsRight' /\ CountsRight' /\ BulkPlacesRight'
    <2>1. CASE Requisition
      <3>1. PICK b \in pool : newBlock' = b /\ pool' = pool \ {b}
        BY <2>1 DEF Requisition
      <3>2. ppc = "requisition" /\ ppc' = "reset" /\ elementsCompletelyDequeued' = elementsCompletelyDequeued
        BY <2>1 DEF Requisition
      <3>3. newBlock = Null /\ b \in Blocks /\ b # Null
        BY <1>1, <3>2, PointerAssumption DEF SlotsRight
      <3>4. SlotsRight'
        BY <1>1, <1>2, <1>4, <3>1, <3>2, <3>3 DEF SlotsRight, Inserting, Place
      <3>5. BulkPlacesRight'
        <4>1. Null \notin Blocks
          BY PointerAssumption
        <4> QED
          BY <1>1, <1>2, <1>4, <1>5, <3>1, <3>3, <4>1 DEF BulkPlacesRight
      <3>6. CountsRight'
        BY <1>0, <1>2, <1>4, <3>2, CountsStayRight
      <3> QED
        BY <3>4, <3>5, <3>6
    <2>2. CASE ResetEmpty
      <3>1. /\ ppc = "reset" /\ ppc' = "publish" /\ newBlock' = newBlock /\ pool' = pool
            /\ elementsCompletelyDequeued' = [elementsCompletelyDequeued EXCEPT ![newBlock] = 0]
        BY <2>2 DEF ResetEmpty
      <3>2. newBlock \in Blocks /\ newBlock \notin InRing
        BY <1>1, <3>1 DEF SlotsRight, BulkPlacesRight
      <3>3. SlotsRight'
        BY <1>1, <1>2, <1>4, <3>1 DEF SlotsRight, Inserting, Place
      <3>4. BulkPlacesRight'
        BY <1>1, <1>2, <1>4, <1>5, <3>1 DEF BulkPlacesRight
      <3>5. \A s \in Linked : value[s] \in InRing
        BY DEF InRing
      <3>6. CountsRight'
        BY <1>0, <1>1, <1>2, <1>4, <3>1, <3>2, <3>5, CountsStayRight
      <3> QED
        BY <3>3, <3>4, <3>6
    <2> QED
      BY <2>1, <2>2
  <1> QED
    BY <1>0, <1>1, <1>2, <1>3, <1>4, <1>6, Prepared

\* The next block is linked.
LEMMA PublishSteps ==
    ASSUME BulkGood,
           (PublishBlock /\ batch = NoBatch /\ UNCHANGED <<batch, grab>>) \/ BulkPublish
    PROVE  BulkLayoutInv'
  <1> DEFINE t == Place(Top)
             n == newBlock
  <1>0. ppc = "publish" /\ ppc' \in {"write", "room"}
    BY DEF PublishBlock, BulkPublish
  <1>1. /\ Top \in Nat /\ Filled \in Nat /\ Filled <= Top /\ t \in Slots
        /\ indexTail = Place(Top - 1 + Shift)
        /\ IndexRight /\ BatchRight /\ SlotsRight /\ BulkPlacesRight /\ CountsRight
        /\ value \in [Slots -> Blocks \cup {Null, Garbage}]
        /\ batch # NoBatch => Top = Filled + Len(batch.chain)
    BY <1>0, RingNow
  <1>2. /\ batch.undone = 0 /\ Len(batch.chain) \in Nat /\ batch.chain \in Seq(Blocks)
        /\ n \in Blocks \cup {Null}
    BY <1>0, <1>1, Numbers DEF BatchRight, BulkGood, BulkTypeOK, TypeOK
  <1>3. indexTail = t
    <2>1. Shift = 1
      BY <1>0 DEF Shift
    <2>2. Top - 1 + Shift = Top
      BY <1>1, <2>1
    <2> QED
      BY <1>1, <2>2
  <1>4. /\ n \in Blocks /\ key[t] = BlockSize * Top /\ t \notin Linked
        /\ elementsCompletelyDequeued[n] = 0
        /\ n \notin pool \cup freeing \cup other \cup InRing \cup Released \cup Undone
    BY <1>0, <1>1, <1>2 DEF SlotsRight, Inserting, CountsRight, BulkPlacesRight
  <1> USE DEF counters, blockIndex, contents, places, consumer
  <1>5. /\ Unseen /\ UNCHANGED <<tailIndex, indexTail, key, elementsCompletelyDequeued, pool,
                                 freeing, other>>
        /\ value' = [value EXCEPT ![t] = n] /\ tailBlock' = n /\ newBlock' = Null
    BY <1>3 DEF PublishBlock, BulkPublish, Unseen
  <1>6. \/ batch = NoBatch /\ batch' = batch /\ ppc' = "write"
        \/ /\ batch # NoBatch /\ batch' # NoBatch /\ batch'.chain = Append(batch.chain, n)
           /\ batch'.count = batch.count
           /\ batch'.undone = batch.undone /\ batch'.start = batch.start
           /\ ppc' = IF NextBase = LastBase(batch.count) THEN "write" ELSE "room"
    <2>1. CASE PublishBlock /\ batch = NoBatch /\ UNCHANGED <<batch, grab>>
      BY <2>1 DEF PublishBlock
    <2>2. CASE BulkPublish
      <3>1. batch # NoBatch /\ batch' = [batch EXCEPT !.chain = Append(@, n)]
            /\ ppc' = IF NextBase = LastBase(batch.count) THEN "write" ELSE "room"
        BY <2>2 DEF BulkPublish
      <3>2. batch \in BatchType
        BY DEF BulkGood, BulkTypeOK
      <3>3. batch'.chain = Append(batch.chain, n) /\ batch'.count = batch.count
            /\ batch'.undone = batch.undone /\ batch'.start = batch.start
        BY <3>1, <3>2 DEF BatchType
      <3>4. batch'.count > 0 /\ NoBatch.count = 0
        BY <1>1, <3>1, <3>3 DEF BatchRight, NoBatch
      <3>5. batch' # NoBatch
        BY <3>4
      <3> QED
        BY <3>1, <3>3, <3>5
    <2> QED
      BY <2>1, <2>2
  <1> HIDE DEF NoBatch
  <1>7. /\ Filled' = Filled /\ Top' = Top + 1 /\ batch'.undone = 0 /\ Shift' = 0
        /\ batch # NoBatch => Len(batch'.chain) = Len(batch.chain) + 1
    <2>1. Filled' = Filled
      BY <1>5 DEF Filled
    <2>2. CASE batch = NoBatch
      <3>1. Cell(tailIndex) = 0 /\ Top = Filled
        BY <1>0, <1>1, <2>2 DEF BatchRight, Inserting, Top
      <3> QED
        BY <1>0, <1>2, <1>5, <1>6, <2>1, <2>2, <3>1 DEF Top, Shift, Cell
    <2>3. CASE batch # NoBatch
      <3>1. Len(Append(batch.chain, n)) = Len(batch.chain) + 1
        BY <1>2, <1>4
      <3>2. batch' # NoBatch /\ batch'.chain = Append(batch.chain, n) /\ batch'.undone = 0
        BY <1>2, <1>6, <2>3
      <3>3. Top' = Filled' + Len(batch'.chain)
        BY <3>2 DEF Top
      <3>4. Shift' = 0
        <4>0. PICK u : u = batch'.undone
          OBVIOUS
        <4>1. \A v \in Nat : (v = 0 => -v = 0) /\ Top - 2 + (1 - v) = Top - 1 + (-v)
          BY <1>1
        <4>2. Shift' = -u /\ u = 0
          <5>1. ~(ppc' \in {"requisition", "rewind", "reset", "publish"}) /\ ~(ppc' = "undo tail")
            BY <1>0
          <5>2. Shift' = -(batch'.undone)
            BY <5>1, Zenon DEF Shift
          <5> QED
            BY <3>2, <4>0, <5>2
        <4>3. u \in Nat
          BY <4>2
        <4>4. -u = 0
          BY <4>1, <4>2, <4>3
        <4> QED
          BY <4>2, <4>4
      <3> QED
        BY <1>1, <1>2, <2>1, <2>3, <3>1, <3>2, <3>3, <3>4
    <2> QED
      BY <2>2, <2>3
  <1>8. /\ value'[t] = n /\ t \in Linked' /\ \A s \in Linked' : s = t \/ s \in Linked
        /\ \A s \in Linked : s # t /\ s \in Linked' /\ value'[s] = value[s]
    BY <1>1, <1>4, <1>5 DEF Linked
  <1>9. \A p : Needed(p)' <=> Needed(p)
    BY <1>2, <1>5, <1>7, UnseenKeeps DEF Needed
  <1>10. Needed(Top) /\ Filled \in 0 .. Top /\ 0 .. Top' - 1 = 0 .. Top
    <2>1. Needed(Top)
      BY <1>1, <1>2, Ahead
    <2>2. Top' - 1 = Top
      BY <1>1, <1>7
    <2> QED
      BY <1>1, <2>1, <2>2
  <1>11. KeepsFilled
    BY <1>5, <1>8 DEF KeepsFilled
  <1> HIDE DEF t, n
  <1>12. IndexRight'
    <2>1. indexTail' = Place(Top - 1 + Shift)'
      <3>1. Top' - 1 + Shift' = Top
        BY <1>1, <1>7
      <3> QED
        BY <1>3, <1>5, <3>1 DEF t, Place
    <2>2. KeysInPlace'
      BY <1>1, <1>5 DEF IndexRight, KeysInPlace, Place
    <2>3. NeededLinked'
      <3>1. \A p \in 0 .. Top - 1 : /\ key[Place(p)] # INVALID_BLOCK_BASE
                                    /\ Needed(p) => key[Place(p)] = BlockSize * p /\ Place(p) \in Linked'
        BY <1>1, <1>8 DEF IndexRight, NeededLinked
      <3>2. key[Place(Top)] # INVALID_BLOCK_BASE /\ key[Place(Top)] = BlockSize * Top
            /\ Place(Top) \in Linked'
        BY <1>1, <1>4, <1>8, BasesAreKeys DEF t
      <3>3. \A p \in 0 .. Top : p = Top \/ p \in 0 .. Top - 1
        BY <1>1
      <3> QED
        BY <1>5, <1>9, <1>10, <3>1, <3>2, <3>3 DEF NeededLinked, Place
    <2>4. LinkedNeeded'
      <3>1. ASSUME NEW s \in Linked'
            PROVE  \E p \in 0 .. Top : key[s] = BlockSize * p /\ s = Place(p) /\ (Needed(p) \/ Unlinking(s))
        <4>1. CASE s = t
          BY <1>1, <1>4, <1>10, <4>1 DEF t
        <4>2. CASE s \in Linked
          <5>1. PICK p \in 0 .. Top - 1 :
                      key[s] = BlockSize * p /\ s = Place(p) /\ (Needed(p) \/ Unlinking(s))
            BY <1>1, <4>2 DEF IndexRight, LinkedNeeded
          <5>2. p \in 0 .. Top
            BY <1>1
          <5> QED
            BY <5>1, <5>2
        <4> QED
          BY <1>8, <4>1, <4>2
      <3> QED
        BY <1>5, <1>9, <1>10, <3>1, UnseenKeeps DEF LinkedNeeded, Place
    <2>5. LastKeyKept'
      <3>1. ~(key[t] < BlockSize * Filled)
        <4>1. Filled \in Int /\ Top \in Int /\ ~(Top < Filled)
          BY <1>1
        <4> QED
          BY <1>4, <4>1, BlocksOrdered
      <3> QED
        BY <1>1, <1>5, <1>7, <1>8, <3>1 DEF IndexRight, LastKeyKept, Place
    <2>6. ChainInPlace'
      <3> SUFFICES ASSUME batch # NoBatch,
                          NEW k \in 1 .. Len(batch.chain) + 1
                   PROVE  value'[Place(Filled + k - 1)] = batch'.chain[k]
        <4>1. CASE batch = NoBatch
          BY <1>6, <4>1 DEF ChainInPlace, NoBatch
        <4> QED
          BY <4>1, <1>7 DEF ChainInPlace, Place
      <3>0. batch'.chain = Append(batch.chain, n) /\ Top = Filled + Len(batch.chain)
        BY <1>1, <1>6
      <3>1. CASE k \in 1 .. Len(batch.chain)
        <4>1. k \in batch.undone + 1 .. Len(batch.chain) /\ k \in DOMAIN batch.chain
          BY <1>2, <3>1
        <4>2. /\ Filled + k - 1 \in 0 .. Top - 1 /\ Needed(Filled + k - 1)
              /\ value[Place(Filled + k - 1)] = batch.chain[k]
          BY <1>1, <4>1, ChainNeeded DEF IndexRight, ChainInPlace
        <4>3. Place(Filled + k - 1) \in Linked
          BY <1>1, <4>2 DEF IndexRight, NeededLinked
        <4>4. batch'.chain[k] = batch.chain[k]
          BY <1>2, <1>4, <3>0, <3>1
        <4> QED
          BY <1>8, <4>2, <4>3, <4>4
      <3>2. CASE k = Len(batch.chain) + 1
        <4>1. Filled + k - 1 = Top
          BY <1>1, <1>2, <3>0, <3>2
        <4>2. batch'.chain[k] = n
          BY <1>2, <1>4, <3>0, <3>2
        <4> QED
          BY <1>8, <4>1, <4>2 DEF t
      <3> QED
        BY <1>2, <3>1, <3>2
    <2>7. TailRight'
      <3>1. PICK f, u : f = Filled /\ u = Top
        OBVIOUS
      <3>2. batch # NoBatch /\ f > 0 /\ Needed(f - 1) => batch.start = value'[Place(f - 1)]
        <4> SUFFICES ASSUME batch # NoBatch, f > 0, Needed(f - 1)
                     PROVE  batch.start = value'[Place(f - 1)]
          OBVIOUS
        <4>1. f - 1 \in 0 .. Top - 1
          BY <1>1, <3>1
        <4>2. Place(f - 1) \in Linked /\ batch.start = value[Place(f - 1)]
          BY <1>1, <3>1, <4>1 DEF IndexRight, NeededLinked, TailRight
        <4> QED
          BY <1>8, <4>2
      <3>3. tailBlock' = value'[Place(u)] /\ tailBlock' = n /\ u + 1 - 1 = u
        BY <1>1, <1>5, <1>8, <3>1 DEF t
      <3>4. batch # NoBatch => /\ batch'.chain # <<>> /\ batch'.chain[Len(batch'.chain)] = n
                               /\ batch'.start = batch.start /\ batch' # NoBatch
        BY <1>2, <1>4, <1>6
      <3>5. batch = NoBatch => batch' = NoBatch
        BY <1>6
      <3>6. Filled' = f /\ Top' = u + 1 /\ (Needed(f - 1)' <=> Needed(f - 1))
        BY <1>7, <1>9, <3>1
      <3>7. PICK w : w = u + 1
        OBVIOUS
      <3>8. TailRight' <=>
               /\ f > 0 /\ Needed(f - 1)' /\ batch' # NoBatch => batch'.start = value'[Place(f - 1)]
               /\ w > 0 /\ Needed(w - 1)' /\ batch' = NoBatch => tailBlock' = value'[Place(w - 1)]
               /\ batch' # NoBatch /\ ppc' \notin {"undo", "undo tail"} =>
                     tailBlock' = IF batch'.chain = <<>> THEN batch'.start
                                                        ELSE batch'.chain[Len(batch'.chain)]
        BY <3>6, <3>7 DEF TailRight, Place, Needed
      <3>9. w - 1 = u
        BY <1>1, <3>1, <3>7
      <3>10. CASE batch = NoBatch
        BY <3>3, <3>5, <3>8, <3>9, <3>10
      <3>11. CASE batch # NoBatch
        BY <3>2, <3>3, <3>4, <3>6, <3>8, <3>11
      <3> QED
        BY <3>10, <3>11
    <2> QED
      BY <2>1, <2>2, <2>3, <2>4, <2>5, <2>6, <2>7 DEF IndexRight
  <1>13. SlotsRight'
    BY <1>0, <1>1, <1>4, <1>5, <1>8, PointerAssumption DEF SlotsRight, Inserting, t
  <1>14. BatchRight'
    <2>1. CASE batch = NoBatch
      BY <1>0, <1>1, <1>2, <1>5, <1>6, <2>1 DEF BatchRight, Inserting, Cell
    <2>2. CASE batch # NoBatch
      <3>1. /\ batch' # NoBatch /\ batch'.count = batch.count /\ batch'.undone = 0
            /\ batch.count > 0 /\ (ppc' = "write" => NextBase = LastBase(batch.count))
        BY <1>0, <1>1, <1>2, <1>6, <2>2 DEF BatchRight
      <3>2. (ChainBase(Len(batch.chain)) = LastBase(batch.count))' <=> NextBase = LastBase(batch.count)
        BY <1>5, <1>7, <2>2, <3>1 DEF NextBase, ChainBase, LastBase, Base
      <3> QED
        BY <1>0, <3>1, <3>2 DEF BatchRight, Inserting
    <2> QED
      BY <2>1, <2>2
  <1>15. CountsRight'
    <2>1. \A s \in Linked' : \/ s \in Linked /\ value'[s] = value[s]
                             \/ elementsCompletelyDequeued[value'[s]] = 0 /\ key[s] = BlockSize * Top
      BY <1>4, <1>8
    <2> QED
      BY <1>0, <1>2, <1>5, <2>1, CountsStayRight
  <1>16. BulkPlacesRight'
    <2>1. InRing' = InRing \cup {n}
      BY <1>8 DEF InRing
    <2>2. Undone' = Undone
      <3>1. Undone = {} /\ Undone' = {}
        BY <1>2, <1>7 DEF Undone
      <3> QED
        BY <3>1
    <2>3. \A s \in Linked : value[s] \in InRing
      BY DEF InRing
    <2>4. \A s, r \in Linked' : value'[s] = value'[r] => s = r
      BY <1>1, <1>4, <1>8, <2>3 DEF BulkPlacesRight
    <2>5. Released' = Released /\ InRing \subseteq Blocks
      BY <1>5, UnseenKeeps DEF InRing, Linked
    <2>6. Null \notin pool \cup freeing \cup other \cup InRing' \cup Released \cup Undone
      <3>1. pool \cup freeing \cup other \subseteq Blocks
        BY DEF BulkGood, BulkTypeOK, TypeOK, BulkLayoutInv, BulkPlacesRight
      <3>2. Released \subseteq Blocks
        BY ClaimFacts DEF Released, BulkClaimRight
      <3> QED
        BY <1>2, <1>4, <2>1, <2>2, <2>5, <3>1, <3>2, PointerAssumption DEF Undone
    <2> QED
      BY <1>1, <1>4, <1>5, <2>1, <2>2, <2>4, <2>5, <2>6 DEF BulkPlacesRight, n
  <1> QED
    BY <1>0, <1>5, <1>11, <1>12, <1>13, <1>14, <1>15, <1>16, ClaimsStayRight DEF BulkLayoutInv

\* The elements come to the blocks that were linked for them.
LEMMA FilledByCommit ==
    ASSUME BulkGood,
           (Commit /\ batch = NoBatch /\ UNCHANGED <<batch, grab>>) \/ BulkCommit
    PROVE  Filled' = Top
  <1>1. ppc = "commit" /\ BatchRight
    BY DEF Commit, BulkCommit, BulkGood, BulkLayoutInv
  <1>2. /\ Top \in Nat /\ Filled \in Nat /\ tailIndex \in Nat /\ BlockSize \in Nat
        /\ BlockSize > 1 /\ BlockSize * Filled \in Nat
        /\ tailIndex <= BlockSize * Filled /\ BlockSize * Filled < tailIndex + BlockSize
        /\ Cell(tailIndex) = 0 <=> tailIndex = BlockSize * Filled
        /\ batch.count \in Nat /\ Len(batch.chain) \in Nat
    BY Numbers DEF BulkGood
  <1>3. tailIndex' \in Nat
    BY <1>2 DEF Commit, BulkCommit
  <1>4. PICK f \in Nat :
           /\ (tailIndex' + BlockSize - 1) \div BlockSize = f /\ BlockSize * f \in Nat
           /\ tailIndex' <= BlockSize * f /\ BlockSize * f < tailIndex' + BlockSize
           /\ Base(tailIndex' - 1) = BlockSize * (f - 1)
    BY <1>3, Rounded
  <1>5. Filled' = f
    BY <1>4 DEF Filled
  <1>6. CASE Commit /\ batch = NoBatch /\ UNCHANGED <<batch, grab>>
    <2>1. tailIndex' = tailIndex + 1
      BY <1>6 DEF Commit
    <2>2. CASE tailIndex = BlockSize * Filled
      <3>1. Top = Filled + 1
        BY <1>1, <1>2, <1>6, <2>2 DEF Top
      <3>2. BlockSize * (Filled + 1) = BlockSize * Filled + BlockSize
        BY <1>2, BlocksOrdered
      <3>3. PICK x, y \in Nat : x = BlockSize * Filled /\ y = BlockSize * f
        BY <1>2, <1>4
      <3>4. x < y /\ y < (x + BlockSize) + BlockSize
        BY <1>2, <1>4, <2>1, <2>2, <3>3
      <3>5. Filled < f /\ f < Filled + 2
        <4>1. Filled < f
          BY <1>2, <3>3, <3>4, BlocksOrdered
        <4>2. BlockSize * (Filled + 2) = (BlockSize * Filled + BlockSize) + BlockSize
          <5>1. Filled + 1 \in Int /\ (Filled + 1) + 1 = Filled + 2
            BY <1>2
          <5>2. BlockSize * ((Filled + 1) + 1) = BlockSize * (Filled + 1) + BlockSize
            BY <5>1, BlocksOrdered
          <5> QED
            BY <3>2, <5>1, <5>2
        <4>3. f < Filled + 2
          <5>1. Filled + 2 \in Int /\ f \in Int
            BY <1>2
          <5>2. BlockSize * f < BlockSize * (Filled + 2)
            BY <3>3, <3>4, <4>2
          <5> QED
            BY <5>1, <5>2, BlocksOrdered
        <4> QED
          BY <4>1, <4>3
      <3> QED
        BY <1>2, <1>5, <3>1, <3>5
    <2>3. CASE tailIndex # BlockSize * Filled
      <3>1. Top = Filled
        BY <1>1, <1>2, <1>6, <2>3 DEF Top
      <3>2. PICK x, y \in Nat : x = BlockSize * Filled /\ y = BlockSize * f
        BY <1>2, <1>4
      <3>3. x < y + BlockSize /\ y < x + BlockSize
        BY <1>2, <1>4, <2>1, <2>3, <3>2
      <3>4. ~(Filled < f)
        BY <1>2, <1>4, <3>2, <3>3, BlocksOrdered
      <3>5. ~(f < Filled)
        BY <1>2, <1>4, <3>2, <3>3, BlocksOrdered
      <3> QED
        BY <1>2, <1>5, <3>1, <3>4, <3>5
    <2> QED
      BY <2>2, <2>3
  <1>7. CASE BulkCommit
    <2>1. tailIndex' = tailIndex + batch.count /\ batch # NoBatch
      BY <1>7 DEF BulkCommit
    <2>2. BlockSize * (Filled - 1 + Len(batch.chain)) = LastBase(batch.count)
      BY <1>1, <1>2, <2>1, NextBaseIs DEF BatchRight
    <2>3. LastBase(batch.count) = BlockSize * (f - 1)
      <3>1. tailIndex + batch.count - 1 = tailIndex' - 1
        BY <1>2, <2>1
      <3> QED
        BY <1>4, <3>1 DEF LastBase
    <2>4. Filled - 1 + Len(batch.chain) \in Int /\ f - 1 \in Int
      BY <1>2, <1>4
    <2>5. Filled - 1 + Len(batch.chain) = f - 1
      BY <2>2, <2>3, <2>4, BlocksOrdered
    <2>6. Top = Filled + Len(batch.chain)
      BY <2>1 DEF Top
    <2> QED
      BY <1>2, <1>4, <1>5, <2>5, <2>6
  <1> QED
    BY <1>6, <1>7

LEMMA CommitSteps ==
    ASSUME BulkGood,
           (Commit /\ batch = NoBatch /\ UNCHANGED <<batch, grab>>) \/ BulkCommit
    PROVE  BulkLayoutInv'
  <1>0. ppc = "commit" /\ ppc' = "idle" /\ batch' = NoBatch
    BY DEF Commit, BulkCommit
  <1>1. /\ Top \in Nat /\ Filled \in Nat /\ Filled <= Top
        /\ indexTail = Place(Top - 1 + Shift)
        /\ IndexRight /\ BatchRight /\ SlotsRight /\ BulkPlacesRight /\ CountsRight
        /\ batch # NoBatch => Top = Filled + Len(batch.chain)
    BY <1>0, RingNow
  <1>2. /\ batch.undone = 0 /\ NoBatch.undone = 0 /\ NoBatch.chain = <<>>
        /\ Len(batch.chain) \in Nat
    BY <1>0, <1>1, Numbers DEF BatchRight, BulkGood, NoBatch
  <1> USE DEF counters, blockIndex, contents, places, consumer
  <1>3. /\ Unseen /\ UNCHANGED <<indexTail, key, value, elementsCompletelyDequeued, pool,
                                 freeing, newBlock, tailBlock>>
    BY DEF Commit, BulkCommit, Unseen
  <1>4. Filled' = Top
    BY FilledByCommit
  <1>5. Top' = Top /\ Shift' = Shift
    <2>1. Top' = Filled' + 0
      BY <1>0 DEF Top
    <2>2. Shift' = Shift
      BY <1>0, <1>2 DEF Shift
    <2> QED
      BY <1>1, <1>4, <2>1, <2>2
  <1>6. \A p \in 0 .. Top - 1 : Needed(p)' <=> Needed(p)
    <2>1. \A p \in Nat : ~(Filled <= p /\ p < Filled + 0) /\ ~(Top <= p /\ p < Top + 0)
      BY <1>1
    <2>2. \A p \in 0 .. Top - 1 : p \in Nat
      BY <1>1
    <2>3. batch'.undone = 0
      BY <1>0, <1>2
    <2> QED
      BY <1>2, <1>3, <1>4, <2>1, <2>2, <2>3, UnseenKeeps DEF Needed
  <1>7. Linked' = Linked
    BY <1>3 DEF Linked
  <1>8. IndexRight'
    <2>1. indexTail' = Place(Top - 1 + Shift)' /\ KeysInPlace'
      BY <1>1, <1>3, <1>5 DEF IndexRight, KeysInPlace, Place
    <2>2. NeededLinked'
      BY <1>1, <1>3, <1>5, <1>6, <1>7 DEF IndexRight, NeededLinked, Place
    <2>3. LinkedNeeded'
      BY <1>1, <1>3, <1>5, <1>6, <1>7, UnseenKeeps DEF IndexRight, LinkedNeeded, Place
    <2>4. LastKeyKept'
      <3>1. \A s \in Linked : key[s] < BlockSize * Top => key[Place(Top - 1)] = BlockSize * (Top - 1)
        <4>1. CASE Top = Filled
          BY <1>1, <4>1 DEF IndexRight, LastKeyKept
        <4>2. CASE Top # Filled
          <5>1. Top - 1 \in 0 .. Top - 1 /\ Top - 1 \in Nat /\ Filled + 0 <= Top - 1
            BY <1>1, <4>2
          <5>2. Needed(Top - 1)
            BY <1>2, <5>1, Ahead
          <5> QED
            BY <1>1, <5>1, <5>2 DEF IndexRight, NeededLinked
        <4> QED
          BY <4>1, <4>2
      <3> QED
        BY <1>3, <1>4, <1>7, <3>1 DEF LastKeyKept, Place
    <2>5. ChainInPlace'
      BY <1>0, <1>2 DEF ChainInPlace
    <2>6. TailRight'
      <3>1. Top > 0 /\ Needed(Top - 1) => tailBlock = value[Place(Top - 1)]
        <4> SUFFICES ASSUME Top > 0, Needed(Top - 1) PROVE tailBlock = value[Place(Top - 1)]
          OBVIOUS
        <4> HIDE DEF NoBatch
        <4>1. CASE batch = NoBatch
          BY <1>1, <4>1 DEF IndexRight, TailRight
        <4>2. CASE batch # NoBatch /\ batch.chain = <<>>
          <5>1. Top = Filled
            BY <1>1, <4>2
          <5> QED
            BY <1>0, <1>1, <4>2, <5>1 DEF IndexRight, TailRight
        <4>3. CASE batch # NoBatch /\ batch.chain # <<>>
          <5>1. Len(batch.chain) \in batch.undone + 1 .. Len(batch.chain)
            <6>1. batch.chain \in Seq(Blocks)
              BY Numbers DEF BulkGood
            <6>2. Len(batch.chain) # 0
              BY <4>3, <6>1
            <6> QED
              BY <1>2, <6>2
          <5>2. Filled + Len(batch.chain) - 1 = Top - 1
            BY <1>1, <4>3
          <5>3. tailBlock = batch.chain[Len(batch.chain)]
            BY <1>0, <1>1, <4>3 DEF IndexRight, TailRight
          <5> QED
            BY <1>1, <5>1, <5>2, <5>3 DEF IndexRight, ChainInPlace
        <4> QED
          BY <4>1, <4>2, <4>3
      <3>2. PICK t : t = Top
        OBVIOUS
      <3>3. TailRight' <=> (t > 0 /\ Needed(t - 1)' => tailBlock = value[Place(t - 1)])
        BY <1>0, <1>3, <1>4, <1>5, <3>2 DEF TailRight, Place, Needed
      <3>4. t > 0 => t - 1 \in 0 .. Top - 1
        BY <1>1, <3>2
      <3> QED
        BY <1>6, <3>1, <3>2, <3>3, <3>4
    <2> QED
      BY <2>1, <2>2, <2>3, <2>4, <2>5, <2>6 DEF IndexRight
  <1>9. SlotsRight' /\ BatchRight'
    BY <1>0, <1>1, <1>2, <1>3, <1>7 DEF SlotsRight, BatchRight, Inserting
  <1>10. CountsRight'
    BY <1>0, <1>3, <1>7, CountsStayRight
  <1>11. BulkPlacesRight'
    <2>1. Undone = {} /\ Undone' = {}
      BY <1>0, <1>2 DEF Undone
    <2>2. InRing' = InRing /\ Released' = Released /\ other' = other
      BY <1>3, <1>7, UnseenKeeps DEF InRing, Unseen
    <2> QED
      BY <1>1, <1>3, <1>7, <2>1, <2>2 DEF BulkPlacesRight
  <1>12. KeepsFilled
    BY <1>3, <1>7 DEF KeepsFilled
  <1> QED
    BY <1>0, <1>3, <1>8, <1>9, <1>10, <1>11, <1>12, ClaimsStayRight DEF BulkLayoutInv

\* The block that is undone next, and its slot.
LEMMA NextUndone ==
    ASSUME BulkGood, ppc = "undo", batch.undone < Len(batch.chain)
    PROVE  LET p == Filled + batch.undone
               t == Place(p)
           IN  /\ p \in 0 .. Top - 1 /\ p \in Nat /\ Needed(p) /\ t \in Linked
               /\ key[t] = BlockSize * p /\ value[t] = batch.chain[batch.undone + 1]
               /\ SlotOf(ChainBase(batch.undone + 1), indexTail, key[indexTail]) = t
               /\ \A q \in 0 .. Top - 1 : Needed(q) /\ q # p => Place(q) # t
  <1> DEFINE p == Filled + batch.undone
             t == Place(p)
  <1>1. /\ Top \in Nat /\ Filled \in Nat /\ Filled <= Top /\ IndexRight /\ BatchRight
        /\ indexTail = Place(Top - 1 + Shift) /\ key \in [Slots -> Nat]
    BY RingNow
  <1>2. batch # NoBatch /\ Top = Filled + Len(batch.chain)
    BY <1>1 DEF BatchRight, Top
  <1>3. batch.undone \in Nat /\ Len(batch.chain) \in Nat
    BY Numbers DEF BulkGood
  <1>4. /\ batch.undone + 1 \in batch.undone + 1 .. Len(batch.chain)
        /\ Filled + (batch.undone + 1) - 1 = p
    BY <1>1, <1>3
  <1>5. p \in 0 .. Top - 1 /\ p \in Nat /\ Needed(p)
    <2>1. Filled + (batch.undone + 1) - 1 \in 0 .. Top - 1 /\ Needed(Filled + (batch.undone + 1) - 1)
      BY <1>4, ChainNeeded
    <2>2. p \in 0 .. Top - 1 /\ p \in Nat
      BY <1>1, <1>2, <1>3
    <2> QED
      BY <1>4, <2>1, <2>2
  <1>6. t \in Linked /\ key[t] = BlockSize * p
    BY <1>1, <1>5 DEF IndexRight, NeededLinked
  <1>7. value[t] = batch.chain[batch.undone + 1]
    BY <1>1, <1>4 DEF IndexRight, ChainInPlace
  <1>8. ChainBase(batch.undone + 1) = BlockSize * p
    <2>1. batch.undone + 1 \in Nat /\ Filled - 1 + (batch.undone + 1) = p
      BY <1>1, <1>3
    <2> QED
      BY <1>2, <2>1, NextBaseIs
  <1>9. indexTail \in Slots /\ key[indexTail] # INVALID_BLOCK_BASE
    <2>1. Shift = -batch.undone
      BY DEF Shift
    <2>2. Top - 1 + Shift \in 0 .. Top - 1
      <3>1. PICK u \in Nat, n \in Nat, f \in Nat, m \in Nat :
               u = batch.undone /\ n = Len(batch.chain) /\ f = Filled /\ m = Top
        BY <1>1, <1>3
      <3>2. PICK h : h = Shift
        OBVIOUS
      <3>3. h = -u
        BY <2>1, <3>1, <3>2, Zenon
      <3>4. u < n /\ m = f + n
        BY <1>2, <3>1
      <3>5. m - 1 + h \in 0 .. m - 1
        BY <3>3, <3>4
      <3> QED
        BY <3>1, <3>2, <3>5, Zenon
    <2>3. Top - 1 + Shift \in Int
      BY <2>2
    <2> QED
      BY <1>1, <2>2, <2>3, Places DEF IndexRight, NeededLinked
  <1>10. SlotOf(ChainBase(batch.undone + 1), indexTail, key[indexTail]) = t
    <2>1. BlockSize * p \in Nat /\ (BlockSize * p) \div BlockSize = p
      BY <1>5, BasesAreKeys
    <2> QED
      BY <1>1, <1>8, <1>9, <2>1, FoundInPlace DEF SlotAt, Place
  <1>11. ASSUME NEW q \in 0 .. Top - 1, Needed(q), q # p PROVE Place(q) # t
    <2>1. key[Place(q)] = BlockSize * q
      BY <1>1, <1>11 DEF IndexRight, NeededLinked
    <2>2. q \in Int /\ p \in Int
      BY <1>1, <1>5
    <2>3. BlockSize * q # BlockSize * p
      BY <1>11, <2>2, BlocksOrdered
    <2> QED
      BY <1>6, <2>1, <2>3
  <1> QED
    BY <1>5, <1>6, <1>7, <1>10, <1>11

LEMMA UndoSteps ==
    ASSUME BulkGood, UndoEntry
    PROVE  BulkLayoutInv'
  <1>0. ppc = "undo" /\ ppc' = "undo tail" /\ batch.undone < Len(batch.chain)
    BY DEF UndoEntry
  <1>1. /\ Top \in Nat /\ Filled \in Nat /\ Filled <= Top
        /\ indexTail = Place(Top - 1 + Shift)
        /\ IndexRight /\ BatchRight /\ SlotsRight /\ BulkPlacesRight /\ CountsRight
        /\ value \in [Slots -> Blocks \cup {Null, Garbage}]
        /\ batch.undone \in Nat /\ Len(batch.chain) \in Nat /\ batch \in BatchType
    BY <1>0, RingNow, Numbers DEF BulkGood, BulkTypeOK
  <1>2. batch # NoBatch /\ batch.chain # <<>> /\ batch.count > 0
    BY <1>0, <1>1 DEF BatchRight
  <1>3. PICK u \in Nat, n \in Nat, x \in Nat :
           u = batch.undone /\ n = Len(batch.chain) /\ x = Filled + batch.undone
    BY <1>1
  <1>4. PICK t : t = Place(x)
    OBVIOUS
  <1>5. /\ x \in 0 .. Top - 1 /\ x \in Nat /\ Needed(x) /\ t \in Linked
        /\ key[t] = BlockSize * x /\ value[t] = batch.chain[u + 1]
        /\ SlotOf(ChainBase(u + 1), indexTail, key[indexTail]) = t
        /\ \A q \in 0 .. Top - 1 : Needed(q) /\ q # x => Place(q) # t
    BY <1>0, <1>3, <1>4, NextUndone
  <1> USE DEF counters, blockIndex, contents, places, consumer
  <1>6. /\ Unseen /\ UNCHANGED <<tailIndex, indexTail, key, elementsCompletelyDequeued, pool,
                                 freeing, newBlock, tailBlock>>
        /\ value' = [value EXCEPT ![t] = Null]
        /\ batch' = [batch EXCEPT !.undone = @ + 1]
    BY <1>3, <1>5 DEF UndoEntry, Unseen
  <1>7. /\ batch'.undone = u + 1 /\ batch'.chain = batch.chain /\ batch'.start = batch.start
        /\ batch'.count = batch.count /\ batch' # NoBatch
    <2>1. /\ batch'.undone = u + 1 /\ batch'.chain = batch.chain /\ batch'.start = batch.start
          /\ batch'.count = batch.count
      BY <1>1, <1>3, <1>6 DEF BatchType
    <2>2. NoBatch.chain = <<>>
      BY DEF NoBatch
    <2> QED
      BY <1>2, <2>1, <2>2
  <1> HIDE DEF NoBatch
  <1>8. Filled' = Filled /\ Top' = Top /\ indexTail' = Place(Top - 1 + Shift')
    <2>1. Filled' = Filled /\ Top' = Top
      BY <1>2, <1>6, <1>7 DEF Filled, Top
    <2>2. Shift = -u
      BY <1>0, <1>3 DEF Shift
    <2>3. Shift' = 1 - (u + 1)
      BY <1>0, <1>7 DEF Shift
    <2>4. Top - 1 + (1 - (u + 1)) = Top - 1 + (-u)
      BY <1>1, <1>3
    <2> QED
      BY <1>1, <1>6, <2>1, <2>2, <2>3, <2>4
  <1>9. /\ t \in Slots /\ value'[t] = Null /\ Linked' = Linked \ {t}
        /\ \A s \in Slots \ {t} : value'[s] = value[s]
    BY <1>1, <1>5, <1>6, PointerAssumption DEF Linked
  <1>10. \A p \in Nat : Needed(p)' <=> Needed(p) /\ p # x
    <2>1. \A p \in Nat : (Filled <= p /\ p < Filled + (u + 1)) <=> (Filled <= p /\ p < Filled + u) \/ p = x
      BY <1>1, <1>3
    <2> QED
      BY <1>3, <1>6, <1>7, <1>8, <2>1, UnseenKeeps DEF Needed
  <1>11. \A p \in 0 .. Top - 1 : p \in Nat
    BY <1>1
  <1>12. IndexRight'
    <2>1. indexTail' = Place(Top - 1 + Shift)' /\ KeysInPlace'
      BY <1>1, <1>6, <1>8 DEF IndexRight, KeysInPlace, Place
    <2>2. NeededLinked'
      BY <1>1, <1>5, <1>6, <1>8, <1>9, <1>10, <1>11 DEF IndexRight, NeededLinked, Place
    <2>3. LinkedNeeded'
      BY <1>1, <1>4, <1>6, <1>8, <1>9, <1>10, <1>11, UnseenKeeps DEF IndexRight, LinkedNeeded, Place
    <2>4. LastKeyKept'
      BY <1>1, <1>6, <1>8, <1>9 DEF IndexRight, LastKeyKept, Place
    <2>5. ChainInPlace'
      <3>1. ASSUME NEW k \in (u + 1) + 1 .. n
            PROVE  value'[Place(Filled + k - 1)] = batch.chain[k]
        <4>1. k \in batch.undone + 1 .. Len(batch.chain) /\ Filled + k - 1 # x
              /\ Filled + k - 1 \in Int
          BY <1>1, <1>3
        <4>2. Filled + k - 1 \in 0 .. Top - 1 /\ Needed(Filled + k - 1)
          BY <4>1, ChainNeeded
        <4>3. Place(Filled + k - 1) # t /\ Place(Filled + k - 1) \in Slots
          BY <1>5, <4>1, <4>2, Places
        <4>4. value[Place(Filled + k - 1)] = batch.chain[k]
          BY <1>1, <4>1 DEF IndexRight, ChainInPlace
        <4> QED
          BY <1>9, <4>3, <4>4
      <3> QED
        BY <1>3, <1>7, <1>8, <3>1 DEF ChainInPlace, Place
    <2>6. TailRight'
      <3>1. PICK f : f = Filled
        OBVIOUS
      <3>2. f > 0 /\ Needed(f - 1)' => batch.start = value'[Place(f - 1)]
        <4> SUFFICES ASSUME f > 0, Needed(f - 1)' PROVE batch.start = value'[Place(f - 1)]
          OBVIOUS
        <4>1. f - 1 \in 0 .. Top - 1 /\ f - 1 \in Nat /\ f - 1 \in Int
          BY <1>1, <3>1
        <4>2. Needed(f - 1) /\ f - 1 # x
          BY <1>10, <4>1
        <4>3. Place(f - 1) # t /\ Place(f - 1) \in Slots
          BY <1>5, <4>1, <4>2, Places
        <4>4. batch.start = value[Place(f - 1)]
          BY <1>1, <1>2, <3>1, <4>2 DEF IndexRight, TailRight
        <4> QED
          BY <1>9, <4>3, <4>4
      <3>3. TailRight' <=> (f > 0 /\ Needed(f - 1)' => batch'.start = value'[Place(f - 1)])
        BY <1>0, <1>7, <1>8, <3>1 DEF TailRight, Place, Needed
      <3> QED
        BY <1>7, <3>2, <3>3
    <2> QED
      BY <2>1, <2>2, <2>3, <2>4, <2>5, <2>6 DEF IndexRight
  <1>13. SlotsRight'
    BY <1>0, <1>1, <1>6, <1>9, PointerAssumption DEF SlotsRight, Inserting
  <1>14. BatchRight'
    <2>1. batch'.undone > 0 /\ batch'.chain # <<>> /\ batch'.count > 0
      BY <1>2, <1>3, <1>7
    <2> QED
      BY <1>0, <1>7, <2>1 DEF BatchRight, Inserting
  <1>15. CountsRight'
    <2>1. \A s \in Linked' : s \in Linked /\ value'[s] = value[s] /\ key'[s] = key[s]
      BY <1>6, <1>9 DEF Linked
    <2> QED
      BY <1>0, <1>6, <2>1, CountsStayRight
  <1>16. BulkPlacesRight'
    <2>1. PICK b : b = value[t]
      OBVIOUS
    <2>2. b \in InRing /\ InRing' = InRing \ {b}
      <3>1. \A s \in Linked : value[s] = b => s = t
        BY <1>1, <1>5, <2>1 DEF BulkPlacesRight
      <3>2. \A s \in Linked' : s \in Linked /\ s # t /\ value'[s] = value[s]
        BY <1>9 DEF Linked
      <3>3. \A s \in Linked : s # t => s \in Linked' /\ value'[s] = value[s]
        BY <1>9 DEF Linked
      <3> QED
        BY <1>5, <2>1, <3>1, <3>2, <3>3 DEF InRing
    <2>3. Undone' = Undone \cup {b}
      <3>1. 1 .. (u + 1) = (1 .. u) \cup {u + 1}
        BY <1>3
      <3> QED
        BY <1>3, <1>5, <1>7, <2>1, <3>1 DEF Undone
    <2>4. Released' = Released /\ other' = other
      BY <1>6, UnseenKeeps DEF Unseen
    <2>5. \A s, r \in Linked' : value'[s] = value'[r] => s = r
      BY <1>1, <1>9 DEF BulkPlacesRight, Linked
    <2> QED
      BY <1>1, <1>6, <2>2, <2>3, <2>4, <2>5 DEF BulkPlacesRight
  <1>17. KeepsFilled
    <2>1. ~(key[t] < BlockSize * Filled)
      <3>1. ~(x < Filled) /\ Filled \in Int /\ x \in Int
        BY <1>1, <1>3
      <3> QED
        BY <1>5, <3>1, BlocksOrdered
    <2> QED
      BY <1>6, <1>9, <2>1 DEF KeepsFilled, Linked
  <1> QED
    BY <1>0, <1>6, <1>12, <1>13, <1>14, <1>15, <1>16, <1>17, ClaimsStayRight DEF BulkLayoutInv

\* A batch that was undone goes back to the pool, and its tail block is forgotten.
LEMMA UndoBlocksStep ==
    ASSUME BulkGood, UndoBlocks
    PROVE  BulkLayoutInv'
  <1>0. ppc = "undo" /\ ppc' = "idle" /\ batch.undone = Len(batch.chain) /\ batch' = NoBatch
    BY DEF UndoBlocks
  <1>1. /\ Top \in Nat /\ Filled \in Nat /\ Filled <= Top
        /\ indexTail = Place(Top - 1 + Shift)
        /\ IndexRight /\ BatchRight /\ SlotsRight /\ BulkPlacesRight /\ CountsRight
        /\ batch.undone \in Nat /\ batch.chain \in Seq(Blocks)
        /\ headIndex \in Nat /\ tailIndex \in Nat /\ tailIndex <= BlockSize * Filled
        /\ headIndex <= tailIndex
    BY <1>0, RingNow, Numbers DEF BulkGood, HeadNeverPassesTail
  <1>2. batch # NoBatch /\ Top = Filled + batch.undone
    BY <1>0, <1>1 DEF BatchRight, Top
  <1>3. NoBatch.undone = 0 /\ NoBatch.chain = <<>>
    BY DEF NoBatch
  <1> HIDE DEF NoBatch
  <1> USE DEF counters, blockIndex, contents, places, consumer
  <1>4. /\ Unseen /\ UNCHANGED <<tailIndex, indexTail, key, value, elementsCompletelyDequeued,
                                 pool, newBlock>>
        /\ freeing' = freeing \cup ChainBlocks /\ tailBlock' = batch.start
    BY DEF UndoBlocks, Unseen
  <1>5. Filled' = Filled /\ Top' = Filled /\ indexTail' = Place(Top' - 1 + Shift')
    <2>1. Filled' = Filled
      BY <1>4 DEF Filled
    <2>2. Top' = Filled' + 0
      BY <1>0 DEF Top
    <2>3. PICK u \in Nat, f \in Nat, m \in Nat : u = batch.undone /\ f = Filled /\ m = Top
      BY <1>1
    <2>4. PICK h, g : h = Shift /\ g = Shift'
      OBVIOUS
    <2>5. h = -u
      BY <1>0, <2>3, <2>4 DEF Shift
    <2>6. PICK v \in Nat : v = batch'.undone /\ v = 0
      BY <1>0, <1>3
    <2>7. g = -v
      BY <1>0, <2>4, <2>6 DEF Shift
    <2>8. m - 1 + h = f - 1 + g
      <3>1. m = f + u
        BY <1>2, <2>3
      <3> QED
        BY <2>5, <2>6, <2>7, <3>1
    <2>9. Top' = f
      BY <2>1, <2>2, <2>3
    <2> QED
      BY <1>1, <1>4, <2>1, <2>3, <2>4, <2>8, <2>9
  <1>6. Linked' = Linked
    BY <1>4 DEF Linked
  <1>7. \A p \in 0 .. Filled - 1 : p \in 0 .. Top - 1 /\ (Needed(p)' <=> Needed(p))
    <2>1. \A p \in 0 .. Filled - 1 : p \in 0 .. Top - 1 /\ ~(Filled <= p)
      BY <1>1
    <2> QED
      BY <1>4, <1>5, <2>1, UnseenKeeps DEF Needed
  <1>8. ASSUME NEW s \in Linked
        PROVE  \E p \in 0 .. Filled - 1 : key[s] = BlockSize * p /\ s = Place(p) /\
                                          (Needed(p) \/ Unlinking(s))
    <2>1. PICK p \in 0 .. Top - 1 :
              key[s] = BlockSize * p /\ s = Place(p) /\ (Needed(p) \/ Unlinking(s))
      BY <1>1 DEF IndexRight, LinkedNeeded
    <2>2. p \in Nat /\ p < Filled + batch.undone
      BY <1>1, <1>2
    <2>3. CASE Needed(p)
      <3>1. ~(Filled <= p)
        BY <2>2, <2>3 DEF Needed
      <3>2. p \in 0 .. Filled - 1
        BY <1>1, <2>2, <3>1
      <3> QED
        BY <2>1, <3>2
    <2>4. CASE Unlinking(s)
      <3>1. PICK c \in Consumers : pc[c] = "unlink" /\ found[c].entry = s
        BY <2>4 DEF Unlinking
      <3>2. /\ key[s] = Base(found[c].index) /\ found[c].index < headIndex
            /\ found[c].index \in Nat
        <4>1. /\ BulkClaimRight(c) /\ Until(c) \in Nat /\ found[c].index \in Nat
          BY ClaimFacts
        <4>2. found[c].index < Until(c) /\ Until(c) <= headIndex /\ key[s] = Base(found[c].index)
          BY <3>1, <4>1 DEF BulkClaimRight, HasClaimed
        <4> QED
          BY <1>1, <4>1, <4>2
      <3>3. PICK q \in Nat : Base(found[c].index) = BlockSize * q /\ BlockSize * q <= found[c].index
                             /\ BlockSize * q \in Nat
        BY <3>2, BlockOf
      <3>4. BlockSize * p < BlockSize * Filled
        <4>1. BlockSize * Filled \in Nat
          BY Numbers DEF BulkGood
        <4>2. BlockSize * p = BlockSize * q
          BY <2>1, <3>2, <3>3
        <4> QED
          BY <1>1, <3>2, <3>3, <4>1, <4>2
      <3>5. p < Filled
        BY <1>1, <2>2, <3>4, BlocksOrdered
      <3>6. p \in 0 .. Filled - 1
        BY <1>1, <2>2, <3>5
      <3> QED
        BY <2>1, <3>6
    <2> QED
      BY <2>1, <2>3, <2>4
  <1>9. IndexRight'
    <2>1. indexTail' = Place(Top - 1 + Shift)' /\ KeysInPlace'
      BY <1>1, <1>4, <1>5 DEF IndexRight, KeysInPlace, Place
    <2>2. NeededLinked'
      BY <1>1, <1>4, <1>5, <1>6, <1>7 DEF IndexRight, NeededLinked, Place
    <2>3. LinkedNeeded'
      BY <1>4, <1>5, <1>6, <1>7, <1>8, UnseenKeeps DEF LinkedNeeded, Place
    <2>4. LastKeyKept'
      BY <1>1, <1>4, <1>5, <1>6 DEF IndexRight, LastKeyKept, Place
    <2>5. ChainInPlace'
      BY <1>0, <1>3 DEF ChainInPlace
    <2>6. TailRight'
      <3>1. PICK f : f = Filled
        OBVIOUS
      <3>2. f > 0 /\ Needed(f - 1) => batch.start = value[Place(f - 1)]
        BY <1>1, <1>2, <3>1 DEF IndexRight, TailRight
      <3>3. TailRight' <=> (f > 0 /\ Needed(f - 1)' => tailBlock' = value[Place(f - 1)])
        BY <1>0, <1>4, <1>5, <3>1 DEF TailRight, Place, Needed
      <3>4. f > 0 => f - 1 \in 0 .. Filled - 1
        BY <1>1, <3>1
      <3> QED
        BY <1>4, <1>7, <3>2, <3>3, <3>4
    <2> QED
      BY <2>1, <2>2, <2>3, <2>4, <2>5, <2>6 DEF IndexRight
  <1>10. SlotsRight' /\ BatchRight'
    BY <1>0, <1>1, <1>3, <1>4, <1>6 DEF SlotsRight, BatchRight, Inserting
  <1>11. CountsRight'
    BY <1>0, <1>4, <1>6, CountsStayRight
  <1>12. BulkPlacesRight'
    <2>1. ChainBlocks = Undone /\ Undone \subseteq Blocks
      <3>1. DOMAIN batch.chain = 1 .. batch.undone
        BY <1>0, <1>1
      <3> QED
        BY <1>1, <3>1 DEF ChainBlocks, Undone
    <2>2. Undone' = {}
      BY <1>0, <1>3 DEF Undone
    <2>3. InRing' = InRing /\ Released' = Released /\ other' = other
      BY <1>4, <1>6, UnseenKeeps DEF InRing, Unseen
    <2>4. newBlock \notin Undone
      BY <1>1 DEF BulkPlacesRight
    <2> QED
      BY <1>1, <1>4, <1>6, <2>1, <2>2, <2>3, <2>4 DEF BulkPlacesRight
  <1>13. KeepsFilled
    BY <1>4, <1>6 DEF KeepsFilled
  <1> QED
    BY <1>0, <1>4, <1>9, <1>10, <1>11, <1>12, <1>13, ClaimsStayRight DEF BulkLayoutInv

LEMMA ProducerKeepsLayout ==
    ASSUME BulkGood, BulkProducer
    PROVE  BulkLayoutInv'
  BY DecidingSteps, SlotSteps, BlockSteps, PublishSteps, CommitSteps, UndoSteps, UndoBlocksStep
     DEF BulkProducer, Producer, SharedEnqueueStep

RingStill ==
    UNCHANGED <<counters, blockIndex, tailBlock, ppc, newBlock, consumer, batch, grab>>

\* What the ring's invariant says does not depend on the pool.
LEMMA StillRing ==
    ASSUME RingStill
    PROVE  /\ IndexRight' <=> IndexRight
           /\ BatchRight' <=> BatchRight
           /\ SlotsRight' <=> SlotsRight
           /\ Linked' = Linked /\ InRing' = InRing /\ Released' = Released /\ Undone' = Undone
           /\ \A i : NotEmptied(i)' <=> NotEmptied(i)
           /\ \A c \in Consumers : BulkClaimRight(c)' <=> BulkClaimRight(c)
  <1> USE DEF RingStill, counters, blockIndex, consumer
  <1>1. /\ Filled' = Filled /\ Top' = Top /\ Shift' = Shift /\ (Inserting' <=> Inserting)
        /\ Linked' = Linked /\ InRing' = InRing /\ Released' = Released /\ Undone' = Undone
    BY DEF Filled, Top, Shift, Inserting, Linked, InRing, Released, Undone, Cell
  <1>2. /\ \A c : Unemptied(c)' = Unemptied(c) /\ Until(c)' = Until(c) /\ Front(c)' = Front(c)
                  /\ MovedTo(c)' = MovedTo(c) /\ (HasClaimed(c)' <=> HasClaimed(c))
    BY DEF Unemptied, Until, Front, MovedTo, ClaimedTo, HasClaimed, InHand
  <1>3. \A i : NotEmptied(i)' <=> NotEmptied(i)
    BY <1>2 DEF NotEmptied
  <1>4. /\ \A p : Needed(p)' <=> Needed(p)
        /\ \A s : Unlinking(s)' <=> Unlinking(s)
    BY <1>1, <1>3 DEF Needed, Unlinking
  <1>5. BatchRight' <=> BatchRight
    BY <1>1 DEF BatchRight, ChainBase, LastBase, Base, Cell
  <1>6. SlotsRight' <=> SlotsRight
    BY <1>1 DEF SlotsRight, Place
  <1>7. \A c \in Consumers : BulkClaimRight(c)' <=> BulkClaimRight(c)
    BY <1>1, <1>2, <1>3 DEF BulkClaimRight, Base, SlotAt, Min2
  <1>8. IndexRight' <=> IndexRight
    <2>1. (indexTail = Place(Top - 1 + Shift))' <=> indexTail = Place(Top - 1 + Shift)
      BY <1>1 DEF Place
    <2>2. /\ KeysInPlace' <=> KeysInPlace
          /\ NeededLinked' <=> NeededLinked
          /\ LinkedNeeded' <=> LinkedNeeded
          /\ LastKeyKept' <=> LastKeyKept
          /\ ChainInPlace' <=> ChainInPlace
      BY <1>1, <1>4 DEF KeysInPlace, NeededLinked, LinkedNeeded, LastKeyKept, ChainInPlace, Place
    <2>3. TailRight' <=> TailRight
      <3>1. PICK f, t : f = Filled /\ t = Top
        OBVIOUS
      <3>2. TailRight' <=>
               /\ f > 0 /\ Needed(f - 1)' /\ batch # NoBatch => batch.start = value[Place(f - 1)]
               /\ t > 0 /\ Needed(t - 1)' /\ batch = NoBatch => tailBlock = value[Place(t - 1)]
               /\ batch # NoBatch /\ ppc \notin {"undo", "undo tail"} =>
                     tailBlock = IF batch.chain = <<>> THEN batch.start
                                                       ELSE batch.chain[Len(batch.chain)]
        BY <1>1, <3>1 DEF TailRight, Place, Needed
      <3> QED
        BY <1>4, <3>1, <3>2 DEF TailRight
    <2> QED
      BY <2>1, <2>2, <2>3 DEF IndexRight
  <1> QED
    BY <1>1, <1>3, <1>5, <1>6, <1>7, <1>8

\* Blocks that come and go between the pool and other producers.
LEMMA PoolKeepsLayout ==
    ASSUME BulkGood, NEW b \in Blocks, Settle(b) \/ OtherTakes(b) \/ OtherReturns(b),
           UNCHANGED <<batch, grab>>
    PROVE  BulkLayoutInv'
  <1>1. RingStill
    BY DEF RingStill, Settle, OtherTakes, OtherReturns, producer
  <1>2. BulkPlacesRight /\ CountsRight /\ elementsCompletelyDequeued \in [Blocks -> Nat]
        /\ newBlock \in Blocks \cup {Null}
    BY DEF BulkGood, BulkLayoutInv, BulkTypeOK, TypeOK
  <1>3. BulkPlacesRight'
    <2>1. /\ newBlock' = newBlock /\ value' = value
      BY <1>1 DEF RingStill, blockIndex
    <2> QED
      BY <1>1, <1>2, <2>1, StillRing DEF BulkPlacesRight, Settle, OtherTakes, OtherReturns
  <1>4. CountsRight'
    <2>1. /\ newBlock' = newBlock /\ value' = value /\ key' = key /\ ppc' = ppc
      BY <1>1 DEF RingStill, blockIndex
    <2>2. \A x \in InRing \cup {newBlock} :
             elementsCompletelyDequeued'[x] = elementsCompletelyDequeued[x]
      <3>1. CASE OtherReturns(b)
        <4>1. /\ elementsCompletelyDequeued' = [elementsCompletelyDequeued EXCEPT ![b] = BlockSize]
              /\ b \in other
          BY <3>1 DEF OtherReturns
        <4>2. b \notin InRing \cup {newBlock}
          BY <1>2, <4>1 DEF BulkPlacesRight
        <4> QED
          BY <1>2, <4>1, <4>2
      <3>2. CASE Settle(b) \/ OtherTakes(b)
        BY <3>2 DEF Settle, OtherTakes, contents
      <3> QED
        BY <3>1, <3>2
    <2>3. \A s \in Linked : value[s] \in InRing
      BY DEF InRing
    <2> QED
      BY <1>1, <1>2, <2>1, <2>2, <2>3, StillRing DEF CountsRight
  <1>5. ppc' = ppc /\ pc' = pc
    BY <1>1 DEF RingStill, consumer
  <1> QED
    BY <1>1, <1>3, <1>4, <1>5, StillRing DEF BulkGood, BulkLayoutInv

LEMMA StutterKeepsLayout ==
    ASSUME BulkGood, UNCHANGED bulkVars
    PROVE  BulkLayoutInv'
  <1>1. RingStill /\ UNCHANGED <<pool, freeing, other, elementsCompletelyDequeued, ppc, pc>>
    BY DEF RingStill, bulkVars, vars, counters, blockIndex, contents, places, producer, consumer
  <1>2. BulkPlacesRight' /\ CountsRight'
    <2>1. newBlock' = newBlock /\ value' = value /\ key' = key
      BY <1>1 DEF RingStill, blockIndex
    <2> QED
      BY <1>1, <2>1, StillRing DEF BulkGood, BulkLayoutInv, BulkPlacesRight, CountsRight
  <1> QED
    BY <1>1, <1>2, StillRing DEF BulkGood, BulkLayoutInv

\* The destructor frees the blocks that are in the index.
LEMMA DestructorFreesRing ==
    ASSUME BulkGood, AllReturned
    PROVE  FreedByLoop \cup FreedAfterLoop = InRing
  <1>1. ppc = "idle" /\ \A c \in Consumers : pc[c] = "idle"
    BY DEF AllReturned
  <1>2. /\ Top \in Nat /\ Filled \in Nat /\ IndexRight /\ BatchRight
        /\ headIndex \in Nat /\ tailIndex \in Nat /\ BlockSize \in Nat /\ BlockSize > 1
        /\ tailIndex <= BlockSize * Filled /\ BlockSize * Filled < tailIndex + BlockSize
        /\ Cell(tailIndex) = 0 <=> tailIndex = BlockSize * Filled
        /\ Base(tailIndex - 1) = BlockSize * Filled - BlockSize
        /\ Base(tailIndex - 1) = BlockSize * (Filled - 1)
        /\ BlockSize * Filled \in Nat
    BY <1>1, RingNow, Numbers DEF BulkGood
  <1>3. batch = NoBatch /\ Top = Filled
    <2>1. batch = NoBatch
      BY <1>1, <1>2 DEF BatchRight
    <2>2. Top = Filled + 0
      BY <1>1, <2>1 DEF Top
    <2> QED
      BY <1>2, <2>1, <2>2
  <1>4. /\ \A i \in Nat : NotEmptied(i) <=> i >= headIndex
        /\ \A s : ~Unlinking(s)
    BY <1>1 DEF NotEmptied, Unemptied, Unlinking, InHand
  <1>5. ASSUME NEW i \in Waiting
        PROVE  i \in Nat /\ BlockAt(i) = value[SlotAt(i)]
    <2>1. i \in Nat /\ tailIndex > 0
      BY <1>2, <1>5 DEF Waiting
    <2> QED
      BY <1>2, <2>1, BulkTailHasKey, FoundInPlace DEF BlockAt
  <1>6. ASSUME NEW i \in Nat, i >= headIndex, i < BlockSize * Filled
        PROVE  \E p \in 0 .. Filled - 1 :
                  /\ SlotAt(i) = Place(p) /\ Base(i) = BlockSize * p /\ Needed(p)
                  /\ Place(p) \in Linked /\ i = BlockSize * p + Cell(i) /\ Cell(i) \in Cells
                  /\ BlockSize * p \in Nat
    BY <1>1, <1>4, <1>6, NeededBlock
  <1>7. Filled > 0 /\ Needed(Filled - 1) => tailBlock = value[Place(Filled - 1)]
    BY <1>2, <1>3 DEF IndexRight, TailRight
  <1>8. ASSUME NEW i \in Nat, i >= headIndex, i < BlockSize * Filled, i >= BlockSize * (Filled - 1)
        PROVE  tailBlock \in InRing
    <2>1. PICK p \in 0 .. Filled - 1 :
                  /\ SlotAt(i) = Place(p) /\ Base(i) = BlockSize * p /\ Needed(p)
                  /\ Place(p) \in Linked /\ i = BlockSize * p + Cell(i) /\ Cell(i) \in Cells
                  /\ BlockSize * p \in Nat
      BY <1>6, <1>8
    <2>2. p = Filled - 1
      <3>1. ~(p < Filled - 1)
        <4>1. ASSUME p < Filled - 1 PROVE FALSE
          <5>1. BlockSize * p + BlockSize <= BlockSize * (Filled - 1)
            BY <1>2, <2>1, <4>1, BlocksOrdered
          <5>2. i < BlockSize * p + BlockSize
            BY <1>2, <2>1 DEF Cells
          <5>3. PICK m \in Int : m = BlockSize * (Filled - 1)
            BY <1>2
          <5> QED
            BY <1>2, <1>8, <2>1, <5>1, <5>2, <5>3
        <4> QED
          BY <4>1
      <3> QED
        BY <1>2, <3>1
    <2>3. Filled > 0
      BY <1>2, <2>2
    <2> QED
      BY <1>7, <2>1, <2>2, <2>3 DEF InRing
  <1>9. FreedByLoop \subseteq InRing
    <2>1. ASSUME NEW i \in Waiting PROVE BlockAt(i) \in InRing
      <3>1. i \in Nat /\ i >= headIndex /\ i < BlockSize * Filled
        BY <1>2, <2>1 DEF Waiting
      <3>2. PICK p \in 0 .. Filled - 1 : SlotAt(i) = Place(p) /\ Place(p) \in Linked
        BY <1>6, <3>1
      <3> QED
        BY <1>5, <3>2 DEF InRing
    <2> QED
      BY <2>1 DEF FreedByLoop
  <1>10. FreedAfterLoop \subseteq InRing
    <2> SUFFICES ASSUME Waiting # {} \/ Cell(tailIndex) # 0 PROVE tailBlock \in InRing
      BY DEF FreedAfterLoop
    <2>0. BlockSize * (Filled - 1) \in Int /\ BlockSize * (Filled - 1) = BlockSize * Filled - BlockSize
      BY <1>2
    <2>1. CASE Waiting # {}
      <3>1. headIndex <= tailIndex - 1
        BY <1>2, <2>1 DEF Waiting
      <3>2. tailIndex - 1 \in Nat /\ tailIndex - 1 < BlockSize * Filled
            /\ tailIndex - 1 >= BlockSize * (Filled - 1)
        BY <1>2, <2>0, <3>1
      <3> QED
        BY <1>8, <3>1, <3>2
    <2>2. CASE Cell(tailIndex) # 0
      <3>1. tailIndex < BlockSize * Filled /\ tailIndex >= BlockSize * (Filled - 1)
        BY <1>2, <2>0, <2>2
      <3>2. tailIndex >= headIndex
        BY <1>2 DEF BulkGood, HeadNeverPassesTail
      <3> QED
        BY <1>2, <1>8, <3>1, <3>2
    <2> QED
      BY <2>1, <2>2
  <1>11. ASSUME NEW s \in Linked PROVE value[s] \in FreedByLoop \cup FreedAfterLoop
    <2>1. PICK p \in 0 .. Filled - 1 : s = Place(p) /\ Needed(p)
      BY <1>2, <1>3, <1>4 DEF IndexRight, LinkedNeeded
    <2>2. PICK j \in Cells : NotEmptied(BlockSize * p + j)
      BY <2>1 DEF Needed
    <2>3. PICK i \in Nat : /\ i = BlockSize * p + j /\ Base(i) = BlockSize * p /\ SlotAt(i) = s
                           /\ i >= headIndex
      <3>1. p \in Nat
        BY <1>2
      <3> QED
        BY <1>4, <2>1, <2>2, <3>1, InBlockOf
    <2>4. p \in Int /\ BlockSize * p \in Int
      BY <1>2, BlocksOrdered
    <2>5. BlockSize * p <= i /\ i < BlockSize * p + BlockSize
      BY <1>2, <2>3, <2>4 DEF Cells
    <2>6. value[s] \in Blocks /\ value[s] # Null
      BY PointerAssumption DEF Linked
    <2>7. CASE p < Filled - 1
      <3>1. BlockSize * p + BlockSize <= BlockSize * (Filled - 1) /\ BlockSize * p < BlockSize * (Filled - 1)
        BY <1>2, <2>4, <2>7, BlocksOrdered
      <3>2. i < tailIndex
        <4>1. PICK m \in Int : m = BlockSize * (Filled - 1) /\ m < tailIndex
          BY <1>2
        <4> QED
          BY <1>2, <2>4, <2>5, <3>1, <4>1
      <3>3. i \in Waiting
        BY <1>2, <2>3, <3>2 DEF Waiting
      <3>4. Base(i) < Base(tailIndex - 1)
        BY <1>2, <2>3, <3>1
      <3> QED
        BY <1>5, <2>3, <3>3, <3>4 DEF FreedByLoop
    <2>8. CASE p = Filled - 1
      <3>1. Filled > 0 /\ tailBlock = value[s]
        <4>1. Filled > 0
          BY <1>2, <2>8
        <4> QED
          BY <1>7, <2>1, <2>8, <4>1
      <3>2. Waiting # {} \/ Cell(tailIndex) # 0
        <4> SUFFICES ASSUME Cell(tailIndex) = 0 PROVE Waiting # {}
          OBVIOUS
        <4>1. BlockSize * p + BlockSize = BlockSize * Filled
          <5>1. BlockSize * ((Filled - 1) + 1) = BlockSize * (Filled - 1) + BlockSize
                /\ (Filled - 1) + 1 = Filled
            BY <1>2, <2>4, <2>8, BlocksOrdered
          <5> QED
            BY <2>8, <5>1
        <4>2. i < tailIndex
          BY <1>2, <2>5, <4>1
        <4> QED
          BY <1>2, <2>3, <4>2 DEF Waiting
      <3> QED
        BY <2>6, <3>1, <3>2 DEF FreedAfterLoop
    <2> QED
      BY <1>2, <2>7, <2>8
  <1> QED
    BY <1>9, <1>10, <1>11 DEF InRing

LEMMA DestroyKeepsLayout ==
    ASSUME BulkGood, Destroy, UNCHANGED <<batch, grab>>
    PROVE  BulkLayoutInv'
  <1>1. /\ ppc = "idle" /\ ppc' = "destroyed" /\ \A c \in Consumers : pc[c] = "idle" /\ pc'[c] = "idle"
        /\ value' = [s \in Slots |-> Null]
        /\ freeing' = freeing \cup FreedByLoop \cup FreedAfterLoop
        /\ UNCHANGED <<headIndex, key, pool, other, newBlock, found, batch, grab>>
    BY DEF Destroy, AllReturned, counters, consumer
  <1>2. BatchRight /\ SlotsRight /\ BulkPlacesRight
    BY <1>1, RingNow
  <1>3. Linked' = {} /\ InRing' = {} /\ Released' = {} /\ Released = {}
    <2>1. Linked' = {}
      BY <1>1, PointerAssumption DEF Linked
    <2> QED
      BY <1>1, <2>1 DEF InRing, Released
  <1>4. Undone' = {} /\ Undone = {}
    BY <1>1, <1>2 DEF Undone, BatchRight
  <1>5. \A c \in Consumers : Unemptied(c)' = {}
    BY <1>1 DEF Unemptied, InHand
  <1>6. \A c \in Consumers : BulkClaimRight(c)'
    BY <1>1, <1>5 DEF BulkClaimRight, HasClaimed
  <1>7. BatchRight' /\ SlotsRight'
    BY <1>1, <1>2, PointerAssumption DEF BatchRight, SlotsRight, Inserting
  <1>8. CountsRight'
    BY <1>1, <1>3 DEF CountsRight
  <1>9. freeing' = freeing \cup InRing
    BY DestructorFreesRing, <1>1 DEF AllReturned
  <1>10. InRing \subseteq Blocks
    BY DEF InRing, Linked
  <1>11. BulkPlacesRight'
    BY <1>1, <1>2, <1>3, <1>4, <1>9, <1>10 DEF BulkPlacesRight
  <1> QED
    BY <1>1, <1>3, <1>6, <1>7, <1>8, <1>11 DEF BulkLayoutInv

-----------------------------------------------------------------------------
(* Types *)

LEMMA BulkTypeParts ==
    ASSUME BulkTypeOK
    PROVE  /\ BulkSizes \subseteq Nat /\ NoBatch \in BatchType /\ NoGrab \in GrabType
           /\ batch \in BatchType /\ grab \in [Consumers -> GrabType]
  BY BulkAssumption DEF BulkTypeOK, BatchType, GrabType, NoBatch, NoGrab

\* The steps that the bulk calls share with the single ones.
LEMMA SharedTypes ==
    ASSUME BulkTypeOK, [Next]_vars, UNCHANGED <<batch, grab>>
    PROVE  BulkTypeOK'
  BY StepTypes DEF BulkTypeOK

LEMMA AbortTypes ==
    ASSUME BulkTypeOK, Abort
    PROVE  /\ ppc' \in ProducerSteps /\ batch' \in BatchType
           /\ batch'.undone <= Len(batch'.chain)
  <1>1. NoBatch.undone = 0 /\ Len(NoBatch.chain) = 0
    BY DEF NoBatch
  <1> HIDE DEF NoBatch
  <1>2. CASE ppc' = "idle" /\ batch' = NoBatch
    BY <1>1, <1>2, BulkTypeParts DEF ProducerSteps
  <1>3. CASE ppc' = "undo" /\ batch' = batch
    <2>1. batch \in BatchType /\ batch.undone <= Len(batch.chain)
      BY DEF BulkTypeOK
    <2> QED
      BY <1>3, <2>1 DEF ProducerSteps
  <1> QED
    BY <1>2, <1>3 DEF Abort

LEMMA BulkProducerTypes ==
    ASSUME BulkGood, BulkProducer
    PROVE  BulkTypeOK'
  <1>1. BulkTypeOK /\ TypeOK
    BY DEF BulkGood, BulkTypeOK
  <1>2. /\ BulkSizes \subseteq Nat /\ NoBatch \in BatchType /\ batch \in BatchType
        /\ grab \in [Consumers -> GrabType] /\ NextSlot \in Slots /\ PrevSlot \in Slots
        /\ batch.undone \in Nat /\ Len(batch.chain) \in Nat /\ batch.undone <= Len(batch.chain)
        /\ batch.chain \in Seq(Blocks) /\ batch.count \in Nat
        /\ batch.start \in Blocks \cup {Null}
        /\ NoBatch.undone = 0 /\ Len(NoBatch.chain) = 0
    BY <1>1, BulkTypeParts, RingPositions, Numbers DEF NoBatch
  <1> USE DEF counters, blockIndex, contents, places, producer, consumer, history
  <1>3. CASE (Producer \/ SharedEnqueueStep) /\ UNCHANGED <<batch, grab>>
    <2>1. [Next]_vars
      BY <1>3 DEF Next, Producer, SharedEnqueueStep
    <2> QED
      BY <1>1, <1>3, <2>1, SharedTypes
  <1>4. ASSUME NEW n \in BulkSizes, BulkStart(n) PROVE BulkTypeOK'
    <2>1. batch' = [NoBatch EXCEPT !.count = n, !.start = tailBlock]
          /\ tailBlock \in Blocks \cup {Null}
      BY <1>1, <1>4 DEF BulkStart, TypeOK
    <2>2. batch' \in BatchType /\ batch'.undone <= Len(batch'.chain)
      <3>1. ASSUME NEW r \in BatchType
            PROVE  LET q == [r EXCEPT !.count = n, !.start = tailBlock]
                   IN  q \in BatchType /\ q.chain = r.chain /\ q.undone = r.undone
        BY <2>1 DEF BatchType
      <3> HIDE DEF NoBatch
      <3>2. batch' \in BatchType /\ batch'.chain = NoBatch.chain /\ batch'.undone = NoBatch.undone
        BY <1>2, <2>1, <3>1
      <3> QED
        BY <1>2, <3>2
    <2>3. TypeOK' /\ grab' = grab
      BY <1>1, <1>4 DEF BulkStart, TypeOK, ProducerSteps
    <2> QED
      BY <1>2, <2>2, <2>3 DEF BulkTypeOK
  <1>5. CASE BulkCheckRoom
    <2>1. ppc' \in ProducerSteps /\ batch' \in BatchType /\ batch'.undone <= Len(batch'.chain)
      BY <1>1, <1>2, <1>5, AbortTypes DEF BulkCheckRoom, ProducerSteps
    <2>2. TypeOK' /\ grab' = grab
      BY <1>1, <1>5, <2>1 DEF BulkCheckRoom, TypeOK
    <2> QED
      BY <1>2, <2>1, <2>2 DEF BulkTypeOK
  <1>6. CASE BulkInsertKey
    <2>1. NextBase \in Nat
      <3>1. NextBase = BlockSize * Top /\ Top \in Nat
        BY <1>1, <1>6, NextBaseIs, Numbers DEF BulkInsertKey
      <3> QED
        BY <3>1, BasesAreKeys
    <2>2. TypeOK' /\ grab' = grab /\ batch' = batch
      BY <1>1, <1>2, <1>6, <2>1 DEF BulkInsertKey, TypeOK, ProducerSteps
    <2> QED
      BY <1>2, <2>2 DEF BulkTypeOK
  <1>7. CASE BulkInsertRefused
    <2>1. ppc' \in ProducerSteps /\ batch' \in BatchType /\ batch'.undone <= Len(batch'.chain)
      BY <1>1, <1>7, AbortTypes DEF BulkInsertRefused
    <2>2. TypeOK' /\ grab' = grab
      BY <1>1, <1>7, <2>1 DEF BulkInsertRefused, TypeOK
    <2> QED
      BY <1>2, <2>1, <2>2 DEF BulkTypeOK
  <1>8. CASE BulkClearEntry
    <2>1. ppc' \in ProducerSteps /\ batch' \in BatchType /\ batch'.undone <= Len(batch'.chain)
      BY <1>1, <1>8, AbortTypes DEF BulkClearEntry
    <2>2. TypeOK' /\ grab' = grab
      BY <1>1, <1>2, <1>8, <2>1 DEF BulkClearEntry, TypeOK
    <2> QED
      BY <1>2, <2>1, <2>2 DEF BulkTypeOK
  <1>9. CASE BulkPublish
    <2>1. newBlock \in Blocks
      BY <1>1, <1>9, RingNow DEF BulkPublish, SlotsRight, TypeOK
    <2>2. batch' = [batch EXCEPT !.chain = Append(@, newBlock)]
      BY <1>9 DEF BulkPublish
    <2>3. batch'.chain = Append(batch.chain, newBlock) /\ batch'.undone = batch.undone
          /\ batch' \in BatchType
      <3>1. Append(batch.chain, newBlock) \in Seq(Blocks)
        BY <1>2, <2>1
      <3>2. batch'.chain = Append(batch.chain, newBlock) /\ batch'.undone = batch.undone
        BY <1>2, <2>2 DEF BatchType
      <3>3. PICK x \in Seq(Blocks) : x = Append(batch.chain, newBlock)
        BY <3>1
      <3>4. batch' = [batch EXCEPT !.chain = x]
        BY <2>2, <3>3
      <3>5. batch' \in BatchType
        BY <1>2, <3>4 DEF BatchType
      <3> QED
        BY <3>2, <3>5
    <2>4. batch'.undone <= Len(batch'.chain)
      BY <1>2, <2>1, <2>3
    <2>5. TypeOK' /\ grab' = grab
      BY <1>1, <1>9, <2>1 DEF BulkPublish, TypeOK, ProducerSteps
    <2> QED
      BY <1>2, <2>3, <2>4, <2>5 DEF BulkTypeOK
  <1>10. CASE UndoEntry
    <2>1. batch' = [batch EXCEPT !.undone = @ + 1] /\ batch.undone < Len(batch.chain)
      BY <1>10 DEF UndoEntry
    <2>2. batch' \in BatchType /\ batch'.undone <= Len(batch'.chain)
      BY <1>2, <2>1 DEF BatchType
    <2>3. TypeOK' /\ grab' = grab
      BY <1>1, <1>10 DEF UndoEntry, TypeOK, ProducerSteps
    <2> QED
      BY <1>2, <2>2, <2>3 DEF BulkTypeOK
  <1>11. CASE UndoTail
    <2>1. TypeOK' /\ grab' = grab /\ batch' = batch
      BY <1>1, <1>2, <1>11 DEF UndoTail, TypeOK, ProducerSteps
    <2> QED
      BY <1>2, <2>1 DEF BulkTypeOK
  <1>12. CASE UndoBlocks
    <2>1. ChainBlocks \subseteq Blocks
      BY <1>2 DEF ChainBlocks
    <2>2. TypeOK' /\ grab' = grab /\ batch' = NoBatch
      BY <1>1, <1>2, <1>12, <2>1 DEF UndoBlocks, TypeOK, ProducerSteps
    <2>3. batch'.undone <= Len(batch'.chain)
      BY <1>2, <2>2
    <2> QED
      BY <1>2, <2>2, <2>3 DEF BulkTypeOK
  <1>13. CASE BulkWrite
    <2>1. elements' \in [Blocks -> [Cells -> Nat]]
      <3> DEFINE here(b, j) == {i \in tailIndex .. tailIndex + batch.count - 1 :
                                   BatchBlock(i) = b /\ Cell(i) = j}
                 put(b, j) == IF here(b, j) = {} THEN elements[b][j]
                              ELSE (CHOOSE i \in here(b, j) : TRUE) + 1
      <3>1. elements' = [b \in Blocks |-> [j \in Cells |-> put(b, j)]]
        BY <1>13 DEF BulkWrite
      <3>2. ASSUME NEW b \in Blocks, NEW j \in Cells PROVE put(b, j) \in Nat
        <4>1. elements[b][j] \in Nat /\ tailIndex \in Nat
          BY <1>1 DEF TypeOK
        <4>2. here(b, j) \subseteq Nat
          BY <1>2, <4>1
        <4> HIDE DEF here
        <4>3. here(b, j) # {} => (CHOOSE i \in here(b, j) : TRUE) \in Nat
          BY <4>2
        <4> QED
          BY <4>1, <4>3
      <3> HIDE DEF put
      <3> QED
        BY <3>1, <3>2
    <2>2. TypeOK' /\ grab' = grab /\ batch' = batch
      BY <1>1, <1>13, <2>1 DEF BulkWrite, TypeOK, ProducerSteps
    <2> QED
      BY <1>2, <2>2 DEF BulkTypeOK
  <1>14. CASE BulkCommit
    <2>1. tailIndex + batch.count \in Nat
      BY <1>1, <1>2 DEF TypeOK
    <2>2. TypeOK' /\ grab' = grab /\ batch' = NoBatch
      BY <1>1, <1>14, <2>1 DEF BulkCommit, TypeOK, ProducerSteps
    <2>3. batch'.undone <= Len(batch'.chain)
      BY <1>2, <2>2
    <2> QED
      BY <1>2, <2>2, <2>3 DEF BulkTypeOK
  <1> QED
    BY <1>3, <1>4, <1>5, <1>6, <1>7, <1>8, <1>9, <1>10, <1>11, <1>12, <1>13, <1>14
       DEF BulkProducer

\* The fields of a bulk dequeue, as it goes on.
LEMMA GrabUpdates ==
    ASSUME NEW g \in [Consumers -> GrabType], NEW c \in Consumers, NEW n \in Nat
    PROVE  /\ [g EXCEPT ![c].desired = n] \in [Consumers -> GrabType]
           /\ [g EXCEPT ![c].actual = n] \in [Consumers -> GrabType]
           /\ [g EXCEPT ![c].first = n] \in [Consumers -> GrabType]
           /\ \A m \in BulkSizes : [g EXCEPT ![c] = [NoGrab EXCEPT !.max = m]] \in [Consumers -> GrabType]
           /\ \A s \in Seq(Nat) : [g EXCEPT ![c].out = s] \in [Consumers -> GrabType]
           /\ [g EXCEPT ![c] = NoGrab] \in [Consumers -> GrabType]
  <1>1. /\ [g EXCEPT ![c].desired = n] \in [Consumers -> GrabType]
        /\ [g EXCEPT ![c].actual = n] \in [Consumers -> GrabType]
        /\ [g EXCEPT ![c].first = n] \in [Consumers -> GrabType]
    BY DEF GrabType
  <1>2. \A s \in Seq(Nat) : [g EXCEPT ![c].out = s] \in [Consumers -> GrabType]
    BY DEF GrabType
  <1>3. ASSUME NEW m \in BulkSizes \cup {0}
        PROVE  [NoGrab EXCEPT !.max = m] \in GrabType
    <2>1. [NoGrab EXCEPT !.max = m] =
             [max |-> m, desired |-> 0, actual |-> 0, first |-> 0, out |-> <<>>]
      BY DEF NoGrab
    <2>2. <<>> \in Seq(Nat) /\ 0 \in Nat
      OBVIOUS
    <2> QED
      BY <2>1, <2>2 DEF GrabType
  <1>4. NoGrab \in GrabType
    <2>1. <<>> \in Seq(Nat) /\ 0 \in Nat
      OBVIOUS
    <2> QED
      BY <2>1 DEF GrabType, NoGrab
  <1>5. \A x \in GrabType : [g EXCEPT ![c] = x] \in [Consumers -> GrabType]
    OBVIOUS
  <1> QED
    BY <1>1, <1>2, <1>3, <1>4, <1>5

LEMMA BulkReturnTypes ==
    ASSUME BulkTypeOK, NEW c \in Consumers, BulkReturn(c)
    PROVE  /\ ticket' \in [Consumers -> TicketType] /\ found' \in [Consumers -> FoundType]
           /\ grab' \in [Consumers -> GrabType]
  BY ReturnTypes, GrabUpdates DEF BulkReturn, BulkTypeOK, TypeOK

\* Walking to the next slot.
LEMMA OnwardTypes ==
    ASSUME BulkGood, NEW c \in Consumers, NEW at, Onward(c, at)
    PROVE  /\ ticket' \in [Consumers -> TicketType] /\ found' \in [Consumers -> FoundType]
           /\ grab' \in [Consumers -> GrabType] /\ pc' \in [Consumers -> ConsumerSteps]
  <1>1. /\ BulkTypeOK /\ TypeOK /\ MovedTo(c) \in Nat /\ found[c].entry \in Slots
        /\ found \in [Consumers -> FoundType] /\ ticket \in [Consumers -> TicketType]
        /\ grab \in [Consumers -> GrabType] /\ pc \in [Consumers -> ConsumerSteps]
    BY ClaimFacts DEF BulkGood, BulkTypeOK
  <1>2. CASE Goto(c, at, "idle") /\ BulkReturn(c)
    <2>1. "idle" \in ConsumerSteps
      BY DEF ConsumerSteps
    <2> QED
      BY <1>1, <1>2, <2>1, BulkReturnTypes, GotoTypes
  <1>3. CASE /\ Goto(c, at, "value")
             /\ found' = [found EXCEPT ![c].index = MovedTo(c),
                                       ![c].entry = (@ + 1) % IndexCap]
             /\ UNCHANGED <<ticket, element, grab>>
    <2>1. (found[c].entry + 1) % IndexCap \in Slots
      BY <1>1, ModInRange, SizeAssumption DEF Slots
    <2>2. "value" \in ConsumerSteps
      BY DEF ConsumerSteps
    <2>3. found' \in [Consumers -> FoundType]
      BY <1>1, <1>3, <2>1 DEF FoundType
    <2>4. pc' \in [Consumers -> ConsumerSteps]
      BY <1>1, <1>3, <2>2, GotoTypes
    <2> QED
      BY <1>1, <1>3, <2>3, <2>4
  <1> QED
    BY <1>2, <1>3 DEF Onward

LEMMA BulkConsumerTypes ==
    ASSUME BulkGood, NEW c \in Consumers, BulkConsumer(c)
    PROVE  BulkTypeOK'
  <1>1. BulkTypeOK /\ TypeOK
    BY DEF BulkGood, BulkTypeOK
  <1>2. /\ grab \in [Consumers -> GrabType] /\ ticket \in [Consumers -> TicketType]
        /\ found \in [Consumers -> FoundType] /\ pc \in [Consumers -> ConsumerSteps]
        /\ tailIndex \in Nat /\ headIndex \in Nat /\ dequeueOptimisticCount \in Nat
        /\ dequeueOvercommit \in Nat /\ lost \subseteq Nat /\ won \subseteq Nat
        /\ ticket[c].tail \in Nat /\ ticket[c].overcommit \in Nat /\ ticket[c].count \in Nat
        /\ grab[c].max \in Nat /\ grab[c].desired \in Nat /\ grab[c].actual \in Nat
        /\ GrabRight(c) /\ batch \in BatchType /\ batch.undone <= Len(batch.chain)
    BY <1>1, BulkTypes, ClaimFacts DEF TypeOK, BulkTypeOK
  <1> USE DEF counters, blockIndex, contents, places, producer, consumer, history
  <1>3. CASE (Consumer(c) \/ SharedDequeueStep(c)) /\ UNCHANGED <<batch, grab>>
    <2>1. [Next]_vars
      BY <1>3 DEF Next, Consumer, SharedDequeueStep
    <2> QED
      BY <1>1, <1>3, <2>1, SharedTypes
  <1>4. ASSUME NEW n \in BulkSizes, BulkLoadTail(c, n) PROVE BulkTypeOK'
    <2>1. [Next]_vars /\ batch' = batch
          /\ grab' = [grab EXCEPT ![c] = [NoGrab EXCEPT !.max = n]]
      BY <1>4 DEF BulkLoadTail, Next, Consumer
    <2>2. grab' \in [Consumers -> GrabType]
      BY <1>2, <2>1, GrabUpdates
    <2> QED
      BY <1>1, <1>2, <2>1, <2>2, StepTypes DEF BulkTypeOK
  <1>5. CASE BulkCheckAvailable(c)
    <2>1. PICK n \in Recent(dequeueOptimisticCount) :
             LET left == ticket[c].tail - (n - ticket[c].overcommit) IN
             \/ /\ left > 0
                /\ Goto(c, "check", "ticket") /\ Keep
                /\ grab' = [grab EXCEPT ![c].desired = Min2(left, grab[c].max)]
             \/ /\ left <= 0
                /\ Goto(c, "check", "idle") /\ BulkReturn(c)
      BY <1>5 DEF BulkCheckAvailable
    <2>2. n \in Nat
      BY <1>2, <2>1, LoadsAreNatural
    <2>3. PICK left \in Int : left = ticket[c].tail - (n - ticket[c].overcommit)
      BY <1>2, <2>2
    <2>4. /\ ticket' \in [Consumers -> TicketType] /\ found' \in [Consumers -> FoundType]
          /\ grab' \in [Consumers -> GrabType] /\ pc' \in [Consumers -> ConsumerSteps]
      <3>1. CASE /\ left > 0 /\ Goto(c, "check", "ticket") /\ Keep
                 /\ grab' = [grab EXCEPT ![c].desired = Min2(left, grab[c].max)]
        <4>1. Min2(left, grab[c].max) \in Nat
          BY <1>2, <2>3, <3>1 DEF Min2
        <4>2. "ticket" \in ConsumerSteps
          BY DEF ConsumerSteps
        <4>3. pc' \in [Consumers -> ConsumerSteps]
          BY <1>2, <3>1, <4>2, GotoTypes
        <4>4. grab' \in [Consumers -> GrabType]
          BY <1>2, <3>1, <4>1, GrabUpdates
        <4> QED
          BY <1>2, <3>1, <4>3, <4>4 DEF Keep
      <3>2. CASE Goto(c, "check", "idle") /\ BulkReturn(c)
        <4>1. "idle" \in ConsumerSteps
          BY DEF ConsumerSteps
        <4> QED
          BY <1>1, <1>2, <3>2, <4>1, GotoTypes, BulkReturnTypes
      <3> QED
        BY <2>1, <2>3, <3>1, <3>2
    <2>5. TypeOK' /\ batch' = batch
      BY <1>1, <1>5, <2>4 DEF BulkCheckAvailable, TypeOK
    <2> QED
      BY <1>2, <2>4, <2>5 DEF BulkTypeOK
  <1>6. CASE TakeTickets(c)
    <2>1. ticket' \in [Consumers -> TicketType]
      BY <1>2, <1>6, TicketUpdates DEF TakeTickets
    <2>2. pc' \in [Consumers -> ConsumerSteps]
      <3>1. "recheck" \in ConsumerSteps
        BY DEF ConsumerSteps
      <3> QED
        BY <1>2, <1>6, <3>1, GotoTypes DEF TakeTickets
    <2>3. dequeueOptimisticCount' \in Nat
      BY <1>2, <1>6 DEF TakeTickets
    <2>4. TypeOK' /\ batch' = batch /\ grab' = grab
      BY <1>1, <1>6, <2>1, <2>2, <2>3 DEF TakeTickets, TypeOK
    <2> QED
      BY <1>2, <2>4 DEF BulkTypeOK
  <1>7. CASE BulkRecheck(c)
    <2>1. PICK t \in RecentSince(tailIndex, ticket[c].tail) :
             LET actual == Winning(c, t - (ticket[c].count - ticket[c].overcommit)) IN
             /\ Goto(c, "recheck", IF actual < grab[c].desired THEN "giveup" ELSE "claim")
             /\ grab' = [grab EXCEPT ![c].actual = actual]
      BY <1>7 DEF BulkRecheck
    <2>2. t \in Nat
      BY <1>2, <2>1, LoadsAreNatural DEF RecentSince
    <2>3. PICK actual : actual = Winning(c, t - (ticket[c].count - ticket[c].overcommit))
      OBVIOUS
    <2>4. actual \in Nat
      BY <1>2, <2>2, <2>3 DEF Winning, Min2
    <2>5. PICK to : to = (IF actual < grab[c].desired THEN "giveup" ELSE "claim")
      OBVIOUS
    <2>6. to \in ConsumerSteps /\ Goto(c, "recheck", to) /\ grab' = [grab EXCEPT ![c].actual = actual]
      BY <2>1, <2>3, <2>5 DEF ConsumerSteps
    <2>7. pc' \in [Consumers -> ConsumerSteps] /\ grab' \in [Consumers -> GrabType]
      BY <1>2, <2>4, <2>6, GotoTypes, GrabUpdates
    <2>8. TypeOK' /\ batch' = batch
      BY <1>1, <1>7, <2>7 DEF BulkRecheck, TypeOK, Keep
    <2> QED
      BY <1>2, <2>7, <2>8 DEF BulkTypeOK
  <1>8. CASE BulkGiveUp(c)
    <2>1. pc[c] = "giveup" /\ grab[c].max > 0
      BY <1>8 DEF BulkGiveUp, Goto
    <2>2. grab[c] # NoGrab
      BY <2>1 DEF NoGrab
    <2>3. grab[c].actual < grab[c].desired
      BY <1>2, <2>1, <2>2 DEF GrabRight
    <2>4. dequeueOvercommit' \in Nat
      BY <1>2, <1>8, <2>3 DEF BulkGiveUp
    <2>5. lost' \in SUBSET Nat
      <3>1. TicketsOf(c, grab[c].actual, grab[c].desired) \subseteq Nat
        BY <1>2, <2>3, Runs DEF TicketsOf
      <3> QED
        BY <1>2, <1>8, <3>1 DEF BulkGiveUp
    <2>6. /\ ticket' \in [Consumers -> TicketType] /\ found' \in [Consumers -> FoundType]
          /\ grab' \in [Consumers -> GrabType] /\ pc' \in [Consumers -> ConsumerSteps]
      <3>1. CASE Goto(c, "giveup", "claim") /\ Keep /\ UNCHANGED grab
        <4>1. "claim" \in ConsumerSteps
          BY DEF ConsumerSteps
        <4> QED
          BY <1>2, <3>1, <4>1, GotoTypes DEF Keep
      <3>2. CASE Goto(c, "giveup", "idle") /\ BulkReturn(c)
        <4>1. "idle" \in ConsumerSteps
          BY DEF ConsumerSteps
        <4> QED
          BY <1>1, <1>2, <3>2, <4>1, GotoTypes, BulkReturnTypes
      <3> QED
        BY <1>8, <3>1, <3>2 DEF BulkGiveUp
    <2>7. TypeOK' /\ batch' = batch
      BY <1>1, <1>8, <2>4, <2>5, <2>6 DEF BulkGiveUp, TypeOK
    <2> QED
      BY <1>2, <2>6, <2>7 DEF BulkTypeOK
  <1>9. CASE BulkClaim(c)
    <2>1. headIndex' \in Nat /\ won' \in SUBSET Nat
      <3>1. TicketsOf(c, 0, grab[c].actual) \subseteq Nat
        BY <1>2, Runs DEF TicketsOf
      <3> QED
        BY <1>2, <1>9, <3>1 DEF BulkClaim
    <2>2. /\ found' \in [Consumers -> FoundType] /\ grab' \in [Consumers -> GrabType]
      BY <1>2, <1>9, FoundUpdates, GrabUpdates DEF BulkClaim
    <2>3. pc' \in [Consumers -> ConsumerSteps]
      <3>1. "slot" \in ConsumerSteps
        BY DEF ConsumerSteps
      <3> QED
        BY <1>2, <1>9, <3>1, GotoTypes DEF BulkClaim
    <2>4. TypeOK' /\ batch' = batch
      BY <1>1, <1>9, <2>1, <2>2, <2>3 DEF BulkClaim, TypeOK
    <2> QED
      BY <1>2, <2>2, <2>4 DEF BulkTypeOK
  <1>10. CASE MoveElements(c)
    <2>1. grab' \in [Consumers -> GrabType]
      <3>1. PICK x : grab' = [grab EXCEPT ![c].out = x]
        BY <1>10 DEF MoveElements
      <3>2. grab'[c].out = x
        BY <1>2, <3>1 DEF GrabType
      <3>3. x \in Seq(Nat)
        BY <1>10, <3>2, MovedOut
      <3> QED
        BY <1>2, <3>1, <3>3, GrabUpdates
    <2>2. elements' \in [Blocks -> [Cells -> Nat]]
      <3> DEFINE b == found[c].block
                 from == found[c].index
                 to == Min2(Base(from) + BlockSize, ClaimedTo(c))
                 here(i) == Base(from) + i \in from .. to - 1
                 cells == [i \in Cells |-> IF here(i) THEN NoMessage ELSE elements[b][i]]
      <3>1. elements' = [elements EXCEPT ![b] = cells]
        BY <1>10 DEF MoveElements
      <3>2. elements \in [Blocks -> [Cells -> Nat]] /\ NoMessage \in Nat
        BY <1>1 DEF TypeOK, NoMessage
      <3> HIDE DEF here
      <3>3. b \in Blocks => cells \in [Cells -> Nat]
        BY <3>2
      <3> HIDE DEF cells, b
      <3> QED
        BY <3>1, <3>2, <3>3
    <2>3. pc' \in [Consumers -> ConsumerSteps]
      <3>1. "empty" \in ConsumerSteps
        BY DEF ConsumerSteps
      <3> QED
        BY <1>2, <1>10, <3>1, GotoTypes DEF MoveElements
    <2>4. TypeOK' /\ batch' = batch
      <3>1. UNCHANGED <<counters, blockIndex, elementsCompletelyDequeued, places, producer,
                        ticket, found, history, batch>>
        BY <1>10 DEF MoveElements, Keep
      <3> QED
        BY <1>1, <2>2, <2>3, <3>1 DEF TypeOK
    <2> QED
      BY <1>2, <2>1, <2>4 DEF BulkTypeOK
  <1>11. CASE SetManyEmpty(c)
    <2>1. /\ ticket' \in [Consumers -> TicketType] /\ found' \in [Consumers -> FoundType]
          /\ grab' \in [Consumers -> GrabType] /\ pc' \in [Consumers -> ConsumerSteps]
      <3>1. CASE Goto(c, "empty", "unlink") /\ Keep /\ UNCHANGED grab
        <4>1. "unlink" \in ConsumerSteps
          BY DEF ConsumerSteps
        <4> QED
          BY <1>2, <3>1, <4>1, GotoTypes DEF Keep
      <3>2. CASE Onward(c, "empty")
        BY <3>2, OnwardTypes
      <3> QED
        BY <1>11, <3>1, <3>2 DEF SetManyEmpty
    <2>2. elementsCompletelyDequeued' \in [Blocks -> Nat]
      <3>1. pc[c] = "empty" /\ grab[c].max > 0
        BY <1>11 DEF SetManyEmpty
      <3>2. grab[c] # NoGrab
        BY <3>1 DEF NoGrab
      <3>3. PICK n : n = Emptied(c)
        OBVIOUS
      <3>4. n \in Nat
        <4>1. /\ Front(c) = MovedTo(c) /\ MovedTo(c) \in Nat /\ found[c].index \in Nat
              /\ Front(c) = Min2(Base(found[c].index) + BlockSize, Until(c))
              /\ found[c].index < Until(c) /\ Until(c) \in Nat
          BY <3>1, <3>2, ClaimFacts DEF Front, BulkClaimRight, HasClaimed
        <4>2. PICK p \in Nat : Base(found[c].index) = BlockSize * p /\ BlockSize * p \in Nat
                               /\ found[c].index < BlockSize * p + BlockSize
          BY <4>1, BlockOf
        <4>3. BlockSize \in Nat
          BY SizeAssumption
        <4>4. MovedTo(c) >= found[c].index
          BY <4>1, <4>2, <4>3 DEF Min2
        <4> QED
          BY <3>3, <4>1, <4>4 DEF Emptied
      <3>5. elementsCompletelyDequeued' =
               [elementsCompletelyDequeued EXCEPT ![found[c].block] = @ + n]
        BY <1>11, <3>3 DEF SetManyEmpty
      <3>6. elementsCompletelyDequeued \in [Blocks -> Nat]
        BY <1>1 DEF TypeOK
      <3>7. found[c].block \in Blocks
        BY <3>1, EmptyingBlock
      <3> QED
        BY <3>4, <3>5, <3>6, <3>7
    <2>3. TypeOK' /\ batch' = batch
      BY <1>1, <1>11, <2>1, <2>2 DEF SetManyEmpty, TypeOK
    <2> QED
      BY <1>2, <2>1, <2>3 DEF BulkTypeOK
  <1>12. CASE BulkFreeBlock(c)
    <2>1. /\ ticket' \in [Consumers -> TicketType] /\ found' \in [Consumers -> FoundType]
          /\ grab' \in [Consumers -> GrabType] /\ pc' \in [Consumers -> ConsumerSteps]
      BY <1>12, OnwardTypes DEF BulkFreeBlock
    <2>2. found[c].block \in Blocks \cup {Null, Garbage}
      BY <1>2 DEF FoundType
    <2>3. TypeOK' /\ batch' = batch
      BY <1>1, <1>12, <2>1, <2>2 DEF BulkFreeBlock, TypeOK
    <2> QED
      BY <1>2, <2>1, <2>3 DEF BulkTypeOK
  <1> QED
    BY <1>3, <1>4, <1>5, <1>6, <1>7, <1>8, <1>9, <1>10, <1>11, <1>12 DEF BulkConsumer

LEMMA StepBulkTypes ==
    ASSUME BulkGood, [BulkNext]_bulkVars
    PROVE  BulkTypeOK'
  <1>1. BulkTypeOK
    BY DEF BulkGood
  <1>2. CASE PoolStep
    <2>1. [Next]_vars /\ UNCHANGED <<batch, grab>>
      BY <1>2 DEF PoolStep, Next
    <2> QED
      BY <1>1, <2>1, SharedTypes
  <1>3. CASE UNCHANGED bulkVars
    <2>1. [Next]_vars /\ UNCHANGED <<batch, grab>>
      BY <1>3 DEF bulkVars
    <2> QED
      BY <1>1, <2>1, SharedTypes
  <1> QED
    BY <1>2, <1>3, BulkProducerTypes, BulkConsumerTypes DEF BulkNext

-----------------------------------------------------------------------------
(* The theorems *)

LEMMA InitBulkLayout ==
    ASSUME BulkInit
    PROVE  BulkTypeOK /\ BulkLayoutInv
  <1>1. TypeOK
    BY InitTypes DEF BulkInit
  <1>2. /\ tailIndex = 0 /\ headIndex = 0 /\ ppc = "idle" /\ newBlock = Null
        /\ batch = NoBatch /\ indexTail = IndexCap - 1
        /\ \A s \in Slots : key[s] = INVALID_BLOCK_BASE /\ value[s] \in {Null, Garbage}
        /\ pool = Blocks /\ freeing = {} /\ other = {}
        /\ \A c \in Consumers : pc[c] = "idle" /\ grab[c] = NoGrab
        /\ grab = [c \in Consumers |-> NoGrab]
    BY DEF BulkInit, Init
  <1>3. NoBatch.undone = 0 /\ NoBatch.chain = <<>> /\ Len(NoBatch.chain) = 0
    BY DEF NoBatch
  <1>4. BulkTypeOK
    <2>1. NoBatch \in BatchType /\ NoGrab \in GrabType
      <3>1. <<>> \in Seq(Blocks) /\ <<>> \in Seq(Nat) /\ 0 \in Nat
        OBVIOUS
      <3>2. NoBatch \in BatchType
        BY <3>1 DEF BatchType, NoBatch
      <3> QED
        BY <3>1, <3>2 DEF GrabType, NoGrab
    <2> QED
      BY <1>1, <1>2, <1>3, <2>1 DEF BulkTypeOK
  <1> HIDE DEF NoBatch
  <1>5. Linked = {} /\ InRing = {} /\ Released = {} /\ Undone = {}
    <2>1. Linked = {}
      BY <1>2, PointerAssumption DEF Linked
    <2>2. 1 .. batch.undone = {}
      BY <1>2, <1>3
    <2> QED
      BY <1>2, <2>1, <2>2 DEF InRing, Released, Undone
  <1>6. Filled = 0 /\ Top = 0
    <2>1. Filled = 0
      <3>1. PICK f \in Nat : Filled = f /\ BlockSize * f \in Nat /\ BlockSize * f < 0 + BlockSize
        BY <1>2, Rounded DEF Filled
      <3>2. BlockSize * 1 = BlockSize /\ BlockSize * f < BlockSize * 1
        BY <3>1, SizeAssumption
      <3>3. f < 1
        BY <3>1, <3>2, BlocksOrdered
      <3> QED
        BY <3>1, <3>3
    <2>2. Top = Filled + 0
      BY <1>2, <1>3 DEF Top
    <2> QED
      BY <2>1, <2>2
  <1>7. indexTail = Place(Top - 1 + Shift)
    <2>1. PICK u \in Nat : u = batch.undone /\ u = 0
      BY <1>2, <1>3
    <2>2. PICK h : h = Shift
      OBVIOUS
    <2>3. h = -u
      BY <1>2, <2>1, <2>2 DEF Shift
    <2>4. 0 - 1 + h = -1
      BY <2>1, <2>3
    <2>5. Place(-1) = IndexCap - 1
      BY SizeAssumption DEF Place
    <2> QED
      BY <1>2, <1>6, <2>2, <2>4, <2>5
  <1>8. IndexRight
    <2>1. KeysInPlace
      BY <1>2 DEF KeysInPlace
    <2>2. NeededLinked
      <3>1. 0 .. Top - 1 = {}
        BY <1>6
      <3> QED
        BY <3>1 DEF NeededLinked
    <2>3. LinkedNeeded /\ LastKeyKept
      BY <1>5 DEF LinkedNeeded, LastKeyKept
    <2>4. ChainInPlace
      BY <1>2, <1>3 DEF ChainInPlace
    <2>5. TailRight
      BY <1>2, <1>6 DEF TailRight
    <2> QED
      BY <1>7, <2>1, <2>2, <2>3, <2>4, <2>5 DEF IndexRight
  <1>9. BatchRight /\ SlotsRight /\ CountsRight
    BY <1>2, <1>3, <1>5 DEF BatchRight, SlotsRight, CountsRight, Inserting
  <1>10. \A c \in Consumers : BulkClaimRight(c)
    BY <1>2 DEF BulkClaimRight, HasClaimed, Unemptied, InHand
  <1>11. BulkPlacesRight
    BY <1>2, <1>5, PointerAssumption DEF BulkPlacesRight
  <1> QED
    BY <1>2, <1>4, <1>8, <1>9, <1>10, <1>11 DEF BulkLayoutInv

LEMMA StepBulk ==
    ASSUME BulkGood, [BulkNext]_bulkVars
    PROVE  BulkGood'
  <1>1. BulkTypeOK' /\ BulkTicketInv'
    BY StepBulkTypes, StepBulkTickets DEF BulkGood
  <1>2. HeadNeverPassesTail'
    <2>1. (BulkTypeOK /\ BulkTicketInv => HeadNeverPassesTail)'
      BY BulkClaimsBounded, PTL
    <2> QED
      BY <1>1, <2>1
  <1>3. BulkLayoutInv'
    <2>1. CASE PoolStep
      BY <2>1, PoolKeepsLayout, DestroyKeepsLayout DEF PoolStep
    <2> QED
      BY <2>1, ProducerKeepsLayout, ConsumerKeepsLayout, StutterKeepsLayout DEF BulkNext
  <1> QED
    BY <1>1, <1>2, <1>3 DEF BulkGood

LEMMA BulkCorrect == BulkSpec => []BulkGood
  <1>1. BulkInit => BulkGood
    BY InitBulkLayout, InitBulkTickets, BulkClaimsBounded DEF BulkGood
  <1>2. BulkGood /\ [BulkNext]_bulkVars => BulkGood'
    BY StepBulk
  <1> QED
    BY <1>1, <1>2, PTL DEF BulkSpec

\* The variables of the sub-queue keep their types under the bulk calls as well, and
\* the bulk enqueue never undoes more blocks than it linked (enqueue_bulk).
THEOREM BulkTypesCorrect == BulkSpec => []BulkTypeOK
  <1>1. BulkGood => BulkTypeOK
    BY DEF BulkGood
  <1> QED
    BY <1>1, BulkCorrect, PTL

\* dequeue_bulk takes several tickets of dequeueOptimisticCount at once and gives the
\* excess back to dequeueOvercommit: still no claim of headIndex overtakes tailIndex.
THEOREM BulkClaimsNeverPassTail == BulkSpec => []HeadNeverPassesTail
  <1>1. BulkGood => HeadNeverPassesTail
    BY DEF BulkGood
  <1> QED
    BY <1>1, BulkCorrect, PTL

LEMMA AccessesSound == ASSUME BulkGood PROVE BulkAccessesAreSound
  <1> SUFFICES ASSUME NEW c \in Consumers
               PROVE  /\ pc[c] = "key" => key[found[c].entry] # INVALID_BLOCK_BASE
                      /\ pc[c] = "value" => /\ key[found[c].entry] = Base(found[c].index)
                                            /\ value[found[c].entry] \in Blocks
                      /\ pc[c] = "empty" =>
                            elementsCompletelyDequeued[found[c].block]
                            + (IF grab[c] = NoGrab THEN 1 ELSE Emptied(c)) <= BlockSize
                      /\ pc[c] = "unlink" => value[found[c].entry] = found[c].block
    BY DEF BulkAccessesAreSound
  <1>1. BulkClaimRight(c) /\ found[c].index \in Nat /\ Front(c) \in Nat
    BY ClaimFacts
  <1>2. pc[c] = "key" => key[found[c].entry] # INVALID_BLOCK_BASE
    BY <1>1 DEF BulkClaimRight
  <1>3. ASSUME pc[c] = "value"
        PROVE  key[found[c].entry] = Base(found[c].index) /\ value[found[c].entry] \in Blocks
    <2>1. found[c].entry = SlotAt(found[c].index)
      BY <1>1, <1>3 DEF BulkClaimRight
    <2> QED
      BY <1>3, <2>1, HandBlock DEF InHand, Linked
  <1>4. ASSUME pc[c] = "empty"
        PROVE  elementsCompletelyDequeued[found[c].block]
               + (IF grab[c] = NoGrab THEN 1 ELSE Emptied(c)) <= BlockSize
    <2>1. elementsCompletelyDequeued[found[c].block] + (Front(c) - found[c].index) <= BlockSize
      BY <1>4, EmptyingRoom
    <2>2. (IF grab[c] = NoGrab THEN 1 ELSE Emptied(c)) = Front(c) - found[c].index
      <3>1. PICK i \in Nat : i = found[c].index
        BY <1>1
      <3>2. CASE grab[c] = NoGrab
        <4>1. Front(c) = i + 1
          BY <3>1, <3>2 DEF Front
        <4>2. Front(c) - found[c].index = 1
          BY <3>1, <4>1
        <4> QED
          BY <3>2, <4>2, Zenon
      <3>3. CASE grab[c] # NoGrab
        BY <3>3, Zenon DEF Front, Emptied
      <3> QED
        BY <3>2, <3>3
    <2> QED
      BY <2>1, <2>2
  <1>5. pc[c] = "unlink" => value[found[c].entry] = found[c].block
    BY <1>1 DEF BulkClaimRight
  <1> QED
    BY <1>2, <1>3, <1>4, <1>5

\* What dequeue and dequeue_bulk read from the block index is what they came for: a
\* key in the slot the tail of the index points at, the block of their element in
\* the slot they compute from it, and a block whose count of emptied cells
\* (set_empty, set_many_empty) has room for the ones they add.
THEOREM BulkAccessesSound == BulkSpec => []BulkAccessesAreSound
  <1>1. BulkGood => BulkAccessesAreSound
    BY AccessesSound
  <1> QED
    BY <1>1, BulkCorrect, PTL

LEMMA NoTrace == ASSUME BulkGood PROVE AbortLeavesNoTrace
  <1> SUFFICES ASSUME ppc = "idle"
               PROVE  /\ \A s \in Slots : value[s] \in Blocks =>
                            key[s] < tailIndex /\ key[indexTail] = Base(tailIndex - 1)
                      /\ SlotReusable(NextSlot) \/ value[NextSlot] \in Blocks
    BY DEF AbortLeavesNoTrace
  <1>1. /\ Top \in Nat /\ Filled \in Nat /\ IndexRight /\ BatchRight /\ SlotsRight
        /\ indexTail = Place(Top - 1 + Shift) /\ NextSlot \in Slots
        /\ value \in [Slots -> Blocks \cup {Null, Garbage}]
        /\ tailIndex \in Nat /\ BlockSize \in Nat /\ BlockSize * Filled \in Nat
        /\ tailIndex <= BlockSize * Filled /\ BlockSize * Filled < tailIndex + BlockSize
        /\ Base(tailIndex - 1) = BlockSize * (Filled - 1)
        /\ Base(tailIndex - 1) = BlockSize * Filled - BlockSize
    BY RingNow, Numbers, RingPositions DEF BulkGood, BulkTypeOK
  <1>2. batch = NoBatch /\ batch.undone = 0
    BY <1>1 DEF BatchRight
  <1>3. Top = Filled /\ Top - 1 + Shift = Filled - 1
    <2>1. Top = Filled + 0
      BY <1>2 DEF Top
    <2>2. PICK u \in Nat : u = batch.undone /\ u = 0
      BY <1>2
    <2>3. PICK h : h = Shift
      OBVIOUS
    <2>4. h = -u
      BY <2>2, <2>3 DEF Shift
    <2>5. Top = Filled /\ Filled - 1 + h = Filled - 1
      BY <1>1, <2>1, <2>2, <2>4
    <2> QED
      BY <2>3, <2>5, Zenon
  <1>4. ASSUME NEW s \in Slots, value[s] \in Blocks
        PROVE  key[s] < tailIndex /\ key[indexTail] = Base(tailIndex - 1)
    <2>1. s \in Linked
      BY <1>4 DEF Linked
    <2>2. PICK p \in 0 .. Top - 1 : key[s] = BlockSize * p /\ BlockSize * p \in Nat
      BY <1>1, <2>1, LinkedKey
    <2>3. p \in Int /\ p < Filled
      BY <1>1, <1>3, <2>2
    <2>4. BlockSize * p + BlockSize <= BlockSize * Filled /\ BlockSize * p < BlockSize * Filled
      BY <1>1, <2>3, BlocksOrdered
    <2>5. key[s] < tailIndex
      BY <1>1, <2>2, <2>4
    <2>6. key[Place(Filled - 1)] = BlockSize * (Filled - 1)
      BY <1>1, <2>1, <2>2, <2>4 DEF IndexRight, LastKeyKept
    <2> QED
      BY <1>1, <1>3, <2>5, <2>6
  <1>5. SlotReusable(NextSlot) \/ value[NextSlot] \in Blocks
    BY <1>1 DEF SlotsRight, Inserting, SlotReusable
  <1> QED
    BY <1>4, <1>5

\* An enqueue_bulk that gave up after it linked some blocks has taken them out of the
\* index and put the tail of the index back (rewind_block_index_tail): between calls
\* the index holds blocks of elements only, and ends at that of the last element.
THEOREM AbortsLeaveNoTrace == BulkSpec => []AbortLeavesNoTrace
  <1>1. BulkGood => AbortLeavesNoTrace
    BY NoTrace
  <1> QED
    BY <1>1, BulkCorrect, PTL

LEMMA BulkPlacesCounted == ASSUME BulkGood PROVE BulkOnePlacePerBlock
  <1> DEFINE Tagged == {<<1, pool>>, <<2, freeing>>, <<3, other>>, <<4, {newBlock}>>, <<5, Undone>>}
  <1> SUFFICES ASSUME NEW b \in Blocks
               PROVE  Cardinality({p \in Tagged : b \in p[2]})
                      + Cardinality({s \in Slots : value[s] = b})
                      + Cardinality({c \in Consumers : pc[c] = "free" /\ found[c].block = b})
                      = 1
    BY DEF BulkOnePlacePerBlock
  <1>a. PICK P, S, C :
           /\ P = {p \in Tagged : b \in p[2]}
           /\ S = {s \in Slots : value[s] = b}
           /\ C = {c \in Consumers : pc[c] = "free" /\ found[c].block = b}
    OBVIOUS
  <1>1. BulkPlacesRight
    BY DEF BulkGood, BulkLayoutInv
  <1>2. b \notin InRing => Cardinality(S) = 0
    <2>1. ASSUME b \notin InRing PROVE S = {}
      BY <1>a, <2>1 DEF InRing, Linked
    <2> QED
      BY <2>1, CountOne
  <1>3. b \in InRing => Cardinality(S) = 1
    <2> SUFFICES ASSUME b \in InRing PROVE \E x \in S : \A y \in S : y = x
      BY CountOne
    <2>1. PICK x \in Linked : value[x] = b
      BY DEF InRing
    <2>2. x \in S /\ \A y \in S : y \in Linked /\ value[y] = b
      BY <1>a, <2>1 DEF Linked
    <2> QED
      BY <1>1, <2>1, <2>2 DEF BulkPlacesRight
  <1>4. b \notin Released => Cardinality(C) = 0
    <2>1. ASSUME b \notin Released PROVE C = {}
      BY <1>a, <2>1 DEF Released
    <2> QED
      BY <2>1, CountOne
  <1>5. b \in Released => Cardinality(C) = 1
    <2> SUFFICES ASSUME b \in Released PROVE \E x \in C : \A y \in C : y = x
      BY CountOne
    <2>1. PICK c \in Consumers : pc[c] = "free" /\ found[c].block = b
      BY DEF Released
    <2>2. \A d \in Consumers \ {c} : pc[d] = "free" => found[d].block # b
      BY <2>1, ClaimFacts DEF BulkClaimRight
    <2>3. c \in C /\ \A d \in C : d = c
      BY <1>a, <2>1, <2>2
    <2> QED
      BY <2>3
  <1> DEFINE Elsewhere == pool \cup freeing \cup other \cup {newBlock} \cup Undone
  <1>6. /\ b \notin Elsewhere => Cardinality(P) = 0
        /\ b \in Elsewhere /\ b \notin InRing \cup Released => Cardinality(P) = 1
    <2>0. \A p \in P : \/ p = <<1, pool>> /\ b \in pool
                       \/ p = <<2, freeing>> /\ b \in freeing
                       \/ p = <<3, other>> /\ b \in other
                       \/ p = <<4, {newBlock}>> /\ b = newBlock
                       \/ p = <<5, Undone>> /\ b \in Undone
      BY <1>a
    <2>1. b \notin Elsewhere => P = {}
      BY <2>0
    <2>2. ASSUME b \in Elsewhere PROVE  \E x \in P : \A y \in P : y = x
      <3>1. \/ b \in pool /\ b \notin freeing \cup other \cup {newBlock} \cup Undone
            \/ b \in freeing /\ b \notin pool \cup other \cup {newBlock} \cup Undone
            \/ b \in other /\ b \notin pool \cup freeing \cup {newBlock} \cup Undone
            \/ b = newBlock /\ b \notin pool \cup freeing \cup other \cup Undone
            \/ b \in Undone /\ b \notin pool \cup freeing \cup other \cup {newBlock}
        BY <1>1, <2>2 DEF BulkPlacesRight
      <3>2. CASE b \in pool /\ b \notin freeing \cup other \cup {newBlock} \cup Undone
        <4>1. <<1, pool>> \in P
          BY <1>a, <3>2
        <4> QED
          BY <2>0, <3>2, <4>1
      <3>3. CASE b \in freeing /\ b \notin pool \cup other \cup {newBlock} \cup Undone
        <4>1. <<2, freeing>> \in P
          BY <1>a, <3>3
        <4> QED
          BY <2>0, <3>3, <4>1
      <3>4. CASE b \in other /\ b \notin pool \cup freeing \cup {newBlock} \cup Undone
        <4>1. <<3, other>> \in P
          BY <1>a, <3>4
        <4> QED
          BY <2>0, <3>4, <4>1
      <3>5. CASE b = newBlock /\ b \notin pool \cup freeing \cup other \cup Undone
        <4>1. <<4, {newBlock}>> \in P
          BY <1>a, <3>5
        <4> QED
          BY <2>0, <3>5, <4>1
      <3>6. CASE b \in Undone /\ b \notin pool \cup freeing \cup other \cup {newBlock}
        <4>1. <<5, Undone>> \in P
          BY <1>a, <3>6
        <4> QED
          BY <2>0, <3>6, <4>1
      <3> QED
        BY <3>1, <3>2, <3>3, <3>4, <3>5, <3>6
    <2>3. /\ P = {} => Cardinality(P) = 0
          /\ (\E x \in P : \A y \in P : y = x) => Cardinality(P) = 1
      BY CountOne
    <2> HIDE DEF Elsewhere
    <2> QED
      BY <2>1, <2>2, <2>3
  <1>7. Cardinality(P) + Cardinality(S) + Cardinality(C) = 1
    <2>1. CASE b \in InRing
      <3>1. b \notin Elsewhere \cup Released
        BY <1>1, <2>1 DEF BulkPlacesRight
      <3> QED
        BY <1>3, <1>4, <1>6, <2>1, <3>1
    <2>2. CASE b \in Released
      <3>1. b \notin Elsewhere \cup InRing
        BY <1>1, <2>2 DEF BulkPlacesRight
      <3> QED
        BY <1>2, <1>5, <1>6, <2>2, <3>1
    <2>3. CASE b \notin InRing \cup Released
      <3>1. b \in Elsewhere
        BY <1>1, <2>3 DEF BulkPlacesRight
      <3> QED
        BY <1>2, <1>4, <1>6, <2>3, <3>1
    <2> QED
      BY <2>1, <2>2, <2>3
  <1> QED
    BY <1>a, <1>7

\* No block is lost or held twice under the bulk calls: each is in the free list, on
\* its way there, with another producer, in the producer's hand, in one slot of the
\* index, with the consumer that emptied it, or among those a failed enqueue_bulk
\* has to give back (add_blocks_to_free_list).
THEOREM BulkBlocksInOnePlace == BulkSpec => []BulkOnePlacePerBlock
  <1>1. BulkGood => BulkOnePlacePerBlock
    BY BulkPlacesCounted
  <1> QED
    BY <1>1, BulkCorrect, PTL

-----------------------------------------------------------------------------
(* The room left *)

RoomNeeded == {"insert", "advance", "requisition", "reset", "publish"}

LEMMA ChainNumbers ==
    ASSUME BulkTypeOK
    PROVE  /\ ChainBase(0) = Base(tailIndex - 1) /\ ChainBase(0) \in Int
           /\ tailIndex <= ChainBase(0) + BlockSize /\ ChainBase(0) < tailIndex
           /\ NextBase \in Int /\ LastBase(batch.count) \in Int /\ Base(tailIndex) \in Int
           /\ Cell(tailIndex) # 0 => Base(tailIndex) = ChainBase(0)
           /\ Cell(tailIndex) = 0 => Base(tailIndex) = tailIndex
           /\ headIndex \in Nat /\ tailIndex \in Nat /\ MaxSubqueue \in Nat
           /\ BlockSize \in Nat /\ BlockSize > 0 /\ BlockSize <= MaxSubqueue
  <1>1. /\ BlockSize \in Nat /\ BlockSize > 1 /\ tailIndex \in Nat /\ headIndex \in Nat
        /\ Filled \in Nat /\ BlockSize * Filled \in Nat /\ tailIndex <= BlockSize * Filled
        /\ BlockSize * Filled < tailIndex + BlockSize
        /\ Cell(tailIndex) = 0 <=> tailIndex = BlockSize * Filled
        /\ Base(tailIndex - 1) = BlockSize * Filled - BlockSize
        /\ Len(batch.chain) \in Nat /\ batch.count \in Nat
    BY Numbers
  <1>2. BlockSize * 0 = 0 /\ \A x \in Int : x + 0 = x
    BY <1>1
  <1>3. PICK y \in Nat : y = BlockSize * Filled
    BY <1>1
  <1>4. ChainBase(0) = Base(tailIndex - 1)
    <2>1. Base(tailIndex - 1) \in Int
      BY <1>1, <1>3
    <2> QED
      BY <1>2, <2>1 DEF ChainBase
  <1>5. ChainBase(0) \in Int /\ tailIndex <= ChainBase(0) + BlockSize /\ ChainBase(0) < tailIndex
    BY <1>1, <1>3, <1>4
  <1>6. NextBase \in Int
    <2>1. BlockSize * (Len(batch.chain) + 1) \in Int /\ Base(tailIndex - 1) \in Int
      BY <1>1, <1>3
    <2> QED
      BY <2>1 DEF NextBase, ChainBase
  <1>7. \A i \in Int : Base(i) \in Int
    BY <1>1, ModInRange DEF Base
  <1>8. LastBase(batch.count) \in Int /\ Base(tailIndex) \in Int
    <2>1. tailIndex + batch.count - 1 \in Int /\ tailIndex \in Int
      BY <1>1
    <2> QED
      BY <1>7, <2>1 DEF LastBase
  <1>9. Cell(tailIndex) = 0 => Base(tailIndex) = tailIndex
    BY <1>1 DEF Base, Cell
  <1>10. ASSUME Cell(tailIndex) # 0 PROVE Base(tailIndex) = ChainBase(0)
    <2>1. PICK p \in Nat : /\ Base(tailIndex) = BlockSize * p /\ BlockSize * p <= tailIndex
                           /\ tailIndex < BlockSize * p + BlockSize
      BY <1>1, BlockOf
    <2> DEFINE x == BlockSize * p
    <2>2. /\ x \in Int
          /\ p < Filled => x + BlockSize <= y
          /\ Filled < p => y + BlockSize <= x
          /\ p = Filled => x = y
      BY <1>1, <1>3, <2>1, BlocksOrdered
    <2>3. p < Filled - 1 => x + BlockSize <= y - BlockSize
      <3>1. BlockSize * (Filled - 1) = y - BlockSize
        BY <1>1, <1>3, Numbers
      <3>2. Filled - 1 \in Int
        BY <1>1
      <3> QED
        BY <2>1, <3>1, <3>2, BlocksOrdered
    <2>4. x <= tailIndex /\ tailIndex < x + BlockSize /\ tailIndex < y /\ y < tailIndex + BlockSize
      BY <1>1, <1>3, <1>10, <2>1
    <2> HIDE DEF x
    <2>5. p = Filled - 1
      <3>1. /\ BlockSize \in Nat /\ tailIndex \in Nat /\ Filled \in Nat /\ p \in Nat
            /\ x \in Int /\ y \in Int
        BY <1>1, <1>3, <2>1, <2>2
      <3> QED
        BY ONLY <2>2, <2>3, <2>4, <3>1
    <2> QED
      BY <1>4, <2>1, <2>5, Numbers
  <1> QED
    BY <1>1, <1>4, <1>5, <1>6, <1>8, <1>9, <1>10, SizeAssumption

LEMMA RoomFrame ==
    ASSUME BulkTypeOK, BulkRoomInv, tailIndex' = tailIndex,
           headIndex' \in Nat, headIndex <= headIndex',
           ppc' \in RoomNeeded => ppc \in RoomNeeded,
           ppc' \in {"rewind", "clear"} => ppc \in RoomNeeded \cup {"rewind", "clear"},
           ppc' \in {"write", "commit"} => ppc \in {"write", "commit"},
           ppc' \in RoomNeeded \cup {"rewind", "clear", "write", "commit"} => batch' = batch
    PROVE  BulkRoomInv'
  <1>1. PICK x, n, l, b : x = ChainBase(0) /\ n = NextBase /\ l = LastBase(batch.count)
                          /\ b = Base(tailIndex)
    OBVIOUS
  <1>2. /\ x \in Int /\ n \in Int /\ l \in Int /\ b \in Int /\ headIndex \in Nat
        /\ tailIndex \in Nat /\ MaxSubqueue \in Nat /\ BlockSize \in Nat
    BY <1>1, ChainNumbers
  <1>3. /\ ChainBase(0)' = x /\ Base(tailIndex)' = b
        /\ batch' = batch => NextBase' = n /\ LastBase(batch.count)' = l
    BY <1>1 DEF ChainBase, NextBase, LastBase, Base
  <1>4. PICK h, g, t, m, z : /\ h = headIndex /\ g = headIndex' /\ t = tailIndex
                             /\ m = MaxSubqueue /\ z = BlockSize
    OBVIOUS
  <1>5. /\ h \in Int /\ g \in Int /\ t \in Int /\ m \in Int /\ z \in Int /\ h <= g
        /\ \A y \in Int : y + z <= h + m => y + z <= g + m
    <2>1. h \in Int /\ g \in Int /\ t \in Int /\ m \in Int /\ z \in Int
      BY <1>2, <1>4
    <2>2. h <= g
      BY <1>4
    <2> QED
      BY ONLY <2>1, <2>2
  <1>6. x + z <= h + m
    BY <1>1, <1>4 DEF BulkRoomInv
  <1>7. ASSUME batch' = NoBatch
        PROVE  /\ ppc' \in RoomNeeded \cup {"rewind", "clear"} => t + z <= h + m
               /\ ppc' \in {"write", "commit"} => b + z <= h + m
    BY <1>1, <1>4, <1>7 DEF BulkRoomInv, RoomNeeded
  <1>8. ASSUME batch' # NoBatch
        PROVE  /\ ppc' \in RoomNeeded => n + z <= h + m /\ NextBase' = n
               /\ ppc' \in {"write", "commit"} => l + z <= h + m /\ LastBase(batch.count)' = l
    BY <1>1, <1>3, <1>4, <1>8 DEF BulkRoomInv, RoomNeeded
  <1>9. x + z <= g + m
    BY <1>2, <1>5, <1>6
  <1>10. ASSUME batch' = NoBatch
         PROVE  /\ ppc' \in RoomNeeded \cup {"rewind", "clear"} => t + z <= g + m
                /\ ppc' \in {"write", "commit"} => b + z <= g + m
    BY <1>2, <1>5, <1>7, <1>10
  <1>11. ASSUME batch' # NoBatch
         PROVE  /\ ppc' \in RoomNeeded => NextBase' + z <= g + m
                /\ ppc' \in {"write", "commit"} => LastBase(batch.count)' + z <= g + m
    BY <1>2, <1>5, <1>8, <1>11
  <1> QED
    BY <1>3, <1>4, <1>9, <1>10, <1>11 DEF BulkRoomInv, RoomNeeded

LEMMA RoomByProducer ==
    ASSUME BulkGood, BulkRoomInv, BulkProducer
    PROVE  BulkRoomInv'
  <1>0. BulkTypeOK /\ BatchRight /\ headIndex \in Nat
    BY Numbers DEF BulkGood, BulkLayoutInv
  <1>1. /\ ChainBase(0) \in Int /\ NextBase \in Int /\ LastBase(batch.count) \in Int
        /\ Base(tailIndex) \in Int /\ headIndex \in Nat /\ tailIndex \in Nat
        /\ MaxSubqueue \in Nat /\ BlockSize \in Nat /\ BlockSize <= MaxSubqueue
        /\ BlockSize * 0 = 0
    BY <1>0, ChainNumbers
  <1> USE DEF counters, blockIndex, contents, places, consumer
  <1>2. ASSUME EnqueueStart, batch = NoBatch, batch' = batch PROVE BulkRoomInv'
    <2>1. /\ UNCHANGED <<tailIndex, headIndex>>
          /\ ppc' = "room" \/ (ppc' = "write" /\ Cell(tailIndex) # 0)
      BY <1>2 DEF EnqueueStart
    <2>2. CASE ppc' = "room"
      BY <1>0, <2>1, <2>2, RoomFrame DEF RoomNeeded
    <2>3. CASE ppc' = "write" /\ Cell(tailIndex) # 0
      <3>1. ChainBase(0)' = ChainBase(0) /\ Base(tailIndex)' = ChainBase(0)
        BY <1>0, <2>1, <2>3, ChainNumbers DEF ChainBase, Base
      <3> QED
        BY <1>2, <2>1, <2>3, <3>1 DEF BulkRoomInv
    <2> QED
      BY <2>1, <2>2, <2>3
  <1>3. ASSUME CheckRoom, batch = NoBatch, batch' = batch PROVE BulkRoomInv'
    <2>1. PICK head \in Recent(headIndex) : ppc' = IF HasRoom(head) THEN "insert" ELSE "idle"
      BY <1>3 DEF CheckRoom
    <2>2. UNCHANGED <<tailIndex, headIndex>>
      BY <1>3 DEF CheckRoom
    <2>3. CASE ppc' = "idle"
      BY <1>0, <1>1, <2>2, <2>3, RoomFrame DEF RoomNeeded
    <2>4. CASE ppc' = "insert" /\ HasRoom(head)
      <3>1. head \in Nat /\ head <= headIndex
        BY <1>1, SizeAssumption DEF Recent
      <3>2. tailIndex + BlockSize <= headIndex + MaxSubqueue
        BY <1>1, <2>4, <3>1 DEF HasRoom
      <3>3. ChainBase(0)' = ChainBase(0)
        BY <2>2 DEF ChainBase, Base
      <3> QED
        BY <1>3, <2>2, <2>4, <3>2, <3>3 DEF BulkRoomInv
    <2> QED
      BY <2>1, <2>3, <2>4
  <1>4. ASSUME batch' = batch,
               InsertKey \/ InsertRefused \/ AdvanceIndex \/ Requisition \/ RequisitionFails
               \/ RewindIndex \/ ClearEntry \/ ResetEmpty \/ WriteElement \/ BulkInsertKey
               \/ BulkWrite
        PROVE  BulkRoomInv'
    <2>1. /\ UNCHANGED <<tailIndex, headIndex>>
          /\ \/ ppc \in RoomNeeded /\ ppc' \in RoomNeeded \cup {"idle", "rewind"}
             \/ ppc \in {"rewind", "clear"} /\ ppc' \in {"clear", "idle"}
             \/ ppc = "write" /\ ppc' = "commit"
      BY <1>4 DEF InsertKey, InsertRefused, AdvanceIndex, Requisition, RequisitionFails,
         RewindIndex, ClearEntry, ResetEmpty, WriteElement, BulkInsertKey, BulkWrite, RoomNeeded
    <2> QED
      BY <1>0, <1>1, <1>4, <2>1, RoomFrame DEF RoomNeeded
  <1>5. ASSUME PublishBlock, batch = NoBatch, batch' = batch PROVE BulkRoomInv'
    <2>1. UNCHANGED <<tailIndex, headIndex>> /\ ppc = "publish" /\ ppc' = "write"
      BY <1>5 DEF PublishBlock
    <2>2. Base(tailIndex)' = tailIndex /\ ChainBase(0)' = ChainBase(0)
      <3>1. Base(tailIndex) = tailIndex
        BY <1>0, <1>5, <2>1, ChainNumbers DEF BatchRight, Inserting
      <3> QED
        BY <2>1, <3>1 DEF ChainBase, Base
    <2> QED
      BY <1>5, <2>1, <2>2 DEF BulkRoomInv
  <1>6. ASSUME Commit, batch = NoBatch, batch' = batch PROVE BulkRoomInv'
    <2>1. UNCHANGED headIndex /\ tailIndex' = tailIndex + 1 /\ ppc = "commit" /\ ppc' = "idle"
      BY <1>6 DEF Commit
    <2>2. ChainBase(0)' = Base(tailIndex)
      <3>1. tailIndex + 1 - 1 = tailIndex
        BY <1>1
      <3>2. ChainBase(0)' = Base(tailIndex) + 0
        BY <1>1, <2>1, <3>1 DEF ChainBase, Base
      <3> QED
        BY <1>1, <3>2
    <2> QED
      BY <1>6, <2>1, <2>2 DEF BulkRoomInv
  <1>7. ASSUME NEW n \in BulkSizes, BulkStart(n) PROVE BulkRoomInv'
    <2>1. /\ UNCHANGED <<tailIndex, headIndex>> /\ batch'.count = n /\ n \in Nat
          /\ ppc' = IF ChainBase(0) = LastBase(n) THEN "write" ELSE "room"
      BY <1>7, BulkAssumption DEF BulkStart, NoBatch
    <2>2. batch' # NoBatch
      <3>1. NoBatch.count = 0 /\ n # 0
        BY BulkAssumption DEF NoBatch
      <3> QED
        BY <2>1, <3>1
    <2>3. ChainBase(0)' = ChainBase(0) /\ LastBase(batch.count)' = LastBase(n)
      BY <2>1 DEF ChainBase, Base, LastBase
    <2>4. CASE ppc' = "room"
      BY <1>0, <2>1, <2>4, RoomFrame DEF RoomNeeded
    <2>5. CASE ppc' = "write" /\ ChainBase(0) = LastBase(n)
      BY <2>1, <2>2, <2>3, <2>5 DEF BulkRoomInv
    <2> QED
      BY <2>1, <2>4, <2>5
  <1>8. ASSUME BulkCheckRoom PROVE BulkRoomInv'
    <2>1. UNCHANGED <<tailIndex, headIndex>> /\ batch # NoBatch
      BY <1>8 DEF BulkCheckRoom
    <2>2. CASE ppc' \in {"idle", "undo"}
      BY <1>0, <2>1, <2>2, RoomFrame DEF RoomNeeded
    <2>3. ASSUME NEW head \in Recent(headIndex), HasRoomFor(NextBase, head), ppc' = "insert",
                 batch' = batch
          PROVE  BulkRoomInv'
      <3>1. head \in Nat /\ head <= headIndex
        BY <1>1, SizeAssumption DEF Recent
      <3>2. NextBase + BlockSize <= headIndex + MaxSubqueue
        BY <1>1, <2>3, <3>1 DEF HasRoomFor
      <3>3. ChainBase(0)' = ChainBase(0) /\ NextBase' = NextBase
        BY <2>1, <2>3 DEF ChainBase, Base, NextBase
      <3> QED
        BY <2>1, <2>3, <3>2, <3>3 DEF BulkRoomInv
    <2> QED
      BY <1>8, <2>2, <2>3 DEF BulkCheckRoom, Abort
  <1>9. ASSUME BulkInsertRefused \/ BulkClearEntry PROVE BulkRoomInv'
    <2>1. UNCHANGED <<tailIndex, headIndex>> /\ ppc' \in {"idle", "undo"}
      BY <1>9 DEF BulkInsertRefused, BulkClearEntry, Abort
    <2> QED
      BY <1>0, <2>1, RoomFrame DEF RoomNeeded
  <1>10. ASSUME BulkPublish PROVE BulkRoomInv'
    <2>1. /\ UNCHANGED <<tailIndex, headIndex>> /\ batch # NoBatch /\ ppc = "publish"
          /\ batch'.count = batch.count
          /\ ppc' = IF NextBase = LastBase(batch.count) THEN "write" ELSE "room"
      BY <1>0, <1>10 DEF BulkPublish, BulkTypeOK, BatchType
    <2>2. batch' # NoBatch
      <3>1. NoBatch.count = 0 /\ batch.count > 0
        BY <1>0, <2>1 DEF NoBatch, BatchRight
      <3> QED
        BY <2>1, <3>1
    <2>3. CASE ppc' = "room"
      BY <1>0, <2>1, <2>3, RoomFrame DEF RoomNeeded
    <2>4. CASE ppc' = "write" /\ NextBase = LastBase(batch.count)
      <3>1. LastBase(batch.count)' = NextBase /\ ChainBase(0)' = ChainBase(0)
        BY <2>1, <2>4 DEF LastBase, Base, ChainBase
      <3> QED
        BY <2>1, <2>2, <2>4, <3>1 DEF BulkRoomInv
    <2> QED
      BY <2>1, <2>3, <2>4
  <1>11. ASSUME UndoEntry \/ UndoTail \/ UndoBlocks PROVE BulkRoomInv'
    <2>1. UNCHANGED <<tailIndex, headIndex>> /\ ppc' \in {"undo tail", "undo", "idle"}
      BY <1>11 DEF UndoEntry, UndoTail, UndoBlocks
    <2>2. ppc' \notin RoomNeeded \cup {"rewind", "clear", "write", "commit"}
      BY <2>1 DEF RoomNeeded
    <2>3. headIndex' \in Nat /\ headIndex <= headIndex' /\ tailIndex' = tailIndex
      <3>1. headIndex' = headIndex /\ tailIndex' = tailIndex
        BY <2>1
      <3>2. headIndex \in Nat /\ headIndex <= headIndex
        BY <1>1
      <3> QED
        BY <3>1, <3>2
    <2> QED
      BY <1>0, <2>2, <2>3, RoomFrame
  <1>12. ASSUME BulkCommit PROVE BulkRoomInv'
    <2>1. /\ UNCHANGED headIndex /\ tailIndex' = tailIndex + batch.count /\ ppc = "commit"
          /\ ppc' = "idle" /\ batch' = NoBatch /\ batch # NoBatch
      BY <1>12 DEF BulkCommit
    <2>2. ChainBase(0)' = LastBase(batch.count)
      <3>1. batch.count \in Nat
        BY <1>0, Numbers
      <3>2. PICK t \in Int : t = tailIndex + batch.count - 1
        BY <1>1, <3>1
      <3>3. tailIndex' - 1 = t
        BY <1>1, <2>1, <3>1, <3>2
      <3>4. ChainBase(0)' = Base(t) + 0 /\ LastBase(batch.count) = Base(t)
        BY <1>1, <3>2, <3>3 DEF ChainBase, Base, LastBase
      <3> QED
        BY <1>1, <3>4
    <2> QED
      BY <2>1, <2>2 DEF BulkRoomInv
  <1>13. BulkWrite => batch' = batch
    BY DEF BulkWrite
  <1>14. BulkInsertKey => batch' = batch
    BY DEF BulkInsertKey
  <1> QED
    BY <1>2, <1>3, <1>4, <1>5, <1>6, <1>7, <1>8, <1>9, <1>10, <1>11, <1>12, <1>13, <1>14
       DEF BulkProducer, Producer, SharedEnqueueStep

LEMMA HeadGrows ==
    ASSUME BulkGood, NEW c \in Consumers, BulkConsumer(c)
    PROVE  headIndex' \in Nat /\ headIndex <= headIndex'
  <1>1. headIndex \in Nat
    BY Numbers DEF BulkGood
  <1> QED
    BY <1>1, StepKinds DEF Quietly, Claims, LooksForBlock, Moves, Empties, Unlinks, Frees

LEMMA StepBulkRoom ==
    ASSUME BulkGood, BulkRoomInv, [BulkNext]_bulkVars
    PROVE  BulkRoomInv'
  <1>0. BulkTypeOK /\ headIndex \in Nat
    BY Numbers DEF BulkGood
  <1>1. ASSUME NEW c \in Consumers, BulkConsumer(c) PROVE BulkRoomInv'
    BY <1>0, <1>1, HeadGrows, CallsApart, RoomFrame
  <1>2. ASSUME PoolStep PROVE BulkRoomInv'
    <2>1. UNCHANGED <<tailIndex, headIndex, batch>> /\ (ppc' = ppc \/ ppc' = "destroyed")
      BY <1>2 DEF PoolStep, Settle, OtherTakes, OtherReturns, Destroy, counters, producer
    <2> QED
      BY <1>0, <2>1, RoomFrame DEF RoomNeeded
  <1>3. ASSUME UNCHANGED bulkVars PROVE BulkRoomInv'
    <2>1. UNCHANGED <<tailIndex, headIndex, batch, ppc>>
      BY <1>3 DEF bulkVars, vars, counters, producer
    <2> QED
      BY <1>0, <2>1, RoomFrame
  <1> QED
    BY <1>1, <1>2, <1>3, RoomByProducer DEF BulkNext

LEMMA InitBulkRoom == ASSUME BulkInit PROVE BulkRoomInv
  <1>1. BulkTypeOK
    BY InitBulkLayout
  <1>2. /\ tailIndex = 0 /\ headIndex = 0 /\ ppc = "idle"
    BY DEF BulkInit, Init
  <1>3. ChainBase(0) + BlockSize <= headIndex + MaxSubqueue
    BY <1>1, <1>2, ChainNumbers
  <1> QED
    BY <1>2, <1>3 DEF BulkRoomInv

LEMMA BulkRoom == BulkSpec => []BulkRoomInv
  <1>1. BulkInit => BulkRoomInv
    BY InitBulkRoom
  <1>2. BulkGood /\ BulkRoomInv /\ [BulkNext]_bulkVars => BulkRoomInv'
    BY StepBulkRoom
  <1> QED
    BY <1>1, <1>2, BulkCorrect, PTL DEF BulkSpec

LEMMA RoomLimits == ASSUME BulkTypeOK, BulkRoomInv PROVE SubqueueBound
  BY ChainNumbers DEF BulkRoomInv, SubqueueBound

THEOREM BulkLimitKept == BulkSpec => []SubqueueBound
  <1>1. BulkGood /\ BulkRoomInv => SubqueueBound
    BY RoomLimits DEF BulkGood
  <1> QED
    BY <1>1, BulkCorrect, BulkRoom, PTL

-----------------------------------------------------------------------------
(* Elements stay where they were put *)

LEMMA ToMoveHeld ==
    ASSUME BulkGood, NEW c \in Consumers, NEW i \in ToMove(c)
    PROVE  i \in Unemptied(c) /\ i \in Nat /\ i < headIndex /\ i < tailIndex
  <1>1. CASE pc[c] # "empty"
    BY <1>1, HeldIndex DEF ToMove
  <1>2. CASE pc[c] = "empty"
    <2>1. /\ BulkClaimRight(c) /\ found[c].index \in Nat /\ Until(c) \in Nat /\ Front(c) \in Nat
          /\ Base(found[c].index) \in Nat
      BY ClaimFacts
    <2>2. /\ Front(c) = Min2(Base(found[c].index) + BlockSize, Until(c))
          /\ found[c].index < Until(c)
      BY <1>2, <2>1 DEF BulkClaimRight, HasClaimed
    <2>3. found[c].index < Base(found[c].index) + BlockSize
      BY <2>1, BlockOf, SizeAssumption
    <2>4. found[c].index < Front(c)
      BY <2>1, <2>2, <2>3, SizeAssumption DEF Min2
    <2>5. i \in Front(c) .. Until(c) - 1
      BY <1>2 DEF ToMove
    <2>6. i \in Unemptied(c)
      BY <1>2, <2>1, <2>4, <2>5 DEF Unemptied, InHand
    <2> QED
      BY <2>6, HeldIndex
  <1> QED
    BY <1>1, <1>2

LEMMA ToMoveByOthers ==
    ASSUME BulkGood, NEW c \in Consumers, BulkConsumer(c), NEW d \in Consumers \ {c}
    PROVE  ToMove(d)' = ToMove(d)
  BY UnemptiedByOthers DEF ToMove

LEMMA ToMoveKept ==
    ASSUME BulkGood, NEW c \in Consumers,
           Quietly(c) \/ LooksForBlock(c) \/ Empties(c) \/ Unlinks(c) \/ Frees(c)
    PROVE  ToMove(c)' = ToMove(c) /\ headIndex' = headIndex
  <1>1. CASE Empties(c)
    <2>1. pc[c] = "empty" /\ pc'[c] # "empty" /\ headIndex' = headIndex
      BY <1>1 DEF Empties, Leaves
    <2> QED
      BY <1>1, <2>1, UnemptiedByEmptying DEF ToMove
  <1>2. CASE ~Empties(c)
    <2>1. pc[c] # "empty" /\ pc'[c] # "empty"
      BY <1>2 DEF Quietly, Early, LooksForBlock, Unlinks, Frees, Leaves
    <2> QED
      BY <1>2, <2>1, UnemptiedKept DEF ToMove
  <1> QED
    BY <1>1, <1>2

LEMMA ToMoveByMoving ==
    ASSUME BulkGood, NEW c \in Consumers, Moves(c)
    PROVE  LET i == found[c].index IN
           /\ ToMove(c) = i .. Until(c) - 1
           /\ ToMove(c)' = Front(c)' .. Until(c) - 1
           /\ i \in Nat /\ Until(c) \in Nat /\ Front(c)' \in Nat
           /\ i < Front(c)' /\ Front(c)' <= Until(c) /\ Front(c)' <= Base(i) + BlockSize
           /\ Base(i) \in Nat /\ Base(i) <= i
  <1>1. /\ BulkClaimRight(c) /\ found[c].index \in Nat /\ Until(c) \in Nat
        /\ Base(found[c].index) \in Nat
    BY ClaimFacts
  <1>2. /\ pc[c] = "move" /\ pc'[c] = "empty" /\ found'[c] = found[c] /\ Until(c)' = Until(c)
        /\ Front(c)' = Min2(Base(found[c].index) + BlockSize, Until(c))
    BY DEF Moves
  <1>3. found[c].index < Until(c)
    BY <1>1, <1>2 DEF BulkClaimRight, HasClaimed
  <1>4. found[c].index < Base(found[c].index) + BlockSize /\ Base(found[c].index) <= found[c].index
    BY <1>1, BlockOf, SizeAssumption
  <1>5. /\ ToMove(c) = found[c].index .. Until(c) - 1
        /\ ToMove(c)' = Front(c)' .. Until(c) - 1
    BY <1>2 DEF ToMove, Unemptied, InHand
  <1> QED
    BY <1>1, <1>2, <1>3, <1>4, <1>5, SizeAssumption DEF Min2

LEMMA ToMoveByClaim ==
    ASSUME BulkGood, NEW c \in Consumers, Claims(c)
    PROVE  ToMove(c) = {} /\ ToMove(c)' = headIndex .. headIndex' - 1
  BY UnemptiedByClaim DEF ToMove, Claims

\* Only the move takes an element out of its cell.
LEMMA StoredSame ==
    ASSUME BulkGood, HeadNeverPassesTail', NEW c \in Consumers, BulkConsumer(c), ~Moves(c),
           NEW i \in Nat
    PROVE  BulkStored(i)' <=> BulkStored(i)
  <1>1. UNCHANGED <<tailIndex, ppc, batch>>
    BY CallsApart DEF BulkGood
  <1>2. Written' = Written
    BY <1>1 DEF Written
  <1>3. \A d \in Consumers \ {c} : ToMove(d)' = ToMove(d)
    BY ToMoveByOthers
  <1>4. CASE Claims(c)
    <2>1. headIndex' \in Nat /\ headIndex \in Nat /\ headIndex < headIndex'
      BY <1>4, Numbers DEF Claims, BulkGood
    <2>2. ToMove(c) = {} /\ ToMove(c)' = headIndex .. headIndex' - 1
      BY <1>4, ToMoveByClaim
    <2>3. headIndex' <= Written /\ Written \in Nat
      <3>1. tailIndex \in Nat /\ batch.count \in Nat
        BY Numbers DEF BulkGood
      <3>2. Written \in Nat /\ tailIndex <= Written
        BY <3>1 DEF Written
      <3> QED
        BY <1>1, <2>1, <3>1, <3>2 DEF HeadNeverPassesTail
    <2>4. i \in ToMove(c)' <=> headIndex <= i /\ i < headIndex'
      <3>1. PICK g \in Nat, h \in Nat : g = headIndex /\ h = headIndex'
        BY <2>1
      <3>2. ToMove(c)' = g .. h - 1
        BY <2>2, <3>1
      <3>3. i \in g .. h - 1 <=> g <= i /\ i < h
        OBVIOUS
      <3> QED
        BY <3>1, <3>2, <3>3
    <2>5. (\E d \in Consumers : i \in ToMove(d)')
             <=> (headIndex <= i /\ i < headIndex') \/ \E d \in Consumers : i \in ToMove(d)
      <3>1. ASSUME NEW d \in Consumers, i \in ToMove(d)'
            PROVE  (headIndex <= i /\ i < headIndex') \/ i \in ToMove(d)
        BY <1>3, <2>4, <3>1
      <3>2. ASSUME NEW d \in Consumers, i \in ToMove(d) PROVE i \in ToMove(d)'
        BY <1>3, <2>2, <3>2
      <3> QED
        BY <2>4, <3>1, <3>2
    <2>6. BulkStored(i)' <=> (headIndex' <= i /\ i < Written)
                             \/ (headIndex <= i /\ i < headIndex')
                             \/ \E d \in Consumers : i \in ToMove(d)
      BY <1>2, <2>5 DEF BulkStored
    <2>7. (headIndex' <= i /\ i < Written) \/ (headIndex <= i /\ i < headIndex')
             <=> headIndex <= i /\ i < Written
      BY <2>1, <2>3
    <2> QED
      BY <2>6, <2>7 DEF BulkStored
  <1>5. CASE ~Claims(c)
    <2>1. ToMove(c)' = ToMove(c) /\ headIndex' = headIndex
      BY <1>5, StepKinds, ToMoveKept
    <2> QED
      BY <1>2, <1>3, <2>1 DEF BulkStored
  <1> QED
    BY <1>4, <1>5

LEMMA StoredLess ==
    ASSUME BulkGood, NEW c \in Consumers, BulkConsumer(c), Moves(c), NEW i \in Nat
    PROVE  /\ BulkStored(i)' <=> BulkStored(i) /\ ~(i \in found[c].index .. Front(c)' - 1)
           /\ i \in found[c].index .. Front(c)' - 1 => BulkStored(i)
  <1>1. UNCHANGED <<tailIndex, ppc, batch>> /\ headIndex' = headIndex
    BY CallsApart DEF BulkGood, Moves
  <1>2. Written' = Written
    BY <1>1 DEF Written
  <1>3. \A d \in Consumers \ {c} : ToMove(d)' = ToMove(d)
    BY ToMoveByOthers
  <1> DEFINE k == found[c].index
             f == Front(c)'
             u == Until(c)
  <1>4. /\ ToMove(c) = k .. u - 1 /\ ToMove(c)' = f .. u - 1
        /\ k \in Nat /\ u \in Nat /\ f \in Nat /\ k < f /\ f <= u
    BY ToMoveByMoving
  <1>5. ASSUME i \in k .. f - 1
        PROVE  i \in ToMove(c) /\ i < headIndex /\ \A d \in Consumers \ {c} : i \notin ToMove(d)
    <2>1. i \in ToMove(c)
      BY <1>4, <1>5
    <2>2. i \in Unemptied(c) /\ i < headIndex
      BY <2>1, ToMoveHeld
    <2>3. \A d \in Consumers \ {c} : Unemptied(c) \cap Unemptied(d) = {}
      BY ClaimFacts DEF BulkClaimRight
    <2>4. \A d \in Consumers \ {c} : i \in ToMove(d) => i \in Unemptied(d)
      BY ToMoveHeld
    <2> QED
      BY <2>1, <2>2, <2>3, <2>4
  <1>6. i \in ToMove(c)' <=> i \in ToMove(c) /\ ~(i \in k .. f - 1)
    BY <1>4
  <1>7. headIndex \in Nat
    BY Numbers DEF BulkGood
  <1> HIDE DEF k, f, u
  <1>8. CASE i \in k .. f - 1
    <2>1. ~BulkStored(i)'
      BY <1>1, <1>2, <1>3, <1>5, <1>6, <1>7, <1>8 DEF BulkStored
    <2>2. BulkStored(i)
      BY <1>5, <1>8 DEF BulkStored
    <2> QED
      BY <1>8, <2>1, <2>2 DEF k, f
  <1>9. CASE ~(i \in k .. f - 1)
    <2>1. BulkStored(i)' <=> BulkStored(i)
      BY <1>1, <1>2, <1>3, <1>6, <1>9 DEF BulkStored
    <2> QED
      BY <1>9, <2>1 DEF k, f
  <1> QED
    BY <1>8, <1>9

LEMMA CellsFrame ==
    ASSUME CellsRight, elements' = elements,
           \A s \in Linked' :
              \/ /\ s \in Linked /\ value'[s] = value[s] /\ key'[s] = key[s]
                 /\ \A j \in Cells : BulkStored(key[s] + j)' <=> BulkStored(key[s] + j)
              \/ /\ value'[s] \in Blocks \ InRing
                 /\ \A j \in Cells : ~BulkStored(key[s] + j)',
           \A s \in Linked : \/ s \in Linked' /\ value'[s] = value[s]
                             \/ \A j \in Cells : ~BulkStored(key[s] + j)
    PROVE  CellsRight'
  <1>1. ASSUME NEW s \in Linked', NEW j \in Cells
        PROVE  (elements[value[s]][j] = IF BulkStored(key[s] + j) THEN key[s] + j + 1 ELSE NoMessage)'
    <2>1. CASE /\ s \in Linked /\ value'[s] = value[s] /\ key'[s] = key[s]
               /\ \A i \in Cells : BulkStored(key[s] + i)' <=> BulkStored(key[s] + i)
      <3>1. elements[value[s]][j] = IF BulkStored(key[s] + j) THEN key[s] + j + 1 ELSE NoMessage
        BY <2>1 DEF CellsRight
      <3> QED
        BY <2>1, <3>1
    <2>2. CASE value'[s] \in Blocks \ InRing /\ \A i \in Cells : ~BulkStored(key[s] + i)'
      <3>1. elements[value'[s]][j] = NoMessage
        BY <2>2 DEF CellsRight
      <3> QED
        BY <2>2, <3>1 DEF NoMessage
    <2> QED
      BY <1>1, <2>1, <2>2
  <1>2. ASSUME NEW b \in Blocks, b \notin InRing', NEW j \in Cells
        PROVE  elements'[b][j] = NoMessage
    <2>1. CASE b \notin InRing
      BY <2>1 DEF CellsRight
    <2>2. CASE b \in InRing
      <3>1. PICK s \in Linked : b = value[s]
        BY <2>2 DEF InRing
      <3>2. ~(s \in Linked' /\ value'[s] = value[s])
        BY <1>2, <3>1 DEF InRing
      <3>3. ~BulkStored(key[s] + j)
        BY <3>2
      <3> QED
        BY <3>1, <3>3 DEF CellsRight
    <2> QED
      BY <2>1, <2>2
  <1>3. NoMessage' = NoMessage /\ Cells' = Cells
    BY DEF NoMessage, Cells
  <1>4. \A b \in Blocks \ InRing' : \A j \in Cells : elements'[b][j] = NoMessage
    BY <1>2
  <1> QED
    BY <1>1, <1>3, <1>4 DEF CellsRight

\* The elements that a consumer's step takes out of their cells.
LEMMA ElementsByMove ==
    ASSUME BulkGood, NEW c \in Consumers, BulkConsumer(c)
    PROVE  /\ ~Moves(c) => elements' = elements
           /\ Moves(c) => \A b \in Blocks, j \in Cells :
                 elements'[b][j] =
                    IF b = found[c].block /\ Base(found[c].index) + j \in found[c].index .. Front(c)' - 1
                    THEN NoMessage ELSE elements[b][j]
  <1>0. /\ pc \in [Consumers -> ConsumerSteps] /\ found \in [Consumers -> FoundType]
        /\ grab \in [Consumers -> GrabType] /\ found[c].index \in Nat
        /\ elements \in [Blocks -> [Cells -> Nat]]
    BY ClaimFacts DEF BulkGood, BulkTypeOK, TypeOK
  <1>1. CASE MoveElement(c) /\ grab[c] = NoGrab /\ UNCHANGED grab
    <2> DEFINE b == found[c].block
               i == Cell(found[c].index)
    <2>1. /\ pc[c] = "move" /\ pc'[c] = "empty" /\ found' = found
          /\ elements' = [elements EXCEPT ![b][i] = NoMessage]
      BY <1>0, <1>1 DEF MoveElement, Goto
    <2>2. b \in Blocks
      BY <2>1, EmptyingBlock
    <2>3. /\ Base(found[c].index) + i = found[c].index /\ i \in Cells
          /\ Base(found[c].index) \in Nat
      BY <1>0, BlockOf
    <2>4. Front(c)' = found[c].index + 1
      BY <1>1, <2>1 DEF Front
    <2>5. ASSUME NEW j \in Cells
          PROVE  Base(found[c].index) + j \in found[c].index .. Front(c)' - 1 <=> j = i
      <3>1. Front(c)' - 1 = found[c].index
        BY <1>0, <2>4
      <3>2. j \in Nat /\ i \in Nat
        BY <2>3, SizeAssumption DEF Cells
      <3>3. PICK x \in Nat, y \in Nat : x = Base(found[c].index) /\ y = found[c].index
        BY <1>0, <2>3
      <3>4. x + j \in y .. y <=> j = i
        BY <2>3, <3>2, <3>3
      <3> QED
        BY <3>1, <3>3, <3>4
    <2>6. Moves(c)
      BY <1>1, SingleKinds, <2>1 DEF Claims, Empties, Frees
    <2>7. \A a \in Blocks, j \in Cells :
             elements'[a][j] = IF a = b /\ j = i THEN NoMessage ELSE elements[a][j]
      BY <1>0, <2>1, <2>2, <2>3
    <2> QED
      BY <2>5, <2>6, <2>7
  <1>2. CASE MoveElements(c)
    <2> DEFINE b == found[c].block
               k == found[c].index
               to == Min2(Base(k) + BlockSize, ClaimedTo(c))
    <2>1. /\ pc[c] = "move" /\ pc'[c] = "empty"
          /\ elements' = [elements EXCEPT ![b] =
                           [i \in Cells |-> IF Base(k) + i \in k .. to - 1
                                            THEN NoMessage ELSE elements[b][i]]]
      BY <1>0, <1>2 DEF MoveElements, Goto
    <2>2. b \in Blocks
      BY <2>1, EmptyingBlock
    <2>3. Front(c)' = to
      BY <1>2, MovedOut DEF Front
    <2>4. Moves(c)
      BY <1>2, BulkKinds, <2>1 DEF Claims, Empties, Frees
    <2> HIDE DEF to, k
    <2>5. \A a \in Blocks, j \in Cells :
             elements'[a][j] = IF a = b /\ Base(k) + j \in k .. to - 1 THEN NoMessage
                                                                 ELSE elements[a][j]
      BY <1>0, <2>1, <2>2
    <2> QED
      BY <2>3, <2>4, <2>5 DEF k
  <1>3. CASE /\ ~(MoveElement(c) /\ grab[c] = NoGrab /\ UNCHANGED grab)
             /\ ~MoveElements(c)
    <2> USE DEF contents
    <2>1. elements' = elements
      <3>1. CASE Consumer(c) /\ grab[c] = NoGrab /\ UNCHANGED grab
        BY <1>3, <3>1 DEF Consumer, LoadTail, LoadOvercommit, CheckAvailable, TakeTicket, Recheck,
              GiveUp, Claim, LoadIndexTail, LookUpSlot, LoadBlock, SetEmpty, UnlinkBlock, FreeBlock
      <3>2. CASE SharedDequeueStep(c)
        BY <3>2 DEF SharedDequeueStep, LoadOvercommit, LoadIndexTail, LookUpSlot, LoadBlock, UnlinkBlock
      <3>3. ASSUME NEW n \in BulkSizes, BulkLoadTail(c, n) PROVE elements' = elements
        BY <3>3 DEF BulkLoadTail, LoadTail
      <3>4. CASE BulkCheckAvailable(c) \/ TakeTickets(c) \/ BulkRecheck(c) \/ BulkGiveUp(c)
        BY <3>4 DEF BulkCheckAvailable, TakeTickets, BulkRecheck, BulkGiveUp
      <3>5. CASE BulkClaim(c) \/ SetManyEmpty(c) \/ BulkFreeBlock(c)
        BY <3>5 DEF BulkClaim, SetManyEmpty, BulkFreeBlock
      <3> QED
        BY <1>3, <3>1, <3>2, <3>3, <3>4, <3>5 DEF BulkConsumer
    <2>2. ~Moves(c)
      <3> SUFFICES ASSUME pc[c] = "move", pc'[c] = "empty" PROVE FALSE
        BY DEF Moves
      <3> USE <1>0 DEF Goto
      <3>1. CASE Consumer(c) /\ grab[c] = NoGrab /\ UNCHANGED grab
        BY <1>3, <3>1 DEF Consumer, LoadTail, LoadOvercommit, CheckAvailable, TakeTicket, Recheck,
              GiveUp, Claim, LoadIndexTail, LookUpSlot, LoadBlock, SetEmpty, UnlinkBlock, FreeBlock
      <3>2. CASE SharedDequeueStep(c)
        BY <3>2 DEF SharedDequeueStep, LoadOvercommit, LoadIndexTail, LookUpSlot, LoadBlock, UnlinkBlock
      <3>3. ASSUME NEW n \in BulkSizes, BulkLoadTail(c, n) PROVE FALSE
        BY <3>3 DEF BulkLoadTail, LoadTail
      <3>4. CASE BulkCheckAvailable(c) \/ TakeTickets(c) \/ BulkRecheck(c) \/ BulkGiveUp(c)
        BY <3>4 DEF BulkCheckAvailable, TakeTickets, BulkRecheck, BulkGiveUp
      <3>5. CASE BulkClaim(c) \/ SetManyEmpty(c) \/ BulkFreeBlock(c)
        BY <3>5 DEF BulkClaim, SetManyEmpty, BulkFreeBlock, Onward
      <3> QED
        BY <1>3, <3>1, <3>2, <3>3, <3>4, <3>5 DEF BulkConsumer
    <2> QED
      BY <2>1, <2>2
  <1> QED
    BY <1>1, <1>2, <1>3

LEMMA StoredNotEmptied ==
    ASSUME BulkGood, NEW i \in Nat, BulkStored(i)
    PROVE  NotEmptied(i)
  BY ToMoveHeld DEF BulkStored, NotEmptied

\* Where an index belongs, if its block is linked.
LEMMA IndexOfCell ==
    ASSUME BulkGood, NEW s \in Linked, NEW j \in Cells
    PROVE  /\ key[s] + j \in Nat /\ Base(key[s] + j) = key[s] /\ Cell(key[s] + j) = j
           /\ SlotAt(key[s] + j) = s /\ value[s] \in Blocks /\ value[s] \in InRing
           /\ s \in Slots /\ key[s] \in Nat /\ ppc # "destroyed"
  <1>1. ppc # "destroyed" /\ IndexRight
    BY DEF BulkGood, BulkLayoutInv
  <1>2. PICK p \in Nat : key[s] = BlockSize * p /\ s = Place(p) /\ BlockSize * p \in Nat
    BY <1>1, LinkedKey
  <1> QED
    BY <1>1, <1>2, InBlockOf DEF Linked, InRing

LEMMA ClaimedBlock ==
    ASSUME BulkGood, NEW c \in Consumers, pc[c] \in {"move", "empty"}
    PROVE  LET s == found[c].entry
               i == found[c].index
           IN  /\ s \in Linked /\ value[s] = found[c].block /\ key[s] = Base(i)
               /\ i = key[s] + Cell(i) /\ Cell(i) \in Cells /\ i \in Nat /\ Base(i) \in Nat
  <1>1. /\ BulkClaimRight(c) /\ found[c].index \in Nat /\ Base(found[c].index) \in Nat
    BY ClaimFacts
  <1>2. /\ found[c].entry = SlotAt(found[c].index) /\ found[c].entry \in Linked
        /\ found[c].block = value[found[c].entry]
    BY <1>1 DEF BulkClaimRight
  <1>3. PICK p \in 0 .. Filled - 1 :
                 /\ Base(found[c].index) = BlockSize * p /\ SlotAt(found[c].index) = Place(p)
                 /\ key[Place(p)] = BlockSize * p
                 /\ found[c].index = BlockSize * p + Cell(found[c].index)
                 /\ Cell(found[c].index) \in Cells
    BY HandBlock DEF InHand
  <1> QED
    BY <1>1, <1>2, <1>3

LEMMA ConsumerKeepsCells ==
    ASSUME BulkGood, CellsRight, HeadNeverPassesTail', NEW c \in Consumers, BulkConsumer(c)
    PROVE  CellsRight'
  <1>1. key' = key /\ Linked' \subseteq Linked /\ \A s \in Linked' : value'[s] = value[s]
    BY CallsApart, ConsumerLinks DEF BulkGood
  <1>2. CASE ~Moves(c)
    <2>1. elements' = elements
      BY <1>2, ElementsByMove
    <2>2. \A s \in Linked, j \in Cells : BulkStored(key[s] + j)' <=> BulkStored(key[s] + j)
      BY <1>1, <1>2, IndexOfCell, StoredSame
    <2>3. ASSUME NEW s \in Linked, s \notin Linked', NEW j \in Cells
          PROVE  ~BulkStored(key[s] + j)
      <3>1. Unlinks(c)
        BY <2>3, ConsumerLinks
      <3>2. s = found[c].entry
        BY <2>3, <3>1, UnlinksBlock
      <3>3. key[s] = Base(found[c].index) /\ \A i \in Cells : ~NotEmptied(Base(found[c].index) + i)
        BY <3>1, <3>2, ClaimFacts DEF Unlinks, BulkClaimRight
      <3>4. ~NotEmptied(key[s] + j) /\ key[s] + j \in Nat
        BY <3>3, IndexOfCell
      <3> QED
        BY <3>4, StoredNotEmptied
    <2> QED
      BY <1>1, <2>1, <2>2, <2>3, CellsFrame
  <1>3. CASE Moves(c)
    <2> DEFINE e == found[c].entry
               b == found[c].block
               i == found[c].index
               f == Front(c)'
               T == i .. f - 1
    <2>1. value' = value /\ Linked' = Linked /\ pc[c] = "move" /\ InRing' = InRing
      <3>1. value' = value /\ pc[c] = "move"
        BY <1>3 DEF Moves
      <3> QED
        BY <3>1 DEF Linked, InRing
    <2>2. e \in Linked /\ value[e] = b /\ key[e] = Base(i) /\ i \in Nat /\ Base(i) \in Nat
      BY <2>1, ClaimedBlock
    <2>3. i < f /\ f <= Base(i) + BlockSize /\ f \in Nat /\ Base(i) <= i
      BY <1>3, ToMoveByMoving
    <2>4. \A a \in Blocks, j \in Cells :
             elements'[a][j] = IF a = b /\ Base(i) + j \in T THEN NoMessage ELSE elements[a][j]
      BY <1>3, ElementsByMove
    <2>5. ASSUME NEW s \in Linked, NEW j \in Cells
          PROVE  BulkStored(key[s] + j)' <=> BulkStored(key[s] + j) /\ ~(key[s] + j \in T)
      BY <1>1, <1>3, <2>5, IndexOfCell, StoredLess
    <2>6. ASSUME NEW s \in Linked, NEW j \in Cells, key[s] + j \in T
          PROVE  s = e
      <3>1. PICK x \in Nat : x = key[s] + j
        BY <2>6, IndexOfCell
      <3>2. /\ Base(x) = key[s] /\ SlotAt(x) = s /\ x \in i .. f - 1
        BY <2>6, <3>1, IndexOfCell
      <3>3. PICK y \in Nat : y = Base(i)
        BY <2>2
      <3>4. y <= x /\ x < y + BlockSize
        BY <2>2, <2>3, <3>2, <3>3, SizeAssumption
      <3>5. PICK p \in Nat : y = BlockSize * p /\ SlotAt(i) = Place(p)
        BY <2>2, <3>3, BlockOf
      <3>6. x - y \in Cells
        BY <3>4, SizeAssumption DEF Cells
      <3>7. x = BlockSize * p + (x - y)
        BY <3>3, <3>4, <3>5
      <3>8. SlotAt(x) = Place(p)
        <4>1. SlotAt(BlockSize * p + (x - y)) = Place(p)
          BY <3>6, InBlockOf
        <4> QED
          BY <3>7, <4>1
      <3>9. e = SlotAt(i)
        BY <2>1, ClaimFacts DEF BulkClaimRight
      <3> QED
        BY <3>2, <3>5, <3>8, <3>9
    <2>7. ASSUME NEW s \in Linked, NEW j \in Cells
          PROVE  (elements[value[s]][j] = IF BulkStored(key[s] + j) THEN key[s] + j + 1 ELSE NoMessage)'
      <3>1. elements[value[s]][j] = IF BulkStored(key[s] + j) THEN key[s] + j + 1 ELSE NoMessage
        BY DEF CellsRight
      <3>2. value[s] \in Blocks /\ (value[s] = b <=> s = e)
        BY <2>2, IndexOfCell DEF BulkGood, BulkLayoutInv, BulkPlacesRight
      <3>3. elements'[value[s]][j] =
               IF value[s] = b /\ Base(i) + j \in T THEN NoMessage ELSE elements[value[s]][j]
        BY <2>4, <3>2
      <3>4. value[s] = b /\ Base(i) + j \in T <=> key[s] + j \in T
        BY <2>2, <2>6, <3>2
      <3>5. NoMessage' = NoMessage
        BY DEF NoMessage
      <3> QED
        BY <1>1, <2>1, <2>5, <3>1, <3>3, <3>4, <3>5
    <2>8. ASSUME NEW a \in Blocks \ InRing, NEW j \in Cells PROVE elements'[a][j] = NoMessage
      <3>1. a # b
        BY <2>2 DEF InRing
      <3> QED
        BY <2>4, <3>1 DEF CellsRight
    <2>9. NoMessage' = NoMessage /\ Cells' = Cells /\ Blocks' = Blocks
      BY DEF NoMessage, Cells
    <2> QED
      BY <2>1, <2>7, <2>8, <2>9 DEF CellsRight
  <1> QED
    BY <1>2, <1>3

\* What lies in the cells that a consumer is about to move out.
LEMMA CellsToMove ==
    ASSUME BulkGood, CellsRight, NEW c \in Consumers, pc[c] = "move",
           NEW k \in Nat, found[c].index + k < Until(c), Cell(found[c].index) + k \in Cells
    PROVE  elements[found[c].block][Cell(found[c].index) + k] = found[c].index + k + 1
  <1> DEFINE i == found[c].index
             e == found[c].entry
  <1>1. /\ e \in Linked /\ value[e] = found[c].block /\ key[e] = Base(i)
        /\ i = key[e] + Cell(i) /\ Cell(i) \in Cells /\ i \in Nat /\ Base(i) \in Nat
    BY ClaimedBlock
  <1>2. i + k \in ToMove(c)
    <2>1. ToMove(c) = i .. Until(c) - 1
      BY DEF ToMove, Unemptied, InHand
    <2>2. Until(c) \in Nat
      BY ClaimFacts
    <2> QED
      BY <1>1, <2>1, <2>2
  <1>3. BulkStored(i + k)
    BY <1>2 DEF BulkStored
  <1>4. key[e] + (Cell(i) + k) = i + k
    <2>1. PICK x \in Nat, y \in Nat, z \in Nat : x = key[e] /\ y = Cell(i) /\ z = i /\ z = x + y
      BY <1>1, SizeAssumption DEF Cells
    <2>2. x + (y + k) = z + k
      BY <2>1
    <2> QED
      BY <2>1, <2>2
  <1>5. elements[value[e]][Cell(i) + k] = key[e] + (Cell(i) + k) + 1
    BY <1>1, <1>3, <1>4 DEF CellsRight
  <1> QED
    BY <1>1, <1>4, <1>5

LEMMA HandOfOthers ==
    ASSUME BulkGood, element \in [Consumers -> Nat], NEW c \in Consumers, BulkConsumer(c),
           NEW d \in Consumers \ {c}, MovedRight(d)
    PROVE  MovedRight(d)'
  <1>1. pc'[d] = pc[d] /\ found'[d] = found[d] /\ grab'[d] = grab[d]
    BY UnemptiedByOthers
  <1>2. element'[d] = element[d]
    <2> USE DEF consumer, Keep, Return, BulkReturn
    <2>1. CASE Consumer(c)
      BY <2>1 DEF Consumer, LoadTail, LoadOvercommit, CheckAvailable, TakeTicket, Recheck,
            GiveUp, Claim, LoadIndexTail, LookUpSlot, LoadBlock, MoveElement, SetEmpty,
            UnlinkBlock, FreeBlock
    <2>2. CASE SharedDequeueStep(c)
      BY <2>2 DEF SharedDequeueStep, LoadOvercommit, LoadIndexTail, LookUpSlot, LoadBlock, UnlinkBlock
    <2>3. ASSUME NEW n \in BulkSizes, BulkLoadTail(c, n) PROVE element'[d] = element[d]
      BY <2>3 DEF BulkLoadTail, LoadTail
    <2>4. CASE BulkCheckAvailable(c) \/ TakeTickets(c) \/ BulkRecheck(c) \/ BulkGiveUp(c)
      BY <2>4 DEF BulkCheckAvailable, TakeTickets, BulkRecheck, BulkGiveUp
    <2>5. CASE BulkClaim(c) \/ MoveElements(c) \/ SetManyEmpty(c) \/ BulkFreeBlock(c)
      BY <2>5 DEF BulkClaim, MoveElements, SetManyEmpty, BulkFreeBlock, Onward
    <2> QED
      BY <2>1, <2>2, <2>3, <2>4, <2>5 DEF BulkConsumer
  <1>3. NoMessage' = NoMessage /\ NoGrab' = NoGrab
    BY DEF NoMessage, NoGrab
  <1> QED
    BY <1>1, <1>2, <1>3 DEF MovedRight

LEMMA HandOfSingle ==
    ASSUME BulkGood, CellsRight, element \in [Consumers -> Nat], NEW c \in Consumers,
           MovedRight(c), grab[c] = NoGrab, Consumer(c), UNCHANGED grab
    PROVE  MovedRight(c)' /\ element' \in [Consumers -> Nat]
  <1>0. /\ pc \in [Consumers -> ConsumerSteps] /\ found \in [Consumers -> FoundType]
        /\ ticket \in [Consumers -> TicketType]
    BY ClaimFacts
  <1>1. element[c] = IF pc[c] \in {"empty", "unlink", "free"} THEN found[c].index + 1 ELSE NoMessage
    BY DEF MovedRight
  <1>2. SUFFICES /\ element'[c] = IF pc'[c] \in {"empty", "unlink", "free"}
                                  THEN found'[c].index + 1 ELSE NoMessage
                 /\ element' \in [Consumers -> Nat]
    BY DEF MovedRight, NoMessage, NoGrab
  <1> USE <1>0, <1>1 DEF Keep, Return, Goto, NoMessage
  <1>3. CASE LoadTail(c) \/ LoadOvercommit(c) \/ CheckAvailable(c) \/ TakeTicket(c) \/ Recheck(c)
             \/ GiveUp(c)
    BY <1>3 DEF LoadTail, LoadOvercommit, CheckAvailable, TakeTicket, Recheck, GiveUp
  <1>4. CASE Claim(c) \/ LoadIndexTail(c) \/ LookUpSlot(c) \/ LoadBlock(c)
    BY <1>4 DEF Claim, LoadIndexTail, LookUpSlot, LoadBlock
  <1>5. CASE MoveElement(c)
    <2> DEFINE b == found[c].block
               i == found[c].index
    <2>1. /\ pc[c] = "move" /\ pc'[c] = "empty" /\ found' = found
          /\ element' = [element EXCEPT ![c] = elements[b][Cell(i)]]
      BY <1>5 DEF MoveElement
    <2>2. i \in Nat /\ Cell(i) \in Cells
      BY <2>1, ClaimedBlock
    <2>3. i + 0 < Until(c) /\ Cell(i) + 0 \in Cells /\ Cell(i) + 0 = Cell(i)
      <3>1. Until(c) = i + 1
        BY DEF Until
      <3>2. Cell(i) \in Nat
        BY <2>2, SizeAssumption DEF Cells
      <3> QED
        BY <2>2, <3>1, <3>2
    <2>4. elements[b][Cell(i) + 0] = i + 0 + 1
      BY <2>1, <2>3, CellsToMove
    <2>5. elements[b][Cell(i)] = i + 1
      BY <2>2, <2>3, <2>4
    <2> QED
      BY <2>1, <2>2, <2>5
  <1>6. CASE SetEmpty(c) \/ UnlinkBlock(c) \/ FreeBlock(c)
    BY <1>6 DEF SetEmpty, UnlinkBlock, FreeBlock
  <1> QED
    BY <1>3, <1>4, <1>5, <1>6 DEF Consumer

\* A call of dequeue_bulk has its elements in the caller's array.
LEMMA HandOfBulk ==
    ASSUME BulkGood, element \in [Consumers -> Nat], NEW c \in Consumers, MovedRight(c),
           BulkConsumer(c), ~(grab[c] = NoGrab /\ Consumer(c))
    PROVE  /\ element' \in [Consumers -> Nat]
           /\ element'[c] = NoMessage
           /\ grab'[c] = NoGrab => pc'[c] = "idle"
  <1>0. /\ pc \in [Consumers -> ConsumerSteps] /\ found \in [Consumers -> FoundType]
        /\ grab \in [Consumers -> GrabType] /\ GrabRight(c)
    BY ClaimFacts
  <1>1. element[c] = NoMessage \/ (grab[c] = NoGrab /\ pc[c] \in {"empty", "unlink", "free"})
    BY DEF MovedRight
  <1> USE <1>0 DEF Keep, Return, Goto, NoMessage, BulkReturn
  <1>2. CASE SharedDequeueStep(c) /\ grab[c] # NoGrab /\ UNCHANGED grab
    BY <1>1, <1>2 DEF SharedDequeueStep, LoadOvercommit, LoadIndexTail, LookUpSlot, LoadBlock, UnlinkBlock
  <1>3. ASSUME NEW n \in BulkSizes, BulkLoadTail(c, n)
        PROVE  element' = element /\ element[c] = NoMessage /\ grab'[c] # NoGrab
    <2>1. n > 0 /\ n \in Nat
      BY BulkAssumption
    <2>2. /\ element' = element /\ pc[c] = "idle"
          /\ grab' = [grab EXCEPT ![c] = [NoGrab EXCEPT !.max = n]]
      BY <1>3 DEF BulkLoadTail, LoadTail
    <2>3. grab'[c].max = n /\ NoGrab.max = 0
      <3>1. grab'[c] = [NoGrab EXCEPT !.max = n]
        BY <2>2
      <3>2. [NoGrab EXCEPT !.max = n].max = n /\ NoGrab.max = 0
        BY DEF NoGrab
      <3> QED
        BY <3>1, <3>2
    <2>4. grab'[c] # NoGrab
      <3> HIDE DEF NoGrab
      <3> QED
        BY <2>1, <2>3
    <2>5. element[c] = NoMessage
      BY <1>1, <2>2
    <2> QED
      BY <2>2, <2>4, <2>5
  <1>4. CASE grab[c].max > 0
    <2>1. grab[c] # NoGrab /\ element[c] = NoMessage
      BY <1>1, <1>4, GrabFields DEF BulkGood
    <2>2. CASE BulkCheckAvailable(c)
      <3>1. CASE grab'[c] = NoGrab /\ pc'[c] = "idle" /\ element'[c] = NoMessage
                 /\ element' \in [Consumers -> Nat]
        BY <3>1
      <3>2. CASE element' = element /\ \E m : grab' = [grab EXCEPT ![c].desired = m]
        <4>1. grab'[c].max = grab[c].max
          BY <3>2, GrabFields DEF BulkGood
        <4>2. grab'[c] # NoGrab
          BY <1>4, <4>1, GrabFields DEF BulkGood
        <4> QED
          BY <2>1, <3>2, <4>2
      <3>3. \/ grab'[c] = NoGrab /\ pc'[c] = "idle" /\ element'[c] = NoMessage
               /\ element' \in [Consumers -> Nat]
            \/ element' = element /\ \E m : grab' = [grab EXCEPT ![c].desired = m]
        BY <2>2 DEF BulkCheckAvailable
      <3> QED
        BY <3>1, <3>2, <3>3
    <2>3. CASE TakeTickets(c)
      BY <2>1, <2>3 DEF TakeTickets
    <2>4. CASE BulkRecheck(c)
      <3>1. element' = element /\ \E m : grab' = [grab EXCEPT ![c].actual = m]
        BY <2>4 DEF BulkRecheck
      <3>2. grab'[c].max = grab[c].max
        BY <3>1, GrabFields DEF BulkGood
      <3>3. grab'[c] # NoGrab
        BY <1>4, <3>2, GrabFields DEF BulkGood
      <3> QED
        BY <2>1, <3>1, <3>3
    <2>5. CASE BulkGiveUp(c)
      BY <2>1, <2>5 DEF BulkGiveUp
    <2>6. CASE BulkClaim(c)
      <3>1. element' = element /\ grab' = [grab EXCEPT ![c].first = headIndex]
        BY <2>6 DEF BulkClaim
      <3>2. grab'[c].max = grab[c].max
        BY <3>1, GrabFields DEF BulkGood
      <3>3. grab'[c] # NoGrab
        BY <1>4, <3>2, GrabFields DEF BulkGood
      <3> QED
        BY <2>1, <3>1, <3>3
    <2>7. CASE MoveElements(c)
      BY <2>1, <2>7, MovedOut DEF MoveElements
    <2>8. CASE SetManyEmpty(c)
      BY <2>1, <2>8 DEF SetManyEmpty, Onward
    <2>9. CASE BulkFreeBlock(c)
      BY <2>1, <2>9 DEF BulkFreeBlock, Onward
    <2>10. ASSUME NEW n \in BulkSizes, BulkLoadTail(c, n) PROVE FALSE
      BY <2>1, <2>10 DEF BulkLoadTail, LoadTail, GrabRight
    <2>11. CASE SharedDequeueStep(c) /\ grab[c] # NoGrab /\ UNCHANGED grab
      BY <1>2, <2>11
    <2> QED
      BY <2>1, <2>2, <2>3, <2>4, <2>5, <2>6, <2>7, <2>8, <2>9, <2>10, <2>11 DEF BulkConsumer
  <1>5. CASE ~(grab[c].max > 0)
    <2>1. \/ \E n \in BulkSizes : BulkLoadTail(c, n)
          \/ SharedDequeueStep(c) /\ grab[c] # NoGrab /\ UNCHANGED grab
      BY <1>5 DEF BulkConsumer, BulkCheckAvailable, TakeTickets, BulkRecheck, BulkGiveUp,
            BulkClaim, MoveElements, SetManyEmpty, BulkFreeBlock
    <2> QED
      BY <1>2, <1>3, <2>1
  <1> QED
    BY <1>4, <1>5

\* The elements moved out are those claimed, in order.
OutRight(g) == \A k \in DOMAIN g.out : g.out[k] = g.first + k

LEMMA NothingOut == OutRight(NoGrab) /\ \A g : g.out = <<>> => OutRight(g)
  BY DEF OutRight, NoGrab

LEMMA OutSame ==
    ASSUME BulkTypeOK, NEW c \in Consumers, NEW m, OutRight(grab[c])
    PROVE  /\ OutRight([grab[c] EXCEPT !.desired = m])
           /\ OutRight([grab[c] EXCEPT !.actual = m])
  <1> DEFINE g == grab[c]
             h == [g EXCEPT !.desired = m]
             a == [g EXCEPT !.actual = m]
  <1>1. h.out = g.out /\ h.first = g.first /\ a.out = g.out /\ a.first = g.first
    BY GrabFields
  <1> HIDE DEF h, a, g
  <1> QED
    BY <1>1 DEF OutRight, h, a, g

LEMMA OutByMove ==
    ASSUME BulkGood, CellsRight, NEW c \in Consumers, MoveElements(c), OutRight(grab[c])
    PROVE  OutRight(grab'[c])
  <1> DEFINE i == found[c].index
             b == found[c].block
             to == Min2(Base(i) + BlockSize, ClaimedTo(c))
             more == [k \in 1 .. to - i |-> elements[b][Cell(i) + k - 1]]
             s == grab[c].out
             f == grab[c].first
  <1>1. /\ grab \in [Consumers -> GrabType] /\ s \in Seq(Nat) /\ i \in Nat
        /\ BulkClaimRight(c) /\ MovedTo(c) \in Nat /\ Until(c) \in Nat
    BY ClaimFacts
  <1>2. /\ pc[c] = "move" /\ grab' = [grab EXCEPT ![c].out = @ \o more]
        /\ grab[c] # NoGrab /\ grab'[c].first = f
    BY MovedOut DEF MoveElements, Goto
  <1>3. MovedTo(c) = i /\ Until(c) = ClaimedTo(c)
    BY <1>1, <1>2 DEF BulkClaimRight, Until
  <1>4. /\ i = Base(i) + Cell(i) /\ Cell(i) \in Cells /\ Base(i) \in Nat
    BY <1>2, ClaimedBlock
  <1>5. i < Until(c)
    BY <1>1, <1>2 DEF BulkClaimRight, HasClaimed
  <1>6. to \in Nat /\ i < to /\ to <= Base(i) + BlockSize /\ to <= Until(c)
    <2>1. PICK x \in Nat, y \in Nat, n \in Nat :
              x = Base(i) /\ y = Cell(i) /\ n = BlockSize /\ y < n /\ i = x + y
      BY <1>4, SizeAssumption DEF Cells
    <2>2. PICK u \in Nat : u = ClaimedTo(c) /\ u = Until(c) /\ i < u
      BY <1>1, <1>3, <1>5
    <2>3. to = Min2(x + n, u) /\ x + y < u
      BY <2>1, <2>2
    <2> HIDE DEF to, i
    <2>4. \A v : v = Min2(x + n, u) => v \in Nat /\ x + y < v /\ v <= x + n /\ v <= u
      <3>1. x + y < x + n /\ x + n \in Nat
        BY <2>1
      <3>2. x \in Nat /\ y \in Nat /\ n \in Nat /\ u \in Nat
        OBVIOUS
      <3> QED
        BY ONLY <2>3, <3>1, <3>2 DEF Min2
    <2> QED
      BY <2>1, <2>2, <2>3, <2>4
  <1>7. ASSUME NEW k \in 1 .. to - i PROVE elements[b][Cell(i) + k - 1] = i + k
    <2>1. PICK m \in Nat : m = k - 1 /\ k = m + 1
      BY <1>1, <1>6
    <2>2. i + m < Until(c) /\ Cell(i) + m \in Cells
      <3>1. PICK x \in Nat, y \in Nat : x = Base(i) /\ y = Cell(i) /\ i = x + y
        BY <1>4, SizeAssumption DEF Cells
      <3>2. k <= to - i /\ k \in Nat
        BY <1>1, <1>6
      <3> HIDE DEF to, i
      <3>3. y + m < BlockSize
        <4>1. PICK t \in Nat, n \in Nat : t = to /\ n = BlockSize
          BY <1>6, SizeAssumption
        <4>2. k <= t - (x + y) /\ t <= x + n /\ k = m + 1
          BY <1>6, <2>1, <3>1, <3>2, <4>1
        <4>3. x \in Nat /\ y \in Nat /\ m \in Nat /\ n \in Nat /\ t \in Nat /\ k \in Nat
          BY <3>2
        <4>4. y + m < n
          BY ONLY <4>2, <4>3
        <4> QED
          BY <4>1, <4>4
      <3>4. i + m < Until(c)
        BY <1>1, <1>6, <2>1, <3>2
      <3> QED
        BY <3>1, <3>3, <3>4, SizeAssumption DEF Cells
    <2>3. elements[b][Cell(i) + m] = i + m + 1
      BY <1>2, <2>2, CellsToMove
    <2>4. Cell(i) + k - 1 = Cell(i) + m /\ i + m + 1 = i + k
      <3>1. PICK y \in Nat : y = Cell(i)
        BY <1>4, SizeAssumption DEF Cells
      <3> QED
        BY <1>1, <2>1, <3>1
    <2> QED
      BY <2>3, <2>4
  <1>8. more \in [1 .. to - i -> Nat] /\ to - i \in Nat
    <2>1. to - i \in Nat
      BY <1>1, <1>6
    <2>2. \A k \in 1 .. to - i : i + k \in Nat
      BY <1>1, <1>6
    <2> HIDE DEF to, i, b
    <2> QED
      BY <1>7, <2>1, <2>2
  <1> HIDE DEF to, i, b
  <1>9. \A k \in 1 .. to - i : more[k] = i + k
    BY <1>7
  <1> HIDE DEF more
  <1>10. grab'[c] = [grab[c] EXCEPT !.out = grab[c].out \o more]
    BY <1>1, <1>2
  <1>11. grab'[c].out = s \o more
    BY <1>10, GrabFields DEF BulkGood
  <1>12. f + Len(s) = i /\ f \in Nat
    BY <1>1, <1>3 DEF MovedTo, GrabType
  <1>13. /\ s \o more \in Seq(Nat) /\ Len(s \o more) = Len(s) + (to - i)
         /\ more \in Seq(Nat) /\ Len(more) = to - i
    <2>1. PICK n \in Nat : n = to - i
      BY <1>8
    <2>2. more \in [1 .. n -> Nat]
      BY <1>8, <2>1
    <2>3. s \o more \in Seq(Nat) /\ Len(s \o more) = Len(s) + n
      BY <1>1, <2>2, Concatenation
    <2>4. more \in Seq(Nat) /\ Len(more) = n
      BY <2>2
    <2> QED
      BY <2>1, <2>3, <2>4
  <1>14. ASSUME NEW k \in DOMAIN (s \o more) PROVE (s \o more)[k] = f + k
    <2>1. Len(s) \in Nat /\ k \in Nat /\ k >= 1 /\ k <= Len(s) + (to - i)
      BY <1>1, <1>8, <1>13
    <2>2. CASE k <= Len(s)
      <3>1. (s \o more)[k] = s[k] /\ k \in DOMAIN s
        BY <1>1, <1>13, <2>1, <2>2
      <3> QED
        BY <3>1 DEF OutRight
    <2>3. CASE ~(k <= Len(s))
      <3>1. PICK m \in 1 .. to - i : m = k - Len(s)
        <4>1. PICK n \in Nat, l \in Nat : n = to - i /\ l = Len(s)
          BY <1>8, <2>1
        <4>2. k \in Nat /\ k <= l + n /\ ~(k <= l)
          BY <2>1, <2>3, <4>1
        <4>3. k - l \in 1 .. n
          BY <4>2
        <4> QED
          BY <4>1, <4>3
      <3>2. (s \o more)[k] = more[m]
        BY <1>1, <1>13, <2>1, <2>3, <3>1
      <3>3. i + m = f + k
        BY <1>8, <1>12, <2>1, <3>1
      <3> QED
        BY <1>9, <3>2, <3>3
    <2> QED
      BY <2>2, <2>3
  <1> QED
    BY <1>2, <1>11, <1>14 DEF OutRight

LEMMA OutOfBulk ==
    ASSUME BulkGood, CellsRight, NEW c \in Consumers, OutRight(grab[c]), BulkConsumer(c)
    PROVE  OutRight(grab'[c])
  <1>0. grab \in [Consumers -> GrabType] /\ GrabRight(c)
    BY ClaimFacts
  <1> USE <1>0
  <1>1. CASE UNCHANGED grab
    BY <1>1
  <1>2. ASSUME NEW n \in BulkSizes, BulkLoadTail(c, n) PROVE OutRight(grab'[c])
    <2>1. grab'[c] = [NoGrab EXCEPT !.max = n]
      BY <1>2 DEF BulkLoadTail
    <2>2. [NoGrab EXCEPT !.max = n].out = <<>>
      BY DEF NoGrab
    <2> QED
      BY <2>1, <2>2, NothingOut
  <1>3. CASE grab'[c] = NoGrab
    BY <1>3, NothingOut
  <1>4. CASE BulkCheckAvailable(c)
    <2>1. grab'[c] = NoGrab \/ \E m : grab'[c] = [grab[c] EXCEPT !.desired = m]
      BY <1>4 DEF BulkCheckAvailable, BulkReturn
    <2> QED
      BY <2>1, NothingOut, OutSame DEF BulkGood
  <1>5. CASE BulkRecheck(c)
    <2>1. \E m : grab'[c] = [grab[c] EXCEPT !.actual = m]
      BY <1>5 DEF BulkRecheck
    <2> QED
      BY <2>1, OutSame DEF BulkGood
  <1>6. CASE TakeTickets(c) \/ BulkGiveUp(c) \/ SetManyEmpty(c) \/ BulkFreeBlock(c)
    <2>1. UNCHANGED grab \/ grab'[c] = NoGrab
      BY <1>6 DEF TakeTickets, BulkGiveUp, SetManyEmpty, BulkFreeBlock, Onward, BulkReturn
    <2> QED
      BY <1>1, <2>1, NothingOut
  <1>7. CASE BulkClaim(c)
    <2>1. grab'[c] = [grab[c] EXCEPT !.first = headIndex] /\ pc[c] = "claim" /\ grab[c].max > 0
      BY <1>7 DEF BulkClaim, Goto
    <2>2. grab[c].out = <<>>
      BY <2>1, GrabFields DEF GrabRight, BulkGood
    <2>3. grab'[c].out = <<>>
      BY <2>1, <2>2, GrabFields DEF BulkGood
    <2> QED
      BY <2>3, NothingOut
  <1>8. CASE MoveElements(c)
    BY <1>8, OutByMove
  <1> QED
    BY <1>1, <1>2, <1>4, <1>5, <1>6, <1>7, <1>8 DEF BulkConsumer

LEMMA ConsumerKeepsElements ==
    ASSUME BulkGood, BulkElementsInv, HeadNeverPassesTail', NEW c \in Consumers, BulkConsumer(c)
    PROVE  BulkElementsInv'
  <1>1. CellsRight /\ element \in [Consumers -> Nat] /\ \A d \in Consumers : MovedRight(d)
    BY DEF BulkElementsInv
  <1>2. CellsRight' /\ \A d \in Consumers \ {c} : MovedRight(d)'
    BY <1>1, ConsumerKeepsCells, HandOfOthers
  <1>3. OutRight(grab'[c])
    BY <1>1, OutOfBulk DEF MovedRight, OutRight
  <1>4. MovedRight(c)' /\ element' \in [Consumers -> Nat]
    <2>1. CASE grab[c] = NoGrab /\ Consumer(c) /\ UNCHANGED grab
      BY <1>1, <2>1, HandOfSingle
    <2>2. CASE ~(grab[c] = NoGrab /\ Consumer(c))
      <3>1. /\ element' \in [Consumers -> Nat] /\ element'[c] = NoMessage
            /\ grab'[c] = NoGrab => pc'[c] = "idle"
        BY <1>1, <2>2, HandOfBulk
      <3>2. NoMessage' = NoMessage /\ NoGrab' = NoGrab
        BY DEF NoMessage, NoGrab
      <3> QED
        BY <1>3, <3>1, <3>2 DEF MovedRight, OutRight
    <2>3. CASE grab[c] = NoGrab /\ Consumer(c) /\ ~UNCHANGED grab
      <3>1. pc[c] = "idle" /\ \E n \in BulkSizes : BulkLoadTail(c, n)
        <4>1. ~(grab[c].max > 0)
          BY <2>3 DEF NoGrab
        <4> QED
          BY <2>3, <4>1 DEF BulkConsumer, BulkCheckAvailable, TakeTickets, BulkRecheck, BulkGiveUp,
            BulkClaim, MoveElements, SetManyEmpty, BulkFreeBlock, BulkLoadTail, LoadTail, Goto
      <3>2. PICK n \in BulkSizes : BulkLoadTail(c, n)
        BY <3>1
      <3>3. element' = element /\ pc'[c] = "over"
        <4>1. pc \in [Consumers -> ConsumerSteps]
          BY ClaimFacts
        <4> QED
          BY <3>2, <4>1 DEF BulkLoadTail, LoadTail, Goto
      <3>4. element[c] = NoMessage
        BY <1>1, <3>1 DEF MovedRight
      <3> QED
        BY <1>1, <1>3, <3>3, <3>4 DEF MovedRight, OutRight, NoMessage
    <2> QED
      BY <2>1, <2>2, <2>3
  <1> QED
    BY <1>2, <1>4 DEF BulkElementsInv

LEMMA UnseenHands ==
    ASSUME Unseen
    PROVE  /\ element' = element
           /\ \A c \in Consumers : ToMove(c)' = ToMove(c) /\ (MovedRight(c)' <=> MovedRight(c))
  <1>1. UNCHANGED <<pc, found, grab, element>>
    BY DEF Unseen, consumer
  <1>2. NoMessage' = NoMessage /\ NoGrab' = NoGrab
    BY DEF NoMessage, NoGrab
  <1>3. \A c \in Consumers : ToMove(c)' = ToMove(c)
    BY <1>1, UnseenKeeps DEF ToMove
  <1>4. \A c \in Consumers : MovedRight(c)' <=> MovedRight(c)
    BY <1>1, <1>2 DEF MovedRight
  <1> QED
    BY <1>1, <1>3, <1>4

LEMMA WrittenBounds ==
    ASSUME BulkGood
    PROVE  /\ Written \in Nat /\ tailIndex <= Written /\ tailIndex \in Nat
           /\ ppc # "commit" => Written = tailIndex
           /\ \A i \in Nat : Written <= i => ~BulkStored(i)
  <1>1. tailIndex \in Nat /\ batch.count \in Nat
    BY Numbers DEF BulkGood
  <1>2. Written \in Nat /\ tailIndex <= Written /\ (ppc # "commit" => Written = tailIndex)
    BY <1>1 DEF Written
  <1>3. ASSUME NEW i \in Nat, Written <= i PROVE ~BulkStored(i)
    <2>1. ASSUME NEW c \in Consumers, i \in ToMove(c) PROVE FALSE
      <3>1. i < tailIndex
        BY <2>1, ToMoveHeld
      <3> QED
        BY <1>1, <1>2, <1>3, <3>1
    <2> QED
      BY <1>2, <1>3, <2>1 DEF BulkStored
  <1> QED
    BY <1>1, <1>2, <1>3

\* Nothing is stored in the blocks that the chain has reached.
LEMMA ChainEmpty ==
    ASSUME BulkGood, ppc # "commit", NEW p \in Nat, Filled <= p, NEW j \in Cells
    PROVE  BlockSize * p + j \in Nat /\ ~BulkStored(BlockSize * p + j)
  <1>1. /\ Filled \in Nat /\ BlockSize * Filled \in Nat /\ tailIndex <= BlockSize * Filled
        /\ BlockSize \in Nat /\ tailIndex \in Nat
    BY Numbers DEF BulkGood
  <1>2. BlockSize * p \in Int /\ BlockSize * Filled <= BlockSize * p
    BY <1>1, BlocksOrdered
  <1>3. BlockSize * p + j \in Nat /\ tailIndex <= BlockSize * p + j
    BY <1>1, <1>2 DEF Cells
  <1> QED
    BY <1>3, WrittenBounds

\* A step that leaves the linked blocks and what is stored in them alone.
LEMMA QuietCells ==
    ASSUME CellsRight, Unseen, Written' = Written, elements' = elements,
           Linked' = Linked, \A s \in Linked : value'[s] = value[s] /\ key'[s] = key[s]
    PROVE  CellsRight'
  <1>1. \A i : BulkStored(i)' <=> BulkStored(i)
    BY UnseenHands DEF BulkStored, Unseen
  <1> QED
    BY <1>1, CellsFrame

LEMMA CellsBetween ==
    ASSUME BulkGood, CellsRight,
           \/ /\ EnqueueStart \/ CheckRoom \/ InsertRefused \/ AdvanceIndex \/ Requisition
                 \/ RequisitionFails \/ RewindIndex \/ ResetEmpty \/ Commit
              /\ UNCHANGED <<batch, grab>> /\ (Commit => batch = NoBatch)
           \/ \E n \in BulkSizes : BulkStart(n)
           \/ BulkCheckRoom \/ BulkInsertRefused \/ UndoTail \/ UndoBlocks \/ BulkCommit
    PROVE  CellsRight' /\ Unseen /\ UNCHANGED elements
  <1> USE DEF EnqueueStart, CheckRoom, InsertRefused, AdvanceIndex, Requisition, RequisitionFails,
              RewindIndex, ResetEmpty, BulkStart, BulkCheckRoom, BulkInsertRefused, UndoTail,
              UndoBlocks, BulkCommit, Commit, counters, blockIndex, contents, places, consumer
  <1>1. UNCHANGED <<key, value, elements>> /\ Unseen
    BY DEF Unseen
  <1>2. Linked' = Linked
    BY <1>1 DEF Linked
  <1>3. Written' = Written
    <2>0. tailIndex \in Nat /\ batch.count \in Nat
      BY Numbers DEF BulkGood
    <2>1. CASE Commit /\ batch = NoBatch
      <3>1. ppc = "commit" /\ ppc' = "idle" /\ tailIndex' = tailIndex + 1
        BY <2>1
      <3>2. Written = tailIndex + 1
        BY <2>1, <3>1 DEF Written
      <3>3. Written' = tailIndex' + 0
        BY <3>1 DEF Written
      <3> QED
        BY <2>0, <3>1, <3>2, <3>3
    <2>2. CASE BulkCommit
      <3>1. ppc = "commit" /\ ppc' = "idle" /\ batch # NoBatch /\ tailIndex' = tailIndex + batch.count
        BY <2>2
      <3>2. Written = tailIndex + batch.count
        BY <3>1 DEF Written
      <3>3. Written' = tailIndex' + 0
        BY <3>1 DEF Written
      <3> QED
        BY <2>0, <3>1, <3>2, <3>3
    <2>3. CASE ~Commit /\ ~BulkCommit
      <3>1. ppc # "commit" /\ ppc' # "commit" /\ tailIndex' = tailIndex
        BY <2>3 DEF Abort
      <3> QED
        BY <3>1 DEF Written
    <2> QED
      BY <2>1, <2>2, <2>3
  <1> QED
    BY <1>1, <1>2, <1>3, QuietCells

LEMMA NextSlotUnlinked ==
    ASSUME BulkGood, \/ ppc = "insert" /\ SlotReusable(NextSlot)
                     \/ ppc = "clear"
    PROVE  NextSlot \notin Linked /\ NextSlot \in Slots
  <1>0. ppc # "destroyed"
    OBVIOUS
  <1>1. /\ IndexRight /\ SlotsRight /\ NextSlot = Place(Top + Shift) /\ Top \in Nat /\ Shift \in Int
    BY <1>0, RingNow
  <1>2. NextSlot \in Slots
    BY <1>1, Places
  <1>3. CASE ppc = "insert" /\ SlotReusable(NextSlot)
    <2>1. \A s \in Linked : key[s] # INVALID_BLOCK_BASE
      BY <1>1, LinkedKey
    <2> QED
      BY <1>2, <1>3, <2>1, PointerAssumption DEF SlotReusable, Linked
  <1>4. CASE ppc = "clear"
    <2>1. Shift = 0
      BY <1>4, TopAndUndone DEF Shift
    <2>2. Place(Top) \notin Linked
      BY <1>1, <1>4 DEF SlotsRight, Inserting
    <2> QED
      BY <1>1, <1>2, <2>1, <2>2
  <1> QED
    BY <1>3, <1>4

LEMMA CellsBySlot ==
    ASSUME BulkGood, CellsRight,
           ((InsertKey \/ ClearEntry) /\ UNCHANGED <<batch, grab>>) \/ BulkInsertKey \/ BulkClearEntry
    PROVE  CellsRight' /\ Unseen /\ UNCHANGED elements
  <1> USE DEF InsertKey, ClearEntry, BulkInsertKey, BulkClearEntry, counters, blockIndex, contents,
              places, consumer
  <1>1. NextSlot \notin Linked /\ NextSlot \in Slots
    BY NextSlotUnlinked
  <1>2. Unseen /\ elements' = elements /\ tailIndex' = tailIndex
    BY DEF Unseen
  <1>3. \/ value' = value /\ \E k : key' = [key EXCEPT ![NextSlot] = k]
        \/ key' = key /\ value' = [value EXCEPT ![NextSlot] = Null]
    OBVIOUS
  <1>4. \A s \in Slots \ {NextSlot} : value'[s] = value[s] /\ key'[s] = key[s]
    BY <1>3 DEF BulkGood, BulkTypeOK, TypeOK
  <1>5. value'[NextSlot] \in {Null, value[NextSlot]}
    BY <1>1, <1>3 DEF BulkGood, BulkTypeOK, TypeOK
  <1>6. Linked' = Linked
    BY <1>1, <1>4, <1>5, PointerAssumption DEF Linked
  <1>7. \A s \in Linked : value'[s] = value[s] /\ key'[s] = key[s]
    BY <1>1, <1>4 DEF Linked
  <1>8. Written' = Written
    <2>1. ppc # "commit" /\ ppc' # "commit"
      BY DEF Abort
    <2> QED
      BY <1>2, <2>1 DEF Written
  <1> QED
    BY <1>2, <1>6, <1>7, <1>8, QuietCells

LEMMA CellsByPublish ==
    ASSUME BulkGood, CellsRight, (PublishBlock /\ UNCHANGED <<batch, grab>>) \/ BulkPublish
    PROVE  CellsRight' /\ Unseen /\ UNCHANGED elements
  <1> USE DEF PublishBlock, BulkPublish, counters, contents, places, consumer
  <1>1. ppc = "publish" /\ ppc' # "commit" /\ Unseen /\ UNCHANGED <<tailIndex, key, elements>>
        /\ value' = [value EXCEPT ![indexTail] = newBlock]
    BY DEF Unseen
  <1>2. /\ Top \in Nat /\ Filled \in Nat /\ Filled <= Top /\ indexTail = Place(Top - 1 + Shift)
        /\ SlotsRight /\ BulkPlacesRight /\ Place(Top) \in Slots
        /\ value \in [Slots -> Blocks \cup {Null, Garbage}]
    BY <1>1, RingNow
  <1>3. indexTail = Place(Top)
    BY <1>1, <1>2 DEF Shift
  <1>4. key[indexTail] = BlockSize * Top /\ indexTail \notin Linked
    BY <1>1, <1>2, <1>3 DEF SlotsRight, Inserting
  <1>5. newBlock \in Blocks \ InRing
    <2>1. newBlock # Null /\ newBlock \notin InRing
      BY <1>1, <1>2 DEF SlotsRight, BulkPlacesRight
    <2> QED
      BY <2>1 DEF BulkGood, BulkTypeOK, TypeOK
  <1>6. Written' = Written
    BY <1>1 DEF Written
  <1>7. \A i : BulkStored(i)' <=> BulkStored(i)
    BY <1>1, <1>6, UnseenHands DEF BulkStored, Unseen
  <1>8. \A s \in Slots \ {indexTail} : value'[s] = value[s]
    BY <1>1, <1>2
  <1>9. Linked' = Linked \cup {indexTail} /\ value'[indexTail] = newBlock
    BY <1>1, <1>2, <1>3, <1>5, <1>8 DEF Linked
  <1>10. \A s \in Linked : s \in Linked' /\ value'[s] = value[s]
    BY <1>4, <1>8, <1>9 DEF Linked
  <1>11. \A j \in Cells : ~BulkStored(key[indexTail] + j)
    BY <1>1, <1>2, <1>4, ChainEmpty
  <1> QED
    BY <1>1, <1>5, <1>7, <1>9, <1>10, <1>11, CellsFrame

LEMMA CellsByUndo ==
    ASSUME BulkGood, CellsRight, UndoEntry
    PROVE  CellsRight' /\ Unseen /\ UNCHANGED elements
  <1> USE DEF UndoEntry, counters, contents, places, consumer
  <1>1. /\ ppc = "undo" /\ ppc' # "commit" /\ Unseen /\ UNCHANGED <<tailIndex, key, elements>>
        /\ batch.undone < Len(batch.chain)
    BY DEF Unseen
  <1> DEFINE p == Filled + batch.undone
             t == Place(p)
  <1>2. /\ p \in Nat /\ t \in Linked /\ key[t] = BlockSize * p
        /\ SlotOf(ChainBase(batch.undone + 1), indexTail, key[indexTail]) = t
    BY <1>1, NextUndone
  <1>3. value' = [value EXCEPT ![t] = Null]
    BY <1>2
  <1>4. Filled <= p
    <2>1. PICK f \in Nat, u \in Nat : f = Filled /\ u = batch.undone
      BY Numbers DEF BulkGood
    <2>2. f \in Nat /\ u \in Nat
      OBVIOUS
    <2>3. f <= f + u
      BY ONLY <2>2
    <2> QED
      BY <2>1, <2>3
  <1> HIDE DEF t, p
  <1>5. Linked' = Linked \ {t} /\ \A s \in Slots \ {t} : value'[s] = value[s]
    <2>1. value \in [Slots -> Blocks \cup {Null, Garbage}]
      BY DEF BulkGood, BulkTypeOK, TypeOK
    <2>2. t \in Slots
      BY <1>2 DEF Linked
    <2>3. /\ value'[t] = Null
          /\ \A s \in Slots \ {t} : value'[s] = value[s]
      BY ONLY <1>3, <2>1, <2>2
    <2> QED
      BY <2>2, <2>3, PointerAssumption DEF Linked
  <1>6. Written' = Written
    BY <1>1 DEF Written
  <1>7. \A i : BulkStored(i)' <=> BulkStored(i)
    BY <1>1, <1>6, UnseenHands DEF BulkStored, Unseen
  <1>8. \A j \in Cells : ~BulkStored(key[t] + j)
    BY <1>1, <1>2, <1>4, ChainEmpty
  <1>9. \A s \in Linked : s \in Slots
    BY DEF Linked
  <1> QED
    BY <1>1, <1>5, <1>7, <1>8, <1>9, CellsFrame

\* Elements are constructed in the cells of the indices from the tail to w.
WritesTo(w) ==
    /\ Unseen /\ UNCHANGED <<tailIndex, key, value>>
    /\ Written = tailIndex /\ Written' = w
    /\ \A i \in tailIndex .. w - 1 :
          /\ SlotAt(i) \in Linked /\ key[SlotAt(i)] = Base(i)
          /\ elements'[value[SlotAt(i)]][Cell(i)] = i + 1
    /\ \A b \in Blocks, j \in Cells :
          \/ elements'[b][j] = elements[b][j]
          \/ \E i \in tailIndex .. w - 1 : value[SlotAt(i)] = b /\ Cell(i) = j

\* The cell of a new index is that of no other index.
LEMMA NewCell ==
    ASSUME BulkGood, NEW s \in Linked, NEW j \in Cells, NEW i \in Nat,
           SlotAt(i) \in Linked, key[SlotAt(i)] = Base(i),
           value[SlotAt(i)] = value[s], Cell(i) = j
    PROVE  i = key[s] + j
  <1>1. SlotAt(i) = s
    BY DEF BulkGood, BulkLayoutInv, BulkPlacesRight
  <1>2. i = Base(i) + Cell(i)
    BY BlockOf
  <1> QED
    BY <1>1, <1>2

LEMMA CellsByWrite ==
    ASSUME BulkGood, HeadNeverPassesTail, CellsRight, NEW w \in Nat, tailIndex <= w, WritesTo(w)
    PROVE  /\ CellsRight'
           /\ \A b \in Blocks, j \in Cells :
                 elements[b][j] # NoMessage => elements'[b][j] = elements[b][j]
  <1>0. tailIndex \in Nat /\ headIndex \in Nat /\ headIndex <= tailIndex
    BY Numbers DEF BulkGood, HeadNeverPassesTail
  <1>1. Linked' = Linked /\ InRing' = InRing /\ value' = value /\ key' = key
        /\ NoMessage' = NoMessage /\ Cells' = Cells /\ Blocks' = Blocks
    BY DEF WritesTo, Linked, InRing, NoMessage, Cells
  <1>2. ASSUME NEW i \in Nat
        PROVE  BulkStored(i)' <=> BulkStored(i) \/ i \in tailIndex .. w - 1
    <2>1. \A c \in Consumers : ToMove(c)' = ToMove(c)
      BY UnseenHands DEF WritesTo
    <2>2. headIndex' = headIndex /\ Written' = w /\ Written = tailIndex
      BY DEF WritesTo, Unseen
    <2>3. (headIndex <= i /\ i < w) <=> (headIndex <= i /\ i < tailIndex) \/ i \in tailIndex .. w - 1
      BY <1>0
    <2> QED
      BY <2>1, <2>2, <2>3 DEF BulkStored
  <1>3. ASSUME NEW s \in Linked, NEW j \in Cells
        PROVE  /\ (elements[value[s]][j] = IF BulkStored(key[s] + j) THEN key[s] + j + 1 ELSE NoMessage)'
               /\ elements[value[s]][j] # NoMessage => elements'[value[s]][j] = elements[value[s]][j]
    <2>1. PICK x \in Nat : x = key[s] + j
      BY IndexOfCell
    <2>2. SlotAt(x) = s /\ Cell(x) = j /\ value[s] \in Blocks
      BY <2>1, IndexOfCell
    <2>3. elements[value[s]][j] = IF BulkStored(x) THEN x + 1 ELSE NoMessage
      BY <2>1 DEF CellsRight
    <2>4. SUFFICES /\ elements'[value[s]][j] = IF BulkStored(x)' THEN x + 1 ELSE NoMessage
                   /\ elements[value[s]][j] # NoMessage => elements'[value[s]][j] = elements[value[s]][j]
      BY <1>1, <2>1
    <2>5. CASE x \in tailIndex .. w - 1
      <3>1. elements'[value[s]][j] = x + 1
        BY <2>2, <2>5 DEF WritesTo
      <3>2. ~BulkStored(x)
        BY <1>0, <2>5, WrittenBounds DEF WritesTo
      <3> QED
        BY <1>2, <2>3, <2>5, <3>1, <3>2
    <2>6. CASE ~(x \in tailIndex .. w - 1)
      <3>1. ASSUME NEW i \in tailIndex .. w - 1, value[SlotAt(i)] = value[s], Cell(i) = j PROVE FALSE
        <4>1. i \in Nat /\ SlotAt(i) \in Linked /\ key[SlotAt(i)] = Base(i)
          BY <1>0 DEF WritesTo
        <4> QED
          BY <2>1, <2>6, <3>1, <4>1, NewCell
      <3>2. elements'[value[s]][j] = elements[value[s]][j]
        BY <2>2, <3>1 DEF WritesTo
      <3> QED
        BY <1>2, <2>3, <2>6, <3>2
    <2> QED
      BY <2>5, <2>6
  <1>4. ASSUME NEW b \in Blocks \ InRing, NEW j \in Cells
        PROVE  elements'[b][j] = NoMessage /\ elements[b][j] = NoMessage
    <2>1. \A i \in tailIndex .. w - 1 : value[SlotAt(i)] # b
      BY DEF WritesTo, InRing
    <2> QED
      BY <2>1 DEF WritesTo, CellsRight
  <1>5. CellsRight'
    BY <1>1, <1>3, <1>4 DEF CellsRight
  <1>6. ASSUME NEW b \in Blocks, NEW j \in Cells, elements[b][j] # NoMessage
        PROVE  elements'[b][j] = elements[b][j]
    <2>1. b \in InRing
      BY <1>4, <1>6
    <2>2. PICK s \in Linked : b = value[s]
      BY <2>1 DEF InRing
    <2> QED
      BY <1>3, <1>6, <2>2
  <1> QED
    BY <1>5, <1>6

\* The place of an index that the producer is about to fill.
LEMMA FillingPlace ==
    ASSUME BulkGood, ppc = "write", NEW i \in Nat, tailIndex <= i, NEW p \in Nat,
           p <= Top - 1, Base(i) = BlockSize * p
    PROVE  /\ Filled - 1 <= p /\ Needed(p) /\ SlotAt(i) = Place(p)
           /\ Place(p) \in Linked /\ key[Place(p)] = BlockSize * p
           /\ i = BlockSize * p + Cell(i) /\ Cell(i) \in Cells
  <1>1. /\ tailIndex \in Nat /\ headIndex \in Nat /\ headIndex <= tailIndex /\ Filled \in Nat
        /\ BlockSize * Filled \in Nat /\ BlockSize * Filled < tailIndex + BlockSize /\ Top \in Nat
        /\ BlockSize \in Nat
    BY Numbers DEF BulkGood, HeadNeverPassesTail
  <1>2. PICK q \in Nat :
              /\ Base(i) = BlockSize * q /\ SlotAt(i) = Place(q) /\ BlockSize * q \in Nat
              /\ i < BlockSize * q + BlockSize /\ i = BlockSize * q + Cell(i) /\ Cell(i) \in Cells
    BY BlockOf
  <1>3. p = q
    BY <1>2, BlocksOrdered
  <1>4. NotEmptied(i)
    BY <1>1 DEF NotEmptied
  <1>5. NotEmptied(BlockSize * p + Cell(i))
    BY <1>2, <1>3, <1>4
  <1>6. batch.undone = 0
    BY TopAndUndone
  <1>7. Needed(p)
    BY <1>1, <1>2, <1>5, <1>6 DEF Needed
  <1>8. Filled < p + 2
    <2>1. PICK n \in Nat, x \in Nat, y \in Nat :
              n = BlockSize /\ x = BlockSize * Filled /\ y = BlockSize * q
      BY <1>1, <1>2
    <2>2. x < y + n + n
      BY <1>1, <1>2, <2>1
    <2>3. BlockSize * (p + 1) = y + n /\ BlockSize * ((p + 1) + 1) = BlockSize * (p + 1) + BlockSize
      BY <1>3, <2>1, BlocksOrdered
    <2>4. BlockSize * ((p + 1) + 1) = y + n + n
      BY <2>1, <2>3
    <2>5. BlockSize * Filled < BlockSize * ((p + 1) + 1)
      BY <2>1, <2>2, <2>4
    <2>6. Filled < (p + 1) + 1
      <3>1. Filled \in Int /\ (p + 1) + 1 \in Int
        BY <1>1
      <3> QED
        BY <2>5, <3>1, BlocksOrdered
    <2> QED
      BY <1>1, <2>6
  <1>9. p \in 0 .. Top - 1
    BY <1>1
  <1>10. key[Place(p)] = BlockSize * p /\ Place(p) \in Linked
    BY <1>7, <1>9, RingNow DEF IndexRight, NeededLinked
  <1> QED
    BY <1>1, <1>2, <1>3, <1>7, <1>8, <1>10

LEMMA ElementWrites ==
    ASSUME BulkGood, WriteElement, batch = NoBatch, UNCHANGED <<batch, grab>>
    PROVE  WritesTo(tailIndex + 1)
  <1> DEFINE t == tailIndex
             j == Cell(tailIndex)
  <1>1. /\ ppc = "write" /\ ppc' = "commit" /\ Unseen /\ UNCHANGED <<tailIndex, key, value>>
        /\ elements' = [elements EXCEPT ![tailBlock][j] = t + 1]
    BY DEF WriteElement, Unseen, counters, blockIndex, places, consumer
  <1>2. /\ t \in Nat /\ Filled \in Nat /\ BlockSize * Filled \in Nat /\ t <= BlockSize * Filled
        /\ BlockSize * Filled < t + BlockSize /\ (Cell(t) = 0 <=> t = BlockSize * Filled)
        /\ Top \in Nat /\ BlockSize \in Nat
    BY Numbers DEF BulkGood
  <1>3. PICK p \in Nat :
              /\ Base(t) = BlockSize * p /\ SlotAt(t) = Place(p) /\ BlockSize * p \in Nat
              /\ BlockSize * p <= t
              /\ t < BlockSize * p + BlockSize /\ t = BlockSize * p + Cell(t) /\ Cell(t) \in Cells
    BY <1>2, BlockOf
  <1>4. p = Top - 1
    <2>1. CASE Cell(t) = 0
      <3>1. BlockSize * p = BlockSize * Filled
        BY <1>2, <1>3, <2>1
      <3>2. p = Filled
        BY <1>2, <3>1, BlocksOrdered
      <3>3. Top = Filled + 1
        BY <1>1, <2>1 DEF Top
      <3> QED
        BY <1>2, <3>2, <3>3
    <2>2. CASE Cell(t) # 0
      <3>1. Top = Filled
        BY <1>1, <1>2, <2>2 DEF Top
      <3>2. BlockSize * p < BlockSize * Filled /\ BlockSize * Filled < BlockSize * (p + 1) + BlockSize
        <4>1. BlockSize * (p + 1) = BlockSize * p + BlockSize
          BY BlocksOrdered
        <4>2. PICK x \in Nat, y \in Nat, n \in Nat : x = BlockSize * p /\ y = BlockSize * Filled /\ n = BlockSize
          BY <1>2, <1>3
        <4>3. x <= t /\ t <= y /\ t # y /\ y < t + n /\ t < x + n
          BY <1>2, <1>3, <2>2, <4>2
        <4>4. x < y /\ y < (x + n) + n
          BY <1>2, <4>2, <4>3
        <4> QED
          BY <4>1, <4>2, <4>4
      <3>3. p < Filled
        BY <1>2, <3>2, BlocksOrdered
      <3>4. BlockSize * ((p + 1) + 1) = BlockSize * (p + 1) + BlockSize
        BY BlocksOrdered
      <3>5. Filled < (p + 1) + 1
        <4>1. (p + 1) + 1 \in Int /\ Filled \in Int /\ BlockSize * Filled < BlockSize * ((p + 1) + 1)
          BY <1>2, <3>2, <3>4
        <4> QED
          BY <4>1, BlocksOrdered
      <3> QED
        BY <1>2, <3>1, <3>3, <3>5
    <2> QED
      BY <2>1, <2>2
  <1>5. Place(p) \in Linked /\ key[Place(p)] = BlockSize * p /\ Needed(p)
    BY <1>1, <1>2, <1>3, <1>4, FillingPlace
  <1>6. tailBlock = value[Place(p)]
    <2>1. TailRight
      BY <1>1, RingNow DEF IndexRight
    <2>2. Top > 0
      BY <1>2, <1>4
    <2> QED
      BY <1>4, <1>5, <2>1, <2>2 DEF TailRight
  <1>7. tailBlock \in Blocks /\ elements \in [Blocks -> [Cells -> Nat]]
    BY <1>5, <1>6 DEF Linked, BulkGood, BulkTypeOK, TypeOK
  <1>8. \A b \in Blocks, k \in Cells :
           elements'[b][k] = IF b = tailBlock /\ k = j THEN t + 1 ELSE elements[b][k]
    BY <1>1, <1>3, <1>7
  <1>9. Written = t /\ Written' = t + 1
    <2>1. Written = t
      BY <1>1, WrittenBounds
    <2>2. Written' = t + 1
      BY <1>1 DEF Written
    <2> QED
      BY <2>1, <2>2
  <1>10. \A i \in t .. t + 1 - 1 : i = t
    BY <1>2
  <1>11. t \in t .. t + 1 - 1
    BY <1>2
  <1>12. SlotAt(t) \in Linked /\ key[SlotAt(t)] = Base(t) /\ value[SlotAt(t)] = tailBlock
    BY <1>3, <1>5, <1>6
  <1> QED
    BY <1>1, <1>3, <1>7, <1>8, <1>9, <1>10, <1>11, <1>12 DEF WritesTo

\* Every element of a batch has a cell in a block of the chain, or in the tail block.
LEMMA BatchPlace ==
    ASSUME BulkGood, BulkWrite, NEW i \in tailIndex .. tailIndex + batch.count - 1
    PROVE  /\ SlotAt(i) \in Linked /\ key[SlotAt(i)] = Base(i) /\ BatchBlock(i) = value[SlotAt(i)]
           /\ i \in Nat /\ Cell(i) \in Cells
  <1>1. ppc = "write" /\ batch # NoBatch
    BY DEF BulkWrite
  <1>2. /\ tailIndex \in Nat /\ Filled \in Nat /\ batch.count \in Nat /\ BlockSize \in Nat
        /\ Len(batch.chain) \in Nat /\ Top \in Nat /\ batch.chain \in Seq(Blocks)
    BY Numbers DEF BulkGood
  <1>3. PICK l \in Nat, f \in Nat : l = Len(batch.chain) /\ f = Filled /\ Top = f + l
    BY <1>1, <1>2, RingNow
  <1>4. \A k \in Nat : ChainBase(k) = BlockSize * (f - 1 + k)
    BY <1>1, <1>3, NextBaseIs
  <1>5. i \in Nat /\ tailIndex <= i /\ i <= tailIndex + batch.count - 1
    BY <1>2
  <1>6. PICK p \in Nat :
              /\ Base(i) = BlockSize * p /\ SlotAt(i) = Place(p) /\ BlockSize * p \in Nat
              /\ BlockSize * p <= i
              /\ i < BlockSize * p + BlockSize /\ i = BlockSize * p + Cell(i) /\ Cell(i) \in Cells
    BY <1>5, BlockOf
  <1>7. p <= Top - 1
    <2>1. PICK z \in Nat : z = tailIndex + batch.count - 1 /\ i <= z
      BY <1>2, <1>5
    <2>2. PICK q \in Nat : /\ Base(z) = BlockSize * q /\ BlockSize * q \in Nat
                           /\ z < BlockSize * q + BlockSize
      BY BlockOf
    <2>3. LastBase(batch.count) = BlockSize * q
      BY <2>1, <2>2 DEF LastBase
    <2>4. ChainBase(l) = LastBase(batch.count)
      BY <1>1, <1>3, RingNow DEF BatchRight
    <2>5. BlockSize * q = BlockSize * (f - 1 + l)
      BY <1>4, <2>3, <2>4
    <2>6. q \in Int /\ f - 1 + l \in Int
      OBVIOUS
    <2>7. q = f - 1 + l
      BY <2>5, <2>6, BlocksOrdered
    <2>8. BlockSize * p < BlockSize * (q + 1)
      <3>1. BlockSize * (q + 1) = BlockSize * q + BlockSize
        BY BlocksOrdered
      <3>2. PICK x \in Nat, y \in Nat, n \in Nat : x = BlockSize * p /\ y = BlockSize * q /\ n = BlockSize
        BY <1>2, <1>6, <2>2
      <3>3. x < y + n
        BY <1>5, <1>6, <2>1, <2>2, <3>2
      <3> QED
        BY <3>1, <3>2, <3>3
    <2>9. p < q + 1
      <3>1. p \in Int /\ q + 1 \in Int
        OBVIOUS
      <3> QED
        BY <2>8, <3>1, BlocksOrdered
    <2> QED
      BY <1>3, <2>7, <2>9
  <1>8. /\ f - 1 <= p /\ Needed(p) /\ Place(p) \in Linked /\ key[Place(p)] = BlockSize * p
    BY <1>1, <1>3, <1>5, <1>6, <1>7, FillingPlace
  <1>9. IndexRight /\ batch.undone = 0
    BY <1>1, RingNow, TopAndUndone
  <1>10. ChainBase(0) = BlockSize * (f - 1)
    <2>1. f - 1 + 0 = f - 1
      OBVIOUS
    <2> QED
      BY <1>4, <2>1
  <1>11. BatchBlock(i) = value[Place(p)]
    <2>1. CASE p = f - 1
      <3>1. BatchBlock(i) = batch.start
        BY <1>6, <1>10, <2>1 DEF BatchBlock
      <3>2. Filled > 0 /\ Needed(Filled - 1)
        BY <1>3, <1>8, <2>1
      <3>3. batch.start = value[Place(Filled - 1)]
        BY <1>1, <1>9, <3>2 DEF IndexRight, TailRight
      <3> QED
        BY <1>3, <2>1, <3>1, <3>3
    <2>2. CASE p # f - 1
      <3>1. PICK k \in Nat : k = p - f + 1 /\ k > 0 /\ k <= l /\ f + k - 1 = p /\ p - (f - 1) = k
        BY <1>3, <1>7, <1>8, <2>2
      <3>2. p \in Int /\ f - 1 \in Int
        OBVIOUS
      <3>3. BlockSize * p # BlockSize * (f - 1)
        BY <2>2, <3>2, BlocksOrdered
      <3>4. BlockSize * p - BlockSize * (f - 1) = BlockSize * k
        BY <1>2, <3>1
      <3>5. (BlockSize * k) \div BlockSize = k
        BY BasesAreKeys
      <3>6. BatchBlock(i) = batch.chain[k]
        BY <1>6, <1>10, <3>3, <3>4, <3>5 DEF BatchBlock
      <3>7. k \in batch.undone + 1 .. Len(batch.chain)
        BY <1>3, <1>9, <3>1
      <3>8. value[Place(Filled + k - 1)] = batch.chain[k]
        BY <1>9, <3>7 DEF IndexRight, ChainInPlace
      <3> QED
        BY <1>3, <3>1, <3>6, <3>8
    <2> QED
      BY <2>1, <2>2
  <1> QED
    BY <1>5, <1>6, <1>8, <1>11

LEMMA BatchWrites ==
    ASSUME BulkGood, BulkWrite
    PROVE  WritesTo(tailIndex + batch.count)
  <1> DEFINE new == tailIndex .. tailIndex + batch.count - 1
             here(b, j) == {i \in new : BatchBlock(i) = b /\ Cell(i) = j}
  <1>1. /\ ppc = "write" /\ ppc' = "commit" /\ Unseen /\ UNCHANGED <<tailIndex, key, value, batch>>
        /\ batch # NoBatch
    BY DEF BulkWrite, Unseen, counters, blockIndex, places, consumer
  <1>2. \A b \in Blocks, j \in Cells :
           elements'[b][j] = IF here(b, j) = {} THEN elements[b][j]
                             ELSE (CHOOSE i \in here(b, j) : TRUE) + 1
    BY DEF BulkWrite
  <1> HIDE DEF here
  <1>3. \A i \in new : /\ SlotAt(i) \in Linked /\ key[SlotAt(i)] = Base(i)
                       /\ BatchBlock(i) = value[SlotAt(i)] /\ i \in Nat /\ Cell(i) \in Cells
    BY BatchPlace
  <1>4. tailIndex \in Nat /\ batch.count \in Nat
    BY Numbers DEF BulkGood
  <1>5. Written = tailIndex /\ Written' = tailIndex + batch.count
    <2>1. Written = tailIndex
      BY <1>1, WrittenBounds
    <2>2. Written' = tailIndex' + batch'.count
      BY <1>1 DEF Written, NoBatch
    <2> QED
      BY <1>1, <2>1, <2>2
  <1>6. ASSUME NEW i \in new
        PROVE  elements'[value[SlotAt(i)]][Cell(i)] = i + 1
    <2> DEFINE b == value[SlotAt(i)]
               j == Cell(i)
    <2>1. b \in Blocks /\ j \in Cells /\ i \in here(b, j)
      BY <1>3 DEF Linked, here
    <2>2. ASSUME NEW k \in here(b, j) PROVE k = i
      <3>1. /\ k \in new /\ BatchBlock(k) = b /\ Cell(k) = j
        BY DEF here
      <3>2. /\ SlotAt(k) \in Linked /\ key[SlotAt(k)] = Base(k) /\ value[SlotAt(k)] = b
            /\ SlotAt(i) \in Linked /\ key[SlotAt(i)] = Base(i) /\ k \in Nat /\ i \in Nat
        BY <1>3, <3>1
      <3>3. k = key[SlotAt(i)] + j
        BY <2>1, <3>1, <3>2, NewCell
      <3>4. i = key[SlotAt(i)] + j
        BY <2>1, <3>2, NewCell
      <3> QED
        BY <3>3, <3>4
    <2>3. (CHOOSE k \in here(b, j) : TRUE) = i
      BY <2>1, <2>2
    <2>4. elements'[b][j] = (CHOOSE k \in here(b, j) : TRUE) + 1
      BY <1>2, <2>1
    <2> QED
      BY <2>3, <2>4
  <1>7. ASSUME NEW b \in Blocks, NEW j \in Cells
        PROVE  \/ elements'[b][j] = elements[b][j]
               \/ \E i \in new : value[SlotAt(i)] = b /\ Cell(i) = j
    <2>1. CASE here(b, j) = {}
      BY <1>2, <2>1
    <2>2. CASE here(b, j) # {}
      <3>1. PICK i \in here(b, j) : TRUE
        BY <2>2
      <3>2. i \in new /\ BatchBlock(i) = b /\ Cell(i) = j
        BY <3>1 DEF here
      <3>3. value[SlotAt(i)] = b
        BY <1>3, <3>2
      <3> QED
        BY <3>2, <3>3
    <2> QED
      BY <2>1, <2>2
  <1> DEFINE w == tailIndex + batch.count
  <1>8. new = tailIndex .. w - 1 /\ Written' = w
    BY <1>4, <1>5
  <1> HIDE DEF new, w
  <1>9. WritesTo(w)
    <2>1. \A i \in new : /\ SlotAt(i) \in Linked /\ key[SlotAt(i)] = Base(i)
                         /\ elements'[value[SlotAt(i)]][Cell(i)] = i + 1
      BY <1>3, <1>6
    <2>2. \A b \in Blocks, j \in Cells :
             \/ elements'[b][j] = elements[b][j]
             \/ \E i \in new : value[SlotAt(i)] = b /\ Cell(i) = j
      BY <1>7
    <2> QED
      BY <1>1, <1>5, <1>8, <2>1, <2>2 DEF WritesTo
  <1> QED
    BY <1>9 DEF w

\* With every call returned, a waiting element is in the cell that is looked up for it.
LEMMA WaitingPlace ==
    ASSUME BulkGood, AllReturned, NEW i \in Waiting
    PROVE  /\ i \in Nat /\ headIndex <= i /\ i < tailIndex /\ Cell(i) \in Cells
           /\ BlockAt(i) = value[SlotAt(i)] /\ i = key[SlotAt(i)] + Cell(i)
           /\ SlotAt(i) \in Linked /\ key[SlotAt(i)] = Base(i)
  <1>1. ppc = "idle" /\ IndexRight
    BY DEF AllReturned, BulkGood, BulkLayoutInv
  <1>2. /\ headIndex \in Nat /\ tailIndex \in Nat /\ tailIndex <= BlockSize * Filled
        /\ BlockSize * Filled \in Nat
    BY Numbers DEF BulkGood
  <1>3. i \in Nat /\ headIndex <= i /\ i < tailIndex /\ tailIndex > 0
    BY <1>2 DEF Waiting
  <1>4. NotEmptied(i) /\ i < BlockSize * Filled
    BY <1>2, <1>3 DEF NotEmptied
  <1>5. BlockAt(i) = value[SlotAt(i)]
    BY <1>1, <1>3, BulkTailHasKey, FoundInPlace DEF BlockAt
  <1> QED
    BY <1>1, <1>3, <1>4, <1>5, NeededBlock

LEMMA StoredWaits ==
    ASSUME BulkGood, AllReturned, NEW i \in Nat
    PROVE  BulkStored(i) <=> i \in Waiting
  <1>1. \A c \in Consumers : ToMove(c) = {}
    BY DEF AllReturned, ToMove, Unemptied, InHand
  <1>2. Written = tailIndex /\ tailIndex \in Nat /\ headIndex \in Nat
    BY WrittenBounds, Numbers DEF AllReturned, BulkGood
  <1> QED
    BY <1>1, <1>2 DEF BulkStored, Waiting

\* The destructor empties the cells that are not empty.
LEMMA DoomedIsStored ==
    ASSUME BulkGood, CellsRight, AllReturned
    PROVE  Doomed = {p \in Blocks \X Cells : elements[p[1]][p[2]] # NoMessage}
  <1>1. ASSUME NEW i \in Waiting
        PROVE  /\ BlockAt(i) \in Blocks /\ Cell(i) \in Cells
               /\ elements[BlockAt(i)][Cell(i)] # NoMessage
    <2>1. /\ i \in Nat /\ Cell(i) \in Cells /\ BlockAt(i) = value[SlotAt(i)]
          /\ i = key[SlotAt(i)] + Cell(i) /\ SlotAt(i) \in Linked
      BY WaitingPlace
    <2>2. BulkStored(i)
      BY <2>1, StoredWaits
    <2>3. elements[BlockAt(i)][Cell(i)] = i + 1
      BY <2>1, <2>2 DEF CellsRight
    <2> QED
      BY <2>1, <2>3 DEF Linked, NoMessage
  <1>2. ASSUME NEW b \in Blocks, NEW j \in Cells, elements[b][j] # NoMessage
        PROVE  \E i \in Waiting : BlockAt(i) = b /\ Cell(i) = j
    <2>1. b \in InRing
      BY <1>2 DEF CellsRight
    <2>2. PICK s \in Linked : b = value[s]
      BY <2>1 DEF InRing
    <2>3. BulkStored(key[s] + j)
      BY <1>2, <2>2 DEF CellsRight
    <2>4. PICK i \in Nat : i = key[s] + j /\ Cell(i) = j /\ SlotAt(i) = s
      BY IndexOfCell
    <2>5. i \in Waiting
      BY <2>3, <2>4, StoredWaits
    <2> QED
      BY <2>2, <2>4, <2>5, WaitingPlace
  <1>3. ASSUME NEW p \in Doomed
        PROVE  p \in Blocks \X Cells /\ elements[p[1]][p[2]] # NoMessage
    <2>1. PICK i \in Waiting : p = <<BlockAt(i), Cell(i)>>
      BY DEF Doomed
    <2> QED
      BY <1>1, <2>1
  <1>4. ASSUME NEW p \in Blocks \X Cells, elements[p[1]][p[2]] # NoMessage
        PROVE  p \in Doomed
    <2>1. PICK i \in Waiting : BlockAt(i) = p[1] /\ Cell(i) = p[2]
      BY <1>2, <1>4
    <2>2. p = <<BlockAt(i), Cell(i)>>
      BY <2>1
    <2> QED
      BY <2>2 DEF Doomed
  <1> QED
    BY <1>3, <1>4

\* The tail block is freed once.
LEMMA FreedOnce ==
    ASSUME BulkGood, AllReturned
    PROVE  FreedByLoop \cap FreedAfterLoop = {}
  <1> SUFFICES ASSUME NEW x \in FreedByLoop, x \in FreedAfterLoop PROVE FALSE
    OBVIOUS
  <1>1. PICK i \in Waiting : x = BlockAt(i) /\ Base(i) < Base(tailIndex - 1)
    BY DEF FreedByLoop
  <1>2. x = tailBlock
    BY DEF FreedAfterLoop
  <1>3. /\ headIndex \in Nat /\ tailIndex \in Nat /\ Filled \in Nat /\ BlockSize \in Nat
        /\ BlockSize * Filled \in Nat /\ tailIndex <= BlockSize * Filled
        /\ Base(tailIndex - 1) = BlockSize * (Filled - 1)
    BY Numbers DEF BulkGood
  <1>4. ppc = "idle" /\ IndexRight /\ BatchRight
    BY DEF AllReturned, BulkGood, BulkLayoutInv
  <1>5. batch = NoBatch /\ Top = Filled
    <2>1. batch = NoBatch
      BY <1>4 DEF BatchRight
    <2>2. Top = Filled + 0
      BY <1>4, <2>1 DEF Top
    <2> QED
      BY <1>3, <2>1, <2>2
  <1>6. headIndex <= i /\ i < tailIndex /\ i \in Nat
    BY WaitingPlace
  <1>7. PICK k \in Nat : k = tailIndex - 1 /\ headIndex <= k /\ k < BlockSize * Filled
    BY <1>3, <1>6
  <1>8. NotEmptied(k)
    BY <1>3, <1>7 DEF NotEmptied
  <1>9. PICK p \in 0 .. Filled - 1 :
              /\ Base(k) = BlockSize * p /\ Needed(p) /\ key[Place(p)] = BlockSize * p
              /\ Place(p) \in Linked
    BY <1>4, <1>7, <1>8, NeededBlock
  <1>10. p = Filled - 1
    BY <1>3, <1>7, <1>9, BlocksOrdered
  <1>11. tailBlock = value[Place(p)]
    <2>1. Top > 0 /\ Top - 1 = p
      BY <1>3, <1>5, <1>9, <1>10
    <2> QED
      BY <1>4, <1>5, <1>9, <2>1 DEF IndexRight, TailRight
  <1>12. SlotAt(i) \in Linked /\ value[SlotAt(i)] = x /\ key[SlotAt(i)] = Base(i)
    BY <1>1, WaitingPlace
  <1>13. SlotAt(i) = Place(p)
    BY <1>2, <1>9, <1>11, <1>12, <1>4 DEF BulkGood, BulkLayoutInv, BulkPlacesRight
  <1>14. Base(i) = Base(tailIndex - 1)
    BY <1>7, <1>9, <1>12, <1>13
  <1> QED
    BY <1>1, <1>3, <1>14, BlocksOrdered

LEMMA DestructorIsRight ==
    ASSUME BulkGood, CellsRight
    PROVE  DestructorIsExact
  <1> SUFFICES ASSUME AllReturned
               PROVE  /\ Doomed = {p \in Blocks \X Cells : elements[p[1]][p[2]] # NoMessage}
                      /\ FreedByLoop \cap FreedAfterLoop = {}
                      /\ FreedByLoop \cup FreedAfterLoop = {value[s] : s \in Slots} \cap Blocks
    BY DEF DestructorIsExact
  <1>1. Doomed = {p \in Blocks \X Cells : elements[p[1]][p[2]] # NoMessage}
    BY DoomedIsStored
  <1>2. FreedByLoop \cup FreedAfterLoop = InRing
    BY DestructorFreesRing
  <1>3. InRing = {value[s] : s \in Slots} \cap Blocks
    BY DEF InRing, Linked
  <1> QED
    BY <1>1, <1>2, <1>3, FreedOnce

\* A message leaves its cell only by being taken out.
CellsKept ==
    \A b \in Blocks : \A j \in Cells :
        elements[b][j] # NoMessage => elements'[b][j] \in {elements[b][j], NoMessage}

\* Steps of the producer that write no element.
LEMMA QuietProducer ==
    ASSUME BulkGood, CellsRight, BulkProducer, ~(WriteElement /\ batch = NoBatch), ~BulkWrite
    PROVE  CellsRight' /\ Unseen /\ UNCHANGED elements
  <1>1. CASE batch = NoBatch /\ Producer /\ UNCHANGED <<batch, grab>>
    BY <1>1, CellsBetween, CellsBySlot, CellsByPublish DEF Producer
  <1>2. CASE batch # NoBatch /\ SharedEnqueueStep /\ UNCHANGED <<batch, grab>>
    <2>1. ~Commit
      BY <1>2 DEF SharedEnqueueStep, Commit, AdvanceIndex, Requisition, RequisitionFails,
                  RewindIndex, ResetEmpty
    <2> QED
      BY <1>2, <2>1, CellsBetween DEF SharedEnqueueStep
  <1>3. ASSUME NEW n \in BulkSizes, BulkStart(n)
        PROVE  CellsRight' /\ Unseen /\ UNCHANGED elements
    BY <1>3, CellsBetween
  <1>4. CASE BulkCheckRoom \/ BulkInsertRefused \/ UndoTail \/ UndoBlocks \/ BulkCommit
    BY <1>4, CellsBetween
  <1>5. CASE BulkInsertKey \/ BulkClearEntry
    BY <1>5, CellsBySlot
  <1>6. CASE BulkPublish
    BY <1>6, CellsByPublish
  <1>7. CASE UndoEntry
    BY <1>7, CellsByUndo
  <1> QED
    BY <1>1, <1>2, <1>3, <1>4, <1>5, <1>6, <1>7 DEF BulkProducer

LEMMA ProducerKeepsElements ==
    ASSUME BulkGood, BulkElementsInv, BulkProducer
    PROVE  BulkElementsInv' /\ CellsKept
  <1>1. CellsRight /\ element \in [Consumers -> Nat] /\ \A c \in Consumers : MovedRight(c)
    BY DEF BulkElementsInv
  <1>2. CellsRight' /\ Unseen /\ CellsKept
    <2>0. tailIndex \in Nat /\ batch.count \in Nat /\ HeadNeverPassesTail
      BY Numbers DEF BulkGood
    <2>1. CASE WriteElement /\ batch = NoBatch
      <3>1. UNCHANGED <<batch, grab>>
        <4>1. ppc = "write"
          BY <2>1 DEF WriteElement
        <4> QED
          BY <2>1, <4>1 DEF BulkProducer, BulkStart, BulkCheckRoom, BulkInsertKey, BulkInsertRefused,
             BulkClearEntry, BulkPublish, UndoEntry, UndoTail, UndoBlocks, BulkWrite, BulkCommit
      <3>2. WritesTo(tailIndex + 1)
        BY <2>1, <3>1, ElementWrites
      <3>3. PICK w \in Nat : w = tailIndex + 1 /\ tailIndex <= w
        BY <2>0
      <3> QED
        BY <1>1, <2>0, <3>2, <3>3, CellsByWrite DEF CellsKept, WritesTo
    <2>2. CASE BulkWrite
      <3>1. WritesTo(tailIndex + batch.count)
        BY <2>2, BatchWrites
      <3>2. PICK w \in Nat : w = tailIndex + batch.count /\ tailIndex <= w
        BY <2>0
      <3> QED
        BY <1>1, <2>0, <3>1, <3>2, CellsByWrite DEF CellsKept, WritesTo
    <2>3. CASE ~(WriteElement /\ batch = NoBatch) /\ ~BulkWrite
      BY <1>1, <2>3, QuietProducer DEF CellsKept
    <2> QED
      BY <2>1, <2>2, <2>3
  <1>3. element' \in [Consumers -> Nat] /\ \A c \in Consumers : MovedRight(c)'
    BY <1>1, <1>2, UnseenHands
  <1> QED
    BY <1>2, <1>3 DEF BulkElementsInv

LEMMA ConsumerTakesOut ==
    ASSUME BulkGood, NEW c \in Consumers, BulkConsumer(c)
    PROVE  CellsKept
  <1>1. CASE ~Moves(c)
    BY <1>1, ElementsByMove DEF CellsKept
  <1>2. CASE Moves(c)
    BY <1>2, ElementsByMove DEF CellsKept
  <1> QED
    BY <1>1, <1>2

\* The destructor takes every element out, and blocks that come and go none.
LEMMA PoolKeepsElements ==
    ASSUME BulkGood, BulkElementsInv, PoolStep
    PROVE  BulkElementsInv' /\ CellsKept
  <1>1. CellsRight /\ element \in [Consumers -> Nat] /\ \A c \in Consumers : MovedRight(c)
    BY DEF BulkElementsInv
  <1>2. UNCHANGED <<pc, found, element, grab, batch, headIndex, tailIndex>>
    BY DEF PoolStep, Settle, OtherTakes, OtherReturns, Destroy, consumer, counters
  <1>3. NoMessage' = NoMessage /\ NoGrab' = NoGrab
    BY DEF NoMessage, NoGrab
  <1>4. element' \in [Consumers -> Nat] /\ \A c \in Consumers : MovedRight(c)'
    BY <1>1, <1>2, <1>3 DEF MovedRight
  <1>5. CASE Destroy
    <2>1. AllReturned
      BY <1>5 DEF Destroy
    <2>2. Linked' = {}
      BY <1>5, PointerAssumption DEF Destroy, Linked
    <2>3. ASSUME NEW b \in Blocks, NEW j \in Cells PROVE elements'[b][j] = NoMessage
      <3>1. elements'[b][j] = IF <<b, j>> \in Doomed THEN NoMessage ELSE elements[b][j]
        BY <1>5 DEF Destroy
      <3>2. <<b, j>> \in Doomed <=> elements[b][j] # NoMessage
        <4>1. Doomed = {p \in Blocks \X Cells : elements[p[1]][p[2]] # NoMessage}
          BY <1>1, <2>1, DoomedIsStored
        <4> QED
          BY <4>1
      <3> QED
        BY <3>1, <3>2
    <2>4. CellsRight'
      BY <2>2, <2>3, <1>3 DEF CellsRight, Cells
    <2> QED
      BY <1>4, <2>3, <2>4 DEF BulkElementsInv, CellsKept
  <1>6. ASSUME NEW b \in Blocks, Settle(b) \/ OtherTakes(b) \/ OtherReturns(b)
        PROVE  BulkElementsInv' /\ CellsKept
    <2>1. RingStill /\ elements' = elements
      BY <1>2, <1>6 DEF RingStill, Settle, OtherTakes, OtherReturns, contents, producer
    <2>2. UNCHANGED <<key, value, ppc>>
      BY <2>1 DEF RingStill, blockIndex
    <2>3. Linked' = Linked
      BY <2>2 DEF Linked
    <2>4. Written' = Written /\ NoBatch' = NoBatch
      BY <1>2, <2>2 DEF Written, NoBatch
    <2>5. \A c : ToMove(c)' = ToMove(c)
      BY <1>2, <1>3 DEF ToMove, Unemptied, InHand, Front, Until, MovedTo, ClaimedTo
    <2>6. \A i : BulkStored(i)' <=> BulkStored(i)
      BY <1>2, <2>4, <2>5 DEF BulkStored
    <2>7. CellsRight'
      BY <1>1, <2>1, <2>2, <2>3, <2>6, CellsFrame
    <2> QED
      BY <1>4, <2>1, <2>7 DEF BulkElementsInv, CellsKept
  <1> QED
    BY <1>5, <1>6 DEF PoolStep

LEMMA StepBulkElements ==
    ASSUME BulkGood, BulkElementsInv, [BulkNext]_bulkVars
    PROVE  BulkElementsInv' /\ CellsKept
  <1>1. HeadNeverPassesTail'
    BY StepBulk DEF BulkGood
  <1>2. ASSUME NEW c \in Consumers, BulkConsumer(c) PROVE BulkElementsInv' /\ CellsKept
    BY <1>1, <1>2, ConsumerKeepsElements, ConsumerTakesOut
  <1>3. CASE UNCHANGED bulkVars
    <2>1. /\ Unseen /\ Written' = Written /\ elements' = elements
          /\ UNCHANGED <<key, value>>
      BY <1>3 DEF bulkVars, vars, counters, blockIndex, contents, places, producer, consumer,
                  Unseen, Written, NoBatch
    <2>2. Linked' = Linked
      BY <2>1 DEF Linked
    <2>3. CellsRight'
      <3>1. CellsRight
        BY DEF BulkElementsInv
      <3> QED
        BY <2>1, <2>2, <3>1, QuietCells
    <2> QED
      BY <2>1, <2>3, UnseenHands DEF BulkElementsInv, CellsKept
  <1> QED
    BY <1>2, <1>3, ProducerKeepsElements, PoolKeepsElements DEF BulkNext

LEMMA InitBulkElements == ASSUME BulkInit PROVE BulkElementsInv
  <1>1. /\ elements = [b \in Blocks |-> [j \in Cells |-> NoMessage]]
        /\ \A s \in Slots : value[s] \in {Null, Garbage}
        /\ pc = [c \in Consumers |-> "idle"] /\ element = [c \in Consumers |-> NoMessage]
        /\ grab = [c \in Consumers |-> NoGrab]
    BY DEF BulkInit, Init
  <1>2. Linked = {}
    BY <1>1, PointerAssumption DEF Linked
  <1>3. CellsRight
    BY <1>1, <1>2 DEF CellsRight
  <1>4. element \in [Consumers -> Nat]
    BY <1>1 DEF NoMessage
  <1>5. \A c \in Consumers : MovedRight(c)
    BY <1>1 DEF MovedRight, NoGrab
  <1> QED
    BY <1>3, <1>4, <1>5 DEF BulkElementsInv

LEMMA BulkElements == BulkSpec => []BulkElementsInv
  <1>1. BulkInit => BulkElementsInv
    BY InitBulkElements
  <1>2. BulkGood /\ BulkElementsInv /\ [BulkNext]_bulkVars => BulkElementsInv'
    BY StepBulkElements
  <1> QED
    BY <1>1, <1>2, BulkCorrect, PTL DEF BulkSpec

\* With bulk calls too the destructor, whenever it may run, destroys exactly the
\* elements that were not dequeued, each in its cell, and frees each block that is
\* still in the index, once.
THEOREM BulkDestructorExact == BulkSpec => []DestructorIsExact
  <1>1. BulkGood /\ BulkElementsInv => DestructorIsExact
    BY DestructorIsRight DEF BulkElementsInv
  <1> QED
    BY <1>1, BulkCorrect, BulkElements, PTL

\* With bulk calls too no element is overwritten in its cell before it was moved out,
\* whatever block a batch reuses and whichever consumer is still inside it.
THEOREM BulkNeverOverwrites == BulkSpec => NeverOverwritten
  <1>1. BulkGood /\ BulkElementsInv /\ [BulkNext]_bulkVars
           => [\A b \in Blocks : \A i \in Cells :
                  elements[b][i] # NoMessage =>
                      elements'[b][i] \in {elements[b][i], NoMessage}]_vars
    BY StepBulkElements DEF CellsKept
  <1> QED
    BY <1>1, BulkCorrect, BulkElements, PTL DEF BulkSpec, NeverOverwritten

-----------------------------------------------------------------------------
(* The sub-queue with bulk calls as a bounded FIFO *)

\* The messages of n indices from a on.
Run(a, n) == [k \in 1 .. n |-> a + k]

LEMMA RunTake ==
    ASSUME NEW h \in Nat, NEW n \in Nat, NEW a \in Nat, a <= n
    PROVE  /\ SubSeq(Run(h, n), 1, a) = Run(h, a)
           /\ SubSeq(Run(h, n), a + 1, n) = Run(h + a, n - a)
           /\ Run(h, n) \in Seq(Nat) /\ Len(Run(h, n)) = n
           /\ a > 0 => Run(h, a) # <<>>
  <1>1. Run(h, n) \in Seq(Nat) /\ Len(Run(h, n)) = n
    BY DEF Run
  <1>2. SubSeq(Run(h, n), 1, a) = Run(h, a)
    <2>1. SubSeq(Run(h, n), 1, a) = [i \in 1 .. a |-> Run(h, n)[i]]
      BY <1>1
    <2>2. \A i \in 1 .. a : Run(h, n)[i] = h + i
      BY DEF Run
    <2> QED
      BY <2>1, <2>2 DEF Run
  <1>3. SubSeq(Run(h, n), a + 1, n) = Run(h + a, n - a)
    <2>1. SubSeq(Run(h, n), a + 1, n) = [i \in 1 .. n - a |-> Run(h, n)[i + a]]
      BY <1>1
    <2>2. \A i \in 1 .. n - a : Run(h, n)[i + a] = (h + a) + i
      BY DEF Run
    <2> QED
      BY <2>1, <2>2 DEF Run
  <1>4. ASSUME a > 0 PROVE Run(h, a) # <<>>
    <2>1. 1 \in DOMAIN Run(h, a)
      BY <1>4 DEF Run
    <2> QED
      BY <2>1
  <1> QED
    BY <1>1, <1>2, <1>3, <1>4

\* One run and the next.
LEMMA RunsJoin ==
    ASSUME NEW a \in Nat, NEW n \in Nat, NEW l \in Nat
    PROVE  Run(a, n) \o Run(a + n, l) = Run(a, n + l)
  <1> DEFINE s == Run(a, n)
             t == Run(a + n, l)
  <1>1. /\ s \in Seq(Nat) /\ Len(s) = n /\ \A k \in 1 .. n : s[k] = a + k
        /\ t \in Seq(Nat) /\ Len(t) = l /\ \A k \in 1 .. l : t[k] = a + n + k
    BY DEF Run
  <1> HIDE DEF s, t
  <1>2. /\ s \o t \in Seq(Nat) /\ Len(s \o t) = n + l
        /\ \A k \in 1 .. n : (s \o t)[k] = s[k]
        /\ \A k \in 1 .. n + l : ~(k <= n) => (s \o t)[k] = t[k - n]
    <2>1. s \o t \in Seq(Nat) /\ Len(s \o t) = n + l
      <3>1. s \in Seq(Nat) /\ t \in [1 .. l -> Nat] /\ Len(s) = n
        BY <1>1
      <3>2. s \o t \in Seq(Nat) /\ Len(s \o t) = Len(s) + l
        BY <3>1, Concatenation
      <3> QED
        BY <3>1, <3>2
    <2>2. ASSUME NEW k \in 1 .. n PROVE (s \o t)[k] = s[k]
      BY <1>1
    <2>3. ASSUME NEW k \in 1 .. n + l, ~(k <= n) PROVE (s \o t)[k] = t[k - n]
      BY <1>1, <2>3
    <2> QED
      BY <2>1, <2>2, <2>3
  <1>3. ASSUME NEW k \in 1 .. n + l
        PROVE  (s \o t)[k] = a + k
    <2>1. CASE k <= n
      <3>1. k \in 1 .. n
        BY <2>1
      <3> QED
        BY <1>1, <1>2, <3>1
    <2>2. CASE ~(k <= n)
      <3>1. k - n \in 1 .. l /\ a + n + (k - n) = a + k
        BY <2>2
      <3> QED
        BY <1>1, <1>2, <2>2, <3>1
    <2> QED
      BY <2>1, <2>2
  <1>4. s \o t = [k \in 1 .. n + l |-> a + k]
    <2>1. PICK u : u = s \o t
      OBVIOUS
    <2>2. u \in Seq(Nat) /\ Len(u) = n + l
      BY <1>2, <2>1
    <2>3. u = [k \in 1 .. n + l |-> u[k]]
      BY <2>2
    <2>4. \A k \in 1 .. n + l : u[k] = a + k
      BY <1>3, <2>1
    <2> QED
      BY <2>1, <2>3, <2>4
  <1> QED
    BY <1>4 DEF s, t, Run

\* The first index that a call claimed.
First(c) == IF grab[c] = NoGrab THEN found[c].index ELSE grab[c].first

LEMMA SingleHolds ==
    ASSUME BulkGood, NEW c \in Consumers, MovedRight(c), HasClaimed(c), grab[c] = NoGrab
    PROVE  /\ First(c) \in Nat /\ First(c) < Until(c) /\ Until(c) \in Nat
           /\ BulkHolds(c) = Run(First(c), Until(c) - First(c))
  <1>1. found[c].index \in Nat
    BY ClaimFacts
  <1>2. PICK i \in Nat : i = found[c].index
    BY <1>1
  <1>3. First(c) = i /\ Until(c) = i + 1 /\ Until(c) - First(c) = 1
    BY <1>2 DEF First, Until
  <1>4. Holds(c) = <<i + 1>>
    <2>1. CASE pc[c] \in {"slot", "key", "value", "move"}
      <3>1. element[c] = NoMessage
        BY <2>1 DEF MovedRight
      <3>2. Holds(c) = <<found[c].index + 1>>
        BY <2>1, <3>1 DEF Holds
      <3> QED
        BY <1>2, <3>2
    <2>2. CASE pc[c] \in {"empty", "unlink", "free"}
      <3>1. element[c] = i + 1 /\ element[c] # NoMessage
        BY <1>2, <2>2 DEF MovedRight, NoMessage
      <3> QED
        BY <2>2, <3>1 DEF Holds
    <2> QED
      BY <2>1, <2>2 DEF HasClaimed
  <1>5. Run(i, 1) = <<i + 1>>
    <2>1. <<i + 1>> = [k \in 1 .. 1 |-> i + 1]
      OBVIOUS
    <2>2. \A k \in 1 .. 1 : i + k = i + 1
      OBVIOUS
    <2> QED
      BY <2>1, <2>2 DEF Run
  <1> QED
    BY <1>3, <1>4, <1>5 DEF BulkHolds

LEMMA GrabHolds ==
    ASSUME BulkGood, NEW c \in Consumers, MovedRight(c), HasClaimed(c), grab[c] # NoGrab
    PROVE  /\ First(c) \in Nat /\ First(c) < Until(c) /\ Until(c) \in Nat
           /\ BulkHolds(c) = Run(First(c), Until(c) - First(c))
  <1>1. /\ grab \in [Consumers -> GrabType] /\ BulkClaimRight(c) /\ GrabRight(c)
        /\ grab[c].out \in Seq(Nat) /\ found[c].index \in Nat /\ Base(found[c].index) \in Nat
    BY ClaimFacts
  <1>2. PICK f \in Nat, n \in Nat, m \in Nat :
              f = grab[c].first /\ n = Len(grab[c].out) /\ m = grab[c].actual
    BY <1>1 DEF GrabType
  <1>3. m > 0
    BY <1>1, <1>2 DEF GrabRight, HasClaimed
  <1>4. First(c) = f /\ Until(c) = f + m /\ MovedTo(c) = f + n /\ ClaimedTo(c) = f + m
    BY <1>2 DEF First, Until, MovedTo, ClaimedTo
  <1>5. f + n <= f + m
    <2>1. CASE pc[c] \in {"slot", "key", "value", "move"}
      <3>1. MovedTo(c) = found[c].index /\ found[c].index < Until(c)
        BY <1>1, <2>1 DEF BulkClaimRight, HasClaimed
      <3> QED
        BY <1>1, <1>4, <3>1
    <2>2. CASE pc[c] \in {"empty", "unlink", "free"}
      <3>1. MovedTo(c) = Min2(Base(found[c].index) + BlockSize, Until(c))
        BY <1>1, <2>2 DEF BulkClaimRight, Front
      <3>2. \A x \in Int, y \in Int : Min2(x, y) <= y
        BY DEF Min2
      <3>3. Base(found[c].index) + BlockSize \in Int /\ Until(c) \in Int
        BY <1>1, <1>4, SizeAssumption
      <3> QED
        BY <1>4, <3>1, <3>2, <3>3
    <2> QED
      BY <2>1, <2>2 DEF HasClaimed
  <1>6. PICK l \in Nat : l = (f + m) - (f + n) /\ n + l = m /\ m = (f + m) - f
    BY <1>5
  <1>7. grab[c].out = Run(f, n)
    <2>0. PICK o \in Seq(Nat) : o = grab[c].out
      BY <1>1
    <2>1. \A k \in DOMAIN o : o[k] = f + k
      BY <1>2, <2>0 DEF MovedRight
    <2>2. DOMAIN o = 1 .. n /\ o = [k \in 1 .. n |-> o[k]]
      BY <1>2, <2>0
    <2> QED
      BY <2>0, <2>1, <2>2 DEF Run
  <1>8. BulkHolds(c) = Run(f, n) \o Run(f + n, l)
    <2>1. BulkHolds(c) =
             grab[c].out \o [k \in 1 .. ClaimedTo(c) - MovedTo(c) |-> MovedTo(c) + k]
      BY DEF BulkHolds
    <2>2. ClaimedTo(c) - MovedTo(c) = l /\ MovedTo(c) = f + n
      BY <1>4, <1>6
    <2> QED
      BY <1>7, <2>1, <2>2 DEF Run
  <1>9. BulkHolds(c) = Run(f, m)
    <2>1. Run(f, n) \o Run(f + n, l) = Run(f, n + l)
      BY RunsJoin
    <2> QED
      BY <1>6, <1>8, <2>1
  <1> QED
    BY <1>3, <1>4, <1>6, <1>9

\* From its claim to its return a consumer holds the messages of its indices.
BulkHeldRight ==
    \A c \in Consumers : HasClaimed(c) =>
        /\ First(c) \in Nat /\ First(c) < Until(c) /\ Until(c) \in Nat
        /\ BulkHolds(c) = Run(First(c), Until(c) - First(c))

LEMMA BulkHeld == BulkGood /\ BulkElementsInv => BulkHeldRight
  BY SingleHolds, GrabHolds DEF BulkElementsInv, BulkHeldRight

BulkHand == [c \in Consumers |-> IF HasClaimed(c) THEN BulkHolds(c) ELSE <<>>]

LEMMA FirstByClaim ==
    ASSUME BulkGood, NEW c \in Consumers, BulkConsumer(c), Claims(c)
    PROVE  First(c)' = headIndex
  <1>0. /\ pc \in [Consumers -> ConsumerSteps] /\ found \in [Consumers -> FoundType]
        /\ grab \in [Consumers -> GrabType] /\ pc[c] = "claim"
    BY ClaimFacts DEF Claims
  <1>1. found'[c].index = headIndex
    BY DEF Claims
  <1>2. NoGrab' = NoGrab
    BY DEF NoGrab
  <1>3. CASE BulkClaim(c)
    <2>1. grab' = [grab EXCEPT ![c].first = headIndex]
      BY <1>3 DEF BulkClaim
    <2>2. grab'[c].first = headIndex
      BY <1>0, <2>1 DEF GrabType
    <2> QED
      BY <1>1, <1>2, <2>2 DEF First
  <1>4. CASE ~BulkClaim(c)
    <2>1. grab[c] = NoGrab /\ UNCHANGED grab
      BY <1>0, <1>4 DEF BulkConsumer, SharedDequeueStep, LoadOvercommit, LoadIndexTail, LookUpSlot,
         LoadBlock, UnlinkBlock, BulkLoadTail, LoadTail, BulkCheckAvailable, TakeTickets, BulkRecheck,
         BulkGiveUp, MoveElements, SetManyEmpty, BulkFreeBlock, Onward, Goto
    <2> QED
      BY <1>1, <1>2, <2>1 DEF First
  <1> QED
    BY <1>3, <1>4

LEMMA FirstByMove ==
    ASSUME BulkGood, NEW c \in Consumers, BulkConsumer(c), Moves(c)
    PROVE  First(c)' = First(c)
  <1>0. pc \in [Consumers -> ConsumerSteps] /\ pc[c] = "move" /\ found'[c] = found[c]
    BY ClaimFacts DEF Moves
  <1>2. NoGrab' = NoGrab
    BY DEF NoGrab
  <1>3. CASE MoveElements(c)
    <2>1. grab[c] # NoGrab /\ grab'[c] # NoGrab /\ grab'[c].first = grab[c].first
      BY <1>3, MovedOut
    <2> QED
      BY <1>2, <2>1 DEF First
  <1>4. CASE ~MoveElements(c)
    <2>1. grab[c] = NoGrab /\ UNCHANGED grab
      BY <1>0, <1>4 DEF BulkConsumer, SharedDequeueStep, LoadOvercommit, LoadIndexTail, LookUpSlot,
         LoadBlock, UnlinkBlock, BulkLoadTail, LoadTail, BulkCheckAvailable, TakeTickets, BulkRecheck,
         BulkGiveUp, BulkClaim, SetManyEmpty, BulkFreeBlock, Onward, Goto
    <2> QED
      BY <1>0, <1>2, <2>1 DEF First
  <1> QED
    BY <1>3, <1>4

\* Between its claim and its return a call claims nothing else.
LEMMA ClaimKept ==
    ASSUME BulkGood, NEW c \in Consumers, BulkConsumer(c), HasClaimed(c), HasClaimed(c)'
    PROVE  First(c)' = First(c) /\ Until(c)' = Until(c)
  <1>1. CASE Moves(c)
    BY <1>1, FirstByMove DEF Moves
  <1>2. CASE LooksForBlock(c) \/ Unlinks(c)
    <2>1. grab'[c] = grab[c] /\ found'[c].index = found[c].index
      BY <1>2 DEF LooksForBlock, Unlinks
    <2> QED
      BY <2>1 DEF First, Until, ClaimedTo, NoGrab
  <1>3. CASE Empties(c) \/ Frees(c)
    <2>1. /\ grab'[c] = grab[c]
          /\ grab[c] # NoGrab \/ found'[c].index = found[c].index
      BY <1>3 DEF Empties, Frees, Leaves, HasClaimed
    <2> QED
      BY <2>1 DEF First, Until, ClaimedTo, NoGrab
  <1>4. ~Quietly(c) /\ ~Claims(c)
    BY DEF Quietly, Early, Claims, HasClaimed
  <1> QED
    BY <1>1, <1>2, <1>3, <1>4, StepKinds

LEMMA BulkHandSame ==
    ASSUME \A c \in Consumers : /\ HasClaimed(c)' <=> HasClaimed(c)
                                /\ HasClaimed(c) => BulkHolds(c)' = BulkHolds(c)
    PROVE  BulkHand' = BulkHand
  BY DEF BulkHand

\* Everything else is internal to the sub-queue.
LEMMA BulkFifoSame ==
    ASSUME UNCHANGED <<tailIndex, headIndex>>, BulkHand' = BulkHand
    PROVE  UNCHANGED AsBulkFifo!vars
  BY DEF AsBulkFifo!vars, BulkHand

LEMMA HandStays ==
    ASSUME UNCHANGED <<consumer, grab>>
    PROVE  BulkHand' = BulkHand
  <1>1. \A c \in Consumers : HasClaimed(c)' <=> HasClaimed(c)
    BY DEF HasClaimed, consumer
  <1>2. \A c \in Consumers : BulkHolds(c)' = BulkHolds(c)
    BY DEF BulkHolds, Holds, MovedTo, ClaimedTo, consumer, NoGrab, NoMessage
  <1> QED
    BY <1>1, <1>2, BulkHandSame

\* What a consumer holds as long as it has the same claim.
LEMMA HoldsSame ==
    ASSUME BulkHeldRight, BulkHeldRight', NEW c \in Consumers, HasClaimed(c), HasClaimed(c)',
           First(c)' = First(c), Until(c)' = Until(c)
    PROVE  BulkHolds(c)' = BulkHolds(c)
  <1>1. BulkHolds(c) = Run(First(c), Until(c) - First(c))
    BY DEF BulkHeldRight
  <1>2. BulkHolds(c)' = Run(First(c)', Until(c)' - First(c)')
    BY DEF BulkHeldRight, Run
  <1> QED
    BY <1>1, <1>2

LEMMA HandOfOthersStays ==
    ASSUME BulkGood, BulkHeldRight, BulkHeldRight', NEW c \in Consumers,
           BulkConsumer(c), NEW d \in Consumers \ {c}
    PROVE  /\ HasClaimed(d)' <=> HasClaimed(d)
           /\ HasClaimed(d) => BulkHolds(d)' = BulkHolds(d)
  <1>1. /\ Until(d)' = Until(d) /\ pc'[d] = pc[d] /\ found'[d] = found[d] /\ grab'[d] = grab[d]
    BY UnemptiedByOthers
  <1>2. First(d)' = First(d) /\ (HasClaimed(d)' <=> HasClaimed(d))
    BY <1>1 DEF First, HasClaimed, NoGrab
  <1> QED
    BY <1>1, <1>2, HoldsSame

\* Committed elements are accepted, and there was room for them.
LEMMA BulkCommitPuts ==
    ASSUME BulkGood, BulkTypeOK', SubqueueBound', NEW k \in Nat, k > 0,
           tailIndex' = tailIndex + k, headIndex' = headIndex, BulkHand' = BulkHand
    PROVE  AsBulkFifo!Next
  <1>1. PICK h \in Nat, t \in Nat, m \in Nat :
              h = headIndex /\ t = tailIndex /\ m = MaxSubqueue /\ h <= t
    BY Numbers, SizeAssumption DEF BulkGood, HeadNeverPassesTail
  <1>2. PICK n \in Nat : n = t - h /\ h + n = t
    BY <1>1
  <1>3. tailIndex' - headIndex' = n + k /\ n + k <= m
    <2>1. tailIndex' - headIndex' = n + k
      BY <1>1, <1>2
    <2>2. tailIndex' - headIndex' <= MaxSubqueue
      BY DEF SubqueueBound
    <2> QED
      BY <1>1, <2>1, <2>2
  <1>4. Run(h, n) \o Run(h + n, k) = Run(h, n + k)
    BY RunsJoin
  <1>5. Len(Run(h, n)) = n
    <2>1. n <= n
      OBVIOUS
    <2> QED
      BY <2>1, RunTake
  <1>6. /\ [i \in 1 .. tailIndex - headIndex |-> headIndex + i] = Run(h, n)
        /\ [i \in 1 .. tailIndex - headIndex |-> headIndex + i]' = Run(h, n + k)
    BY <1>1, <1>2, <1>3 DEF Run
  <1>7. [i \in 1 .. k |-> tailIndex + i] = Run(h + n, k)
    BY <1>1, <1>2 DEF Run
  <1>8. AsBulkFifo!Put(k)
    BY <1>4, <1>6, <1>7 DEF AsBulkFifo!Put, BulkHand
  <1>9. k \in 1 .. MaxSubqueue - Len(Run(h, n))
    BY <1>1, <1>3, <1>5
  <1> QED
    BY <1>6, <1>8, <1>9 DEF AsBulkFifo!Next

\* A claim takes the oldest messages, as many as the tickets it won.
LEMMA BulkClaimTakes ==
    ASSUME BulkGood, BulkHeldRight, BulkHeldRight', HeadNeverPassesTail', NEW c \in Consumers,
           BulkConsumer(c), Claims(c)
    PROVE  AsBulkFifo!Next
  <1>1. /\ headIndex \in Nat /\ headIndex' \in Nat /\ headIndex < headIndex'
        /\ tailIndex \in Nat /\ tailIndex' = tailIndex /\ headIndex' <= tailIndex
    BY Numbers, CallsApart DEF Claims, BulkGood, HeadNeverPassesTail
  <1>2. PICK h \in Nat, n \in Nat, a \in Nat :
              /\ h = headIndex /\ h + n = tailIndex /\ n = tailIndex - headIndex
              /\ h + a = headIndex' /\ a = headIndex' - headIndex
              /\ a > 0 /\ a <= n /\ tailIndex' - headIndex' = n - a
    <2>1. PICK h \in Nat, t \in Nat, g \in Nat :
              /\ h = headIndex /\ t = tailIndex /\ g = headIndex' /\ h < g /\ g <= t
              /\ tailIndex' = t
      BY <1>1
    <2>2. h < g /\ g <= t
      BY <2>1
    <2>3. t - h \in Nat /\ g - h \in Nat
      BY ONLY <2>2, h \in Nat, t \in Nat, g \in Nat
    <2>4. PICK n \in Nat, a \in Nat : n = t - h /\ a = g - h
      BY <2>3
    <2>5. h + n = t /\ h + a = g /\ a > 0 /\ a <= n /\ t - g = n - a
      BY ONLY <2>2, <2>4, h \in Nat, t \in Nat, g \in Nat, n \in Nat, a \in Nat
    <2>6. /\ h = headIndex /\ h + n = tailIndex /\ n = tailIndex - headIndex
          /\ h + a = headIndex' /\ a = headIndex' - headIndex
          /\ a > 0 /\ a <= n /\ tailIndex' - headIndex' = n - a
      BY <2>1, <2>4, <2>5
    <2> QED
      BY <2>6
  <1>3. ~HasClaimed(c) /\ HasClaimed(c)' /\ BulkHolds(c)' = Run(h, a)
    <2>1. ~HasClaimed(c) /\ HasClaimed(c)'
      BY DEF Claims, HasClaimed
    <2>2. First(c)' = h /\ Until(c)' = headIndex'
      BY <1>2, FirstByClaim DEF Claims
    <2>3. BulkHolds(c)' = Run(First(c)', Until(c)' - First(c)')
      BY <2>1 DEF BulkHeldRight, Run
    <2>4. Until(c)' - First(c)' = a
      BY <1>2, <2>2
    <2> QED
      BY <2>1, <2>2, <2>3, <2>4
  <1>4. /\ SubSeq(Run(h, n), 1, a) = Run(h, a)
        /\ SubSeq(Run(h, n), a + 1, n) = Run(h + a, n - a)
        /\ Len(Run(h, n)) = n
    <2>1. a <= n
      BY <1>2
    <2> QED
      BY <2>1, RunTake, ZenonT(60)
  <1>5. BulkHand' = [BulkHand EXCEPT ![c] = Run(h, a)] /\ BulkHand[c] = <<>>
    <2>1. \A d \in Consumers \ {c} : /\ HasClaimed(d)' <=> HasClaimed(d)
                                     /\ HasClaimed(d) => BulkHolds(d)' = BulkHolds(d)
      BY HandOfOthersStays
    <2> QED
      BY <1>3, <2>1 DEF BulkHand
  <1>6. /\ [i \in 1 .. tailIndex - headIndex |-> headIndex + i] = Run(h, n)
        /\ [i \in 1 .. tailIndex - headIndex |-> headIndex + i]' = Run(h + a, n - a)
    BY <1>2 DEF Run
  <1>7. AsBulkFifo!Take(c, a)
    BY <1>1, <1>4, <1>5, <1>6 DEF AsBulkFifo!Take, BulkHand
  <1>8. a \in 1 .. Len(Run(h, n))
    BY <1>2, <1>4
  <1> QED
    BY <1>6, <1>7, <1>8 DEF AsBulkFifo!Next

\* With its last block done, a call returns with all it claimed.
LEMMA BulkReturnGives ==
    ASSUME BulkGood, BulkHeldRight, BulkHeldRight', NEW c \in Consumers, BulkConsumer(c),
           headIndex' = headIndex, HasClaimed(c), ~HasClaimed(c)'
    PROVE  AsBulkFifo!Next
  <1>1. tailIndex' = tailIndex
    BY CallsApart DEF BulkGood
  <1>2. BulkHolds(c) # <<>>
    <2>1. PICK f \in Nat, u \in Nat : f = First(c) /\ u = Until(c) /\ f < u
                                     /\ BulkHolds(c) = Run(f, u - f)
      BY DEF BulkHeldRight
    <2>2. PICK n \in Nat : n = u - f /\ n > 0 /\ n <= n
      BY <2>1
    <2>3. Run(f, n) # <<>>
      BY <2>2, RunTake
    <2> QED
      BY <2>1, <2>2, <2>3
  <1>3. BulkHand' = [BulkHand EXCEPT ![c] = <<>>] /\ BulkHand[c] # <<>>
    <2>1. \A d \in Consumers \ {c} : /\ HasClaimed(d)' <=> HasClaimed(d)
                                     /\ HasClaimed(d) => BulkHolds(d)' = BulkHolds(d)
      BY HandOfOthersStays
    <2> QED
      BY <1>2, <2>1 DEF BulkHand
  <1>4. AsBulkFifo!Return(c)
    BY <1>1, <1>3 DEF AsBulkFifo!Return, BulkHand
  <1> QED
    BY <1>4 DEF AsBulkFifo!Next

LEMMA ConsumerIsFifo ==
    ASSUME BulkGood, BulkHeldRight, BulkHeldRight', HeadNeverPassesTail', NEW c \in Consumers,
           BulkConsumer(c)
    PROVE  [AsBulkFifo!Next]_AsBulkFifo!vars
  <1>1. CASE Claims(c)
    BY <1>1, BulkClaimTakes
  <1>2. CASE ~Claims(c)
    <2>1. headIndex' = headIndex /\ tailIndex' = tailIndex
      BY <1>2, StepKinds, CallsApart
         DEF BulkGood, Quietly, LooksForBlock, Moves, Empties, Unlinks, Frees
    <2>2. HasClaimed(c)' => HasClaimed(c)
      BY <1>2, StepKinds DEF Quietly, Early, LooksForBlock, Moves, Empties, Unlinks, Frees, HasClaimed
    <2>3. CASE HasClaimed(c) /\ ~HasClaimed(c)'
      BY <2>1, <2>3, BulkReturnGives
    <2>4. CASE HasClaimed(c)' <=> HasClaimed(c)
      <3>1. HasClaimed(c) => BulkHolds(c)' = BulkHolds(c)
        BY <2>4, ClaimKept, HoldsSame
      <3>2. \A d \in Consumers : /\ HasClaimed(d)' <=> HasClaimed(d)
                                 /\ HasClaimed(d) => BulkHolds(d)' = BulkHolds(d)
        BY <2>4, <3>1, HandOfOthersStays
      <3> QED
        BY <2>1, <3>2, BulkHandSame, BulkFifoSame
    <2> QED
      BY <2>2, <2>3, <2>4
  <1> QED
    BY <1>1, <1>2

LEMMA BulkFifoStep ==
    ASSUME BulkGood, BulkHeldRight, BulkHeldRight', BulkGood', SubqueueBound',
           [BulkNext]_bulkVars
    PROVE  [AsBulkFifo!Next]_AsBulkFifo!vars
  <1>0. HeadNeverPassesTail' /\ BulkTypeOK'
    BY DEF BulkGood
  <1>1. ASSUME NEW c \in Consumers, BulkConsumer(c)
        PROVE  [AsBulkFifo!Next]_AsBulkFifo!vars
    BY <1>0, <1>1, ConsumerIsFifo
  <1>2. CASE UNCHANGED <<tailIndex, headIndex, consumer, grab>>
    BY <1>2, HandStays, BulkFifoSame
  <1>3. CASE PoolStep
    <2>1. UNCHANGED <<tailIndex, headIndex, consumer, grab>>
      BY <1>3 DEF PoolStep, Settle, OtherTakes, OtherReturns, Destroy, counters
    <2> QED
      BY <1>2, <2>1
  <1>4. CASE UNCHANGED bulkVars
    <2>1. UNCHANGED <<tailIndex, headIndex, consumer, grab>>
      BY <1>4 DEF bulkVars, vars, counters, consumer
    <2> QED
      BY <1>2, <2>1
  <1>5. CASE BulkProducer
    <2>1. ASSUME NEW k \in Nat, k > 0, tailIndex' = tailIndex + k,
                 UNCHANGED <<headIndex, consumer, grab>>
          PROVE  AsBulkFifo!Next
      BY <1>0, <2>1, HandStays, BulkCommitPuts
    <2>2. CASE BulkCommit
      <3>1. batch.count \in Nat /\ batch.count > 0
        <4>1. batch # NoBatch
          BY <2>2 DEF BulkCommit
        <4> QED
          BY <4>1, Numbers DEF BulkGood, BulkLayoutInv, BatchRight
      <3>2. tailIndex' = tailIndex + batch.count /\ UNCHANGED <<headIndex, consumer, grab>>
        BY <2>2 DEF BulkCommit
      <3> QED
        BY <2>1, <3>1, <3>2
    <2>3. CASE Commit /\ UNCHANGED grab
      <3>1. tailIndex' = tailIndex + 1 /\ UNCHANGED <<headIndex, consumer, grab>>
        BY <2>3 DEF Commit
      <3> QED
        BY <2>1, <3>1
    <2>4. CASE ~BulkCommit /\ ~(Commit /\ UNCHANGED grab)
      <3> USE DEF counters
      <3>1. CASE (Producer \/ SharedEnqueueStep) /\ UNCHANGED grab
        BY <1>2, <2>4, <3>1 DEF Producer, SharedEnqueueStep, EnqueueStart, CheckRoom, InsertKey,
           InsertRefused, AdvanceIndex, Requisition, RequisitionFails, RewindIndex, ClearEntry,
           ResetEmpty, PublishBlock, WriteElement
      <3>2. ASSUME NEW n \in BulkSizes, BulkStart(n)
            PROVE  UNCHANGED <<tailIndex, headIndex, consumer, grab>>
        BY <3>2 DEF BulkStart
      <3>3. CASE BulkCheckRoom \/ BulkInsertKey \/ BulkInsertRefused \/ BulkClearEntry \/ BulkPublish
        BY <1>2, <3>3 DEF BulkCheckRoom, BulkInsertKey, BulkInsertRefused, BulkClearEntry, BulkPublish
      <3>4. CASE UndoEntry \/ UndoTail \/ UndoBlocks \/ BulkWrite
        BY <1>2, <3>4 DEF UndoEntry, UndoTail, UndoBlocks, BulkWrite
      <3> QED
        BY <1>2, <1>5, <2>4, <3>1, <3>2, <3>3, <3>4 DEF BulkProducer
    <2> QED
      BY <2>2, <2>3, <2>4
  <1> QED
    BY <1>1, <1>3, <1>4, <1>5 DEF BulkNext

LEMMA BulkFifoAtFirst == BulkInit => AsBulkFifo!Init
  <1> SUFFICES ASSUME BulkInit PROVE AsBulkFifo!Init
    OBVIOUS
  <1>1. tailIndex = 0 /\ headIndex = 0 /\ \A c \in Consumers : pc[c] = "idle"
    BY DEF BulkInit, Init
  <1>2. [i \in 1 .. tailIndex - headIndex |-> headIndex + i] = <<>>
    BY <1>1
  <1>3. \A c \in Consumers : ~HasClaimed(c)
    BY <1>1 DEF HasClaimed
  <1> QED
    BY <1>1, <1>2, <1>3 DEF AsBulkFifo!Init

\* With bulk calls too the sub-queue is a bounded FIFO, whatever the sizes and the
\* number of consumers: a batch enters whole or not at all, and a bulk dequeue takes
\* the oldest elements, in order, and returns with all of them.
THEOREM BulkIsFifo == BulkSpec => BulkImplementsFifo
  <1>1. BulkSpec => [](BulkGood /\ BulkHeldRight /\ SubqueueBound)
    BY BulkCorrect, BulkElements, BulkLimitKept, BulkHeld, PTL
  <1>2. /\ BulkGood /\ BulkHeldRight /\ SubqueueBound
        /\ (BulkGood /\ BulkHeldRight /\ SubqueueBound)'
        /\ [BulkNext]_bulkVars
        => [AsBulkFifo!Next]_AsBulkFifo!vars
    BY BulkFifoStep
  <1> QED
    BY BulkFifoAtFirst, <1>1, <1>2, PTL DEF BulkSpec, BulkImplementsFifo, AsBulkFifo!Spec

=============================================================================
