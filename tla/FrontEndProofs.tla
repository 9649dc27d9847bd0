--------------------------- MODULE FrontEndProofs ---------------------------
(***************************************************************************)
(* Theorems about FrontEnd, for any number of producers and elements, any  *)
(* quota and any width of the offsets: a dequeue operation that returns    *)
(* less than it was asked for has been at every producer.                  *)
(***************************************************************************)
EXTENDS FrontEnd, TLAPS

-----------------------------------------------------------------------------
(* Arithmetic *)

LEMMA Constants ==
    /\ MaxProducers \in Nat /\ Capacity \in Nat /\ NonEmptyEnough \in Nat
    /\ NonEmptyEnough > 0 /\ Quota \in Nat /\ Span \in Nat /\ Span > 1
    /\ \A n \in BulkSizes : n \in Nat /\ n > 0
  BY FrontEndAssumption

\* A remainder is one.
LEMMA Remainder ==
    ASSUME NEW a \in Int, NEW b \in Nat, b > 0 PROVE a % b \in 0 .. b - 1
  OBVIOUS

\* Going on in a list of t producers ends at one of them.
LEMMA OnwardStays ==
    ASSUME NEW k \in Int, NEW n \in Int, NEW t \in Nat, t > 0
    PROVE  Onward(k, n, t) \in 1 .. t
  <1>1. (k - 1 - n) % t \in 0 .. t - 1
    BY Remainder
  <1> QED
    BY <1>1 DEF Onward

LEMMA Ends ==
    ASSUME NEW a \in Nat
    PROVE  a \in 0 .. a /\ 0 \in 0 .. a /\ a + 1 .. a = {}
  OBVIOUS

-----------------------------------------------------------------------------
(* The invariant's parts, for the steps *)

LEMMA Typed ==
    ASSUME TypeOK
    PROVE  /\ linked \in Nat /\ linked <= producerCount /\ linked <= MaxProducers
           /\ producerCount \in Nat /\ producerCount <= MaxProducers
           /\ waiting \in [Producers -> 0 .. Capacity]
           /\ \A k \in Producers : waiting[k] \in Nat
           /\ globalExplicitConsumerOffset \in Offsets /\ globalExplicitConsumerOffset \in Nat
           /\ token \in [lastKnownGlobalOffset : Offsets,
                         itemsConsumedFromCurrent : Offsets,
                         currentProducer : 0 .. linked, desiredProducer : 0 .. linked]
           /\ token.currentProducer \in Nat /\ token.currentProducer <= linked
           /\ token.desiredProducer \in Nat /\ token.desiredProducer <= linked
           /\ token.lastKnownGlobalOffset \in Nat /\ token.itemsConsumedFromCurrent \in Nat
           /\ max \in Nat
           /\ tail \in Nat /\ tail <= linked /\ ptr \in Nat /\ ptr <= linked
           /\ nonEmptyCount \in Nat /\ nonEmptyCount <= NonEmptyEnough
           /\ best \in Nat /\ best <= linked /\ bestSize \in Nat /\ bestSize <= Capacity
           /\ rivals \in BOOLEAN
  <1>1. linked \in Nat /\ linked <= MaxProducers /\ producerCount \in Nat
        /\ linked <= producerCount /\ producerCount <= MaxProducers
    <2>1. linked \in 0 .. MaxProducers /\ producerCount \in linked .. MaxProducers
      BY DEF TypeOK, Pointers
    <2> QED
      BY <2>1, Constants
  <1>2. token \in [lastKnownGlobalOffset : Offsets, itemsConsumedFromCurrent : Offsets,
                   currentProducer : 0 .. linked, desiredProducer : 0 .. linked]
    BY DEF TypeOK
  <1>3. /\ token.currentProducer \in 0 .. linked /\ token.desiredProducer \in 0 .. linked
        /\ token.lastKnownGlobalOffset \in Offsets
        /\ token.itemsConsumedFromCurrent \in Offsets
    BY <1>2
  <1>4. \A o \in Offsets : o \in Nat
    BY Constants DEF Offsets
  <1>5. waiting \in [Producers -> 0 .. Capacity]
    BY DEF TypeOK
  <1>6. \A k \in Producers : waiting[k] \in Nat
    BY <1>5, Constants
  <1>7. /\ tail \in Nat /\ tail <= linked /\ ptr \in Nat /\ ptr <= linked
        /\ best \in Nat /\ best <= linked
    <2>1. tail \in 0 .. linked /\ ptr \in 0 .. linked /\ best \in 0 .. linked
      BY DEF TypeOK
    <2> QED
      BY <1>1, <2>1
  <1>8. /\ nonEmptyCount \in Nat /\ nonEmptyCount <= NonEmptyEnough
        /\ bestSize \in Nat /\ bestSize <= Capacity
    <2>1. nonEmptyCount \in 0 .. NonEmptyEnough /\ bestSize \in 0 .. Capacity
      BY DEF TypeOK
    <2> QED
      BY <2>1, Constants
  <1>9. globalExplicitConsumerOffset \in Offsets /\ max \in Nat /\ rivals \in BOOLEAN
    BY DEF TypeOK
  <1> QED
    BY <1>1, <1>2, <1>3, <1>4, <1>5, <1>6, <1>7, <1>8, <1>9

\* A dequeue gives at most what is wanted; a producer that gives less is noted.
LEMMA DequeueDoes ==
    ASSUME TypeOK, NEW k \in Producers, NEW n, Dequeue(k, n)
    PROVE  /\ n \in Nat /\ n <= max /\ max' = max - n /\ max' \in Nat
           /\ waiting' \in [Producers -> 0 .. Capacity]
           /\ short \subseteq short'
           /\ n < max => k \in short'
  <1>1. waiting \in [Producers -> 0 .. Capacity] /\ waiting[k] \in Nat /\ max \in Nat
        /\ Capacity \in Nat
    BY Typed, Constants
  <1>2. waiting[k] \in 0 .. Capacity
    BY <1>1
  <1>3. /\ Least(max, waiting[k]) \in Nat /\ Least(max, waiting[k]) <= max
        /\ Least(max, waiting[k]) <= waiting[k]
    BY <1>1 DEF Least
  <1>4. n \in Obtainable(k)
    BY DEF Dequeue
  <1>5. n \in Nat /\ n <= max /\ n <= waiting[k]
    BY <1>1, <1>3, <1>4 DEF Obtainable
  <1>6. waiting[k] - n \in 0 .. Capacity
    BY <1>1, <1>2, <1>5
  <1>7. waiting' = [waiting EXCEPT ![k] = waiting[k] - n]
    BY DEF Dequeue
  <1>8. waiting' \in [Producers -> 0 .. Capacity]
    BY <1>1, <1>6, <1>7
  <1>9. max' = max - n /\ max' \in Nat
    BY <1>1, <1>5 DEF Dequeue
  <1>10. short \subseteq short' /\ (n < max => k \in short')
    BY DEF Dequeue
  <1> QED
    BY <1>5, <1>8, <1>9, <1>10

\* What stays as it is keeps its type.
LEMMA SameTypes ==
    ASSUME TypeOK,
           UNCHANGED <<linked, producerCount, globalExplicitConsumerOffset, rivals>>,
           waiting' \in [Producers -> 0 .. Capacity],
           token' \in [lastKnownGlobalOffset : Offsets, itemsConsumedFromCurrent : Offsets,
                       currentProducer : 0 .. linked, desiredProducer : 0 .. linked],
           cpc' \in {"idle", "size", "best", "list", "token", "rotation", "rotate",
                     "current", "announce", "walk tail", "walk", "return"},
           op' \in {"none", "try_dequeue", "in order", "token", "bulk token"},
           max' \in Nat, tail' \in 0 .. linked, ptr' \in 0 .. linked,
           nonEmptyCount' \in 0 .. NonEmptyEnough,
           best' \in 0 .. linked, bestSize' \in 0 .. Capacity,
           cpc' \in {"current", "walk tail", "walk"} => token'.currentProducer # NoProducer
    PROVE  TypeOK'
  BY DEF TypeOK

-----------------------------------------------------------------------------
(* Steps of the others *)

\* Producers that are counted, linked or filled, and other consumers, disturb nothing
\* of the call.
LEMMA OthersKeepCall ==
    ASSUME FrontEndInv,
           linked' \in Pointers, linked <= linked', producerCount' \in linked' .. MaxProducers,
           waiting' \in [Producers -> 0 .. Capacity],
           globalExplicitConsumerOffset' \in Offsets, rivals' \in BOOLEAN,
           UNCHANGED <<token, cpc, op, max, tail, ptr, scan, history>>
    PROVE  FrontEndInv'
  <1>1. TypeOK /\ PlaceKnown /\ StillWanted /\ WayChecked /\ LessMeansAllChecked
    BY DEF FrontEndInv
  <1>2. linked \in Nat /\ linked' \in Nat /\ MaxProducers \in Nat
    BY <1>1, Typed, Constants DEF Pointers
  <1>3. \A i \in 0 .. linked : i \in 0 .. linked'
    BY <1>2
  <1>4. UNCHANGED <<nonEmptyCount, best, bestSize, listed, short>>
    BY DEF scan, history
  <1>5. TypeOK'
    <2>1. token' \in [lastKnownGlobalOffset : Offsets, itemsConsumedFromCurrent : Offsets,
                      currentProducer : 0 .. linked', desiredProducer : 0 .. linked']
      <3>1. token \in [lastKnownGlobalOffset : Offsets, itemsConsumedFromCurrent : Offsets,
                       currentProducer : 0 .. linked, desiredProducer : 0 .. linked]
        BY <1>1, Typed
      <3>2. PICK upTo : upTo = 0 .. linked'
        OBVIOUS
      <3>3. \A i \in 0 .. linked : i \in upTo
        BY <1>3, <3>2
      <3>4. token \in [lastKnownGlobalOffset : Offsets, itemsConsumedFromCurrent : Offsets,
                       currentProducer : upTo, desiredProducer : upTo]
        BY <3>1, <3>3
      <3> QED
        BY <3>2, <3>4
    <2>2. tail \in 0 .. linked' /\ ptr \in 0 .. linked' /\ best \in 0 .. linked'
      BY <1>1, <1>3 DEF TypeOK
    <2> QED
      BY <1>1, <1>4, <2>1, <2>2 DEF TypeOK
  <1>6. PlaceKnown'
    BY <1>1, <1>4 DEF PlaceKnown
  <1>7. StillWanted'
    <2>1. listed \in 0 .. linked'
      BY <1>1, <1>3 DEF StillWanted
    <2> QED
      BY <1>1, <1>4, <2>1 DEF StillWanted
  <1>8. WayChecked'
    BY <1>1, <1>4 DEF WayChecked, CheckedAfter, Round
  <1>9. LessMeansAllChecked'
    BY <1>1, <1>4 DEF LessMeansAllChecked
  <1> QED
    BY <1>5, <1>6, <1>7, <1>8, <1>9 DEF FrontEndInv

LEMMA OthersStep ==
    ASSUME FrontEndInv,
           \/ CountProducer \/ LinkProducer \/ (\E k \in Producers : Enqueue(k))
           \/ RivalsComeAndGo \/ RivalRotates \/ (\E k \in Producers : RivalTakes(k))
           \/ UNCHANGED vars
    PROVE  FrontEndInv'
  <1>1. /\ linked \in Nat /\ linked <= producerCount /\ producerCount \in Nat
        /\ linked <= MaxProducers /\ producerCount <= MaxProducers
        /\ globalExplicitConsumerOffset \in Offsets /\ globalExplicitConsumerOffset \in Nat
        /\ waiting \in [Producers -> 0 .. Capacity] /\ rivals \in BOOLEAN
        /\ \A k \in Producers : waiting[k] \in Nat
    BY Typed DEF FrontEndInv
  <1>2. MaxProducers \in Nat /\ Capacity \in Nat /\ Span \in Nat /\ Span > 1
    BY Constants
  <1>3. UNCHANGED <<token, cpc, op, max, tail, ptr, scan, history>>
    BY DEF CountProducer, LinkProducer, Enqueue, RivalsComeAndGo, RivalRotates, RivalTakes,
       consumer, vars
  <1>4. linked' \in Pointers /\ linked <= linked' /\ producerCount' \in linked' .. MaxProducers
    <2>1. CASE CountProducer
      BY <1>1, <1>2, <2>1 DEF CountProducer, Pointers
    <2>2. CASE LinkProducer
      BY <1>1, <1>2, <2>2 DEF LinkProducer, Pointers
    <2>3. CASE UNCHANGED list
      <3>1. UNCHANGED <<linked, producerCount>>
        BY <2>3 DEF list
      <3> QED
        BY <1>1, <1>2, <3>1 DEF Pointers
    <2> QED
      BY <2>1, <2>2, <2>3 DEF Enqueue, RivalsComeAndGo, RivalRotates, RivalTakes, vars
  <1>5. waiting' \in [Producers -> 0 .. Capacity]
    <2>1. ASSUME NEW k \in Producers, Enqueue(k) PROVE waiting' \in [Producers -> 0 .. Capacity]
      <3>1. waiting[k] + 1 \in 0 .. Capacity
        BY <1>1, <1>2, <2>1 DEF Enqueue
      <3>2. waiting' = [waiting EXCEPT ![k] = waiting[k] + 1]
        BY <2>1 DEF Enqueue
      <3> QED
        BY <1>1, <3>1, <3>2
    <2>2. ASSUME NEW k \in Producers, RivalTakes(k)
          PROVE  waiting' \in [Producers -> 0 .. Capacity]
      <3>1. waiting[k] \in 0 .. Capacity
        BY <1>1
      <3>2. waiting[k] - 1 \in 0 .. Capacity
        BY <1>1, <1>2, <2>2, <3>1 DEF RivalTakes
      <3>3. waiting' = [waiting EXCEPT ![k] = waiting[k] - 1]
        BY <2>2 DEF RivalTakes
      <3> QED
        BY <1>1, <3>2, <3>3
    <2>3. CASE UNCHANGED waiting
      BY <1>1, <2>3
    <2> QED
      BY <2>1, <2>2, <2>3 DEF CountProducer, LinkProducer, RivalsComeAndGo, RivalRotates, vars
  <1>6. globalExplicitConsumerOffset' \in Offsets
    <2>1. CASE RivalRotates
      <3>1. (globalExplicitConsumerOffset + 1) % Span \in 0 .. Span - 1
        BY <1>1, <1>2, Remainder
      <3> QED
        BY <2>1, <3>1 DEF RivalRotates, Offsets
    <2>2. CASE UNCHANGED globalExplicitConsumerOffset
      BY <1>1, <2>2
    <2> QED
      BY <2>1, <2>2 DEF CountProducer, LinkProducer, Enqueue, RivalsComeAndGo, RivalTakes,
         consumer, vars
  <1>7. rivals' \in BOOLEAN
    <2>1. rivals' = rivals \/ rivals' = ~rivals
      BY DEF CountProducer, LinkProducer, Enqueue, RivalsComeAndGo, RivalRotates, RivalTakes,
         consumer, vars
    <2> QED
      BY <1>1, <2>1
  <1> QED
    BY <1>3, <1>4, <1>5, <1>6, <1>7, OthersKeepCall

-----------------------------------------------------------------------------
(* Call and Return *)

LEMMA CallStep ==
    ASSUME FrontEndInv, NEW o \in {"try_dequeue", "in order", "token", "bulk token"},
           NEW n \in Nat, n > 0, o = "try_dequeue" => n = 1, Call(o, n)
    PROVE  FrontEndInv'
  <1>1. TypeOK /\ PlaceKnown /\ StillWanted
    BY DEF FrontEndInv
  <1>2. linked \in Nat /\ nonEmptyCount \in Nat /\ best \in Nat
    BY <1>1, Typed
  <1>3. /\ cpc = "idle" /\ op' = o /\ max' = n /\ listed' = linked /\ short' = {}
        /\ UNCHANGED <<linked, producerCount, waiting, globalExplicitConsumerOffset, token,
                       tail, nonEmptyCount, best, bestSize, rivals>>
    BY DEF Call, list, scan
  <1>4. \/ o = "try_dequeue" /\ cpc' = "size" /\ ptr' = linked
        \/ o = "in order" /\ cpc' = "list" /\ ptr' = linked
        \/ cpc' = "token" /\ ptr' = 0
    BY DEF Call, NoProducer
  <1>5. TypeOK'
    <2>1. ptr' \in 0 .. linked
      <3>1. linked \in 0 .. linked /\ 0 \in 0 .. linked
        BY <1>2, Ends
      <3> QED
        BY <1>4, <3>1
    <2>2. cpc' \in {"idle", "size", "best", "list", "token", "rotation", "rotate",
                    "current", "announce", "walk tail", "walk", "return"}
          /\ cpc' \notin {"current", "walk tail", "walk"}
      BY <1>4
    <2> QED
      BY <1>1, <1>3, <2>1, <2>2 DEF TypeOK
  <1>6. PlaceKnown'
    BY <1>1, <1>3, <1>4 DEF PlaceKnown
  <1>7. StillWanted'
    <2>1. listed' \in 0 .. linked'
      BY <1>2, <1>3, Ends
    <2>2. max' > 0 /\ (cpc' \in {"size", "best"} => max' = 1) /\ cpc' # "announce"
      BY <1>3, <1>4
    <2> QED
      BY <2>1, <2>2 DEF StillWanted
  <1>8. WayChecked'
    <2>1. ptr' = linked => CheckedAfter(ptr)'
      <3>1. linked + 1 .. linked = {}
        BY <1>2, Ends
      <3> QED
        BY <1>3, <3>1 DEF CheckedAfter
    <2>2. best' = NoProducer
      BY <1>1, <1>3 DEF PlaceKnown
    <2> QED
      BY <1>4, <2>1, <2>2 DEF WayChecked
  <1>9. LessMeansAllChecked'
    BY <1>4 DEF LessMeansAllChecked
  <1> QED
    BY <1>5, <1>6, <1>7, <1>8, <1>9 DEF FrontEndInv

LEMMA ReturnStep ==
    ASSUME FrontEndInv, Return PROVE FrontEndInv'
  <1>1. TypeOK /\ PlaceKnown
    BY DEF FrontEndInv
  <1>2. linked \in Nat /\ NonEmptyEnough \in Nat /\ Capacity \in Nat
    BY <1>1, Typed, Constants
  <1>3. /\ cpc' = "idle" /\ op' = "none" /\ max' = 0 /\ tail' = 0 /\ ptr' = 0
        /\ nonEmptyCount' = 0 /\ best' = 0 /\ bestSize' = 0 /\ listed' = 0
        /\ UNCHANGED <<linked, producerCount, waiting, globalExplicitConsumerOffset, token,
                       rivals>>
    BY DEF Return, list, NoProducer
  <1>4. TypeOK'
    <2>1. /\ 0 \in 0 .. linked /\ 0 \in 0 .. NonEmptyEnough /\ 0 \in 0 .. Capacity
          /\ max' \in Nat
      BY <1>2, <1>3, Ends
    <2> QED
      BY <1>1, <1>3, <2>1 DEF TypeOK
  <1>5. PlaceKnown'
    BY <1>1, <1>3 DEF PlaceKnown, NoProducer
  <1>6. StillWanted' /\ WayChecked' /\ LessMeansAllChecked'
    BY <1>2, <1>3 DEF StillWanted, WayChecked, LessMeansAllChecked
  <1> QED
    BY <1>4, <1>5, <1>6 DEF FrontEndInv

-----------------------------------------------------------------------------
(* Without a token *)

\* One more is checked.
LEMMA CheckedOne ==
    ASSUME NEW k \in Int, NEW l \in Int, NEW S, NEW T, k + 1 .. l \subseteq S, S \subseteq T, k \in T
    PROVE  (k - 1) + 1 .. l \subseteq T
  <1>1. ASSUME NEW i \in (k - 1) + 1 .. l PROVE i = k \/ i \in k + 1 .. l
    OBVIOUS
  <1> QED
    BY <1>1


LEMMA ListedTyped ==
    ASSUME TypeOK, StillWanted PROVE listed \in Nat /\ listed <= linked
  <1>1. listed \in 0 .. linked
    BY DEF StillWanted
  <1>2. linked \in Nat
    BY Typed
  <1> QED
    BY <1>1, <1>2

LEMMA LookAtSizeStep ==
    ASSUME FrontEndInv, LookAtSize PROVE FrontEndInv'
  <1>1. TypeOK /\ PlaceKnown /\ StillWanted /\ WayChecked
    BY DEF FrontEndInv
  <1>2. /\ linked \in Nat /\ linked <= MaxProducers /\ ptr \in Nat /\ ptr <= linked
        /\ nonEmptyCount \in Nat /\ best \in Nat /\ bestSize \in Nat /\ bestSize <= Capacity
        /\ waiting \in [Producers -> 0 .. Capacity] /\ max \in Nat
        /\ MaxProducers \in Nat /\ Capacity \in Nat /\ NonEmptyEnough \in Nat
    BY <1>1, Typed, Constants
  <1>3. /\ cpc = "size" /\ cpc' = "size" /\ ptr # 0 /\ ptr' = ptr - 1
        /\ nonEmptyCount < NonEmptyEnough
        /\ UNCHANGED <<linked, producerCount, waiting, globalExplicitConsumerOffset, token,
                       op, max, tail, rivals, listed>>
    BY DEF LookAtSize, NextProd, NoProducer, list
  <1>4. ptr \in Producers
    BY <1>2, <1>3 DEF Producers
  <1>5. PICK size \in IF rivals THEN 0 .. waiting[ptr] ELSE {waiting[ptr]} :
              /\ nonEmptyCount' = nonEmptyCount + (IF size > 0 THEN 1 ELSE 0)
              /\ IF size > bestSize THEN best' = ptr /\ bestSize' = size
                                    ELSE UNCHANGED <<best, bestSize>>
              /\ short' = IF size = 0 THEN short \cup {ptr} ELSE short
    BY DEF LookAtSize
  <1>6. size \in Nat /\ size <= Capacity
    <2>1. waiting[ptr] \in 0 .. Capacity
      BY <1>2, <1>4
    <2>2. waiting[ptr] \in Nat /\ waiting[ptr] <= Capacity
      BY <1>2, <2>1
    <2>3. size \in 0 .. waiting[ptr] \/ size = waiting[ptr]
      BY <1>5
    <2> QED
      BY <1>2, <2>2, <2>3
  <1>7. /\ ptr' \in 0 .. linked /\ nonEmptyCount' \in 0 .. NonEmptyEnough
        /\ (nonEmptyCount' = 0 <=> nonEmptyCount = 0 /\ size = 0)
    <2>1. ptr' \in 0 .. linked
      BY <1>2, <1>3
    <2>2. CASE size > 0
      BY <1>2, <1>3, <1>5, <2>2
    <2>3. CASE ~(size > 0)
      BY <1>2, <1>3, <1>5, <1>6, <2>3
    <2> QED
      BY <2>1, <2>2, <2>3
  <1>8. best' \in 0 .. linked /\ bestSize' \in 0 .. Capacity
        /\ (nonEmptyCount' > 0 <=> best' # NoProducer)
        /\ (bestSize' > 0 <=> best' # NoProducer)
    <2>1. CASE size > bestSize
      BY <1>2, <1>3, <1>5, <1>6, <1>7, <2>1 DEF NoProducer
    <2>2. CASE ~(size > bestSize)
      <3>1. best' = best /\ bestSize' = bestSize
        BY <1>5, <2>2
      <3>2. best \in 0 .. linked /\ bestSize \in 0 .. Capacity
        BY <1>1 DEF TypeOK
      <3>3. nonEmptyCount' > 0 <=> best' # NoProducer
        BY <1>1, <1>2, <1>6, <1>7, <2>2, <3>1 DEF PlaceKnown
      <3> QED
        BY <1>1, <3>1, <3>2, <3>3 DEF PlaceKnown
    <2> QED
      BY <2>1, <2>2
  <1>9. TypeOK'
    BY <1>1, <1>3, <1>7, <1>8 DEF TypeOK
  <1>10. PlaceKnown'
    BY <1>1, <1>3, <1>8 DEF PlaceKnown
  <1>11. StillWanted' /\ LessMeansAllChecked'
    BY <1>1, <1>3 DEF StillWanted, LessMeansAllChecked
  <1>12. WayChecked'
    <2> SUFFICES ASSUME nonEmptyCount' = 0 PROVE CheckedAfter(ptr)'
      BY <1>3 DEF WayChecked
    <2>1. nonEmptyCount = 0 /\ size = 0
      BY <1>7
    <2>2. ptr + 1 .. listed \subseteq short
      BY <1>1, <1>3, <2>1 DEF WayChecked, CheckedAfter
    <2>3. short \subseteq short' /\ ptr \in short'
      BY <1>5, <2>1
    <2>4. listed \in Int /\ ptr \in Int
      BY <1>1, <1>2, ListedTyped
    <2>5. (ptr - 1) + 1 .. listed \subseteq short'
      BY <2>2, <2>3, <2>4, CheckedOne
    <2> QED
      BY <1>3, <2>5 DEF CheckedAfter
  <1> QED
    BY <1>9, <1>10, <1>11, <1>12 DEF FrontEndInv

LEMMA SizesKnownStep ==
    ASSUME FrontEndInv, SizesKnown PROVE FrontEndInv'
  <1>1. TypeOK /\ PlaceKnown /\ StillWanted /\ WayChecked
    BY DEF FrontEndInv
  <1>2. /\ nonEmptyCount \in Nat /\ NonEmptyEnough \in Nat /\ NonEmptyEnough > 0
        /\ max \in Nat
    BY <1>1, Typed, Constants
  <1>3. /\ cpc = "size" /\ (ptr = 0 \/ nonEmptyCount = NonEmptyEnough)
        /\ cpc' = IF nonEmptyCount > 0 THEN "best" ELSE "return"
        /\ UNCHANGED <<linked, producerCount, waiting, globalExplicitConsumerOffset, token,
                       op, max, tail, ptr, nonEmptyCount, best, bestSize, rivals, listed,
                       short>>
    BY DEF SizesKnown, NoProducer, list, scan, history
  <1>4. cpc' \in {"best", "return"}
    BY <1>3
  <1>5. TypeOK'
    BY <1>1, <1>3, <1>4 DEF TypeOK
  <1>6. PlaceKnown'
    BY <1>1, <1>3 DEF PlaceKnown
  <1>7. StillWanted' /\ WayChecked'
    BY <1>1, <1>3, <1>4 DEF StillWanted, WayChecked
  <1>8. LessMeansAllChecked'
    <2> SUFFICES ASSUME cpc' = "return" PROVE 1 .. listed' \subseteq short'
      BY DEF LessMeansAllChecked
    <2>1. nonEmptyCount = 0 /\ ptr = 0
      BY <1>2, <1>3
    <2>2. 0 + 1 .. listed \subseteq short
      BY <1>1, <1>3, <2>1 DEF WayChecked, CheckedAfter
    <2> QED
      BY <1>3, <2>2
  <1> QED
    BY <1>5, <1>6, <1>7, <1>8 DEF FrontEndInv

LEMMA TryBestStep ==
    ASSUME FrontEndInv, TryBest PROVE FrontEndInv'
  <1>1. TypeOK /\ PlaceKnown /\ StillWanted /\ WayChecked
    BY DEF FrontEndInv
  <1>2. /\ linked \in Nat /\ linked <= MaxProducers /\ best \in Nat /\ best <= linked
        /\ max \in Nat /\ MaxProducers \in Nat
    BY <1>1, Typed, Constants
  <1>3. /\ cpc = "best" /\ ptr' = linked
        /\ UNCHANGED <<linked, producerCount, globalExplicitConsumerOffset, token,
                       op, tail, nonEmptyCount, best, bestSize, rivals, listed>>
    BY DEF TryBest, list, scan
  <1>4. best # 0 /\ max = 1
    BY <1>1, <1>3 DEF PlaceKnown, StillWanted, NoProducer
  <1>5. best \in Producers
    BY <1>2, <1>4 DEF Producers
  <1>6. PICK n : Dequeue(best, n) /\ cpc' = IF n = 1 THEN "return" ELSE "list"
    BY DEF TryBest
  <1>7. /\ n \in Nat /\ n <= max /\ max' = max - n /\ max' \in Nat
        /\ waiting' \in [Producers -> 0 .. Capacity]
        /\ (n < max => best \in short')
    BY <1>1, <1>5, <1>6, DequeueDoes
  <1>8. TypeOK'
    <2>1. linked \in 0 .. linked
      BY <1>2, Ends
    <2>2. cpc' \in {"return", "list"}
      BY <1>6
    <2> QED
      BY <1>1, <1>3, <1>7, <2>1, <2>2 DEF TypeOK
  <1>9. PlaceKnown'
    BY <1>1, <1>3, <1>6 DEF PlaceKnown
  <1>10. cpc' = "return" => max' = 0
    BY <1>4, <1>6, <1>7
  <1>11. cpc' = "list" => max' > 0 /\ best \in short'
    <2>1. n = 0 \/ n = 1
      BY <1>4, <1>7
    <2>2. CASE n = 0
      BY <1>4, <1>7, <2>2
    <2> QED
      BY <1>6, <2>1, <2>2
  <1>12. StillWanted' /\ LessMeansAllChecked'
    BY <1>1, <1>3, <1>6, <1>10, <1>11 DEF StillWanted, LessMeansAllChecked
  <1>13. WayChecked'
    <2>1. CheckedAfter(ptr)'
      <3>1. listed \in 0 .. linked
        BY <1>1 DEF StillWanted
      <3>2. linked + 1 .. listed = {}
        BY <1>2, <3>1
      <3> QED
        BY <1>3, <3>2 DEF CheckedAfter
    <2> QED
      BY <1>3, <1>6, <1>11, <2>1 DEF WayChecked
  <1> QED
    BY <1>8, <1>9, <1>12, <1>13 DEF FrontEndInv

-----------------------------------------------------------------------------
(* One after the other *)

LEMMA TryNextStep ==
    ASSUME FrontEndInv, TryNext PROVE FrontEndInv'
  <1>1. TypeOK /\ PlaceKnown /\ StillWanted /\ WayChecked
    BY DEF FrontEndInv
  <1>2. /\ linked \in Nat /\ linked <= MaxProducers /\ ptr \in Nat /\ ptr <= linked
        /\ max \in Nat /\ MaxProducers \in Nat
    BY <1>1, Typed, Constants
  <1>3. /\ cpc = "list" /\ ptr # 0 /\ ptr # best /\ ptr' = ptr - 1
        /\ UNCHANGED <<linked, producerCount, globalExplicitConsumerOffset, token,
                       op, tail, nonEmptyCount, best, bestSize, rivals, listed>>
    BY DEF TryNext, list, scan, NoProducer, NextProd
  <1>4. ptr \in Producers
    BY <1>2, <1>3 DEF Producers
  <1>5. PICK n : Dequeue(ptr, n) /\ cpc' = IF n = max THEN "return" ELSE "list"
    BY DEF TryNext
  <1>6. /\ n \in Nat /\ n <= max /\ max' = max - n /\ max' \in Nat
        /\ waiting' \in [Producers -> 0 .. Capacity]
        /\ short \subseteq short' /\ (n < max => ptr \in short')
    BY <1>1, <1>4, <1>5, DequeueDoes
  <1>7. TypeOK'
    <2>1. ptr' \in 0 .. linked
      BY <1>2, <1>3
    <2>2. cpc' \in {"return", "list"}
      BY <1>5
    <2> QED
      BY <1>1, <1>3, <1>6, <2>1, <2>2 DEF TypeOK
  <1>8. PlaceKnown'
    BY <1>1, <1>3, <1>5 DEF PlaceKnown
  <1>9. cpc' = "return" => max' = 0
    BY <1>2, <1>5, <1>6
  <1>10. cpc' = "list" => max' > 0 /\ n < max
    BY <1>2, <1>5, <1>6
  <1>11. StillWanted' /\ LessMeansAllChecked'
    BY <1>1, <1>3, <1>5, <1>9, <1>10 DEF StillWanted, LessMeansAllChecked
  <1>12. WayChecked'
    <2> SUFFICES ASSUME cpc' = "list"
                 PROVE  CheckedAfter(ptr)' /\ (best' # NoProducer => best' \in short')
      BY <1>5 DEF WayChecked
    <2>1. best # NoProducer => best \in short
      BY <1>1, <1>3 DEF WayChecked
    <2>2. ptr + 1 .. listed \subseteq short
      BY <1>1, <1>3 DEF WayChecked, CheckedAfter
    <2>3. ptr \in short' /\ short \subseteq short'
      BY <1>6, <1>10
    <2>4. listed \in Int /\ ptr \in Int
      BY <1>1, <1>2, ListedTyped
    <2>5. (ptr - 1) + 1 .. listed \subseteq short'
      BY <2>2, <2>3, <2>4, CheckedOne
    <2> QED
      BY <1>3, <2>1, <2>3, <2>5 DEF CheckedAfter
  <1> QED
    BY <1>7, <1>8, <1>11, <1>12 DEF FrontEndInv

LEMMA PassBestStep ==
    ASSUME FrontEndInv, PassBest PROVE FrontEndInv'
  <1>1. TypeOK /\ PlaceKnown /\ StillWanted /\ WayChecked
    BY DEF FrontEndInv
  <1>2. linked \in Nat /\ ptr \in Nat /\ ptr <= linked /\ best \in Nat
    BY <1>1, Typed
  <1>3. /\ cpc = "list"
        /\ \/ ptr = 0 /\ cpc' = "return" /\ ptr' = ptr
           \/ ptr # 0 /\ ptr = best /\ cpc' = "list" /\ ptr' = ptr - 1
        /\ UNCHANGED <<linked, producerCount, waiting, globalExplicitConsumerOffset, token,
                       op, max, tail, nonEmptyCount, best, bestSize, rivals, listed, short>>
    BY DEF PassBest, list, scan, history, NoProducer, NextProd
  <1>4. TypeOK'
    <2>1. ptr' \in 0 .. linked
      BY <1>2, <1>3
    <2> QED
      BY <1>1, <1>3, <2>1 DEF TypeOK
  <1>5. PlaceKnown' /\ StillWanted'
    BY <1>1, <1>3 DEF PlaceKnown, StillWanted
  <1>6. ptr + 1 .. listed \subseteq short
    BY <1>1, <1>3 DEF WayChecked, CheckedAfter
  <1>7. CASE ptr = 0
    <2>1. 1 .. listed \subseteq short
      BY <1>6, <1>7
    <2> QED
      BY <1>3, <1>4, <1>5, <1>7, <2>1 DEF FrontEndInv, WayChecked, LessMeansAllChecked
  <1>8. CASE ptr # 0
    <2>1. ptr \in short
      BY <1>1, <1>3, <1>8 DEF WayChecked, NoProducer
    <2>2. listed \in Int /\ ptr \in Int
      BY <1>1, <1>2, ListedTyped
    <2>3. (ptr - 1) + 1 .. listed \subseteq short
      BY <1>6, <2>1, <2>2, CheckedOne
    <2>4. CheckedAfter(ptr)' /\ (best' # NoProducer => best' \in short')
      BY <1>1, <1>3, <1>8, <2>3 DEF CheckedAfter, WayChecked
    <2> QED
      BY <1>3, <1>4, <1>5, <1>8, <2>4 DEF FrontEndInv, WayChecked, LessMeansAllChecked
  <1> QED
    BY <1>7, <1>8

-----------------------------------------------------------------------------
(* With a token *)

LEMMA CheckRotationStep ==
    ASSUME FrontEndInv, CheckRotation PROVE FrontEndInv'
  <1>1. TypeOK /\ PlaceKnown /\ StillWanted
    BY DEF FrontEndInv
  <1>2. /\ cpc = "token" /\ cpc' \in {"rotation", "current"}
        /\ cpc' = "current" => token.desiredProducer # NoProducer
        /\ UNCHANGED <<linked, producerCount, waiting, globalExplicitConsumerOffset, token,
                       op, max, tail, ptr, nonEmptyCount, best, bestSize, rivals, listed,
                       short>>
    BY DEF CheckRotation, list, scan, history
  <1>3. cpc' = "current" => token'.currentProducer # NoProducer
    BY <1>1, <1>2 DEF PlaceKnown
  <1>4. TypeOK'
    BY <1>1, <1>2, <1>3 DEF TypeOK
  <1>5. PlaceKnown' /\ StillWanted' /\ WayChecked' /\ LessMeansAllChecked'
    BY <1>1, <1>2 DEF PlaceKnown, StillWanted, WayChecked, LessMeansAllChecked
  <1> QED
    BY <1>4, <1>5 DEF FrontEndInv

LEMMA LoadTailStep ==
    ASSUME FrontEndInv, LoadTail PROVE FrontEndInv'
  <1>1. TypeOK /\ PlaceKnown /\ StillWanted
    BY DEF FrontEndInv
  <1>2. /\ linked \in Nat /\ token.desiredProducer \in Nat
        /\ token.desiredProducer <= linked /\ listed \in Nat /\ listed <= linked
    BY <1>1, Typed, ListedTyped
  <1>3. /\ cpc = "rotation" /\ tail' = linked
        /\ \/ cpc' = "return" /\ linked = 0
           \/ cpc' = "rotate" /\ (token.desiredProducer # 0 \/ linked # 0)
        /\ UNCHANGED <<linked, producerCount, waiting, globalExplicitConsumerOffset, token,
                       op, max, ptr, nonEmptyCount, best, bestSize, rivals, listed, short>>
    BY DEF LoadTail, list, scan, history, NoProducer
  <1>4. TypeOK'
    <2>1. linked \in 0 .. linked
      BY <1>2, Ends
    <2> QED
      BY <1>1, <1>3, <2>1 DEF TypeOK
  <1>5. cpc' = "rotate" => tail' # 0
    BY <1>2, <1>3
  <1>6. PlaceKnown'
    BY <1>1, <1>3, <1>5 DEF PlaceKnown, NoProducer
  <1>7. StillWanted' /\ WayChecked'
    BY <1>1, <1>3 DEF StillWanted, WayChecked
  <1>8. LessMeansAllChecked'
    <2> SUFFICES ASSUME cpc' = "return" PROVE 1 .. listed' \subseteq short'
      BY DEF LessMeansAllChecked
    <2>1. listed' = 0
      BY <1>2, <1>3
    <2>2. 1 .. 0 = {}
      OBVIOUS
    <2> QED
      BY <2>1, <2>2
  <1> QED
    BY <1>4, <1>6, <1>7, <1>8 DEF FrontEndInv

\* A token comes to a producer that is on the list.
LEMMA RotateStep ==
    ASSUME FrontEndInv, Rotate PROVE FrontEndInv'
  <1>1. TypeOK /\ PlaceKnown /\ StillWanted
    BY DEF FrontEndInv
  <1>2. /\ linked \in Nat /\ linked <= producerCount /\ producerCount \in Nat
        /\ tail \in Nat /\ tail <= linked
        /\ globalExplicitConsumerOffset \in Offsets /\ globalExplicitConsumerOffset \in Nat
        /\ token.lastKnownGlobalOffset \in Nat
        /\ token.desiredProducer \in Nat
        /\ Span \in Nat /\ Span > 1
    BY <1>1, Typed, Constants
  <1>3. token \in [lastKnownGlobalOffset : Offsets, itemsConsumedFromCurrent : Offsets,
                   currentProducer : 0 .. linked, desiredProducer : 0 .. linked]
    BY <1>1, Typed
  <1>4. /\ cpc = "rotate" /\ cpc' = "current" /\ tail' = 0
        /\ UNCHANGED <<linked, producerCount, waiting, globalExplicitConsumerOffset,
                       op, max, ptr, nonEmptyCount, best, bestSize, rivals, listed, short>>
    BY DEF Rotate, list, scan, history, NoProducer
  <1>5. PICK desired \in Desired :
          token' = [token EXCEPT
              !.desiredProducer = Onward(desired, Delta, tail),
              !.currentProducer = Onward(desired, Delta, tail),
              !.lastKnownGlobalOffset = globalExplicitConsumerOffset,
              !.itemsConsumedFromCurrent = 0]
    BY DEF Rotate
  <1>6. tail > 0 /\ producerCount > 0
    BY <1>1, <1>2, <1>4 DEF PlaceKnown, NoProducer
  <1>7. desired \in Int
    <2>1. ASSUME NEW o \in 0 .. producerCount - 1 PROVE FirstDesired(o) \in Int
      <3>1. o % producerCount \in 0 .. producerCount - 1
        BY <1>2, <1>6, Remainder
      <3>2. producerCount - 1 - (o % producerCount) \in Int
        BY <1>2, <3>1
      <3>3. Onward(tail, producerCount - 1 - (o % producerCount), tail) \in 1 .. tail
        BY <1>2, <1>6, <3>2, OnwardStays
      <3> QED
        BY <1>2, <3>3 DEF FirstDesired
    <2>2. desired = token.desiredProducer \/ \E o \in 0 .. producerCount - 1 : desired = FirstDesired(o)
      BY <1>5 DEF Desired
    <2> QED
      BY <1>2, <2>1, <2>2
  <1>8. Delta \in Int
    <2>1. globalExplicitConsumerOffset - token.lastKnownGlobalOffset \in Int
      BY <1>2
    <2>2. (globalExplicitConsumerOffset - token.lastKnownGlobalOffset) % Span \in 0 .. Span - 1
      BY <1>2, <2>1, Remainder
    <2>3. (globalExplicitConsumerOffset - token.lastKnownGlobalOffset) % Span \in Int
      BY <1>2, <2>2
    <2>4. Delta \in 0 .. producerCount - 1
      BY <1>2, <1>6, <2>3, Remainder DEF Delta
    <2> QED
      BY <1>2, <2>4
  <1>9. PICK here : here = Onward(desired, Delta, tail)
    OBVIOUS
  <1>10. here \in 0 .. linked /\ here # 0
    <2>1. here \in 1 .. tail
      BY <1>2, <1>6, <1>7, <1>8, <1>9, OnwardStays
    <2> QED
      BY <1>2, <2>1
  <1>11. token' = [token EXCEPT !.desiredProducer = here, !.currentProducer = here,
                                !.lastKnownGlobalOffset = globalExplicitConsumerOffset,
                                !.itemsConsumedFromCurrent = 0]
    BY <1>5, <1>9
  <1>12. 0 \in Offsets
    BY <1>2 DEF Offsets
  <1>13. /\ token' \in [lastKnownGlobalOffset : Offsets, itemsConsumedFromCurrent : Offsets,
                        currentProducer : 0 .. linked, desiredProducer : 0 .. linked]
         /\ token'.currentProducer = here /\ token'.desiredProducer = here
    BY <1>2, <1>3, <1>10, <1>11, <1>12
  <1>14. TypeOK'
    <2>1. 0 \in 0 .. linked
      BY <1>2, Ends
    <2> QED
      BY <1>1, <1>4, <1>10, <1>13, <2>1 DEF TypeOK, NoProducer
  <1>15. PlaceKnown'
    BY <1>1, <1>4, <1>10, <1>13 DEF PlaceKnown, NoProducer
  <1>16. StillWanted' /\ WayChecked' /\ LessMeansAllChecked'
    BY <1>1, <1>4 DEF StillWanted, WayChecked, LessMeansAllChecked
  <1> QED
    BY <1>14, <1>15, <1>16 DEF FrontEndInv

LEMMA TryCurrentStep ==
    ASSUME FrontEndInv, TryCurrent PROVE FrontEndInv'
  <1>1. TypeOK /\ PlaceKnown /\ StillWanted
    BY DEF FrontEndInv
  <1>2. /\ linked \in Nat /\ linked <= MaxProducers /\ MaxProducers \in Nat /\ max \in Nat
        /\ token.currentProducer \in Nat /\ token.currentProducer <= linked
        /\ token.itemsConsumedFromCurrent \in Nat /\ Span \in Nat /\ Span > 1
        /\ token \in [lastKnownGlobalOffset : Offsets, itemsConsumedFromCurrent : Offsets,
                      currentProducer : 0 .. linked, desiredProducer : 0 .. linked]
    BY <1>1, Typed, Constants
  <1>3. /\ cpc = "current"
        /\ UNCHANGED <<linked, producerCount, globalExplicitConsumerOffset, op, tail, ptr,
                       nonEmptyCount, best, bestSize, rivals, listed>>
    BY DEF TryCurrent, list, scan
  <1>4. PICK k : k = token.currentProducer
    OBVIOUS
  <1>5. k # 0 /\ k \in Producers /\ max > 0
    <2>1. token.currentProducer # NoProducer /\ max > 0
      BY <1>1, <1>3 DEF TypeOK, StillWanted
    <2>2. k # 0
      BY <1>4, <2>1 DEF NoProducer
    <2> QED
      BY <1>2, <1>4, <2>1, <2>2 DEF Producers
  <1>6. PICK n : LET consumed == (token.itemsConsumedFromCurrent + n) % Span IN
          /\ Dequeue(k, n)
          /\ token' = [token EXCEPT !.itemsConsumedFromCurrent = consumed]
          /\ cpc' = CASE n < max -> "walk tail"
                      [] n = max /\ QuotaReached(consumed) -> "announce"
                      [] OTHER -> "return"
    BY <1>4 DEF TryCurrent
  <1>7. /\ n \in Nat /\ n <= max /\ max' = max - n /\ max' \in Nat
        /\ waiting' \in [Producers -> 0 .. Capacity] /\ (n < max => k \in short')
    BY <1>1, <1>5, <1>6, DequeueDoes
  <1>8. PICK consumed : consumed = (token.itemsConsumedFromCurrent + n) % Span
    OBVIOUS
  <1>9. consumed \in Offsets
    <2>1. token.itemsConsumedFromCurrent + n \in Int
      BY <1>2, <1>7
    <2> QED
      BY <1>2, <1>8, <2>1, Remainder DEF Offsets
  <1>10. token' = [token EXCEPT !.itemsConsumedFromCurrent = consumed]
    BY <1>6, <1>8
  <1>11. /\ token' \in [lastKnownGlobalOffset : Offsets, itemsConsumedFromCurrent : Offsets,
                        currentProducer : 0 .. linked, desiredProducer : 0 .. linked]
         /\ token'.currentProducer = k /\ token'.desiredProducer = token.desiredProducer
    BY <1>2, <1>4, <1>9, <1>10
  <1>12. \/ n < max /\ cpc' = "walk tail"
         \/ n = max /\ cpc' \in {"announce", "return"}
    <2>1. cpc' = CASE n < max -> "walk tail"
                   [] n = max /\ QuotaReached(consumed) -> "announce"
                   [] OTHER -> "return"
      BY <1>6, <1>8
    <2>2. (n < max /\ n # max) \/ (n = max /\ ~(n < max))
      <3>1. n \in Nat /\ max \in Nat /\ n <= max
        BY <1>2, <1>7
      <3> QED
        BY <3>1
    <2>3. PICK less, reached : /\ less = (n < max)
                               /\ reached = (n = max /\ QuotaReached(consumed))
      OBVIOUS
    <2>4. cpc' = CASE less -> "walk tail" [] reached -> "announce" [] OTHER -> "return"
      BY <2>1, <2>3
    <2>5. CASE n < max /\ n # max
      BY <2>3, <2>4, <2>5
    <2>6. CASE n = max /\ ~(n < max)
      BY <2>3, <2>4, <2>6
    <2> QED
      BY <2>2, <2>5, <2>6
  <1>13. TypeOK'
    BY <1>1, <1>3, <1>5, <1>7, <1>11, <1>12 DEF TypeOK, NoProducer
  <1>14. PlaceKnown'
    BY <1>1, <1>3, <1>5, <1>11, <1>12 DEF PlaceKnown, NoProducer
  <1>15. (n < max => max' > 0) /\ (n = max => max' = 0)
    BY <1>2, <1>7
  <1>16. StillWanted' /\ LessMeansAllChecked'
    <2>1. listed' \in 0 .. linked'
      BY <1>1, <1>3 DEF StillWanted
    <2>2. \/ cpc' = "walk tail" /\ max' > 0
          \/ cpc' \in {"announce", "return"} /\ max' = 0
      BY <1>12, <1>15
    <2> QED
      <3>1. CASE cpc' = "walk tail" /\ max' > 0
        BY <2>1, <3>1 DEF StillWanted, LessMeansAllChecked
      <3>2. CASE cpc' \in {"announce", "return"} /\ max' = 0
        <4>1. ~(max' > 0) /\ cpc' \in {"announce", "return"}
          BY <3>2
        <4>2. LessMeansAllChecked'
          BY <4>1 DEF LessMeansAllChecked
        <4>3. StillWanted'
          BY <2>1, <3>2 DEF StillWanted
        <4> QED
          BY <4>2, <4>3
      <3> QED
        BY <2>2, <3>1, <3>2
  <1>17. WayChecked'
    BY <1>7, <1>11, <1>12 DEF WayChecked
  <1> QED
    BY <1>13, <1>14, <1>16, <1>17 DEF FrontEndInv

LEMMA AnnounceStep ==
    ASSUME FrontEndInv, Announce PROVE FrontEndInv'
  <1>1. TypeOK /\ PlaceKnown /\ StillWanted
    BY DEF FrontEndInv
  <1>2. globalExplicitConsumerOffset \in Nat /\ Span \in Nat /\ Span > 1
    BY <1>1, Typed, Constants
  <1>3. /\ cpc = "announce" /\ cpc' = "return"
        /\ globalExplicitConsumerOffset' = (globalExplicitConsumerOffset + 1) % Span
        /\ UNCHANGED <<linked, producerCount, waiting, token, op, max, tail, ptr,
                       nonEmptyCount, best, bestSize, rivals, listed, short>>
    BY DEF Announce, list, scan, history
  <1>4. globalExplicitConsumerOffset' \in Offsets
    BY <1>2, <1>3, Remainder DEF Offsets
  <1>5. TypeOK'
    BY <1>1, <1>3, <1>4 DEF TypeOK
  <1>6. max' = 0
    BY <1>1, <1>3 DEF StillWanted
  <1>7. PlaceKnown' /\ StillWanted' /\ WayChecked' /\ LessMeansAllChecked'
    BY <1>1, <1>3, <1>6 DEF PlaceKnown, StillWanted, WayChecked, LessMeansAllChecked
  <1> QED
    BY <1>5, <1>7 DEF FrontEndInv

-----------------------------------------------------------------------------
(* Round the list *)

LEMMA AroundStays ==
    ASSUME NEW k \in Nat, NEW t \in Nat, k > 0, k <= t
    PROVE  /\ Around(k, t) \in 1 .. t
           /\ k = 1 => Around(k, t) = t
           /\ k > 1 => Around(k, t) = k - 1
  BY DEF Around, NextProd, NoProducer

\* From c round to p, in a list of t producers; Round has the state's.
Checked(c, p, t) == IF p < c THEN p + 1 .. c ELSE (1 .. c) \cup (p + 1 .. t)

\* The walk begins with the current producer checked ...
LEMMA WalkBegins ==
    ASSUME NEW c \in Nat, NEW t \in Nat, c > 0, c <= t
    PROVE  Checked(c, Around(c, t), t) = {c}
  <1>1. CASE c = 1
    <2>1. Around(c, t) = t
      BY <1>1, AroundStays
    <2>2. Checked(c, t, t) = 1 .. 1
      BY <1>1 DEF Checked
    <2>3. 1 .. 1 = {1}
      OBVIOUS
    <2> QED
      BY <1>1, <2>1, <2>2, <2>3
  <1>2. CASE c > 1
    <2>1. Around(c, t) = c - 1
      BY <1>2, AroundStays
    <2>2. Checked(c, c - 1, t) = (c - 1) + 1 .. c
      BY <1>2 DEF Checked
    <2>3. (c - 1) + 1 .. c = {c}
      OBVIOUS
    <2> QED
      BY <2>1, <2>2, <2>3
  <1> QED
    BY <1>1, <1>2

\* ... adds one with each producer it leaves ...
LEMMA WalkAdds ==
    ASSUME NEW c \in Nat, NEW p \in Nat, NEW t \in Nat, c > 0, c <= t, p > 0, p <= t, p # c
    PROVE  Checked(c, Around(p, t), t) \subseteq Checked(c, p, t) \cup {p}
  <1>1. CASE p = 1
    <2>1. Around(p, t) = t
      BY <1>1, AroundStays
    <2>2. Checked(c, p, t) = 2 .. c
      BY <1>1 DEF Checked
    <2>3. ASSUME NEW i \in Checked(c, t, t) PROVE i \in 2 .. c \/ i = 1
      BY <2>3 DEF Checked
    <2> QED
      BY <1>1, <2>1, <2>2, <2>3
  <1>2. CASE p > 1 /\ p < c
    <2>1. Around(p, t) = p - 1
      BY <1>2, AroundStays
    <2>2. Checked(c, p, t) = p + 1 .. c /\ Checked(c, p - 1, t) = (p - 1) + 1 .. c
      BY <1>2 DEF Checked
    <2>3. ASSUME NEW i \in (p - 1) + 1 .. c PROVE i \in p + 1 .. c \/ i = p
      OBVIOUS
    <2> QED
      BY <2>1, <2>2, <2>3
  <1>3. CASE p > c
    <2>1. Around(p, t) = p - 1 /\ ~(p - 1 < c) /\ ~(p < c)
      BY <1>3, AroundStays
    <2>2. /\ Checked(c, p, t) = (1 .. c) \cup (p + 1 .. t)
          /\ Checked(c, p - 1, t) = (1 .. c) \cup ((p - 1) + 1 .. t)
      BY <2>1 DEF Checked
    <2>3. ASSUME NEW i \in (p - 1) + 1 .. t PROVE i \in p + 1 .. t \/ i = p
      OBVIOUS
    <2> QED
      BY <2>1, <2>2, <2>3
  <1> QED
    BY <1>1, <1>2, <1>3

\* ... and ends with all.
LEMMA WalkEnded ==
    ASSUME NEW c \in Nat, NEW t \in Nat, NEW l \in Nat, c > 0, c <= t, l <= t
    PROVE  1 .. l \subseteq Checked(c, c, t)
  <1>1. Checked(c, c, t) = (1 .. c) \cup (c + 1 .. t)
    BY DEF Checked
  <1>2. ASSUME NEW i \in 1 .. l PROVE i \in 1 .. c \/ i \in c + 1 .. t
    OBVIOUS
  <1> QED
    BY <1>1, <1>2

LEMMA StartWalkStep ==
    ASSUME FrontEndInv, StartWalk PROVE FrontEndInv'
  <1>1. TypeOK /\ PlaceKnown /\ StillWanted /\ WayChecked
    BY DEF FrontEndInv
  <1>2. /\ linked \in Nat /\ token.currentProducer \in Nat
        /\ token.currentProducer <= linked /\ listed \in Nat /\ listed <= linked
    BY <1>1, Typed, ListedTyped
  <1>3. /\ cpc = "walk tail" /\ cpc' = "walk" /\ tail' = linked
        /\ ptr' = Around(token.currentProducer, linked)
        /\ UNCHANGED <<linked, producerCount, waiting, globalExplicitConsumerOffset, token,
                       op, max, nonEmptyCount, best, bestSize, rivals, listed, short>>
    BY DEF StartWalk, list, scan, history
  <1>4. PICK c \in Nat : c = token.currentProducer
    BY <1>2
  <1>5. c > 0
    <2>1. token.currentProducer # NoProducer
      BY <1>1, <1>3 DEF TypeOK
    <2> QED
      BY <1>4, <2>1 DEF NoProducer
  <1>6. ptr' \in 1 .. linked
    BY <1>2, <1>3, <1>4, <1>5, AroundStays
  <1>7. TypeOK'
    <2>1. ptr' \in 0 .. linked /\ linked \in 0 .. linked
      BY <1>2, <1>6, Ends
    <2> QED
      BY <1>1, <1>3, <1>4, <1>5, <2>1 DEF TypeOK, NoProducer
  <1>8. PlaceKnown' /\ StillWanted' /\ LessMeansAllChecked'
    BY <1>1, <1>3 DEF PlaceKnown, StillWanted, LessMeansAllChecked
  <1>9. WayChecked'
    <2>1. c \in short
      BY <1>1, <1>3, <1>4 DEF WayChecked
    <2>2. Checked(c, Around(c, linked), linked) = {c}
      BY <1>2, <1>4, <1>5, WalkBegins
    <2>3. Round' = Checked(c, ptr', linked)
      BY <1>3, <1>4 DEF Round, Checked
    <2>4. Round' \subseteq short'
      BY <1>3, <1>4, <2>1, <2>2, <2>3
    <2> QED
      BY <1>2, <1>3, <1>4, <1>6, <2>4 DEF WayChecked
  <1> QED
    BY <1>7, <1>8, <1>9 DEF FrontEndInv

LEMMA WalkOnStep ==
    ASSUME FrontEndInv, WalkOn PROVE FrontEndInv'
  <1>1. TypeOK /\ PlaceKnown /\ StillWanted /\ WayChecked
    BY DEF FrontEndInv
  <1>2. /\ linked \in Nat /\ linked <= MaxProducers /\ MaxProducers \in Nat /\ max \in Nat
        /\ token.currentProducer \in Nat /\ tail \in Nat /\ tail <= linked /\ ptr \in Nat
        /\ Span \in Nat /\ Span > 1
        /\ token \in [lastKnownGlobalOffset : Offsets, itemsConsumedFromCurrent : Offsets,
                      currentProducer : 0 .. linked, desiredProducer : 0 .. linked]
    BY <1>1, Typed, Constants
  <1>3. /\ cpc = "walk" /\ ptr # token.currentProducer /\ ptr' = Around(ptr, tail)
        /\ UNCHANGED <<linked, producerCount, globalExplicitConsumerOffset, op, tail,
                       nonEmptyCount, best, bestSize, rivals, listed>>
    BY DEF WalkOn, list, scan
  <1>4. PICK c \in Nat, p \in Nat, t \in Nat : c = token.currentProducer /\ p = ptr /\ t = tail
    BY <1>2
  <1>5. c > 0
    <2>1. token.currentProducer # NoProducer
      BY <1>1, <1>3 DEF TypeOK
    <2> QED
      BY <1>4, <2>1 DEF NoProducer
  <1>6. listed <= t /\ c <= t /\ p \in 1 .. t /\ Checked(c, p, t) \subseteq short
    BY <1>1, <1>3, <1>4 DEF WayChecked, Round, Checked
  <1>7. p > 0 /\ p <= t /\ p # c /\ p \in Producers /\ t <= linked
    BY <1>2, <1>3, <1>4, <1>6 DEF Producers
  <1>8. max > 0
    BY <1>1, <1>3 DEF StillWanted
  <1>9. PICK n : /\ Dequeue(p, n)
                 /\ token' = IF n = 0 THEN token
                             ELSE [token EXCEPT !.currentProducer = p,
                                                !.itemsConsumedFromCurrent = n % Span]
                 /\ cpc' = IF n = max THEN "return" ELSE "walk"
    BY <1>4 DEF WalkOn
  <1>10. /\ n \in Nat /\ n <= max /\ max' = max - n /\ max' \in Nat
         /\ waiting' \in [Producers -> 0 .. Capacity]
         /\ short \subseteq short' /\ (n < max => p \in short')
    BY <1>1, <1>7, <1>9, DequeueDoes
  <1>11. ptr' = Around(p, t) /\ ptr' \in 1 .. t
    BY <1>3, <1>4, <1>7, AroundStays
  <1>12. PICK d \in Nat : d = IF n = 0 THEN c ELSE p
    OBVIOUS
  <1>13. /\ token' \in [lastKnownGlobalOffset : Offsets, itemsConsumedFromCurrent : Offsets,
                        currentProducer : 0 .. linked, desiredProducer : 0 .. linked]
         /\ token'.currentProducer = d /\ token'.desiredProducer = token.desiredProducer
    <2>1. CASE n = 0
      BY <1>2, <1>4, <1>9, <1>12, <2>1
    <2>2. CASE n # 0
      <3>1. PICK o : o = n % Span
        OBVIOUS
      <3>2. o \in Offsets
        BY <1>2, <1>10, <3>1, Remainder DEF Offsets
      <3>3. p \in 0 .. linked
        BY <1>2, <1>7
      <3>4. token' = [token EXCEPT !.currentProducer = p, !.itemsConsumedFromCurrent = o]
        BY <1>9, <2>2, <3>1
      <3> QED
        BY <1>2, <1>12, <2>2, <3>2, <3>3, <3>4
    <2> QED
      BY <2>1, <2>2
  <1>14. d > 0 /\ d <= t
    BY <1>5, <1>6, <1>7, <1>12
  <1>15. TypeOK'
    <2>1. ptr' \in 0 .. linked
      BY <1>2, <1>7, <1>11
    <2>2. cpc' \in {"return", "walk"}
      BY <1>9
    <2>3. token'.currentProducer # NoProducer
      BY <1>13, <1>14 DEF NoProducer
    <2> QED
      BY <1>1, <1>3, <1>10, <1>13, <2>1, <2>2, <2>3 DEF TypeOK
  <1>16. PlaceKnown'
    <2>1. token'.currentProducer # NoProducer
      BY <1>13, <1>14 DEF NoProducer
    <2> QED
      BY <1>1, <1>3, <1>9, <2>1 DEF PlaceKnown
  <1>17. (cpc' = "return" => max' = 0) /\ (cpc' = "walk" => n < max /\ max' > 0)
    BY <1>2, <1>9, <1>10
  <1>18. StillWanted' /\ LessMeansAllChecked'
    <2>1. listed' \in 0 .. linked'
      BY <1>1, <1>3 DEF StillWanted
    <2> QED
      BY <1>9, <1>17, <2>1 DEF StillWanted, LessMeansAllChecked
  <1>19. WayChecked'
    <2> SUFFICES ASSUME cpc' = "walk"
                 PROVE  /\ listed <= t /\ d <= t /\ ptr' \in 1 .. t
                        /\ Checked(d, ptr', t) \subseteq short'
      BY <1>3, <1>4, <1>9, <1>13 DEF WayChecked, Round, Checked
    <2>1. p \in short'
      BY <1>10, <1>17
    <2>2. CASE n = 0
      <3>1. Checked(c, Around(p, t), t) \subseteq Checked(c, p, t) \cup {p}
        BY <1>5, <1>6, <1>7, WalkAdds
      <3> QED
        BY <1>6, <1>10, <1>11, <1>12, <2>1, <2>2, <3>1
    <2>3. CASE n # 0
      <3>1. Checked(p, Around(p, t), t) = {p}
        BY <1>7, WalkBegins
      <3> QED
        BY <1>6, <1>7, <1>11, <1>12, <2>1, <2>3, <3>1
    <2> QED
      BY <2>2, <2>3
  <1> QED
    BY <1>15, <1>16, <1>18, <1>19 DEF FrontEndInv

LEMMA WalkEndsStep ==
    ASSUME FrontEndInv, WalkEnds PROVE FrontEndInv'
  <1>1. TypeOK /\ PlaceKnown /\ StillWanted /\ WayChecked
    BY DEF FrontEndInv
  <1>2. token.currentProducer \in Nat /\ tail \in Nat /\ listed \in Nat
    BY <1>1, Typed, ListedTyped
  <1>3. /\ cpc = "walk" /\ ptr = token.currentProducer /\ cpc' = "return"
        /\ UNCHANGED <<linked, producerCount, waiting, globalExplicitConsumerOffset, token,
                       op, max, tail, ptr, nonEmptyCount, best, bestSize, rivals, listed,
                       short>>
    BY DEF WalkEnds, list, scan, history
  <1>4. TypeOK'
    BY <1>1, <1>3 DEF TypeOK
  <1>5. PlaceKnown' /\ StillWanted' /\ WayChecked'
    BY <1>1, <1>3 DEF PlaceKnown, StillWanted, WayChecked
  <1>6. LessMeansAllChecked'
    <2>1. PICK c \in Nat, t \in Nat : c = token.currentProducer /\ t = tail
      BY <1>2
    <2>2. listed <= t /\ c <= t /\ Checked(c, c, t) \subseteq short
      BY <1>1, <1>3, <2>1 DEF WayChecked, Round, Checked
    <2>3. c > 0
      <3>1. token.currentProducer # NoProducer
        BY <1>1, <1>3 DEF TypeOK
      <3> QED
        BY <2>1, <3>1 DEF NoProducer
    <2>4. 1 .. listed \subseteq Checked(c, c, t)
      BY <1>2, <2>2, <2>3, WalkEnded
    <2> QED
      BY <1>3, <2>2, <2>4 DEF LessMeansAllChecked
  <1> QED
    BY <1>4, <1>5, <1>6 DEF FrontEndInv

-----------------------------------------------------------------------------
(* The invariant *)

LEMMA InitFrontEnd == ASSUME Init PROVE FrontEndInv
  <1>1. /\ MaxProducers \in Nat /\ Capacity \in Nat /\ NonEmptyEnough \in Nat
        /\ Span \in Nat /\ Span > 1
    BY Constants
  <1>2. /\ linked = 0 /\ producerCount = 0 /\ waiting = [k \in Producers |-> 0]
        /\ globalExplicitConsumerOffset = 0
        /\ token = [lastKnownGlobalOffset |-> Span - 1, itemsConsumedFromCurrent |-> 0,
                    currentProducer |-> 0, desiredProducer |-> 0]
        /\ cpc = "idle" /\ op = "none" /\ max = 0 /\ tail = 0 /\ ptr = 0
        /\ nonEmptyCount = 0 /\ best = 0 /\ bestSize = 0 /\ rivals = FALSE /\ listed = 0
    BY DEF Init, NoProducer
  <1>3. TypeOK
    <2>1. linked \in Pointers /\ producerCount \in linked .. MaxProducers
      BY <1>1, <1>2 DEF Pointers
    <2>2. 0 \in Offsets /\ Span - 1 \in Offsets
      BY <1>1 DEF Offsets
    <2>3. 0 \in 0 .. 0 /\ 0 \in 0 .. NonEmptyEnough /\ 0 \in 0 .. Capacity
      BY <1>1
    <2>4. waiting \in [Producers -> 0 .. Capacity]
      BY <1>2, <2>3
    <2>5. token \in [lastKnownGlobalOffset : Offsets, itemsConsumedFromCurrent : Offsets,
                     currentProducer : 0 .. linked, desiredProducer : 0 .. linked]
      BY <1>2, <2>2, <2>3
    <2> QED
      BY <1>2, <2>1, <2>2, <2>3, <2>4, <2>5 DEF TypeOK
  <1>4. PlaceKnown /\ WayChecked /\ LessMeansAllChecked
    BY <1>2 DEF PlaceKnown, WayChecked, LessMeansAllChecked, NoProducer
  <1>5. StillWanted
    BY <1>2 DEF StillWanted
  <1> QED
    BY <1>3, <1>4, <1>5 DEF FrontEndInv

LEMMA One == 1 \in Nat /\ 1 > 0
  OBVIOUS

LEMMA NextFrontEnd == ASSUME FrontEndInv, Next PROVE FrontEndInv'
  <1>1. ASSUME NEW o \in {"try_dequeue", "in order", "token"}, Call(o, 1)
        PROVE  FrontEndInv'
    BY <1>1, One, CallStep
  <1>2. ASSUME NEW o \in {"in order", "bulk token"}, NEW n \in BulkSizes, Call(o, n)
        PROVE  FrontEndInv'
    <2>1. n \in Nat /\ n > 0
      BY Constants
    <2> QED
      BY <1>2, <2>1, CallStep
  <1>3. CASE InsideCall
    BY <1>3, LookAtSizeStep, SizesKnownStep, TryBestStep, TryNextStep, PassBestStep,
       CheckRotationStep, LoadTailStep, RotateStep, TryCurrentStep, AnnounceStep,
       StartWalkStep, WalkOnStep, WalkEndsStep, ReturnStep DEF InsideCall
  <1> QED
    BY <1>1, <1>2, <1>3, OthersStep DEF Next

\* The invariant the theorems rest on holds in every state: producers and elements come,
\* other consumers take them and rotate, at any moment of the call.
THEOREM FrontEndInvariant == Spec => []FrontEndInv
  <1>1. Init => FrontEndInv
    BY InitFrontEnd
  <1>2. FrontEndInv /\ [Next]_vars => FrontEndInv'
    BY NextFrontEnd, OthersStep
  <1> QED
    BY <1>1, <1>2, PTL DEF Spec

\* Every variable keeps its type; the pointers of calls and tokens are null or point to
\* producers on the list, and offsets and counts wrap within their width.
THEOREM FrontEndTypes == Spec => []TypeOK
  <1>1. FrontEndInv => TypeOK
    BY DEF FrontEndInv
  <1> QED
    BY <1>1, FrontEndInvariant, PTL

\* A dequeue operation, with or without a token, of one element or several, returns less
\* than it was asked for only after every producer listed when it began has given it less
\* than it wanted: neither the early end of try_dequeue's heuristic nor a token's walk
\* that changes its current producer on the way leaves one out.
THEOREM LessOnlyAfterAll == Spec => []LessMeansAllChecked
  <1>1. FrontEndInv => LessMeansAllChecked
    BY DEF FrontEndInv
  <1> QED
    BY <1>1, FrontEndInvariant, PTL

=============================================================================
