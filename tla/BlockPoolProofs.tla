-------------------------- MODULE BlockPoolProofs ---------------------------
(***************************************************************************)
(* Theorems about BlockPool, for every number of threads and of blocks:    *)
(* the free list's counts are exact, every block has one owner, and the    *)
(* pool is the one that the sub-queues rely on.                            *)
(***************************************************************************)
EXTENDS BlockPool, FiniteSetTheorems, TLAPS

Pointers == Blocks \cup {Null}
Nexts == [Blocks -> Pointers]

-----------------------------------------------------------------------------
(* What the next pointers lead to *)

LEMMA NothingFromNull ==
    ASSUME NEW f \in Nexts PROVE LedTo(f, Null) = {}
  <1>1. {} \in SUBSET Blocks /\ NextClosed(f, {}) /\ Null \in {} \cup {Null}
    BY DEF NextClosed
  <1> QED
    BY <1>1 DEF LedTo

LEMMA LeastClosed ==
    ASSUME NEW f \in Nexts, NEW x \in Pointers
    PROVE  /\ LedTo(f, x) \in SUBSET Blocks
           /\ NextClosed(f, LedTo(f, x))
           /\ x \in LedTo(f, x) \cup {Null}
           /\ \A S \in SUBSET Blocks :
                 NextClosed(f, S) /\ x \in S \cup {Null} => LedTo(f, x) \subseteq S
  <1> USE PoolAssumption DEF Nexts, Pointers
  <1>1. LedTo(f, x) \in SUBSET Blocks
    BY DEF LedTo
  <1>2. x \in LedTo(f, x) \cup {Null}
    BY DEF LedTo
  <1>3. ASSUME NEW b \in LedTo(f, x) PROVE f[b] \in LedTo(f, x) \cup {Null}
    <2>1. b \in Blocks /\ f[b] \in Blocks \cup {Null}
      BY <1>1
    <2>2. ASSUME NEW S \in SUBSET Blocks, NextClosed(f, S), x \in S \cup {Null},
                 f[b] # Null
          PROVE  f[b] \in S
      BY <2>1, <2>2 DEF LedTo, NextClosed
    <2> QED
      BY <2>1, <2>2 DEF LedTo
  <1>4. NextClosed(f, LedTo(f, x))
    BY <1>3 DEF NextClosed
  <1> QED
    BY <1>1, <1>2, <1>4 DEF LedTo

\* A block, and what its next pointer leads to.
LEMMA OneStepFurther ==
    ASSUME NEW f \in Nexts, NEW b \in Blocks
    PROVE  LedTo(f, b) = {b} \cup LedTo(f, f[b])
  <1> USE PoolAssumption DEF Nexts, Pointers
  <1>1. f[b] \in Pointers /\ b \in Pointers /\ b # Null
    OBVIOUS
  <1>2. b \in LedTo(f, b) /\ NextClosed(f, LedTo(f, b)) /\ LedTo(f, b) \in SUBSET Blocks
    BY <1>1, LeastClosed
  <1>3. f[b] \in LedTo(f, b) \cup {Null}
    BY <1>2 DEF NextClosed
  <1>4. LedTo(f, f[b]) \subseteq LedTo(f, b)
    BY <1>1, <1>2, <1>3, LeastClosed
  <1> DEFINE T == {b} \cup LedTo(f, f[b])
  <1>5. T \in SUBSET Blocks /\ NextClosed(f, T) /\ b \in T
    BY <1>1, LeastClosed DEF NextClosed
  <1>6. LedTo(f, b) \subseteq T
    BY <1>1, <1>5, LeastClosed
  <1> QED
    BY <1>2, <1>4, <1>6

\* The pointer of a block that is not led to does not matter.
LEMMA RelinkOutside ==
    ASSUME NEW f \in Nexts, NEW x \in Pointers, NEW b \in Blocks \ LedTo(f, x),
           NEW y \in Pointers
    PROVE  LedTo([f EXCEPT ![b] = y], x) = LedTo(f, x)
  <1> DEFINE g == [f EXCEPT ![b] = y]
  <1>1. g \in Nexts /\ \A c \in Blocks \ {b} : g[c] = f[c]
    BY DEF Nexts
  <1> HIDE DEF g
  <1>2. NextClosed(g, LedTo(f, x))
    BY <1>1, LeastClosed DEF NextClosed
  <1>3. LedTo(g, x) \subseteq LedTo(f, x)
    BY <1>1, <1>2, LeastClosed
  <1>4. NextClosed(f, LedTo(g, x))
    <2>1. NextClosed(g, LedTo(g, x)) /\ LedTo(g, x) \in SUBSET Blocks
      BY <1>1, LeastClosed
    <2> QED
      BY <1>1, <1>3, <2>1 DEF NextClosed
  <1>5. LedTo(f, x) \subseteq LedTo(g, x)
    BY <1>1, <1>4, LeastClosed
  <1> QED
    BY <1>3, <1>5 DEF g

\* A circle is impossible in a list that loses its head ...
LEMMA PoppedHead ==
    ASSUME NEW f \in Nexts, NEW h \in Blocks,
           \A b \in LedTo(f, h) : b \notin LedTo(f, f[b])
    PROVE  /\ h \in LedTo(f, h)
           /\ LedTo(f, f[h]) = LedTo(f, h) \ {h}
           /\ \A b \in LedTo(f, f[h]) : b \notin LedTo(f, f[b])
  BY OneStepFurther

\* ... or gets a new one.
LEMMA PushedHead ==
    ASSUME NEW f \in Nexts, NEW h \in Blocks, h \notin LedTo(f, f[h]),
           \A b \in LedTo(f, f[h]) : b \notin LedTo(f, f[b])
    PROVE  /\ LedTo(f, h) = LedTo(f, f[h]) \cup {h}
           /\ \A b \in LedTo(f, h) : b \notin LedTo(f, f[b])
  BY OneStepFurther

-----------------------------------------------------------------------------
(* References *)

LEMMA HoldersFinite ==
    ASSUME NEW b
    PROVE  /\ IsFiniteSet(Holders(b)) /\ Cardinality(Holders(b)) \in Nat
           /\ Cardinality(Holders(b)) = 0 <=> Holders(b) = {}
  <1>1. Holders(b) \in SUBSET Threads /\ IsFiniteSet(Threads)
    BY PoolAssumption DEF Holders
  <1>2. IsFiniteSet(Holders(b))
    BY <1>1, FS_Subset
  <1> QED
    BY <1>2, FS_CardinalityType, FS_EmptySet

\* Two sets that differ in one element at most.
LEMMA CountOneMember ==
    ASSUME NEW H, NEW G, NEW t, IsFiniteSet(H), IsFiniteSet(G), H \ {t} = G \ {t}
    PROVE  Cardinality(G) = Cardinality(H) + (IF t \in G THEN 1 ELSE 0)
                                           - (IF t \in H THEN 1 ELSE 0)
  <1>1. /\ Cardinality(G \ {t}) = IF t \in G THEN Cardinality(G) - 1 ELSE Cardinality(G)
        /\ Cardinality(H \ {t}) = IF t \in H THEN Cardinality(H) - 1 ELSE Cardinality(H)
    BY FS_RemoveElement
  <1>2. Cardinality(G) \in Nat /\ Cardinality(H) \in Nat
    BY FS_CardinalityType
  <1> QED
    BY <1>1, <1>2

\* A step of one thread changes the holders by that thread at most.
OthersStay(t) ==
    \A u \in Threads \ {t} :
        /\ pc'[u] = pc[u] /\ head'[u] = head[u] /\ prevHead'[u] = prevHead[u]
        /\ node'[u] = node[u] /\ refs'[u] = refs[u] /\ next'[u] = next[u]
        /\ listHead'[u] = listHead[u]

LEMMA CountHolders ==
    ASSUME NEW t \in Threads, OthersStay(t), NEW b
    PROVE  /\ Cardinality(Holders(b)') =
                 Cardinality(Holders(b)) + (IF Holds(t, b)' THEN 1 ELSE 0)
                                         - (IF Holds(t, b) THEN 1 ELSE 0)
           /\ Cardinality(Holders(b)') \in Nat
           /\ Holders(b)' \ {t} = Holders(b) \ {t}
           /\ t \in Holders(b)' <=> Holds(t, b)'
  <1>1. Holders(b) \ {t} = Holders(b)' \ {t}
    BY DEF Holders, Holds, OthersStay
  <1>2. IsFiniteSet(Holders(b)) /\ IsFiniteSet(Holders(b)')
    BY FS_Subset, PoolAssumption DEF Holders
  <1>3. (t \in Holders(b) <=> Holds(t, b)) /\ (t \in Holders(b)' <=> Holds(t, b)')
    BY DEF Holders
  <1>4. Cardinality(Holders(b)') =
            Cardinality(Holders(b)) + (IF t \in Holders(b)' THEN 1 ELSE 0)
                                    - (IF t \in Holders(b) THEN 1 ELSE 0)
    BY <1>1, <1>2, CountOneMember
  <1> QED
    BY <1>1, <1>2, <1>3, <1>4, FS_CardinalityType

\* What the count says about the threads that refer to a block.
LEMMA CountsSuffice ==
    ASSUME PoolInv, NEW t \in Threads
    PROVE  /\ pc[t] = "drop" => freeListRefs[head[t]] >= 2
           /\ pc[t] = "release" => freeListRefs[prevHead[t]] >= 1
           /\ pc[t] \in {"next", "pop"} => freeListRefs[head[t]] >= 1
           /\ pc[t] \in {"push", "retry"} => freeListRefs[node[t]] >= 1
  <1> USE DEF PoolInv
  <1>1. ASSUME NEW b \in Blocks
        PROVE  /\ freeListRefs[b] = Cardinality(Holders(b)) + ListRef(b)
               /\ Cardinality(Holders(b)) \in Nat /\ ListRef(b) \in {0, 1}
               /\ Holds(t, b) => Cardinality(Holders(b)) >= 1
    <2>1. Holds(t, b) => Holders(b) # {}
      BY DEF Holders
    <2> QED
      BY <2>1, HoldersFinite DEF RefsAreExact, ListRef
  <1>2. CASE pc[t] = "drop"
    <2>1. head[t] \in Blocks /\ Holds(t, head[t]) /\ head[t] \in Popped
      BY <1>2 DEF LocalsAreRight, LocalsRight, Holds, Popped
    <2> QED
      BY <1>1, <1>2, <2>1 DEF ListRef
  <1>3. CASE pc[t] = "release"
    <2>1. prevHead[t] \in Blocks /\ Holds(t, prevHead[t])
      BY <1>3 DEF LocalsAreRight, LocalsRight, Holds
    <2> QED
      BY <1>1, <1>3, <2>1
  <1>4. CASE pc[t] \in {"next", "pop"}
    <2>1. head[t] \in Blocks /\ Holds(t, head[t])
      BY <1>4 DEF LocalsAreRight, LocalsRight, Holds
    <2> QED
      BY <1>1, <1>4, <2>1
  <1>5. CASE pc[t] \in {"push", "retry"}
    <2>1. node[t] \in Blocks /\ Pushed(node[t])
      BY <1>5 DEF LocalsAreRight, LocalsRight, Adding, Pushed
    <2> QED
      BY <1>1, <1>5, <2>1 DEF ListRef
  <1> QED
    BY <1>2, <1>3, <1>4, <1>5

-----------------------------------------------------------------------------
(* Types *)

LEMMA Assigned ==
    ASSUME NEW S, NEW T, NEW f \in [S -> T], NEW x, NEW y \in T
    PROVE  [f EXCEPT ![x] = y] \in [S -> T]
  OBVIOUS

LEMMA ForgetGetTypes ==
    ASSUME TypeOK, NEW t \in Threads, ForgetGet(t)
    PROVE  /\ head' \in [Threads -> Blocks \cup {Null}]
           /\ prevHead' \in [Threads -> Blocks \cup {Null}]
           /\ refs' \in [Threads -> Nat \X BOOLEAN]
           /\ next' \in [Threads -> Blocks \cup {Null}]
  <1>1. <<0, FALSE>> \in Nat \X BOOLEAN
    OBVIOUS
  <1>2. refs' \in [Threads -> Nat \X BOOLEAN]
    BY <1>1, Assigned, Zenon DEF ForgetGet, TypeOK
  <1> QED
    BY <1>2 DEF ForgetGet, TypeOK

LEMMA StepTypes == PoolInv /\ [Next]_vars => TypeOK'
  <1> SUFFICES ASSUME PoolInv, [Next]_vars PROVE TypeOK'
    OBVIOUS
  <1> USE DEF At, Goto, ForgetAdd, Steps, atomics, getting, adding
  <1>0. TypeOK /\ LocalsAreRight
    BY DEF PoolInv
  <1>1. ASSUME NEW t \in Threads, LoadPoolIndex(t) PROVE TypeOK'
    BY <1>0, <1>1 DEF LoadPoolIndex, TypeOK, Resume
  <1>2. ASSUME NEW t \in Threads, FetchPoolIndex(t) PROVE TypeOK'
    <2>1. initialBlockPoolIndex \in Nat /\ used \subseteq Blocks /\ pc \in [Threads -> Steps]
      BY <1>0 DEF TypeOK
    <2>2. CASE initialBlockPoolIndex < PoolSize
      <3>1. initialBlockPoolIndex \in Blocks
        BY <2>1, <2>2, PoolAssumption DEF Blocks
      <3>2. used' = used \cup {initialBlockPoolIndex} /\ pc' = [pc EXCEPT ![t] = "idle"]
        BY <1>2, <2>2 DEF FetchPoolIndex
      <3>3. used' \subseteq Blocks /\ pc' \in [Threads -> Steps]
        BY <2>1, <3>1, <3>2
      <3> QED
        BY <1>0, <1>2, <2>1, <3>3 DEF FetchPoolIndex, TypeOK
    <2>3. CASE ~(initialBlockPoolIndex < PoolSize)
      <3>1. used' = used /\ pc' = [pc EXCEPT ![t] = "load"]
        BY <1>2, <2>3 DEF FetchPoolIndex
      <3>2. used' \subseteq Blocks /\ pc' \in [Threads -> Steps]
        BY <2>1, <3>1
      <3> QED
        BY <1>0, <1>2, <2>1, <3>2 DEF FetchPoolIndex, TypeOK
    <2> QED
      BY <2>2, <2>3
  <1>3. ASSUME NEW t \in Threads, LoadHead(t) PROVE TypeOK'
    BY <1>0, <1>3, ForgetGetTypes DEF LoadHead, TypeOK, Resume
  <1>4. ASSUME NEW t \in Threads, LoadRefs(t) PROVE TypeOK'
    <2>1. head[t] \in Blocks
      BY <1>0, <1>4 DEF LoadRefs, LocalsAreRight, LocalsRight
    <2>2. <<freeListRefs[head[t]], shouldBeOnList[head[t]]>> \in Nat \X BOOLEAN
      BY <1>0, <2>1 DEF TypeOK
    <2>3. refs' \in [Threads -> Nat \X BOOLEAN]
      BY <1>0, <1>4, <2>2, Assigned, Zenon DEF LoadRefs, TypeOK
    <2> QED
      BY <1>0, <1>4, <2>3 DEF LoadRefs, TypeOK
  <1>5. ASSUME NEW t \in Threads, Acquire(t) PROVE TypeOK'
    <2>1. freeListRefs' = [freeListRefs EXCEPT ![head[t]] = freeListRefs[head[t]] + 1]
          \/ freeListRefs' = freeListRefs
      BY <1>5 DEF Acquire
    <2>2. freeListRefs' \in [Blocks -> Nat]
      BY <1>0, <2>1, <1>5 DEF TypeOK, LocalsAreRight, LocalsRight, Acquire
    <2> QED
      BY <1>0, <1>5, <2>2 DEF Acquire, TypeOK
  <1>6. ASSUME NEW t \in Threads, LoadNext(t) PROVE TypeOK'
    <2>1. head[t] \in Blocks
      BY <1>0, <1>6 DEF LoadNext, LocalsAreRight, LocalsRight
    <2> QED
      BY <1>0, <1>6, <2>1 DEF LoadNext, TypeOK
  <1>7. ASSUME NEW t \in Threads, Pop(t) PROVE TypeOK'
    BY <1>0, <1>7 DEF Pop, TypeOK, Resume
  <1>8. ASSUME NEW t \in Threads, DropBoth(t) PROVE TypeOK'
    <2>1. head[t] \in Blocks /\ freeListRefs[head[t]] - 2 \in Nat
      BY <1>0, <1>8, CountsSuffice DEF DropBoth, LocalsAreRight, LocalsRight, TypeOK
    <2> QED
      BY <1>0, <1>8, <2>1, ForgetGetTypes DEF DropBoth, TypeOK
  <1>9. ASSUME NEW t \in Threads, Release(t) PROVE TypeOK'
    <2>1. prevHead[t] \in Blocks /\ freeListRefs[prevHead[t]] - 1 \in Nat
      BY <1>0, <1>9, CountsSuffice DEF Release, LocalsAreRight, LocalsRight, TypeOK
    <2>2. ForgetGet(t) \/ (prevHead' = [prevHead EXCEPT ![t] = Null]
                           /\ UNCHANGED <<head, refs, next>>)
      BY <1>9 DEF Release
    <2>3. /\ head' \in [Threads -> Blocks \cup {Null}]
          /\ prevHead' \in [Threads -> Blocks \cup {Null}]
          /\ refs' \in [Threads -> Nat \X BOOLEAN]
          /\ next' \in [Threads -> Blocks \cup {Null}]
      BY <1>0, <2>2, ForgetGetTypes DEF TypeOK
    <2> QED
      BY <1>0, <1>9, <2>1, <2>3 DEF Release, TypeOK, Resume
  <1>10. ASSUME NEW t \in Threads, MarkBlock(t) PROVE TypeOK'
    BY <1>0, <1>10 DEF MarkBlock, TypeOK, Resume
  <1>11. ASSUME NEW t \in Threads, LoadListHead(t) PROVE TypeOK'
    BY <1>0, <1>11 DEF LoadListHead, TypeOK, Resume
  <1>12. ASSUME NEW t \in Threads, StoreNext(t) PROVE TypeOK'
    BY <1>0, <1>12 DEF StoreNext, TypeOK, Resume
  <1>13. ASSUME NEW t \in Threads, StoreRefs(t) PROVE TypeOK'
    BY <1>0, <1>13 DEF StoreRefs, TypeOK, Resume
  <1>14. ASSUME NEW t \in Threads, Push(t) PROVE TypeOK'
    <2>1. node[t] \in Blocks
      BY <1>0, <1>14 DEF Push, LocalsAreRight, LocalsRight, Adding
    <2>2. ForgetGet(t) \/ UNCHANGED getting
      BY <1>14 DEF Push
    <2>3. /\ head' \in [Threads -> Blocks \cup {Null}]
          /\ prevHead' \in [Threads -> Blocks \cup {Null}]
          /\ refs' \in [Threads -> Nat \X BOOLEAN]
          /\ next' \in [Threads -> Blocks \cup {Null}]
      BY <1>0, <2>2, ForgetGetTypes DEF TypeOK
    <2> QED
      BY <1>0, <1>14, <2>1, <2>3 DEF Push, TypeOK, Resume
  <1>15. ASSUME NEW t \in Threads, Retry(t) PROVE TypeOK'
    <2>1. node[t] \in Blocks /\ freeListRefs[node[t]] - 1 \in Nat
      BY <1>0, <1>15, CountsSuffice DEF Retry, LocalsAreRight, LocalsRight, Adding, TypeOK
    <2>2. ForgetGet(t) \/ UNCHANGED getting
      BY <1>15 DEF Retry
    <2>3. /\ head' \in [Threads -> Blocks \cup {Null}]
          /\ prevHead' \in [Threads -> Blocks \cup {Null}]
          /\ refs' \in [Threads -> Nat \X BOOLEAN]
          /\ next' \in [Threads -> Blocks \cup {Null}]
      BY <1>0, <2>2, ForgetGetTypes DEF TypeOK
    <2> QED
      BY <1>0, <1>15, <2>1, <2>3 DEF Retry, TypeOK, Resume
  <1>16. CASE UNCHANGED vars
    BY <1>0, <1>16 DEF vars, TypeOK
  <1> QED
    BY <1>1, <1>2, <1>3, <1>4, <1>5, <1>6, <1>7, <1>8, <1>9, <1>10, <1>11, <1>12, <1>13, <1>14, <1>15, <1>16
       DEF Next, TryGet, AddKnowingRefcountIsZero

-----------------------------------------------------------------------------
(* Where the blocks are *)

SameList == Linked' = Linked /\ (ListEnds => ListEnds')
SamePlaces ==
    /\ Initial' = Initial /\ Linked' = Linked /\ used' = used
    /\ Popped' = Popped /\ Returning' = Returning

LEMMA ListUntouched ==
    ASSUME UNCHANGED <<freeListHead, freeListNext>> PROVE SameList
  BY DEF SameList, Linked, ListEnds

\* What only threads say about the places.
LEMMA ThreadsPlaces ==
    ASSUME PoolInv, NEW t \in Threads, OthersStay(t), OneOwner
    PROVE  /\ pc[t] # "drop" /\ pc'[t] # "drop" => Popped' = Popped
           /\ pc[t] # "drop" /\ pc'[t] = "drop" => Popped' = Popped \cup {head'[t]}
           /\ pc[t] = "drop" /\ pc'[t] # "drop" => Popped' = Popped \ {head[t]}
           /\ \A b : Pushed(b)' <=>
                 \/ pc'[t] \in {"push", "retry"} /\ node'[t] = b
                 \/ \E u \in Threads \ {t} : pc[u] \in {"push", "retry"} /\ node[u] = b
           /\ \A b : Pushed(b) <=>
                 \/ pc[t] \in {"push", "retry"} /\ node[t] = b
                 \/ \E u \in Threads \ {t} : pc[u] \in {"push", "retry"} /\ node[u] = b
  <1>1. pc[t] # "drop" /\ pc'[t] # "drop" => Popped' = Popped
    BY DEF Popped, OthersStay
  <1>2. pc[t] # "drop" /\ pc'[t] = "drop" => Popped' = Popped \cup {head'[t]}
    BY DEF Popped, OthersStay
  <1>3. pc[t] = "drop" /\ pc'[t] # "drop" => Popped' = Popped \ {head[t]}
    BY DEF Popped, OthersStay, OneOwner
  <1>4. \A b : Pushed(b)' <=>
                 \/ pc'[t] \in {"push", "retry"} /\ node'[t] = b
                 \/ \E u \in Threads \ {t} : pc[u] \in {"push", "retry"} /\ node[u] = b
    BY DEF Pushed, OthersStay
  <1> QED
    BY <1>1, <1>2, <1>3, <1>4 DEF Pushed

LEMMA ReturningIs ==
    \A b : /\ b \in Returning <=> (b \in Blocks /\ shouldBeOnList[b]) \/ Pushed(b)
           /\ b \in Returning' <=> (b \in Blocks /\ shouldBeOnList'[b]) \/ Pushed(b)'
  BY DEF Returning, Pushed

LEMMA SameReturning ==
    ASSUME \A b : b \in Returning' <=> b \in Returning PROVE Returning' = Returning
  <1> DEFINE R == Returning
             Q == Returning'
  <1>1. \A b : b \in Q <=> b \in R
    OBVIOUS
  <1> HIDE DEF R, Q
  <1>2. Q = R
    BY <1>1
  <1> QED
    BY <1>2 DEF R, Q

Step(t) ==
    \/ LoadPoolIndex(t) \/ FetchPoolIndex(t) \/ TryGet(t)
    \/ MarkBlock(t) \/ AddKnowingRefcountIsZero(t)

LEMMA StepIsLocal ==
    ASSUME PoolInv, NEW t \in Threads, Step(t)
    PROVE  OthersStay(t)
  <1> USE DEF OthersStay, At, Goto, ForgetGet, ForgetAdd, atomics, getting, adding,
              PoolInv, TypeOK
  <1>1. CASE LoadPoolIndex(t)
    BY <1>1 DEF LoadPoolIndex
  <1>2. CASE FetchPoolIndex(t)
    BY <1>2 DEF FetchPoolIndex
  <1>3. CASE LoadHead(t)
    BY <1>3 DEF LoadHead
  <1>4. CASE LoadRefs(t)
    BY <1>4 DEF LoadRefs
  <1>5. CASE Acquire(t)
    BY <1>5 DEF Acquire
  <1>6. CASE LoadNext(t)
    BY <1>6 DEF LoadNext
  <1>7. CASE Pop(t)
    BY <1>7 DEF Pop
  <1>8. CASE DropBoth(t)
    BY <1>8 DEF DropBoth
  <1>9. CASE Release(t)
    BY <1>9 DEF Release
  <1>10. CASE MarkBlock(t)
    BY <1>10 DEF MarkBlock
  <1>11. CASE LoadListHead(t)
    BY <1>11 DEF LoadListHead
  <1>12. CASE StoreNext(t)
    BY <1>12 DEF StoreNext
  <1>13. CASE StoreRefs(t)
    BY <1>13 DEF StoreRefs
  <1>14. CASE Push(t)
    BY <1>14 DEF Push
  <1>15. CASE Retry(t)
    BY <1>15 DEF Retry
  <1> QED
    BY <1>1, <1>2, <1>3, <1>4, <1>5, <1>6, <1>7, <1>8, <1>9, <1>10, <1>11, <1>12, <1>13, <1>14, <1>15 DEF Step, TryGet, AddKnowingRefcountIsZero

LEMMA PlacesStay ==
    ASSUME PoolInv, NEW t \in Threads,
           \/ LoadPoolIndex(t) \/ LoadHead(t) \/ LoadRefs(t) \/ Acquire(t)
           \/ LoadNext(t) \/ Release(t) \/ LoadListHead(t) \/ StoreNext(t)
           \/ StoreRefs(t) \/ Retry(t)
    PROVE  SamePlaces /\ ListEnds'
  <1>1. OthersStay(t) /\ OneOwner /\ TypeOK /\ LocalsAreRight /\ ListEnds
    BY StepIsLocal DEF Step, TryGet, AddKnowingRefcountIsZero, PoolInv
  <1> USE DEF At, Goto, atomics, getting, adding
  <1>2. CASE \/ LoadPoolIndex(t) \/ LoadHead(t) \/ LoadRefs(t) \/ Acquire(t)
             \/ LoadNext(t) \/ Release(t) \/ LoadListHead(t)
    <2>1. /\ UNCHANGED <<initialBlockPoolIndex, freeListHead, freeListNext, used,
                         shouldBeOnList>>
          /\ pc[t] \notin {"drop", "push", "retry"} /\ pc'[t] \notin {"drop", "push", "retry"}
      BY <1>1, <1>2 DEF LoadPoolIndex, LoadHead, LoadRefs, Acquire, LoadNext, Release,
                        LoadListHead, TypeOK, Resume
    <2>2. Linked' = Linked /\ ListEnds'
      BY <1>1, <2>1, ListUntouched DEF SameList
    <2>3. Popped' = Popped /\ \A b : Pushed(b)' <=> Pushed(b)
      BY <1>1, <2>1, ThreadsPlaces
    <2>4. ASSUME NEW b PROVE b \in Returning' <=> b \in Returning
      BY <2>1, <2>3, ReturningIs
    <2> QED
      BY <2>1, <2>2, <2>3, <2>4, SameReturning DEF SamePlaces, Initial
  <1>3. CASE StoreNext(t)
    <2>1. /\ UNCHANGED <<initialBlockPoolIndex, freeListHead, used, shouldBeOnList>>
          /\ pc[t] \notin {"drop", "push", "retry"} /\ pc'[t] \notin {"drop", "push", "retry"}
      BY <1>1, <1>3 DEF StoreNext, TypeOK
    <2>2. Popped' = Popped /\ \A b : Pushed(b)' <=> Pushed(b)
      BY <1>1, <2>1, ThreadsPlaces
    <2>3. Returning' = Returning
      BY <2>1, <2>2, ReturningIs, SameReturning
    <2>4. /\ node[t] \in Blocks /\ shouldBeOnList[node[t]]
          /\ freeListNext' = [freeListNext EXCEPT ![node[t]] = listHead[t]]
          /\ freeListHead \in Pointers /\ listHead[t] \in Pointers /\ freeListNext \in Nexts
      BY <1>1, <1>3 DEF StoreNext, LocalsAreRight, LocalsRight, Adding, TypeOK, Pointers, Nexts
    <2>5. node[t] \notin Linked
      <3>1. node[t] \in Returning /\ InOnePlace(node[t])
        BY <1>1, <2>4, ReturningIs DEF OneOwner
      <3> QED
        BY <3>1 DEF InOnePlace
    <2>6. Linked' = Linked
      BY <2>1, <2>4, <2>5, RelinkOutside DEF Linked
    <2>7. ASSUME NEW b \in Linked
          PROVE  /\ freeListNext'[b] = freeListNext[b]
                 /\ LedTo(freeListNext', freeListNext[b]) = LedTo(freeListNext, freeListNext[b])
      <3>1. b \in Blocks /\ freeListNext[b] \in Pointers /\ freeListHead \in Pointers
        BY <2>4, LeastClosed DEF Linked, Nexts
      <3>2. LedTo(freeListNext, freeListNext[b]) \subseteq Linked
        BY <2>4, <3>1, LeastClosed DEF Linked, NextClosed
      <3> QED
        <4>1. b # node[t] /\ freeListNext'[b] = freeListNext[b]
          BY <2>4, <2>5, <3>1 DEF Nexts
        <4>2. node[t] \in Blocks \ LedTo(freeListNext, freeListNext[b])
          BY <2>4, <2>5, <3>2
        <4> QED
          BY <2>4, <3>1, <4>1, <4>2, RelinkOutside
    <2>8. ListEnds'
      BY <1>1, <2>6, <2>7 DEF ListEnds
    <2> QED
      BY <2>1, <2>2, <2>3, <2>6, <2>8 DEF SamePlaces, Initial
  <1>4. CASE StoreRefs(t) \/ Retry(t)
    <2>1. /\ UNCHANGED <<initialBlockPoolIndex, freeListHead, freeListNext, used>>
          /\ pc[t] # "drop" /\ pc'[t] # "drop"
      BY <1>1, <1>4 DEF StoreRefs, Retry, TypeOK, Resume
    <2>2. Linked' = Linked /\ ListEnds' /\ Popped' = Popped
      BY <1>1, <2>1, ListUntouched, ThreadsPlaces DEF SameList
    <2>3. node[t] \in Blocks
      BY <1>1, <1>4 DEF StoreRefs, Retry, LocalsAreRight, LocalsRight, Adding
    <2>4. CASE StoreRefs(t)
      <3>1. /\ shouldBeOnList[node[t]]
            /\ shouldBeOnList' = [shouldBeOnList EXCEPT ![node[t]] = FALSE]
            /\ pc[t] = "count" /\ pc'[t] = "push" /\ node'[t] = node[t]
        BY <1>1, <2>4 DEF StoreRefs, LocalsAreRight, LocalsRight, TypeOK
      <3>2. ASSUME NEW b PROVE b \in Returning' <=> b \in Returning
        BY <1>1, <2>3, <3>1, ReturningIs, ThreadsPlaces DEF TypeOK
      <3> QED
        BY <2>1, <2>2, <3>2, SameReturning DEF SamePlaces, Initial
    <2>5. CASE Retry(t)
      <3>1. /\ shouldBeOnList' = [shouldBeOnList EXCEPT ![node[t]] = TRUE]
            /\ pc[t] = "retry" /\ pc'[t] \notin {"push", "retry"}
        BY <1>1, <2>5 DEF Retry, TypeOK, Resume
      <3>2. ASSUME NEW b PROVE b \in Returning' <=> b \in Returning
        BY <1>1, <2>3, <3>1, ReturningIs, ThreadsPlaces DEF TypeOK
      <3> QED
        BY <2>1, <2>2, <3>2, SameReturning DEF SamePlaces, Initial
    <2> QED
      BY <1>4, <2>4, <2>5
  <1> QED
    BY <1>2, <1>3, <1>4

\* The next block of the initial pool, if there is one, is used.
LEMMA FetchPlaces ==
    ASSUME PoolInv, NEW t \in Threads, FetchPoolIndex(t)
    PROVE  /\ Initial' = Initial \ {initialBlockPoolIndex}
           /\ used' = used \cup (Initial \cap {initialBlockPoolIndex})
           /\ Linked' = Linked /\ Popped' = Popped /\ Returning' = Returning
           /\ ListEnds'
  <1>1. OthersStay(t) /\ OneOwner /\ TypeOK /\ ListEnds
    BY StepIsLocal DEF Step, PoolInv
  <1>2. /\ UNCHANGED <<freeListHead, freeListNext, shouldBeOnList>>
        /\ pc[t] \notin {"drop", "push", "retry"} /\ pc'[t] \notin {"drop", "push", "retry"}
    BY <1>1 DEF FetchPoolIndex, At, Goto, atomics, TypeOK
  <1>3. Linked' = Linked /\ ListEnds'
    BY <1>1, <1>2, ListUntouched DEF SameList
  <1>4. Popped' = Popped /\ \A b : Pushed(b)' <=> Pushed(b)
    BY <1>1, <1>2, ThreadsPlaces
  <1>5. Returning' = Returning
    BY <1>2, <1>4, ReturningIs, SameReturning
  <1>6. Initial' = Initial \ {initialBlockPoolIndex}
    BY <1>1, PoolAssumption DEF FetchPoolIndex, Initial, TypeOK, Blocks
  <1>7. used' = used \cup (Initial \cap {initialBlockPoolIndex})
    BY <1>1, PoolAssumption DEF FetchPoolIndex, Initial, TypeOK, Blocks
  <1> QED
    BY <1>3, <1>4, <1>5, <1>6, <1>7

\* The head goes off the list, and the list is what it was behind the head: the
\* next pointer read is still the head's.
LEMMA PopPlaces ==
    ASSUME PoolInv, NEW t \in Threads, Pop(t)
    PROVE  /\ IF freeListHead = head[t]
              THEN /\ head[t] \in Linked
                   /\ Linked' = Linked \ {head[t]} /\ Popped' = Popped \cup {head[t]}
                   /\ Initial' = Initial /\ used' = used /\ Returning' = Returning
              ELSE SamePlaces
           /\ ListEnds'
  <1>1. OthersStay(t) /\ OneOwner /\ TypeOK /\ ListEnds /\ LocalsAreRight
    BY StepIsLocal DEF Step, TryGet, PoolInv
  <1>2. /\ UNCHANGED <<initialBlockPoolIndex, used, freeListNext, shouldBeOnList>>
        /\ pc[t] \notin {"drop", "push", "retry"} /\ pc'[t] \notin {"push", "retry"}
    BY <1>1 DEF Pop, At, Goto, atomics, TypeOK
  <1>3. \A b : Pushed(b)' <=> Pushed(b)
    BY <1>1, <1>2, ThreadsPlaces
  <1>4. Returning' = Returning
    BY <1>2, <1>3, ReturningIs, SameReturning
  <1>5. CASE freeListHead = head[t]
    <2>1. /\ head[t] \in Blocks /\ freeListNext \in Nexts
          /\ freeListHead' = freeListNext[head[t]]
          /\ pc'[t] = "drop" /\ head'[t] = head[t]
      BY <1>1, <1>5 DEF Pop, At, Goto, getting, TypeOK, LocalsAreRight, LocalsRight,
                        Nexts, Pointers
    <2>2. /\ head[t] \in Linked /\ Linked' = Linked \ {head[t]}
          /\ ListEnds'
      BY <1>1, <1>2, <1>5, <2>1, PoppedHead DEF Linked, ListEnds
    <2>3. Popped' = Popped \cup {head[t]}
      BY <1>1, <1>2, <2>1, ThreadsPlaces
    <2> QED
      BY <1>2, <1>4, <1>5, <2>2, <2>3 DEF Initial
  <1>6. CASE freeListHead # head[t]
    <2>1. UNCHANGED freeListHead /\ pc'[t] # "drop"
      BY <1>1, <1>6 DEF Pop, At, Goto, TypeOK
    <2>2. Linked' = Linked /\ ListEnds' /\ Popped' = Popped
      BY <1>1, <1>2, <2>1, ListUntouched, ThreadsPlaces DEF SameList
    <2> QED
      BY <1>2, <1>4, <1>6, <2>2 DEF SamePlaces, Initial
  <1> QED
    BY <1>5, <1>6

\* What was popped is used.
LEMMA DropPlaces ==
    ASSUME PoolInv, NEW t \in Threads, DropBoth(t)
    PROVE  /\ head[t] \in Popped
           /\ Popped' = Popped \ {head[t]} /\ used' = used \cup {head[t]}
           /\ Initial' = Initial /\ Linked' = Linked /\ Returning' = Returning
           /\ ListEnds'
  <1>1. OthersStay(t) /\ OneOwner /\ TypeOK /\ ListEnds
    BY StepIsLocal DEF Step, TryGet, PoolInv
  <1>2. /\ UNCHANGED <<initialBlockPoolIndex, freeListHead, freeListNext, shouldBeOnList>>
        /\ pc[t] = "drop" /\ pc'[t] \notin {"drop", "push", "retry"}
        /\ used' = used \cup {head[t]}
    BY <1>1 DEF DropBoth, At, Goto, atomics, TypeOK
  <1>3. Linked' = Linked /\ ListEnds'
    BY <1>1, <1>2, ListUntouched DEF SameList
  <1>4. Popped' = Popped \ {head[t]} /\ \A b : Pushed(b)' <=> Pushed(b)
    BY <1>1, <1>2, ThreadsPlaces
  <1>5. Returning' = Returning
    BY <1>2, <1>4, ReturningIs, SameReturning
  <1>6. head[t] \in Popped
    BY <1>2 DEF Popped
  <1> QED
    BY <1>2, <1>3, <1>4, <1>5, <1>6 DEF Initial

\* A block given back is on its way to the list, whoever adds it.
LEMMA MarkPlaces ==
    ASSUME PoolInv, NEW t \in Threads, MarkBlock(t)
    PROVE  \E b \in used :
              /\ used' = used \ {b} /\ Returning' = Returning \cup {b}
              /\ Initial' = Initial /\ Linked' = Linked /\ Popped' = Popped
              /\ ListEnds'
              /\ shouldBeOnList' = [shouldBeOnList EXCEPT ![b] = TRUE]
              /\ At(t, "idle") /\ Goto(t, IF freeListRefs[b] = 0 THEN "add" ELSE "idle")
              /\ IF freeListRefs[b] = 0
                 THEN node' = [node EXCEPT ![t] = b]
                 ELSE UNCHANGED node
  <1>1. OthersStay(t) /\ OneOwner /\ TypeOK /\ ListEnds
    BY StepIsLocal DEF Step, PoolInv
  <1>2. PICK b \in used :
            /\ At(t, "idle") /\ Goto(t, IF freeListRefs[b] = 0 THEN "add" ELSE "idle")
            /\ used' = used \ {b}
            /\ shouldBeOnList' = [shouldBeOnList EXCEPT ![b] = TRUE]
            /\ IF freeListRefs[b] = 0
               THEN node' = [node EXCEPT ![t] = b]
               ELSE UNCHANGED node
            /\ UNCHANGED <<initialBlockPoolIndex, freeListHead, freeListNext>>
    BY DEF MarkBlock
  <1>3. Linked' = Linked /\ ListEnds'
    BY <1>1, <1>2, ListUntouched DEF SameList
  <1>4. pc[t] \notin {"drop", "push", "retry"} /\ pc'[t] \notin {"drop", "push", "retry"}
    BY <1>1, <1>2 DEF At, Goto, TypeOK
  <1>5. Popped' = Popped /\ \A c : Pushed(c)' <=> Pushed(c)
    BY <1>1, <1>4, ThreadsPlaces
  <1>6. Returning' = Returning \cup {b}
    <2>1. b \in Blocks
      BY <1>1 DEF TypeOK
    <2>2. \A c : c \in Returning' <=> c \in Returning \/ c = b
      BY <1>1, <1>2, <1>5, <2>1, ReturningIs DEF TypeOK
    <2> DEFINE R == Returning
               Q == Returning'
    <2>3. \A c : c \in Q <=> c \in R \/ c = b
      BY <2>2
    <2> HIDE DEF R, Q
    <2>4. Q = R \cup {b}
      BY <2>3
    <2> QED
      BY <2>4 DEF R, Q
  <1>7. Initial' = Initial
    BY <1>2 DEF Initial
  <1> QED
    BY <1>2, <1>3, <1>5, <1>6, <1>7

\* The block that a push puts on the list was on its way there; a push that fails
\* changes nothing.
LEMMA PushPlaces ==
    ASSUME PoolInv, NEW t \in Threads, Push(t)
    PROVE  /\ IF freeListHead = listHead[t]
              THEN /\ node[t] \in Returning
                   /\ Linked' = Linked \cup {node[t]} /\ Returning' = Returning \ {node[t]}
                   /\ Initial' = Initial /\ used' = used /\ Popped' = Popped
              ELSE SamePlaces
           /\ ListEnds'
  <1>1. OthersStay(t) /\ OneOwner /\ TypeOK /\ ListEnds /\ LocalsAreRight
    BY StepIsLocal DEF Step, AddKnowingRefcountIsZero, PoolInv
  <1>2. /\ UNCHANGED <<initialBlockPoolIndex, used, freeListNext, shouldBeOnList>>
        /\ pc[t] = "push" /\ pc'[t] # "drop"
        /\ node[t] \in Blocks /\ ~shouldBeOnList[node[t]]
        /\ freeListNext[node[t]] = listHead[t]
        /\ freeListNext \in Nexts
    BY <1>1 DEF Push, At, Goto, atomics, TypeOK, Resume, LocalsAreRight, LocalsRight,
                Adding, Nexts, Pointers
  <1>3. Popped' = Popped
    BY <1>1, <1>2, ThreadsPlaces
  <1>4. Pushed(node[t])
    BY <1>2 DEF Pushed
  <1>5. node[t] \in Returning /\ node[t] \notin Linked
    BY <1>1, <1>2, <1>4, ReturningIs DEF OneOwner, InOnePlace
  <1>6. CASE freeListHead = listHead[t]
    <2>1. freeListHead' = node[t] /\ pc'[t] \notin {"push", "retry"}
      BY <1>1, <1>6 DEF Push, At, Goto, TypeOK, Resume
    <2>2. Linked' = Linked \cup {node[t]} /\ ListEnds'
      BY <1>1, <1>2, <1>5, <1>6, <2>1, PushedHead DEF Linked, ListEnds
    <2>3. \A u \in Threads \ {t} : pc[u] \in {"push", "retry"} => node[u] # node[t]
      BY <1>1, <1>2 DEF OneOwner, Adding
    <2>4. \A c : c \in Returning' <=> c \in Returning /\ c # node[t]
      BY <1>1, <1>2, <2>1, <2>3, ReturningIs, ThreadsPlaces
    <2>5. Returning' = Returning \ {node[t]}
      <3> DEFINE R == Returning
                 Q == Returning'
      <3>1. \A c : c \in Q <=> c \in R /\ c # node[t]
        BY <2>4
      <3> HIDE DEF R, Q
      <3>2. Q = R \ {node[t]}
        BY <3>1
      <3> QED
        BY <3>2 DEF R, Q
    <2> QED
      BY <1>2, <1>3, <1>5, <1>6, <2>2, <2>5 DEF Initial
  <1>7. CASE freeListHead # listHead[t]
    <2>1. UNCHANGED <<freeListHead, node>> /\ pc'[t] = "retry"
      BY <1>1, <1>7 DEF Push, At, Goto, TypeOK
    <2>2. Linked' = Linked /\ ListEnds'
      BY <1>1, <1>2, <2>1, ListUntouched DEF SameList
    <2>3. \A c : c \in Returning' <=> c \in Returning
      BY <1>1, <1>2, <2>1, ReturningIs, ThreadsPlaces
    <2> QED
      BY <1>2, <1>3, <1>7, <2>2, <2>3, SameReturning DEF SamePlaces, Initial
  <1> QED
    BY <1>6, <1>7

-----------------------------------------------------------------------------
(* One owner *)

\* No two threads have the same block at hand.
OneTaker == \A t, u \in Threads : t # u =>
    ~(pc[t] = "drop" /\ pc[u] = "drop" /\ head[t] = head[u])
OneAdder == \A t, u \in Threads : t # u =>
    ~(Adding(t) /\ Adding(u) /\ node[t] = node[u])

LEMMA OwnerParts == OneOwner <=> (\A b \in Blocks : InOnePlace(b)) /\ OneTaker /\ OneAdder
  BY DEF OneOwner, OneTaker, OneAdder

\* Who adds a block has it on its way to the list.
LEMMA AddersReturn ==
    ASSUME PoolInv, NEW t \in Threads, Adding(t)
    PROVE  node[t] \in Returning /\ node[t] \in Blocks
  <1>1. LocalsRight(t)
    BY DEF PoolInv, LocalsAreRight
  <1>2. CASE pc[t] \in {"push", "retry"}
    BY <1>1, <1>2 DEF Returning, LocalsRight
  <1>3. CASE pc[t] \in {"add", "link", "count"}
    BY <1>1, <1>3, ReturningIs DEF LocalsRight
  <1> QED
    BY <1>1, <1>2, <1>3 DEF Adding, LocalsRight

\* Only a pop gives a thread a block to take: one that was on the list, hence no
\* other thread's.
LEMMA StepOneTaker ==
    ASSUME PoolInv, NEW t \in Threads, Step(t) PROVE OneTaker'
  <1>1. OthersStay(t) /\ OneTaker /\ TypeOK
    BY StepIsLocal, OwnerParts DEF PoolInv
  <1>2. SUFFICES ASSUME NEW u \in Threads \ {t},
                        pc'[t] = "drop", pc[u] = "drop", head'[t] = head[u]
                 PROVE  FALSE
    BY <1>1 DEF OneTaker, OthersStay
  <1>3. /\ Pop(t) /\ freeListHead = head[t] /\ head'[t] = head[t]
    BY <1>1, <1>2 DEF Step, TryGet, AddKnowingRefcountIsZero, At, Goto, TypeOK,
        LoadPoolIndex, FetchPoolIndex, LoadHead, LoadRefs, Acquire, LoadNext, Pop, DropBoth,
        Release, MarkBlock, LoadListHead, StoreNext, StoreRefs, Push, Retry, Resume, getting
  <1>4. head[t] \in Linked /\ head[t] \in Popped
    BY <1>2, <1>3, PopPlaces DEF Popped
  <1>5. InOnePlace(head[t])
    BY <1>1, <1>4, OwnerParts DEF PoolInv, Linked, LedTo
  <1> QED
    BY <1>4, <1>5 DEF InOnePlace

\* A thread begins to add a block that was used, or whose last reference it gave up
\* while the bit was set; nobody adds that block then.
LEMMA StepOneAdder ==
    ASSUME PoolInv, NEW t \in Threads, Step(t) PROVE OneAdder'
  <1>1. OthersStay(t) /\ OneAdder /\ TypeOK /\ LocalsAreRight
    BY StepIsLocal, OwnerParts DEF PoolInv
  <1>2. SUFFICES ASSUME NEW u \in Threads \ {t},
                        Adding(t)', Adding(u), node'[t] = node[u]
                 PROVE  FALSE
    BY <1>1 DEF OneAdder, OthersStay, Adding
  <1>3. node[u] \in Returning /\ node[u] \in Blocks /\ LocalsRight(u)
    BY <1>1, <1>2, AddersReturn DEF LocalsAreRight
  <1>4. ~(Adding(t) /\ node'[t] = node[t])
    BY <1>1, <1>2 DEF OneAdder
  <1>5. MarkBlock(t) \/ Release(t)
    BY <1>1, <1>2, <1>4 DEF Step, TryGet, AddKnowingRefcountIsZero, At, Goto, TypeOK,
        LoadPoolIndex, FetchPoolIndex, LoadHead, LoadRefs, Acquire, LoadNext, Pop, DropBoth,
        LoadListHead, StoreNext, StoreRefs, Push, Retry, Resume, adding, Adding
  <1>6. CASE MarkBlock(t)
    <2>1. PICK b \in used : node' = [node EXCEPT ![t] = b] /\ b \in Blocks
      BY <1>1, <1>2, <1>6 DEF MarkBlock, At, Goto, TypeOK, Adding
    <2>2. b = node[u] /\ InOnePlace(b)
      BY <1>1, <1>2, <2>1, OwnerParts DEF TypeOK, PoolInv
    <2> QED
      BY <1>3, <2>1, <2>2 DEF InOnePlace
  <1>7. CASE Release(t)
    <2>1. /\ freeListRefs[node[u]] = 1 /\ shouldBeOnList[node[u]]
      BY <1>1, <1>2, <1>7 DEF Release, At, Goto, TypeOK, Adding, Resume, adding
    <2> QED
      BY <1>2, <1>3, <2>1 DEF LocalsRight, Adding
  <1> QED
    BY <1>5, <1>6, <1>7

\* Each step moves a block from one place to the next.
LEMMA StepInOnePlace ==
    ASSUME PoolInv, NEW t \in Threads, Step(t)
    PROVE  ListEnds' /\ \A b \in Blocks : InOnePlace(b)'
  <1>1. \A b \in Blocks : InOnePlace(b)
    BY OwnerParts DEF PoolInv
  <1>2. CASE SamePlaces /\ ListEnds'
    BY <1>1, <1>2 DEF SamePlaces, InOnePlace
  <1>3. CASE FetchPoolIndex(t)
    <2>1. ListEnds'
      BY <1>3, FetchPlaces
    <2>2. ASSUME NEW b \in Blocks PROVE InOnePlace(b)'
      BY <1>1, <1>3, FetchPlaces DEF InOnePlace
    <2> QED
      BY <2>1, <2>2
  <1>4. CASE Pop(t) /\ freeListHead = head[t]
    <2>1. ListEnds'
      BY <1>4, PopPlaces
    <2>2. ASSUME NEW b \in Blocks PROVE InOnePlace(b)'
      BY <1>1, <1>4, PopPlaces DEF InOnePlace
    <2> QED
      BY <2>1, <2>2
  <1>5. CASE DropBoth(t)
    <2>1. ListEnds'
      BY <1>5, DropPlaces
    <2>2. ASSUME NEW b \in Blocks PROVE InOnePlace(b)'
      BY <1>1, <1>5, DropPlaces DEF InOnePlace
    <2> QED
      BY <2>1, <2>2
  <1>6. CASE MarkBlock(t)
    <2>1. PICK c \in used :
              /\ used' = used \ {c} /\ Returning' = Returning \cup {c}
              /\ Initial' = Initial /\ Linked' = Linked /\ Popped' = Popped
              /\ ListEnds'
      BY <1>6, MarkPlaces
    <2>2. ASSUME NEW b \in Blocks PROVE InOnePlace(b)'
      BY <1>1, <2>1 DEF InOnePlace
    <2> QED
      BY <2>1, <2>2
  <1>7. CASE Push(t) /\ freeListHead = listHead[t]
    <2>1. ListEnds'
      BY <1>7, PushPlaces
    <2>2. ASSUME NEW b \in Blocks PROVE InOnePlace(b)'
      BY <1>1, <1>7, PushPlaces DEF InOnePlace
    <2> QED
      BY <2>1, <2>2
  <1> QED
    BY <1>2, <1>3, <1>4, <1>5, <1>6, <1>7, PlacesStay, PopPlaces, PushPlaces
       DEF Step, TryGet, AddKnowingRefcountIsZero

LEMMA StepOneOwner ==
    ASSUME PoolInv, NEW t \in Threads, Step(t) PROVE OneOwner'
  <1>1. OneTaker' /\ OneAdder' /\ (\A b \in Blocks : InOnePlace(b)')
    BY StepOneTaker, StepOneAdder, StepInOnePlace
  <1> QED
    BY <1>1 DEF OneOwner, OneTaker, OneAdder

-----------------------------------------------------------------------------
(* The counts *)

LEMMA Counts ==
    ASSUME PoolInv, NEW b \in Blocks
    PROVE  /\ freeListRefs[b] = Cardinality(Holders(b)) + ListRef(b)
           /\ Cardinality(Holders(b)) \in Nat /\ ListRef(b) \in {0, 1}
           /\ Cardinality(Holders(b)) = 0 <=> Holders(b) = {}
           /\ shouldBeOnList[b] => b \notin Linked \cup Popped
           /\ InOnePlace(b) /\ freeListRefs[b] \in Nat
  BY HoldersFinite DEF PoolInv, RefsAreExact, ListRef, OneOwner, TypeOK

\* A count stays exact when it changes as the references of this thread and of the
\* list do.
LEMMA StillExact ==
    ASSUME PoolInv, NEW t \in Threads, OthersStay(t), NEW b \in Blocks,
           freeListRefs'[b] + (IF Holds(t, b) THEN 1 ELSE 0) + ListRef(b)
             = freeListRefs[b] + (IF Holds(t, b)' THEN 1 ELSE 0) + ListRef(b)',
           freeListRefs'[b] \in Nat
    PROVE  freeListRefs'[b] = Cardinality(Holders(b)') + ListRef(b)'
  <1>1. freeListRefs[b] = Cardinality(Holders(b)) + ListRef(b)
        /\ Cardinality(Holders(b)) \in Nat /\ ListRef(b) \in {0, 1} /\ freeListRefs[b] \in Nat
    BY Counts
  <1>2. ListRef(b)' \in {0, 1}
    BY DEF ListRef
  <1>3. Cardinality(Holders(b)') =
            Cardinality(Holders(b)) + (IF Holds(t, b)' THEN 1 ELSE 0)
                                    - (IF Holds(t, b) THEN 1 ELSE 0)
        /\ Cardinality(Holders(b)') \in Nat
    BY CountHolders
  <1> QED
    BY <1>1, <1>2, <1>3

\* The count of each block changes as the references to it do.
LEMMA StepExact ==
    ASSUME PoolInv, NEW t \in Threads, Step(t), NEW b \in Blocks
    PROVE  freeListRefs'[b] = Cardinality(Holders(b)') + ListRef(b)'
  <1>1. OthersStay(t) /\ TypeOK /\ TypeOK' /\ LocalsRight(t) /\ OneAdder
    BY StepIsLocal, StepTypes, OwnerParts DEF PoolInv, Step, Next, LocalsAreRight
  <1>2. SUFFICES freeListRefs'[b] + (IF Holds(t, b) THEN 1 ELSE 0) + ListRef(b)
                   = freeListRefs[b] + (IF Holds(t, b)' THEN 1 ELSE 0) + ListRef(b)'
    BY <1>1, StillExact DEF TypeOK
  <1>3. freeListRefs[b] \in Nat /\ ListRef(b) \in {0, 1}
    BY <1>1 DEF TypeOK, ListRef
  <1>4. ASSUME Linked' = Linked, Popped' = Popped, Pushed(b)' <=> Pushed(b)
        PROVE  ListRef(b)' = ListRef(b)
    BY <1>4 DEF ListRef
  <1> USE DEF At, Goto, ForgetGet, getting, adding, atomics
  <1>5. CASE LoadPoolIndex(t) \/ FetchPoolIndex(t) \/ LoadHead(t) \/ LoadRefs(t)
             \/ LoadNext(t) \/ LoadListHead(t) \/ StoreNext(t) \/ MarkBlock(t)
    <2>1. freeListRefs' = freeListRefs /\ (Holds(t, b)' <=> Holds(t, b))
      BY <1>1, <1>5 DEF LoadPoolIndex, FetchPoolIndex, LoadHead, LoadRefs, LoadNext,
                        LoadListHead, StoreNext, MarkBlock, Holds, TypeOK
    <2>2. Linked' = Linked /\ Popped' = Popped
      BY <1>5, PlacesStay, FetchPlaces, MarkPlaces DEF SamePlaces
    <2>3. pc[t] \notin {"push", "retry"} /\ pc'[t] \notin {"push", "retry"}
      BY <1>1, <1>5 DEF LoadPoolIndex, FetchPoolIndex, LoadHead, LoadRefs, LoadNext,
                        LoadListHead, StoreNext, MarkBlock, TypeOK
    <2>4. Pushed(b)' <=> Pushed(b)
      BY <1>1, <2>3 DEF Pushed, OthersStay
    <2> QED
      BY <1>3, <1>4, <2>1, <2>2, <2>4
  <1>6. CASE Acquire(t)
    <2>1. Linked' = Linked /\ Popped' = Popped
      BY <1>6, PlacesStay DEF SamePlaces
    <2>2. pc[t] = "acquire" /\ pc'[t] \notin {"push", "retry"}
      BY <1>1, <1>6 DEF Acquire, TypeOK
    <2>3. ListRef(b)' = ListRef(b)
      BY <1>1, <1>4, <2>1, <2>2 DEF Pushed, OthersStay
    <2>4. ~Holds(t, b)
      BY <2>2 DEF Holds
    <2>5. CASE pc'[t] = "next"
      <3>1. /\ freeListRefs' = [freeListRefs EXCEPT ![head[t]] = @ + 1]
            /\ Holds(t, b)' <=> head[t] = b
        BY <1>1, <1>6, <2>5 DEF Acquire, Holds, TypeOK
      <3> QED
        BY <1>1, <1>3, <2>3, <2>4, <3>1 DEF TypeOK
    <2>6. CASE pc'[t] # "next"
      <3>1. freeListRefs' = freeListRefs /\ ~Holds(t, b)'
        BY <1>1, <1>6, <2>6 DEF Acquire, Holds, TypeOK
      <3> QED
        BY <1>3, <2>3, <2>4, <3>1
    <2> QED
      BY <2>5, <2>6
  <1>7. CASE Pop(t)
    <2>1. freeListRefs' = freeListRefs /\ (Holds(t, b)' <=> Holds(t, b))
      BY <1>1, <1>7 DEF Pop, Holds, TypeOK
    <2>2. pc[t] \notin {"push", "retry"} /\ pc'[t] \notin {"push", "retry"}
      BY <1>1, <1>7 DEF Pop, TypeOK
    <2>3. Pushed(b)' <=> Pushed(b)
      BY <1>1, <2>2 DEF Pushed, OthersStay
    <2>4. (Linked \cup Popped)' = Linked \cup Popped
      BY <1>7, PopPlaces DEF SamePlaces
    <2>5. ListRef(b)' = ListRef(b)
      BY <2>3, <2>4 DEF ListRef
    <2> QED
      BY <1>3, <2>1, <2>5
  <1>8. CASE DropBoth(t)
    <2>1. /\ pc[t] = "drop" /\ pc'[t] = "idle" /\ head[t] \in Blocks
          /\ freeListRefs' = [freeListRefs EXCEPT ![head[t]] = @ - 2]
      BY <1>1, <1>8 DEF DropBoth, TypeOK, LocalsRight
    <2>2. (Holds(t, b) <=> head[t] = b) /\ ~Holds(t, b)'
      BY <2>1 DEF Holds
    <2>3. Pushed(b)' <=> Pushed(b)
      BY <1>1, <2>1 DEF Pushed, OthersStay
    <2>4. CASE head[t] = b
      <3>1. b \in Popped /\ b \notin Linked /\ b \notin Returning
        BY <2>4, <1>8, DropPlaces, Counts DEF InOnePlace
      <3>2. ~Pushed(b) /\ Linked' = Linked /\ b \notin Popped'
        BY <2>4, <1>8, <3>1, DropPlaces, ReturningIs
      <3>3. ListRef(b) = 1 /\ ListRef(b)' = 0
        BY <2>3, <3>1, <3>2 DEF ListRef
      <3> QED
        BY <1>1, <1>3, <2>1, <2>2, <2>4, <3>3 DEF TypeOK
    <2>5. CASE head[t] # b
      <3>1. ListRef(b)' = ListRef(b)
        BY <1>8, <2>3, <2>5, DropPlaces DEF ListRef
      <3> QED
        BY <1>1, <1>3, <2>1, <2>2, <2>5, <3>1 DEF TypeOK
    <2> QED
      BY <2>4, <2>5
  <1>9. CASE Release(t)
    <2>1. /\ pc[t] = "release" /\ pc'[t] \in {"add", "idle", "refs"}
          /\ prevHead[t] \in Blocks
          /\ freeListRefs' = [freeListRefs EXCEPT ![prevHead[t]] = @ - 1]
      BY <1>1, <1>9 DEF Release, TypeOK, LocalsRight, Resume
    <2>2. (Holds(t, b) <=> prevHead[t] = b) /\ ~Holds(t, b)'
      BY <2>1 DEF Holds
    <2>3. Pushed(b)' <=> Pushed(b)
      BY <1>1, <2>1 DEF Pushed, OthersStay
    <2>4. ListRef(b)' = ListRef(b)
      BY <1>4, <1>9, <2>3, PlacesStay DEF SamePlaces
    <2> QED
      BY <1>1, <1>3, <2>1, <2>2, <2>4 DEF TypeOK
  <1>10. CASE StoreRefs(t)
    <2>1. /\ pc[t] = "count" /\ pc'[t] = "push" /\ node'[t] = node[t]
          /\ node[t] \in Blocks /\ freeListRefs[node[t]] = 0
          /\ freeListRefs' = [freeListRefs EXCEPT ![node[t]] = 1]
      BY <1>1, <1>10 DEF StoreRefs, TypeOK, LocalsRight, Adding
    <2>2. ~Holds(t, b) /\ ~Holds(t, b)'
      BY <2>1 DEF Holds
    <2>3. Linked' = Linked /\ Popped' = Popped
      BY <1>10, PlacesStay DEF SamePlaces
    <2>4. CASE node[t] = b
      <3>1. ListRef(b) = 0
        BY <2>1, <2>4, Counts
      <3>2. ListRef(b)' = 1
        BY <2>1, <2>4 DEF ListRef, Pushed
      <3> QED
        BY <1>1, <2>1, <2>2, <2>4, <3>1, <3>2 DEF TypeOK
    <2>5. CASE node[t] # b
      <3>1. ListRef(b)' = ListRef(b)
        BY <1>1, <1>4, <2>1, <2>3, <2>5 DEF Pushed, OthersStay
      <3> QED
        BY <1>1, <2>1, <2>2, <2>5, <3>1 DEF TypeOK
    <2> QED
      BY <2>4, <2>5
  <1>11. CASE Push(t)
    <2>1. /\ pc[t] = "push" /\ pc'[t] \in {"idle", "refs", "retry"}
          /\ freeListRefs' = freeListRefs /\ node[t] \in Blocks
      BY <1>1, <1>11 DEF Push, TypeOK, LocalsRight, Adding, Resume
    <2>2. ~Holds(t, b) /\ ~Holds(t, b)'
      BY <2>1 DEF Holds
    <2>3. CASE freeListHead = listHead[t]
      <3>1. /\ pc'[t] \notin {"push", "retry"}
            /\ Linked' = Linked \cup {node[t]} /\ Popped' = Popped
        BY <1>1, <1>11, <2>3, PushPlaces DEF Push, TypeOK, Resume
      <3>2. CASE node[t] = b
        BY <1>3, <2>1, <2>2, <3>1, <3>2 DEF ListRef, Pushed
      <3>3. CASE node[t] # b
        <4>1. Pushed(b)' <=> Pushed(b)
          BY <1>1, <3>1, <3>3 DEF Pushed, OthersStay
        <4>2. ListRef(b)' = ListRef(b)
          BY <3>1, <3>3, <4>1 DEF ListRef
        <4> QED
          BY <1>3, <2>1, <2>2, <4>2
      <3> QED
        BY <3>2, <3>3
    <2>4. CASE freeListHead # listHead[t]
      <3>1. pc'[t] = "retry" /\ node'[t] = node[t]
        BY <1>1, <1>11, <2>4 DEF Push, TypeOK
      <3>2. Pushed(b)' <=> Pushed(b)
        BY <1>1, <2>1, <3>1 DEF Pushed, OthersStay
      <3> QED
        BY <1>3, <1>4, <1>11, <2>1, <2>2, <2>4, <3>2, PushPlaces DEF SamePlaces
    <2> QED
      BY <2>3, <2>4
  <1>12. CASE Retry(t)
    <2>1. /\ pc[t] = "retry" /\ pc'[t] \in {"idle", "refs", "link"}
          /\ node[t] \in Blocks
          /\ freeListRefs' = [freeListRefs EXCEPT ![node[t]] = @ - 1]
      BY <1>1, <1>12 DEF Retry, TypeOK, LocalsRight, Adding, Resume
    <2>2. ~Holds(t, b) /\ ~Holds(t, b)'
      BY <2>1 DEF Holds
    <2>3. Linked' = Linked /\ Popped' = Popped
      BY <1>12, PlacesStay DEF SamePlaces
    <2>4. CASE node[t] = b
      <3>1. Pushed(b) /\ ~Pushed(b)'
        BY <1>1, <2>1, <2>4 DEF Pushed, OthersStay, OneAdder, Adding
      <3>2. b \notin Linked \cup Popped
        BY <2>4, <2>1, AddersReturn, Counts DEF InOnePlace, Adding
      <3>3. ListRef(b) = 1 /\ ListRef(b)' = 0
        BY <2>3, <3>1, <3>2 DEF ListRef
      <3> QED
        BY <1>1, <2>1, <2>2, <2>4, <3>3 DEF TypeOK
    <2>5. CASE node[t] # b
      <3>1. ListRef(b)' = ListRef(b)
        BY <1>1, <1>4, <2>1, <2>3, <2>5 DEF Pushed, OthersStay
      <3> QED
        BY <1>1, <2>1, <2>2, <2>5, <3>1 DEF TypeOK
    <2> QED
      BY <2>4, <2>5
  <1> QED
    BY <1>5, <1>6, <1>7, <1>8, <1>9, <1>10, <1>11, <1>12
       DEF Step, TryGet, AddKnowingRefcountIsZero

LEMMA StepRefsAreExact ==
    ASSUME PoolInv, NEW t \in Threads, Step(t) PROVE RefsAreExact'
  <1>1. OneOwner'
    BY StepOneOwner
  <1>2. ASSUME NEW b \in Blocks, shouldBeOnList'[b]
        PROVE  b \notin (Linked \cup Popped)'
    <2>1. b \in Returning' /\ InOnePlace(b)'
      BY <1>1, <1>2, ReturningIs DEF OneOwner
    <2> QED
      BY <2>1 DEF InOnePlace
  <1> QED
    BY <1>2, StepExact DEF RefsAreExact

-----------------------------------------------------------------------------
(* Nothing is forgotten *)

\* A thread stops to care for a block only when another one does, or when the block
\* is where it should be.
LEMMA StepSomeoneAddsIt ==
    ASSUME PoolInv, NEW t \in Threads, Step(t) PROVE SomeoneAddsIt'
  <1>1. OthersStay(t) /\ TypeOK /\ LocalsRight(t) /\ OneAdder /\ SomeoneAddsIt
    BY StepIsLocal, OwnerParts DEF PoolInv, LocalsAreRight
  <1>2. SUFFICES ASSUME NEW b \in Returning', b \in Blocks
                 PROVE  \E u \in Threads : Holds(u, b)' \/ Adder(u, b)'
    <2>1. ASSUME NEW b \in Returning' PROVE b \in Blocks
      <3>1. TypeOK' /\ OneOwner'
        BY StepTypes, StepOneOwner DEF Step, Next
      <3>2. CASE shouldBeOnList'[b] /\ b \in Blocks
        BY <3>2
      <3>3. CASE Pushed(b)'
        <4>1. PICK u \in Threads : pc'[u] \in {"push", "retry"} /\ node'[u] = b
          BY <3>3 DEF Pushed
        <4>2. CASE u # t
          BY <1>1, <4>1, <4>2, AddersReturn DEF OthersStay, Adding
        <4>3. CASE u = t
          BY <1>1, <4>1, <4>3 DEF Step, TryGet, AddKnowingRefcountIsZero, At, Goto, TypeOK,
             LoadPoolIndex, FetchPoolIndex, LoadHead, LoadRefs, Acquire, LoadNext, Pop,
             DropBoth, Release, MarkBlock, LoadListHead, StoreNext, StoreRefs, Push, Retry,
             Resume, adding, LocalsRight, Adding
        <4> QED
          BY <4>2, <4>3
      <3> QED
        BY <3>2, <3>3, ReturningIs
    <2> QED
      BY <2>1 DEF SomeoneAddsIt, Holders
  <1>3. ASSUME NEW u \in Threads \ {t}, Holds(u, b) \/ Adder(u, b)
        PROVE  Holds(u, b)' \/ Adder(u, b)'
    BY <1>1, <1>3 DEF OthersStay, Holds, Adder, Adding
  <1>4. ASSUME b \in Returning
        PROVE  \E u \in Threads : Holds(u, b) \/ Adder(u, b)
    BY <1>1, <1>4 DEF SomeoneAddsIt, Holders
  <1> USE DEF At, Goto, getting, adding, atomics
  <1>5. CASE b \notin Returning
    <2>1. MarkBlock(t)
      BY <1>2, <1>5, PlacesStay, FetchPlaces, PopPlaces, DropPlaces, PushPlaces
         DEF SamePlaces, Step, TryGet, AddKnowingRefcountIsZero
    <2>2. PICK c \in used :
              /\ Returning' = Returning \cup {c}
              /\ pc[t] = "idle"
              /\ pc' = [pc EXCEPT ![t] = IF freeListRefs[c] = 0 THEN "add" ELSE "idle"]
              /\ IF freeListRefs[c] = 0
                 THEN node' = [node EXCEPT ![t] = c]
                 ELSE UNCHANGED node
      BY <2>1, MarkPlaces
    <2>3. c = b
      BY <1>2, <1>5, <2>2
    <2>4. CASE freeListRefs[b] = 0
      <3>1. Adder(t, b)'
        BY <1>1, <2>2, <2>3, <2>4 DEF Adder, Adding, TypeOK
      <3> QED
        BY <3>1
    <2>5. CASE freeListRefs[b] # 0
      <3>1. b \notin Linked \cup Popped /\ ~Pushed(b)
        BY <1>2, <1>5, <2>2, <2>3, Counts, ReturningIs DEF InOnePlace
      <3>2. Holders(b) # {}
        BY <1>2, <2>5, <3>1, Counts DEF ListRef
      <3>3. PICK u \in Threads : Holds(u, b)
        BY <3>2 DEF Holders
      <3>4. u # t
        BY <2>2, <3>3 DEF Holds
      <3> QED
        BY <1>3, <3>3, <3>4
    <2> QED
      BY <2>4, <2>5
  <1>6. CASE b \in Returning /\ (\E u \in Threads \ {t} : Holds(u, b) \/ Adder(u, b))
    BY <1>3, <1>6
  <1>7. CASE b \in Returning /\ Holds(t, b)
             /\ ~(\E u \in Threads \ {t} : Holds(u, b) \/ Adder(u, b))
    <2>1. ~DropBoth(t)
      <3>1. DropBoth(t) => b \in Popped
        BY <1>7 DEF Holds, DropBoth, Popped
      <3> QED
        BY <1>2, <1>7, <3>1, Counts DEF InOnePlace
    <2>2. CASE Release(t)
      <3>1. pc[t] = "release" /\ prevHead[t] = b
        BY <1>7, <2>2 DEF Release, Holds
      <3>2. ~Pushed(b)
        BY <1>7, <3>1 DEF Pushed, Adder, Adding
      <3>3. shouldBeOnList[b] /\ b \notin Linked \cup Popped
        BY <1>2, <1>7, <3>2, ReturningIs, Counts DEF InOnePlace
      <3>4. Holders(b) = {t}
        BY <1>7 DEF Holders
      <3>5. freeListRefs[b] = 1
        <4>1. Cardinality(Holders(b)) = 1
          BY <3>4, FS_Singleton
        <4>2. ListRef(b) = 0
          BY <3>2, <3>3 DEF ListRef
        <4> QED
          BY <1>2, <4>1, <4>2, Counts
      <3>6. Adder(t, b)'
        BY <1>1, <2>2, <3>1, <3>3, <3>5 DEF Release, Adder, Adding, TypeOK
      <3> QED
        BY <3>6
    <2>3. CASE ~Release(t)
      <3>1. LoadNext(t) \/ Pop(t)
        BY <1>1, <1>7, <2>1, <2>3 DEF Holds, Step, TryGet, AddKnowingRefcountIsZero,
           LoadPoolIndex, FetchPoolIndex, LoadHead, LoadRefs, Acquire, DropBoth,
           MarkBlock, LoadListHead, StoreNext, StoreRefs, Push, Retry
      <3>2. Holds(t, b)'
        BY <1>1, <1>7, <3>1 DEF LoadNext, Pop, Holds, TypeOK
      <3> QED
        BY <3>2
    <2> QED
      BY <2>2, <2>3
  <1>8. CASE b \in Returning /\ Adder(t, b)
             /\ ~(\E u \in Threads \ {t} : Holds(u, b) \/ Adder(u, b))
    <2>1. LoadListHead(t) \/ StoreNext(t) \/ StoreRefs(t) \/ Push(t) \/ Retry(t)
      BY <1>8 DEF Adder, Adding, Step, TryGet, AddKnowingRefcountIsZero,
         LoadPoolIndex, FetchPoolIndex, LoadHead, LoadRefs, Acquire, LoadNext, Pop, DropBoth,
         Release, MarkBlock
    <2>2. CASE LoadListHead(t) \/ StoreNext(t) \/ StoreRefs(t)
      <3>1. Adder(t, b)'
        BY <1>1, <1>8, <2>2 DEF LoadListHead, StoreNext, StoreRefs, Adder, Adding, TypeOK
      <3> QED
        BY <3>1
    <2>3. CASE Push(t)
      <3>1. freeListHead # listHead[t]
        BY <1>2, <1>8, <2>3, PushPlaces DEF Adder
      <3>2. Adder(t, b)'
        BY <1>1, <1>8, <2>3, <3>1 DEF Push, Adder, Adding, TypeOK
      <3> QED
        BY <3>2
    <2>4. CASE Retry(t)
      <3>1. pc[t] = "retry" /\ node[t] = b /\ ~shouldBeOnList[b] /\ Pushed(b)
        BY <1>1, <1>8, <2>4 DEF Retry, Adder, Adding, LocalsRight, Pushed
      <3>2. Holders(b) = {}
        BY <1>8, <3>1 DEF Holders, Holds
      <3>3. freeListRefs[b] = 1
        BY <1>2, <3>1, <3>2, Counts DEF ListRef
      <3>4. Adder(t, b)'
        BY <1>1, <2>4, <3>1, <3>3 DEF Retry, Adder, Adding, TypeOK
      <3> QED
        BY <3>4
    <2> QED
      BY <2>1, <2>2, <2>3, <2>4
  <1> QED
    BY <1>4, <1>5, <1>6, <1>7, <1>8

-----------------------------------------------------------------------------
(* The threads' locals *)

\* The counts of two threads' blocks tell the blocks apart.
LEMMA ReferredTo ==
    ASSUME PoolInv, NEW u \in Threads, pc[u] \in {"add", "link", "count"}
    PROVE  /\ node[u] \in Blocks /\ freeListRefs[node[u]] = 0 /\ shouldBeOnList[node[u]]
           /\ \A t \in Threads : ~Holds(t, node[u])
  <1>1. node[u] \in Blocks /\ freeListRefs[node[u]] = 0 /\ shouldBeOnList[node[u]]
    BY DEF PoolInv, LocalsAreRight, LocalsRight, Adding
  <1>2. Holders(node[u]) = {}
    BY <1>1, Counts
  <1> QED
    BY <1>1, <1>2 DEF Holders

\* What another thread's step changes is not what this one relies on.
LEMMA OtherLocals ==
    ASSUME PoolInv, NEW t \in Threads, Step(t), NEW u \in Threads \ {t}
    PROVE  LocalsRight(u)'
  <1>1. /\ OthersStay(t) /\ TypeOK /\ OneAdder
        /\ LocalsRight(t) /\ LocalsRight(u)
    BY StepIsLocal, OwnerParts DEF PoolInv, LocalsAreRight
  <1> USE DEF At, Goto, getting, adding, atomics
  <1>2. ASSUME pc[u] = "pop" PROVE freeListNext'[head[u]] = freeListNext[head[u]]
    <2>1. head[u] \in Blocks /\ Holds(u, head[u])
      BY <1>1, <1>2 DEF LocalsRight, Holds
    <2>2. CASE StoreNext(t)
      <3>1. node[t] # head[u]
        BY <2>1, <2>2, ReferredTo DEF StoreNext
      <3> QED
        BY <1>1, <2>1, <2>2, <3>1 DEF StoreNext, TypeOK
    <2>3. CASE ~StoreNext(t)
      BY <2>3 DEF Step, TryGet, AddKnowingRefcountIsZero, LoadPoolIndex, FetchPoolIndex,
         LoadHead, LoadRefs, Acquire, LoadNext, Pop, DropBoth, Release, MarkBlock,
         LoadListHead, StoreRefs, Push, Retry
    <2> QED
      BY <2>2, <2>3
  <1>3. ASSUME Adding(t), Adding(u) PROVE node[t] # node[u]
    BY <1>3 , <1>1 DEF OneAdder
  <1>4. ASSUME pc[u] \in {"count", "push"}
        PROVE  freeListNext'[node[u]] = freeListNext[node[u]]
    <2>1. node[u] \in Blocks /\ Adding(u)
      BY <1>1, <1>4 DEF LocalsRight, Adding
    <2>2. CASE StoreNext(t)
      BY <1>1, <1>3, <2>1, <2>2 DEF StoreNext, TypeOK, Adding
    <2>3. CASE ~StoreNext(t)
      BY <2>3 DEF Step, TryGet, AddKnowingRefcountIsZero, LoadPoolIndex, FetchPoolIndex,
         LoadHead, LoadRefs, Acquire, LoadNext, Pop, DropBoth, Release, MarkBlock,
         LoadListHead, StoreRefs, Push, Retry
    <2> QED
      BY <2>2, <2>3
  <1>5. ASSUME pc[u] \in {"add", "link", "count"}
        PROVE  freeListRefs'[node[u]] = 0 /\ shouldBeOnList'[node[u]]
    <2> DEFINE b == node[u]
    <2>1. /\ b \in Blocks /\ freeListRefs[b] = 0 /\ shouldBeOnList[b] /\ Adding(u)
          /\ ~Holds(t, b)
      BY <1>5, ReferredTo DEF Adding
    <2> HIDE DEF b
    <2>2. CASE Acquire(t)
      <3>1. head[t] \in Blocks /\ refs[t][1] > 0
        BY <1>1, <2>2 DEF Acquire, LocalsRight
      <3>2. CASE refs[t] = <<freeListRefs[head[t]], shouldBeOnList[head[t]]>>
        <4>1. freeListRefs[head[t]] > 0
          BY <3>1, <3>2
        <4>2. head[t] # b
          BY <2>1, <4>1
        <4> QED
          BY <1>1, <2>1, <2>2, <3>1, <4>2 DEF Acquire, TypeOK, b
      <3>3. CASE refs[t] # <<freeListRefs[head[t]], shouldBeOnList[head[t]]>>
        BY <2>1, <2>2, <3>3 DEF Acquire, b
      <3> QED
        BY <3>2, <3>3
    <2>3. CASE DropBoth(t)
      <3>1. head[t] # b
        BY <2>1, <2>3 DEF DropBoth, Holds
      <3> QED
        BY <1>1, <2>1, <2>3, <3>1 DEF DropBoth, TypeOK, b
    <2>4. CASE Release(t)
      <3>1. prevHead[t] # b
        BY <2>1, <2>4 DEF Release, Holds
      <3> QED
        BY <1>1, <2>1, <2>4, <3>1 DEF Release, TypeOK, b
    <2>5. CASE StoreRefs(t)
      BY <1>1, <1>3, <2>1, <2>5 DEF StoreRefs, TypeOK, b, Adding
    <2>6. CASE Retry(t)
      BY <1>1, <1>3, <2>1, <2>6 DEF Retry, TypeOK, b, Adding
    <2>7. CASE MarkBlock(t)
      BY <1>1, <2>1, <2>7 DEF MarkBlock, TypeOK, b
    <2>8. CASE ~(Acquire(t) \/ DropBoth(t) \/ Release(t) \/ StoreRefs(t) \/ Retry(t)
                 \/ MarkBlock(t))
      BY <2>1, <2>8 DEF Step, TryGet, AddKnowingRefcountIsZero, LoadPoolIndex,
         FetchPoolIndex, LoadHead, LoadRefs, LoadNext, Pop, LoadListHead, StoreNext, Push, b
    <2> QED
      BY <2>2, <2>3, <2>4, <2>5, <2>6, <2>7, <2>8 DEF b
  <1>6. ASSUME pc[u] \in {"push", "retry"} PROVE ~shouldBeOnList'[node[u]]
    <2>1. node[u] \in Blocks /\ ~shouldBeOnList[node[u]] /\ Adding(u)
          /\ node[u] \in Returning
      BY <1>1, <1>6, AddersReturn DEF LocalsRight, Adding
    <2>2. CASE StoreRefs(t)
      BY <1>1, <2>1, <2>2 DEF StoreRefs, TypeOK
    <2>3. CASE Retry(t)
      BY <1>1, <1>3, <2>1, <2>3 DEF Retry, TypeOK, Adding
    <2>4. CASE MarkBlock(t)
      <3>1. PICK c \in used : shouldBeOnList' = [shouldBeOnList EXCEPT ![c] = TRUE]
        BY <2>4 DEF MarkBlock
      <3>2. c # node[u]
        BY <2>1, <3>1, Counts DEF InOnePlace
      <3> QED
        BY <1>1, <2>1, <3>1, <3>2 DEF TypeOK
    <2>5. CASE ~(StoreRefs(t) \/ Retry(t) \/ MarkBlock(t))
      BY <2>1, <2>5 DEF Step, TryGet, AddKnowingRefcountIsZero, LoadPoolIndex,
         FetchPoolIndex, LoadHead, LoadRefs, Acquire, LoadNext, Pop, DropBoth, Release,
         LoadListHead, StoreNext, Push
    <2> QED
      BY <2>2, <2>3, <2>4, <2>5
  <1> QED
    BY <1>1, <1>2, <1>4, <1>5, <1>6 DEF LocalsRight, OthersStay, Adding

LEMMA OwnLocals ==
    ASSUME PoolInv, NEW t \in Threads, Step(t) PROVE LocalsRight(t)'
  <1>1. TypeOK /\ TypeOK' /\ LocalsRight(t)
    BY StepTypes DEF PoolInv, LocalsAreRight, Step, Next
  <1> USE DEF At, Goto, ForgetGet, getting, adding, atomics, Adding, Resume
  <1>2. CASE LoadPoolIndex(t) \/ FetchPoolIndex(t)
    BY <1>1, <1>2 DEF LoadPoolIndex, FetchPoolIndex, LocalsRight, TypeOK
  <1>3. CASE LoadHead(t)
    <2>1. CASE freeListHead = Null
      <3>1. pc'[t] = "idle"
        BY <1>1, <1>3, <2>1 DEF LoadHead, TypeOK
      <3> QED
        BY <3>1 DEF LocalsRight
    <2>2. CASE freeListHead # Null
      <3>1. pc'[t] = "refs" /\ head'[t] \in Blocks
        BY <1>1, <1>3, <2>2 DEF LoadHead, TypeOK
      <3> QED
        BY <3>1 DEF LocalsRight
    <2> QED
      BY <2>1, <2>2
  <1>4. CASE LoadRefs(t)
    <2>1. head[t] \in Blocks /\ freeListRefs[head[t]] \in Nat
      BY <1>1, <1>4 DEF LoadRefs, LocalsRight, TypeOK
    <2>2. refs'[t] = <<freeListRefs[head[t]], shouldBeOnList[head[t]]>>
      BY <1>1, <1>4 DEF LoadRefs, TypeOK
    <2>3. freeListRefs[head[t]] # 0 => refs'[t][1] > 0
      BY <2>1, <2>2
    <2> QED
      BY <1>1, <1>4, <2>1, <2>3 DEF LoadRefs, LocalsRight, TypeOK
  <1>5. CASE Acquire(t)
    BY <1>1, <1>5 DEF Acquire, LocalsRight, TypeOK
  <1>6. CASE LoadNext(t)
    BY <1>1, <1>6 DEF LoadNext, LocalsRight, TypeOK
  <1>7. CASE Pop(t)
    BY <1>1, <1>7 DEF Pop, LocalsRight, TypeOK
  <1>8. CASE DropBoth(t)
    BY <1>1, <1>8 DEF DropBoth, LocalsRight, TypeOK
  <1>9. CASE Release(t)
    <2>1. prevHead[t] \in Blocks /\ pc[t] = "release"
      BY <1>1, <1>9 DEF Release, LocalsRight
    <2>2. CASE pc'[t] = "add"
      <3>1. /\ freeListRefs[prevHead[t]] = 1 /\ shouldBeOnList[prevHead[t]]
            /\ freeListRefs' = [freeListRefs EXCEPT ![prevHead[t]] = @ - 1]
            /\ shouldBeOnList' = shouldBeOnList
            /\ node' = [node EXCEPT ![t] = prevHead[t]]
        BY <1>1, <1>9, <2>2 DEF Release, TypeOK
      <3>2. node'[t] = prevHead[t] /\ freeListRefs'[prevHead[t]] = 0
        BY <1>1, <2>1, <3>1 DEF TypeOK
      <3> QED
        BY <2>1, <2>2, <3>1, <3>2 DEF LocalsRight
    <2>3. CASE pc'[t] # "add"
      <3>1. /\ pc'[t] \in {"idle", "refs"}
            /\ pc'[t] = "refs" => head[t] # Null /\ head' = head
        BY <1>1, <1>9, <2>3 DEF Release, TypeOK
      <3> QED
        BY <1>1, <3>1 DEF LocalsRight, TypeOK
    <2> QED
      BY <2>2, <2>3
  <1>10. CASE MarkBlock(t)
    <2>1. PICK b \in used :
              /\ pc' = [pc EXCEPT ![t] = IF freeListRefs[b] = 0 THEN "add" ELSE "idle"]
              /\ shouldBeOnList' = [shouldBeOnList EXCEPT ![b] = TRUE]
              /\ IF freeListRefs[b] = 0
                 THEN node' = [node EXCEPT ![t] = b]
                 ELSE UNCHANGED node
              /\ UNCHANGED freeListRefs
      BY <1>10 DEF MarkBlock
    <2> QED
      BY <1>1, <2>1 DEF LocalsRight, TypeOK
  <1>11. CASE LoadListHead(t) \/ StoreNext(t)
    BY <1>1, <1>11 DEF LoadListHead, StoreNext, LocalsRight, TypeOK
  <1>12. CASE StoreRefs(t)
    BY <1>1, <1>12 DEF StoreRefs, LocalsRight, TypeOK
  <1>13. CASE Push(t)
    <2>1. CASE freeListHead = listHead[t]
      <3>1. /\ pc'[t] \in {"idle", "refs"}
            /\ pc'[t] = "refs" => head[t] # Null /\ head' = head
        BY <1>1, <1>13, <2>1 DEF Push, TypeOK
      <3> QED
        BY <1>1, <3>1 DEF LocalsRight, TypeOK
    <2>2. CASE freeListHead # listHead[t]
      <3>1. /\ pc[t] = "push" /\ pc'[t] = "retry" /\ node' = node
            /\ shouldBeOnList' = shouldBeOnList
        BY <1>1, <1>13, <2>2 DEF Push, TypeOK
      <3> QED
        BY <1>1, <3>1 DEF LocalsRight
    <2> QED
      BY <2>1, <2>2
  <1>14. CASE Retry(t)
    <2>1. node[t] \in Blocks /\ ~shouldBeOnList[node[t]] /\ pc[t] = "retry"
      BY <1>1, <1>14 DEF Retry, LocalsRight
    <2>2. CASE pc'[t] = "link"
      <3>1. /\ freeListRefs[node[t]] = 1
            /\ freeListRefs' = [freeListRefs EXCEPT ![node[t]] = @ - 1]
            /\ shouldBeOnList' = [shouldBeOnList EXCEPT ![node[t]] = TRUE]
            /\ node' = node
        BY <1>1, <1>14, <2>2 DEF Retry, TypeOK
      <3>2. freeListRefs'[node[t]] = 0 /\ shouldBeOnList'[node[t]]
        BY <1>1, <2>1, <3>1 DEF TypeOK
      <3> QED
        BY <2>1, <2>2, <3>1, <3>2 DEF LocalsRight
    <2>3. CASE pc'[t] # "link"
      <3>1. /\ pc'[t] \in {"idle", "refs"}
            /\ pc'[t] = "refs" => head[t] # Null /\ head' = head
        BY <1>1, <1>14, <2>3 DEF Retry, TypeOK
      <3> QED
        BY <1>1, <3>1 DEF LocalsRight, TypeOK
    <2> QED
      BY <2>2, <2>3
  <1> QED
    BY <1>2, <1>3, <1>4, <1>5, <1>6, <1>7, <1>8, <1>9, <1>10, <1>11, <1>12, <1>13, <1>14
       DEF Step, TryGet, AddKnowingRefcountIsZero

-----------------------------------------------------------------------------
(* Theorems *)

LEMMA NothingHappens == PoolInv /\ UNCHANGED vars => PoolInv'
  <1> SUFFICES ASSUME PoolInv, UNCHANGED vars PROVE PoolInv'
    OBVIOUS
  <1> USE DEF vars, atomics, getting, adding
  <1>1. TypeOK'
    BY StepTypes DEF PoolInv
  <1>2. Linked' = Linked /\ Popped' = Popped /\ Returning' = Returning
        /\ Initial' = Initial
    BY DEF Linked, Popped, Returning, Initial
  <1>3. ListEnds'
    BY <1>2 DEF ListEnds, PoolInv
  <1>4. OneOwner'
    BY <1>2 DEF OneOwner, InOnePlace, PoolInv, Adding
  <1>5. \A b : Holders(b)' = Holders(b) /\ (Pushed(b)' <=> Pushed(b))
    BY DEF Holders, Holds, Pushed
  <1>6. RefsAreExact'
    BY <1>2, <1>5 DEF RefsAreExact, PoolInv, ListRef
  <1>7. SomeoneAddsIt'
    BY <1>2, <1>5 DEF SomeoneAddsIt, PoolInv, Adder, Adding
  <1>8. LocalsAreRight'
    BY DEF LocalsAreRight, LocalsRight, PoolInv, Adding
  <1> QED
    BY <1>1, <1>3, <1>4, <1>6, <1>7, <1>8 DEF PoolInv

LEMMA PoolInvIsInductive == PoolInv /\ [Next]_vars => PoolInv'
  <1>1. ASSUME PoolInv, NEW t \in Threads, Step(t) PROVE PoolInv'
    <2>1. TypeOK'
      BY <1>1, StepTypes DEF Step, Next
    <2>2. ListEnds' /\ OneOwner' /\ RefsAreExact' /\ SomeoneAddsIt'
      BY <1>1, StepInOnePlace, StepOneOwner, StepRefsAreExact, StepSomeoneAddsIt
    <2>3. LocalsAreRight'
      BY <1>1, OwnLocals, OtherLocals DEF LocalsAreRight
    <2> QED
      BY <2>1, <2>2, <2>3 DEF PoolInv
  <1>2. Next => \E t \in Threads : Step(t)
    BY DEF Next, Step
  <1> QED
    BY <1>1, <1>2, NothingHappens

LEMMA PoolInvAtFirst == Init => PoolInv
  <1> SUFFICES ASSUME Init PROVE PoolInv
    OBVIOUS
  <1> USE PoolAssumption
  <1>1. TypeOK
    <2>1. <<0, FALSE>> \in Nat \X BOOLEAN
      OBVIOUS
    <2>2. refs \in [Threads -> Nat \X BOOLEAN]
      BY <2>1 DEF Init
    <2> QED
      BY <2>2 DEF Init, TypeOK, Steps
  <1>2. Linked = {}
    <2>1. freeListNext \in Nexts /\ freeListHead = Null
      BY <1>1 DEF Nexts, Pointers, TypeOK, Init
    <2> QED
      BY <2>1, NothingFromNull DEF Linked
  <1>3. ListEnds
    BY <1>2 DEF ListEnds
  <1>4. Popped = {} /\ Returning = {} /\ Initial = Blocks /\ used = {}
    BY DEF Init, Popped, Returning, Initial, Blocks
  <1>5. OneOwner
    BY <1>2, <1>4 DEF OneOwner, InOnePlace, Init, Adding
  <1>6. ASSUME NEW b \in Blocks PROVE Holders(b) = {} /\ ListRef(b) = 0
    BY <1>2, <1>4 DEF Init, Holders, Holds, ListRef, Pushed
  <1>7. RefsAreExact
    <2>1. ASSUME NEW b \in Blocks PROVE freeListRefs[b] = Cardinality(Holders(b)) + ListRef(b)
      BY <1>6, FS_EmptySet DEF Init
    <2> QED
      BY <1>2, <1>4, <2>1 DEF RefsAreExact
  <1>8. SomeoneAddsIt
    BY <1>4 DEF SomeoneAddsIt
  <1>9. LocalsAreRight
    BY DEF Init, LocalsAreRight, LocalsRight, Adding
  <1> QED
    BY <1>1, <1>3, <1>5, <1>7, <1>8, <1>9 DEF PoolInv

\* The invariant of the pool that its steps keep up: types, a list that ends, one
\* place and one owner per block, exact counts, a thread for each block that is to be
\* added, and the locals of threads between two accesses.
THEOREM PoolInvariant == Spec => []PoolInv
  <1> QED
    BY PoolInvAtFirst, PoolInvIsInductive, PTL DEF Spec

\* The variables keep their types; in particular no count is ever taken below zero,
\* although fetch_sub takes one or two off an unsigned number without a check.
THEOREM PoolTypes == Spec => []TypeOK
  <1>1. PoolInv => TypeOK
    BY DEF PoolInv
  <1> QED
    BY <1>1, PoolInvariant, PTL

\* The compare_exchange of try_get and add never closes a circle of next pointers.
THEOREM FreeListEnds == Spec => []ListEnds
  <1>1. PoolInv => ListEnds
    BY DEF PoolInv
  <1> QED
    BY <1>1, PoolInvariant, PTL

\* A block is in the initial pool, on the free list, with its owner, just popped, or
\* on its way back: in one of these only, one thread pops it, one thread adds it.
THEOREM OneOwnerPerBlock == Spec => []OneOwner
  <1>1. PoolInv => OneOwner
    BY DEF PoolInv
  <1> QED
    BY <1>1, PoolInvariant, PTL

\* freeListRefs is the number of the references that threads and the list hold.
THEOREM ExactRefs == Spec => []RefsAreExact
  <1>1. PoolInv => RefsAreExact
    BY DEF PoolInv
  <1> QED
    BY <1>1, PoolInvariant, PTL

\* A block given back while threads refer to it is left to one of them: the bit is
\* never set with nobody left to see it.
THEOREM NoBlockForgotten == Spec => []SomeoneAddsIt
  <1>1. PoolInv => SomeoneAddsIt
    BY DEF PoolInv
  <1> QED
    BY <1>1, PoolInvariant, PTL

-----------------------------------------------------------------------------
(* The pool is what the sub-queues take it for *)

LEMMA PoolAtFirst == Init => AsPool!Init
  <1> SUFFICES ASSUME Init PROVE AsPool!Init
    OBVIOUS
  <1>1. Linked = {} 
    <2>1. freeListNext \in Nexts /\ freeListHead = Null
      BY PoolInvAtFirst DEF Nexts, Pointers, PoolInv, TypeOK, Init
    <2> QED
      BY <2>1, NothingFromNull DEF Linked
  <1>2. Popped = {} /\ Returning = {} /\ Initial = Blocks /\ used = {}
    BY PoolAssumption DEF Init, Popped, Returning, Initial, Blocks
  <1> QED
    BY <1>1, <1>2 DEF AsPool!Init

\* FetchPoolIndex and a successful Pop take a block, MarkBlock gives one back, a
\* successful Push settles it; what a thread does in between is its own business.
LEMMA PoolStep == PoolInv /\ [Next]_vars => [AsPool!Next]_AsPool!vars
  <1>1. ASSUME PoolInv, UNCHANGED vars PROVE UNCHANGED AsPool!vars
    BY <1>1 DEF vars, atomics, getting, adding, AsPool!vars, Linked, Popped, Returning,
                Initial
  <1>2. ASSUME SamePlaces PROVE UNCHANGED AsPool!vars
    BY <1>2 DEF SamePlaces, AsPool!vars
  <1>3. ASSUME PoolInv, NEW t \in Threads, FetchPoolIndex(t)
        PROVE  [AsPool!Next]_AsPool!vars
    <2> DEFINE i == initialBlockPoolIndex
    <2>1. CASE i \in Initial
      <3>1. i \in Blocks /\ i \notin Linked
        BY <1>3, <2>1, Counts DEF InOnePlace, Initial
      <3>2. AsPool!Take(i)
        BY <1>3, <2>1, <3>1, FetchPlaces DEF AsPool!Take
      <3> QED
        BY <3>1, <3>2 DEF AsPool!Next
    <2>2. CASE i \notin Initial
      BY <1>3, <2>2, FetchPlaces DEF AsPool!vars
    <2> QED
      BY <2>1, <2>2
  <1>4. ASSUME PoolInv, NEW t \in Threads, Pop(t) PROVE [AsPool!Next]_AsPool!vars
    <2>1. CASE freeListHead = head[t]
      <3>1. head[t] \in Linked /\ head[t] \in Blocks /\ head[t] \notin Initial
        BY <1>4, <2>1, PopPlaces, Counts DEF InOnePlace, Linked, LedTo
      <3>2. AsPool!Take(head[t])
        BY <1>4, <2>1, <3>1, PopPlaces DEF AsPool!Take
      <3> QED
        BY <3>1, <3>2 DEF AsPool!Next
    <2>2. CASE freeListHead # head[t]
      BY <1>2, <1>4, <2>2, PopPlaces
    <2> QED
      BY <2>1, <2>2
  <1>5. ASSUME PoolInv, NEW t \in Threads, DropBoth(t) PROVE UNCHANGED AsPool!vars
    BY <1>5, DropPlaces DEF AsPool!vars
  <1>6. ASSUME PoolInv, NEW t \in Threads, MarkBlock(t) PROVE [AsPool!Next]_AsPool!vars
    <2>1. PICK b \in used :
              /\ used' = used \ {b} /\ Returning' = Returning \cup {b}
              /\ Initial' = Initial /\ Linked' = Linked /\ Popped' = Popped
      BY <1>6, MarkPlaces
    <2>2. b \in Blocks /\ b \notin Popped
      BY <1>6, <2>1, Counts DEF InOnePlace, PoolInv, TypeOK
    <2>3. AsPool!GiveBack(b)
      BY <2>1, <2>2 DEF AsPool!GiveBack
    <2> QED
      BY <2>2, <2>3 DEF AsPool!Next
  <1>7. ASSUME PoolInv, NEW t \in Threads, Push(t) PROVE [AsPool!Next]_AsPool!vars
    <2>1. CASE freeListHead = listHead[t]
      <3>1. node[t] \in Blocks
        BY <1>7, AddersReturn DEF Push, At, Adding
      <3>2. AsPool!Settle(node[t])
        BY <1>7, <2>1, PushPlaces DEF AsPool!Settle
      <3> QED
        BY <3>1, <3>2 DEF AsPool!Next
    <2>2. CASE freeListHead # listHead[t]
      BY <1>2, <1>7, <2>2, PushPlaces
    <2> QED
      BY <2>1, <2>2
  <1> QED
    BY <1>1, <1>2, <1>3, <1>4, <1>5, <1>6, <1>7, PlacesStay
       DEF Next, TryGet, AddKnowingRefcountIsZero

\* The initial pool and the lock-free list together are the pool that the models of
\* the sub-queues take blocks from: each block is given to one thread at a time, and
\* comes back, if late and by the hand of another thread.
THEOREM PoolIsImplemented == Spec => ImplementsPool
  <1> QED
    BY PoolAtFirst, PoolStep, PoolInvariant, PTL DEF Spec, ImplementsPool, AsPool!Spec

=============================================================================
