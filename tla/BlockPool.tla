----------------------------- MODULE BlockPool ------------------------------
(***************************************************************************)
(* The pool of blocks that all the sub-queues share: the initial pool and  *)
(* the lock-free FreeList of include/concurrentqueue.h, with one step per  *)
(* access to shared memory.  Producers take blocks (requisition_block with *)
(* CannotAlloc), consumers give emptied blocks back.                       *)
(*                                                                         *)
(* The list is a stack whose nodes are counted: a thread takes a reference *)
(* to the head before it reads its next pointer, and a node goes back on   *)
(* the list only when nobody refers to it, which may leave that to the     *)
(* thread that gives up the last reference.                                *)
(***************************************************************************)
EXTENDS Integers, FiniteSets

CONSTANTS
    Threads,
    PoolSize,   \* initialBlockPoolSize; rtlog's queue has 6 blocks
    Null

Blocks == 0 .. PoolSize - 1

ASSUME PoolAssumption ==
    /\ IsFiniteSet(Threads)
    /\ PoolSize \in Nat /\ PoolSize > 0 /\ Null \notin Blocks

VARIABLES
    initialBlockPoolIndex,
    freeListHead,
    freeListRefs,   \* per block: the count in the low bits
    shouldBeOnList, \* per block: the bit SHOULD_BE_ON_FREELIST of freeListRefs
    freeListNext,
    used,           \* the blocks that sub-queues use
    pc,
    head,           \* try_get: the local head
    prevHead,       \* try_get: the block whose reference is given up
    refs,           \* try_get: the freeListRefs loaded, <<count, bit>>
    next,           \* try_get: the next pointer loaded
    node,           \* add_knowing_refcount_is_zero: its block
    listHead        \* add_knowing_refcount_is_zero: its local head

atomics == <<freeListRefs, shouldBeOnList>>
getting == <<head, prevHead, refs, next>>
adding == <<node, listHead>>
vars == <<initialBlockPoolIndex, freeListHead, atomics, freeListNext, used, pc,
          getting, adding>>

Init ==
    /\ initialBlockPoolIndex = 0 /\ freeListHead = Null
    /\ freeListRefs = [b \in Blocks |-> 0]
    /\ shouldBeOnList = [b \in Blocks |-> FALSE]
    /\ freeListNext = [b \in Blocks |-> Null]
    /\ used = {}
    /\ pc = [t \in Threads |-> "idle"]
    /\ head = [t \in Threads |-> Null] /\ prevHead = [t \in Threads |-> Null]
    /\ refs = [t \in Threads |-> <<0, FALSE>>]
    /\ next = [t \in Threads |-> Null]
    /\ node = [t \in Threads |-> Null] /\ listHead = [t \in Threads |-> Null]

At(t, step) == pc[t] = step
Goto(t, step) == pc' = [pc EXCEPT ![t] = step]

\* The locals of a call that returns are gone.
ForgetGet(t) ==
    /\ head' = [head EXCEPT ![t] = Null]
    /\ prevHead' = [prevHead EXCEPT ![t] = Null]
    /\ refs' = [refs EXCEPT ![t] = <<0, FALSE>>]
    /\ next' = [next EXCEPT ![t] = Null]
ForgetAdd(t) ==
    /\ node' = [node EXCEPT ![t] = Null]
    /\ listHead' = [listHead EXCEPT ![t] = Null]

-----------------------------------------------------------------------------
(* requisition_block: the initial pool first, then the free list *)

LoadPoolIndex(t) ==
    /\ At(t, "idle")
    /\ Goto(t, IF initialBlockPoolIndex >= PoolSize THEN "load" ELSE "fetch")
    /\ UNCHANGED <<initialBlockPoolIndex, freeListHead, atomics, freeListNext,
                   used, getting, adding>>

\* Faulty variant: the index is not compared with the size again.
BugFetchPoolIndex(t) ==
    /\ At(t, "fetch") /\ Goto(t, "idle")
    /\ initialBlockPoolIndex' = initialBlockPoolIndex + 1
    /\ used' = used \cup {initialBlockPoolIndex}
    /\ UNCHANGED <<freeListHead, atomics, freeListNext, getting, adding>>

\* initialBlockPoolIndex.fetch_add(1): the index may be beyond the end by now.
FetchPoolIndex(t) ==
    /\ At(t, "fetch")
    /\ initialBlockPoolIndex' = initialBlockPoolIndex + 1
    /\ IF initialBlockPoolIndex < PoolSize
       THEN Goto(t, "idle") /\ used' = used \cup {initialBlockPoolIndex}
       ELSE Goto(t, "load") /\ UNCHANGED used
    /\ UNCHANGED <<freeListHead, atomics, freeListNext, getting, adding>>

-----------------------------------------------------------------------------
(* FreeList::try_get *)

\* Loads the head, first or again; an empty list means nullptr.
LoadHead(t) ==
    /\ At(t, "load")
    /\ IF freeListHead = Null
       THEN Goto(t, "idle") /\ ForgetGet(t)
       ELSE /\ Goto(t, "refs")
            /\ head' = [head EXCEPT ![t] = freeListHead]
            /\ UNCHANGED <<prevHead, refs, next>>
    /\ UNCHANGED <<initialBlockPoolIndex, freeListHead, atomics, freeListNext,
                   used, adding>>

\* A count of zero: the block is not (or no longer) on the list.
LoadRefs(t) ==
    LET b == head[t] IN
    /\ At(t, "refs") /\ Goto(t, IF freeListRefs[b] = 0 THEN "load" ELSE "acquire")
    /\ refs' = [refs EXCEPT ![t] = <<freeListRefs[b], shouldBeOnList[b]>>]
    /\ UNCHANGED <<initialBlockPoolIndex, freeListHead, atomics, freeListNext,
                   used, head, prevHead, next, adding>>

\* Faulty variant: a reference is taken whatever the count is by now.
BugAcquire(t) ==
    /\ At(t, "acquire") /\ Goto(t, "next")
    /\ freeListRefs' = [freeListRefs EXCEPT ![head[t]] = @ + 1]
    /\ UNCHANGED <<initialBlockPoolIndex, freeListHead, shouldBeOnList,
                   freeListNext, used, getting, adding>>

\* compare_exchange refs -> refs + 1 takes a reference, or starts over.
Acquire(t) ==
    LET b == head[t] IN
    /\ At(t, "acquire")
    /\ IF refs[t] = <<freeListRefs[b], shouldBeOnList[b]>>
       THEN /\ Goto(t, "next")
            /\ freeListRefs' = [freeListRefs EXCEPT ![b] = @ + 1]
       ELSE /\ Goto(t, "load")
            /\ UNCHANGED freeListRefs
    /\ UNCHANGED <<initialBlockPoolIndex, freeListHead, shouldBeOnList,
                   freeListNext, used, getting, adding>>

LoadNext(t) ==
    /\ At(t, "next") /\ Goto(t, "pop")
    /\ next' = [next EXCEPT ![t] = freeListNext[head[t]]]
    /\ UNCHANGED <<initialBlockPoolIndex, freeListHead, atomics, freeListNext,
                   used, head, prevHead, refs, adding>>

\* compare_exchange of the list's head takes the block off, or loads the new head.
Pop(t) ==
    /\ At(t, "pop")
    /\ IF freeListHead = head[t]
       THEN /\ Goto(t, "drop")
            /\ freeListHead' = next[t]
            /\ UNCHANGED getting
       ELSE /\ Goto(t, "release")
            /\ prevHead' = [prevHead EXCEPT ![t] = head[t]]
            /\ head' = [head EXCEPT ![t] = freeListHead]
            /\ UNCHANGED <<freeListHead, refs, next>>
    /\ UNCHANGED <<initialBlockPoolIndex, atomics, freeListNext, used, adding>>

\* Faulty variant: the list's own reference is kept.
BugDropBoth(t) ==
    LET b == head[t] IN
    /\ At(t, "drop") /\ Goto(t, "idle")
    /\ freeListRefs' = [freeListRefs EXCEPT ![b] = @ - 1]
    /\ used' = used \cup {b}
    /\ ForgetGet(t)
    /\ UNCHANGED <<initialBlockPoolIndex, freeListHead, shouldBeOnList,
                   freeListNext, adding>>

\* fetch_sub(2), this thread's reference and the list's: the block is the caller's.
DropBoth(t) ==
    LET b == head[t] IN
    /\ At(t, "drop") /\ Goto(t, "idle")
    /\ freeListRefs' = [freeListRefs EXCEPT ![b] = @ - 2]
    /\ used' = used \cup {b}
    /\ ForgetGet(t)
    /\ UNCHANGED <<initialBlockPoolIndex, freeListHead, shouldBeOnList,
                   freeListNext, adding>>

\* try_get goes on with the head it has: the loop ends at null.  (add, which has
\* no such head, returns.)
Resume(t) == IF head[t] = Null THEN "idle" ELSE "refs"

\* Faulty variant: a block that was to be added meanwhile is forgotten.
BugRelease(t) ==
    /\ At(t, "release") /\ Goto(t, Resume(t))
    /\ freeListRefs' = [freeListRefs EXCEPT ![prevHead[t]] = @ - 1]
    /\ IF head[t] = Null
       THEN ForgetGet(t)
       ELSE UNCHANGED getting
    /\ UNCHANGED <<initialBlockPoolIndex, freeListHead, shouldBeOnList,
                   freeListNext, used, adding>>

\* fetch_sub(1): whoever gives up the last reference to a block that should be on
\* the list adds it.
Release(t) ==
    LET b == prevHead[t]
        mustAdd == freeListRefs[b] = 1 /\ shouldBeOnList[b]
    IN  /\ At(t, "release") /\ Goto(t, IF mustAdd THEN "add" ELSE Resume(t))
        /\ freeListRefs' = [freeListRefs EXCEPT ![b] = @ - 1]
        /\ IF mustAdd
           THEN /\ node' = [node EXCEPT ![t] = b]
                /\ UNCHANGED listHead
           ELSE UNCHANGED adding
        /\ IF ~mustAdd /\ head[t] = Null
           THEN ForgetGet(t)
           ELSE prevHead' = [prevHead EXCEPT ![t] = Null] /\ UNCHANGED <<head, refs, next>>
        /\ UNCHANGED <<initialBlockPoolIndex, freeListHead, shouldBeOnList,
                       freeListNext, used>>

-----------------------------------------------------------------------------
(* FreeList::add *)

\* Sets the bit; only when nobody refers to the block this thread adds it.
MarkBlock(t) ==
    \E b \in used :
        /\ At(t, "idle") /\ Goto(t, IF freeListRefs[b] = 0 THEN "add" ELSE "idle")
        /\ used' = used \ {b}
        /\ shouldBeOnList' = [shouldBeOnList EXCEPT ![b] = TRUE]
        /\ IF freeListRefs[b] = 0
           THEN node' = [node EXCEPT ![t] = b]
           ELSE UNCHANGED node
        /\ UNCHANGED <<initialBlockPoolIndex, freeListHead, freeListRefs,
                       freeListNext, getting, listHead>>

(* add_knowing_refcount_is_zero *)

LoadListHead(t) ==
    /\ At(t, "add") /\ Goto(t, "link")
    /\ listHead' = [listHead EXCEPT ![t] = freeListHead]
    /\ UNCHANGED <<initialBlockPoolIndex, freeListHead, atomics, freeListNext,
                   used, getting, node>>

StoreNext(t) ==
    /\ At(t, "link") /\ Goto(t, "count")
    /\ freeListNext' = [freeListNext EXCEPT ![node[t]] = listHead[t]]
    /\ UNCHANGED <<initialBlockPoolIndex, freeListHead, atomics, used, getting,
                   adding>>

\* freeListRefs.store(1): the list's reference, and the bit is gone.
StoreRefs(t) ==
    /\ At(t, "count") /\ Goto(t, "push")
    /\ freeListRefs' = [freeListRefs EXCEPT ![node[t]] = 1]
    /\ shouldBeOnList' = [shouldBeOnList EXCEPT ![node[t]] = FALSE]
    /\ UNCHANGED <<initialBlockPoolIndex, freeListHead, freeListNext, used,
                   getting, adding>>

Push(t) ==
    /\ At(t, "push")
    /\ IF freeListHead = listHead[t]
       THEN /\ Goto(t, Resume(t))
            /\ freeListHead' = node[t]
            /\ ForgetAdd(t)
            /\ IF head[t] = Null THEN ForgetGet(t) ELSE UNCHANGED getting
       ELSE /\ Goto(t, "retry")
            /\ listHead' = [listHead EXCEPT ![t] = freeListHead]
            /\ UNCHANGED <<freeListHead, node, getting>>
    /\ UNCHANGED <<initialBlockPoolIndex, atomics, freeListNext, used>>

\* fetch_add(SHOULD_BE_ON_FREELIST - 1): the add failed.  It may be tried again
\* only when no other thread has referred to the block in between; else the last
\* of them adds it.
Retry(t) ==
    LET b == node[t]
        alone == freeListRefs[b] = 1 /\ ~shouldBeOnList[b]
    IN  /\ At(t, "retry") /\ Goto(t, IF alone THEN "link" ELSE Resume(t))
        /\ freeListRefs' = [freeListRefs EXCEPT ![b] = @ - 1]
        /\ shouldBeOnList' = [shouldBeOnList EXCEPT ![b] = TRUE]
        /\ IF alone THEN UNCHANGED adding ELSE ForgetAdd(t)
        /\ IF ~alone /\ head[t] = Null THEN ForgetGet(t) ELSE UNCHANGED getting
        /\ UNCHANGED <<initialBlockPoolIndex, freeListHead, freeListNext, used>>

-----------------------------------------------------------------------------
TryGet(t) ==
    \/ LoadHead(t) \/ LoadRefs(t) \/ Acquire(t) \/ LoadNext(t) \/ Pop(t)
    \/ DropBoth(t) \/ Release(t)

AddKnowingRefcountIsZero(t) ==
    \/ LoadListHead(t) \/ StoreNext(t) \/ StoreRefs(t) \/ Push(t) \/ Retry(t)

Next == \E t \in Threads :
    \/ LoadPoolIndex(t) \/ FetchPoolIndex(t) \/ TryGet(t)
    \/ MarkBlock(t) \/ AddKnowingRefcountIsZero(t)

Spec == Init /\ [][Next]_vars

-----------------------------------------------------------------------------
(* Properties *)

Steps == {"idle", "fetch", "load", "refs", "acquire", "next", "pop", "drop",
          "release", "add", "link", "count", "push", "retry"}

\* Type invariant of the pool and of the threads using it.
TypeOK ==
    /\ initialBlockPoolIndex \in Nat
    /\ freeListHead \in Blocks \cup {Null}
    /\ freeListRefs \in [Blocks -> Nat]
    /\ shouldBeOnList \in [Blocks -> BOOLEAN]
    /\ freeListNext \in [Blocks -> Blocks \cup {Null}]
    /\ used \subseteq Blocks
    /\ pc \in [Threads -> Steps]
    /\ head \in [Threads -> Blocks \cup {Null}]
    /\ prevHead \in [Threads -> Blocks \cup {Null}]
    /\ refs \in [Threads -> Nat \X BOOLEAN]
    /\ next \in [Threads -> Blocks \cup {Null}]
    /\ node \in [Threads -> Blocks \cup {Null}]
    /\ listHead \in [Threads -> Blocks \cup {Null}]

\* The blocks that the next pointers f lead to from x, which may be a null pointer:
\* the least set that has x and is closed under f.
NextClosed(f, S) == \A b \in S : f[b] \in S \cup {Null}
LedTo(f, x) ==
    {b \in Blocks : \A S \in SUBSET Blocks :
                        NextClosed(f, S) /\ x \in S \cup {Null} => b \in S}

Initial == {b \in Blocks : b >= initialBlockPoolIndex}
Linked == LedTo(freeListNext, freeListHead)
Popped == {head[t] : t \in {u \in Threads : pc[u] = "drop"}}
Adding(t) == pc[t] \in {"add", "link", "count", "push", "retry"}
Adder(t, b) == Adding(t) /\ node[t] = b
Returning ==
    {b \in Blocks : shouldBeOnList[b]}
    \cup {node[t] : t \in {u \in Threads : pc[u] \in {"push", "retry"}}}

\* The free list never runs into a circle.
ListEnds == \A b \in Linked : b \notin LedTo(freeListNext, freeListNext[b])

\* A block is in one place only, through any interleaving of pops and delayed
\* pushes (a stale next pointer never puts a used block back on the list, the ABA
\* problem the reference counts are there for), no two threads get it, and no two
\* threads add it ("we run only one copy of this method per node at a time").
InOnePlace(b) ==
    \/ b \in Initial /\ b \notin Linked \cup used \cup Popped \cup Returning
    \/ b \in Linked /\ b \notin Initial \cup used \cup Popped \cup Returning
    \/ b \in used /\ b \notin Initial \cup Linked \cup Popped \cup Returning
    \/ b \in Popped /\ b \notin Initial \cup Linked \cup used \cup Returning
    \/ b \in Returning /\ b \notin Initial \cup Linked \cup used \cup Popped

OneOwner ==
    /\ \A b \in Blocks : InOnePlace(b)
    /\ \A t, u \in Threads : t # u =>
          /\ ~(pc[t] = "drop" /\ pc[u] = "drop" /\ head[t] = head[u])
          /\ ~(Adding(t) /\ Adding(u) /\ node[t] = node[u])

\* References threads hold to b, and that of the list, or the one a push prepares.
Holds(t, b) ==
    \/ pc[t] \in {"next", "pop", "drop"} /\ head[t] = b
    \/ pc[t] = "release" /\ prevHead[t] = b
Holders(b) == {t \in Threads : Holds(t, b)}
Pushed(b) == \E t \in Threads : pc[t] \in {"push", "retry"} /\ node[t] = b
ListRef(b) == IF b \in Linked \cup Popped \/ Pushed(b) THEN 1 ELSE 0

\* The count is exact, so it is zero exactly when no thread may read or link the
\* block; the bit is only set on a block that nobody has on the list ("it was on
\* the list, which means shouldBeOnFreeList must be false").
RefsAreExact ==
    \A b \in Blocks :
        /\ freeListRefs[b] = Cardinality(Holders(b)) + ListRef(b)
        /\ shouldBeOnList[b] => b \notin Linked \cup Popped

\* A block given back is never forgotten: as long as it is not on the list, some
\* thread is adding it, or still holds a reference and will see, when it gives the
\* last one up, that the block should be on the list.  (When the block gets there is
\* another matter: the list is lock-free, and one thread's compare_exchange may lose
\* for ever to threads that keep taking blocks.)
SomeoneAddsIt ==
    \A b \in Returning :
        Holders(b) # {} \/ \E t \in Threads : Adder(t, b)

\* What a thread's place in its call says about its locals and about the block it
\* works on; with the properties above, the inductive invariant of the proofs.
LocalsRight(t) ==
    /\ pc[t] \in {"refs", "acquire", "next", "pop", "drop"} => head[t] \in Blocks
    /\ pc[t] = "acquire" => refs[t][1] > 0
    /\ pc[t] = "pop" => next[t] = freeListNext[head[t]]
    /\ pc[t] = "release" => prevHead[t] \in Blocks
    /\ Adding(t) => node[t] \in Blocks
    /\ pc[t] \in {"add", "link", "count"} =>
          freeListRefs[node[t]] = 0 /\ shouldBeOnList[node[t]]
    /\ pc[t] \in {"push", "retry"} => ~shouldBeOnList[node[t]]
    /\ pc[t] \in {"count", "push"} => freeListNext[node[t]] = listHead[t]
LocalsAreRight == \A t \in Threads : LocalsRight(t)

PoolInv ==
    TypeOK /\ ListEnds /\ OneOwner /\ RefsAreExact /\ SomeoneAddsIt /\ LocalsAreRight

\* The pool as the sub-queues see it: a block a thread has popped is theirs.
AsPool ==
    INSTANCE Pool WITH
        free <- Initial \cup Linked,
        returning <- Returning,
        used <- used \cup Popped

ImplementsPool == AsPool!Spec

=============================================================================
