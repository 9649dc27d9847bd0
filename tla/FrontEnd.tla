------------------------------ MODULE FrontEnd -------------------------------
(***************************************************************************)
(* The queue as a thread with several sub-queues before it sees it: the    *)
(* dequeue operations of include/concurrentqueue.h that choose among the   *)
(* producers, with and without a ConsumerToken, one element or several.    *)
(*                                                                         *)
(* Of a sub-queue (SubQueue, ExplicitQueue) only the number of elements    *)
(* that wait matters here.  One consumer is looked at.  All others are     *)
(* what it can see of them while they are at work: elements that are gone, *)
(* rotations, and dequeues that fail because they hold tickets.            *)
(***************************************************************************)
EXTENDS Integers, FiniteSets

CONSTANTS
    MaxProducers,   \* bound: producers ever created
    Capacity,       \* bound: elements waiting in a sub-queue
    NonEmptyEnough, \* try_dequeue looks for the best of this many (3)
    Quota,          \* EXPLICIT_CONSUMER_CONSUMPTION_QUOTA_BEFORE_ROTATE
    Span,           \* the offsets count modulo this (2^32)
    BulkSizes       \* numbers of elements the bulk operations ask for

ASSUME FrontEndAssumption ==
    /\ MaxProducers \in Nat \ {0} /\ Capacity \in Nat \ {0}
    /\ NonEmptyEnough \in Nat \ {0}
    /\ Quota \in Nat /\ Quota > 1 /\ Span \in Nat /\ Span > Quota
    /\ BulkSizes \subseteq Nat \ {0}

VARIABLES
    \* the producer list: producer n is the n-th that was linked, so the list is
    \* n, n - 1, ... 1, and its tail pointer is linked
    linked, producerCount,
    waiting,        \* per producer: elements in its sub-queue
    globalExplicitConsumerOffset,
    \* the consumer: its token, and where it is
    token, cpc,
    \* the call: what it is, how many elements are still wanted, the local tail
    \* and ptr, and what try_dequeue's first loop found
    op, max, tail, ptr, nonEmptyCount, best, bestSize,
    rivals,         \* are other consumers at work?
    \* history of the call: producers listed as it began, those that appeared to
    \* have too little, the one that gave the last element
    listed, short, served

list == <<linked, producerCount>>
scan == <<nonEmptyCount, best, bestSize>>
history == <<listed, short, served>>
vars == <<list, waiting, globalExplicitConsumerOffset, token, cpc, op, max,
          tail, ptr, scan, rivals, history>>

Producers == 1 .. MaxProducers
NoProducer == 0         \* nullptr

\* ProducerBase::next_prod
NextProd(k) == k - 1

\* Faulty variant: no wrap at the end of the list.
BugAround(k, t) == IF NextProd(k) = NoProducer THEN k ELSE NextProd(k)

\* The next producer, from the list's tail again after the oldest.
Around(k, t) == IF NextProd(k) = NoProducer THEN t ELSE NextProd(k)

\* n times around, in a list of t.
Onward(k, n, t) == ((k - 1 - n) % t) + 1

Init ==
    /\ linked = 0 /\ producerCount = 0
    /\ waiting = [k \in Producers |-> 0]
    /\ globalExplicitConsumerOffset = 0
    \* ConsumerToken(queue): lastKnownGlobalOffset is -1
    /\ token = [lastKnownGlobalOffset |-> Span - 1, itemsConsumedFromCurrent |-> 0,
                currentProducer |-> NoProducer, desiredProducer |-> NoProducer]
    /\ cpc = "idle" /\ op = "none" /\ max = 0
    /\ tail = NoProducer /\ ptr = NoProducer
    /\ nonEmptyCount = 0 /\ best = NoProducer /\ bestSize = 0
    /\ rivals = FALSE
    /\ listed = 0 /\ short = {} /\ served = NoProducer

-----------------------------------------------------------------------------
(* Producers *)

consumer == <<globalExplicitConsumerOffset, token, cpc, op, max, tail, ptr, scan,
              rivals, history>>

\* add_producer counts a producer, then links it (Ownership and ImplicitHash have
\* the steps of that).
CountProducer ==
    /\ producerCount < MaxProducers
    /\ producerCount' = producerCount + 1
    /\ UNCHANGED <<linked, waiting, consumer>>

LinkProducer ==
    /\ linked < producerCount
    /\ linked' = linked + 1
    /\ UNCHANGED <<producerCount, waiting, consumer>>

\* A producer's thread enqueues, when its sub-queue takes the element.
Enqueue(k) ==
    /\ k <= linked /\ waiting[k] < Capacity
    /\ waiting' = [waiting EXCEPT ![k] = @ + 1]
    /\ UNCHANGED <<list, consumer>>

-----------------------------------------------------------------------------
(* What the dequeue operations have in common *)

\* A sub-queue's dequeue and dequeue_bulk give what waits, as far as it is wanted;
\* fewer while other consumers are at work.
Least(a, b) == IF a < b THEN a ELSE b
Obtainable(k) ==
    IF rivals THEN 0 .. Least(max, waiting[k]) ELSE {Least(max, waiting[k])}

\* n elements of producer k are dequeued.
Dequeue(k, n) ==
    /\ n \in Obtainable(k)
    /\ waiting' = [waiting EXCEPT ![k] = @ - n]
    /\ max' = max - n
    /\ short' = IF n < max THEN short \cup {k} ELSE short
    /\ served' = IF n > 0 THEN k ELSE served

\* The call begins; only bulk operations ask for more than one element.
Call(operation, n) ==
    /\ cpc = "idle"
    /\ op' = operation /\ max' = n
    /\ CASE operation = "try_dequeue" -> cpc' = "size" /\ ptr' = linked
         [] operation = "in order" -> cpc' = "list" /\ ptr' = linked
         [] OTHER -> cpc' = "token" /\ ptr' = NoProducer
    /\ listed' = linked /\ short' = {} /\ served' = NoProducer
    /\ UNCHANGED <<list, waiting, globalExplicitConsumerOffset, token, tail,
                   scan, rivals>>

\* The call returns: whether it got everything, or how much; its locals are gone.
Return ==
    /\ cpc = "return" /\ cpc' = "idle"
    /\ op' = "none" /\ max' = 0
    /\ tail' = NoProducer /\ ptr' = NoProducer
    /\ nonEmptyCount' = 0 /\ best' = NoProducer /\ bestSize' = 0
    /\ listed' = 0 /\ short' = {} /\ served' = NoProducer
    /\ UNCHANGED <<list, waiting, globalExplicitConsumerOffset, token, rivals>>

-----------------------------------------------------------------------------
(* try_dequeue without a token *)

\* The heuristic: the largest of the first few that are not empty.  size_approx
\* loads the tail before the head, so others' dequeues make it too small.
LookAtSize ==
    /\ cpc = "size" /\ ptr # NoProducer /\ nonEmptyCount < NonEmptyEnough
    /\ \E size \in IF rivals THEN 0 .. waiting[ptr] ELSE {waiting[ptr]} :
          /\ nonEmptyCount' = nonEmptyCount + (IF size > 0 THEN 1 ELSE 0)
          /\ IF size > bestSize THEN best' = ptr /\ bestSize' = size
                                ELSE UNCHANGED <<best, bestSize>>
          /\ short' = IF size = 0 THEN short \cup {ptr} ELSE short
    /\ ptr' = NextProd(ptr)
    /\ UNCHANGED <<list, waiting, globalExplicitConsumerOffset, token, cpc, op,
                   max, tail, rivals, listed, served>>

SizesKnown ==
    /\ cpc = "size" /\ (ptr = NoProducer \/ nonEmptyCount = NonEmptyEnough)
    /\ cpc' = IF nonEmptyCount > 0 THEN "best" ELSE "return"
    /\ UNCHANGED <<list, waiting, globalExplicitConsumerOffset, token, op, max,
                   tail, ptr, scan, rivals, history>>

\* When the best has nothing any more, every other one is tried.
TryBest ==
    /\ cpc = "best"
    /\ \E n \in Obtainable(best) :
          /\ Dequeue(best, n)
          /\ cpc' = IF n = 1 THEN "return" ELSE "list"
    /\ ptr' = linked
    /\ UNCHANGED <<list, globalExplicitConsumerOffset, token, op, tail, scan,
                   rivals, listed>>

-----------------------------------------------------------------------------
(* One after the other: the second loop of try_dequeue, try_dequeue_non_interleaved, *)
(* and try_dequeue_bulk without a token                                              *)

TryNext ==
    /\ cpc = "list" /\ ptr \notin {NoProducer, best}
    /\ \E n \in Obtainable(ptr) :
          /\ Dequeue(ptr, n)
          /\ cpc' = IF n = max THEN "return" ELSE "list"
    /\ ptr' = NextProd(ptr)
    /\ UNCHANGED <<list, globalExplicitConsumerOffset, token, op, tail, scan,
                   rivals, listed>>

\* try_dequeue has been at the best; and at the end of the list nothing is left.
PassBest ==
    /\ cpc = "list" /\ ptr \in {NoProducer, best}
    /\ cpc' = IF ptr = NoProducer THEN "return" ELSE "list"
    /\ ptr' = IF ptr = NoProducer THEN ptr ELSE NextProd(ptr)
    /\ UNCHANGED <<list, waiting, globalExplicitConsumerOffset, token, op, max,
                   tail, scan, rivals, history>>

-----------------------------------------------------------------------------
(* try_dequeue and try_dequeue_bulk with a ConsumerToken *)

\* Has there been a rotation, or is the token new?
CheckRotation ==
    /\ cpc = "token"
    /\ cpc' = IF \/ token.desiredProducer = NoProducer
                 \/ token.lastKnownGlobalOffset # globalExplicitConsumerOffset
              THEN "rotation" ELSE "current"
    /\ UNCHANGED <<list, waiting, globalExplicitConsumerOffset, token, op, max,
                   tail, ptr, scan, rivals, history>>

\* update_current_producer_after_rotation loads the list's tail ...
LoadTail ==
    /\ cpc = "rotation"
    /\ tail' = linked
    /\ cpc' = IF token.desiredProducer = NoProducer /\ linked = NoProducer
              THEN "return" ELSE "rotate"
    /\ UNCHANGED <<list, waiting, globalExplicitConsumerOffset, token, op, max,
                   ptr, scan, rivals, history>>

\* Where a new token begins: initialOffset, which counts the tokens constructed
\* before, counts from the list's start.
FirstDesired(initialOffset) ==
    Onward(tail, producerCount - 1 - (initialOffset % producerCount), tail)

\* Where a token wants to be.
Desired ==
    IF token.desiredProducer = NoProducer
    THEN {FirstDesired(o) : o \in 0 .. producerCount - 1}
    ELSE {token.desiredProducer}

\* The rotations since the token last looked.
Delta ==
    ((globalExplicitConsumerOffset - token.lastKnownGlobalOffset) % Span)
        % producerCount

\* Faulty variant: the token begins at the same place again.
BugRotate ==
    /\ cpc = "rotate" /\ cpc' = "current"
    /\ \E desired \in Desired :
          token' = [token EXCEPT
              !.desiredProducer = desired, !.currentProducer = desired,
              !.lastKnownGlobalOffset = globalExplicitConsumerOffset,
              !.itemsConsumedFromCurrent = 0]
    /\ tail' = NoProducer
    /\ UNCHANGED <<list, waiting, globalExplicitConsumerOffset, op, max, ptr, scan,
                   rivals, history>>

\* ... then the count, which may be ahead of that tail, and the global offset.
Rotate ==
    /\ cpc = "rotate" /\ cpc' = "current"
    /\ \E desired \in Desired :
          LET here == Onward(desired, Delta, tail) IN
          token' = [token EXCEPT
              !.desiredProducer = here, !.currentProducer = here,
              !.lastKnownGlobalOffset = globalExplicitConsumerOffset,
              !.itemsConsumedFromCurrent = 0]
    /\ tail' = NoProducer
    /\ UNCHANGED <<list, waiting, globalExplicitConsumerOffset, op, max, ptr, scan,
                   rivals, history>>

\* Is it time for everyone to rotate?  One element at a time the quota is met
\* exactly, or not at all: after a bulk dequeue that found less than it wanted, which
\* counts without looking at the quota, single ones may be beyond it for ever.
QuotaReached(n) ==
    IF op = "token" THEN n = Quota ELSE n >= Quota

\* The current producer; a single dequeue counts what it got, and a bulk one too.
TryCurrent ==
    LET k == token.currentProducer IN
    /\ cpc = "current"
    /\ \E n \in Obtainable(k) :
          LET consumed == (token.itemsConsumedFromCurrent + n) % Span IN
          /\ Dequeue(k, n)
          /\ token' = [token EXCEPT !.itemsConsumedFromCurrent = consumed]
          /\ cpc' = CASE n < max -> "walk tail"
                      [] n = max /\ QuotaReached(consumed) -> "announce"
                      [] OTHER -> "return"
    /\ UNCHANGED <<list, globalExplicitConsumerOffset, op, tail, ptr, scan,
                   rivals, listed>>

\* globalExplicitConsumerOffset.fetch_add(1)
Announce ==
    /\ cpc = "announce" /\ cpc' = "return"
    /\ globalExplicitConsumerOffset' = (globalExplicitConsumerOffset + 1) % Span
    /\ UNCHANGED <<list, waiting, token, op, max, tail, ptr, scan, rivals,
                   history>>

\* Round the list from the current producer.
StartWalk ==
    /\ cpc = "walk tail" /\ cpc' = "walk"
    /\ tail' = linked
    /\ ptr' = Around(token.currentProducer, linked)
    /\ UNCHANGED <<list, waiting, globalExplicitConsumerOffset, token, op, max,
                   scan, rivals, history>>

\* Who has something becomes the current producer: a bulk dequeue that wants more
\* goes round from there.
WalkOn ==
    /\ cpc = "walk" /\ ptr # token.currentProducer
    /\ \E n \in Obtainable(ptr) :
          /\ Dequeue(ptr, n)
          /\ token' = IF n = 0 THEN token
                      ELSE [token EXCEPT !.currentProducer = ptr,
                                         !.itemsConsumedFromCurrent = n % Span]
          /\ cpc' = IF n = max THEN "return" ELSE "walk"
    /\ ptr' = Around(ptr, tail)
    /\ UNCHANGED <<list, globalExplicitConsumerOffset, op, tail, scan, rivals,
                   listed>>

WalkEnds ==
    /\ cpc = "walk" /\ ptr = token.currentProducer
    /\ cpc' = "return"
    /\ UNCHANGED <<list, waiting, globalExplicitConsumerOffset, token, op, max,
                   tail, ptr, scan, rivals, history>>

InsideCall ==
    \/ LookAtSize \/ SizesKnown \/ TryBest \/ TryNext \/ PassBest
    \/ CheckRotation \/ LoadTail \/ Rotate \/ TryCurrent \/ Announce
    \/ StartWalk \/ WalkOn \/ WalkEnds \/ Return

-----------------------------------------------------------------------------
(* Other consumers *)

RivalsComeAndGo ==
    /\ rivals' = ~rivals
    /\ UNCHANGED <<list, waiting, globalExplicitConsumerOffset, token, cpc, op,
                   max, tail, ptr, scan, history>>

RivalTakes(k) ==
    /\ rivals /\ waiting[k] > 0
    /\ waiting' = [waiting EXCEPT ![k] = @ - 1]
    /\ UNCHANGED <<list, globalExplicitConsumerOffset, token, cpc, op, max,
                   tail, ptr, scan, rivals, history>>

RivalRotates ==
    /\ rivals
    /\ globalExplicitConsumerOffset' = (globalExplicitConsumerOffset + 1) % Span
    /\ UNCHANGED <<list, waiting, token, cpc, op, max, tail, ptr, scan, rivals,
                   history>>

-----------------------------------------------------------------------------
Next ==
    \/ CountProducer \/ LinkProducer
    \/ \E k \in Producers : Enqueue(k)
    \/ \E o \in {"try_dequeue", "in order", "token"} : Call(o, 1)
    \/ \E o \in {"in order", "bulk token"} : \E n \in BulkSizes : Call(o, n)
    \/ InsideCall
    \/ RivalsComeAndGo \/ RivalRotates
    \/ \E k \in Producers : RivalTakes(k)

Spec == Init /\ [][Next]_vars

\* The consumer runs on inside its calls.
FairSpec == Spec /\ WF_vars(InsideCall)

-----------------------------------------------------------------------------
(* Properties *)

Pointers == 0 .. MaxProducers
Offsets == 0 .. Span - 1

\* Type invariant of the producer list, the tokens and the consumer's call.
TypeOK ==
    /\ linked \in Pointers /\ producerCount \in linked .. MaxProducers
    /\ waiting \in [Producers -> 0 .. Capacity]
    /\ globalExplicitConsumerOffset \in Offsets
    /\ token \in [lastKnownGlobalOffset : Offsets, itemsConsumedFromCurrent : Offsets,
                  currentProducer : 0 .. linked, desiredProducer : 0 .. linked]
    /\ cpc \in {"idle", "size", "best", "list", "token", "rotation", "rotate",
                "current", "announce", "walk tail", "walk", "return"}
    /\ op \in {"none", "try_dequeue", "in order", "token", "bulk token"}
    /\ max \in Nat
    /\ tail \in 0 .. linked /\ ptr \in 0 .. linked
    /\ nonEmptyCount \in 0 .. NonEmptyEnough
    /\ best \in 0 .. linked /\ bestSize \in 0 .. Capacity
    /\ rivals \in BOOLEAN
    /\ cpc \in {"current", "walk tail", "walk"} => token.currentProducer # NoProducer

\* A call that returns less than it was asked for has found too little in every
\* producer that was listed when it began, wherever in the list it started and
\* whatever was linked or rotated meanwhile ("Returns false if all producer
\* streams appeared empty at the time they were checked").
LessMeansAllChecked ==
    cpc = "return" /\ max > 0 => 1 .. listed \subseteq short

\* Refilled without end, no sub-queue keeps a consumer from the others if the consumer
\* has a token and dequeues one element at a time, alone in the end: the rotation takes
\* it everywhere.  (Without a token, NonEmptyEnough busy producers that came later can
\* keep an older one waiting for ever.)
NoProducerStarves ==
    /\ <>[]~rivals
    /\ [](op \in {"none", "token"}) /\ []<>(cpc = "return")
    => \A k \in Producers : (waiting[k] > 0) ~> (served = k \/ waiting[k] = 0)

\* The inductive invariant of the proofs.  A token that wants to be somewhere is
\* somewhere; the heuristic has a best as soon as it has seen one that is not empty.
PlaceKnown ==
    /\ token.desiredProducer # NoProducer => token.currentProducer # NoProducer
    /\ cpc = "rotate" => tail # NoProducer
    /\ nonEmptyCount > 0 <=> best # NoProducer
    /\ bestSize > 0 <=> best # NoProducer
    /\ cpc = "best" => best # NoProducer
    /\ cpc = "idle" => best = NoProducer

\* Until the call returns it wants something; only one element without a token, before
\* the list is gone through.
StillWanted ==
    /\ cpc \in {"size", "best"} => max = 1
    /\ cpc \in {"list", "token", "rotation", "rotate", "current", "walk tail", "walk"} =>
          max > 0
    /\ cpc = "announce" => max = 0
    /\ listed \in 0 .. linked

\* From producer k on to the list's end all have been checked, and so have those from
\* the current producer round to ptr.
CheckedAfter(k) == k + 1 .. listed \subseteq short
Round ==
    IF ptr < token.currentProducer
    THEN ptr + 1 .. token.currentProducer
    ELSE (1 .. token.currentProducer) \cup (ptr + 1 .. tail)

\* What the call has found short on its way through the list, or round it.
WayChecked ==
    /\ cpc = "size" /\ nonEmptyCount = 0 => CheckedAfter(ptr)
    /\ cpc = "list" => CheckedAfter(ptr) /\ (best # NoProducer => best \in short)
    /\ cpc = "walk tail" => token.currentProducer \in short
    /\ cpc = "walk" =>
          /\ listed <= tail /\ token.currentProducer <= tail /\ ptr \in 1 .. tail
          /\ Round \subseteq short

FrontEndInv ==
    /\ TypeOK /\ PlaceKnown /\ StillWanted /\ WayChecked /\ LessMeansAllChecked

=============================================================================
