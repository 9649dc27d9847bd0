------------------------------ MODULE Ownership ------------------------------
(***************************************************************************)
(* Who owns what: queue objects, the producers in their lists, the tables  *)
(* of their hashes, their pools, and the ProducerTokens that hold          *)
(* producers (include/concurrentqueue.h).                                  *)
(*                                                                         *)
(* Tokens are constructed and destroyed by several threads together: they  *)
(* race for inactive producers.  Queues are constructed, moved, swapped    *)
(* and destroyed while nobody is inside ("not thread-safe"), and take all  *)
(* that belongs to them along, by pointers from one to the other.          *)
(***************************************************************************)
EXTENDS Integers, Sequences, FiniteSets, SequencesExt

CONSTANTS
    Queues,         \* queue objects, and the initial table inside each
    Tokens,         \* ProducerToken objects, each of a thread of its own
    Writers,        \* threads that enqueue without a token
    MaxProducers,   \* bound: producers at a time
    MaxTables,      \* bound: allocated hash tables at a time
    Nobody          \* null pointers

ASSUME OwnershipAssumption ==
    /\ MaxProducers \in Nat /\ MaxTables \in Nat
    /\ Queues \cap (1 .. MaxTables) = {}
    /\ Nobody \notin Queues \cup Tokens \cup (1 .. MaxTables) \cup (1 .. MaxProducers)

Producers == 1 .. MaxProducers
Allocated == 1 .. MaxTables         \* hash tables outside the queue objects
Tables == Queues \cup Allocated

VARIABLES
    constructed,        \* the queue objects that exist
    \* per queue
    producerList,       \* oldest first: walked from its end
    producerCount,
    initialBlockPool,   \* named after the queue that allocated it
    implicitProducerHash, implicitProducerHashCount,
    \* per table: prev, and the producer of each writer that has an entry
    prev, entries,
    \* per producer; pool is where its blocks are from
    isExplicit, inactive, parent, tokenOf, pool,
    \* per token: what it points to; its constructor: queue, position in the list
    tpc, producer, queue, position

lists == <<producerList, producerCount>>
hashes == <<implicitProducerHash, implicitProducerHashCount, prev, entries>>
producers == <<isExplicit, inactive, parent, tokenOf, pool>>
tokens == <<tpc, producer, queue, position>>
vars == <<constructed, lists, initialBlockPool, hashes, producers, tokens>>

NoEntries == [w \in Writers |-> Nobody]

Init ==
    /\ constructed = {}
    /\ producerList = [q \in Queues |-> <<>>]
    /\ producerCount = [q \in Queues |-> 0]
    /\ initialBlockPool = [q \in Queues |-> Nobody]
    /\ implicitProducerHash = [q \in Queues |-> Nobody]
    /\ implicitProducerHashCount = [q \in Queues |-> 0]
    /\ prev = [h \in Tables |-> Nobody]
    /\ entries = [h \in Tables |-> NoEntries]
    /\ isExplicit = [p \in Producers |-> FALSE]
    /\ inactive = [p \in Producers |-> FALSE]
    /\ parent = [p \in Producers |-> Nobody]
    /\ tokenOf = [p \in Producers |-> Nobody]
    /\ pool = [p \in Producers |-> Nobody]
    /\ tpc = [t \in Tokens |-> "invalid"]
    /\ producer = [t \in Tokens |-> Nobody]
    /\ queue = [t \in Tokens |-> Nobody]
    /\ position = [t \in Tokens |-> 0]

-----------------------------------------------------------------------------
(* Memory, and the tables of a queue *)

\* Producers and tables in use: memory that was freed may be allocated again.
Used == (UNION {ToSet(producerList[q]) : q \in Queues}) \cup {producer[t] : t \in Tokens}
Fresh(p) == p \notin Used /\ \A r \in Producers \ Used : p <= r
UsedTables == {prev[h] : h \in Tables} \cup {implicitProducerHash[q] : q \in Queues}
FreshTable(h) == h \notin UsedTables /\ \A g \in Allocated \ UsedTables : h <= g

\* The tables reached from h by prev, h included: those in every set that has h, and
\* with a table the one behind it.
Reached(up, h) ==
    {g \in Tables : \A S \in SUBSET Tables :
        h \in S \cup {Nobody} /\ (\A f \in S : up[f] \in S \cup {Nobody}) => g \in S}
ChainFrom(h) == Reached(prev, h)

-----------------------------------------------------------------------------
(* ProducerToken(queue): recycle_or_create_producer(true) *)

Goto(t, from, to) == tpc[t] = from /\ tpc' = [tpc EXCEPT ![t] = to]
At(t) == producerList[queue[t]][position[t]]

ConstructToken(t, q) ==
    /\ q \in constructed
    /\ Goto(t, "invalid", "find")
    /\ queue' = [queue EXCEPT ![t] = q]
    /\ position' = [position EXCEPT ![t] = Len(producerList[q])]
    /\ UNCHANGED <<constructed, lists, initialBlockPool, hashes, producers, producer>>

\* A producer that was given up, and of the right kind.
Recyclable(p) == inactive[p] /\ isExplicit[p]

\* One look at each producer from the list's tail; when none will do, a new one.
FindInactive(t) ==
    /\ tpc[t] = "find"
    /\ CASE position[t] = 0 -> Goto(t, "find", "create") /\ UNCHANGED position
         [] position[t] # 0 /\ Recyclable(At(t)) ->
              Goto(t, "find", "catch") /\ UNCHANGED position
         [] OTHER ->
              UNCHANGED tpc /\ position' = [position EXCEPT ![t] = @ - 1]
    /\ UNCHANGED <<constructed, lists, initialBlockPool, hashes, producers, producer,
                   queue>>

\* Faulty variant: taken without looking whether it is still inactive.
BugCatch(t) ==
    /\ tpc[t] = "catch" /\ Goto(t, "catch", "attach")
    /\ producer' = [producer EXCEPT ![t] = At(t)]
    /\ inactive' = [inactive EXCEPT ![At(t)] = FALSE]
    /\ UNCHANGED <<constructed, lists, initialBlockPool, hashes, isExplicit, parent,
                   tokenOf, pool, queue, position>>

\* compare_exchange of inactive: another thread may have caught it meanwhile.
Catch(t) ==
    /\ tpc[t] = "catch"
    /\ IF inactive[At(t)]
       THEN /\ Goto(t, "catch", "attach")
            /\ producer' = [producer EXCEPT ![t] = At(t)]
            /\ inactive' = [inactive EXCEPT ![At(t)] = FALSE]
            /\ UNCHANGED position
       ELSE /\ Goto(t, "catch", "find")
            /\ position' = [position EXCEPT ![t] = @ - 1]
            /\ UNCHANGED <<producer, inactive>>
    /\ UNCHANGED <<constructed, lists, initialBlockPool, hashes, isExplicit, parent,
                   tokenOf, pool, queue>>

\* What the constructor of a producer of queue q sets.
NewProducer(p, q, explicit) ==
    /\ isExplicit' = [isExplicit EXCEPT ![p] = explicit]
    /\ inactive' = [inactive EXCEPT ![p] = FALSE]
    /\ parent' = [parent EXCEPT ![p] = q]
    /\ tokenOf' = [tokenOf EXCEPT ![p] = Nobody]
    /\ pool' = [pool EXCEPT ![p] = initialBlockPool[q]]

\* add_producer: counted first, then linked.
CreateProducer(t) ==
    LET q == queue[t] IN
    /\ Goto(t, "create", "link")
    /\ \E p \in Producers :
          /\ Fresh(p)
          /\ producer' = [producer EXCEPT ![t] = p]
          /\ NewProducer(p, q, TRUE)
    /\ producerCount' = [producerCount EXCEPT ![q] = @ + 1]
    /\ UNCHANGED <<constructed, producerList, initialBlockPool, hashes, queue,
                   position>>

LinkProducer(t) ==
    /\ Goto(t, "link", "attach")
    /\ producerList' = [producerList EXCEPT ![queue[t]] = Append(@, producer[t])]
    /\ UNCHANGED <<constructed, producerCount, initialBlockPool, hashes, producers,
                   producer, queue, position>>

Forget(t) ==
    /\ queue' = [queue EXCEPT ![t] = Nobody]
    /\ position' = [position EXCEPT ![t] = 0]

\* No memory: the token has no producer.
CreationFails(t) ==
    /\ Goto(t, "create", "invalid")
    /\ Forget(t)
    /\ UNCHANGED <<constructed, lists, initialBlockPool, hashes, producers, producer>>

\* producer->token = this
Attach(t) ==
    /\ Goto(t, "attach", "valid")
    /\ tokenOf' = [tokenOf EXCEPT ![producer[t]] = t]
    /\ Forget(t)
    /\ UNCHANGED <<constructed, lists, initialBlockPool, hashes, isExplicit, inactive,
                   parent, pool, producer>>

\* ~ProducerToken: producer->token = nullptr ...
Detach(t) ==
    /\ Goto(t, "valid", "release")
    /\ tokenOf' = [tokenOf EXCEPT ![producer[t]] = Nobody]
    /\ UNCHANGED <<constructed, lists, initialBlockPool, hashes, isExplicit, inactive,
                   parent, pool, producer, queue, position>>

\* ... and, after that, producer->inactive = true.
Release(t) ==
    /\ Goto(t, "release", "invalid")
    /\ inactive' = [inactive EXCEPT ![producer[t]] = TRUE]
    /\ producer' = [producer EXCEPT ![t] = Nobody]
    /\ UNCHANGED <<constructed, lists, initialBlockPool, hashes, isExplicit, parent,
                   tokenOf, pool, queue, position>>

\* Moving a token into one without a producer, and swapping two: their threads have
\* agreed on it.
MoveToken(t, u) ==
    /\ tpc[t] = "valid" /\ tpc[u] \in {"valid", "invalid"}
    /\ producer' = [producer EXCEPT ![t] = producer[u], ![u] = producer[t]]
    /\ tpc' = [tpc EXCEPT ![t] = tpc[u], ![u] = tpc[t]]
    /\ tokenOf' = [p \in Producers |->
                      CASE p = producer[t] -> u [] p = producer[u] -> t
                        [] OTHER -> tokenOf[p]]
    /\ UNCHANGED <<constructed, lists, initialBlockPool, hashes, isExplicit, inactive,
                   parent, pool, queue, position>>

Token(t) ==
    \/ \E q \in Queues : ConstructToken(t, q)
    \/ FindInactive(t) \/ Catch(t) \/ CreateProducer(t) \/ LinkProducer(t)
    \/ CreationFails(t) \/ Attach(t) \/ Detach(t) \/ Release(t)
    \/ \E u \in Tokens \ {t} : MoveToken(t, u)

-----------------------------------------------------------------------------
(* get_or_add_implicit_producer, in one step: ImplicitHash has the others *)

\* A writer's first enqueue: an entry in the newest table, a producer in the list.
AddWriter(w, q) ==
    LET main == implicitProducerHash[q] IN
    /\ q \in constructed
    /\ \A h \in ChainFrom(main) : entries[h][w] = Nobody
    /\ \E p \in Producers :
          /\ Fresh(p)
          /\ NewProducer(p, q, FALSE)
          /\ producerList' = [producerList EXCEPT ![q] = Append(@, p)]
          /\ entries' = [entries EXCEPT ![main][w] = p]
    /\ producerCount' = [producerCount EXCEPT ![q] = @ + 1]
    /\ implicitProducerHashCount' = [implicitProducerHashCount EXCEPT ![q] = @ + 1]
    /\ UNCHANGED <<constructed, initialBlockPool, implicitProducerHash, prev, tokens>>

\* A larger table in front.
Enlarge(q) ==
    /\ q \in constructed
    /\ \E h \in Allocated :
          /\ FreshTable(h)
          /\ prev' = [prev EXCEPT ![h] = implicitProducerHash[q]]
          /\ entries' = [entries EXCEPT ![h] = NoEntries]
          /\ implicitProducerHash' = [implicitProducerHash EXCEPT ![q] = h]
    /\ UNCHANGED <<constructed, lists, initialBlockPool, implicitProducerHashCount,
                   producers, tokens>>

-----------------------------------------------------------------------------
(* The queue objects.  Nobody is inside. *)

Quiet == \A t \in Tokens : tpc[t] \in {"valid", "invalid"}

\* ConcurrentQueue(capacity)
Construct(q) ==
    /\ Quiet /\ q \notin constructed
    /\ constructed' = constructed \cup {q}
    /\ producerList' = [producerList EXCEPT ![q] = <<>>]
    /\ producerCount' = [producerCount EXCEPT ![q] = 0]
    /\ \E own \in Queues :
          /\ own \notin {initialBlockPool[r] : r \in constructed}
          /\ initialBlockPool' = [initialBlockPool EXCEPT ![q] = own]
    /\ implicitProducerHash' = [implicitProducerHash EXCEPT ![q] = q]
    /\ implicitProducerHashCount' = [implicitProducerHashCount EXCEPT ![q] = 0]
    /\ entries' = [entries EXCEPT ![q] = NoEntries]
    /\ prev' = [prev EXCEPT ![q] = Nobody]
    /\ UNCHANGED <<producers, tokens>>

Swapped(f, q, r) == [f EXCEPT ![q] = f[r], ![r] = f[q]]

\* A pointer to the initial table of one becomes a pointer to that of the other:
\* the tables themselves stay where they are, inside the queue objects.
Redirect(h, from, to) == IF h = from THEN to ELSE h

\* Faulty variant: only one side is redirected.
BugSwapHashes(q, r, hash, ent) ==
    /\ entries' = Swapped(ent, q, r)
    /\ implicitProducerHash' =
          [hash EXCEPT ![q] = Redirect(hash[r], r, q), ![r] = Redirect(hash[q], q, r)]
    /\ prev' = [h \in Tables |->
                   IF h \in ChainFrom(hash[r]) THEN Redirect(prev[h], r, q) ELSE prev[h]]

\* swap_implicit_producer_hashes, of hash pointers and entries as they are by then:
\* the entries of the initial tables change places, and so do the tables in front.
SwapHashes(q, r, hash, ent) ==
    /\ entries' = Swapped(ent, q, r)
    /\ implicitProducerHash' =
          [hash EXCEPT ![q] = Redirect(hash[r], r, q), ![r] = Redirect(hash[q], q, r)]
    /\ prev' = [h \in Tables |->
                   CASE h \in ChainFrom(hash[r]) -> Redirect(prev[h], r, q)
                     [] h \in ChainFrom(hash[q]) -> Redirect(prev[h], q, r)
                     [] OTHER -> prev[h]]

\* reown_producers, of both.
Reown(list, q, r) ==
    parent' = [p \in Producers |->
                  CASE Contains(list[q], p) -> q [] Contains(list[r], p) -> r
                    [] OTHER -> parent[p]]

\* swap_internal, for swap and move assignment.
Swap(q, r) ==
    /\ Quiet /\ {q, r} \subseteq constructed /\ q # r
    /\ producerList' = Swapped(producerList, q, r)
    /\ producerCount' = Swapped(producerCount, q, r)
    /\ initialBlockPool' = Swapped(initialBlockPool, q, r)
    /\ implicitProducerHashCount' = Swapped(implicitProducerHashCount, q, r)
    /\ SwapHashes(q, r, implicitProducerHash, entries)
    /\ Reown(Swapped(producerList, q, r), q, r)
    /\ UNCHANGED <<constructed, isExplicit, inactive, tokenOf, pool, tokens>>

\* ConcurrentQueue(ConcurrentQueue&& other): other is left as an empty queue, without
\* a pool.  The new one's hash is initialised before the two are swapped.
MoveConstruct(q, other) ==
    /\ Quiet /\ q \notin constructed /\ other \in constructed
    /\ constructed' = constructed \cup {q}
    /\ producerList' = [producerList EXCEPT ![q] = producerList[other], ![other] = <<>>]
    /\ producerCount' = [producerCount EXCEPT ![q] = producerCount[other], ![other] = 0]
    /\ initialBlockPool' = [initialBlockPool EXCEPT
                               ![q] = initialBlockPool[other], ![other] = Nobody]
    /\ implicitProducerHashCount' = [implicitProducerHashCount EXCEPT
                               ![q] = implicitProducerHashCount[other], ![other] = 0]
    /\ SwapHashes(q, other, [implicitProducerHash EXCEPT ![q] = q],
                  [entries EXCEPT ![q] = NoEntries])
    /\ Reown([producerList EXCEPT ![q] = producerList[other], ![other] = <<>>], q, other)
    /\ UNCHANGED <<isExplicit, inactive, tokenOf, pool, tokens>>

\* Faulty variant: tokens are left with the producers that are destroyed.
BugDestroyed(q) == {}

\* Tokens of the producers that are destroyed with q.
Destroyed(q) == {tokenOf[p] : p \in ToSet(producerList[q])} \ {Nobody}

\* Freed memory: what was in it no longer matters.
ForgetProducers(dead) ==
    /\ isExplicit' = [p \in Producers |-> p \notin dead /\ isExplicit[p]]
    /\ inactive' = [p \in Producers |-> p \notin dead /\ inactive[p]]
    /\ parent' = [p \in Producers |-> IF p \in dead THEN Nobody ELSE parent[p]]
    /\ tokenOf' = [p \in Producers |-> IF p \in dead THEN Nobody ELSE tokenOf[p]]
    /\ pool' = [p \in Producers |-> IF p \in dead THEN Nobody ELSE pool[p]]

\* ~ConcurrentQueue: the producers, of whom the tokens lose hold, and the tables.
Destroy(q) ==
    LET gone == ChainFrom(implicitProducerHash[q]) IN
    /\ Quiet /\ q \in constructed
    /\ constructed' = constructed \ {q}
    /\ producer' = [t \in Tokens |-> IF t \in Destroyed(q) THEN Nobody ELSE producer[t]]
    /\ tpc' = [t \in Tokens |-> IF t \in Destroyed(q) THEN "invalid" ELSE tpc[t]]
    /\ producerList' = [producerList EXCEPT ![q] = <<>>]
    /\ producerCount' = [producerCount EXCEPT ![q] = 0]
    /\ initialBlockPool' = [initialBlockPool EXCEPT ![q] = Nobody]
    /\ implicitProducerHash' = [implicitProducerHash EXCEPT ![q] = Nobody]
    /\ implicitProducerHashCount' = [implicitProducerHashCount EXCEPT ![q] = 0]
    /\ prev' = [h \in Tables |-> IF h \in gone THEN Nobody ELSE prev[h]]
    /\ entries' = [h \in Tables |-> IF h \in gone THEN NoEntries ELSE entries[h]]
    /\ ForgetProducers(ToSet(producerList[q]))
    /\ UNCHANGED <<queue, position>>

Queue(q) ==
    \/ Construct(q) \/ Destroy(q) \/ Enlarge(q)
    \/ \E r \in Queues \ {q} : Swap(q, r) \/ MoveConstruct(q, r)
    \/ \E w \in Writers : AddWriter(w, q)

-----------------------------------------------------------------------------
Next == (\E t \in Tokens : Token(t)) \/ (\E q \in Queues : Queue(q))

Spec == Init /\ [][Next]_vars

-----------------------------------------------------------------------------
(* Properties *)

\* Type invariant of the queue objects, tables, producers and tokens.
TypeOK ==
    /\ constructed \subseteq Queues
    /\ producerList \in [Queues -> Seq(Producers)]
    /\ producerCount \in [Queues -> Nat]
    /\ initialBlockPool \in [Queues -> Queues \cup {Nobody}]
    /\ implicitProducerHash \in [Queues -> Tables \cup {Nobody}]
    /\ implicitProducerHashCount \in [Queues -> Nat]
    /\ prev \in [Tables -> Tables \cup {Nobody}]
    /\ entries \in [Tables -> [Writers -> Producers \cup {Nobody}]]
    /\ isExplicit \in [Producers -> BOOLEAN] /\ inactive \in [Producers -> BOOLEAN]
    /\ parent \in [Producers -> Queues \cup {Nobody}]
    /\ pool \in [Producers -> Queues \cup {Nobody}]
    /\ tokenOf \in [Producers -> Tokens \cup {Nobody}]
    /\ tpc \in [Tokens -> {"invalid", "find", "catch", "create", "link", "attach",
                           "valid", "release"}]
    /\ producer \in [Tokens -> Producers \cup {Nobody}]
    /\ queue \in [Tokens -> Queues \cup {Nobody}]
    /\ position \in [Tokens -> Nat]
    /\ \A t \in Tokens :
          position[t] \in 0 .. IF queue[t] = Nobody THEN 0 ELSE Len(producerList[queue[t]])

\* A producer has one user at most: never two tokens, whoever recycled it while it was
\* given up, and never a token and a thread that enqueues without one (only one thread
\* may enqueue to a sub-queue at a time).
OneUserPerProducer ==
    /\ \A t, u \in Tokens : t # u /\ producer[t] # Nobody => producer[t] # producer[u]
    /\ \A t \in Tokens : \A h \in Tables : \A w \in Writers :
          producer[t] # Nobody => entries[h][w] # producer[t]

\* A producer and its token know each other, however tokens were moved and producers
\* recycled, and no token keeps a producer that was destroyed with its queue ("A token
\* is always valid unless ... The associated queue was destroyed").
TokensAgree ==
    /\ \A t \in Tokens : tpc[t] = "valid" =>
          /\ \E q \in constructed : Contains(producerList[q], producer[t])
          /\ tokenOf[producer[t]] = t /\ ~inactive[producer[t]]
    /\ \A q \in constructed : \A p \in ToSet(producerList[q]) :
          tokenOf[p] # Nobody => producer[tokenOf[p]] = p

\* What belongs to a queue follows it through every move and swap: its producers give
\* their blocks back to it, those blocks come from the pool it will destroy, and its
\* tables, which end in the one inside the object, know just the producers of its own
\* threads.
QueueKeepsItsOwn ==
    \A q \in constructed :
        LET chain == ChainFrom(implicitProducerHash[q])
            mine == ToSet(producerList[q])
        IN  /\ \A p \in mine : parent[p] = q /\ pool[p] \in {initialBlockPool[q], Nobody}
            /\ chain \cap Queues = {q}
            /\ (UNION {{entries[h][w] : w \in Writers} : h \in chain}) \ {Nobody}
                  = {p \in mine : ~isExplicit[p]}
            /\ implicitProducerHashCount[q] = Cardinality({p \in mine : ~isExplicit[p]})
            /\ Quiet => producerCount[q] = Cardinality(mine)

-----------------------------------------------------------------------------
(* Why producers and tables are never shared *)

Listed(q) == ToSet(producerList[q])
BeingLinked(q) == {producer[t] : t \in {u \in Tokens : tpc[u] = "link" /\ queue[u] = q}}
Implicit(q) == {p \in Listed(q) : ~isExplicit[p]}
Tokenless(q) == {p \in Producers : \E h \in ChainFrom(implicitProducerHash[q]) :
                                      \E w \in Writers : entries[h][w] = p}

\* What a token has at each step of its construction and destruction.
TokenRight(t) ==
    LET p == producer[t] IN
    /\ queue[t] \in constructed \cup {Nobody}
    /\ queue[t] # Nobody <=> tpc[t] \in {"find", "catch", "create", "link", "attach"}
    /\ p # Nobody <=> tpc[t] \in {"link", "attach", "valid", "release"}
    /\ tpc[t] = "catch" => position[t] # 0 /\ isExplicit[At(t)]
    /\ tpc[t] = "link" =>
          /\ \A q \in Queues : p \notin Listed(q)
          /\ parent[p] = queue[t] /\ pool[p] = initialBlockPool[queue[t]]
    /\ tpc[t] \in {"attach", "valid", "release"} =>
          \E q \in constructed : p \in Listed(q)
    /\ p # Nobody => isExplicit[p] /\ ~inactive[p] /\ \A u \in Tokens \ {t} : producer[u] # p
    /\ tpc[t] = "valid" => tokenOf[p] = t

\* A producer that knows a token is known by it.
ProducersRight ==
    \A p \in Producers : tokenOf[p] # Nobody =>
        tpc[tokenOf[p]] = "valid" /\ producer[tokenOf[p]] = p

\* A producer is in one list, once; its queue and pool are those of the list.  Counts are
\* ahead of the lists by the producers about to be linked.
ListRight(q) ==
    /\ q \notin constructed => producerList[q] = <<>> /\ initialBlockPool[q] = Nobody
    /\ IsInjective(producerList[q])
    /\ \A r \in Queues \ {q} : Listed(q) \cap Listed(r) = {}
    /\ \A p \in Listed(q) : parent[p] = q /\ pool[p] \in {initialBlockPool[q], Nobody}
    /\ implicitProducerHashCount[q] = Cardinality(Implicit(q))
    /\ producerCount[q] = Cardinality(Listed(q) \cup BeingLinked(q))

\* Chains of tables are apart, end inside their queue objects, and together have every
\* entry there is: of a queue's own producers without a token, and of all of them.
TablesRight ==
    /\ \A q \in Queues : prev[q] = Nobody
    /\ \A q \in Queues : implicitProducerHash[q] # Nobody <=> q \in constructed
    /\ \A q \in constructed : ChainFrom(implicitProducerHash[q]) \cap Queues = {q}
    /\ \A q, r \in constructed : q # r =>
          ChainFrom(implicitProducerHash[q]) \cap ChainFrom(implicitProducerHash[r]) = {}
    /\ \A h \in Tables : entries[h] # NoEntries =>
          \E q \in constructed : h \in ChainFrom(implicitProducerHash[q])
    /\ \A q \in constructed : Tokenless(q) = Implicit(q)

\* The inductive invariant behind the three.
OwnershipInv ==
    /\ \A t \in Tokens : TokenRight(t)
    /\ ProducersRight
    /\ \A q \in Queues : ListRight(q)
    /\ TablesRight

=============================================================================
