--------------------------- MODULE OwnershipProofs ---------------------------
(***************************************************************************)
(* Theorems about Ownership, for any number of queues, tokens, threads,    *)
(* producers and tables: a producer has one user, tokens and producers     *)
(* know each other, and what belongs to a queue follows it.                *)
(***************************************************************************)
EXTENDS Ownership, FiniteSetTheorems, TLAPS

-----------------------------------------------------------------------------
(* Chains of tables *)

ClosedIn(S, up) == \A f \in S : up[f] \in S \cup {Nobody}

LEMMA NobodyApart ==
    /\ Nobody \notin Tables /\ Nobody \notin Queues /\ Nobody \notin Tokens
    /\ Nobody \notin Producers /\ Queues \subseteq Tables /\ Allocated \subseteq Tables
    /\ \A h \in Allocated : h \notin Queues
  BY OwnershipAssumption DEF Tables, Allocated, Producers

LEMMA ReachedLeast ==
    ASSUME NEW up, NEW h, NEW S \in SUBSET Tables, h \in S \cup {Nobody}, ClosedIn(S, up)
    PROVE  Reached(up, h) \subseteq S
  BY DEF Reached, ClosedIn

LEMMA ReachedClosed ==
    ASSUME NEW up \in [Tables -> Tables \cup {Nobody}], NEW h \in Tables
    PROVE  /\ Reached(up, h) \in SUBSET Tables
           /\ h \in Reached(up, h)
           /\ ClosedIn(Reached(up, h), up)
  <1>1. Reached(up, h) \in SUBSET Tables
    BY DEF Reached
  <1>2. h \in Reached(up, h)
    BY NobodyApart DEF Reached
  <1>3. ASSUME NEW f \in Reached(up, h), up[f] # Nobody PROVE up[f] \in Reached(up, h)
    <2>1. up[f] \in Tables
      BY <1>1, <1>3
    <2>2. ASSUME NEW S \in SUBSET Tables, h \in S \cup {Nobody}, ClosedIn(S, up)
          PROVE  up[f] \in S
      <3>1. f \in S
        BY <2>2, ReachedLeast
      <3> QED
        BY <2>2, <3>1, <1>3 DEF ClosedIn
    <2> QED
      BY <2>1, <2>2 DEF Reached, ClosedIn
  <1> QED
    BY <1>1, <1>2, <1>3 DEF ClosedIn

\* A table in a chain is its first or behind another.
LEMMA ReachedBehind ==
    ASSUME NEW up \in [Tables -> Tables \cup {Nobody}], NEW h \in Tables,
           NEW g \in Reached(up, h), g # h
    PROVE  \E f \in Reached(up, h) : up[f] = g
  <1> DEFINE S == Reached(up, h) \ {g}
  <1>1. SUFFICES ASSUME \A f \in Reached(up, h) : up[f] # g PROVE FALSE
    OBVIOUS
  <1>2. h \in S /\ S \in SUBSET Tables /\ ClosedIn(S, up)
    BY <1>1, ReachedClosed DEF ClosedIn
  <1>3. Reached(up, h) \subseteq S
    BY <1>2, ReachedLeast
  <1> QED
    BY <1>3

\* A chain depends only on the pointers of its own tables.
LEMMA ReachedSame ==
    ASSUME NEW up \in [Tables -> Tables \cup {Nobody}],
           NEW to \in [Tables -> Tables \cup {Nobody}], NEW h \in Tables,
           \A f \in Reached(up, h) : to[f] = up[f]
    PROVE  Reached(to, h) = Reached(up, h)
  <1>1. ClosedIn(Reached(up, h), to)
    BY ReachedClosed DEF ClosedIn
  <1>2. Reached(to, h) \subseteq Reached(up, h)
    BY <1>1, ReachedClosed, ReachedLeast
  <1>3. ClosedIn(Reached(to, h), up)
    BY <1>2, ReachedClosed DEF ClosedIn
  <1>4. Reached(up, h) \subseteq Reached(to, h)
    BY <1>3, ReachedClosed, ReachedLeast
  <1> QED
    BY <1>2, <1>4

LEMMA ReachedAlone ==
    ASSUME NEW up \in [Tables -> Tables \cup {Nobody}], NEW h \in Tables, up[h] = Nobody
    PROVE  Reached(up, h) = {h}
  <1>1. ClosedIn({h}, up)
    BY DEF ClosedIn
  <1> QED
    BY <1>1, ReachedLeast, ReachedClosed

\* A table put in front of a chain that does not have it.
LEMMA ReachedInFront ==
    ASSUME NEW up \in [Tables -> Tables \cup {Nobody}], NEW h \in Tables,
           NEW f \in Tables, f \notin Reached(up, h),
           NEW to \in [Tables -> Tables \cup {Nobody}],
           to[f] = h, \A g \in Tables : g # f => to[g] = up[g]
    PROVE  \A g : g \in Reached(to, f) <=> g \in Reached(up, h) \/ g = f
  <1> DEFINE C == Reached(up, h)
  <1>1. to \in [Tables -> Tables \cup {Nobody}] /\ to[f] = h
    OBVIOUS
  <1>2. \A g \in C : to[g] = up[g]
    BY ReachedClosed
  <1>3. Reached(to, h) = C
    BY <1>1, <1>2, ReachedSame
  <1>4. C \in SUBSET Tables /\ ClosedIn(C, up) /\ h \in C
    BY ReachedClosed
  <1>5. ClosedIn(C \cup {f}, to)
    BY <1>1, <1>2, <1>4 DEF ClosedIn
  <1>6. Reached(to, f) \subseteq C \cup {f}
    BY <1>4, <1>5, ReachedLeast
  <1>7. /\ f \in Reached(to, f) /\ ClosedIn(Reached(to, f), to)
        /\ Reached(to, f) \in SUBSET Tables
    BY <1>1, ReachedClosed
  <1>8. h \in Reached(to, f)
    BY <1>1, <1>7, NobodyApart DEF ClosedIn
  <1>9. C \subseteq Reached(to, f)
    <2>1. Reached(to, h) \subseteq Reached(to, f)
      BY <1>7, <1>8, ReachedLeast
    <2> QED
      BY <1>3, <2>1
  <1> QED
    BY <1>6, <1>7, <1>9

\* The chain from h ends in r, q is not in it, and its pointers to r are now to q.
EndReplaced(up, to, h, q, r) ==
    /\ up \in [Tables -> Tables \cup {Nobody}] /\ to \in [Tables -> Tables \cup {Nobody}]
    /\ h \in Tables /\ q \in Tables /\ r \in Reached(up, h) /\ q \notin Reached(up, h)
    /\ up[r] = Nobody /\ to[q] = Nobody
    /\ \A f \in Reached(up, h) \ {r} : to[f] = Redirect(up[f], r, q)

\* The last table r of a chain replaced by q, and pointers to r redirected to q.
LEMMA ReachedRedirected ==
    ASSUME NEW up, NEW to, NEW h, NEW q, NEW r, EndReplaced(up, to, h, q, r)
    PROVE  /\ Redirect(h, r, q) \in Tables
           /\ \A g : g \in Reached(to, Redirect(h, r, q))
                      <=> (g \in Reached(up, h) /\ g # r) \/ g = q
  <1>0. /\ up \in [Tables -> Tables \cup {Nobody}] /\ to \in [Tables -> Tables \cup {Nobody}]
        /\ h \in Tables /\ q \in Tables /\ r \in Reached(up, h) /\ q \notin Reached(up, h)
        /\ up[r] = Nobody /\ to[q] = Nobody
        /\ \A f \in Reached(up, h) \ {r} : to[f] = Redirect(up[f], r, q)
    BY DEF EndReplaced
  <1> USE <1>0
  <1> DEFINE C == Reached(up, h)
             D == (C \ {r}) \cup {q}
             k == Redirect(h, r, q)
  <1>1. C \in SUBSET Tables /\ ClosedIn(C, up) /\ h \in C
    BY ReachedClosed
  <1>2. k \in D /\ D \in SUBSET Tables /\ k \in Tables
    BY <1>1 DEF Redirect
  <1>3. ClosedIn(D, to)
    <2>1. ASSUME NEW f \in C \ {r} PROVE to[f] \in D \cup {Nobody}
      BY <1>1, <2>1 DEF Redirect, ClosedIn
    <2> QED
      BY <2>1 DEF ClosedIn
  <1>4. Reached(to, k) \subseteq D
    BY <1>2, <1>3, ReachedLeast
  <1>5. D \subseteq Reached(to, k)
    <2> DEFINE R == Reached(to, k)
               S == {g \in C : Redirect(g, r, q) \in R}
    <2>1. R \in SUBSET Tables /\ k \in R /\ ClosedIn(R, to)
      BY <1>2, ReachedClosed
    <2>2. h \in S
      BY <1>1, <2>1
    <2>3. ASSUME NEW g \in S PROVE up[g] \in S \cup {Nobody}
      <3>1. CASE g = r
        BY <3>1
      <3>2. CASE g # r /\ up[g] # Nobody
        <4>1. g \in R /\ to[g] = Redirect(up[g], r, q) /\ up[g] \in C
          BY <3>2, <1>1 DEF Redirect, ClosedIn
        <4>2. to[g] # Nobody
          BY <4>1, <1>1, NobodyApart, <3>2 DEF Redirect
        <4>3. to[g] \in R
          BY <4>1, <4>2, <2>1 DEF ClosedIn
        <4> QED
          BY <4>1, <4>3
      <3> QED
        BY <3>1, <3>2
    <2>4. C \subseteq S
      <3>1. S \in SUBSET Tables /\ ClosedIn(S, up)
        BY <1>1, <2>3 DEF ClosedIn
      <3> HIDE DEF S
      <3> QED
        BY <2>2, <3>1, ReachedLeast
    <2> QED
      BY <2>4 DEF Redirect
  <1> QED
    BY <1>2, <1>4, <1>5

-----------------------------------------------------------------------------
(* Lists of producers *)

Good == TypeOK /\ OwnershipInv

LEMMA ListsTyped ==
    ASSUME TypeOK
    PROVE  \A q \in Queues :
              /\ producerList[q] \in Seq(Producers)
              /\ DOMAIN producerList[q] = 1 .. Len(producerList[q])
              /\ Len(producerList[q]) \in Nat
              /\ Listed(q) \subseteq Producers
              /\ \A i \in DOMAIN producerList[q] :
                    producerList[q][i] \in Producers /\ producerList[q][i] \in Listed(q)
              /\ \A p : Contains(producerList[q], p) <=> p \in Listed(q)
  <1>1. ASSUME NEW q \in Queues, NEW s, s = producerList[q]
        PROVE  /\ s \in Seq(Producers) /\ DOMAIN s = 1 .. Len(s) /\ Len(s) \in Nat
               /\ \A i \in DOMAIN s : s[i] \in Producers
    <2>1. s \in Seq(Producers)
      BY <1>1 DEF TypeOK
    <2> QED
      BY ONLY <2>1
  <1>2. \A q \in Queues : /\ Listed(q) \subseteq Producers
                          /\ \A p : Contains(producerList[q], p) <=> p \in Listed(q)
    BY <1>1 DEF Listed, ToSet, Contains
  <1>3. \A q \in Queues : \A i \in DOMAIN producerList[q] : producerList[q][i] \in Listed(q)
    BY <1>1 DEF Listed, ToSet
  <1> QED
    BY <1>1, <1>2, <1>3

LEMMA Appended ==
    ASSUME NEW S, NEW s \in Seq(S), NEW e \in S, e \notin ToSet(s), IsInjective(s),
           NEW t, t = Append(s, e)
    PROVE  /\ t \in Seq(S) /\ Len(t) = Len(s) + 1
           /\ \A x : x \in ToSet(t) <=> x \in ToSet(s) \/ x = e
           /\ \A i \in DOMAIN s : t[i] = s[i]
           /\ IsInjective(t)
  BY DEF ToSet, IsInjective

\* Where a token's search is, there is a producer of its queue.
LEMMA AtListed ==
    ASSUME Good, NEW t \in Tokens, queue[t] # Nobody, position[t] # 0
    PROVE  /\ queue[t] \in Queues /\ queue[t] \in constructed
           /\ At(t) \in Producers /\ At(t) \in Listed(queue[t])
           /\ position[t] \in 1 .. Len(producerList[queue[t]])
  <1>1. queue[t] \in Queues /\ queue[t] \in constructed
    BY DEF Good, TypeOK, OwnershipInv, TokenRight
  <1>2. position[t] \in 1 .. Len(producerList[queue[t]])
    BY <1>1 DEF Good, TypeOK
  <1> QED
    BY <1>1, <1>2, ListsTyped DEF Good, At

LEMMA FreshApart ==
    ASSUME Good, NEW p \in Producers, Fresh(p)
    PROVE  /\ \A q \in Queues : p \notin Listed(q)
           /\ \A t \in Tokens : producer[t] # p
  <1>1. p \notin Used
    BY DEF Fresh
  <1>2. ASSUME NEW q \in Queues PROVE Listed(q) \subseteq Used
    BY DEF Used, Listed
  <1>3. ASSUME NEW t \in Tokens PROVE producer[t] \in Used
    <2>1. producer[t] \in {producer[u] : u \in Tokens}
      OBVIOUS
    <2> QED
      BY <2>1 DEF Used
  <1> QED
    BY <1>1, <1>2, <1>3

LEMMA SetsFinite ==
    ASSUME Good, NEW q \in Queues
    PROVE  /\ IsFiniteSet(Producers)
           /\ BeingLinked(q) \subseteq Producers
           /\ IsFiniteSet(Listed(q)) /\ IsFiniteSet(Implicit(q))
           /\ IsFiniteSet(Listed(q) \cup BeingLinked(q))
  <1>1. IsFiniteSet(Producers)
    BY OwnershipAssumption, FS_Interval DEF Producers
  <1>2. BeingLinked(q) \subseteq Producers
    BY NobodyApart DEF Good, TypeOK, OwnershipInv, TokenRight, BeingLinked
  <1>3. Listed(q) \subseteq Producers /\ Implicit(q) \subseteq Producers
    BY ListsTyped DEF Good, Implicit
  <1> QED
    BY <1>1, <1>2, <1>3, FS_Subset

-----------------------------------------------------------------------------
(* What a step leaves alone *)

LEMMA TablesStay ==
    ASSUME TablesRight, UNCHANGED <<implicitProducerHash, prev, entries, constructed>>,
           constructed \subseteq Queues,
           \A q \in Queues : Implicit(q)' = Implicit(q)
    PROVE  TablesRight'
  <1>1. \A q \in Queues : ChainFrom(implicitProducerHash[q])' = ChainFrom(implicitProducerHash[q])
    BY DEF ChainFrom
  <1>2. \A q \in Queues : Tokenless(q)' = Tokenless(q)
    BY <1>1 DEF Tokenless
  <1> QED
    BY <1>1, <1>2 DEF TablesRight

LEMMA ListsStay ==
    ASSUME NEW q \in Queues, ListRight(q),
           UNCHANGED <<constructed, producerList, producerCount, initialBlockPool,
                       implicitProducerHashCount>>,
           \A p \in Listed(q) : isExplicit'[p] = isExplicit[p] /\ parent'[p] = parent[p]
                                /\ pool'[p] = pool[p],
           BeingLinked(q)' = BeingLinked(q)
    PROVE  ListRight(q)' /\ Implicit(q)' = Implicit(q) /\ Listed(q)' = Listed(q)
  <1>1. \A r : Listed(r)' = Listed(r)
    BY DEF Listed
  <1>2. Implicit(q)' = Implicit(q)
    BY <1>1 DEF Implicit
  <1> QED
    BY <1>1, <1>2 DEF ListRight

\* A token that no step of its own concerns.
LEMMA TokenStays ==
    ASSUME Good, NEW u \in Tokens, TokenRight(u),
           UNCHANGED <<constructed, initialBlockPool>>,
           tpc'[u] = tpc[u], producer'[u] = producer[u], queue'[u] = queue[u],
           position'[u] = position[u],
           \A q \in Queues : Listed(q) \subseteq Listed(q)',
           \A q \in Queues : producer[u] \in Listed(q)' => producer[u] \in Listed(q),
           \A q \in Queues : \A i \in DOMAIN producerList[q] :
              producerList'[q][i] = producerList[q][i]
              /\ isExplicit'[producerList[q][i]] = isExplicit[producerList[q][i]],
           producer[u] # Nobody =>
              /\ isExplicit'[producer[u]] = isExplicit[producer[u]]
              /\ inactive'[producer[u]] = inactive[producer[u]]
              /\ parent'[producer[u]] = parent[producer[u]]
              /\ pool'[producer[u]] = pool[producer[u]]
              /\ tokenOf'[producer[u]] = tokenOf[producer[u]]
              /\ \A t \in Tokens \ {u} : producer'[t] # producer[u]
    PROVE  TokenRight(u)'
  <1>1. tpc[u] = "catch" => At(u)' = At(u) /\ isExplicit'[At(u)] = isExplicit[At(u)]
    <2>1. SUFFICES ASSUME tpc[u] = "catch"
                   PROVE  At(u)' = At(u) /\ isExplicit'[At(u)] = isExplicit[At(u)]
      OBVIOUS
    <2>2. queue[u] # Nobody /\ position[u] # 0
      BY <2>1 DEF TokenRight
    <2>3. queue[u] \in Queues /\ position[u] \in DOMAIN producerList[queue[u]]
      BY <2>2, AtListed, ListsTyped DEF Good
    <2> QED
      BY <2>3 DEF At
  <1>2. constructed \subseteq Queues
    BY DEF Good, TypeOK
  <1> QED
    BY <1>1, <1>2 DEF TokenRight

-----------------------------------------------------------------------------
(* Tokens: the search *)

LEMMA ConstructTokenKeeps ==
    ASSUME Good, NEW t \in Tokens, NEW q \in Queues, ConstructToken(t, q)
    PROVE  Good'
  <1>0. /\ tpc[t] = "invalid" /\ q \in constructed /\ constructed \subseteq Queues
        /\ tpc' = [tpc EXCEPT ![t] = "find"] /\ queue' = [queue EXCEPT ![t] = q]
        /\ position' = [position EXCEPT ![t] = Len(producerList[q])]
        /\ UNCHANGED <<constructed, producerList, producerCount, initialBlockPool,
                       implicitProducerHash, implicitProducerHashCount, prev, entries,
                       isExplicit, inactive, parent, tokenOf, pool, producer>>
    BY DEF ConstructToken, Goto, lists, hashes, producers, Good, TypeOK
  <1>1. TypeOK'
    BY <1>0, ListsTyped, NobodyApart DEF Good, TypeOK
  <1>2. ASSUME NEW u \in Tokens PROVE TokenRight(u)'
    <2>1. CASE u = t
      BY <1>0, <2>1, NobodyApart DEF Good, TypeOK, OwnershipInv, TokenRight
    <2>2. CASE u # t
      <3>1. TokenRight(u) /\ UNCHANGED <<tpc[u], queue[u], position[u], producer[u]>>
        BY <1>0, <2>2 DEF Good, OwnershipInv, TypeOK
      <3> QED
        BY <1>0, <3>1, TokenStays DEF Listed, TokenRight
    <2> QED
      BY <2>1, <2>2
  <1>3. ProducersRight'
    BY <1>0 DEF Good, OwnershipInv, TypeOK, ProducersRight
  <1>4. \A r \in Queues : BeingLinked(r)' = BeingLinked(r)
    BY <1>0, NobodyApart DEF Good, TypeOK, OwnershipInv, BeingLinked
  <1>5. \A r \in Queues : ListRight(r)' /\ Implicit(r)' = Implicit(r)
    BY <1>0, <1>4, ListsStay DEF Good, OwnershipInv
  <1>6. TablesRight'
    BY <1>0, <1>5, TablesStay DEF Good, OwnershipInv
  <1> QED
    BY <1>1, <1>2, <1>3, <1>5, <1>6 DEF Good, OwnershipInv

LEMMA FindInactiveKeeps ==
    ASSUME Good, NEW t \in Tokens, FindInactive(t)
    PROVE  Good'
  <1>0. /\ tpc[t] = "find" /\ queue[t] \in constructed /\ constructed \subseteq Queues
        /\ \/ tpc' = [tpc EXCEPT ![t] = "create"] /\ position' = position
           \/ /\ position[t] # 0 /\ isExplicit[At(t)]
              /\ tpc' = [tpc EXCEPT ![t] = "catch"] /\ position' = position
           \/ /\ position[t] # 0
              /\ tpc' = tpc /\ position' = [position EXCEPT ![t] = @ - 1]
        /\ UNCHANGED <<constructed, producerList, producerCount, initialBlockPool,
                       implicitProducerHash, implicitProducerHashCount, prev, entries,
                       isExplicit, inactive, parent, tokenOf, pool, producer, queue>>
    BY DEF FindInactive, Goto, Recyclable, lists, hashes, producers, Good, TypeOK,
           OwnershipInv, TokenRight
  <1>a. /\ tpc'[t] \in {"find", "create", "catch"}
        /\ \A u \in Tokens : u # t => tpc'[u] = tpc[u] /\ position'[u] = position[u]
    BY <1>0 DEF Good, TypeOK
  <1>1. TypeOK'
    <2>1. tpc' \in [Tokens -> {"invalid", "find", "catch", "create", "link", "attach",
                               "valid", "release"}]
      BY <1>0 DEF Good, TypeOK
    <2>2. position' \in [Tokens -> Nat]
      <3>1. position \in [Tokens -> Nat] /\ (position[t] # 0 => position[t] - 1 \in Nat)
        BY DEF Good, TypeOK
      <3> QED
        BY <1>0, <3>1
    <2>3. \A u \in Tokens : position'[u] \in
             0 .. IF queue[u] = Nobody THEN 0 ELSE Len(producerList[queue[u]])
      BY <1>0, <1>a, ListsTyped, NobodyApart DEF Good, TypeOK
    <2> QED
      BY <1>0, <2>1, <2>2, <2>3 DEF Good, TypeOK
  <1>2. ASSUME NEW u \in Tokens PROVE TokenRight(u)'
    <2>1. CASE u = t
      <3>1. TokenRight(t) /\ At(t) = producerList[queue[t]][position[t]]
        BY DEF Good, OwnershipInv, At
      <3>2. At(t)' = producerList[queue[t]][position'[t]]
        BY <1>0 DEF At
      <3>3. tpc'[t] = "catch" => position'[t] # 0 /\ isExplicit'[At(t)']
        BY <1>0, <3>1, <3>2 DEF Good, TypeOK
      <3> QED
        BY <1>0, <1>a, <2>1, <3>1, <3>3 DEF TokenRight
    <2>2. CASE u # t
      <3>1. TokenRight(u) /\ UNCHANGED <<tpc[u], queue[u], position[u], producer[u]>>
        BY <1>0, <1>a, <2>2 DEF Good, OwnershipInv, TypeOK
      <3> QED
        BY <1>0, <3>1, TokenStays DEF Listed, TokenRight
    <2> QED
      BY <2>1, <2>2
  <1>3. ProducersRight'
    BY <1>0, <1>a DEF Good, OwnershipInv, TypeOK, ProducersRight
  <1>4. \A r \in Queues : BeingLinked(r)' = BeingLinked(r)
    BY <1>0, <1>a DEF BeingLinked
  <1>5. \A r \in Queues : ListRight(r)' /\ Implicit(r)' = Implicit(r)
    BY <1>0, <1>4, ListsStay DEF Good, OwnershipInv
  <1>6. TablesRight'
    BY <1>0, <1>5, TablesStay DEF Good, OwnershipInv
  <1> QED
    BY <1>1, <1>2, <1>3, <1>5, <1>6 DEF Good, OwnershipInv

\* Beaten by another, a token looks further.
LEMMA CatchKeeps ==
    ASSUME Good, NEW t \in Tokens, Catch(t)
    PROVE  Good'
  <1> DEFINE p == At(t)
  <1>0. /\ tpc[t] = "catch" /\ queue[t] \in constructed /\ constructed \subseteq Queues
        /\ queue[t] \in Queues /\ producer[t] = Nobody
        /\ position[t] # 0 /\ isExplicit[p] /\ p \in Producers /\ p \in Listed(queue[t])
    BY AtListed, NobodyApart DEF Catch, Good, TypeOK, OwnershipInv, TokenRight
  <1>b. /\ \/ /\ inactive[p]
              /\ tpc' = [tpc EXCEPT ![t] = "attach"] /\ position' = position
              /\ producer' = [producer EXCEPT ![t] = p]
              /\ inactive' = [inactive EXCEPT ![p] = FALSE]
           \/ /\ tpc' = [tpc EXCEPT ![t] = "find"]
              /\ position' = [position EXCEPT ![t] = @ - 1]
              /\ UNCHANGED <<producer, inactive>>
        /\ UNCHANGED <<constructed, producerList, producerCount, initialBlockPool,
                       implicitProducerHash, implicitProducerHashCount, prev, entries,
                       isExplicit, parent, tokenOf, pool, queue>>
    BY DEF Catch, Goto, lists, hashes
  <1> HIDE DEF p
  <1>a. /\ tpc'[t] \in {"find", "attach"}
        /\ \A u \in Tokens : u # t => tpc'[u] = tpc[u] /\ position'[u] = position[u]
                                      /\ producer'[u] = producer[u]
    BY <1>b DEF Good, TypeOK
  <1>1. TypeOK'
    <2>1. tpc' \in [Tokens -> {"invalid", "find", "catch", "create", "link", "attach",
                               "valid", "release"}]
      BY <1>b DEF Good, TypeOK
    <2>2. position' \in [Tokens -> Nat]
      <3>1. position \in [Tokens -> Nat] /\ (position[t] # 0 => position[t] - 1 \in Nat)
        BY DEF Good, TypeOK
      <3> QED
        BY <1>0, <1>b, <3>1
    <2>3. \A u \in Tokens : position'[u] \in
             0 .. IF queue[u] = Nobody THEN 0 ELSE Len(producerList[queue[u]])
      BY <1>0, <1>b, <1>a, ListsTyped, NobodyApart DEF Good, TypeOK
    <2>4. producer' \in [Tokens -> Producers \cup {Nobody}]
      BY <1>0, <1>b DEF Good, TypeOK
    <2>5. inactive' \in [Producers -> BOOLEAN]
      BY <1>b DEF Good, TypeOK
    <2> QED
      BY <1>b, <2>1, <2>2, <2>3, <2>4, <2>5 DEF Good, TypeOK
  <1>c. \A u \in Tokens : producer[u] = p => ~inactive[p]
    BY <1>0, NobodyApart DEF Good, OwnershipInv, TokenRight
  <1>2. ASSUME NEW u \in Tokens PROVE TokenRight(u)'
    <2>1. CASE u = t /\ tpc' = [tpc EXCEPT ![t] = "attach"]
      <3>1. /\ tpc'[t] = "attach" /\ producer'[t] = p /\ inactive[p] /\ inactive'[p] = FALSE
        BY <1>0, <1>b, <2>1 DEF Good, TypeOK
      <3>2. \A x \in Tokens \ {t} : producer'[x] # p
        BY <1>a, <1>c, <3>1
      <3>3. p \in Listed(queue[t])'
        BY <1>0, <1>b DEF Listed
      <3> QED
        BY <1>0, <1>b, <2>1, <3>1, <3>2, <3>3, NobodyApart
           DEF Good, OwnershipInv, TokenRight, Listed
    <2>2. CASE u = t /\ tpc' # [tpc EXCEPT ![t] = "attach"]
      <3>1. tpc'[t] = "find" /\ producer' = producer
        BY <1>b, <2>2 DEF Good, TypeOK
      <3> QED
        BY <1>0, <1>b, <2>2, <3>1, NobodyApart DEF Good, OwnershipInv, TokenRight
    <2>3. CASE u # t
      <3>1. TokenRight(u) /\ UNCHANGED <<tpc[u], queue[u], position[u], producer[u]>>
        BY <1>b, <1>a, <2>3 DEF Good, OwnershipInv, TypeOK
      <3>2. producer[u] # Nobody => inactive'[producer[u]] = inactive[producer[u]]
        BY <1>b, <1>c DEF Good, TypeOK
      <3>3. producer[u] # Nobody => \A x \in Tokens \ {u} : producer'[x] # producer[u]
        BY <1>0, <1>b, <1>a, <1>c, <3>1 DEF Good, TypeOK, TokenRight
      <3> QED
        BY <1>b, <3>1, <3>2, <3>3, TokenStays DEF Listed
    <2> QED
      BY <2>1, <2>2, <2>3
  <1>3. ProducersRight'
    <2>1. \A x \in Producers : tokenOf[x] # Nobody => tokenOf[x] # t /\ tokenOf[x] \in Tokens
      BY <1>0 DEF Good, OwnershipInv, TypeOK, ProducersRight
    <2> QED
      BY <1>b, <1>a, <2>1 DEF Good, OwnershipInv, ProducersRight
  <1>4. \A r \in Queues : BeingLinked(r)' = BeingLinked(r)
    BY <1>0, <1>b, <1>a DEF BeingLinked
  <1>5. \A r \in Queues : ListRight(r)' /\ Implicit(r)' = Implicit(r)
    BY <1>b, <1>4, ListsStay DEF Good, OwnershipInv
  <1>6. TablesRight'
    BY <1>0, <1>b, <1>5, TablesStay DEF Good, OwnershipInv
  <1> QED
    BY <1>1, <1>2, <1>3, <1>5, <1>6 DEF Good, OwnershipInv

-----------------------------------------------------------------------------
(* Tokens: a new producer *)

LEMMA CreateProducerKeeps ==
    ASSUME Good, NEW t \in Tokens, CreateProducer(t)
    PROVE  Good'
  <1> DEFINE q == queue[t]
  <1>0. /\ tpc[t] = "create" /\ tpc' = [tpc EXCEPT ![t] = "link"]
        /\ q \in constructed /\ constructed \subseteq Queues /\ q \in Queues
        /\ producer[t] = Nobody
        /\ producerCount' = [producerCount EXCEPT ![q] = @ + 1]
        /\ UNCHANGED <<constructed, producerList, initialBlockPool, implicitProducerHash,
                       implicitProducerHashCount, prev, entries, queue, position>>
    BY NobodyApart DEF CreateProducer, Goto, hashes, Good, TypeOK, OwnershipInv, TokenRight
  <1>b. PICK p \in Producers :
           /\ Fresh(p)
           /\ producer' = [producer EXCEPT ![t] = p]
           /\ isExplicit' = [isExplicit EXCEPT ![p] = TRUE]
           /\ inactive' = [inactive EXCEPT ![p] = FALSE]
           /\ parent' = [parent EXCEPT ![p] = q]
           /\ tokenOf' = [tokenOf EXCEPT ![p] = Nobody]
           /\ pool' = [pool EXCEPT ![p] = initialBlockPool[q]]
    BY DEF CreateProducer, NewProducer
  <1> HIDE DEF q
  <1>q. q = queue[t] /\ initialBlockPool[q] \in Queues \cup {Nobody}
    BY <1>0 DEF q, Good, TypeOK
  <1>f. /\ \A r \in Queues : p \notin Listed(r)
        /\ \A u \in Tokens : producer[u] # p
    BY <1>b, FreshApart
  <1>a. /\ tpc'[t] = "link" /\ producer'[t] = p
        /\ isExplicit'[p] = TRUE /\ inactive'[p] = FALSE /\ parent'[p] = q
        /\ pool'[p] = initialBlockPool[q] /\ tokenOf'[p] = Nobody
        /\ \A u \in Tokens : u # t => tpc'[u] = tpc[u] /\ producer'[u] = producer[u]
        /\ \A x \in Producers : x # p =>
              /\ isExplicit'[x] = isExplicit[x] /\ inactive'[x] = inactive[x]
              /\ parent'[x] = parent[x] /\ pool'[x] = pool[x] /\ tokenOf'[x] = tokenOf[x]
    BY <1>0, <1>b DEF Good, TypeOK
  <1>1. TypeOK'
    <2>1. /\ tpc' \in [Tokens -> {"invalid", "find", "catch", "create", "link", "attach",
                                  "valid", "release"}]
          /\ producer' \in [Tokens -> Producers \cup {Nobody}]
          /\ parent' \in [Producers -> Queues \cup {Nobody}]
          /\ tokenOf' \in [Producers -> Tokens \cup {Nobody}]
      BY <1>0, <1>b DEF Good, TypeOK
    <2>2. pool' \in [Producers -> Queues \cup {Nobody}]
      BY <1>b, <1>q DEF Good, TypeOK
    <2>3. isExplicit' \in [Producers -> BOOLEAN]
      BY <1>b DEF Good, TypeOK
    <2>4. inactive' \in [Producers -> BOOLEAN]
      BY <1>b DEF Good, TypeOK
    <2>5. producerCount' \in [Queues -> Nat]
      BY <1>0 DEF Good, TypeOK
    <2> QED
      BY <1>0, <2>1, <2>2, <2>3, <2>4, <2>5 DEF Good, TypeOK
  <1>l. \A r \in Queues : Listed(r)' = Listed(r) /\ Listed(r) \subseteq Producers
    BY <1>0, ListsTyped DEF Good, Listed
  <1>2. ASSUME NEW u \in Tokens PROVE TokenRight(u)'
    <2>1. CASE u = t
      <3>1. \A x \in Tokens \ {t} : producer'[x] # p
        BY <1>a, <1>f
      <3>2. queue'[t] = q /\ queue'[t] # Nobody /\ q \in constructed'
        BY <1>0, <1>q, NobodyApart
      <3> QED
        BY <1>0, <1>a, <1>f, <1>l, <2>1, <3>1, <3>2, NobodyApart DEF TokenRight
    <2>2. CASE u # t
      <3>1. TokenRight(u) /\ UNCHANGED <<tpc[u], queue[u], position[u], producer[u]>>
        BY <1>0, <1>a, <2>2 DEF Good, OwnershipInv
      <3>2. producer[u] # Nobody => producer[u] \in Producers /\ producer[u] # p
        BY <1>f DEF Good, TypeOK
      <3>3. producer[u] # Nobody => \A x \in Tokens \ {u} : producer'[x] # producer[u]
        BY <1>a, <3>1, <3>2 DEF TokenRight
      <3>4. \A r \in Queues : \A i \in DOMAIN producerList[r] :
               isExplicit'[producerList[r][i]] = isExplicit[producerList[r][i]]
        BY <1>a, <1>f, ListsTyped DEF Good
      <3> QED
        BY <1>0, <1>l, <1>a, <3>1, <3>2, <3>3, <3>4, TokenStays
    <2> QED
      BY <2>1, <2>2
  <1>3. ProducersRight'
    <2>1. \A x \in Producers : tokenOf[x] # Nobody => tokenOf[x] # t /\ tokenOf[x] \in Tokens
      BY <1>0 DEF Good, OwnershipInv, TypeOK, ProducersRight
    <2> QED
      BY <1>a, <2>1 DEF Good, OwnershipInv, ProducersRight
  <1>4. \A r \in Queues : /\ r # q => BeingLinked(r)' = BeingLinked(r)
                          /\ r = q => BeingLinked(r)' = BeingLinked(r) \cup {p}
    BY <1>0, <1>a, <1>q DEF BeingLinked
  <1>i. \A r \in Queues : Implicit(r)' = Implicit(r)
    BY <1>a, <1>l, <1>f DEF Implicit
  <1>5. ASSUME NEW r \in Queues PROVE ListRight(r)'
    <2>1. producerCount'[r] = Cardinality(Listed(r) \cup BeingLinked(r)')
      <3>1. /\ IsFiniteSet(Listed(r) \cup BeingLinked(r))
            /\ producerCount[r] = Cardinality(Listed(r) \cup BeingLinked(r))
        BY SetsFinite DEF Good, OwnershipInv, ListRight
      <3>2. CASE r # q
        BY <1>0, <1>4, <3>1, <3>2 DEF Good, TypeOK
      <3>3. CASE r = q
        <4>1. p \notin Listed(r) \cup BeingLinked(r)
          BY <1>f DEF BeingLinked
        <4>2. Listed(r) \cup BeingLinked(r)' = (Listed(r) \cup BeingLinked(r)) \cup {p}
          BY <1>4, <3>3
        <4>3. producerCount'[r] = producerCount[r] + 1
          BY <1>0, <3>3 DEF Good, TypeOK
        <4> QED
          BY <3>1, <4>1, <4>2, <4>3, FS_AddElement
      <3> QED
        BY <3>2, <3>3
    <2>2. \A x \in Listed(r) : parent'[x] = parent[x] /\ pool'[x] = pool[x]
      BY <1>a, <1>f, <1>l
    <2>3. ListRight(r) /\ Listed(r)' = Listed(r) /\ Implicit(r)' = Implicit(r)
      BY <1>l, <1>i DEF Good, OwnershipInv
    <2>4. \A x \in Queues \ {r} : Listed(r)' \cap Listed(x)' = {}
      BY <1>l, <2>3 DEF ListRight
    <2> QED
      BY <1>0, <2>1, <2>2, <2>3, <2>4 DEF ListRight
  <1>6. TablesRight'
    BY <1>0, <1>i, TablesStay DEF Good, OwnershipInv
  <1> QED
    BY <1>1, <1>2, <1>3, <1>5, <1>6 DEF Good, OwnershipInv

LEMMA LinkProducerKeeps ==
    ASSUME Good, NEW t \in Tokens, LinkProducer(t)
    PROVE  Good'
  <1>p. PICK p, q : p = producer[t] /\ q = queue[t]
    OBVIOUS
  <1>0. /\ tpc[t] = "link" /\ tpc' = [tpc EXCEPT ![t] = "attach"]
        /\ q \in constructed /\ constructed \subseteq Queues /\ q \in Queues
        /\ p \in Producers /\ isExplicit[p]
        /\ parent[p] = q /\ pool[p] = initialBlockPool[q]
        /\ \A r \in Queues : p \notin Listed(r)
        /\ \A u \in Tokens \ {t} : producer[u] # p
        /\ producerList' = [producerList EXCEPT ![q] = Append(@, p)]
        /\ UNCHANGED <<constructed, producerCount, initialBlockPool, implicitProducerHash,
                       implicitProducerHashCount, prev, entries, isExplicit, inactive,
                       parent, tokenOf, pool, producer, queue, position>>
    BY <1>p, NobodyApart DEF LinkProducer, Goto, hashes, producers, Good, TypeOK,
       OwnershipInv, TokenRight
  <1>a. /\ tpc'[t] = "attach"
        /\ \A u \in Tokens : u # t => tpc'[u] = tpc[u]
        /\ producerList'[q] = Append(producerList[q], p)
        /\ \A r \in Queues : r # q => producerList'[r] = producerList[r]
    BY <1>0 DEF Good, TypeOK
  <1>s. /\ producerList[q] \in Seq(Producers)
        /\ producerList'[q] \in Seq(Producers)
        /\ Len(producerList'[q]) = Len(producerList[q]) + 1
        /\ Listed(q)' = Listed(q) \cup {p}
        /\ \A i \in DOMAIN producerList[q] : producerList'[q][i] = producerList[q][i]
        /\ IsInjective(producerList'[q])
    <2>1. producerList[q] \in Seq(Producers) /\ DOMAIN producerList[q] = 1 .. Len(producerList[q])
      BY <1>0, ListsTyped DEF Good
    <2>2. /\ p \notin ToSet(producerList[q])
          /\ IsInjective(producerList[q])
      BY <1>0 DEF Listed, Good, OwnershipInv, ListRight
    <2>3. p \in Producers /\ producerList'[q] = Append(producerList[q], p)
      BY <1>0, <1>a
    <2>4. PICK s, z : s = producerList[q] /\ z = producerList'[q]
      OBVIOUS
    <2>5. /\ s \in Seq(Producers) /\ p \in Producers /\ p \notin ToSet(s)
          /\ IsInjective(s)
          /\ z = Append(s, p)
      BY <2>1, <2>2, <2>3, <2>4
    <2>6. z \in Seq(Producers) /\ Len(z) = Len(s) + 1
      BY ONLY <2>5, Appended
    <2>7. \A x : x \in ToSet(z) <=> x \in ToSet(s) \/ x = p
      BY ONLY <2>5, Appended
    <2>8. \A i \in DOMAIN s : z[i] = s[i]
      BY ONLY <2>5, Appended
    <2>9. IsInjective(z)
      BY ONLY <2>5, Appended
    <2> QED
      BY <2>1, <2>4, <2>6, <2>7, <2>8, <2>9 DEF Listed
  <1>l. \A r \in Queues : r # q => Listed(r)' = Listed(r)
    BY <1>a DEF Listed
  <1>1. TypeOK'
    <2>1. /\ tpc' \in [Tokens -> {"invalid", "find", "catch", "create", "link", "attach",
                                  "valid", "release"}]
          /\ producerList' \in [Queues -> Seq(Producers)]
      BY <1>0, <1>s, <1>a DEF Good, TypeOK
    <2>2. ASSUME NEW u \in Tokens
          PROVE  position[u] \in 0 .. IF queue[u] = Nobody THEN 0
                                                        ELSE Len(producerList'[queue[u]])
      <3>1. CASE queue[u] = q
        BY <1>0, <1>s, <3>1, ListsTyped, NobodyApart DEF Good, TypeOK
      <3>2. CASE queue[u] # q
        <4>1. queue[u] # Nobody => producerList'[queue[u]] = producerList[queue[u]]
          BY <1>a, <3>2 DEF Good, TypeOK
        <4> QED
          BY <4>1 DEF Good, TypeOK
      <3> QED
        BY <3>1, <3>2
    <2> QED
      BY <1>0, <2>1, <2>2 DEF Good, TypeOK
  <1>2. ASSUME NEW u \in Tokens PROVE TokenRight(u)'
    <2>1. CASE u = t
      <3>1. TokenRight(t)
        BY DEF Good, OwnershipInv
      <3> QED
        BY <1>0, <1>p, <1>a, <1>s, <2>1, <3>1 DEF TokenRight
    <2>2. CASE u # t
      <3>1. TokenRight(u) /\ UNCHANGED <<tpc[u], queue[u], position[u], producer[u]>>
        BY <1>0, <1>a, <2>2 DEF Good, OwnershipInv
      <3>2. \A r \in Queues : /\ Listed(r) \subseteq Listed(r)'
                              /\ producer[u] \in Listed(r)' => producer[u] \in Listed(r)
        BY <1>0, <1>s, <1>l, <2>2
      <3>3. \A r \in Queues : \A i \in DOMAIN producerList[r] :
               producerList'[r][i] = producerList[r][i]
        BY <1>a, <1>s
      <3>4. producer[u] # Nobody => \A x \in Tokens \ {u} : producer'[x] # producer[u]
        BY <1>0, <3>1 DEF TokenRight
      <3> QED
        BY <1>0, <3>1, <3>2, <3>3, <3>4, TokenStays
    <2> QED
      BY <2>1, <2>2
  <1>3. ProducersRight'
    <2>1. \A x \in Producers : tokenOf[x] # Nobody => tokenOf[x] # t /\ tokenOf[x] \in Tokens
      BY <1>0 DEF Good, OwnershipInv, TypeOK, ProducersRight
    <2> QED
      BY <1>0, <1>a, <2>1 DEF Good, OwnershipInv, ProducersRight
  <1>4. \A r \in Queues : /\ r # q => BeingLinked(r)' = BeingLinked(r)
                          /\ Listed(r)' \cup BeingLinked(r)' = Listed(r) \cup BeingLinked(r)
    <2>1. ASSUME NEW r \in Queues, r # q PROVE BeingLinked(r)' = BeingLinked(r)
      BY <1>0, <1>p, <1>a, <2>1 DEF BeingLinked
    <2>2. p \in BeingLinked(q)
      BY <1>0, <1>p DEF BeingLinked
    <2>3. \A x : x # p => (x \in BeingLinked(q)' <=> x \in BeingLinked(q))
      <3>1. \A x : x \in BeingLinked(q) <=>
               \E u \in Tokens : tpc[u] = "link" /\ queue[u] = q /\ producer[u] = x
        BY DEF BeingLinked
      <3>2. \A x : x \in BeingLinked(q)' <=>
               \E u \in Tokens : tpc'[u] = "link" /\ queue[u] = q /\ producer[u] = x
        BY <1>0 DEF BeingLinked
      <3> QED
        BY <1>0, <1>p, <1>a, <3>1, <3>2
    <2>4. p \in Listed(q)'
      BY <1>s
    <2> QED
      BY <1>l, <1>s, <2>1, <2>2, <2>3, <2>4
  <1>i. \A r \in Queues : Implicit(r)' = Implicit(r)
    BY <1>0, <1>s, <1>l DEF Implicit
  <1>5. ASSUME NEW r \in Queues PROVE ListRight(r)'
    <2>1. ListRight(r)
      BY DEF Good, OwnershipInv
    <2>2. \A x \in Queues \ {r} : Listed(r)' \cap Listed(x)' = {}
      BY <1>0, <1>s, <1>l, <2>1 DEF Good, OwnershipInv, ListRight
    <2>3. \A x \in Listed(r)' : parent[x] = r /\ pool[x] \in {initialBlockPool[r], Nobody}
      BY <1>0, <1>s, <1>l, <2>1 DEF ListRight
    <2>4. IsInjective(producerList'[r])
      BY <1>a, <1>s, <2>1 DEF ListRight
    <2>5. Implicit(r)' = Implicit(r)
      BY <1>i
    <2>6. Listed(r)' \cup BeingLinked(r)' = Listed(r) \cup BeingLinked(r)
      BY <1>4
    <2>7. r \notin constructed' => producerList'[r] = <<>> /\ initialBlockPool'[r] = Nobody
      BY <1>0, <1>a, <2>1 DEF ListRight
    <2> QED
      BY <1>0, <2>1, <2>2, <2>3, <2>4, <2>5, <2>6, <2>7 DEF ListRight
  <1>6. TablesRight'
    BY <1>0, <1>i, TablesStay DEF Good, OwnershipInv
  <1> QED
    BY <1>1, <1>2, <1>3, <1>5, <1>6 DEF Good, OwnershipInv

LEMMA CreationFailsKeeps ==
    ASSUME Good, NEW t \in Tokens, CreationFails(t)
    PROVE  Good'
  <1>0. /\ tpc[t] = "create" /\ constructed \subseteq Queues
        /\ tpc' = [tpc EXCEPT ![t] = "invalid"] /\ queue' = [queue EXCEPT ![t] = Nobody]
        /\ position' = [position EXCEPT ![t] = 0]
        /\ UNCHANGED <<constructed, producerList, producerCount, initialBlockPool,
                       implicitProducerHash, implicitProducerHashCount, prev, entries,
                       isExplicit, inactive, parent, tokenOf, pool, producer>>
    BY DEF CreationFails, Forget, Goto, lists, hashes, producers, Good, TypeOK
  <1>1. TypeOK'
    BY <1>0, ListsTyped, NobodyApart DEF Good, TypeOK
  <1>2. ASSUME NEW u \in Tokens PROVE TokenRight(u)'
    <2>1. CASE u = t
      <3>1. TokenRight(t) /\ tpc'[t] = "invalid" /\ queue'[t] = Nobody
        BY <1>0 DEF Good, TypeOK, OwnershipInv
      <3> QED
        BY <1>0, <2>1, <3>1, NobodyApart DEF TokenRight
    <2>2. CASE u # t
      <3>1. TokenRight(u) /\ UNCHANGED <<tpc[u], queue[u], position[u], producer[u]>>
        BY <1>0, <2>2 DEF Good, OwnershipInv, TypeOK
      <3> QED
        BY <1>0, <3>1, TokenStays DEF Listed, TokenRight
    <2> QED
      BY <2>1, <2>2
  <1>3. ProducersRight'
    BY <1>0 DEF Good, OwnershipInv, TypeOK, ProducersRight
  <1>4. \A r \in Queues : BeingLinked(r)' = BeingLinked(r)
    BY <1>0, NobodyApart DEF Good, TypeOK, OwnershipInv, BeingLinked
  <1>5. \A r \in Queues : ListRight(r)' /\ Implicit(r)' = Implicit(r)
    BY <1>0, <1>4, ListsStay DEF Good, OwnershipInv
  <1>6. TablesRight'
    BY <1>0, <1>5, TablesStay DEF Good, OwnershipInv
  <1> QED
    BY <1>1, <1>2, <1>3, <1>5, <1>6 DEF Good, OwnershipInv

-----------------------------------------------------------------------------
(* Tokens: attached, given up, moved *)

LEMMA AttachKeeps ==
    ASSUME Good, NEW t \in Tokens, Attach(t)
    PROVE  Good'
  <1>p. PICK p : p = producer[t]
    OBVIOUS
  <1>0. /\ tpc[t] = "attach" /\ constructed \subseteq Queues /\ p \in Producers
        /\ \A u \in Tokens \ {t} : producer[u] # p
        /\ tpc' = [tpc EXCEPT ![t] = "valid"] /\ queue' = [queue EXCEPT ![t] = Nobody]
        /\ position' = [position EXCEPT ![t] = 0]
        /\ tokenOf' = [tokenOf EXCEPT ![p] = t]
        /\ UNCHANGED <<constructed, producerList, producerCount, initialBlockPool,
                       implicitProducerHash, implicitProducerHashCount, prev, entries,
                       isExplicit, inactive, parent, pool, producer>>
    BY <1>p, NobodyApart DEF Attach, Forget, Goto, lists, hashes, producers, Good, TypeOK,
       OwnershipInv, TokenRight
  <1>a. /\ tpc'[t] = "valid" /\ queue'[t] = Nobody /\ tokenOf'[p] = t
        /\ \A u \in Tokens : u # t =>
              tpc'[u] = tpc[u] /\ queue'[u] = queue[u] /\ position'[u] = position[u]
        /\ \A x \in Producers : x # p => tokenOf'[x] = tokenOf[x]
    BY <1>0 DEF Good, TypeOK
  <1>1. TypeOK'
    BY <1>0, ListsTyped, NobodyApart DEF Good, TypeOK
  <1>2. ASSUME NEW u \in Tokens PROVE TokenRight(u)'
    <2>1. CASE u = t
      <3>1. TokenRight(t)
        BY DEF Good, OwnershipInv
      <3> QED
        BY <1>0, <1>p, <1>a, <2>1, <3>1, NobodyApart DEF TokenRight, Listed
    <2>2. CASE u # t
      <3>1. TokenRight(u) /\ UNCHANGED <<tpc[u], queue[u], position[u], producer[u]>>
        BY <1>0, <1>a, <2>2 DEF Good, OwnershipInv, TypeOK
      <3>2. producer[u] # Nobody => tokenOf'[producer[u]] = tokenOf[producer[u]]
        BY <1>0, <1>a, <2>2 DEF Good, TypeOK
      <3> QED
        BY <1>0, <3>1, <3>2, TokenStays DEF Listed, TokenRight
    <2> QED
      BY <2>1, <2>2
  <1>3. ProducersRight'
    <2>1. \A x \in Producers : tokenOf[x] # Nobody => tokenOf[x] # t /\ tokenOf[x] \in Tokens
      BY <1>0 DEF Good, OwnershipInv, TypeOK, ProducersRight
    <2> QED
      BY <1>0, <1>p, <1>a, <2>1 DEF Good, OwnershipInv, ProducersRight
  <1>4. \A r \in Queues : BeingLinked(r)' = BeingLinked(r)
    BY <1>0, <1>a DEF BeingLinked
  <1>5. \A r \in Queues : ListRight(r)' /\ Implicit(r)' = Implicit(r)
    BY <1>0, <1>4, ListsStay DEF Good, OwnershipInv
  <1>6. TablesRight'
    BY <1>0, <1>5, TablesStay DEF Good, OwnershipInv
  <1> QED
    BY <1>1, <1>2, <1>3, <1>5, <1>6 DEF Good, OwnershipInv

LEMMA DetachKeeps ==
    ASSUME Good, NEW t \in Tokens, Detach(t)
    PROVE  Good'
  <1>p. PICK p : p = producer[t]
    OBVIOUS
  <1>0. /\ tpc[t] = "valid" /\ constructed \subseteq Queues /\ p \in Producers
        /\ \A u \in Tokens \ {t} : producer[u] # p
        /\ tokenOf[p] = t
        /\ tpc' = [tpc EXCEPT ![t] = "release"]
        /\ tokenOf' = [tokenOf EXCEPT ![p] = Nobody]
        /\ UNCHANGED <<constructed, producerList, producerCount, initialBlockPool,
                       implicitProducerHash, implicitProducerHashCount, prev, entries,
                       isExplicit, inactive, parent, pool, producer, queue, position>>
    BY <1>p, NobodyApart DEF Detach, Goto, lists, hashes, producers, Good, TypeOK,
       OwnershipInv, TokenRight
  <1>a. /\ tpc'[t] = "release" /\ tokenOf'[p] = Nobody
        /\ \A u \in Tokens : u # t => tpc'[u] = tpc[u]
        /\ \A x \in Producers : x # p => tokenOf'[x] = tokenOf[x]
    BY <1>0 DEF Good, TypeOK
  <1>1. TypeOK'
    BY <1>0 DEF Good, TypeOK
  <1>2. ASSUME NEW u \in Tokens PROVE TokenRight(u)'
    <2>1. CASE u = t
      <3>1. TokenRight(t)
        BY DEF Good, OwnershipInv
      <3> QED
        BY <1>0, <1>p, <1>a, <2>1, <3>1, NobodyApart DEF TokenRight, Listed
    <2>2. CASE u # t
      <3>1. TokenRight(u) /\ UNCHANGED <<tpc[u], queue[u], position[u], producer[u]>>
        BY <1>0, <1>a, <2>2 DEF Good, OwnershipInv, TypeOK
      <3>2. producer[u] # Nobody => tokenOf'[producer[u]] = tokenOf[producer[u]]
        BY <1>0, <1>a, <2>2 DEF Good, TypeOK
      <3> QED
        BY <1>0, <3>1, <3>2, TokenStays DEF Listed, TokenRight
    <2> QED
      BY <2>1, <2>2
  <1>3. ProducersRight'
    <2>1. \A x \in Producers : x # p /\ tokenOf[x] # Nobody =>
             tokenOf[x] # t /\ tokenOf[x] \in Tokens
      BY <1>0, <1>p DEF Good, OwnershipInv, TypeOK, ProducersRight
    <2> QED
      BY <1>0, <1>p, <1>a, <2>1 DEF Good, OwnershipInv, ProducersRight
  <1>4. \A r \in Queues : BeingLinked(r)' = BeingLinked(r)
    BY <1>0, <1>a DEF BeingLinked
  <1>5. \A r \in Queues : ListRight(r)' /\ Implicit(r)' = Implicit(r)
    BY <1>0, <1>4, ListsStay DEF Good, OwnershipInv
  <1>6. TablesRight'
    BY <1>0, <1>5, TablesStay DEF Good, OwnershipInv
  <1> QED
    BY <1>1, <1>2, <1>3, <1>5, <1>6 DEF Good, OwnershipInv

LEMMA ReleaseKeeps ==
    ASSUME Good, NEW t \in Tokens, Release(t)
    PROVE  Good'
  <1>p. PICK p : p = producer[t]
    OBVIOUS
  <1>0. /\ tpc[t] = "release" /\ constructed \subseteq Queues /\ p \in Producers
        /\ \A u \in Tokens \ {t} : producer[u] # p
        /\ tpc' = [tpc EXCEPT ![t] = "invalid"]
        /\ inactive' = [inactive EXCEPT ![p] = TRUE]
        /\ producer' = [producer EXCEPT ![t] = Nobody]
        /\ UNCHANGED <<constructed, producerList, producerCount, initialBlockPool,
                       implicitProducerHash, implicitProducerHashCount, prev, entries,
                       isExplicit, parent, tokenOf, pool, queue, position>>
    BY <1>p, NobodyApart DEF Release, Goto, lists, hashes, producers, Good, TypeOK,
       OwnershipInv, TokenRight
  <1>a. /\ tpc'[t] = "invalid" /\ producer'[t] = Nobody
        /\ \A u \in Tokens : u # t => tpc'[u] = tpc[u] /\ producer'[u] = producer[u]
        /\ \A x \in Producers : x # p => inactive'[x] = inactive[x]
    BY <1>0 DEF Good, TypeOK
  <1>1. TypeOK'
    <2>1. inactive' \in [Producers -> BOOLEAN]
      BY <1>0 DEF Good, TypeOK
    <2>2. producer' \in [Tokens -> Producers \cup {Nobody}]
      BY <1>0 DEF Good, TypeOK
    <2> QED
      BY <1>0, <2>1, <2>2 DEF Good, TypeOK
  <1>2. ASSUME NEW u \in Tokens PROVE TokenRight(u)'
    <2>1. CASE u = t
      <3>1. TokenRight(t)
        BY DEF Good, OwnershipInv
      <3> QED
        BY <1>0, <1>a, <2>1, <3>1, NobodyApart DEF TokenRight, Listed
    <2>2. CASE u # t
      <3>1. TokenRight(u) /\ UNCHANGED <<tpc[u], queue[u], position[u], producer[u]>>
        BY <1>0, <1>a, <2>2 DEF Good, OwnershipInv, TypeOK
      <3>2. producer[u] # Nobody => inactive'[producer[u]] = inactive[producer[u]]
        BY <1>0, <1>a, <2>2 DEF Good, TypeOK
      <3>3. producer[u] # Nobody => \A x \in Tokens \ {u} : producer'[x] # producer[u]
        BY <1>a, <3>1 DEF TokenRight
      <3> QED
        BY <1>0, <3>1, <3>2, <3>3, TokenStays DEF Listed
    <2> QED
      BY <2>1, <2>2
  <1>3. ProducersRight'
    <2>1. \A x \in Producers : tokenOf[x] # Nobody => tokenOf[x] # t /\ tokenOf[x] \in Tokens
      BY <1>0, <1>p DEF Good, OwnershipInv, TypeOK, ProducersRight
    <2> QED
      BY <1>0, <1>p, <1>a, <2>1 DEF Good, OwnershipInv, ProducersRight
  <1>4. \A r \in Queues : BeingLinked(r)' = BeingLinked(r)
    BY <1>0, <1>a DEF BeingLinked
  <1>5. \A r \in Queues : ListRight(r)' /\ Implicit(r)' = Implicit(r)
    BY <1>0, <1>4, ListsStay DEF Good, OwnershipInv
  <1>6. TablesRight'
    BY <1>0, <1>5, TablesStay DEF Good, OwnershipInv
  <1> QED
    BY <1>1, <1>2, <1>3, <1>5, <1>6 DEF Good, OwnershipInv

\* Two tokens change places, or one becomes invalid: only their threads' agreement and
\* the pointers both ways are at stake.
LEMMA MoveTokenKeeps ==
    ASSUME Good, NEW t \in Tokens, NEW u \in Tokens \ {t}, MoveToken(t, u)
    PROVE  Good'
  <1>p. PICK p, r : p = producer[t] /\ r = producer[u]
    OBVIOUS
  <1>0. /\ tpc[t] = "valid" /\ tpc[u] \in {"valid", "invalid"}
        /\ constructed \subseteq Queues /\ p \in Producers /\ p # r
        /\ r \in Producers \cup {Nobody}
        /\ queue[t] = Nobody /\ queue[u] = Nobody
        /\ producer' = [producer EXCEPT ![t] = r, ![u] = p]
        /\ tpc' = [tpc EXCEPT ![t] = tpc[u], ![u] = tpc[t]]
        /\ tokenOf' = [x \in Producers |->
                          CASE x = p -> u [] x = r -> t [] OTHER -> tokenOf[x]]
        /\ UNCHANGED <<constructed, producerList, producerCount, initialBlockPool,
                       implicitProducerHash, implicitProducerHashCount, prev, entries,
                       isExplicit, inactive, parent, pool, queue, position>>
    <2>1. TokenRight(t) /\ TokenRight(u)
      BY DEF Good, OwnershipInv
    <2>2. tpc[t] = "valid" /\ tpc[u] \in {"valid", "invalid"}
      BY DEF MoveToken
    <2>3. p \in Producers /\ r \in Producers \cup {Nobody} /\ p # Nobody
      BY <1>p, <2>1, <2>2 DEF TokenRight, Good, TypeOK
    <2>4. p # r
      BY <1>p, <2>1, <2>3 DEF TokenRight
    <2>5. queue[t] = Nobody /\ queue[u] = Nobody
      BY <2>1, <2>2 DEF TokenRight
    <2>6. /\ producer' = [producer EXCEPT ![t] = r, ![u] = p]
          /\ tpc' = [tpc EXCEPT ![t] = tpc[u], ![u] = tpc[t]]
          /\ UNCHANGED <<constructed, producerList, producerCount, initialBlockPool,
                         implicitProducerHash, implicitProducerHashCount, prev, entries,
                         isExplicit, inactive, parent, pool, queue, position>>
      BY <1>p DEF MoveToken, lists, hashes
    <2>7. tokenOf' = [x \in Producers |->
                         CASE x = p -> u [] x = r -> t [] OTHER -> tokenOf[x]]
      BY <1>p DEF MoveToken
    <2> QED
      BY <2>2, <2>3, <2>4, <2>5, <2>6, <2>7 DEF Good, TypeOK
  <1>a. /\ tpc'[t] = tpc[u] /\ tpc'[u] = "valid" /\ producer'[t] = r /\ producer'[u] = p
        /\ \A x \in Tokens : x \notin {t, u} => tpc'[x] = tpc[x] /\ producer'[x] = producer[x]
        /\ tokenOf'[p] = u /\ (r # Nobody => tokenOf'[r] = t)
        /\ \A x \in Producers : x \notin {p, r} => tokenOf'[x] = tokenOf[x]
    BY <1>0 DEF Good, TypeOK
  <1>1. TypeOK'
    <2>1. tokenOf' \in [Producers -> Tokens \cup {Nobody}]
      BY <1>0 DEF Good, TypeOK
    <2>2. producer' \in [Tokens -> Producers \cup {Nobody}]
      BY <1>0 DEF Good, TypeOK
    <2>3. tpc' \in [Tokens -> {"invalid", "find", "catch", "create", "link", "attach",
                               "valid", "release"}]
      BY <1>0 DEF Good, TypeOK
    <2> QED
      BY <1>0, <2>1, <2>2, <2>3 DEF Good, TypeOK
  <1>e. /\ tpc[t] = "valid" /\ tpc[u] \in {"valid", "invalid"} /\ p # Nobody
        /\ queue'[t] = Nobody /\ queue'[u] = Nobody /\ queue' = queue
        /\ UNCHANGED <<constructed, isExplicit, inactive>>
        /\ \A q : Listed(q)' = Listed(q)
    BY <1>0, NobodyApart DEF Listed
  <1>b. TokenRight(t) /\ TokenRight(u)
    BY DEF Good, OwnershipInv
  <1>d. \A x, y \in Tokens : x # y /\ producer'[x] # Nobody => producer'[x] # producer'[y]
    <2>1. \A x, y \in Tokens : x # y /\ producer[x] # Nobody => producer[x] # producer[y]
      BY DEF Good, OwnershipInv, TokenRight
    <2>2. \A x \in Tokens : producer'[x] =
             IF x = t THEN producer[u] ELSE IF x = u THEN producer[t] ELSE producer[x]
      BY <1>p, <1>a
    <2> QED
      BY <2>1, <2>2
  <1>2. ASSUME NEW x \in Tokens PROVE TokenRight(x)'
    <2>1. CASE x = t
      <3>1. \A y \in Tokens \ {t} : r # Nobody => producer'[y] # r
        BY <1>a, <1>d
      <3> QED
        BY <1>e, <1>p, <1>a, <1>b, <2>1, <3>1 DEF TokenRight
    <2>2. CASE x = u
      <3>1. \A y \in Tokens \ {u} : producer'[y] # p
        BY <1>e, <1>a, <1>d
      <3> QED
        BY <1>e, <1>p, <1>a, <1>b, <2>2, <3>1 DEF TokenRight
    <2>3. CASE x \notin {t, u}
      <3>1. TokenRight(x) /\ UNCHANGED <<tpc[x], queue[x], position[x], producer[x]>>
        BY <1>0, <1>a, <2>3 DEF Good, OwnershipInv, TypeOK
      <3>2. producer[x] # Nobody => tokenOf'[producer[x]] = tokenOf[producer[x]]
        BY <1>a, <1>p, <2>3, <3>1 DEF Good, TypeOK, TokenRight
      <3>3. producer[x] # Nobody => \A y \in Tokens \ {x} : producer'[y] # producer[x]
        BY <1>d, <3>1
      <3> QED
        BY <1>0, <3>1, <3>2, <3>3, TokenStays DEF Listed
    <2> QED
      BY <2>1, <2>2, <2>3
  <1>3. ProducersRight'
    <2>1. ASSUME NEW x \in Producers, tokenOf'[x] # Nobody
          PROVE  tpc'[tokenOf'[x]] = "valid" /\ producer'[tokenOf'[x]] = x
      <3>1. CASE x = p
        BY <1>a, <3>1
      <3>2. CASE x = r
        BY <1>0, <1>p, <1>a, <1>b, <3>2, NobodyApart DEF TokenRight
      <3>3. CASE x \notin {p, r}
        <4>1. tokenOf[x] # Nobody /\ tokenOf[x] \in Tokens /\ tokenOf'[x] = tokenOf[x]
          BY <1>a, <2>1, <3>3 DEF Good, TypeOK
        <4>2. tpc[tokenOf[x]] = "valid" /\ producer[tokenOf[x]] = x
          BY <4>1 DEF Good, OwnershipInv, ProducersRight
        <4> QED
          BY <1>a, <1>p, <3>3, <4>1, <4>2
      <3> QED
        BY <3>1, <3>2, <3>3
    <2> QED
      BY <2>1 DEF ProducersRight
  <1>4. \A q \in Queues : BeingLinked(q)' = BeingLinked(q)
    <2>1. \A x \in Tokens : /\ tpc'[x] = "link" <=> tpc[x] = "link"
                            /\ tpc[x] = "link" => producer'[x] = producer[x]
      BY <1>0, <1>a
    <2>2. \A q, x : x \in BeingLinked(q) <=>
             \E y \in Tokens : tpc[y] = "link" /\ queue[y] = q /\ producer[y] = x
      BY DEF BeingLinked
    <2>3. \A q, x : x \in BeingLinked(q)' <=>
             \E y \in Tokens : tpc'[y] = "link" /\ queue[y] = q /\ producer'[y] = x
      BY <1>e DEF BeingLinked
    <2>4. ASSUME NEW q \in Queues, NEW x PROVE x \in BeingLinked(q)' <=> x \in BeingLinked(q)
      BY <2>1, <2>2, <2>3
    <2> QED
      BY <2>4
  <1>5. \A q \in Queues : ListRight(q)' /\ Implicit(q)' = Implicit(q)
    BY <1>0, <1>4, ListsStay DEF Good, OwnershipInv
  <1>6. TablesRight'
    BY <1>0, <1>5, TablesStay DEF Good, OwnershipInv
  <1> QED
    BY <1>1, <1>2, <1>3, <1>5, <1>6 DEF Good, OwnershipInv

-----------------------------------------------------------------------------
(* Threads without a token *)

\* What AddWriter and the operations on queue objects say of every token.
LEMMA ChainsTyped ==
    ASSUME Good, NEW q \in constructed
    PROVE  /\ q \in Queues /\ q \in Tables
           /\ implicitProducerHash[q] \in Tables
           /\ ChainFrom(implicitProducerHash[q]) \subseteq Tables
           /\ implicitProducerHash[q] \in ChainFrom(implicitProducerHash[q])
           /\ ChainFrom(implicitProducerHash[q]) \cap Queues = {q}
           /\ prev \in [Tables -> Tables \cup {Nobody}]
           /\ ClosedIn(ChainFrom(implicitProducerHash[q]), prev)
  <1>1. q \in Queues /\ implicitProducerHash[q] \in Tables
    BY DEF Good, TypeOK, OwnershipInv, TablesRight
  <1>2. prev \in [Tables -> Tables \cup {Nobody}]
    BY DEF Good, TypeOK
  <1> QED
    BY <1>1, <1>2, ReachedClosed, NobodyApart
       DEF ChainFrom, Good, OwnershipInv, TablesRight

LEMMA AddWriterKeeps ==
    ASSUME Good, NEW q \in Queues, NEW w \in Writers, AddWriter(w, q)
    PROVE  Good'
  <1>p. PICK main, p :
           /\ main = implicitProducerHash[q] /\ p \in Producers /\ Fresh(p)
           /\ isExplicit' = [isExplicit EXCEPT ![p] = FALSE]
           /\ inactive' = [inactive EXCEPT ![p] = FALSE]
           /\ parent' = [parent EXCEPT ![p] = q]
           /\ tokenOf' = [tokenOf EXCEPT ![p] = Nobody]
           /\ pool' = [pool EXCEPT ![p] = initialBlockPool[q]]
           /\ producerList' = [producerList EXCEPT ![q] = Append(@, p)]
           /\ entries' = [entries EXCEPT ![main][w] = p]
    BY DEF AddWriter, NewProducer
  <1>0. /\ q \in constructed /\ constructed \subseteq Queues
        /\ \A h \in ChainFrom(main) : entries[h][w] = Nobody
        /\ producerCount' = [producerCount EXCEPT ![q] = @ + 1]
        /\ implicitProducerHashCount' = [implicitProducerHashCount EXCEPT ![q] = @ + 1]
        /\ UNCHANGED <<constructed, initialBlockPool, implicitProducerHash, prev,
                       tpc, producer, queue, position>>
    BY <1>p DEF AddWriter, tokens, Good, TypeOK
  <1>m. /\ main \in Tables /\ main \in ChainFrom(main)
        /\ ChainFrom(main) = ChainFrom(implicitProducerHash[q])
    BY <1>0, <1>p, ChainsTyped
  <1>f. /\ \A r \in Queues : p \notin Listed(r)
        /\ \A u \in Tokens : producer[u] # p
    BY <1>p, FreshApart
  <1>i. initialBlockPool[q] \in Queues \cup {Nobody}
    BY DEF Good, TypeOK
  <1>a. /\ isExplicit'[p] = FALSE /\ inactive'[p] = FALSE /\ parent'[p] = q
        /\ pool'[p] = initialBlockPool[q] /\ tokenOf'[p] = Nobody
        /\ \A x \in Producers : x # p =>
              /\ isExplicit'[x] = isExplicit[x] /\ inactive'[x] = inactive[x]
              /\ parent'[x] = parent[x] /\ pool'[x] = pool[x] /\ tokenOf'[x] = tokenOf[x]
        /\ producerList'[q] = Append(producerList[q], p)
        /\ \A r \in Queues : r # q => producerList'[r] = producerList[r]
    BY <1>p DEF Good, TypeOK
  <1>s. /\ producerList[q] \in Seq(Producers)
        /\ producerList'[q] \in Seq(Producers)
        /\ Len(producerList'[q]) = Len(producerList[q]) + 1
        /\ Listed(q)' = Listed(q) \cup {p}
        /\ \A i \in DOMAIN producerList[q] : producerList'[q][i] = producerList[q][i]
        /\ IsInjective(producerList'[q])
    <2>1. producerList[q] \in Seq(Producers) /\ DOMAIN producerList[q] = 1 .. Len(producerList[q])
      BY ListsTyped DEF Good
    <2>2. /\ p \notin ToSet(producerList[q])
          /\ IsInjective(producerList[q])
      BY <1>f DEF Listed, Good, OwnershipInv, ListRight
    <2>3. p \in Producers /\ producerList'[q] = Append(producerList[q], p)
      BY <1>p, <1>a
    <2>4. PICK s, z : s = producerList[q] /\ z = producerList'[q]
      OBVIOUS
    <2>5. /\ s \in Seq(Producers) /\ p \in Producers /\ p \notin ToSet(s)
          /\ IsInjective(s)
          /\ z = Append(s, p)
      BY <2>1, <2>2, <2>3, <2>4
    <2>6. z \in Seq(Producers) /\ Len(z) = Len(s) + 1
      BY ONLY <2>5, Appended
    <2>7. \A x : x \in ToSet(z) <=> x \in ToSet(s) \/ x = p
      BY ONLY <2>5, Appended
    <2>8. \A i \in DOMAIN s : z[i] = s[i]
      BY ONLY <2>5, Appended
    <2>9. IsInjective(z)
      BY ONLY <2>5, Appended
    <2> QED
      BY <2>1, <2>4, <2>6, <2>7, <2>8, <2>9 DEF Listed
  <1>l. \A r \in Queues : r # q => Listed(r)' = Listed(r)
    BY <1>a DEF Listed
  <1>1. TypeOK'
    <2>1. /\ producerList' \in [Queues -> Seq(Producers)]
          /\ producerCount' \in [Queues -> Nat]
          /\ implicitProducerHashCount' \in [Queues -> Nat]
      BY <1>0, <1>p, <1>s, <1>a DEF Good, TypeOK
    <2>2. entries' \in [Tables -> [Writers -> Producers \cup {Nobody}]]
      BY <1>p, <1>m DEF Good, TypeOK
    <2>3. isExplicit' \in [Producers -> BOOLEAN]
      BY <1>p DEF Good, TypeOK
    <2>4. inactive' \in [Producers -> BOOLEAN]
      BY <1>p DEF Good, TypeOK
    <2>5. /\ parent' \in [Producers -> Queues \cup {Nobody}]
          /\ tokenOf' \in [Producers -> Tokens \cup {Nobody}]
      BY <1>p DEF Good, TypeOK
    <2>6. pool' \in [Producers -> Queues \cup {Nobody}]
      BY <1>p, <1>i DEF Good, TypeOK
    <2>7. ASSUME NEW u \in Tokens
          PROVE  position[u] \in 0 .. IF queue[u] = Nobody THEN 0
                                                        ELSE Len(producerList'[queue[u]])
      <3>1. CASE queue[u] = q
        BY <1>s, <3>1, ListsTyped, NobodyApart DEF Good, TypeOK
      <3>2. CASE queue[u] # q
        <4>1. queue[u] # Nobody => producerList'[queue[u]] = producerList[queue[u]]
          BY <1>a, <3>2 DEF Good, TypeOK
        <4> QED
          BY <4>1 DEF Good, TypeOK
      <3> QED
        BY <3>1, <3>2
    <2> QED
      BY <1>0, <2>1, <2>2, <2>3, <2>4, <2>5, <2>6, <2>7 DEF Good, TypeOK
  <1>2. ASSUME NEW u \in Tokens PROVE TokenRight(u)'
    <2>1. TokenRight(u) /\ UNCHANGED <<tpc[u], queue[u], position[u], producer[u]>>
      BY <1>0 DEF Good, OwnershipInv
    <2>2. \A r \in Queues : /\ Listed(r) \subseteq Listed(r)'
                            /\ producer[u] \in Listed(r)' => producer[u] \in Listed(r)
      BY <1>f, <1>s, <1>l
    <2>3. \A r \in Queues : \A i \in DOMAIN producerList[r] :
             /\ producerList'[r][i] = producerList[r][i]
             /\ isExplicit'[producerList[r][i]] = isExplicit[producerList[r][i]]
      <3>1. \A r \in Queues : \A i \in DOMAIN producerList[r] :
               producerList'[r][i] = producerList[r][i]
        BY <1>a, <1>s
      <3>2. \A r \in Queues : \A i \in DOMAIN producerList[r] :
               producerList[r][i] \in Producers /\ producerList[r][i] # p
        BY <1>f, ListsTyped DEF Good
      <3> QED
        BY <1>a, <3>1, <3>2
    <2>4. producer[u] # Nobody => producer[u] \in Producers /\ producer[u] # p
      BY <1>f DEF Good, TypeOK
    <2>5. producer[u] # Nobody => \A x \in Tokens \ {u} : producer'[x] # producer[u]
      BY <1>0, <2>1 DEF TokenRight
    <2> QED
      BY <1>0, <1>a, <2>1, <2>2, <2>3, <2>4, <2>5, TokenStays
  <1>3. ProducersRight'
    BY <1>0, <1>a DEF Good, OwnershipInv, ProducersRight
  <1>4. \A r \in Queues : BeingLinked(r)' = BeingLinked(r)
    BY <1>0 DEF BeingLinked
  <1>5. \A r \in Queues : /\ r # q => Implicit(r)' = Implicit(r)
                          /\ Implicit(q)' = Implicit(q) \cup {p}
    <2>1. \A r \in Queues : Listed(r) \subseteq Producers
      BY ListsTyped DEF Good
    <2>2. ASSUME NEW r \in Queues, NEW x, x # p
          PROVE  x \in Implicit(r)' <=> x \in Implicit(r)
      BY <1>a, <1>s, <1>l, <2>1, <2>2 DEF Implicit
    <2>3. p \in Implicit(q)'
      BY <1>a, <1>s DEF Implicit
    <2>4. ASSUME NEW r \in Queues, r # q PROVE p \notin Implicit(r)' /\ p \notin Implicit(r)
      BY <1>f, <1>l, <2>4 DEF Implicit
    <2>5. Implicit(q)' = Implicit(q) \cup {p}
      BY <2>2, <2>3
    <2>6. ASSUME NEW r \in Queues, r # q PROVE Implicit(r)' = Implicit(r)
      BY <2>2, <2>4, <2>6
    <2> QED
      BY <2>5, <2>6
  <1>6. ASSUME NEW r \in Queues PROVE ListRight(r)'
    <2>0. ListRight(r) /\ Listed(r) \subseteq Producers
      BY ListsTyped DEF Good, OwnershipInv
    <2>1. \A x \in Queues \ {r} : Listed(r)' \cap Listed(x)' = {}
      BY <1>f, <1>s, <1>l, <2>0 DEF Good, OwnershipInv, ListRight
    <2>2. \A x \in Listed(r)' : parent'[x] = r /\ pool'[x] \in {initialBlockPool[r], Nobody}
      BY <1>a, <1>f, <1>s, <1>l, <2>0 DEF ListRight
    <2>3. IsInjective(producerList'[r])
      BY <1>a, <1>s, <2>0 DEF ListRight
    <2>4. r \notin constructed' => producerList'[r] = <<>> /\ initialBlockPool'[r] = Nobody
      BY <1>0, <1>a, <2>0 DEF ListRight
    <2>5. implicitProducerHashCount'[r] = Cardinality(Implicit(r)')
      <3>1. CASE r # q
        BY <1>0, <1>5, <2>0, <3>1 DEF ListRight, Good, TypeOK
      <3>2. CASE r = q
        <4>1. p \notin Implicit(r) /\ IsFiniteSet(Implicit(r))
          BY <1>f, SetsFinite DEF Implicit
        <4>2. implicitProducerHashCount'[r] = implicitProducerHashCount[r] + 1
          BY <1>0, <3>2 DEF Good, TypeOK
        <4>3. Implicit(r)' = Implicit(r) \cup {p}
          BY <1>5, <3>2
        <4>4. implicitProducerHashCount[r] = Cardinality(Implicit(r))
          BY <2>0 DEF ListRight
        <4> QED
          BY <4>1, <4>2, <4>3, <4>4, FS_AddElement
      <3> QED
        BY <3>1, <3>2
    <2>6. producerCount'[r] = Cardinality(Listed(r)' \cup BeingLinked(r)')
      <3>1. CASE r # q
        BY <1>0, <1>4, <1>l, <2>0, <3>1 DEF ListRight, Good, TypeOK
      <3>2. CASE r = q
        <4>1. /\ p \notin Listed(r) \cup BeingLinked(r)
              /\ IsFiniteSet(Listed(r) \cup BeingLinked(r))
          BY <1>f, SetsFinite DEF BeingLinked
        <4>2. producerCount'[r] = producerCount[r] + 1
          BY <1>0, <3>2 DEF Good, TypeOK
        <4>3. Listed(r)' \cup BeingLinked(r)' = (Listed(r) \cup BeingLinked(r)) \cup {p}
          BY <1>s, <1>4, <3>2
        <4>4. producerCount[r] = Cardinality(Listed(r) \cup BeingLinked(r))
          BY <2>0 DEF ListRight
        <4> QED
          BY <4>1, <4>2, <4>3, <4>4, FS_AddElement
      <3> QED
        BY <3>1, <3>2
    <2> QED
      BY <2>1, <2>2, <2>3, <2>4, <2>5, <2>6, <1>0 DEF ListRight
  <1>7. TablesRight'
    <2>1. \A h : ChainFrom(h)' = ChainFrom(h)
      BY <1>0 DEF ChainFrom
    <2>c. \A r \in Queues : ChainFrom(implicitProducerHash[r])' = ChainFrom(implicitProducerHash[r])
      BY <1>0 DEF ChainFrom
    <2>e. /\ entries'[main][w] = p
          /\ \A v \in Writers : v # w => entries'[main][v] = entries[main][v]
          /\ \A h \in Tables : h # main => entries'[h] = entries[h]
      BY <1>p, <1>m DEF Good, TypeOK
    <2>r. TablesRight
      BY DEF Good, OwnershipInv
    <2>2. ASSUME NEW r \in constructed, r # q
          PROVE  Tokenless(r)' = Implicit(r)'
      <3>1. main \notin ChainFrom(implicitProducerHash[r])
        BY <1>0, <1>m, <2>2, <2>r DEF TablesRight
      <3>2. r \in Queues /\ ChainFrom(implicitProducerHash[r]) \subseteq Tables
        BY <2>2, ChainsTyped
      <3>3. Tokenless(r)' = Tokenless(r)
        BY <2>c, <2>e, <3>1, <3>2 DEF Tokenless
      <3> QED
        BY <1>5, <2>2, <2>r, <3>2, <3>3 DEF TablesRight
    <2>3. Tokenless(q)' = Implicit(q)'
      <3>1. ChainFrom(main) \subseteq Tables
        BY <1>0, <1>m, ChainsTyped
      <3>2. \A x \in Producers : x \in Tokenless(q) <=>
               \E h \in ChainFrom(main) : \E v \in Writers : entries[h][v] = x
        BY <1>p DEF Tokenless
      <3>3. \A x \in Producers : x \in Tokenless(q)' <=>
               \E h \in ChainFrom(main) : \E v \in Writers : entries'[h][v] = x
        BY <1>p, <2>c DEF Tokenless
      <3>4. p \in Tokenless(q)'
        BY <1>p, <1>m, <2>e, <3>3
      <3>5. ASSUME NEW x \in Producers, x # p PROVE x \in Tokenless(q)' <=> x \in Tokenless(q)
        <4>1. \A h \in ChainFrom(main) : \A v \in Writers :
                 entries'[h][v] = x <=> entries[h][v] = x
          BY <1>0, <2>e, <3>1, <3>5, NobodyApart
        <4> QED
          BY <3>2, <3>3, <4>1
      <3>6. Tokenless(q)' \subseteq Producers /\ Tokenless(q) \subseteq Producers
        BY DEF Tokenless
      <3>7. Tokenless(q) = Implicit(q) /\ Implicit(q)' = Implicit(q) \cup {p} /\ p \in Producers
        BY <1>p, <1>0, <1>5, <2>r DEF TablesRight
      <3> QED
        BY <3>4, <3>5, <3>6, <3>7
    <2>4. \A h \in Tables : entries'[h] # NoEntries =>
             \E r \in constructed : h \in ChainFrom(implicitProducerHash[r])
      BY <1>0, <1>m, <2>e, <2>r DEF TablesRight
    <2> QED
      BY <1>0, <2>1, <2>c, <2>2, <2>3, <2>4, <2>r DEF TablesRight
  <1> QED
    BY <1>1, <1>2, <1>3, <1>6, <1>7 DEF Good, OwnershipInv

-----------------------------------------------------------------------------
(* Queue objects *)

LEMMA EnlargeKeeps ==
    ASSUME Good, NEW q \in Queues, Enlarge(q)
    PROVE  Good'
  <1>p. PICK h \in Allocated :
           /\ FreshTable(h)
           /\ prev' = [prev EXCEPT ![h] = implicitProducerHash[q]]
           /\ entries' = [entries EXCEPT ![h] = NoEntries]
           /\ implicitProducerHash' = [implicitProducerHash EXCEPT ![q] = h]
    BY DEF Enlarge
  <1>0. /\ q \in constructed /\ constructed \subseteq Queues
        /\ UNCHANGED <<constructed, producerList, producerCount, initialBlockPool,
                       implicitProducerHashCount, isExplicit, inactive, parent, tokenOf,
                       pool, tpc, producer, queue, position>>
    BY DEF Enlarge, lists, producers, tokens, Good, TypeOK
  <1>h. h \in Tables /\ h \notin Queues /\ h # Nobody /\ h \notin UsedTables
    BY <1>p, NobodyApart DEF FreshTable
  <1>t. NoEntries \in [Writers -> Producers \cup {Nobody}]
    BY DEF NoEntries
  <1>1. TypeOK'
    <2>1. implicitProducerHash[q] \in Tables \cup {Nobody}
      BY DEF Good, TypeOK
    <2>2. /\ prev' \in [Tables -> Tables \cup {Nobody}]
          /\ implicitProducerHash' \in [Queues -> Tables \cup {Nobody}]
      BY <1>p, <1>h, <2>1 DEF Good, TypeOK
    <2>3. entries' \in [Tables -> [Writers -> Producers \cup {Nobody}]]
      BY <1>p, <1>h, <1>t DEF Good, TypeOK
    <2> QED
      BY <1>0, <2>2, <2>3 DEF Good, TypeOK
  <1>2. ASSUME NEW u \in Tokens PROVE TokenRight(u)'
    <2>1. TokenRight(u)
      BY DEF Good, OwnershipInv
    <2>2. producer[u] # Nobody => \A x \in Tokens \ {u} : producer'[x] # producer[u]
      BY <1>0, <2>1 DEF TokenRight
    <2> QED
      BY <1>0, <2>1, <2>2, TokenStays DEF Listed
  <1>3. ProducersRight'
    BY <1>0 DEF Good, OwnershipInv, ProducersRight
  <1>4. \A r \in Queues : BeingLinked(r)' = BeingLinked(r)
    BY <1>0 DEF BeingLinked
  <1>5. \A r \in Queues : ListRight(r)' /\ Implicit(r)' = Implicit(r)
    BY <1>0, <1>4, ListsStay DEF Good, OwnershipInv
  <1>6. TablesRight'
    <2> DEFINE C(r) == ChainFrom(implicitProducerHash[r])
    <2>1. ASSUME NEW r \in constructed PROVE h \notin C(r)
      <3>1. SUFFICES ASSUME h \in C(r) PROVE FALSE
        OBVIOUS
      <3>2. r \in Queues /\ implicitProducerHash[r] \in Tables /\ C(r) \subseteq Tables
            /\ prev \in [Tables -> Tables \cup {Nobody}]
        BY ChainsTyped
      <3>3. h = implicitProducerHash[r] \/ \E f \in C(r) : prev[f] = h
        BY <3>1, <3>2, ReachedBehind DEF ChainFrom
      <3> QED
        BY <1>h, <3>2, <3>3 DEF UsedTables
    <2>2. ASSUME NEW r \in constructed
          PROVE  Reached(prev', implicitProducerHash[r]) = C(r)
      <3>1. r \in Queues /\ implicitProducerHash[r] \in Tables /\ C(r) \subseteq Tables
            /\ prev \in [Tables -> Tables \cup {Nobody}]
            /\ prev' \in [Tables -> Tables \cup {Nobody}]
        BY <1>1, ChainsTyped DEF TypeOK
      <3>2. \A f \in C(r) : prev'[f] = prev[f]
        BY <1>p, <2>1, <3>1
      <3> QED
        BY <3>1, <3>2, ReachedSame DEF ChainFrom
    <2>3. ASSUME NEW r \in constructed, r # q PROVE C(r)' = C(r)
      <3>1. implicitProducerHash'[r] = implicitProducerHash[r]
        BY <1>p, <1>0, <2>3 DEF Good, TypeOK
      <3> QED
        BY <2>2, <3>1 DEF ChainFrom
    <2>4. C(q)' = C(q) \cup {h}
      <3>1. implicitProducerHash'[q] = h /\ implicitProducerHash[q] \in Tables
            /\ prev \in [Tables -> Tables \cup {Nobody}]
        BY <1>p, <1>0, ChainsTyped DEF Good, TypeOK
      <3>2. h \notin Reached(prev, implicitProducerHash[q])
        BY <1>0, <2>1 DEF ChainFrom
      <3>3. PICK k, to : k = implicitProducerHash[q] /\ to = prev'
        OBVIOUS
      <3>4. /\ prev \in [Tables -> Tables \cup {Nobody}] /\ k \in Tables /\ h \in Tables
            /\ h \notin Reached(prev, k) /\ to \in [Tables -> Tables \cup {Nobody}]
            /\ to[h] = k /\ \A g \in Tables : g # h => to[g] = prev[g]
        BY <1>p, <1>h, <3>1, <3>2, <3>3
      <3>5. \A g : g \in Reached(to, h) <=> g \in Reached(prev, k) \/ g = h
        BY ONLY <3>4, ReachedInFront
      <3>6. C(q)' = Reached(to, h) /\ C(q) = Reached(prev, k)
        BY <3>1, <3>3 DEF ChainFrom
      <3> QED
        BY <3>5, <3>6
    <2>r. TablesRight
      BY DEF Good, OwnershipInv
    <2>5. \A r \in Queues : prev'[r] = Nobody
      BY <1>p, <1>h, <2>r, NobodyApart DEF TablesRight, Good, TypeOK
    <2>6. \A r \in Queues : implicitProducerHash'[r] # Nobody <=> r \in constructed
      BY <1>p, <1>0, <1>h, <2>r DEF TablesRight, Good, TypeOK
    <2>7. \A r \in constructed : C(r)' \cap Queues = {r}
      BY <1>h, <2>3, <2>4, <2>r DEF TablesRight
    <2>8. \A r, s \in constructed : r # s => C(r)' \cap C(s)' = {}
      <3>1. \A r, s \in constructed : r # s => C(r) \cap C(s) = {}
        BY <2>r DEF TablesRight
      <3> QED
        BY <2>1, <2>3, <2>4, <3>1
    <2>e. entries'[h] = NoEntries /\ \A f \in Tables : f # h => entries'[f] = entries[f]
      BY <1>p, <1>h DEF Good, TypeOK
    <2>9. \A f \in Tables : entries'[f] # NoEntries => \E r \in constructed : f \in C(r)'
      BY <2>e, <2>3, <2>4, <2>r DEF TablesRight
    <2>10. ASSUME NEW r \in constructed PROVE Tokenless(r)' = Tokenless(r)
      <3>1. \A f \in C(r)' : f # h => f \in C(r)
        BY <2>3, <2>4
      <3>2. \A f \in C(r) : f \in C(r)' /\ f # h /\ f \in Tables
        BY <2>1, <2>3, <2>4, ChainsTyped
      <3>3. \A f \in C(r) : entries'[f] = entries[f]
        BY <2>e, <3>2
      <3>4. \A x \in Producers : \A w \in Writers : entries'[h][w] # x
        BY <2>e, NobodyApart DEF NoEntries
      <3>5. \A x \in Producers : x \in Tokenless(r)' <=> x \in Tokenless(r)
        BY <3>1, <3>2, <3>3, <3>4 DEF Tokenless
      <3> QED
        BY <3>5 DEF Tokenless
    <2>11. \A r \in constructed : Tokenless(r)' = Implicit(r)'
      BY <1>0, <1>5, <2>10, <2>r DEF TablesRight
    <2> QED
      BY <1>0, <2>5, <2>6, <2>7, <2>8, <2>9, <2>11 DEF TablesRight
  <1> QED
    BY <1>1, <1>2, <1>3, <1>5, <1>6 DEF Good, OwnershipInv

\* Between tokens' constructors and destructors there is little to know of a token.
LEMMA TokenIsQuiet ==
    ASSUME NEW u \in Tokens, TokenRight(u), tpc[u] \in {"valid", "invalid"},
           tpc'[u] = tpc[u], producer'[u] = producer[u], queue'[u] = queue[u],
           tpc[u] = "valid" =>
              /\ \E q \in constructed' : producer[u] \in Listed(q)'
              /\ isExplicit'[producer[u]] = isExplicit[producer[u]]
              /\ inactive'[producer[u]] = inactive[producer[u]]
              /\ tokenOf'[producer[u]] = tokenOf[producer[u]]
              /\ \A t \in Tokens \ {u} : producer'[t] # producer[u]
    PROVE  TokenRight(u)'
  BY DEF TokenRight

LEMMA NoneLinked ==
    ASSUME \A t \in Tokens : tpc[t] \in {"valid", "invalid"}
    PROVE  \A q : BeingLinked(q) = {}
  BY DEF BeingLinked

\* The tables of the queues in D, whose chains start where hash says, are apart.
Tabled(D, hash, ent) ==
    /\ \A q \in Queues : hash[q] # Nobody <=> q \in D
    /\ \A q \in D : ChainFrom(hash[q]) \cap Queues = {q}
    /\ \A q, r \in D : q # r => ChainFrom(hash[q]) \cap ChainFrom(hash[r]) = {}
    /\ \A h \in Tables : ent[h] # NoEntries => \E q \in D : h \in ChainFrom(hash[q])

EntriesOf(q, hash, ent) ==
    {p \in Producers : \E h \in ChainFrom(hash[q]) : \E w \in Writers : ent[h][w] = p}

LEMMA TablesWillBeTabled ==
    ASSUME NEW hash, hash = implicitProducerHash', NEW ent, ent = entries',
           NEW D, D = constructed', NEW up, up = prev',
           \A q \in Queues : up[q] = Nobody,
           \A q \in Queues : hash[q] # Nobody <=> q \in D,
           \A q \in D : Reached(up, hash[q]) \cap Queues = {q},
           \A q, r \in D : q # r => Reached(up, hash[q]) \cap Reached(up, hash[r]) = {},
           \A h \in Tables : ent[h] # NoEntries => \E q \in D : h \in Reached(up, hash[q]),
           \A q \in D : \A p \in Producers :
              p \in Implicit(q)' <=>
                 \E h \in Reached(up, hash[q]) : \E w \in Writers : ent[h][w] = p,
           \A q \in D : Implicit(q)' \subseteq Producers
    PROVE  TablesRight'
  <1>1. \A q \in D : ChainFrom(implicitProducerHash[q])' = Reached(up, hash[q])
    BY DEF ChainFrom
  <1>2. ASSUME NEW q \in D PROVE Tokenless(q)' = Implicit(q)'
    <2>1. \A p : p \in Tokenless(q)' <=> p \in Producers /\
             \E h \in Reached(up, hash[q]) : \E w \in Writers : ent[h][w] = p
      BY <1>1 DEF Tokenless
    <2>2. \A p : p \in Tokenless(q)' <=> p \in Implicit(q)'
      BY <2>1
    <2>3. \A S, T : (\A p : p \in S <=> p \in T) => S = T
      OBVIOUS
    <2> QED
      BY <2>2, <2>3
  <1> QED
    BY <1>1, <1>2 DEF TablesRight

\* What a new queue object starts with: the table inside it, empty.
HasNewTable(q, hash, ent) ==
    /\ q \in Queues /\ q \notin constructed
    /\ hash[q] = q /\ \A r \in Queues : r # q => hash[r] = implicitProducerHash[r]
    /\ ent[q] = NoEntries /\ \A h \in Tables : h # q => ent[h] = entries[h]

\* The table inside a new queue object is nobody else's.
LEMMA NewTable ==
    ASSUME Good, NEW q, NEW hash, NEW ent, HasNewTable(q, hash, ent)
    PROVE  /\ Tabled(constructed \cup {q}, hash, ent)
           /\ \A r \in constructed \cup {q} : EntriesOf(r, hash, ent) = Implicit(r)
  <1> DEFINE C(r) == ChainFrom(implicitProducerHash[r])
             D == constructed \cup {q}
  <1>0. /\ q \in Queues /\ q \notin constructed
        /\ hash[q] = q /\ \A r \in Queues : r # q => hash[r] = implicitProducerHash[r]
        /\ ent[q] = NoEntries /\ \A h \in Tables : h # q => ent[h] = entries[h]
    BY DEF HasNewTable
  <1> USE <1>0
  <1>q. q \in Tables /\ q # Nobody /\ constructed \subseteq Queues
    BY NobodyApart DEF Good, TypeOK
  <1>r. TablesRight
    BY DEF Good, OwnershipInv
  <1>3. prev \in [Tables -> Tables \cup {Nobody}] /\ prev[q] = Nobody
    BY <1>q, <1>r DEF TablesRight, Good, TypeOK
  <1>4. ChainFrom(hash[q]) = {q}
    BY <1>q, <1>3, ReachedAlone DEF ChainFrom
  <1>5. ASSUME NEW r \in constructed
        PROVE  hash[r] = implicitProducerHash[r] /\ r # q /\ q \notin C(r)
               /\ C(r) \subseteq Tables /\ C(r) \cap Queues = {r}
    <2>1. r # q /\ C(r) \cap Queues = {r} /\ r \in Queues /\ C(r) \subseteq Tables
      BY ChainsTyped
    <2> QED
      BY <2>1 DEF Good, TypeOK
  <1>6. \A r \in Queues : hash[r] # Nobody <=> r \in D
    BY <1>q, <1>r DEF TablesRight, Good, TypeOK
  <1>7. \A r \in D : ChainFrom(hash[r]) \cap Queues = {r}
    BY <1>4, <1>5
  <1>8. \A r, s \in D : r # s => ChainFrom(hash[r]) \cap ChainFrom(hash[s]) = {}
    <2>1. \A r, s \in constructed : r # s => C(r) \cap C(s) = {}
      BY <1>r DEF TablesRight
    <2>2. \A r \in constructed : q \notin ChainFrom(hash[r])
      BY <1>5
    <2>3. \A r, s \in constructed : r # s => ChainFrom(hash[r]) \cap ChainFrom(hash[s]) = {}
      BY <1>5, <2>1
    <2> QED
      BY <1>4, <2>2, <2>3
  <1>9. ASSUME NEW f \in Tables, ent[f] # NoEntries
        PROVE  \E r \in D : f \in ChainFrom(hash[r])
    <2>1. PICK r \in constructed : f \in C(r)
      BY <1>9, <1>r DEF TablesRight
    <2> QED
      BY <1>5, <2>1
  <1>10. ASSUME NEW r \in constructed PROVE EntriesOf(r, hash, ent) = Implicit(r)
    <2>1. \A f \in C(r) : ent[f] = entries[f]
      BY <1>5
    <2>2. EntriesOf(r, hash, ent) = Tokenless(r)
      BY <1>5, <2>1 DEF Tokenless, EntriesOf
    <2> QED
      BY <1>r, <2>2 DEF TablesRight
  <1>11. EntriesOf(q, hash, ent) = Implicit(q)
    <2>1. Implicit(q) = {}
      <3>1. producerList[q] = <<>>
        BY DEF Good, OwnershipInv, ListRight
      <3>2. Listed(q) = {}
        BY <3>1 DEF Listed, ToSet
      <3> QED
        BY <3>2 DEF Implicit
    <2>2. \A w \in Writers : ent[q][w] = Nobody
      BY DEF NoEntries
    <2>3. EntriesOf(q, hash, ent) = {}
      BY <1>4, <2>2, NobodyApart DEF EntriesOf
    <2> QED
      BY <2>1, <2>3
  <1> QED
    BY <1>6, <1>7, <1>8, <1>9, <1>10, <1>11 DEF Tabled

LEMMA ConstructKeeps ==
    ASSUME Good, NEW q \in Queues, Construct(q)
    PROVE  Good'
  <1>p. PICK own \in Queues : initialBlockPool' = [initialBlockPool EXCEPT ![q] = own]
    BY DEF Construct
  <1>0. /\ q \notin constructed /\ constructed' = constructed \cup {q}
        /\ constructed \subseteq Queues
        /\ \A t \in Tokens : tpc[t] \in {"valid", "invalid"}
        /\ producerList' = [producerList EXCEPT ![q] = <<>>]
        /\ producerCount' = [producerCount EXCEPT ![q] = 0]
        /\ implicitProducerHash' = [implicitProducerHash EXCEPT ![q] = q]
        /\ implicitProducerHashCount' = [implicitProducerHashCount EXCEPT ![q] = 0]
        /\ entries' = [entries EXCEPT ![q] = NoEntries]
        /\ prev' = [prev EXCEPT ![q] = Nobody]
        /\ UNCHANGED <<isExplicit, inactive, parent, tokenOf, pool, tpc, producer, queue,
                       position>>
    BY DEF Construct, Quiet, producers, tokens, Good, TypeOK
  <1>q. q \in Tables /\ q # Nobody
    BY NobodyApart
  <1>l. /\ producerList[q] = <<>> /\ producerList' = producerList
        /\ \A r \in Queues : Listed(r)' = Listed(r)
        /\ Listed(q) = {}
    <2>1. producerList[q] = <<>>
      BY <1>0 DEF Good, OwnershipInv, ListRight
    <2>2. producerList' = producerList
      BY <1>0, <2>1 DEF Good, TypeOK
    <2> QED
      BY <2>1, <2>2 DEF Listed, ToSet
  <1>1. TypeOK'
    <2>1. /\ initialBlockPool' \in [Queues -> Queues \cup {Nobody}]
          /\ producerCount' \in [Queues -> Nat]
          /\ implicitProducerHashCount' \in [Queues -> Nat]
          /\ implicitProducerHash' \in [Queues -> Tables \cup {Nobody}]
          /\ prev' \in [Tables -> Tables \cup {Nobody}]
      BY <1>0, <1>p, <1>q DEF Good, TypeOK
    <2>2. entries' \in [Tables -> [Writers -> Producers \cup {Nobody}]]
      <3>1. NoEntries \in [Writers -> Producers \cup {Nobody}]
        BY DEF NoEntries
      <3> QED
        BY <1>0, <1>q, <3>1 DEF Good, TypeOK
    <2> QED
      BY <1>0, <1>l, <2>1, <2>2 DEF Good, TypeOK
  <1>2. ASSUME NEW u \in Tokens PROVE TokenRight(u)'
    <2>1. TokenRight(u)
      BY DEF Good, OwnershipInv
    <2>2. tpc[u] = "valid" => \E r \in constructed' : producer[u] \in Listed(r)'
      BY <1>0, <1>l, <2>1 DEF TokenRight
    <2>3. tpc[u] = "valid" => \A x \in Tokens \ {u} : producer'[x] # producer[u]
      BY <1>0, <2>1 DEF TokenRight
    <2> QED
      BY <1>0, <2>1, <2>2, <2>3, TokenIsQuiet
  <1>3. ProducersRight'
    BY <1>0 DEF Good, OwnershipInv, ProducersRight
  <1>4. \A r \in Queues : BeingLinked(r)' = {} /\ BeingLinked(r) = {}
    BY <1>0, NoneLinked DEF BeingLinked
  <1>5. \A r \in Queues : Implicit(r)' = Implicit(r)
    BY <1>0, <1>l DEF Implicit
  <1>6. ASSUME NEW r \in Queues PROVE ListRight(r)'
    <2>1. ListRight(r)
      BY DEF Good, OwnershipInv
    <2>2. \A x \in Queues \ {r} : Listed(r)' \cap Listed(x)' = {}
      BY <1>l, <2>1 DEF ListRight
    <2>3. CASE r # q
      <3>1. /\ producerCount'[r] = producerCount[r]
            /\ implicitProducerHashCount'[r] = implicitProducerHashCount[r]
            /\ initialBlockPool'[r] = initialBlockPool[r]
            /\ Listed(r)' = Listed(r)
            /\ Implicit(r)' = Implicit(r) /\ BeingLinked(r)' = BeingLinked(r)
        BY <1>0, <1>p, <1>l, <1>4, <1>5, <2>3 DEF Good, TypeOK
      <3> QED
        BY <1>0, <1>l, <2>1, <2>2, <2>3, <3>1 DEF ListRight
    <2>4. CASE r = q
      <3>1. /\ producerCount'[r] = 0 /\ implicitProducerHashCount'[r] = 0
            /\ Listed(r)' = {} /\ BeingLinked(r)' = {}
        BY <1>0, <1>l, <1>4, <2>4 DEF Good, TypeOK
      <3>2. Implicit(r)' = {}
        BY <3>1 DEF Implicit
      <3>3. Listed(r)' \cup BeingLinked(r)' = {}
        BY <3>1
      <3>4. Cardinality(Implicit(r)') = 0 /\ Cardinality(Listed(r)' \cup BeingLinked(r)') = 0
        BY <3>2, <3>3, FS_EmptySet
      <3>5. r \in constructed' /\ IsInjective(producerList'[r])
        BY <1>0, <1>l, <2>1, <2>4 DEF ListRight
      <3> QED
        BY <2>2, <3>1, <3>4, <3>5 DEF ListRight
    <2> QED
      BY <2>3, <2>4
  <1>7. TablesRight'
    <2>r. TablesRight
      BY DEF Good, OwnershipInv
    <2>1. prev' = prev /\ \A r \in Queues : prev'[r] = Nobody
      BY <1>0, <1>q, <2>r, NobodyApart DEF TablesRight, Good, TypeOK
    <2>2. PICK hash, ent, D : hash = implicitProducerHash' /\ ent = entries' /\ D = constructed'
      OBVIOUS
    <2>3. Tabled(D, hash, ent) /\ \A r \in D : EntriesOf(r, hash, ent) = Implicit(r)
      <3>1. /\ q \notin constructed /\ D = constructed \cup {q}
            /\ hash[q] = q /\ \A r \in Queues : r # q => hash[r] = implicitProducerHash[r]
            /\ ent[q] = NoEntries /\ \A h \in Tables : h # q => ent[h] = entries[h]
        BY <1>0, <1>q, <2>2 DEF Good, TypeOK
      <3>2. /\ Tabled(constructed \cup {q}, hash, ent)
            /\ \A r \in constructed \cup {q} : EntriesOf(r, hash, ent) = Implicit(r)
        <4>1. HasNewTable(q, hash, ent)
          BY <3>1 DEF HasNewTable
        <4> QED
          BY <4>1, NewTable
      <3> QED
        BY <3>1, <3>2
    <2>4. \A r \in D : r \in Queues /\ Implicit(r)' = Implicit(r)
      BY <1>0, <1>5, <2>2
    <2>5. \A r \in D : \A p \in Producers : p \in Implicit(r)' <=>
             \E h \in Reached(prev, hash[r]) : \E w \in Writers : ent[h][w] = p
      BY <2>3, <2>4 DEF EntriesOf, ChainFrom
    <2>6. \A r \in D : Implicit(r)' \subseteq Producers
      BY <2>3, <2>4 DEF EntriesOf
    <2> QED
      BY <2>1, <2>2, <2>3, <2>5, <2>6, TablesWillBeTabled DEF Tabled, ChainFrom
  <1> QED
    BY <1>1, <1>2, <1>3, <1>6, <1>7 DEF Good, OwnershipInv

ChainsApart(D, to, main) ==
    \A s, z \in D : s # z => Reached(to, main[s]) \cap Reached(to, main[z]) = {}

\* The hash pointers, entries and links of the queues in D, before and after q and r
\* have exchanged theirs.
Exchanged(D, hash, ent, q, r, to, main, new) ==
    /\ prev \in [Tables -> Tables \cup {Nobody}] /\ \A s \in Queues : prev[s] = Nobody
    /\ D \in SUBSET Queues /\ Tabled(D, hash, ent) /\ \A s \in D : hash[s] \in Tables
    /\ q \in D /\ r \in D /\ q # r
    /\ to \in [Tables -> Tables \cup {Nobody}]
    /\ \A h \in ChainFrom(hash[r]) : to[h] = Redirect(prev[h], r, q)
    /\ \A h \in ChainFrom(hash[q]) : to[h] = Redirect(prev[h], q, r)
    /\ \A h \in Tables : h \notin ChainFrom(hash[q]) /\ h \notin ChainFrom(hash[r]) =>
          to[h] = prev[h]
    /\ main[q] = Redirect(hash[r], r, q) /\ main[r] = Redirect(hash[q], q, r)
    /\ \A s \in D : s # q /\ s # r => main[s] = hash[s]
    /\ new[q] = ent[r] /\ new[r] = ent[q]
    /\ \A h \in Tables : h # q /\ h # r => new[h] = ent[h]

\* Swapping the tables of two queues, where hash and ent are the pointers and entries
\* before: each gets the other's chain, but for the table inside it, which gets the
\* entries of the other's.
LEMMA SwapTables ==
    ASSUME NEW D, NEW hash, NEW ent, NEW q, NEW r, NEW to, NEW main, NEW new,
           Exchanged(D, hash, ent, q, r, to, main, new)
    PROVE  /\ \A s \in D : main[s] \in Tables
           /\ \A s \in Queues : to[s] = Nobody
           /\ \A s \in D : Reached(to, main[s]) \cap Queues = {s}
           /\ ChainsApart(D, to, main)
           /\ \A h \in Tables : new[h] # NoEntries => \E s \in D : h \in Reached(to, main[s])
           /\ \A p \in Producers :
                 /\ p \in EntriesOf(r, hash, ent) <=>
                       \E h \in Reached(to, main[q]) : \E w \in Writers : new[h][w] = p
                 /\ p \in EntriesOf(q, hash, ent) <=>
                       \E h \in Reached(to, main[r]) : \E w \in Writers : new[h][w] = p
                 /\ \A s \in D : s # q /\ s # r =>
                       (p \in EntriesOf(s, hash, ent) <=>
                           \E h \in Reached(to, main[s]) : \E w \in Writers : new[h][w] = p)
  <1>0. /\ prev \in [Tables -> Tables \cup {Nobody}] /\ \A s \in Queues : prev[s] = Nobody
        /\ D \in SUBSET Queues /\ Tabled(D, hash, ent) /\ \A s \in D : hash[s] \in Tables
        /\ q \in D /\ r \in D /\ q # r
        /\ to \in [Tables -> Tables \cup {Nobody}]
        /\ \A h \in ChainFrom(hash[r]) : to[h] = Redirect(prev[h], r, q)
        /\ \A h \in ChainFrom(hash[q]) : to[h] = Redirect(prev[h], q, r)
        /\ \A h \in Tables : h \notin ChainFrom(hash[q]) /\ h \notin ChainFrom(hash[r]) =>
              to[h] = prev[h]
        /\ main[q] = Redirect(hash[r], r, q) /\ main[r] = Redirect(hash[q], q, r)
        /\ \A s \in D : s # q /\ s # r => main[s] = hash[s]
        /\ new[q] = ent[r] /\ new[r] = ent[q]
        /\ \A h \in Tables : h # q /\ h # r => new[h] = ent[h]
    BY DEF Exchanged
  <1> USE <1>0
  <1> DEFINE C(s) == ChainFrom(hash[s])
             N(s) == Reached(to, main[s])
  <1>1. ASSUME NEW s \in D
        PROVE  /\ s \in Queues /\ s \in Tables /\ C(s) \subseteq Tables /\ hash[s] \in C(s)
               /\ C(s) = Reached(prev, hash[s]) /\ s \in C(s) /\ prev[s] = Nobody
               /\ \A x \in Queues : x \in C(s) => x = s
    <2>1. s \in Queues /\ C(s) \cap Queues = {s} /\ hash[s] \in Tables
      BY DEF Tabled
    <2>2. C(s) \subseteq Tables /\ hash[s] \in C(s)
      BY <2>1, ReachedClosed DEF ChainFrom
    <2> QED
      BY <2>1, <2>2, NobodyApart DEF ChainFrom
  <1>2. \A s, z \in D : s # z => C(s) \cap C(z) = {}
    BY DEF Tabled
  <1>3. \A s \in Queues : to[s] = Nobody
    <2>1. ASSUME NEW s \in Queues PROVE to[s] = Nobody
      <3>1. prev[s] = Nobody /\ s \in Tables
        BY NobodyApart
      <3>2. to[s] = Nobody
        BY <3>1, <1>1, NobodyApart DEF Redirect
      <3> QED
        BY <3>2
    <2> QED
      BY <2>1
  <1>4. main[q] \in Tables /\ \A g : g \in N(q) <=> (g \in C(r) /\ g # r) \/ g = q
    <2>1. PICK h : h = hash[r] /\ main[q] = Redirect(h, r, q)
      OBVIOUS
    <2>2. /\ prev \in [Tables -> Tables \cup {Nobody}]
          /\ to \in [Tables -> Tables \cup {Nobody}]
          /\ h \in Tables /\ q \in Tables /\ r \in Reached(prev, h) /\ q \notin Reached(prev, h)
          /\ prev[r] = Nobody /\ to[q] = Nobody
          /\ \A f \in Reached(prev, h) \ {r} : to[f] = Redirect(prev[f], r, q)
      BY <1>1, <1>2, <1>3, <2>1 DEF ChainFrom
    <2>e. EndReplaced(prev, to, h, q, r)
      BY ONLY <2>2 DEF EndReplaced
    <2>3. Redirect(h, r, q) \in Tables
      BY ONLY <2>e, ReachedRedirected
    <2>4. \A g : g \in Reached(to, Redirect(h, r, q)) <=>
                    (g \in Reached(prev, h) /\ g # r) \/ g = q
      BY ONLY <2>e, ReachedRedirected
    <2> QED
      BY <2>1, <2>3, <2>4 DEF ChainFrom
  <1>5. main[r] \in Tables /\ \A g : g \in N(r) <=> (g \in C(q) /\ g # q) \/ g = r
    <2>1. PICK h : h = hash[q] /\ main[r] = Redirect(h, q, r)
      OBVIOUS
    <2>2. /\ prev \in [Tables -> Tables \cup {Nobody}]
          /\ to \in [Tables -> Tables \cup {Nobody}]
          /\ h \in Tables /\ r \in Tables /\ q \in Reached(prev, h) /\ r \notin Reached(prev, h)
          /\ prev[q] = Nobody /\ to[r] = Nobody
          /\ \A f \in Reached(prev, h) \ {q} : to[f] = Redirect(prev[f], q, r)
      BY <1>1, <1>2, <1>3, <2>1 DEF ChainFrom
    <2>e. EndReplaced(prev, to, h, r, q)
      BY ONLY <2>2 DEF EndReplaced
    <2>3. Redirect(h, q, r) \in Tables
      BY ONLY <2>e, ReachedRedirected
    <2>4. \A g : g \in Reached(to, Redirect(h, q, r)) <=>
                    (g \in Reached(prev, h) /\ g # q) \/ g = r
      BY ONLY <2>e, ReachedRedirected
    <2> QED
      BY <2>1, <2>3, <2>4 DEF ChainFrom
  <1>6. ASSUME NEW s \in D, s # q, s # r PROVE N(s) = C(s) /\ main[s] \in Tables
    <2>1. \A f \in C(s) : f \in Tables /\ f \notin C(q) /\ f \notin C(r)
      BY <1>1, <1>2, <1>6
    <2>2. \A f \in Reached(prev, hash[s]) : to[f] = prev[f]
      BY <1>1, <2>1
    <2>3. main[s] = hash[s] /\ hash[s] \in Tables
      BY <1>6
    <2>4. Reached(to, hash[s]) = Reached(prev, hash[s])
      BY <2>2, <2>3, ReachedSame
    <2> QED
      BY <1>1, <2>3, <2>4
  <1>7. \A s \in D : N(s) \cap Queues = {s}
    BY <1>1, <1>4, <1>5, <1>6
  <1>8. ASSUME NEW s \in D, NEW z \in D, s # z PROVE N(s) \cap N(z) = {}
    <2>1. C(q) \cap C(r) = {} /\ q \notin C(r) /\ r \notin C(q)
      BY <1>1, <1>2
    <2>2. N(q) \cap N(r) = {}
      BY <1>4, <1>5, <2>1
    <2>3. \A x \in D : x # q /\ x # r =>
             /\ C(x) \cap C(q) = {} /\ C(x) \cap C(r) = {} /\ q \notin C(x) /\ r \notin C(x)
      BY <1>1, <1>2
    <2>4. \A x \in D : x # q /\ x # r => N(x) \cap N(q) = {} /\ N(x) \cap N(r) = {}
      BY <1>4, <1>5, <1>6, <2>3
    <2> QED
      BY <1>2, <1>6, <1>8, <2>2, <2>4
  <1>9. ASSUME NEW h \in Tables, new[h] # NoEntries PROVE \E s \in D : h \in N(s)
    <2>1. CASE h = q \/ h = r
      BY <1>4, <1>5, <2>1
    <2>2. CASE h # q /\ h # r
      <3>1. PICK s \in D : h \in C(s)
        BY <1>9, <2>2 DEF Tabled
      <3> QED
        BY <1>4, <1>5, <1>6, <2>2, <3>1
    <2> QED
      BY <2>1, <2>2
  <1>10. ASSUME NEW p \in Producers
         PROVE  p \in EntriesOf(r, hash, ent) <=>
                   \E h \in N(q) : \E w \in Writers : new[h][w] = p
    <2>1. p \in EntriesOf(r, hash, ent) <=> \E h \in C(r) : \E w \in Writers : ent[h][w] = p
      BY DEF EntriesOf
    <2>2. \A h \in C(r) : h # r => h \in N(q) /\ new[h] = ent[h]
      BY <1>1, <1>2, <1>4
    <2>3. \A h \in N(q) : h # q => h \in C(r) /\ h # r /\ new[h] = ent[h]
      BY <1>1, <1>2, <1>4
    <2>4. q \in N(q) /\ r \in C(r) /\ new[q] = ent[r]
      BY <1>1, <1>4
    <2> QED
      BY <2>1, <2>2, <2>3, <2>4
  <1>11. ASSUME NEW p \in Producers
         PROVE  p \in EntriesOf(q, hash, ent) <=>
                   \E h \in N(r) : \E w \in Writers : new[h][w] = p
    <2>1. p \in EntriesOf(q, hash, ent) <=> \E h \in C(q) : \E w \in Writers : ent[h][w] = p
      BY DEF EntriesOf
    <2>2. \A h \in C(q) : h # q => h \in N(r) /\ new[h] = ent[h]
      BY <1>1, <1>2, <1>5
    <2>3. \A h \in N(r) : h # r => h \in C(q) /\ h # q /\ new[h] = ent[h]
      BY <1>1, <1>2, <1>5
    <2>4. r \in N(r) /\ q \in C(q) /\ new[r] = ent[q]
      BY <1>1, <1>5
    <2> QED
      BY <2>1, <2>2, <2>3, <2>4
  <1>12. ASSUME NEW p \in Producers, NEW s \in D, s # q, s # r
         PROVE  p \in EntriesOf(s, hash, ent) <=>
                   \E h \in N(s) : \E w \in Writers : new[h][w] = p
    <2>1. \A h \in C(s) : new[h] = ent[h]
      BY <1>1, <1>2, <1>12
    <2> QED
      BY <1>6, <1>12, <2>1 DEF EntriesOf
  <1> QED
    BY <1>3, <1>4, <1>5, <1>6, <1>7, <1>8, <1>9, <1>10, <1>11, <1>12 DEF ChainsApart

\* Two queues exchange all they have; q may be new, and have nothing.
LEMMA ExchangeKeeps ==
    ASSUME Good, NEW q \in Queues, NEW r \in Queues, q # r, r \in constructed,
           \A t \in Tokens : tpc[t] \in {"valid", "invalid"},
           constructed' = constructed \cup {q},
           producerList' = Swapped(producerList, q, r),
           producerCount' = Swapped(producerCount, q, r),
           initialBlockPool' = Swapped(initialBlockPool, q, r),
           implicitProducerHashCount' = Swapped(implicitProducerHashCount, q, r),
           NEW hash \in [Queues -> Tables \cup {Nobody}],
           NEW ent \in [Tables -> [Writers -> Producers \cup {Nobody}]],
           Tabled(constructed \cup {q}, hash, ent),
           \A s \in constructed \cup {q} : EntriesOf(s, hash, ent) = Implicit(s),
           SwapHashes(q, r, hash, ent),
           Reown(producerList', q, r),
           UNCHANGED <<isExplicit, inactive, tokenOf, pool, tokens>>
    PROVE  Good'
  <1> DEFINE D == constructed \cup {q}
             other(s) == IF s = q THEN r ELSE IF s = r THEN q ELSE s
  <1>0. /\ constructed \subseteq Queues /\ D \in SUBSET Queues /\ constructed' = D
        /\ UNCHANGED <<isExplicit, inactive, tokenOf, pool, tpc, producer, queue, position>>
    BY DEF tokens, Good, TypeOK
  <1>t. /\ producerList \in [Queues -> Seq(Producers)] /\ producerCount \in [Queues -> Nat]
        /\ initialBlockPool \in [Queues -> Queues \cup {Nobody}]
        /\ implicitProducerHashCount \in [Queues -> Nat]
        /\ prev \in [Tables -> Tables \cup {Nobody}]
        /\ q \in Tables /\ r \in Tables
    BY NobodyApart DEF Good, TypeOK
  <1>q. q \in Queues /\ r \in Queues /\ q # r
    OBVIOUS
  <1>l. /\ producerList' \in [Queues -> Seq(Producers)]
        /\ \A s \in Queues : producerList'[s] = producerList[other(s)]
    <2>1. PICK f, g : f = producerList /\ g = producerList'
      OBVIOUS
    <2>2. /\ f \in [Queues -> Seq(Producers)] /\ g = Swapped(f, q, r)
      BY <1>t, <2>1
    <2>3. g = [f EXCEPT ![q] = f[r], ![r] = f[q]]
      BY ONLY <2>2 DEF Swapped
    <2>4. g \in [Queues -> Seq(Producers)]
      BY ONLY <2>2, <2>3, <1>q
    <2>5. g[q] = f[r] /\ g[r] = f[q] /\ \A s \in Queues : s # q /\ s # r => g[s] = f[s]
      BY ONLY <2>2, <2>3, <1>q
    <2>6. \A s \in Queues : g[s] = f[other(s)]
      BY <2>5
    <2> QED
      BY <2>1, <2>4, <2>6
  <1>c. /\ producerCount' \in [Queues -> Nat]
        /\ \A s \in Queues : producerCount'[s] = producerCount[other(s)]
    <2>1. PICK f, g : f = producerCount /\ g = producerCount'
      OBVIOUS
    <2>2. /\ f \in [Queues -> Nat] /\ g = Swapped(f, q, r)
      BY <1>t, <2>1
    <2>3. g = [f EXCEPT ![q] = f[r], ![r] = f[q]]
      BY ONLY <2>2 DEF Swapped
    <2>4. g \in [Queues -> Nat]
      BY ONLY <2>2, <2>3, <1>q
    <2>5. g[q] = f[r] /\ g[r] = f[q] /\ \A s \in Queues : s # q /\ s # r => g[s] = f[s]
      BY ONLY <2>2, <2>3, <1>q
    <2>6. \A s \in Queues : g[s] = f[other(s)]
      BY <2>5
    <2> QED
      BY <2>1, <2>4, <2>6
  <1>i. /\ initialBlockPool' \in [Queues -> Queues \cup {Nobody}]
        /\ \A s \in Queues : initialBlockPool'[s] = initialBlockPool[other(s)]
    <2>1. PICK f, g : f = initialBlockPool /\ g = initialBlockPool'
      OBVIOUS
    <2>2. /\ f \in [Queues -> Queues \cup {Nobody}] /\ g = Swapped(f, q, r)
      BY <1>t, <2>1
    <2>3. g = [f EXCEPT ![q] = f[r], ![r] = f[q]]
      BY ONLY <2>2 DEF Swapped
    <2>4. g \in [Queues -> Queues \cup {Nobody}]
      BY ONLY <2>2, <2>3, <1>q
    <2>5. g[q] = f[r] /\ g[r] = f[q] /\ \A s \in Queues : s # q /\ s # r => g[s] = f[s]
      BY ONLY <2>2, <2>3, <1>q
    <2>6. \A s \in Queues : g[s] = f[other(s)]
      BY <2>5
    <2> QED
      BY <2>1, <2>4, <2>6
  <1>n. /\ implicitProducerHashCount' \in [Queues -> Nat]
        /\ \A s \in Queues : implicitProducerHashCount'[s] = implicitProducerHashCount[other(s)]
    <2>1. PICK f, g : f = implicitProducerHashCount /\ g = implicitProducerHashCount'
      OBVIOUS
    <2>2. /\ f \in [Queues -> Nat] /\ g = Swapped(f, q, r)
      BY <1>t, <2>1
    <2>3. g = [f EXCEPT ![q] = f[r], ![r] = f[q]]
      BY ONLY <2>2 DEF Swapped
    <2>4. g \in [Queues -> Nat]
      BY ONLY <2>2, <2>3, <1>q
    <2>5. g[q] = f[r] /\ g[r] = f[q] /\ \A s \in Queues : s # q /\ s # r => g[s] = f[s]
      BY ONLY <2>2, <2>3, <1>q
    <2>6. \A s \in Queues : g[s] = f[other(s)]
      BY <2>5
    <2> QED
      BY <2>1, <2>4, <2>6
  <1>e. /\ entries' \in [Tables -> [Writers -> Producers \cup {Nobody}]]
        /\ entries'[q] = ent[r] /\ entries'[r] = ent[q]
        /\ \A h \in Tables : h # q /\ h # r => entries'[h] = ent[h]
    <2>1. PICK new : new = entries'
      OBVIOUS
    <2>2. new = Swapped(ent, q, r)
      BY <2>1 DEF SwapHashes
    <2>3. new = [ent EXCEPT ![q] = ent[r], ![r] = ent[q]]
      BY <2>2 DEF Swapped
    <2> QED
      BY <1>t, <1>q, <2>1, <2>3
  <1>o. \A s \in Queues : other(s) \in Queues /\ (s \in D <=> other(s) \in D)
    OBVIOUS
  <1>m. /\ Listed(q)' = Listed(r) /\ Listed(r)' = Listed(q)
        /\ \A s \in Queues : Listed(s)' = Listed(other(s))
    BY <1>l DEF Listed
  <1>x. \A s \in Queues : Implicit(s)' = Implicit(other(s))
    BY <1>0, <1>m DEF Implicit
  <1>b. \A s \in Queues : BeingLinked(s)' = {} /\ BeingLinked(s) = {}
    BY <1>0, NoneLinked DEF BeingLinked
  <1>p. \A s \in Queues : \A p \in Listed(s)' : p \in Producers /\ parent'[p] = s
    <2>1. ASSUME NEW s \in Queues, NEW p \in Listed(s)'
          PROVE  p \in Producers /\ parent'[p] = s
      <3>1. p \in Listed(other(s)) /\ p \in Producers
        BY <1>m, <1>o, <2>1, ListsTyped DEF Good
      <3>2. parent[p] = other(s) /\ \A z \in Queues : z # other(s) => p \notin Listed(z)
        BY <1>o, <3>1 DEF Good, OwnershipInv, ListRight
      <3>3. \A z \in Queues : Contains(producerList'[z], p) <=> p \in Listed(z)'
        <4>1. ASSUME NEW z \in Queues PROVE Contains(producerList'[z], p) <=> p \in Listed(z)'
          <5>1. producerList'[z] \in Seq(Producers)
            BY <1>l
          <5> QED
            BY <5>1 DEF Contains, Listed, ToSet
        <4> QED
          BY <4>1
      <3>4. parent' = [x \in Producers |->
                          CASE Contains(producerList'[q], x) -> q
                            [] Contains(producerList'[r], x) -> r
                            [] OTHER -> parent[x]]
        BY DEF Reown
      <3>5. /\ s = q => Contains(producerList'[q], p) /\ ~Contains(producerList'[r], p)
            /\ s = r => Contains(producerList'[r], p) /\ ~Contains(producerList'[q], p)
            /\ s # q /\ s # r =>
                  ~Contains(producerList'[r], p) /\ ~Contains(producerList'[q], p)
        BY <1>m, <2>1, <3>2, <3>3
      <3>6. s # q /\ s # r => parent[p] = s
        BY <3>2
      <3> QED
        BY <3>1, <3>4, <3>5, <3>6
    <2> QED
      BY <2>1
  <1> HIDE DEF other
  <1>h. PICK to, main, new, set : to = prev' /\ main = implicitProducerHash' /\ new = entries'
                                 /\ set = D
    OBVIOUS
  <1>g. /\ to \in [Tables -> Tables \cup {Nobody}]
        /\ \A h \in ChainFrom(hash[r]) : to[h] = Redirect(prev[h], r, q)
        /\ \A h \in ChainFrom(hash[q]) : to[h] = Redirect(prev[h], q, r)
        /\ \A h \in Tables : h \notin ChainFrom(hash[q]) /\ h \notin ChainFrom(hash[r]) =>
              to[h] = prev[h]
    <2>1. /\ ChainFrom(hash[q]) \subseteq Tables /\ ChainFrom(hash[r]) \subseteq Tables
          /\ ChainFrom(hash[q]) \cap ChainFrom(hash[r]) = {}
      BY DEF Tabled, ChainFrom, Reached
    <2>2. to = [h \in Tables |->
                   CASE h \in ChainFrom(hash[r]) -> Redirect(prev[h], r, q)
                     [] h \in ChainFrom(hash[q]) -> Redirect(prev[h], q, r)
                     [] OTHER -> prev[h]]
      BY <1>h DEF SwapHashes
    <2>3. ASSUME NEW h \in Tables
          PROVE  /\ h \in ChainFrom(hash[r]) => to[h] = Redirect(prev[h], r, q)
                 /\ h \in ChainFrom(hash[q]) => to[h] = Redirect(prev[h], q, r)
                 /\ h \notin ChainFrom(hash[q]) /\ h \notin ChainFrom(hash[r]) => to[h] = prev[h]
                 /\ to[h] \in Tables \cup {Nobody}
      BY <1>t, <2>1, <2>2 DEF Redirect
    <2>4. DOMAIN to = Tables /\ to = [h \in Tables |-> to[h]]
      BY <2>2
    <2> QED
      BY <2>1, <2>3, <2>4
  <1>j. /\ main[q] = Redirect(hash[r], r, q) /\ main[r] = Redirect(hash[q], q, r)
        /\ \A s \in Queues : s # q /\ s # r => main[s] = hash[s]
        /\ main = [s \in Queues |-> main[s]]
    BY <1>h DEF SwapHashes
  <1>k. /\ \A s \in Queues : prev[s] = Nobody
        /\ \A s \in D : hash[s] \in Tables
    BY <1>0 DEF Good, OwnershipInv, TablesRight, Tabled
  <1>s. /\ \A s \in D : main[s] \in Tables
        /\ \A s \in Queues : to[s] = Nobody
        /\ \A s \in D : Reached(to, main[s]) \cap Queues = {s}
        /\ ChainsApart(D, to, main)
        /\ \A h \in Tables : new[h] # NoEntries => \E s \in D : h \in Reached(to, main[s])
        /\ \A p \in Producers :
              /\ p \in EntriesOf(r, hash, ent) <=>
                    \E h \in Reached(to, main[q]) : \E w \in Writers : new[h][w] = p
              /\ p \in EntriesOf(q, hash, ent) <=>
                    \E h \in Reached(to, main[r]) : \E w \in Writers : new[h][w] = p
              /\ \A s \in D : s # q /\ s # r =>
                    (p \in EntriesOf(s, hash, ent) <=>
                        \E h \in Reached(to, main[s]) : \E w \in Writers : new[h][w] = p)
    <2>1. /\ set \in SUBSET Queues /\ q \in set /\ r \in set /\ Tabled(set, hash, ent)
          /\ \A s \in set : hash[s] \in Tables
          /\ \A s \in set : s # q /\ s # r => main[s] = hash[s]
      BY <1>0, <1>h, <1>j, <1>k
    <2>2. /\ new[q] = ent[r] /\ new[r] = ent[q]
          /\ \A h \in Tables : h # q /\ h # r => new[h] = ent[h]
      BY <1>e, <1>h
    <2>3. q # r
      OBVIOUS
    <2>4. set = D
      BY <1>h
    <2>5. prev \in [Tables -> Tables \cup {Nobody}]
      BY <1>t
    <2>e. Exchanged(set, hash, ent, q, r, to, main, new)
      BY ONLY <1>g, <1>j, <1>k, <2>1, <2>2, <2>3, <2>5 DEF Exchanged
    <2>6. \A s \in set : main[s] \in Tables
      BY ONLY <2>e, SwapTables
    <2>7. \A s \in Queues : to[s] = Nobody
      BY ONLY <2>e, SwapTables
    <2>8. \A s \in set : Reached(to, main[s]) \cap Queues = {s}
      BY ONLY <2>e, SwapTables
    <2>9. ChainsApart(set, to, main)
      BY ONLY <2>e, SwapTables
    <2>10. \A h \in Tables : new[h] # NoEntries => \E s \in set : h \in Reached(to, main[s])
      BY ONLY <2>e, SwapTables
    <2>11. \A p \in Producers : p \in EntriesOf(r, hash, ent) <=>
              \E h \in Reached(to, main[q]) : \E w \in Writers : new[h][w] = p
      BY ONLY <2>e, SwapTables
    <2>12. \A p \in Producers : p \in EntriesOf(q, hash, ent) <=>
              \E h \in Reached(to, main[r]) : \E w \in Writers : new[h][w] = p
      BY ONLY <2>e, SwapTables
    <2>13. \A p \in Producers : \A s \in set : s # q /\ s # r =>
              (p \in EntriesOf(s, hash, ent) <=>
                  \E h \in Reached(to, main[s]) : \E w \in Writers : new[h][w] = p)
      BY ONLY <2>e, SwapTables
    <2> QED
      BY <2>4, <2>6, <2>7, <2>8, <2>9, <2>10, <2>11, <2>12, <2>13
  <1>1. TypeOK'
    <2>1. \A s \in Queues : main[s] \in Tables \cup {Nobody}
      BY <1>j, <1>s
    <2>2. main \in [Queues -> Tables \cup {Nobody}]
      BY <1>j, <2>1
    <2>3. parent' \in [Producers -> Queues \cup {Nobody}]
      BY DEF Reown, Good, TypeOK
    <2>4. \A u \in Tokens : queue[u] = Nobody
      BY DEF Good, OwnershipInv, TokenRight
    <2> QED
      BY <1>0, <1>l, <1>c, <1>i, <1>n, <1>e, <1>h, <1>g, <2>2, <2>3, <2>4 DEF Good, TypeOK
  <1>2. ASSUME NEW u \in Tokens PROVE TokenRight(u)'
    <2>1. TokenRight(u)
      BY DEF Good, OwnershipInv
    <2>2. ASSUME tpc[u] = "valid" PROVE \E s \in D : producer[u] \in Listed(s)'
      <3>1. PICK s \in constructed : producer[u] \in Listed(s)
        BY <2>1, <2>2 DEF TokenRight
      <3>2. other(s) \in D /\ other(other(s)) = s /\ other(s) \in Queues
        BY <1>0, <1>o DEF other
      <3>3. producer[u] \in Listed(other(s))'
        BY <1>m, <3>1, <3>2
      <3> QED
        BY <3>2, <3>3
    <2>3. tpc[u] = "valid" => \A x \in Tokens \ {u} : producer'[x] # producer[u]
      BY <1>0, <2>1 DEF TokenRight
    <2> QED
      BY <1>0, <2>1, <2>2, <2>3, TokenIsQuiet
  <1>3. ProducersRight'
    BY <1>0 DEF Good, OwnershipInv, ProducersRight
  <1>4. ASSUME NEW s \in Queues PROVE ListRight(s)'
    <2>1. ListRight(other(s)) /\ other(s) \in Queues
      BY <1>o DEF Good, OwnershipInv
    <2>2. \A x \in Queues \ {s} : Listed(s)' \cap Listed(x)' = {}
      <3>1. \A x \in Queues \ {s} : other(x) # other(s) /\ other(x) \in Queues
        BY <1>o DEF other
      <3> QED
        BY <1>m, <2>1, <3>1 DEF ListRight
    <2>3. \A p \in Listed(s)' : parent'[p] = s /\ pool'[p] \in {initialBlockPool'[s], Nobody}
      <3>1. \A p \in Listed(s)' : pool[p] \in {initialBlockPool[other(s)], Nobody}
        BY <1>m, <2>1 DEF ListRight
      <3> QED
        BY <1>0, <1>p, <1>i, <3>1
    <2>4. s \notin constructed' => producerList'[s] = <<>> /\ initialBlockPool'[s] = Nobody
      BY <1>0, <1>l, <1>i, <1>o, <2>1 DEF ListRight
    <2>5. IsInjective(producerList'[s])
      BY <1>l, <2>1 DEF ListRight
    <2>6. implicitProducerHashCount'[s] = Cardinality(Implicit(s)')
      BY <1>n, <1>x, <2>1 DEF ListRight
    <2>7. producerCount'[s] = Cardinality(Listed(s)' \cup BeingLinked(s)')
      <3>1. Listed(s)' \cup BeingLinked(s)' = Listed(other(s)) \cup BeingLinked(other(s))
        BY <1>m, <1>b, <2>1
      <3>2. producerCount'[s] = producerCount[other(s)]
        BY <1>c
      <3> QED
        BY <2>1, <3>1, <3>2 DEF ListRight
    <2> QED
      BY <2>2, <2>3, <2>4, <2>5, <2>6, <2>7 DEF ListRight
  <1>5. TablesRight'
    <2>1. \A s \in Queues : main[s] # Nobody <=> s \in D
      <3>1. \A s \in Queues : hash[s] # Nobody <=> s \in D
        BY DEF Tabled
      <3>2. main[q] \in Tables /\ main[r] \in Tables /\ q \in D /\ r \in D
        BY <1>s
      <3> QED
        BY <1>j, <3>1, <3>2, NobodyApart
    <2>2. \A s \in D : EntriesOf(s, hash, ent) = Implicit(s)
      OBVIOUS
    <2>3. Implicit(q)' = Implicit(r) /\ Implicit(r)' = Implicit(q)
          /\ \A s \in D : s # q /\ s # r => Implicit(s)' = Implicit(s)
      BY <1>0, <1>x DEF other
    <2>4. \A s \in D : \A p \in Producers : p \in Implicit(s)' <=>
             \E h \in Reached(to, main[s]) : \E w \in Writers : new[h][w] = p
      BY <1>s, <2>2, <2>3
    <2>5. \A s \in D : Implicit(s)' \subseteq Producers
      BY <2>2, <2>3 DEF EntriesOf
    <2>6. main = implicitProducerHash' /\ new = entries' /\ D = constructed' /\ to = prev'
      BY <1>0, <1>h
    <2>7. \A s \in D : ChainFrom(implicitProducerHash[s])' = Reached(to, main[s])
      BY <2>6 DEF ChainFrom
    <2>8. \A s \in D : Tokenless(s)' = Implicit(s)'
      <3>1. ASSUME NEW s \in D PROVE Tokenless(s)' = Implicit(s)'
        <4>1. \A p : p \in Tokenless(s)' <=> p \in Producers /\
                 \E h \in Reached(to, main[s]) : \E w \in Writers : new[h][w] = p
          BY <2>6, <2>7 DEF Tokenless
        <4>2. \A p : p \in Tokenless(s)' <=> p \in Implicit(s)'
          BY <2>4, <2>5, <4>1
        <4>3. \A S, T : (\A p : p \in S <=> p \in T) => S = T
          OBVIOUS
        <4> QED
          BY <4>2, <4>3
      <3> QED
        BY <3>1
    <2> QED
      <3>1. \A s \in Queues : prev'[s] = Nobody
        BY <1>s, <2>6
      <3>2. \A s \in Queues : implicitProducerHash'[s] # Nobody <=> s \in constructed'
        BY <2>1, <2>6
      <3>3. \A s \in constructed' : ChainFrom(implicitProducerHash[s])' \cap Queues = {s}
        BY <1>s, <2>6, <2>7
      <3>4. \A s, z \in constructed' : s # z =>
               ChainFrom(implicitProducerHash[s])' \cap ChainFrom(implicitProducerHash[z])' = {}
        <4>1. ChainsApart(D, to, main)
          BY <1>s
        <4>2. ASSUME NEW s \in D, NEW z \in D, s # z
              PROVE  ChainFrom(implicitProducerHash[s])'
                        \cap ChainFrom(implicitProducerHash[z])' = {}
          <5>1. Reached(to, main[s]) \cap Reached(to, main[z]) = {}
            BY ONLY <4>1, <4>2 DEF ChainsApart
          <5>2. /\ ChainFrom(implicitProducerHash[s])' = Reached(to, main[s])
                /\ ChainFrom(implicitProducerHash[z])' = Reached(to, main[z])
            BY <2>7, <4>2
          <5> QED
            BY ONLY <5>1, <5>2
        <4> QED
          BY <2>6, <4>2
      <3>5. \A h \in Tables : entries'[h] # NoEntries =>
               \E s \in constructed' : h \in ChainFrom(implicitProducerHash[s])'
        BY <1>s, <2>6, <2>7
      <3>6. \A s \in constructed' : Tokenless(s)' = Implicit(s)'
        BY <2>6, <2>8
      <3> QED
        BY ONLY <3>1, <3>2, <3>3, <3>4, <3>5, <3>6 DEF TablesRight
  <1> QED
    BY <1>1, <1>2, <1>3, <1>4, <1>5 DEF Good, OwnershipInv

LEMMA SwapKeeps ==
    ASSUME Good, NEW q \in Queues, NEW r \in Queues \ {q}, Swap(q, r)
    PROVE  Good'
  <1>1. /\ q # r /\ r \in constructed /\ q \in constructed
        /\ \A t \in Tokens : tpc[t] \in {"valid", "invalid"}
        /\ constructed' = constructed
    BY DEF Swap, Quiet
  <1>2. constructed \cup {q} = constructed
    BY <1>1
  <1>3. PICK hash, ent, D : hash = implicitProducerHash /\ ent = entries /\ D = constructed
    OBVIOUS
  <1>4. /\ hash \in [Queues -> Tables \cup {Nobody}]
        /\ ent \in [Tables -> [Writers -> Producers \cup {Nobody}]]
    BY <1>3 DEF Good, TypeOK
  <1>5. Tabled(D, hash, ent)
    BY <1>3 DEF Tabled, TablesRight, Good, OwnershipInv
  <1>6. ASSUME NEW s \in D PROVE EntriesOf(s, hash, ent) = Implicit(s)
    <2>1. Tokenless(s) = Implicit(s)
      BY <1>3 DEF TablesRight, Good, OwnershipInv
    <2>2. EntriesOf(s, hash, ent) = Tokenless(s)
      BY <1>3 DEF EntriesOf, Tokenless
    <2> QED
      BY <2>1, <2>2
  <1>7. SwapHashes(q, r, hash, ent) /\ Reown(producerList', q, r)
    BY <1>3 DEF Swap
  <1>8. /\ producerList' = Swapped(producerList, q, r)
        /\ producerCount' = Swapped(producerCount, q, r)
        /\ initialBlockPool' = Swapped(initialBlockPool, q, r)
        /\ implicitProducerHashCount' = Swapped(implicitProducerHashCount, q, r)
        /\ UNCHANGED <<isExplicit, inactive, tokenOf, pool, tokens>>
    BY DEF Swap
  <1>9. /\ constructed' = constructed \cup {q} /\ constructed \cup {q} = D
        /\ Tabled(constructed \cup {q}, hash, ent)
        /\ \A s \in constructed \cup {q} : EntriesOf(s, hash, ent) = Implicit(s)
    BY <1>1, <1>2, <1>3, <1>5, <1>6
  <1> QED
    BY <1>1, <1>4, <1>7, <1>8, <1>9, ExchangeKeeps

LEMMA MoveConstructKeeps ==
    ASSUME Good, NEW q \in Queues, NEW r \in Queues \ {q}, MoveConstruct(q, r)
    PROVE  Good'
  <1>1. /\ q # r /\ r \in constructed /\ q \notin constructed
        /\ \A t \in Tokens : tpc[t] \in {"valid", "invalid"}
        /\ constructed' = constructed \cup {q}
    BY DEF MoveConstruct, Quiet
  <1>2. PICK hash, ent : /\ hash = [implicitProducerHash EXCEPT ![q] = q]
                         /\ ent = [entries EXCEPT ![q] = NoEntries]
    OBVIOUS
  <1>q. q \in Tables
    BY NobodyApart
  <1>3. /\ hash \in [Queues -> Tables \cup {Nobody}] /\ hash[q] = q
        /\ \A s \in Queues : s # q => hash[s] = implicitProducerHash[s]
    BY <1>2, <1>q DEF Good, TypeOK
  <1>4. /\ ent \in [Tables -> [Writers -> Producers \cup {Nobody}]] /\ ent[q] = NoEntries
        /\ \A h \in Tables : h # q => ent[h] = entries[h]
    <2>1. NoEntries \in [Writers -> Producers \cup {Nobody}]
      BY DEF NoEntries
    <2> QED
      BY <1>2, <1>q, <2>1 DEF Good, TypeOK
  <1>5. /\ Tabled(constructed \cup {q}, hash, ent)
        /\ \A s \in constructed \cup {q} : EntriesOf(s, hash, ent) = Implicit(s)
    <2>1. HasNewTable(q, hash, ent)
      BY <1>1, <1>3, <1>4 DEF HasNewTable
    <2> QED
      BY <2>1, NewTable
  <1>6. SwapHashes(q, r, hash, ent)
    BY <1>2 DEF MoveConstruct
  \* The new queue has nothing to give.
  <1>7. /\ producerList[q] = <<>> /\ initialBlockPool[q] = Nobody
        /\ producerCount[q] = 0 /\ implicitProducerHashCount[q] = 0
    <2>1. ListRight(q) /\ producerList[q] = <<>> /\ initialBlockPool[q] = Nobody
      BY <1>1 DEF Good, OwnershipInv, ListRight
    <2>2. Listed(q) = {} /\ BeingLinked(q) = {}
      BY <1>1, <2>1, NoneLinked DEF Listed, ToSet
    <2>3. Implicit(q) = {} /\ Listed(q) \cup BeingLinked(q) = {}
      BY <2>2 DEF Implicit
    <2> QED
      BY <2>1, <2>3, FS_EmptySet DEF ListRight
  <1>8. /\ producerList' = Swapped(producerList, q, r)
        /\ producerCount' = Swapped(producerCount, q, r)
        /\ initialBlockPool' = Swapped(initialBlockPool, q, r)
        /\ implicitProducerHashCount' = Swapped(implicitProducerHashCount, q, r)
        /\ UNCHANGED <<isExplicit, inactive, tokenOf, pool, tokens>>
    BY <1>7 DEF MoveConstruct, Swapped
  <1>9. Reown(producerList', q, r)
    BY DEF MoveConstruct
  <1> QED
    BY <1>1, <1>3, <1>4, <1>5, <1>6, <1>8, <1>9, ExchangeKeeps

\* A queue is destroyed with its producers and tables: those of the others are apart.
LEMMA DestroyKeeps ==
    ASSUME Good, NEW q \in Queues, Destroy(q)
    PROVE  Good'
  <1>p. PICK dead, gone, lost : /\ dead = Listed(q) /\ lost = Destroyed(q)
                                /\ gone = ChainFrom(implicitProducerHash[q])
    OBVIOUS
  <1>0. /\ q \in constructed /\ constructed \subseteq Queues /\ constructed' = constructed \ {q}
        /\ \A t \in Tokens : tpc[t] \in {"valid", "invalid"}
        /\ queue' = queue /\ position' = position
    BY DEF Destroy, Quiet, Good, TypeOK
  <1>q. \A u \in Tokens : queue[u] = Nobody /\ position[u] = 0
    <2>1. ASSUME NEW u \in Tokens PROVE queue[u] = Nobody
      BY <1>0 DEF Good, OwnershipInv, TokenRight
    <2> QED
      BY <2>1 DEF Good, TypeOK
  <1>l. /\ producerList' \in [Queues -> Seq(Producers)] /\ producerList'[q] = <<>>
        /\ \A r \in Queues : r # q => producerList'[r] = producerList[r]
    BY DEF Destroy, Good, TypeOK
  <1>c. /\ producerCount' \in [Queues -> Nat] /\ producerCount'[q] = 0
        /\ \A r \in Queues : r # q => producerCount'[r] = producerCount[r]
    BY DEF Destroy, Good, TypeOK
  <1>i. /\ initialBlockPool' \in [Queues -> Queues \cup {Nobody}]
        /\ initialBlockPool'[q] = Nobody
        /\ \A r \in Queues : r # q => initialBlockPool'[r] = initialBlockPool[r]
    BY DEF Destroy, Good, TypeOK
  <1>h. /\ implicitProducerHash' \in [Queues -> Tables \cup {Nobody}]
        /\ implicitProducerHash'[q] = Nobody
        /\ \A r \in Queues : r # q => implicitProducerHash'[r] = implicitProducerHash[r]
    BY DEF Destroy, Good, TypeOK
  <1>n. /\ implicitProducerHashCount' \in [Queues -> Nat] /\ implicitProducerHashCount'[q] = 0
        /\ \A r \in Queues : r # q =>
              implicitProducerHashCount'[r] = implicitProducerHashCount[r]
    BY DEF Destroy, Good, TypeOK
  <1>v. prev' = [h \in Tables |-> IF h \in gone THEN Nobody ELSE prev[h]]
    BY <1>p DEF Destroy
  <1>w. prev' \in [Tables -> Tables \cup {Nobody}]
    BY <1>v DEF Good, TypeOK
  <1>e. entries' = [h \in Tables |-> IF h \in gone THEN NoEntries ELSE entries[h]]
    BY <1>p DEF Destroy
  <1>g. entries' \in [Tables -> [Writers -> Producers \cup {Nobody}]]
    <2>1. NoEntries \in [Writers -> Producers \cup {Nobody}]
      BY DEF NoEntries
    <2> QED
      BY <1>e, <2>1 DEF Good, TypeOK
  <1>f. /\ isExplicit' = [p \in Producers |-> p \notin dead /\ isExplicit[p]]
        /\ inactive' = [p \in Producers |-> p \notin dead /\ inactive[p]]
        /\ parent' = [p \in Producers |-> IF p \in dead THEN Nobody ELSE parent[p]]
        /\ tokenOf' = [p \in Producers |-> IF p \in dead THEN Nobody ELSE tokenOf[p]]
        /\ pool' = [p \in Producers |-> IF p \in dead THEN Nobody ELSE pool[p]]
    BY <1>p DEF Destroy, ForgetProducers, Listed
  <1>a. \A p \in Producers : p \notin dead =>
           /\ isExplicit'[p] = isExplicit[p] /\ inactive'[p] = inactive[p]
           /\ parent'[p] = parent[p] /\ tokenOf'[p] = tokenOf[p] /\ pool'[p] = pool[p]
    <2>1. \A p \in Producers : p \notin dead => isExplicit'[p] = isExplicit[p]
      <3>1. \A p \in Producers : isExplicit[p] \in BOOLEAN
        BY DEF Good, TypeOK
      <3> QED
        BY ONLY <1>f, <3>1
    <2>2. \A p \in Producers : p \notin dead => inactive'[p] = inactive[p]
      <3>1. \A p \in Producers : inactive[p] \in BOOLEAN
        BY DEF Good, TypeOK
      <3> QED
        BY ONLY <1>f, <3>1
    <2> QED
      BY <1>f, <2>1, <2>2
  <1>k. /\ producer' = [t \in Tokens |-> IF t \in lost THEN Nobody ELSE producer[t]]
        /\ tpc' = [t \in Tokens |-> IF t \in lost THEN "invalid" ELSE tpc[t]]
    BY <1>p DEF Destroy
  \* The tokens that lose their producers are those whose producers are destroyed.
  <1>t. ASSUME NEW u \in Tokens, tpc[u] = "valid"
        PROVE  /\ producer[u] \in Producers /\ tokenOf[producer[u]] = u
               /\ u \in lost <=> producer[u] \in dead
    <2>1. TokenRight(u) /\ producer[u] \in Producers \cup {Nobody}
      BY DEF Good, OwnershipInv, TypeOK
    <2>2. producer[u] \in Producers /\ tokenOf[producer[u]] = u
      BY <1>t, <2>1 DEF TokenRight
    <2>3. lost = {tokenOf[p] : p \in dead} \ {Nobody} /\ dead \subseteq Producers
      BY <1>p, ListsTyped DEF Destroyed, Listed, Good
    <2>4. \A p \in dead : tokenOf[p] = u => producer[u] = p
      BY <2>3, NobodyApart DEF Good, OwnershipInv, ProducersRight
    <2> QED
      BY <2>2, <2>3, <2>4, NobodyApart
  <1>m. /\ Listed(q)' = {} /\ \A r \in Queues : r # q => Listed(r)' = Listed(r)
        /\ \A r \in Queues : BeingLinked(r)' = {} /\ BeingLinked(r) = {}
        /\ \A r \in Queues : r # q => Listed(r) \cap dead = {} /\ Listed(r) \subseteq Producers
    <2>1. Listed(q)' = {} /\ \A r \in Queues : r # q => Listed(r)' = Listed(r)
      BY <1>l DEF Listed, ToSet
    <2>2. \A t \in Tokens : tpc'[t] # "link" /\ tpc[t] # "link"
      BY <1>0, <1>k
    <2>3. \A r \in Queues : BeingLinked(r)' = {} /\ BeingLinked(r) = {}
      BY <2>2 DEF BeingLinked
    <2>4. \A r \in Queues : r # q => Listed(r) \cap dead = {} /\ Listed(r) \subseteq Producers
      BY <1>p, ListsTyped DEF Good, OwnershipInv, ListRight
    <2> QED
      BY <2>1, <2>3, <2>4
  <1>x. Implicit(q)' = {} /\ \A r \in Queues : r # q => Implicit(r)' = Implicit(r)
    BY <1>a, <1>m DEF Implicit
  <1>1. TypeOK'
    <2>1. /\ isExplicit' \in [Producers -> BOOLEAN] /\ inactive' \in [Producers -> BOOLEAN]
      BY <1>f
    <2>2. /\ parent' \in [Producers -> Queues \cup {Nobody}]
          /\ pool' \in [Producers -> Queues \cup {Nobody}]
          /\ tokenOf' \in [Producers -> Tokens \cup {Nobody}]
      BY <1>f DEF Good, TypeOK
    <2>3. /\ tpc' \in [Tokens -> {"invalid", "find", "catch", "create", "link", "attach",
                                  "valid", "release"}]
          /\ producer' \in [Tokens -> Producers \cup {Nobody}]
      BY <1>k DEF Good, TypeOK
    <2> QED
      BY <1>0, <1>q, <1>l, <1>c, <1>i, <1>h, <1>n, <1>w, <1>g, <2>1, <2>2, <2>3
         DEF Good, TypeOK
  <1>2. ASSUME NEW u \in Tokens PROVE TokenRight(u)'
    <2>1. TokenRight(u)
      BY DEF Good, OwnershipInv
    <2>2. CASE u \in lost
      BY <1>0, <1>q, <1>k, <2>2 DEF TokenRight
    <2>3. CASE u \notin lost
      <3>1. tpc'[u] = tpc[u] /\ producer'[u] = producer[u] /\ queue'[u] = queue[u]
        BY <1>0, <1>k, <2>3
      <3>2. ASSUME tpc[u] = "valid"
            PROVE  /\ \E s \in constructed' : producer[u] \in Listed(s)'
                   /\ isExplicit'[producer[u]] = isExplicit[producer[u]]
                   /\ inactive'[producer[u]] = inactive[producer[u]]
                   /\ tokenOf'[producer[u]] = tokenOf[producer[u]]
                   /\ \A t \in Tokens \ {u} : producer'[t] # producer[u]
        <4>1. producer[u] \in Producers /\ producer[u] \notin dead
          BY <1>t, <2>3, <3>2
        <4>2. PICK s \in constructed : producer[u] \in Listed(s)
          BY <2>1, <3>2 DEF TokenRight
        <4>3. s # q /\ producer[u] \in Listed(s)' /\ s \in constructed'
          BY <1>0, <1>p, <1>m, <4>1, <4>2
        <4>4. \A t \in Tokens \ {u} : producer[t] # producer[u]
          BY <2>1, <4>1, NobodyApart DEF TokenRight
        <4>5. \A t \in Tokens \ {u} : producer'[t] # producer[u]
          BY <1>k, <4>1, <4>4, NobodyApart
        <4>6. /\ isExplicit'[producer[u]] = isExplicit[producer[u]]
              /\ inactive'[producer[u]] = inactive[producer[u]]
              /\ tokenOf'[producer[u]] = tokenOf[producer[u]]
          BY <1>a, <4>1
        <4> QED
          BY <4>3, <4>5, <4>6
      <3> QED
        BY <1>0, <2>1, <3>1, <3>2, TokenIsQuiet
    <2> QED
      BY <2>2, <2>3
  <1>3. ProducersRight'
    <2>1. ASSUME NEW p \in Producers, tokenOf'[p] # Nobody
          PROVE  tpc'[tokenOf'[p]] = "valid" /\ producer'[tokenOf'[p]] = p
      <3>1. p \notin dead /\ tokenOf'[p] = tokenOf[p]
        BY <1>f, <2>1
      <3>2. tokenOf[p] \in Tokens
        BY <2>1, <3>1 DEF Good, TypeOK
      <3>3. tpc[tokenOf[p]] = "valid" /\ producer[tokenOf[p]] = p
        BY <2>1, <3>1 DEF Good, OwnershipInv, ProducersRight
      <3>4. tokenOf[p] \notin lost
        BY <1>t, <3>1, <3>2, <3>3
      <3> QED
        BY <1>k, <3>1, <3>2, <3>3, <3>4
    <2> QED
      BY <2>1 DEF ProducersRight
  <1>4. ASSUME NEW r \in Queues PROVE ListRight(r)'
    <2>1. CASE r = q
      <3>1. IsInjective(producerList'[r])
        BY <1>l, <2>1 DEF IsInjective
      <3>2. Implicit(r)' = {} /\ Listed(r)' \cup BeingLinked(r)' = {}
        BY <1>x, <1>m, <2>1
      <3>3. /\ implicitProducerHashCount'[r] = Cardinality(Implicit(r)')
            /\ producerCount'[r] = Cardinality(Listed(r)' \cup BeingLinked(r)')
        BY <1>n, <1>c, <2>1, <3>2, FS_EmptySet
      <3> QED
        BY <1>l, <1>i, <1>m, <2>1, <3>1, <3>3 DEF ListRight
    <2>2. CASE r # q
      <3>1. ListRight(r)
        BY DEF Good, OwnershipInv
      <3>2. r \notin constructed' => producerList'[r] = <<>> /\ initialBlockPool'[r] = Nobody
        BY <1>0, <1>l, <1>i, <2>2, <3>1 DEF ListRight
      <3>3. IsInjective(producerList'[r])
        BY <1>l, <2>2, <3>1 DEF ListRight
      <3>4. \A s \in Queues \ {r} : Listed(r)' \cap Listed(s)' = {}
        BY <1>m, <2>2, <3>1 DEF ListRight
      <3>5. \A p \in Listed(r)' : parent'[p] = r /\ pool'[p] \in {initialBlockPool'[r], Nobody}
        BY <1>a, <1>i, <1>m, <2>2, <3>1 DEF ListRight
      <3>6. implicitProducerHashCount'[r] = Cardinality(Implicit(r)')
        BY <1>n, <1>x, <2>2, <3>1 DEF ListRight
      <3>7. producerCount'[r] = Cardinality(Listed(r)' \cup BeingLinked(r)')
        <4>1. Listed(r)' \cup BeingLinked(r)' = Listed(r) \cup BeingLinked(r)
          BY <1>m, <2>2
        <4> QED
          BY <1>c, <2>2, <3>1, <4>1 DEF ListRight
      <3> QED
        BY <3>2, <3>3, <3>4, <3>5, <3>6, <3>7 DEF ListRight
    <2> QED
      BY <2>1, <2>2
  <1>5. TablesRight'
    <2> DEFINE C(r) == ChainFrom(implicitProducerHash[r])
    <2>r. TablesRight
      BY DEF Good, OwnershipInv
    <2>1. ASSUME NEW r \in constructed, r # q
          PROVE  C(r)' = C(r) /\ C(r) \cap gone = {} /\ C(r) \subseteq Tables
      <3>1. r \in Queues /\ implicitProducerHash[r] \in Tables /\ C(r) \subseteq Tables
            /\ prev \in [Tables -> Tables \cup {Nobody}]
        BY ChainsTyped
      <3>2. C(r) \cap gone = {}
        BY <1>p, <1>0, <2>1, <2>r DEF TablesRight
      <3>3. \A f \in C(r) : prev'[f] = prev[f]
        BY <1>v, <3>1, <3>2
      <3>4. Reached(prev', implicitProducerHash[r]) = C(r)
        BY <1>w, <3>1, <3>3, ReachedSame DEF ChainFrom
      <3>5. implicitProducerHash'[r] = implicitProducerHash[r]
        BY <1>h, <2>1, <3>1
      <3> QED
        BY <3>1, <3>2, <3>4, <3>5 DEF ChainFrom
    <2>2. \A r \in Queues : prev'[r] = Nobody
      BY <1>v, <2>r, NobodyApart DEF TablesRight
    <2>3. \A r \in Queues : implicitProducerHash'[r] # Nobody <=> r \in constructed'
      BY <1>0, <1>h, <2>r DEF TablesRight
    <2>4. \A r \in constructed' : C(r)' \cap Queues = {r}
      BY <1>0, <2>1, <2>r DEF TablesRight
    <2>5. \A r, s \in constructed' : r # s => C(r)' \cap C(s)' = {}
      <3>1. \A r, s \in constructed : r # s => C(r) \cap C(s) = {}
        BY <2>r DEF TablesRight
      <3> QED
        BY <1>0, <2>1, <3>1
    <2>6. \A h \in Tables : entries'[h] # NoEntries => \E r \in constructed' : h \in C(r)'
      <3>1. ASSUME NEW h \in Tables, entries'[h] # NoEntries
            PROVE  \E r \in constructed' : h \in C(r)'
        <4>1. h \notin gone /\ entries[h] # NoEntries
          BY <1>e, <3>1
        <4>2. PICK r \in constructed : h \in C(r)
          BY <2>r, <4>1 DEF TablesRight
        <4>3. r # q
          BY <1>p, <4>1, <4>2
        <4> QED
          BY <1>0, <2>1, <4>2, <4>3
      <3> QED
        BY <3>1
    <2>7. ASSUME NEW r \in constructed, r # q PROVE Tokenless(r)' = Tokenless(r)
      <3>1. \A f \in C(r) : entries'[f] = entries[f]
        BY <1>e, <2>1, <2>7
      <3>2. \A x \in Producers : x \in Tokenless(r)' <=> x \in Tokenless(r)
        BY <2>1, <2>7, <3>1 DEF Tokenless
      <3> QED
        BY <3>2 DEF Tokenless
    <2>8. \A r \in constructed' : Tokenless(r)' = Implicit(r)'
      BY <1>0, <1>x, <2>7, <2>r DEF TablesRight
    <2> QED
      BY <2>2, <2>3, <2>4, <2>5, <2>6, <2>8 DEF TablesRight
  <1> QED
    BY <1>1, <1>2, <1>3, <1>4, <1>5 DEF Good, OwnershipInv

-----------------------------------------------------------------------------
(* The invariant *)

LEMMA InitGood ==
    ASSUME Init
    PROVE  Good
  <1>1. TypeOK
    <2>1. NoEntries \in [Writers -> Producers \cup {Nobody}]
      BY DEF NoEntries
    <2> QED
      BY <2>1, NobodyApart DEF Init, TypeOK
  <1>2. \A t \in Tokens : TokenRight(t)
    BY DEF Init, TokenRight
  <1>3. ProducersRight
    BY DEF Init, ProducersRight
  <1>4. ASSUME NEW q \in Queues PROVE ListRight(q)
    <2>1. \A r \in Queues : Listed(r) = {} /\ BeingLinked(r) = {}
      BY DEF Init, Listed, ToSet, BeingLinked
    <2>2. Implicit(q) = {} /\ Listed(q) \cup BeingLinked(q) = {}
      BY <2>1 DEF Implicit
    <2>3. IsInjective(producerList[q])
      BY DEF Init, IsInjective
    <2>4. /\ implicitProducerHashCount[q] = Cardinality(Implicit(q))
          /\ producerCount[q] = Cardinality(Listed(q) \cup BeingLinked(q))
      BY <2>2, FS_EmptySet DEF Init
    <2>5. producerList[q] = <<>> /\ initialBlockPool[q] = Nobody
      BY DEF Init
    <2> QED
      BY <2>1, <2>3, <2>4, <2>5 DEF ListRight
  <1>5. TablesRight
    BY NobodyApart DEF Init, TablesRight
  <1> QED
    BY <1>1, <1>2, <1>3, <1>4, <1>5 DEF Good, OwnershipInv

LEMMA StutterKeeps ==
    ASSUME Good, UNCHANGED vars
    PROVE  Good'
  <1>1. UNCHANGED <<constructed, producerList, producerCount, initialBlockPool,
                    implicitProducerHash, implicitProducerHashCount, prev, entries,
                    isExplicit, inactive, parent, tokenOf, pool, tpc, producer, queue,
                    position>>
    BY DEF vars, lists, hashes, producers, tokens
  <1>2. TypeOK'
    BY <1>1 DEF Good, TypeOK
  <1>3. \A q \in Queues : /\ Listed(q)' = Listed(q) /\ BeingLinked(q)' = BeingLinked(q)
                          /\ Implicit(q)' = Implicit(q)
    BY <1>1 DEF Listed, BeingLinked, Implicit
  <1>4. \A t \in Tokens : TokenRight(t)'
    BY <1>1 DEF Good, OwnershipInv, TokenRight, Listed, At
  <1>5. ProducersRight'
    BY <1>1 DEF Good, OwnershipInv, ProducersRight
  <1>6. \A q \in Queues : ListRight(q)'
    BY <1>1, <1>3, ListsStay DEF Good, OwnershipInv
  <1>7. TablesRight'
    BY <1>1, <1>3, TablesStay DEF Good, OwnershipInv, TypeOK
  <1> QED
    BY <1>2, <1>4, <1>5, <1>6, <1>7 DEF Good, OwnershipInv

LEMMA TokenStepsKeep ==
    ASSUME Good, NEW t \in Tokens, Token(t)
    PROVE  Good'
  <1>1. CASE \E q \in Queues : ConstructToken(t, q)
    BY <1>1, ConstructTokenKeeps
  <1>2. CASE FindInactive(t)
    BY <1>2, FindInactiveKeeps
  <1>3. CASE Catch(t)
    BY <1>3, CatchKeeps
  <1>4. CASE CreateProducer(t)
    BY <1>4, CreateProducerKeeps
  <1>5. CASE LinkProducer(t)
    BY <1>5, LinkProducerKeeps
  <1>6. CASE CreationFails(t)
    BY <1>6, CreationFailsKeeps
  <1>7. CASE Attach(t)
    BY <1>7, AttachKeeps
  <1>8. CASE Detach(t)
    BY <1>8, DetachKeeps
  <1>9. CASE Release(t)
    BY <1>9, ReleaseKeeps
  <1>10. CASE \E u \in Tokens \ {t} : MoveToken(t, u)
    BY <1>10, MoveTokenKeeps
  <1> QED
    BY <1>1, <1>2, <1>3, <1>4, <1>5, <1>6, <1>7, <1>8, <1>9, <1>10 DEF Token

LEMMA QueueStepsKeep ==
    ASSUME Good, NEW q \in Queues, Queue(q)
    PROVE  Good'
  <1>1. CASE Construct(q)
    BY <1>1, ConstructKeeps
  <1>2. CASE Destroy(q)
    BY <1>2, DestroyKeeps
  <1>3. CASE Enlarge(q)
    BY <1>3, EnlargeKeeps
  <1>4. CASE \E r \in Queues \ {q} : Swap(q, r)
    BY <1>4, SwapKeeps
  <1>5. CASE \E r \in Queues \ {q} : MoveConstruct(q, r)
    BY <1>5, MoveConstructKeeps
  <1>6. CASE \E w \in Writers : AddWriter(w, q)
    BY <1>6, AddWriterKeeps
  <1> QED
    BY <1>1, <1>2, <1>3, <1>4, <1>5, <1>6 DEF Queue

\* The inductive invariant holds in every reachable state.
LEMMA AlwaysGood == Spec => []Good
  <1>1. Init => Good
    BY InitGood
  <1>2. Good /\ [Next]_vars => Good'
    BY TokenStepsKeep, QueueStepsKeep, StutterKeeps DEF Next
  <1> QED
    BY <1>1, <1>2, PTL DEF Spec

\* The type invariant of queue objects, tables, producers and tokens.
THEOREM OwnershipTypes == Spec => []TypeOK
  <1>1. Good => TypeOK
    BY DEF Good
  <1> QED
    BY <1>1, AlwaysGood, PTL

\* Whatever tokens are constructed, moved and destroyed, and whatever queues are swapped,
\* moved and destroyed meanwhile: each producer is in one list, each table in one chain.
THEOREM OwnershipInvariant == Spec => []OwnershipInv
  <1>1. Good => OwnershipInv
    BY DEF Good
  <1> QED
    BY <1>1, AlwaysGood, PTL

-----------------------------------------------------------------------------
(* The properties *)

\* recycle_or_create_producer never gives a producer to two tokens, nor one of a thread
\* without a token to a token.
THEOREM OneUser == Spec => []OneUserPerProducer
  <1>1. ASSUME Good PROVE OneUserPerProducer
    <2>1. ASSUME NEW t \in Tokens, NEW u \in Tokens, t # u, producer[t] # Nobody
          PROVE  producer[t] # producer[u]
      BY <1>1, <2>1 DEF Good, OwnershipInv, TokenRight
    <2>2. ASSUME NEW t \in Tokens, NEW h \in Tables, NEW w \in Writers,
                 producer[t] # Nobody
          PROVE  entries[h][w] # producer[t]
      <3>1. SUFFICES ASSUME entries[h][w] = producer[t] PROVE FALSE
        OBVIOUS
      <3>2. producer[t] \in Producers /\ isExplicit[producer[t]]
        BY <1>1, <2>2 DEF Good, TypeOK, OwnershipInv, TokenRight
      <3>3. entries[h] # NoEntries
        BY <2>2, <3>1 DEF NoEntries
      <3>4. PICK q \in constructed : h \in ChainFrom(implicitProducerHash[q])
        BY <1>1, <3>3 DEF Good, OwnershipInv, TablesRight
      <3>5. producer[t] \in Tokenless(q)
        BY <3>1, <3>2, <3>4 DEF Tokenless
      <3>6. producer[t] \in Implicit(q)
        BY <1>1, <3>5 DEF Good, OwnershipInv, TablesRight
      <3> QED
        BY <3>2, <3>6 DEF Implicit
    <2> QED
      BY <2>1, <2>2 DEF OneUserPerProducer
  <1> QED
    BY <1>1, AlwaysGood, PTL

\* A valid token and its producer know each other, and the producer's queue exists.
THEOREM TokensAndProducersAgree == Spec => []TokensAgree
  <1>1. ASSUME Good PROVE TokensAgree
    <2>1. constructed \subseteq Queues /\ TypeOK
      BY <1>1 DEF Good, TypeOK
    <2>2. ASSUME NEW t \in Tokens, tpc[t] = "valid"
          PROVE  /\ \E q \in constructed : Contains(producerList[q], producer[t])
                 /\ tokenOf[producer[t]] = t /\ ~inactive[producer[t]]
      <3>1. TokenRight(t)
        BY <1>1 DEF Good, OwnershipInv
      <3>2. PICK q \in constructed : producer[t] \in Listed(q)
        BY <2>2, <3>1 DEF TokenRight
      <3>3. Contains(producerList[q], producer[t])
        BY <2>1, <3>2, ListsTyped
      <3> QED
        BY <2>2, <3>1, <3>3 DEF TokenRight
    <2>3. ASSUME NEW q \in constructed, NEW p \in ToSet(producerList[q]), tokenOf[p] # Nobody
          PROVE  producer[tokenOf[p]] = p
      <3>1. p \in Producers
        BY <2>1, <2>3, ListsTyped DEF Listed
      <3> QED
        BY <1>1, <2>3, <3>1 DEF Good, OwnershipInv, ProducersRight
    <2> QED
      BY <2>2, <2>3 DEF TokensAgree
  <1> QED
    BY <1>1, AlwaysGood, PTL

\* Producers, their pool, tables and counts follow their queue through swap_internal,
\* swap_implicit_producer_hashes and reown_producers.
THEOREM OwnStays == Spec => []QueueKeepsItsOwn
  <1>1. ASSUME Good, NEW q \in constructed
        PROVE  /\ \A p \in ToSet(producerList[q]) :
                     parent[p] = q /\ pool[p] \in {initialBlockPool[q], Nobody}
               /\ ChainFrom(implicitProducerHash[q]) \cap Queues = {q}
               /\ (UNION {{entries[h][w] : w \in Writers} :
                             h \in ChainFrom(implicitProducerHash[q])}) \ {Nobody}
                     = {p \in ToSet(producerList[q]) : ~isExplicit[p]}
               /\ implicitProducerHashCount[q]
                     = Cardinality({p \in ToSet(producerList[q]) : ~isExplicit[p]})
               /\ Quiet => producerCount[q] = Cardinality(ToSet(producerList[q]))
    <2>1. q \in Queues /\ ListRight(q) /\ TablesRight
      BY <1>1 DEF Good, TypeOK, OwnershipInv
    <2>2. \A p \in Listed(q) : parent[p] = q /\ pool[p] \in {initialBlockPool[q], Nobody}
      BY <2>1 DEF ListRight
    <2>3. ChainFrom(implicitProducerHash[q]) \cap Queues = {q}
      BY <2>1 DEF TablesRight
    <2>4. (UNION {{entries[h][w] : w \in Writers} :
                     h \in ChainFrom(implicitProducerHash[q])}) \ {Nobody} = Implicit(q)
      <3>1. \A h \in ChainFrom(implicitProducerHash[q]) : \A w \in Writers :
               entries[h][w] \in Producers \cup {Nobody}
        BY <1>1, ChainsTyped DEF Good, TypeOK
      <3>2. \A p : p \in Tokenless(q) <=>
               p \in (UNION {{entries[h][w] : w \in Writers} :
                                h \in ChainFrom(implicitProducerHash[q])}) \ {Nobody}
        BY <3>1, NobodyApart DEF Tokenless
      <3>3. Tokenless(q) = Implicit(q)
        BY <2>1 DEF TablesRight
      <3> QED
        BY <3>2, <3>3
    <2>5. implicitProducerHashCount[q] = Cardinality(Implicit(q))
      BY <2>1 DEF ListRight
    <2>6. ASSUME Quiet PROVE producerCount[q] = Cardinality(Listed(q))
      <3>1. BeingLinked(q) = {}
        BY <2>6, NoneLinked DEF Quiet
      <3>2. Listed(q) \cup BeingLinked(q) = Listed(q)
        BY <3>1
      <3> QED
        BY <2>1, <3>2 DEF ListRight
    <2> QED
      BY <2>2, <2>3, <2>4, <2>5, <2>6 DEF Listed, Implicit
  <1>2. Good => QueueKeepsItsOwn
    BY <1>1 DEF QueueKeepsItsOwn
  <1> QED
    BY <1>2, AlwaysGood, PTL

============================================================================
