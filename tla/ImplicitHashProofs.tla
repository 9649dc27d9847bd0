------------------------- MODULE ImplicitHashProofs --------------------------
(***************************************************************************)
(* Theorems about ImplicitHash, for any number of threads, with any hashed *)
(* ids: every thread gets a sub-queue of its own, always the same, that    *)
(* the consumer finds, and every table keeps a free slot.                  *)
(***************************************************************************)
EXTENDS ImplicitHash, FiniteSetTheorems, SequenceTheorems, TLAPS

-----------------------------------------------------------------------------
(* Slots *)

LEMMA Masked ==
    ASSUME NEW n \in Nat, NEW c \in Nat, c > 0
    PROVE  n % c \in 0 .. c - 1
  OBVIOUS

LEMMA MaskedBelow ==
    ASSUME NEW c \in Nat, c > 0, NEW i \in 0 .. c - 1
    PROVE  (i + 1) % c = IF i + 1 = c THEN 0 ELSE i + 1
  <1>1. CASE i + 1 = c
    <2>1. c % c = 0
      OBVIOUS
    <2> QED
      BY <1>1, <2>1
  <1>2. CASE i + 1 # c
    BY <1>2
  <1> QED
    BY <1>1, <1>2

\* Of two slots one is met first, wherever a search begins.
LEMMA EitherFirst ==
    ASSUME NEW h, tables[h].capacity \in Nat,
           NEW a \in Slots(h), NEW i \in Slots(h), NEW j \in Slots(h), i # j
    PROVE  i \in Between(a, j, h) \/ j \in Between(a, i, h)
  BY DEF Slots, Between

LEMMA NextSlot ==
    ASSUME NEW h, tables[h].capacity \in Nat, tables[h].capacity > 0,
           NEW a \in Slots(h), NEW i \in Slots(h)
    PROVE  /\ SlotAfter(i, h) \in Slots(h)
           /\ Between(a, a, h) = {}
           /\ Between(a, SlotAfter(i, h), h) \subseteq Between(a, i, h) \cup {i}
  BY MaskedBelow DEF Slots, Between, SlotAfter

-----------------------------------------------------------------------------
(* Tables *)

Keys == UNION {[0 .. c - 1 -> Threads \cup {NoThread}] : c \in Nat}
Values == UNION {[0 .. c - 1 -> Nat] : c \in Nat}
AnyTable == [capacity : Nat, prev : Nat, key : Keys, value : Values]

LEMMA EmptyTableIs ==
    ASSUME NEW c \in Nat, NEW p \in Nat
    PROVE  /\ EmptyTable(c, p) \in AnyTable
           /\ EmptyTable(c, p).capacity = c /\ EmptyTable(c, p).prev = p
           /\ EmptyTable(c, p).key = [i \in 0 .. c - 1 |-> NoThread]
           /\ EmptyTable(c, p).value = [i \in 0 .. c - 1 |-> NoProducer]
  <1>1. [i \in 0 .. c - 1 |-> NoThread] \in Keys
    BY DEF Keys
  <1>2. [i \in 0 .. c - 1 |-> NoProducer] \in Values
    BY DEF Values, NoProducer
  <1> QED
    BY <1>1, <1>2 DEF EmptyTable, AnyTable

Stored(ts, h, i, t, p) == [ts EXCEPT ![h].key[i] = t, ![h].value[i] = p]

LEMMA OneReplaced ==
    ASSUME NEW S, NEW ts \in Seq(S), NEW h \in 1 .. Len(ts), NEW e \in S,
           NEW us, us = [ts EXCEPT ![h] = e]
    PROVE  /\ us \in Seq(S) /\ Len(us) = Len(ts) /\ us[h] = e
           /\ \A g \in 1 .. Len(ts) : g # h => us[g] = ts[g]
  OBVIOUS

\* What the store needs and what it leaves, named so that a use of the lemma is
\* one step in which neither is expanded.
StoreNeeds(ts, h, i, t, p) ==
    /\ ts \in Seq(AnyTable) /\ h \in 1 .. Len(ts)
    /\ i \in 0 .. ts[h].capacity - 1 /\ t \in Threads /\ p \in Nat
    /\ ts[h].key \in [0 .. ts[h].capacity - 1 -> Threads \cup {NoThread}]
    /\ ts[h].value \in [0 .. ts[h].capacity - 1 -> Nat]

StoreLeaves(ts, us, h, i, t, p) ==
    /\ us \in Seq(AnyTable) /\ Len(us) = Len(ts)
    /\ \A g \in 1 .. Len(ts) : g # h => us[g] = ts[g]
    /\ us[h].capacity = ts[h].capacity /\ us[h].prev = ts[h].prev
    /\ us[h].key = [ts[h].key EXCEPT ![i] = t]
    /\ us[h].value = [ts[h].value EXCEPT ![i] = p]

LEMMA StoreInTable ==
    ASSUME NEW ts, NEW us, NEW h, NEW i, NEW t, NEW p,
           StoreNeeds(ts, h, i, t, p), us = Stored(ts, h, i, t, p)
    PROVE  StoreLeaves(ts, us, h, i, t, p)
  <1>0. /\ ts \in Seq(AnyTable) /\ h \in 1 .. Len(ts)
        /\ i \in 0 .. ts[h].capacity - 1 /\ t \in Threads /\ p \in Nat
        /\ ts[h].key \in [0 .. ts[h].capacity - 1 -> Threads \cup {NoThread}]
        /\ ts[h].value \in [0 .. ts[h].capacity - 1 -> Nat]
    BY DEF StoreNeeds
  <1> DEFINE r == [ts[h] EXCEPT !.key = [ts[h].key EXCEPT ![i] = t],
                                !.value = [ts[h].value EXCEPT ![i] = p]]
  <1>1. us = [ts EXCEPT ![h] = r]
    BY DEF Stored
  <1>2. ts[h] \in AnyTable
    BY <1>0
  <1> DEFINE c == ts[h].capacity
             k == ts[h].key
             v == ts[h].value
  <1>a. c \in Nat
    BY <1>2 DEF AnyTable
  <1>3. [k EXCEPT ![i] = t] \in Keys /\ [v EXCEPT ![i] = p] \in Values
    <2>1. k \in [0 .. c - 1 -> Threads \cup {NoThread}] /\ v \in [0 .. c - 1 -> Nat]
      BY <1>0
    <2>a. i \in 0 .. c - 1 /\ t \in Threads /\ p \in Nat
      BY <1>0
    <2> HIDE DEF k, v, c
    <2>2. [k EXCEPT ![i] = t] \in [0 .. c - 1 -> Threads \cup {NoThread}]
      BY <2>1, <2>a
    <2>3. [v EXCEPT ![i] = p] \in [0 .. c - 1 -> Nat]
      BY <2>1, <2>a
    <2> QED
      BY <1>a, <2>2, <2>3 DEF Keys, Values
  <1>4. /\ r \in AnyTable /\ r.capacity = ts[h].capacity /\ r.prev = ts[h].prev
        /\ r.key = [ts[h].key EXCEPT ![i] = t]
        /\ r.value = [ts[h].value EXCEPT ![i] = p]
    BY <1>2, <1>3 DEF AnyTable
  <1> HIDE DEF r, c, k, v
  <1>5. PICK e : e = r
    OBVIOUS
  <1>6. e \in AnyTable /\ us = [ts EXCEPT ![h] = e]
    BY <1>1, <1>4, <1>5
  <1>7. /\ us \in Seq(AnyTable) /\ Len(us) = Len(ts) /\ us[h] = e
        /\ \A g \in 1 .. Len(ts) : g # h => us[g] = ts[g]
    BY <1>0, <1>6, OneReplaced
  <1>8. /\ us[h].capacity = ts[h].capacity /\ us[h].prev = ts[h].prev
        /\ us[h].key = [ts[h].key EXCEPT ![i] = t]
        /\ us[h].value = [ts[h].value EXCEPT ![i] = p]
    BY <1>4, <1>5, <1>7
  <1> QED
    BY <1>7, <1>8 DEF StoreLeaves

-----------------------------------------------------------------------------
(* What a step of a thread may change *)

Inv == HashInv /\ tables \in Seq(AnyTable)

Step(t) == Call(t) \/ InsideCall(t)

OthersStay(t) ==
    \A u \in Threads \ {t} :
        /\ pc'[u] = pc[u] /\ mainHash'[u] = mainHash[u] /\ hash'[u] = hash[u]
        /\ index'[u] = index[u] /\ newCount'[u] = newCount[u]
        /\ producer'[u] = producer[u] /\ prevTail'[u] = prevTail[u]
        /\ mine'[u] = mine[u]

LEMMA StepIsLocal ==
    ASSUME TypeOK, NEW t \in Threads, Step(t)
    PROVE  OthersStay(t)
  <1> USE DEF OthersStay, TypeOK, Goto, ReturnFrom, searching, creating
  <1>1. CASE Call(t)
    BY <1>1 DEF Call
  <1>2. CASE ProbeTaken(t)
    BY <1>2 DEF ProbeTaken
  <1>3. CASE ProbeEmpty(t)
    BY <1>3 DEF ProbeEmpty
  <1>4. CASE ProbeFound(t)
    BY <1>4 DEF ProbeFound
  <1>5. CASE Count(t)
    BY <1>5 DEF Count
  <1>6. CASE TryLock(t)
    BY <1>6 DEF TryLock
  <1>7. CASE Allocate(t)
    BY <1>7 DEF Allocate
  <1>8. CASE NoNeedToResize(t)
    BY <1>8 DEF NoNeedToResize
  <1>9. CASE AllocationFails(t)
    BY <1>9 DEF AllocationFails
  <1>10. CASE UnlockAndFail(t)
    BY <1>10 DEF UnlockAndFail
  <1>11. CASE Unlock(t)
    BY <1>11 DEF Unlock
  <1>12. CASE Wait(t)
    BY <1>12 DEF Wait
  <1>13. CASE CreateProducer(t)
    BY <1>13 DEF CreateProducer
  <1>14. CASE CreationFails(t)
    BY <1>14 DEF CreationFails
  <1>15. CASE LoadListTail(t)
    BY <1>15 DEF LoadListTail
  <1>16. CASE LinkProducer(t)
    BY <1>16 DEF LinkProducer, Linked
  <1>17. CASE InsertTaken(t)
    BY <1>17 DEF InsertTaken
  <1>18. CASE Insert(t)
    BY <1>18 DEF Insert
  <1> QED
    BY <1>1, <1>2, <1>3, <1>4, <1>5, <1>6, <1>7, <1>8, <1>9, <1>10, <1>11, <1>12,
       <1>13, <1>14, <1>15, <1>16, <1>17, <1>18 DEF Step, InsideCall

\* What an invariant says of one table.
LEMMA TableFacts ==
    ASSUME Inv, NEW h \in Tables
    PROVE  /\ Len(tables) \in Nat /\ h \in Nat /\ h > 0 /\ h <= Len(tables)
           /\ tables[h].capacity \in Nat /\ tables[h].capacity > 0
           /\ tables[h].prev = h - 1
           /\ tables[h].key \in [Slots(h) -> Threads \cup {NoThread}]
           /\ tables[h].value \in [Slots(h) -> Producers \cup {NoProducer}]
           /\ tables[h] \in AnyTable
           /\ \A t \in Threads : HomeSlot(t, h) \in Slots(h)
  <1>1. tables[h] \in AnyTable /\ Len(tables) \in Nat /\ h \in 1 .. Len(tables)
    BY DEF Inv, Tables
  <1>2. tables[h].capacity \in Nat /\ tables[h].capacity > 0 /\ tables[h].prev = h - 1
    BY <1>1 DEF AnyTable, Inv, HashInv, TablesRight
  <1>3. /\ tables[h].key \in [Slots(h) -> Threads \cup {NoThread}]
        /\ tables[h].value \in [Slots(h) -> Producers \cup {NoProducer}]
    BY DEF Inv, HashInv, TypeOK, Slots
  <1>4. ASSUME NEW t \in Threads PROVE HomeSlot(t, h) \in Slots(h)
    BY <1>2, Masked, HashAssumption DEF HomeSlot, Slots, Inv, HashInv, TypeOK
  <1> QED
    BY <1>1, <1>2, <1>3, <1>4

\* Tables are only added, as the current one; in a table, a thread stores itself.
Stores(t, h, i) ==
    /\ pc[t] = "insert" /\ h = mainHash[t] /\ i = index[t]
    /\ tables[h].key[i] = NoThread
    /\ tables'[h].key[i] = t /\ tables'[h].value[i] = producer[t]
    /\ mine'[t] = producer[t] /\ pc'[t] = "idle"
Evolve(t) ==
    /\ tables' \in Seq(AnyTable)
    /\ Tables \subseteq Tables'
    /\ implicitProducerHash' = Len(tables')
    /\ \A h \in Tables :
          /\ tables'[h].capacity = tables[h].capacity /\ tables'[h].prev = tables[h].prev
          /\ tables'[h].key \in [Slots(h) -> Threads \cup {NoThread}]
          /\ tables'[h].value \in [Slots(h) -> Producers' \cup {NoProducer}]
          /\ \A i \in Slots(h) :
                \/ /\ tables'[h].key[i] = tables[h].key[i]
                   /\ tables'[h].value[i] = tables[h].value[i]
                \/ Stores(t, h, i)
    /\ Insert(t) => Stores(t, mainHash[t], index[t])
    /\ \A h \in Tables' \ Tables :
          /\ h = Len(tables) + 1 /\ Tables' = Tables \cup {h}
          /\ tables'[h].capacity \in Nat /\ tables'[h].prev = h - 1
          /\ tables'[h].capacity > tables[Len(tables)].capacity
          /\ tables'[h].key = [i \in 0 .. tables'[h].capacity - 1 |-> NoThread]
          /\ tables'[h].value = [i \in 0 .. tables'[h].capacity - 1 |-> NoProducer]

\* A value that a search finds is the thread's own.
LEMMA MineStays ==
    ASSUME Inv, NEW t \in Threads, Step(t)
    PROVE  /\ \A u \in Threads : mine[u] # NoProducer => mine'[u] = mine[u]
           /\ mine'[t] # mine[t] => Insert(t)
           /\ mine'[t] \in {mine[t], producer[t]}
           /\ mine' \in [Threads -> Producers \cup {NoProducer}]
  <1>1. /\ OthersStay(t) /\ LocalsRight(t) /\ TypeOK
        /\ mine \in [Threads -> Producers \cup {NoProducer}]
        /\ producer[t] \in Producers \cup {NoProducer}
    BY StepIsLocal DEF Inv, HashInv, TypeOK
  <1>2. CASE Insert(t)
    <2>1. /\ mine' = IF producer[t] = NoProducer THEN mine
                     ELSE [mine EXCEPT ![t] = producer[t]]
          /\ mine[t] \in {NoProducer, producer[t]}
      BY <1>1, <1>2 DEF Insert, ReturnFrom, LocalsRight
    <2> QED
      BY <1>1, <1>2, <2>1 DEF OthersStay
  <1>3. CASE ProbeFound(t)
    <2> DEFINE value == tables[hash[t]].value[index[t]]
    <2>1. /\ hash[t] \in 1 .. mainHash[t] /\ index[t] \in Slots(hash[t])
          /\ mainHash[t] \in Tables /\ tables[hash[t]].key[index[t]] = t /\ t # NoThread
      BY <1>1, <1>3, HashAssumption DEF ProbeFound, LocalsRight
    <2>2. hash[t] \in Tables
      BY <2>1 DEF Tables, Inv
    <2>3. value = mine[t] /\ mine[t] # NoProducer
      BY <2>1, <2>2 DEF Inv, HashInv, TablesRight
    <2>4. mine' = mine \/ mine' = [mine EXCEPT ![t] = value]
      BY <1>3 DEF ProbeFound, ReturnFrom
    <2>5. mine' = mine
      BY <1>1, <2>3, <2>4
    <2> QED
      BY <1>1, <2>5
  <1>4. CASE ~Insert(t) /\ ~ProbeFound(t)
    <2>1. mine' = mine
      BY <1>4 DEF Step, InsideCall, Call, ProbeTaken, ProbeEmpty, Count, TryLock, Allocate,
         NoNeedToResize, AllocationFails, UnlockAndFail, Unlock, Wait, CreateProducer,
         CreationFails, LoadListTail, LinkProducer, Linked, InsertTaken, ReturnFrom,
         creating, NoProducer
    <2> QED
      BY <1>1, <2>1
  <1> QED
    BY <1>2, <1>3, <1>4

LEMMA TablesUntouched ==
    ASSUME Inv, NEW t \in Threads, UNCHANGED tables, UNCHANGED implicitProducerHash,
           ~Insert(t),
           producerCount' \in Nat, producerCount' >= producerCount
    PROVE  Evolve(t)
  <1>1. Tables' = Tables /\ Producers \subseteq Producers'
    BY DEF Tables, Producers, Inv, HashInv, TypeOK
  <1>2. implicitProducerHash' = Len(tables') /\ tables' \in Seq(AnyTable)
    BY DEF Inv, HashInv, TablesRight
  <1>3. ASSUME NEW h \in Tables
        PROVE  /\ tables'[h].capacity = tables[h].capacity /\ tables'[h].prev = tables[h].prev
               /\ tables'[h].key \in [Slots(h) -> Threads \cup {NoThread}]
               /\ tables'[h].value \in [Slots(h) -> Producers' \cup {NoProducer}]
               /\ \A i \in Slots(h) : /\ tables'[h].key[i] = tables[h].key[i]
                                      /\ tables'[h].value[i] = tables[h].value[i]
    BY <1>1, TableFacts
  <1> QED
    BY <1>1, <1>2, <1>3 DEF Evolve

LEMMA TablesEvolve ==
    ASSUME Inv, NEW t \in Threads, Step(t)
    PROVE  Evolve(t)
  <1>1. LocalsRight(t) /\ TypeOK /\ implicitProducerHash = Len(tables) /\ Len(tables) \in Nat
    BY DEF Inv, HashInv, TablesRight
  <1>2. producerCount' \in Nat /\ producerCount' >= producerCount
    <2>0. producerCount \in Nat
      BY <1>1 DEF TypeOK
    <2>1. CASE CreateProducer(t)
      BY <2>0, <2>1 DEF CreateProducer
    <2>2. CASE Call(t) \/ ProbeTaken(t) \/ ProbeEmpty(t) \/ ProbeFound(t) \/ Count(t)
                 \/ TryLock(t) \/ Allocate(t) \/ NoNeedToResize(t) \/ AllocationFails(t)
      BY <2>0, <2>2 DEF list, Call, ProbeTaken, ProbeEmpty, ProbeFound, Count, TryLock,
         Allocate, NoNeedToResize, AllocationFails
    <2>3. CASE UnlockAndFail(t) \/ Unlock(t) \/ Wait(t) \/ CreationFails(t)
                 \/ LoadListTail(t) \/ LinkProducer(t) \/ InsertTaken(t) \/ Insert(t)
      BY <2>0, <2>3 DEF list, UnlockAndFail, Unlock, Wait, CreationFails, LoadListTail,
         LinkProducer, InsertTaken, Insert
    <2> QED
      BY <2>1, <2>2, <2>3 DEF Step, InsideCall
  <1>3. CASE Allocate(t)
    <2> DEFINE main == mainHash[t]
               old == tables[main].capacity
    <2>1. main = Len(tables) /\ main \in Tables
      BY <1>1, <1>3 DEF Allocate, Goto, LocalsRight
    <2>2. old \in Nat /\ old > 0 /\ newCount[t] \in Nat
      BY <1>1, <2>1, TableFacts DEF TypeOK
    <2>3. PICK c \in 2 * old .. 4 * old * (newCount[t] + 1) :
                tables' = Append(tables, EmptyTable(c, main))
      BY <1>3 DEF Allocate
    <2>4. c \in Nat /\ c > old
      BY <2>2
    <2> DEFINE e == EmptyTable(c, main)
    <2>5. /\ e \in AnyTable /\ e.capacity = c /\ e.prev = main
          /\ e.key = [i \in 0 .. c - 1 |-> NoThread]
          /\ e.value = [i \in 0 .. c - 1 |-> NoProducer]
      BY <1>1, <2>1, <2>4, EmptyTableIs
    <2> HIDE DEF e
    <2>6. /\ tables' \in Seq(AnyTable) /\ Len(tables') = Len(tables) + 1
          /\ \A h \in Tables : tables'[h] = tables[h]
          /\ tables'[Len(tables) + 1] = e
      BY <2>3, <2>5 DEF e, Inv, Tables
    <2>7. implicitProducerHash' = Len(tables')
      BY <1>3, <2>6 DEF Allocate
    <2>8. Tables' = Tables \cup {Len(tables) + 1}
      BY <1>1, <2>6 DEF Tables
    <2>9. ASSUME NEW h \in Tables
          PROVE  /\ tables'[h].capacity = tables[h].capacity
                 /\ tables'[h].prev = tables[h].prev
                 /\ tables'[h].key \in [Slots(h) -> Threads \cup {NoThread}]
                 /\ tables'[h].value \in [Slots(h) -> Producers' \cup {NoProducer}]
                 /\ \A i \in Slots(h) : /\ tables'[h].key[i] = tables[h].key[i]
                                        /\ tables'[h].value[i] = tables[h].value[i]
      <3>1. Producers' = Producers
        BY <1>3 DEF Allocate, list, Producers
      <3> QED
        BY <2>6, <3>1, TableFacts
    <2>10. ASSUME NEW h \in Tables' \ Tables
           PROVE  /\ h = Len(tables) + 1 /\ Tables' = Tables \cup {h}
                  /\ tables'[h].capacity \in Nat /\ tables'[h].prev = h - 1
                  /\ tables'[h].capacity > tables[Len(tables)].capacity
                  /\ tables'[h].key = [i \in 0 .. tables'[h].capacity - 1 |-> NoThread]
                  /\ tables'[h].value = [i \in 0 .. tables'[h].capacity - 1 |-> NoProducer]
      <3>1. h = Len(tables) + 1 /\ tables'[h] = e
        BY <2>6, <2>8
      <3>2. tables'[h].capacity = c /\ tables'[h].prev = main
            /\ tables'[h].key = [i \in 0 .. c - 1 |-> NoThread]
            /\ tables'[h].value = [i \in 0 .. c - 1 |-> NoProducer]
        BY <2>5, <3>1
      <3> QED
        BY <1>1, <2>1, <2>4, <2>8, <3>1, <3>2
    <2>11. ~Insert(t)
      BY <1>3 DEF Allocate, Insert, Goto
    <2> QED
      BY <2>6, <2>7, <2>8, <2>9, <2>10, <2>11 DEF Evolve
  <1>4. CASE Insert(t)
    <2> DEFINE h == mainHash[t]
               i == index[t]
    <2>1. /\ h \in Tables /\ i \in Slots(h) /\ producer[t] \in Producers \cup {NoProducer}
          /\ producer[t] \in Nat
      BY <1>1, <1>4 DEF Insert, LocalsRight, TypeOK, Producers, NoProducer
    <2>2. producerCount' = producerCount /\ Producers' = Producers
      BY <1>4 DEF Insert, list, Producers
    <2>3. tables[h].value \in [Slots(h) -> Nat]
      BY <2>1, TableFacts DEF Producers, NoProducer
    <2>4. /\ tables' \in Seq(AnyTable) /\ Len(tables') = Len(tables)
          /\ \A g \in Tables : g # h => tables'[g] = tables[g]
          /\ tables'[h].capacity = tables[h].capacity /\ tables'[h].prev = tables[h].prev
          /\ tables'[h].key = [tables[h].key EXCEPT ![i] = t]
          /\ tables'[h].value = [tables[h].value EXCEPT ![i] = producer[t]]
      <3>1. tables' = Stored(tables, h, i, t, producer[t])
        BY <1>4 DEF Insert, Stored
      <3>2. StoreNeeds(tables, h, i, t, producer[t])
        BY <2>1, <2>3, TableFacts DEF Inv, Tables, Slots, StoreNeeds
      <3> HIDE DEF h, i
      <3>3. PICK ts, us, g, j, p : /\ ts = tables /\ us = tables' /\ g = h /\ j = i
                                   /\ p = producer[t]
        OBVIOUS
      <3>4. us = Stored(ts, g, j, t, p) /\ StoreNeeds(ts, g, j, t, p)
        BY <3>1, <3>2, <3>3
      <3>5. StoreLeaves(ts, us, g, j, t, p)
        BY ONLY <3>4, StoreInTable
      <3> QED
        BY <3>3, <3>5 DEF Tables, StoreLeaves
    <2>5. Tables' = Tables /\ implicitProducerHash' = Len(tables')
      BY <1>1, <1>4, <2>4 DEF Tables, Insert
    <2>6. /\ mine'[t] = producer[t] /\ pc'[t] = "idle" /\ pc[t] = "insert"
          /\ tables[h].key[i] = NoThread
      <3>1. mine[t] \in {NoProducer, producer[t]} /\ mine \in [Threads -> Producers \cup {NoProducer}]
        BY <1>1, <1>4 DEF Insert, LocalsRight, TypeOK
      <3> QED
        BY <1>1, <1>4, <3>1 DEF Insert, ReturnFrom, Goto, TypeOK
    <2>7. Stores(t, h, i)
      <3>1. /\ tables[h].key \in [Slots(h) -> Threads \cup {NoThread}]
            /\ tables[h].value \in [Slots(h) -> Producers \cup {NoProducer}]
        BY <2>1, TableFacts
      <3>2. tables'[h].key[i] = t /\ tables'[h].value[i] = producer[t]
        BY <2>1, <2>4, <3>1
      <3> QED
        BY <2>6, <3>2 DEF Stores
    <2>8. ASSUME NEW g \in Tables
          PROVE  /\ tables'[g].capacity = tables[g].capacity
                 /\ tables'[g].prev = tables[g].prev
                 /\ tables'[g].key \in [Slots(g) -> Threads \cup {NoThread}]
                 /\ tables'[g].value \in [Slots(g) -> Producers' \cup {NoProducer}]
                 /\ \A j \in Slots(g) :
                      \/ /\ tables'[g].key[j] = tables[g].key[j]
                         /\ tables'[g].value[j] = tables[g].value[j]
                      \/ Stores(t, g, j)
      <3>1. CASE g # h
        BY <2>2, <2>4, <3>1, TableFacts
      <3>2. CASE g = h
        <4>1. /\ tables[h].key \in [Slots(h) -> Threads \cup {NoThread}]
              /\ tables[h].value \in [Slots(h) -> Producers \cup {NoProducer}]
          BY <2>1, TableFacts
        <4>2. ASSUME NEW j \in Slots(h), j # i
              PROVE  /\ tables'[h].key[j] = tables[h].key[j]
                     /\ tables'[h].value[j] = tables[h].value[j]
          BY <2>4, <4>1, <4>2
        <4>5. /\ tables'[h].key \in [Slots(h) -> Threads \cup {NoThread}]
              /\ tables'[h].value \in [Slots(h) -> Producers' \cup {NoProducer}]
          BY <2>1, <2>2, <2>4, <4>1
        <4> QED
          BY <2>4, <2>7, <3>2, <4>2, <4>5
      <3> QED
        BY <3>1, <3>2
    <2> QED
      BY <2>4, <2>5, <2>7, <2>8 DEF Evolve
  <1>5. CASE ~Allocate(t) /\ ~Insert(t)
    <2>1. UNCHANGED <<tables, implicitProducerHash>>
      BY <1>5 DEF Step, InsideCall, shared, Call, ProbeTaken, ProbeEmpty, ProbeFound, Count,
         TryLock, NoNeedToResize, AllocationFails, UnlockAndFail, Unlock, Wait,
         CreateProducer, CreationFails, LoadListTail, LinkProducer, InsertTaken
    <2> QED
      BY <1>2, <1>5, <2>1, TablesUntouched
  <1> QED
    BY <1>3, <1>4, <1>5

LEMMA HashedIdsStay ==
    ASSUME NEW t \in Threads, Step(t) PROVE hashedId' = hashedId
  BY DEF Step, InsideCall, Call, ProbeTaken, ProbeEmpty, ProbeFound,
     Count, TryLock, Allocate, NoNeedToResize, AllocationFails, UnlockAndFail, Unlock, Wait,
     CreateProducer, CreationFails, LoadListTail, LinkProducer, InsertTaken, Insert

LEMMA OldTables ==
    ASSUME Inv, NEW t \in Threads, Step(t), NEW h \in Tables
    PROVE  /\ h \in Tables' /\ Slots(h)' = Slots(h)
           /\ \A u \in Threads : HomeSlot(u, h)' = HomeSlot(u, h)
           /\ \A i, j : Between(i, j, h)' = Between(i, j, h)
           /\ \A u \in Threads : \A i :
                 Between(HomeSlot(u, h), i, h)' = Between(HomeSlot(u, h), i, h)
           /\ \A u \in Threads \ {t} : IsIn(u, h)' <=> IsIn(u, h)
           /\ IsIn(t, h) => IsIn(t, h)'
           /\ IsIn(t, h)' => IsIn(t, h) \/ (h = mainHash[t] /\ pc[t] = "insert"
                                            /\ pc'[t] = "idle" /\ mine'[t] = producer[t])
           /\ \A i \in Slots(h) :
                 tables'[h].key[i] # tables[h].key[i] =>
                    tables[h].key[i] = NoThread /\ tables'[h].key[i] = t
           /\ \A n : Fits(n, h)' <=> Fits(n, h)
  <1>1. Evolve(t) /\ hashedId' = hashedId
    BY TablesEvolve, HashedIdsStay
  <1>2. h \in Tables' /\ tables'[h].capacity = tables[h].capacity
    BY <1>1 DEF Evolve
  <1>3. Slots(h)' = Slots(h)
    BY <1>2 DEF Slots
  <1>4. \A i \in Slots(h) :
            \/ /\ tables'[h].key[i] = tables[h].key[i]
               /\ tables'[h].value[i] = tables[h].value[i]
            \/ Stores(t, h, i)
    BY <1>1 DEF Evolve
  <1>5. /\ \A u \in Threads \ {t} : IsIn(u, h)' <=> IsIn(u, h)
        /\ IsIn(t, h) => IsIn(t, h)'
        /\ IsIn(t, h)' => IsIn(t, h) \/ (h = mainHash[t] /\ pc[t] = "insert"
                                         /\ pc'[t] = "idle" /\ mine'[t] = producer[t])
    BY <1>3, <1>4, HashAssumption DEF IsIn, Stores
  <1>6. \A i, j : Between(i, j, h)' = Between(i, j, h)
    BY <1>3 DEF Between
  <1>7. \A u \in Threads : HomeSlot(u, h)' = HomeSlot(u, h)
    BY <1>1, <1>2 DEF HomeSlot
  <1>8. \A n : Fits(n, h)' <=> Fits(n, h)
    BY <1>2 DEF Fits
  <1>9. ASSUME NEW u \in Threads, NEW i
        PROVE  Between(HomeSlot(u, h), i, h)' = Between(HomeSlot(u, h), i, h)
    BY <1>3, <1>7 DEF Between
  <1> QED
    BY <1>2, <1>3, <1>4, <1>5, <1>6, <1>7, <1>8, <1>9 DEF Stores

LEMMA NewTables ==
    ASSUME Inv, NEW t \in Threads, Step(t), NEW h \in Tables', h \notin Tables
    PROVE  /\ h = Len(tables) + 1 /\ Tables' = Tables \cup {h}
           /\ \A u \in Threads : ~IsIn(u, h)'
           /\ Slots(h)' = 0 .. tables'[h].capacity - 1
           /\ tables'[h].capacity \in Nat /\ tables'[h].prev = h - 1
           /\ tables'[h].capacity > tables[Len(tables)].capacity
           /\ \A i \in Slots(h)' : tables'[h].key[i] = NoThread
  <1>1. /\ h = Len(tables) + 1 /\ Tables' = Tables \cup {h}
        /\ tables'[h].capacity \in Nat /\ tables'[h].prev = h - 1
        /\ tables'[h].capacity > tables[Len(tables)].capacity
        /\ tables'[h].key = [i \in 0 .. tables'[h].capacity - 1 |-> NoThread]
    BY TablesEvolve DEF Evolve
  <1>2. Slots(h)' = 0 .. tables'[h].capacity - 1
    BY DEF Slots
  <1>3. \A i \in Slots(h)' : tables'[h].key[i] = NoThread
    BY <1>1, <1>2
  <1>4. \A u \in Threads : ~IsIn(u, h)'
    BY <1>3, HashAssumption DEF IsIn
  <1> QED
    BY <1>1, <1>2, <1>3, <1>4

\* A thread is where it is by its own hand: in a table with a sub-queue.
LEMMA PlacedHaveOne ==
    ASSUME Inv, NEW t \in Threads
    PROVE  mine[t] # NoProducer <=> \E h \in Tables : IsIn(t, h)
  <1>1. ASSUME NEW h \in Tables, IsIn(t, h) PROVE mine[t] # NoProducer
    <2>1. PICK i \in Slots(h) : tables[h].key[i] = t
      BY <1>1 DEF IsIn
    <2> QED
      BY <2>1, HashAssumption DEF Inv, HashInv, TablesRight
  <1> QED
    BY <1>1 DEF Inv, HashInv, LocalsRight

-----------------------------------------------------------------------------
(* The tables stay right *)

LEMMA StepTablesRight ==
    ASSUME Inv, NEW t \in Threads, Step(t) PROVE TablesRight'
  <1>1. /\ Evolve(t) /\ TablesRight /\ LocalsRight(t) /\ Len(tables) \in Nat
        /\ implicitProducerHash \in Tables
    BY TablesEvolve DEF Inv, HashInv, TypeOK
  <1>2. implicitProducerHash' = Len(tables')
    BY <1>1 DEF Evolve
  <1>3. ASSUME NEW h \in Tables'
        PROVE  /\ tables'[h].prev = h - 1
               /\ tables'[h].capacity > 0
               /\ \A g \in 1 .. h : tables'[g].capacity <= tables'[h].capacity
    <2>1. CASE h \in Tables
      <3>1. \A g \in 1 .. h : g \in Tables
        BY <1>1, <2>1 DEF Tables
      <3> QED
        BY <1>1, <2>1, <3>1 DEF Evolve, TablesRight
    <2>2. CASE h \notin Tables
      <3>1. Len(tables) \in Tables /\ tables[Len(tables)].capacity \in Nat
            /\ tables[Len(tables)].capacity > 0
        <4>1. Len(tables) \in Tables
          BY <1>1 DEF TablesRight
        <4> QED
          BY <4>1, TableFacts
      <3>2. h = Len(tables) + 1 /\ tables'[h].capacity \in Nat /\ tables'[h].prev = h - 1
            /\ tables'[h].capacity > tables[Len(tables)].capacity
        BY <2>2, NewTables
      <3>3. ASSUME NEW g \in 1 .. h PROVE tables'[g].capacity <= tables'[h].capacity
        <4>1. CASE g = h
          BY <3>2, <4>1
        <4>2. CASE g # h
          <5>1. g \in Tables /\ g \in 1 .. Len(tables)
            BY <1>1, <3>2, <4>2 DEF Tables
          <5>2. tables'[g].capacity = tables[g].capacity /\ tables[g].capacity \in Nat
            BY <1>1, <5>1, TableFacts DEF Evolve
          <5>3. tables[g].capacity <= tables[Len(tables)].capacity
            BY <1>1, <3>1, <5>1 DEF TablesRight
          <5> QED
            BY <3>1, <3>2, <5>2, <5>3
        <4> QED
          BY <4>1, <4>2
      <3> QED
        BY <3>1, <3>2, <3>3
    <2> QED
      BY <2>1, <2>2
  <1>4. ASSUME NEW h \in Tables', NEW i \in Slots(h)', NEW u \in Threads,
               tables'[h].key[i] = u
        PROVE  /\ mine'[u] # NoProducer /\ tables'[h].value[i] = mine'[u]
               /\ Passed(u, h, i)'
               /\ \A j \in Slots(h)' : tables'[h].key[j] = u => j = i
    <2>1. h \in Tables
      BY <1>4, NewTables, HashAssumption
    <2>2. i \in Slots(h)
      BY <2>1, OldTables
    <2>4. Between(HomeSlot(u, h), i, h)' = Between(HomeSlot(u, h), i, h)
          /\ Between(HomeSlot(u, h), i, h) \subseteq Slots(h) /\ Slots(h)' = Slots(h)
      BY <2>1, OldTables DEF Between
    <2>5. CASE Stores(t, h, i)
      <3>1. u = t /\ mine'[t] = producer[t] /\ tables'[h].value[i] = producer[t]
            /\ h = mainHash[t] /\ i = index[t] /\ pc[t] = "insert" /\ t # NoThread
        BY <1>4, <2>5, HashAssumption DEF Stores
      <3>2. /\ ~IsIn(t, h) /\ producer[t] \in Listed
            /\ \A j \in Between(HomeSlot(t, h), i, h) : tables[h].key[j] # NoThread
        BY <1>1, <3>1 DEF LocalsRight, Passed
      <3>3. producer[t] # NoProducer
        BY <3>2 DEF Listed, Producers, NoProducer
      <3>4. \A j \in Between(HomeSlot(t, h), i, h) : tables'[h].key[j] # NoThread
        BY <2>1, <2>4, <3>1, <3>2, OldTables
      <3>5. ASSUME NEW j \in Slots(h), tables'[h].key[j] = t PROVE j = i
        <4>1. tables[h].key[j] # t
          BY <3>2 DEF IsIn
        <4>2. Stores(t, h, j)
          BY <1>1, <2>1, <3>5, <4>1 DEF Evolve
        <4> QED
          BY <3>1, <4>2 DEF Stores
      <3> QED
        BY <2>4, <3>1, <3>3, <3>4, <3>5 DEF Passed
    <2>6. CASE tables'[h].key[i] = tables[h].key[i] /\ tables'[h].value[i] = tables[h].value[i]
      <3>1. /\ mine[u] # NoProducer /\ tables[h].value[i] = mine[u]
            /\ \A j \in Between(HomeSlot(u, h), i, h) : tables[h].key[j] # NoThread
            /\ \A j \in Slots(h) : tables[h].key[j] = u => j = i
        BY <1>1, <1>4, <2>1, <2>2, <2>6, HashAssumption DEF TablesRight, Passed
      <3>2. mine'[u] = mine[u]
        BY <3>1, MineStays
      <3>3. \A j \in Between(HomeSlot(u, h), i, h) : tables'[h].key[j] # NoThread
        BY <2>1, <2>4, <3>1, OldTables, HashAssumption
      <3>4. ASSUME NEW j \in Slots(h), tables'[h].key[j] = u PROVE j = i
        <4>1. CASE tables[h].key[j] = u
          BY <3>1, <4>1
        <4>2. CASE tables[h].key[j] # u
          <5>1. Stores(t, h, j)
            BY <1>1, <2>1, <3>4, <4>2 DEF Evolve
          <5>2. u = t /\ ~IsIn(t, h)
            BY <1>1, <3>4, <5>1 DEF Stores, LocalsRight
          <5> QED
            BY <1>4, <2>2, <2>6, <5>2 DEF IsIn
        <4> QED
          BY <4>1, <4>2
      <3> QED
        BY <2>4, <2>6, <3>1, <3>2, <3>3, <3>4 DEF Passed
    <2> QED
      BY <1>1, <2>1, <2>2, <2>5, <2>6 DEF Evolve
  <1>5. ASSUME NEW h \in Tables', NEW i \in Slots(h)'
        PROVE  tables'[h].key[i] \in Threads \cup {NoThread}
    BY <1>1, <1>5, OldTables, NewTables DEF Evolve
  <1> QED
    BY <1>2, <1>3, <1>4, <1>5 DEF TablesRight

-----------------------------------------------------------------------------
(* The resize lock *)

Inside(t) == pc[t] \in {"resize", "unlock", "failed"}
LockParts ==
    /\ resizeInProgress <=> \E t \in Threads : Inside(t)
    /\ \A t, u \in Threads : Inside(t) /\ Inside(u) => t = u

LEMMA LockSaid == ASSUME resizeInProgress \in BOOLEAN PROVE LockIsHeld <=> LockParts
  <1> DEFINE inside == {t \in Threads : pc[t] \in {"resize", "unlock", "failed"}}
  <1>1. IsFiniteSet(inside)
    BY FS_Subset, HashAssumption
  <1>2. Cardinality(inside) = 0 <=> inside = {}
    BY <1>1, FS_EmptySet
  <1>3. Cardinality(inside) = 1 <=> \E t : inside = {t}
    BY <1>1, FS_Singleton
  <1>4. ASSUME LockIsHeld PROVE LockParts
    <2>1. CASE resizeInProgress
      <3>1. PICK t : inside = {t}
        BY <1>3, <1>4, <2>1 DEF LockIsHeld
      <3> QED
        BY <2>1, <3>1 DEF LockParts, Inside
    <2>2. CASE ~resizeInProgress
      <3>1. inside = {}
        BY <1>2, <1>4, <2>2 DEF LockIsHeld
      <3> QED
        BY <2>2, <3>1 DEF LockParts, Inside
    <2> QED
      BY <2>1, <2>2
  <1>5. ASSUME LockParts PROVE LockIsHeld
    <2>1. CASE resizeInProgress
      <3>1. PICK t \in Threads : Inside(t)
        BY <1>5, <2>1 DEF LockParts
      <3>2. inside = {t}
        BY <1>5, <3>1 DEF LockParts, Inside
      <3>3. Cardinality(inside) = 1
        BY <1>3, <3>2
      <3> QED
        BY <2>1, <3>3 DEF LockIsHeld
    <2>2. CASE ~resizeInProgress
      <3>1. inside = {}
        BY <1>5, <2>2 DEF LockParts, Inside
      <3>2. Cardinality(inside) = 0
        BY <1>2, <3>1
      <3> QED
        BY <2>2, <3>2 DEF LockIsHeld
    <2> QED
      BY <2>1, <2>2
  <1> QED
    BY <1>4, <1>5

LEMMA StepLock ==
    ASSUME Inv, NEW t \in Threads, Step(t) PROVE LockParts' /\ resizeInProgress' \in BOOLEAN
  <1>1. OthersStay(t) /\ LockParts /\ TypeOK
    BY StepIsLocal, LockSaid DEF Inv, HashInv, TypeOK
  <1>2. \A u \in Threads \ {t} : Inside(u)' <=> Inside(u)
    BY <1>1 DEF OthersStay, Inside
  <1> USE DEF Goto, ReturnFrom, shared
  <1>3. CASE TryLock(t)
    <2>1. pc[t] = "grow" /\ resizeInProgress \in BOOLEAN
      BY <1>1, <1>3 DEF TryLock, TypeOK
    <2>2. \/ ~resizeInProgress /\ resizeInProgress' = TRUE /\ pc'[t] = "resize"
          \/ resizeInProgress' = resizeInProgress /\ pc'[t] = "fits"
      BY <1>1, <1>3 DEF TryLock, TypeOK
    <2>3. CASE pc'[t] = "resize"
      <3>1. ~resizeInProgress /\ resizeInProgress' = TRUE /\ ~Inside(t) /\ Inside(t)'
        BY <2>1, <2>2, <2>3 DEF Inside
      <3> QED
        BY <1>1, <1>2, <3>1 DEF LockParts
    <2>4. CASE pc'[t] = "fits"
      <3>1. resizeInProgress' = resizeInProgress /\ ~Inside(t) /\ ~Inside(t)'
        BY <2>1, <2>2, <2>4 DEF Inside
      <3> QED
        BY <1>1, <1>2, <2>1, <3>1 DEF LockParts
    <2> QED
      BY <2>2, <2>3, <2>4
  <1>4. CASE UnlockAndFail(t) \/ Unlock(t)
    <2>1. Inside(t) /\ ~Inside(t)' /\ resizeInProgress' = FALSE
      BY <1>1, <1>4 DEF UnlockAndFail, Unlock, TypeOK, Inside
    <2> QED
      BY <1>1, <1>2, <2>1 DEF LockParts
  <1>5. CASE ~(TryLock(t) \/ UnlockAndFail(t) \/ Unlock(t))
    <2>1. resizeInProgress' = resizeInProgress /\ (Inside(t)' <=> Inside(t))
      <3>1. CASE Call(t) \/ ProbeTaken(t) \/ ProbeEmpty(t) \/ ProbeFound(t) \/ Count(t)
        BY <1>1, <3>1 DEF Call, ProbeTaken, ProbeEmpty, ProbeFound, Count, TypeOK, Inside
      <3>2. CASE Allocate(t) \/ NoNeedToResize(t) \/ AllocationFails(t) \/ Wait(t)
        BY <1>1, <3>2 DEF Allocate, NoNeedToResize, AllocationFails, Wait, TypeOK, Inside
      <3>3. CASE CreateProducer(t) \/ CreationFails(t) \/ LoadListTail(t) \/ LinkProducer(t)
        BY <1>1, <3>3 DEF CreateProducer, CreationFails, LoadListTail, LinkProducer, Linked,
                          TypeOK, Inside
      <3>4. CASE InsertTaken(t) \/ Insert(t)
        BY <1>1, <3>4 DEF InsertTaken, Insert, TypeOK, Inside
      <3> QED
        BY <1>5, <3>1, <3>2, <3>3, <3>4 DEF Step, InsideCall
    <2>2. resizeInProgress \in BOOLEAN
      BY <1>1 DEF TypeOK
    <2> QED
      BY <1>1, <1>2, <2>1, <2>2 DEF LockParts
  <1> QED
    BY <1>3, <1>4, <1>5

-----------------------------------------------------------------------------
(* The list of producers *)

\* Producers stay on the list, and the one that is linked joins them.
LEMMA StepListed ==
    ASSUME Inv, NEW t \in Threads, Step(t)
    PROVE  /\ Listed \subseteq Listed'
           /\ LinkProducer(t) /\ pc'[t] = "insert" => producer[t] \in Listed'
           /\ producerCount' \in Nat /\ Producers \subseteq Producers'
           /\ producerListTail' \in Producers' \cup {NoProducer}
           /\ nextProducer' \in [Producers' -> Producers' \cup {NoProducer}]
           /\ \A n \in Producers : nextProducer'[n] # nextProducer[n] => Linked(t) /\ n = producer[t]
           /\ CreateProducer(t) => /\ producerCount + 1 \in Producers' \ Producers
                                   /\ nextProducer'[producerCount + 1] = NoProducer
  <1>1. TypeOK /\ LocalsRight(t)
    BY DEF Inv, HashInv
  <1>2. /\ producerCount \in Nat /\ nextProducer \in [Producers -> Producers \cup {NoProducer}]
        /\ producerListTail \in Producers \cup {NoProducer}
    BY <1>1 DEF TypeOK
  <1>3. CASE CreateProducer(t)
    <2>1. /\ producerCount' = producerCount + 1 /\ producerListTail' = producerListTail
          /\ nextProducer' = Append(nextProducer, NoProducer)
      BY <1>3 DEF CreateProducer
    <2>3. /\ Producers' = Producers \cup {producerCount + 1}
          /\ \A n \in Producers : nextProducer'[n] = nextProducer[n]
          /\ nextProducer'[producerCount + 1] = NoProducer
          /\ nextProducer' \in [Producers' -> Producers' \cup {NoProducer}]
      <3>1. Producers' = Producers \cup {producerCount + 1}
        BY <1>2, <2>1 DEF Producers
      <3>2. /\ nextProducer' \in [1 .. producerCount + 1 -> Producers \cup {NoProducer}]
            /\ \A n \in Producers : nextProducer'[n] = nextProducer[n]
            /\ nextProducer'[producerCount + 1] = NoProducer
        <4>1. PICK T : T = Producers \cup {NoProducer}
          OBVIOUS
        <4>2. PICK n \in Nat : n = producerCount
          BY <1>2
        <4>3. PICK f \in [1 .. n -> T] : f = nextProducer
          BY <1>2, <4>1, <4>2 DEF Producers
        <4>4. NoProducer \in T
          BY <4>1
        <4>5. PICK g : g = Append(f, NoProducer)
          OBVIOUS
        <4>6. /\ g \in [1 .. n + 1 -> T]
              /\ \A i \in 1 .. n : g[i] = f[i]
              /\ g[n + 1] = NoProducer
          <5>1. f \in Seq(T) /\ Len(f) = n
            OBVIOUS
          <5>2. /\ g \in Seq(T) /\ Len(g) = n + 1
                /\ \A i \in 1 .. n : g[i] = f[i]
                /\ g[n + 1] = NoProducer
            BY <4>4, <4>5, <5>1
          <5> QED
            BY <5>2, LenProperties
        <4>10. nextProducer' = g
          BY <2>1, <4>3, <4>5
        <4>7. nextProducer' \in [1 .. n + 1 -> T]
          BY <4>6, <4>10
        <4>8. nextProducer'[n + 1] = NoProducer
          BY <4>6, <4>10
        <4>9. \A i \in 1 .. n : nextProducer'[i] = nextProducer[i]
          BY <4>3, <4>6, <4>10
        <4> QED
          BY <4>1, <4>2, <4>7, <4>8, <4>9 DEF Producers
      <3>3. nextProducer' \in [Producers' -> Producers \cup {NoProducer}]
        BY <2>1, <3>2 DEF Producers
      <3> QED
        BY <3>1, <3>2, <3>3
    <2>4. ASSUME NEW S \in SUBSET (Producers'), ListClosed(S)'
          PROVE  ListClosed(S \cap Producers)
      BY <1>2, <2>1, <2>3, <2>4 DEF ListClosed
    <2>5. Listed \subseteq Listed'
      BY <2>3, <2>4 DEF Listed
    <2> QED
      BY <1>2, <1>3, <2>1, <2>3, <2>5 DEF CreateProducer, LinkProducer, Goto
  <1>4. CASE LinkProducer(t) /\ producerListTail = prevTail[t]
    <2> DEFINE p == producer[t]
    <2>1. /\ p \in Producers /\ nextProducer[p] = NoProducer /\ Linked(t)
          /\ producerCount' = producerCount /\ producerListTail' = p
          /\ nextProducer' = [nextProducer EXCEPT ![p] = producerListTail]
      BY <1>1, <1>4 DEF LinkProducer, Linked, LocalsRight
    <2>2. Producers' = Producers
      BY <2>1 DEF Producers
    <2>3. /\ nextProducer'[p] = producerListTail
          /\ \A n \in Producers : n # p => nextProducer'[n] = nextProducer[n]
          /\ nextProducer' \in [Producers' -> Producers' \cup {NoProducer}]
      BY <1>2, <2>1, <2>2
    <2>4. ASSUME NEW S \in SUBSET Producers, ListClosed(S)'
          PROVE  ListClosed(S) /\ p \in S
      <3>1. p \in S
        BY <2>1, <2>4, <1>2 DEF ListClosed, Producers, NoProducer
      <3> QED
        BY <1>2, <2>1, <2>3, <2>4, <3>1 DEF ListClosed
    <2>5. Listed \subseteq Listed' /\ p \in Listed'
      BY <2>1, <2>2, <2>4 DEF Listed
    <2>6. ~CreateProducer(t)
      BY <2>1 DEF Linked, CreateProducer, Goto
    <2> QED
      BY <1>2, <2>1, <2>2, <2>3, <2>5, <2>6
  <1>5. CASE ~CreateProducer(t) /\ ~(LinkProducer(t) /\ producerListTail = prevTail[t])
    <2>1. UNCHANGED list /\ ~(LinkProducer(t) /\ pc'[t] = "insert")
      <3>1. CASE LinkProducer(t)
        BY <1>1, <1>5, <3>1 DEF LinkProducer, list, Goto, TypeOK
      <3>2. CASE ~LinkProducer(t)
        BY <1>5, <3>2 DEF Step, InsideCall, list, Call, ProbeTaken, ProbeEmpty, ProbeFound,
           Count, TryLock, Allocate, NoNeedToResize, AllocationFails, UnlockAndFail, Unlock,
           Wait, CreationFails, LoadListTail, InsertTaken, Insert
      <3> QED
        BY <3>1, <3>2
    <2>2. Producers' = Producers
      BY <2>1 DEF list, Producers
    <2>3. Listed' = Listed
      BY <2>1, <2>2 DEF Listed, ListClosed, list
    <2> QED
      BY <1>2, <1>5, <2>1, <2>2, <2>3 DEF list
  <1> QED
    BY <1>3, <1>4, <1>5

-----------------------------------------------------------------------------
(* The locals of the other threads *)

\* What a search has passed stays so.
LEMMA SearchStays ==
    ASSUME Inv, NEW t \in Threads, Step(t), NEW h \in Tables, NEW u \in Threads, NEW i
    PROVE  /\ Passed(u, h, i) => Passed(u, h, i)'
           /\ Searched(u, h, i) /\ u # t => Searched(u, h, i)'
  <1>1. Between(HomeSlot(u, h), i, h)' = Between(HomeSlot(u, h), i, h)
    BY OldTables
  <1>2. Between(HomeSlot(u, h), i, h) \subseteq Slots(h)
    BY DEF Between
  <1>3. \A j \in Slots(h) : tables'[h].key[j] # tables[h].key[j] =>
                                tables[h].key[j] = NoThread /\ tables'[h].key[j] = t
    BY OldTables
  <1> QED
    BY <1>1, <1>2, <1>3, HashAssumption DEF Passed, Searched

LEMMA OtherLocals ==
    ASSUME Inv, NEW t \in Threads, Step(t), NEW u \in Threads \ {t}
    PROVE  LocalsRight(u)'
  <1>1. /\ OthersStay(t) /\ Evolve(t) /\ LocalsRight(u) /\ TypeOK /\ LockParts
        /\ OwnersApart /\ LocalsRight(t)
    BY StepIsLocal, TablesEvolve, LockSaid DEF Inv, HashInv, TypeOK
  <1>2. /\ pc'[u] = pc[u] /\ mainHash'[u] = mainHash[u] /\ hash'[u] = hash[u]
        /\ index'[u] = index[u] /\ producer'[u] = producer[u] /\ mine'[u] = mine[u]
    BY <1>1 DEF OthersStay
  <1>3. ASSUME NEW h \in Tables' PROVE IsIn(u, h)' <=> h \in Tables /\ IsIn(u, h)
    BY OldTables, NewTables
  <1>4. mine[u] # NoProducer => \E h \in Tables' : IsIn(u, h)'
    BY <1>1, <1>3 DEF LocalsRight, Evolve
  <1>5. Tables \subseteq Tables'
    BY <1>1 DEF Evolve
  <1>6. pc[u] \in {"probe", "insert"} => \A h \in Tables' : IsIn(u, h)' => h <= mainHash[u]
    BY <1>1, <1>3 DEF LocalsRight
  <1>7. ASSUME pc[u] = "probe"
        PROVE  /\ index[u] \in Slots(hash[u])'
               /\ \A h \in hash[u] + 1 .. mainHash[u] : ~IsIn(u, h)'
               /\ Searched(u, hash[u], index[u])'
    <2>1. PICK h, i : h = hash[u] /\ i = index[u]
      OBVIOUS
    <2>2. /\ h \in 1 .. mainHash[u] /\ i \in Slots(h) /\ mainHash[u] \in Tables
          /\ \A g \in h + 1 .. mainHash[u] : ~IsIn(u, g)
          /\ Searched(u, h, i)
      BY <1>1, <1>7, <2>1 DEF LocalsRight
    <2>3. h \in Tables /\ \A g \in h + 1 .. mainHash[u] : g \in Tables
      BY <2>2 DEF Tables, Inv
    <2>4. i \in Slots(h)' /\ Searched(u, h, i)'
      BY <2>2, <2>3, OldTables, SearchStays
    <2>5. \A g \in h + 1 .. mainHash[u] : ~IsIn(u, g)'
      BY <2>2, <2>3, OldTables
    <2>6. hash'[u] = h /\ index'[u] = i
      BY <1>2, <2>1
    <2>7. index[u] \in Slots(hash[u])'
      BY <1>2, <2>1, <2>4, <2>6 DEF Slots
    <2>8. Searched(u, hash[u], index[u])'
      BY <2>4, <2>6 DEF Searched, Between, HomeSlot, Slots
    <2> QED
      BY <2>1, <2>5, <2>7, <2>8
  <1>8. pc[u] = "resize" => mainHash[u] = implicitProducerHash'
    <2>1. ASSUME pc[u] = "resize" PROVE implicitProducerHash' = implicitProducerHash
      <3>1. ~Allocate(t)
        BY <1>1, <2>1 DEF LockParts, Inside, Allocate, Goto
      <3> QED
        BY <3>1 DEF Step, InsideCall, shared, Call, ProbeTaken, ProbeEmpty, ProbeFound, Count,
           TryLock, NoNeedToResize, AllocationFails, UnlockAndFail, Unlock, Wait,
           CreateProducer, CreationFails, LoadListTail, LinkProducer, InsertTaken, Insert
    <2> QED
      BY <1>1, <2>1 DEF LocalsRight
  <1>9. ASSUME pc[u] \in {"list", "link"}
        PROVE  producer[u] \in Producers' /\ nextProducer'[producer[u]] = NoProducer
    <2>1. producer[u] \in Producers /\ nextProducer[producer[u]] = NoProducer
      BY <1>1, <1>9 DEF LocalsRight
    <2>2. producer[u] # producer[t]
      BY <1>1, <2>1 DEF OwnersApart, Owned, Producers, NoProducer
    <2> QED
      BY <2>1, <2>2, StepListed
  <1>10. ASSUME pc[u] = "insert"
         PROVE  /\ index[u] \in Slots(mainHash[u])' /\ ~IsIn(u, mainHash[u])'
                /\ producer[u] \in Listed'
                /\ mine[u] \in {NoProducer, producer[u]}
                /\ Passed(u, mainHash[u], index[u])'
    <2>1. PICK h, i : h = mainHash[u] /\ i = index[u]
      OBVIOUS
    <2>2. /\ h \in Tables /\ i \in Slots(h) /\ ~IsIn(u, h) /\ Passed(u, h, i)
          /\ producer[u] \in Listed /\ mine[u] \in {NoProducer, producer[u]}
      BY <1>1, <1>10, <2>1 DEF LocalsRight
    <2>3. i \in Slots(h)' /\ ~IsIn(u, h)' /\ Passed(u, h, i)'
      BY <2>2, OldTables, SearchStays
    <2>4. mainHash'[u] = h /\ index'[u] = i
      BY <1>2, <2>1
    <2>5. index[u] \in Slots(mainHash[u])' /\ ~IsIn(u, mainHash[u])'
      BY <2>1, <2>3, <2>4 DEF Slots, IsIn
    <2>6. Passed(u, mainHash[u], index[u])'
      BY <2>3, <2>4 DEF Passed, Between, HomeSlot, Slots
    <2> QED
      BY <2>2, <2>5, <2>6, StepListed
  <1> QED
    BY <1>1, <1>2, <1>4, <1>5, <1>6, <1>7, <1>8, <1>9, <1>10 DEF LocalsRight

-----------------------------------------------------------------------------
(* The locals of the thread that moves *)

\* At an empty slot a search that has not found the thread ends: it is not there.
LEMMA NotHere ==
    ASSUME Inv, NEW t \in Threads, NEW h \in Tables, NEW i \in Slots(h),
           tables[h].key[i] = NoThread, Searched(t, h, i)
    PROVE  ~IsIn(t, h)
  <1> SUFFICES ASSUME NEW j \in Slots(h), tables[h].key[j] = t PROVE FALSE
    BY DEF IsIn
  <1>1. j # i /\ t # NoThread
    BY HashAssumption
  <1>2. tables[h].capacity \in Nat /\ HomeSlot(t, h) \in Slots(h)
    BY TableFacts
  <1>3. CASE i \in Between(HomeSlot(t, h), j, h)
    <2>1. Passed(t, h, j)
      BY <1>1 DEF Inv, HashInv, TablesRight
    <2> QED
      BY <1>3, <2>1 DEF Passed
  <1>4. CASE j \in Between(HomeSlot(t, h), i, h)
    BY <1>4 DEF Searched
  <1> QED
    BY <1>1, <1>2, <1>3, <1>4, EitherFirst

LEMMA OwnPlace ==
    ASSUME Inv, NEW t \in Threads, Step(t), mine'[t] # NoProducer
    PROVE  \E h \in Tables' : IsIn(t, h)'
  <1>1. LocalsRight(t) /\ Evolve(t)
    BY TablesEvolve DEF Inv, HashInv
  <1>2. CASE mine'[t] = mine[t]
    <2>1. PICK h \in Tables : IsIn(t, h)
      BY <1>1, <1>2 DEF LocalsRight
    <2> QED
      BY <2>1, OldTables
  <1>3. CASE mine'[t] # mine[t]
    <2>1. PICK h, i : h = mainHash[t] /\ i = index[t]
      OBVIOUS
    <2>2. pc[t] = "insert" /\ tables'[h].key[i] = t
      BY <1>1, <1>3, <2>1, MineStays DEF Evolve, Stores
    <2>3. h \in Tables /\ i \in Slots(h)
      BY <1>1, <2>1, <2>2 DEF LocalsRight
    <2>4. i \in Slots(h)' /\ h \in Tables'
      BY <2>3, OldTables
    <2> QED
      BY <2>2, <2>4 DEF IsIn
  <1> QED
    BY <1>2, <1>3

LEMMA SameTables ==
    ASSUME UNCHANGED <<tables, hashedId>>
    PROVE  /\ Tables' = Tables
           /\ \A h : Slots(h)' = Slots(h)
           /\ \A u, h : IsIn(u, h)' <=> IsIn(u, h)
           /\ \A u, h, i : Searched(u, h, i)' <=> Searched(u, h, i)
           /\ \A u, h, i : Passed(u, h, i)' <=> Passed(u, h, i)
  BY DEF Tables, Slots, IsIn, Searched, Passed, Between, HomeSlot

LEMMA ProbesOn ==
    ASSUME Inv, NEW t \in Threads, Step(t), UNCHANGED tables, pc'[t] = "probe",
           NEW m \in Tables, NEW h \in 1 .. m, NEW i \in Slots(h),
           mainHash'[t] = m, hash'[t] = h, index'[t] = i,
           \A g \in Tables : IsIn(t, g) => g <= m,
           \A g \in h + 1 .. m : ~IsIn(t, g), Searched(t, h, i)
    PROVE  LocalsRight(t)'
  <1>1. UNCHANGED <<tables, hashedId>>
    BY HashedIdsStay
  <1>2. /\ m \in Tables' /\ i \in Slots(h)' /\ Searched(t, h, i)'
        /\ \A g \in Tables' : IsIn(t, g)' => g <= m
        /\ \A g \in h + 1 .. m : ~IsIn(t, g)'
    BY <1>1, SameTables
  <1>3. index'[t] \in Slots(hash[t])'
    BY <1>2 DEF Slots
  <1>4. Searched(t, hash[t], index[t])'
    BY <1>2 DEF Searched, Between, HomeSlot, Slots
  <1> QED
    BY <1>2, <1>3, <1>4, OwnPlace DEF LocalsRight

LEMMA InsertsOn ==
    ASSUME Inv, NEW t \in Threads, Step(t), UNCHANGED tables, pc'[t] = "insert",
           NEW m \in Tables, NEW i \in Slots(m), mainHash'[t] = m, index'[t] = i,
           \A g \in Tables : IsIn(t, g) => g <= m,
           ~IsIn(t, m), Passed(t, m, i),
           producer'[t] \in Listed', mine'[t] \in {NoProducer, producer'[t]}
    PROVE  LocalsRight(t)'
  <1>1. UNCHANGED <<tables, hashedId>>
    BY HashedIdsStay
  <1>2. /\ m \in Tables' /\ i \in Slots(m)' /\ Passed(t, m, i)' /\ ~IsIn(t, m)'
        /\ \A g \in Tables' : IsIn(t, g)' => g <= m
    BY <1>1, SameTables
  <1>3. index'[t] \in Slots(mainHash[t])' /\ ~IsIn(t, mainHash[t])'
    BY <1>2 DEF Slots, IsIn
  <1>4. Passed(t, mainHash[t], index[t])'
    BY <1>2 DEF Passed, Between, HomeSlot, Slots
  <1> QED
    BY <1>2, <1>3, <1>4, OwnPlace DEF LocalsRight

LEMMA GoesOn ==
    ASSUME Inv, NEW t \in Threads, Step(t), pc'[t] \notin {"probe", "insert"},
           pc'[t] # "idle" => mainHash'[t] \in Tables' /\ mine'[t] = NoProducer,
           pc'[t] = "resize" => mainHash'[t] = implicitProducerHash',
           pc'[t] \in {"list", "link"} =>
              producer'[t] \in Producers' /\ nextProducer'[producer'[t]] = NoProducer
    PROVE  LocalsRight(t)'
  BY OwnPlace DEF LocalsRight

LEMMA OwnLocals ==
    ASSUME Inv, NEW t \in Threads, Step(t) PROVE LocalsRight(t)'
  <1>1. /\ LocalsRight(t) /\ TypeOK /\ TablesRight /\ Evolve(t)
        /\ Len(tables) \in Nat /\ implicitProducerHash = Len(tables)
        /\ implicitProducerHash \in Tables /\ pc \in [Threads -> Steps]
        /\ index \in [Threads -> Nat] /\ hash \in [Threads -> Tables \cup {NoTable}]
        /\ mainHash \in [Threads -> Tables \cup {NoTable}]
        /\ producer \in [Threads -> Producers \cup {NoProducer}]
        /\ mine \in [Threads -> Producers \cup {NoProducer}]
    <2>1. /\ LocalsRight(t) /\ TypeOK /\ TablesRight /\ Evolve(t)
          /\ tables \in Seq(AnyTable)
      BY TablesEvolve DEF Inv, HashInv
    <2>2. Len(tables) \in Nat /\ implicitProducerHash = Len(tables)
      BY <2>1 DEF TablesRight
    <2>3. /\ implicitProducerHash \in Tables /\ pc \in [Threads -> Steps]
          /\ index \in [Threads -> Nat] /\ hash \in [Threads -> Tables \cup {NoTable}]
          /\ mainHash \in [Threads -> Tables \cup {NoTable}]
          /\ producer \in [Threads -> Producers \cup {NoProducer}]
          /\ mine \in [Threads -> Producers \cup {NoProducer}]
      BY <2>1 DEF TypeOK
    <2> QED
      BY <2>1, <2>2, <2>3
  <1> USE DEF Goto
  <1>2. CASE Call(t)
    <2>1. PICK m, i : m = implicitProducerHash /\ i = HomeSlot(t, m)
      OBVIOUS
    <2>2. /\ UNCHANGED tables /\ pc'[t] = "probe" /\ mainHash'[t] = m /\ hash'[t] = m
          /\ index'[t] = i
      BY <1>1, <1>2, <2>1 DEF Call, shared
    <2>3. m \in Tables /\ m \in 1 .. m /\ i \in Slots(m)
      BY <1>1, <2>1, TableFacts
    <2>4. \A g \in Tables : g <= m
      BY <1>1, <2>1 DEF Tables
    <2>5. Searched(t, m, i)
      <3>1. Between(i, i, m) = {}
        BY <2>3, NextSlot, TableFacts
      <3> QED
        BY <2>1, <3>1 DEF Searched
    <2>6. \A g \in m + 1 .. m : ~IsIn(t, g)
      BY <2>3, <1>1, <2>1
    <2> QED
      BY <2>2, <2>3, <2>4, <2>5, <2>6, ProbesOn
  <1>3. ASSUME pc[t] = "probe"
        PROVE  \E m \in Tables : \E h \in 1 .. m : \E i \in Slots(h) :
                  /\ m = mainHash[t] /\ h = hash[t] /\ i = index[t] /\ h \in Tables
                  /\ \A g \in Tables : IsIn(t, g) => g <= m
                  /\ \A g \in h + 1 .. m : ~IsIn(t, g)
                  /\ Searched(t, h, i)
    <2>1. PICK m, h, i : m = mainHash[t] /\ h = hash[t] /\ i = index[t]
      OBVIOUS
    <2>2. /\ m \in Tables /\ h \in 1 .. m /\ i \in Slots(h)
          /\ \A g \in Tables : IsIn(t, g) => g <= m
          /\ \A g \in h + 1 .. m : ~IsIn(t, g)
          /\ Searched(t, h, i)
      BY <1>1, <1>3, <2>1 DEF LocalsRight
    <2>3. h \in Tables
      BY <1>1, <2>2 DEF Tables
    <2> QED
      BY <2>1, <2>2, <2>3
  <1>4. CASE ProbeTaken(t)
    <2>0. pc[t] = "probe"
      BY <1>4 DEF ProbeTaken
    <2>1. PICK m \in Tables : \E h \in 1 .. m : \E i \in Slots(h) :
                  /\ m = mainHash[t] /\ h = hash[t] /\ i = index[t] /\ h \in Tables
                  /\ \A g \in Tables : IsIn(t, g) => g <= m
                  /\ \A g \in h + 1 .. m : ~IsIn(t, g)
                  /\ Searched(t, h, i)
      BY <1>3, <2>0
    <2>2. PICK h \in 1 .. m : \E i \in Slots(h) :
                  /\ m = mainHash[t] /\ h = hash[t] /\ i = index[t] /\ h \in Tables
                  /\ \A g \in Tables : IsIn(t, g) => g <= m
                  /\ \A g \in h + 1 .. m : ~IsIn(t, g)
                  /\ Searched(t, h, i)
      BY <2>1
    <2>3. PICK i \in Slots(h) :
                  /\ m = mainHash[t] /\ h = hash[t] /\ i = index[t] /\ h \in Tables
                  /\ \A g \in Tables : IsIn(t, g) => g <= m
                  /\ \A g \in h + 1 .. m : ~IsIn(t, g)
                  /\ Searched(t, h, i)
      BY <2>2
    <2>4. PICK j : j = SlotAfter(i, h)
      OBVIOUS
    <2>5. /\ j \in Slots(h)
          /\ Between(HomeSlot(t, h), j, h) \subseteq Between(HomeSlot(t, h), i, h) \cup {i}
      BY <2>3, <2>4, NextSlot, TableFacts
    <2>6. tables[h].key[i] \notin {t, NoThread}
      BY <1>4, <2>3 DEF ProbeTaken
    <2>7. Searched(t, h, j)
      BY <2>3, <2>5, <2>6 DEF Searched
    <2>8. /\ UNCHANGED tables /\ pc'[t] = "probe" /\ mainHash'[t] = m /\ hash'[t] = h
          /\ index'[t] = j
      BY <1>1, <1>4, <2>3, <2>4 DEF ProbeTaken, shared
    <2> QED
      BY <2>3, <2>5, <2>7, <2>8, ProbesOn
  <1>5. CASE ProbeEmpty(t)
    <2>0. pc[t] = "probe"
      BY <1>5 DEF ProbeEmpty
    <2>1. PICK m \in Tables : \E h \in 1 .. m : \E i \in Slots(h) :
                  /\ m = mainHash[t] /\ h = hash[t] /\ i = index[t] /\ h \in Tables
                  /\ \A g \in Tables : IsIn(t, g) => g <= m
                  /\ \A g \in h + 1 .. m : ~IsIn(t, g)
                  /\ Searched(t, h, i)
      BY <1>3, <2>0
    <2>2. PICK h \in 1 .. m : \E i \in Slots(h) :
                  /\ m = mainHash[t] /\ h = hash[t] /\ i = index[t] /\ h \in Tables
                  /\ \A g \in Tables : IsIn(t, g) => g <= m
                  /\ \A g \in h + 1 .. m : ~IsIn(t, g)
                  /\ Searched(t, h, i)
      BY <2>1
    <2>3. PICK i \in Slots(h) :
                  /\ m = mainHash[t] /\ h = hash[t] /\ i = index[t] /\ h \in Tables
                  /\ \A g \in Tables : IsIn(t, g) => g <= m
                  /\ \A g \in h + 1 .. m : ~IsIn(t, g)
                  /\ Searched(t, h, i)
      BY <2>2
    <2>4. tables[h].key[i] = NoThread /\ UNCHANGED tables /\ mainHash'[t] = m /\ UNCHANGED mine
      BY <1>1, <1>5, <2>3 DEF ProbeEmpty, shared
    <2>5. ~IsIn(t, h)
      BY <2>3, <2>4, NotHere
    <2>6. \A g \in h .. m : ~IsIn(t, g)
      BY <2>3, <2>5, <1>1 DEF Tables
    <2>7. PICK older : older = tables[h].prev
      OBVIOUS
    <2>8. older = h - 1 /\ h \in Nat /\ m \in Nat
      BY <2>3, <2>7, TableFacts
    <2>9. CASE older = NoTable
      <3>1. pc'[t] = "count"
        BY <1>1, <1>5, <2>3, <2>7, <2>9 DEF ProbeEmpty
      <3>2. \A g \in Tables : ~IsIn(t, g)
        BY <2>3, <2>6, <2>8, <2>9, <1>1 DEF Tables, NoTable
      <3>3. mine[t] = NoProducer
        BY <3>2, PlacedHaveOne
      <3>4. Tables' = Tables
        BY <2>4 DEF Tables
      <3> QED
        BY <2>3, <2>4, <3>1, <3>3, <3>4, GoesOn
    <2>10. CASE older # NoTable
      <3>1. older \in 1 .. m /\ older \in Tables
        BY <2>3, <2>8, <2>10, <1>1 DEF NoTable, Tables
      <3>2. PICK k : k = HomeSlot(t, older)
        OBVIOUS
      <3>3. k \in Slots(older)
        BY <3>1, <3>2, TableFacts
      <3>4. Searched(t, older, k)
        <4>1. Between(k, k, older) = {}
          BY <3>1, <3>3, NextSlot, TableFacts
        <4> QED
          BY <3>2, <4>1 DEF Searched
      <3>5. pc'[t] = "probe" /\ hash'[t] = older /\ index'[t] = k
        BY <1>1, <1>5, <2>0, <2>3, <2>7, <2>10, <3>2 DEF ProbeEmpty
      <3>6. \A g \in older + 1 .. m : ~IsIn(t, g)
        BY <2>6, <2>8
      <3> QED
        BY <2>3, <2>4, <3>1, <3>3, <3>4, <3>5, <3>6, ProbesOn
    <2> QED
      BY <2>9, <2>10
  <1>6. CASE ProbeFound(t)
    <2>0. pc[t] = "probe" /\ UNCHANGED tables
      BY <1>6 DEF ProbeFound, shared
    <2>1. CASE hash[t] = mainHash[t]
      <3>1. pc'[t] = "idle"
        BY <1>1, <1>6, <2>1 DEF ProbeFound, ReturnFrom
      <3> QED
        BY <3>1, GoesOn
    <2>2. CASE hash[t] # mainHash[t]
      <3>1. PICK m, h, i, p, v : /\ m = mainHash[t] /\ h = hash[t] /\ i = index[t]
                                 /\ p = HomeSlot(t, m) /\ v = tables[h].value[i]
        OBVIOUS
      <3>2. /\ m \in Tables /\ h \in Tables /\ h \in 1 .. m /\ i \in Slots(h) /\ h # m
            /\ \A g \in Tables : IsIn(t, g) => g <= m
            /\ \A g \in h + 1 .. m : ~IsIn(t, g)
            /\ tables[h].key[i] = t
        <4>1. h # m /\ tables[h].key[i] = t
          BY <1>6, <2>2, <3>1 DEF ProbeFound
        <4> QED
          BY <1>3, <2>0, <3>1, <4>1
      <3>3. ~IsIn(t, m)
        BY <3>2 DEF Tables
      <3>4. p \in Slots(m) /\ Passed(t, m, p)
        <4>1. p \in Slots(m)
          BY <3>1, <3>2, TableFacts
        <4>2. Between(p, p, m) = {}
          BY <3>2, <4>1, NextSlot, TableFacts
        <4> QED
          BY <3>1, <4>1, <4>2 DEF Passed
      <3>5. /\ pc'[t] = "insert" /\ mainHash'[t] = m /\ index'[t] = p
            /\ producer'[t] = v /\ mine'[t] = mine[t]
        BY <1>1, <1>6, <2>2, <3>1 DEF ProbeFound
      <3>6. v = mine[t] /\ mine[t] # NoProducer
        BY <1>1, <3>1, <3>2, HashAssumption DEF TablesRight
      <3>7. v \in Listed'
        BY <3>6, StepListed DEF Inv, HashInv, EveryProducerListed
      <3> QED
        BY <2>0, <3>2, <3>3, <3>4, <3>5, <3>6, <3>7, InsertsOn
    <2> QED
      BY <2>1, <2>2
  <1>7. CASE Count(t)
    <2>1. /\ pc[t] = "count" /\ pc'[t] = "grow" /\ mainHash' = mainHash /\ mine' = mine
          /\ Tables' = Tables
      BY <1>1, <1>7 DEF Count, searching, Tables
    <2> QED
      BY <1>1, <2>1, GoesOn DEF LocalsRight, Steps
  <1>8. CASE TryLock(t)
    <2>1. /\ pc[t] = "grow" /\ mine' = mine /\ Tables' = Tables
          /\ implicitProducerHash' = implicitProducerHash
          /\ \/ pc'[t] = "fits" /\ mainHash' = mainHash
             \/ pc'[t] = "resize" /\ mainHash'[t] = implicitProducerHash
      BY <1>1, <1>8 DEF TryLock, Tables
    <2> QED
      BY <1>1, <2>1, GoesOn DEF LocalsRight, Steps
  <1>9. CASE Allocate(t)
    <2>1. /\ pc[t] = "resize" /\ pc'[t] = "unlock" /\ mine' = mine
          /\ mainHash'[t] = Len(tables) + 1
      BY <1>1, <1>9 DEF Allocate
    <2>2. mainHash'[t] = implicitProducerHash' /\ implicitProducerHash' \in Tables'
      <3>1. implicitProducerHash' = Len(tables) + 1 /\ Len(tables') = implicitProducerHash'
        BY <1>1, <1>9 DEF Allocate, Evolve
      <3> QED
        BY <1>1, <2>1, <3>1 DEF Tables
    <2> QED
      BY <1>1, <2>1, <2>2, GoesOn DEF LocalsRight, Steps
  <1>10. CASE NoNeedToResize(t) \/ AllocationFails(t) \/ Unlock(t) \/ Wait(t)
    <2>1. /\ pc[t] \in Steps \ {"idle", "probe", "insert", "list", "link"}
          /\ pc'[t] \in {"unlock", "failed", "fits", "grow"} /\ mine' = mine
          /\ tables' = tables
          /\ mainHash'[t] = mainHash[t] \/ mainHash'[t] = implicitProducerHash
      BY <1>1, <1>10 DEF NoNeedToResize, AllocationFails, Unlock, Wait, shared, searching, Steps
    <2>2. Tables' = Tables /\ mainHash[t] \in Tables /\ mine[t] = NoProducer
      BY <1>1, <2>1 DEF Tables, LocalsRight
    <2> QED
      BY <1>1, <2>1, <2>2, GoesOn
  <1>11. CASE UnlockAndFail(t) \/ CreationFails(t) \/ Insert(t)
    <2>1. pc'[t] = "idle"
      BY <1>1, <1>11 DEF UnlockAndFail, CreationFails, Insert, ReturnFrom
    <2> QED
      BY <2>1, GoesOn
  <1>12. CASE CreateProducer(t)
    <2>1. PICK n : n = producerCount + 1
      OBVIOUS
    <2>2. /\ pc[t] = "fits" /\ pc'[t] = "list" /\ mine' = mine /\ mainHash' = mainHash
          /\ tables' = tables /\ producer'[t] = n
      BY <1>1, <1>12, <2>1 DEF CreateProducer, searching, shared
    <2>3. Tables' = Tables /\ mainHash[t] \in Tables /\ mine[t] = NoProducer
      BY <1>1, <2>2 DEF Tables, LocalsRight, Steps
    <2>4. n \in Producers' /\ nextProducer'[n] = NoProducer
      BY <1>12, <2>1, StepListed
    <2> QED
      BY <2>2, <2>3, <2>4, GoesOn
  <1>13. CASE LoadListTail(t) \/ (LinkProducer(t) /\ producerListTail # prevTail[t])
    <2>1. /\ pc[t] \in {"list", "link"} /\ pc'[t] = "link" /\ mine' = mine
          /\ mainHash' = mainHash /\ tables' = tables /\ producer' = producer
          /\ nextProducer' = nextProducer /\ Producers' = Producers
      BY <1>1, <1>13 DEF LoadListTail, LinkProducer, searching, shared, list, Producers
    <2>2. /\ Tables' = Tables /\ mainHash[t] \in Tables /\ mine[t] = NoProducer
          /\ producer[t] \in Producers /\ nextProducer[producer[t]] = NoProducer
      BY <1>1, <2>1 DEF Tables, LocalsRight, Steps
    <2> QED
      BY <2>1, <2>2, GoesOn
  <1>14. CASE LinkProducer(t) /\ producerListTail = prevTail[t]
    <2>1. PICK m, p : m = mainHash[t] /\ p = HomeSlot(t, m)
      OBVIOUS
    <2>2. /\ pc[t] = "link" /\ pc'[t] = "insert" /\ mine' = mine /\ mainHash'[t] = m
          /\ UNCHANGED tables /\ index'[t] = p /\ producer' = producer
      BY <1>1, <1>14, <2>1 DEF LinkProducer, Linked, shared
    <2>3. m \in Tables /\ mine[t] = NoProducer
      BY <1>1, <2>1, <2>2 DEF LocalsRight, Steps
    <2>4. p \in Slots(m) /\ Passed(t, m, p)
      <3>1. p \in Slots(m)
        BY <2>1, <2>3, TableFacts
      <3>2. Between(p, p, m) = {}
        BY <2>3, <3>1, NextSlot, TableFacts
      <3> QED
        BY <2>1, <3>1, <3>2 DEF Passed
    <2>5. \A g \in Tables : ~IsIn(t, g)
      BY <2>3, PlacedHaveOne
    <2>6. producer[t] \in Listed'
      BY <1>14, <2>2, StepListed
    <2> QED
      BY <2>2, <2>3, <2>4, <2>5, <2>6, InsertsOn
  <1>15. CASE InsertTaken(t)
    <2>1. PICK m, i, j : m = mainHash[t] /\ i = index[t] /\ j = SlotAfter(i, m)
      OBVIOUS
    <2>2. /\ pc[t] = "insert" /\ pc'[t] = "insert" /\ mine' = mine /\ mainHash'[t] = m
          /\ UNCHANGED tables /\ index'[t] = j /\ producer' = producer
          /\ tables[m].key[i] # NoThread
      BY <1>1, <1>15, <2>1 DEF InsertTaken, shared, creating
    <2>3. /\ m \in Tables /\ i \in Slots(m) /\ ~IsIn(t, m) /\ producer[t] \in Listed
          /\ mine[t] \in {NoProducer, producer[t]} /\ Passed(t, m, i)
          /\ \A g \in Tables : IsIn(t, g) => g <= m
      BY <1>1, <2>1, <2>2 DEF LocalsRight
    <2>4. /\ j \in Slots(m)
          /\ Between(HomeSlot(t, m), j, m) \subseteq Between(HomeSlot(t, m), i, m) \cup {i}
      BY <2>1, <2>3, NextSlot, TableFacts
    <2>5. Passed(t, m, j)
      BY <2>2, <2>3, <2>4 DEF Passed
    <2>6. producer[t] \in Listed'
      BY <2>3, StepListed
    <2> QED
      BY <2>2, <2>3, <2>4, <2>5, <2>6, InsertsOn
  <1> QED
    BY <1>2, <1>4, <1>5, <1>6, <1>7, <1>8, <1>9, <1>10, <1>11, <1>12, <1>13, <1>14, <1>15
       DEF Step, InsideCall

-----------------------------------------------------------------------------
(* Types *)

\* A step gives locals values of their types.
LEMMA OwnTypes ==
    ASSUME Inv, NEW t \in Threads, Step(t)
    PROVE  /\ pc' = [pc EXCEPT ![t] = pc'[t]] /\ pc'[t] \in Steps
           /\ mainHash' = [mainHash EXCEPT ![t] = mainHash'[t]]
           /\ mainHash'[t] \in Tables' \cup {NoTable}
           /\ hash' = [hash EXCEPT ![t] = hash'[t]]
           /\ hash'[t] \in {hash[t], NoTable} \/ pc'[t] = "probe"
           /\ index' = [index EXCEPT ![t] = index'[t]]
           /\ index'[t] \in {index[t], 0} \/ pc'[t] \in {"probe", "insert"}
           /\ newCount' = [newCount EXCEPT ![t] = newCount'[t]]
           /\ newCount'[t] \in Nat
           /\ producer' = [producer EXCEPT ![t] = producer'[t]]
           /\ producer'[t] \in {NoProducer, producer[t], mine[t], producerCount + 1}
           /\ producer'[t] # producerCount + 1 \/ CreateProducer(t)
           /\ prevTail' = [prevTail EXCEPT ![t] = prevTail'[t]]
           /\ prevTail'[t] \in {NoProducer, prevTail[t], producerListTail}
  <1>1. /\ pc \in [Threads -> Steps] /\ mainHash \in [Threads -> Tables \cup {NoTable}]
        /\ hash \in [Threads -> Tables \cup {NoTable}] /\ index \in [Threads -> Nat]
        /\ newCount \in [Threads -> Nat] /\ implicitProducerHashCount \in Nat
        /\ producer \in [Threads -> Producers \cup {NoProducer}]
        /\ prevTail \in [Threads -> Producers \cup {NoProducer}]
        /\ mine \in [Threads -> Producers \cup {NoProducer}]
        /\ producerCount \in Nat
    BY DEF Inv, HashInv, TypeOK
  <1>2. producer[t] # producerCount + 1 /\ mine[t] # producerCount + 1
        /\ NoProducer # producerCount + 1
    BY <1>1 DEF Producers, NoProducer
  <1>3. pc'[t] # "idle" => mainHash'[t] \in Tables'
    BY OwnLocals DEF LocalsRight
  <1>4. LocalsRight(t) /\ TablesRight
    BY DEF Inv, HashInv
  <1> USE DEF Goto, ReturnFrom, Steps, searching, creating, shared, list
  <1>5. CASE Call(t)
    BY <1>1, <1>2, <1>3, <1>5 DEF Call
  <1>6. CASE ProbeTaken(t)
    BY <1>1, <1>2, <1>3, <1>6 DEF ProbeTaken
  <1>7. CASE ProbeEmpty(t)
    BY <1>1, <1>2, <1>3, <1>7 DEF ProbeEmpty
  <1>8. CASE ProbeFound(t)
    <2>1. hash[t] = mainHash[t] \/ producer'[t] = mine[t]
      <3>1. PICK m, h, i : m = mainHash[t] /\ h = hash[t] /\ i = index[t]
        OBVIOUS
      <3>2. /\ m \in Tables /\ h \in 1 .. m /\ i \in Slots(h) /\ tables[h].key[i] = t
        BY <1>4, <1>8, <3>1 DEF ProbeFound, LocalsRight
      <3>3. h \in Tables
        BY <3>2 DEF Tables, Inv
      <3>4. tables[h].value[i] = mine[t]
        BY <1>4, <3>2, <3>3, HashAssumption DEF TablesRight
      <3> QED
        BY <1>1, <1>8, <3>1, <3>4 DEF ProbeFound
    <2>2. CASE hash[t] = mainHash[t]
      BY <1>1, <1>2, <1>3, <1>8, <2>2 DEF ProbeFound
    <2>3. CASE hash[t] # mainHash[t]
      BY <1>1, <1>2, <1>3, <1>8, <2>1, <2>3 DEF ProbeFound
    <2> QED
      BY <2>2, <2>3
  <1>9. CASE Count(t)
    BY <1>1, <1>2, <1>3, <1>9 DEF Count
  <1>10. CASE TryLock(t)
    BY <1>1, <1>2, <1>3, <1>10 DEF TryLock
  <1>11. CASE Allocate(t)
    BY <1>1, <1>2, <1>3, <1>11 DEF Allocate
  <1>12. CASE NoNeedToResize(t)
    BY <1>1, <1>2, <1>3, <1>12 DEF NoNeedToResize
  <1>13. CASE AllocationFails(t)
    BY <1>1, <1>2, <1>3, <1>13 DEF AllocationFails
  <1>14. CASE UnlockAndFail(t)
    BY <1>1, <1>2, <1>3, <1>14 DEF UnlockAndFail
  <1>15. CASE Unlock(t)
    BY <1>1, <1>2, <1>3, <1>15 DEF Unlock
  <1>16. CASE Wait(t)
    BY <1>1, <1>2, <1>3, <1>16 DEF Wait
  <1>17. CASE CreateProducer(t)
    BY <1>1, <1>2, <1>3, <1>17 DEF CreateProducer
  <1>18. CASE CreationFails(t)
    BY <1>1, <1>2, <1>3, <1>18 DEF CreationFails
  <1>19. CASE LoadListTail(t)
    BY <1>1, <1>2, <1>3, <1>19 DEF LoadListTail
  <1>20. CASE LinkProducer(t)
    BY <1>1, <1>2, <1>3, <1>20 DEF LinkProducer, Linked
  <1>21. CASE InsertTaken(t)
    BY <1>1, <1>2, <1>3, <1>21 DEF InsertTaken
  <1>22. CASE Insert(t)
    BY <1>1, <1>2, <1>3, <1>22 DEF Insert
  <1> QED
    BY <1>5, <1>6, <1>7, <1>8, <1>9, <1>10, <1>11, <1>12, <1>13, <1>14, <1>15, <1>16,
       <1>17, <1>18, <1>19, <1>20, <1>21, <1>22 DEF Step, InsideCall

LEMMA UpdatedFunction ==
    ASSUME NEW f, NEW S, NEW T, f \in [Threads -> S], S \subseteq T,
           NEW t \in Threads, NEW g, NEW v \in T, g = [f EXCEPT ![t] = v]
    PROVE  g \in [Threads -> T]
  OBVIOUS

LEMMA StepTypes ==
    ASSUME Inv, NEW t \in Threads, Step(t), implicitProducerHashCount' \in Nat
    PROVE  TypeOK'
  <1>1. /\ TypeOK /\ Evolve(t) /\ TablesRight' /\ \A u \in Threads : LocalsRight(u)'
        /\ hashedId' = hashedId
    BY TablesEvolve, StepTablesRight, OwnLocals, OtherLocals, HashedIdsStay DEF Inv, HashInv
  <1>2. ASSUME NEW h \in Tables'
        PROVE  /\ tables'[h].capacity \in Nat
               /\ tables'[h].prev \in 0 .. h - 1
               /\ tables'[h].key \in [Slots(h)' -> Threads \cup {NoThread}]
               /\ tables'[h].value \in [Slots(h)' -> Producers' \cup {NoProducer}]
    <2>1. h \in Nat /\ h > 0 /\ tables'[h] \in AnyTable
      BY <1>1 DEF Tables, Evolve
    <2>2. tables'[h].capacity \in Nat /\ tables'[h].prev \in 0 .. h - 1
      BY <1>1, <2>1 DEF AnyTable, TablesRight
    <2>3. CASE h \in Tables
      BY <1>1, <2>2, <2>3, OldTables DEF Evolve
    <2>4. CASE h \notin Tables
      <3>1. /\ tables'[h].key = [i \in Slots(h)' |-> NoThread]
            /\ tables'[h].value = [i \in Slots(h)' |-> NoProducer]
        BY <1>1, <2>4 DEF Evolve, Slots
      <3> QED
        BY <2>2, <3>1
    <2> QED
      BY <2>3, <2>4
  <1>3. implicitProducerHash' \in Tables'
    <2>1. implicitProducerHash \in Tables
      BY <1>1 DEF TypeOK
    <2>2. /\ 1 .. Len(tables) \subseteq 1 .. Len(tables') /\ implicitProducerHash \in 1 .. Len(tables)
          /\ Len(tables') \in Nat /\ Len(tables) \in Nat
      BY <1>1, <2>1 DEF Evolve, Tables, Inv
    <2>3. Len(tables') \in 1 .. Len(tables')
      BY <2>2
    <2> QED
      BY <1>1, <2>3 DEF TablesRight, Tables
  <1>4. resizeInProgress' \in BOOLEAN
    BY StepLock
  <1>5. /\ producerCount' \in Nat /\ producerListTail' \in Producers' \cup {NoProducer}
        /\ nextProducer' \in [Producers' -> Producers' \cup {NoProducer}]
        /\ Producers \subseteq Producers'
    BY StepListed
  <1>6. Tables \cup {NoTable} \subseteq Tables' \cup {NoTable}
        /\ Producers \cup {NoProducer} \subseteq Producers' \cup {NoProducer}
    BY <1>1, <1>5 DEF Evolve
  <1>7. /\ pc \in [Threads -> Steps] /\ mainHash \in [Threads -> Tables \cup {NoTable}]
        /\ hash \in [Threads -> Tables \cup {NoTable}] /\ index \in [Threads -> Nat]
        /\ newCount \in [Threads -> Nat]
        /\ producer \in [Threads -> Producers \cup {NoProducer}]
        /\ prevTail \in [Threads -> Producers \cup {NoProducer}]
        /\ mine \in [Threads -> Producers \cup {NoProducer}]
        /\ producerListTail \in Producers \cup {NoProducer} /\ producerCount \in Nat
    BY <1>1 DEF TypeOK
  <1>8. pc' \in [Threads -> Steps]
    BY <1>7, OwnTypes, UpdatedFunction
  <1>9. mainHash' \in [Threads -> Tables' \cup {NoTable}]
    BY <1>6, <1>7, OwnTypes, UpdatedFunction
  <1>10. hash' \in [Threads -> Tables' \cup {NoTable}]
    <2>1. hash'[t] \in Tables' \cup {NoTable}
      <3>1. CASE pc'[t] = "probe"
        BY <1>1, <3>1 DEF LocalsRight, Tables, Evolve
      <3>2. CASE pc'[t] # "probe"
        BY <1>6, <1>7, <3>2, OwnTypes
      <3> QED
        BY <3>1, <3>2
    <2> QED
      BY <1>6, <1>7, <2>1, OwnTypes, UpdatedFunction
  <1>11. index' \in [Threads -> Nat]
    <2>1. index'[t] \in Nat
      <3>1. CASE pc'[t] \in {"probe", "insert"}
        BY <1>1, <3>1 DEF LocalsRight, Slots
      <3>2. CASE pc'[t] \notin {"probe", "insert"}
        BY <1>7, <3>2, OwnTypes
      <3> QED
        BY <3>1, <3>2
    <2> QED
      BY <1>7, <2>1, OwnTypes, UpdatedFunction
  <1>12. newCount' \in [Threads -> Nat]
    BY <1>7, OwnTypes, UpdatedFunction
  <1>13. producer' \in [Threads -> Producers' \cup {NoProducer}]
    <2>1. producer'[t] \in Producers' \cup {NoProducer}
      BY <1>6, <1>7, OwnTypes, StepListed
    <2> QED
      BY <1>6, <1>7, <2>1, OwnTypes, UpdatedFunction
  <1>14. prevTail' \in [Threads -> Producers' \cup {NoProducer}]
    <2>1. prevTail'[t] \in Producers' \cup {NoProducer}
      BY <1>6, <1>7, OwnTypes
    <2> QED
      BY <1>6, <1>7, <2>1, OwnTypes, UpdatedFunction
  <1>15. mine' \in [Threads -> Producers' \cup {NoProducer}]
    BY <1>6, MineStays
  <1>16. ASSUME NEW u \in Threads
         PROVE  /\ pc'[u] = "probe" => index'[u] < tables'[hash'[u]].capacity
                /\ pc'[u] = "insert" => index'[u] < tables'[mainHash'[u]].capacity
    <2>1. PICK m, h, i : m = mainHash'[u] /\ h = hash'[u] /\ i = index'[u]
      OBVIOUS
    <2>2. CASE pc'[u] = "probe"
      <3>1. m \in Tables' /\ h \in 1 .. m /\ i \in 0 .. tables'[h].capacity - 1
        BY <1>1, <2>1, <2>2 DEF LocalsRight, Slots
      <3>2. h \in Tables'
        BY <1>1, <3>1 DEF Tables, Evolve
      <3>3. i < tables'[h].capacity
        BY <1>2, <3>1, <3>2
      <3> QED
        BY <2>1, <2>2, <3>3
    <2>3. CASE pc'[u] = "insert"
      <3>1. m \in Tables' /\ i \in 0 .. tables'[m].capacity - 1
        BY <1>1, <2>1, <2>3 DEF LocalsRight, Slots
      <3>2. i < tables'[m].capacity
        BY <1>2, <3>1
      <3> QED
        BY <2>1, <2>3, <3>2
    <2> QED
      BY <2>2, <2>3
  <1>17. hashedId' \in [Threads -> HashedIds]
    BY <1>1 DEF TypeOK
  <1>18. ASSUME NEW h \in Tables'
         PROVE  /\ tables'[h].prev \in 0 .. h - 1
                /\ tables'[h].key \in [0 .. tables'[h].capacity - 1 -> Threads \cup {NoThread}]
                /\ tables'[h].value \in [0 .. tables'[h].capacity - 1 -> Producers' \cup {NoProducer}]
    BY <1>2 DEF Slots
  <1> QED
    BY <1>3, <1>4, <1>5, <1>8, <1>9, <1>10, <1>11, <1>12, <1>13, <1>14, <1>15, <1>16,
       <1>17, <1>18 DEF TypeOK

-----------------------------------------------------------------------------
(* Owners and the list *)

LEMMA StepOwners ==
    ASSUME Inv, NEW t \in Threads, Step(t) PROVE OwnersApart'
  <1>1. OthersStay(t) /\ OwnersApart /\ TypeOK
    BY StepIsLocal DEF Inv, HashInv
  <1>2. \A u \in Threads \ {t} : Owned(u)' = Owned(u)
    BY <1>1 DEF OthersStay, Owned
  <1>3. Owned(t)' \subseteq Owned(t) \cup {producerCount + 1}
    BY OwnTypes, MineStays DEF Owned
  <1>4. ASSUME NEW u \in Threads PROVE producerCount + 1 \notin Owned(u)
    <2>1. mine[u] \in Producers \cup {NoProducer} /\ producer[u] \in Producers \cup {NoProducer}
          /\ producerCount \in Nat
      BY <1>1 DEF TypeOK
    <2> QED
      BY <2>1 DEF Owned, Producers, NoProducer
  <1>5. ASSUME NEW u \in Threads, NEW w \in Threads, u # w
        PROVE  Owned(u)' \cap Owned(w)' = {}
    <2>1. Owned(u) \cap Owned(w) = {}
      BY <1>1, <1>5 DEF OwnersApart
    <2> QED
      BY <1>2, <1>3, <1>4, <1>5, <2>1
  <1> QED
    BY <1>5 DEF OwnersApart

LEMMA StepEveryListed ==
    ASSUME Inv, NEW t \in Threads, Step(t) PROVE EveryProducerListed'
  <1>1. /\ OthersStay(t) /\ Listed \subseteq Listed' /\ EveryProducerListed /\ LocalsRight(t)
        /\ Evolve(t)
    BY StepIsLocal, StepListed, TablesEvolve DEF Inv, HashInv
  <1>2. ASSUME NEW u \in Threads, mine'[u] # NoProducer PROVE mine'[u] \in Listed'
    <2>1. CASE mine'[u] = mine[u]
      BY <1>1, <1>2, <2>1 DEF EveryProducerListed
    <2>2. CASE mine'[u] # mine[u]
      <3>1. u = t
        BY <1>1, <2>2 DEF OthersStay
      <3>2. pc[t] = "insert" /\ mine'[t] = producer[t]
        BY <1>1, <2>2, <3>1, MineStays DEF Evolve, Stores
      <3> QED
        BY <1>1, <3>1, <3>2 DEF LocalsRight
    <2> QED
      BY <2>1, <2>2
  <1> QED
    BY <1>2 DEF EveryProducerListed

-----------------------------------------------------------------------------
(* The count *)

LEMMA RegisteringIs ==
    /\ IsFiniteSet(Registering) /\ Cardinality(Registering) \in Nat
    /\ \A u \in Threads : u \in Registering <=>
          pc[u] \in {"grow", "resize", "unlock", "fits", "list", "link", "insert"}
          \/ mine[u] # NoProducer
  <1>1. IsFiniteSet(Registering)
    BY FS_Subset, HashAssumption DEF Registering
  <1> QED
    BY <1>1, FS_CardinalityType DEF Registering

LEMMA StepCount ==
    ASSUME Inv, NEW t \in Threads, Step(t)
    PROVE  /\ CountIsExact' /\ implicitProducerHashCount' \in Nat
           /\ Count(t) => Cardinality(Registering') = newCount'[t]
  <1>1. /\ OthersStay(t) /\ CountIsExact /\ LocalsRight(t) /\ LocalsRight(t)' /\ TypeOK
        /\ Evolve(t)
    BY StepIsLocal, OwnLocals, TablesEvolve DEF Inv, HashInv
  <1>2. /\ IsFiniteSet(Registering) /\ Cardinality(Registering) \in Nat
        /\ implicitProducerHashCount = Cardinality(Registering)
        /\ Registering \subseteq Threads /\ Registering' \subseteq Threads
    BY <1>1, RegisteringIs DEF CountIsExact, Registering
  <1>3. \A u \in Threads \ {t} : u \in Registering' <=> u \in Registering
    BY <1>1 DEF Registering, OthersStay
  <1>4. pc \in [Threads -> Steps] /\ newCount \in [Threads -> Nat]
    BY <1>1 DEF TypeOK
  <1>5. CASE Count(t)
    <2>1. /\ pc[t] = "count" /\ pc'[t] = "grow" /\ mine[t] = NoProducer
          /\ implicitProducerHashCount' = implicitProducerHashCount + 1
          /\ newCount'[t] = implicitProducerHashCount + 1
      BY <1>1, <1>4, <1>5 DEF Count, Goto, LocalsRight, Steps
    <2>2. t \notin Registering /\ t \in Registering'
      BY <2>1 DEF Registering
    <2>3. Registering' = Registering \cup {t}
      BY <1>2, <1>3, <2>2
    <2>4. Cardinality(Registering') = Cardinality(Registering) + 1
      BY <1>2, <2>2, <2>3, FS_AddElement
    <2> QED
      BY <1>2, <2>1, <2>4 DEF CountIsExact
  <1>6. CASE AllocationFails(t) \/ CreationFails(t)
    <2>1. /\ pc[t] \in {"resize", "fits"} /\ pc'[t] \in {"failed", "idle"}
          /\ mine[t] = NoProducer /\ mine'[t] = NoProducer
          /\ implicitProducerHashCount' = implicitProducerHashCount - 1
      BY <1>1, <1>4, <1>6
         DEF AllocationFails, CreationFails, Goto, ReturnFrom, LocalsRight, Steps
    <2>2. t \in Registering /\ t \notin Registering'
      BY <2>1 DEF Registering
    <2>3. Registering' = Registering \ {t}
      BY <1>2, <1>3, <2>2
    <2>4. Cardinality(Registering') = Cardinality(Registering) - 1
      BY <1>2, <2>2, <2>3, FS_RemoveElement
    <2>5. IsFiniteSet(Registering') /\ Cardinality(Registering') \in Nat
      BY <1>2, <2>3, FS_Subset, FS_CardinalityType
    <2>6. ~Count(t)
      BY <2>1 DEF Count, Goto
    <2> QED
      BY <1>2, <2>1, <2>4, <2>5, <2>6 DEF CountIsExact
  <1>7. CASE ~(Count(t) \/ AllocationFails(t) \/ CreationFails(t))
    <2>1. implicitProducerHashCount' = implicitProducerHashCount
      BY <1>7 DEF Step, InsideCall, shared, Call, ProbeTaken, ProbeEmpty, ProbeFound,
         TryLock, Allocate, NoNeedToResize, UnlockAndFail, Unlock, Wait,
         CreateProducer, LoadListTail, LinkProducer, InsertTaken, Insert
    <2>2. t \in Registering' <=> t \in Registering
      <3>1. CASE Insert(t)
        <4>1. pc[t] = "insert" /\ mine'[t] = producer[t] /\ producer[t] \in Listed
          BY <1>1, <3>1 DEF Evolve, Stores, LocalsRight
        <4>2. producer[t] # NoProducer
          BY <4>1 DEF Listed, Producers, NoProducer
        <4> QED
          BY <4>1, <4>2 DEF Registering
      <3>2. CASE ~Insert(t)
        <4>1. mine'[t] = mine[t]
          BY <3>2, MineStays
        <4>2. CASE Call(t) \/ ProbeTaken(t) \/ ProbeEmpty(t)
          BY <1>1, <1>4, <4>1, <4>2
             DEF Call, ProbeTaken, ProbeEmpty, Goto, Registering
        <4>3. CASE ProbeFound(t)
          <5>1. pc[t] = "probe" /\ pc'[t] \in {"idle", "insert"}
            BY <1>4, <4>3 DEF ProbeFound, Goto, ReturnFrom
          <5>2. mine[t] # NoProducer
            <6>1. PICK h, i : h = hash[t] /\ i = index[t]
              OBVIOUS
            <6>2. h \in 1 .. mainHash[t] /\ mainHash[t] \in Tables /\ i \in Slots(h)
                  /\ tables[h].key[i] = t
              BY <1>1, <4>3, <5>1, <6>1 DEF ProbeFound, LocalsRight
            <6>3. h \in Tables
              BY <6>2 DEF Tables, Inv
            <6> QED
              BY <6>2, <6>3, PlacedHaveOne DEF IsIn
          <5> QED
            BY <4>1, <5>1, <5>2 DEF Registering
        <4>4. CASE TryLock(t) \/ Allocate(t) \/ NoNeedToResize(t) \/ Unlock(t) \/ Wait(t)
          BY <1>4, <4>1, <4>4
             DEF TryLock, Allocate, NoNeedToResize, Unlock, Wait, Goto, Registering
        <4>5. CASE UnlockAndFail(t)
          BY <1>1, <1>4, <4>1, <4>5 DEF UnlockAndFail, Goto, ReturnFrom, Registering
        <4>6. CASE CreateProducer(t) \/ LoadListTail(t) \/ LinkProducer(t) \/ InsertTaken(t)
          BY <1>4, <4>1, <4>6
             DEF CreateProducer, LoadListTail, LinkProducer, Linked, InsertTaken, Goto, Registering
        <4> QED
          BY <1>7, <3>2, <4>2, <4>3, <4>4, <4>5, <4>6 DEF Step, InsideCall
      <3> QED
        BY <3>1, <3>2
    <2>3. Registering' = Registering
      BY <1>2, <1>3, <2>2
    <2> QED
      BY <1>2, <1>7, <2>1, <2>3 DEF CountIsExact
  <1> QED
    BY <1>5, <1>6, <1>7

-----------------------------------------------------------------------------
(* Room for the threads that were counted first *)

LEMMA AtMostIs ==
    ASSUME NEW m, NEW h
    PROVE  IsFiniteSet(AtMost(m, h)) /\ Cardinality(AtMost(m, h)) \in Nat
  BY FS_Subset, FS_CardinalityType, HashAssumption DEF AtMost

\* A later table is not smaller, so what fits in an earlier one fits in it.
LEMMA FitsLater ==
    ASSUME NEW n \in Nat, NEW g, NEW h, tables[g].capacity \in Nat, tables[h].capacity \in Nat,
           tables[g].capacity <= tables[h].capacity, Fits(n, g)
    PROVE  Fits(n, h)
  BY DEF Fits

LEMMA OthersEntered ==
    ASSUME Inv, NEW t \in Threads, Step(t), NEW u \in Threads \ {t}, NEW m, NEW h \in Tables
    PROVE  u \in AtMost(m, h)' <=> u \in AtMost(m, h)
  <1>1. OthersStay(t)
    BY StepIsLocal DEF Inv, HashInv
  <1>2. \A g \in 1 .. h : g \in Tables
    BY DEF Tables, Inv
  <1>3. \A g \in 1 .. h : IsIn(u, g)' <=> IsIn(u, g)
    BY <1>2, OldTables
  <1> QED
    BY <1>1, <1>3 DEF OthersStay, AtMost, Entered, CountedBy

\* The thread that moves joins those of an old table only by being counted.
LEMMA MoverEntered ==
    ASSUME Inv, NEW t \in Threads, Step(t), NEW m \in Nat, NEW h \in Tables,
           ~Fits(m + 1, h), t \in AtMost(m, h)'
    PROVE  t \in AtMost(m, h) \/ (Count(t) /\ newCount'[t] <= m)
  <1>1. /\ LocalsRight(t) /\ LocalsRight(t)' /\ TypeOK /\ TablesRight /\ Evolve(t)
        /\ h \in 1 .. Len(tables) /\ Len(tables) \in Nat
    BY OwnLocals, TablesEvolve DEF Inv, HashInv, Tables
  <1>2. /\ pc \in [Threads -> Steps] /\ newCount \in [Threads -> Nat]
        /\ mainHash \in [Threads -> Tables \cup {NoTable}]
    BY <1>1 DEF TypeOK
  <1>3. \A g \in 1 .. h : g \in Tables
    BY <1>1 DEF Tables
  <1>4. CASE \E g \in 1 .. h : IsIn(t, g)'
    <2>1. PICK g \in 1 .. h : IsIn(t, g)'
      BY <1>4
    <2>2. CASE IsIn(t, g)
      BY <2>1, <2>2 DEF AtMost, Entered
    <2>3. CASE ~IsIn(t, g)
      <3>1. pc[t] = "insert" /\ g = mainHash[t]
        BY <1>3, <2>1, <2>3, OldTables
      <3>2. CASE mine[t] = NoProducer
        BY <2>1, <3>1, <3>2 DEF AtMost, Entered
      <3>3. CASE mine[t] # NoProducer
        <4>1. PICK k \in Tables : IsIn(t, k)
          BY <1>1, <3>3 DEF LocalsRight
        <4>2. k <= g
          BY <1>1, <3>1, <4>1 DEF LocalsRight
        <4>3. k \in 1 .. h
          BY <1>1, <2>1, <4>1, <4>2 DEF Tables
        <4> QED
          BY <4>1, <4>3 DEF AtMost, Entered
      <3> QED
        BY <3>2, <3>3
    <2> QED
      BY <2>2, <2>3
  <1>5. CASE pc'[t] \in {"list", "link", "insert"} /\ mine'[t] = NoProducer /\ mainHash'[t] <= h
    <2>1. mine[t] = NoProducer
      BY <1>5, MineStays
    <2>2. CASE CreateProducer(t)
      <3>1. PICK g, n : g = mainHash[t] /\ n = newCount[t]
        OBVIOUS
      <3>2. /\ pc[t] = "fits" /\ Fits(n, g) /\ g <= h
            /\ n \in Nat /\ g \in Tables
        BY <1>1, <1>2, <1>5, <2>2, <3>1 DEF CreateProducer, Goto, searching, LocalsRight
      <3>3. /\ tables[g].capacity \in Nat /\ tables[h].capacity \in Nat
            /\ tables[g].capacity <= tables[h].capacity
        <4>1. g \in 1 .. h
          BY <1>1, <3>2 DEF Tables
        <4> QED
          BY <1>1, <3>2, <4>1, TableFacts DEF TablesRight
      <3>4. Fits(n, h)
        BY <3>2, <3>3, FitsLater
      <3>5. n <= m
        BY <3>2, <3>3, <3>4 DEF Fits
      <3> QED
        BY <3>1, <3>2, <3>5 DEF AtMost, CountedBy
    <2>3. CASE ~CreateProducer(t)
      <3>1. /\ pc[t] \in {"list", "link", "insert"} /\ mainHash'[t] = mainHash[t]
        <4>1. CASE LoadListTail(t) \/ LinkProducer(t) \/ InsertTaken(t)
          BY <1>2, <4>1 DEF LoadListTail, LinkProducer, Linked, InsertTaken, Goto, searching
        <4>2. CASE ProbeFound(t)
          <5>1. PICK k, i : k = hash[t] /\ i = index[t]
            OBVIOUS
          <5>2. k \in 1 .. mainHash[t] /\ mainHash[t] \in Tables /\ i \in Slots(k)
                /\ tables[k].key[i] = t
            BY <1>1, <4>2, <5>1 DEF ProbeFound, LocalsRight
          <5>3. k \in Tables
            BY <1>1, <5>2 DEF Tables
          <5>4. mine[t] # NoProducer
            BY <5>2, <5>3, PlacedHaveOne DEF IsIn
          <5> QED
            BY <2>1, <5>4
        <4>3. CASE ~(LoadListTail(t) \/ LinkProducer(t) \/ InsertTaken(t) \/ ProbeFound(t))
          <5>1. pc'[t] \notin {"list", "link", "insert"}
            <6>1. CASE Call(t) \/ ProbeTaken(t) \/ ProbeEmpty(t) \/ Count(t)
              BY <1>2, <6>1 DEF Call, ProbeTaken, ProbeEmpty, Count, Goto
            <6>2. CASE TryLock(t) \/ Allocate(t) \/ NoNeedToResize(t) \/ AllocationFails(t)
              BY <1>2, <6>2 DEF TryLock, Allocate, NoNeedToResize, AllocationFails, Goto
            <6>3. CASE UnlockAndFail(t) \/ Unlock(t) \/ Wait(t) \/ CreationFails(t) \/ Insert(t)
              BY <1>2, <6>3 DEF UnlockAndFail, Unlock, Wait, CreationFails, Insert, Goto, ReturnFrom
            <6> QED
              BY <2>3, <4>3, <6>1, <6>2, <6>3 DEF Step, InsideCall
          <5> QED
            BY <1>5, <5>1
        <4> QED
          BY <4>1, <4>2, <4>3
      <3> QED
        BY <1>5, <2>1, <3>1 DEF AtMost, Entered
    <2> QED
      BY <2>2, <2>3
  <1>6. CASE pc'[t] \in {"grow", "resize", "unlock", "fits"} /\ newCount'[t] <= m
    <2>1. CASE Count(t)
      BY <1>6, <2>1
    <2>2. CASE ~Count(t)
      <3>1. pc[t] \in {"grow", "resize", "unlock", "fits"} /\ newCount'[t] = newCount[t]
        <4>1. CASE Call(t) \/ ProbeTaken(t) \/ ProbeEmpty(t) \/ ProbeFound(t)
          BY <1>2, <1>6, <4>1 DEF Call, ProbeTaken, ProbeEmpty, ProbeFound, Goto, ReturnFrom
        <4>2. CASE TryLock(t) \/ Allocate(t) \/ NoNeedToResize(t)
          BY <1>2, <1>6, <4>2 DEF TryLock, Allocate, NoNeedToResize, Goto, creating
        <4>3. CASE Unlock(t) \/ Wait(t)
          BY <1>2, <1>6, <4>3 DEF Unlock, Wait, Goto, creating
        <4>4. CASE AllocationFails(t) \/ UnlockAndFail(t) \/ CreationFails(t) \/ Insert(t)
          BY <1>2, <1>6, <4>4 DEF AllocationFails, UnlockAndFail, CreationFails, Insert,
                                  Goto, ReturnFrom
        <4>5. CASE CreateProducer(t) \/ LoadListTail(t) \/ LinkProducer(t) \/ InsertTaken(t)
          BY <1>2, <1>6, <4>5 DEF CreateProducer, LoadListTail, LinkProducer, Linked,
                                  InsertTaken, Goto
        <4> QED
          BY <2>2, <4>1, <4>2, <4>3, <4>4, <4>5 DEF Step, InsideCall
      <3> QED
        BY <1>6, <3>1 DEF AtMost, CountedBy
    <2> QED
      BY <2>1, <2>2
  <1> QED
    BY <1>4, <1>5, <1>6 DEF AtMost, Entered, CountedBy

\* Whoever is in a table or on the way into one is counted.
LEMMA AtMostAreCounted ==
    ASSUME Inv, NEW m, NEW h \in Tables PROVE AtMost(m, h) \subseteq Registering
  <1> SUFFICES ASSUME NEW u \in Threads, Entered(u, h) \/ CountedBy(u, m)
               PROVE  u \in Registering
    BY DEF AtMost
  <1>1. CASE \E g \in 1 .. h : IsIn(u, g)
    <2>1. PICK g \in 1 .. h : IsIn(u, g)
      BY <1>1
    <2>2. g \in Tables
      BY DEF Tables, Inv
    <2> QED
      BY <2>1, <2>2, PlacedHaveOne DEF Registering
  <1>2. CASE ~\E g \in 1 .. h : IsIn(u, g)
    BY <1>2 DEF Entered, CountedBy, Registering
  <1> QED
    BY <1>1, <1>2

LEMMA StepRoom ==
    ASSUME Inv, NEW t \in Threads, Step(t) PROVE RoomReserved'
  <1>1. RoomReserved /\ TablesRight /\ LocalsRight(t) /\ Evolve(t) /\ TypeOK
    BY TablesEvolve DEF Inv, HashInv
  <1>2. Len(tables) \in Nat /\ Len(tables) \in Tables /\ Cardinality(Threads) \in Nat
    BY <1>1, FS_CardinalityType, HashAssumption DEF Inv, TypeOK, TablesRight
  <1>3. ASSUME NEW h \in Tables, NEW m \in 0 .. Cardinality(Threads), ~Fits(m + 1, h)'
        PROVE  Cardinality(AtMost(m, h)') <= m
    <2>1. ~Fits(m + 1, h) /\ m \in Nat
      BY <1>3, OldTables
    <2>2. Cardinality(AtMost(m, h)) <= m /\ IsFiniteSet(AtMost(m, h))
          /\ Cardinality(AtMost(m, h)) \in Nat
      BY <1>1, <2>1, AtMostIs DEF RoomReserved
    <2>3. AtMost(m, h)' \subseteq Threads /\ AtMost(m, h) \subseteq Threads
      BY DEF AtMost
    <2>4. CASE Count(t) /\ newCount'[t] <= m
      <3>1. AtMost(m, h) \subseteq Registering
        BY AtMostAreCounted
      <3>2. Registering \subseteq Registering' /\ t \in Registering'
        <4>1. /\ pc' = [pc EXCEPT ![t] = "grow"] /\ mine' = mine /\ pc[t] = "count"
              /\ pc \in [Threads -> Steps]
          BY <1>1, <2>4 DEF Count, Goto, TypeOK
        <4> QED
          BY <4>1 DEF Registering
      <3>3. AtMost(m, h)' \subseteq Registering'
        BY <2>3, <3>1, <3>2, OthersEntered
      <3>4. IsFiniteSet(Registering')
        BY FS_Subset, HashAssumption DEF Registering
      <3>5. Cardinality(AtMost(m, h)') <= Cardinality(Registering')
            /\ Cardinality(AtMost(m, h)') \in Nat /\ Cardinality(Registering') \in Nat
        BY <3>3, <3>4, FS_Subset, FS_CardinalityType
      <3>6. Cardinality(Registering') = newCount'[t]
        BY <2>4, StepCount
      <3> QED
        BY <2>1, <2>4, <3>5, <3>6
    <2>5. CASE ~(Count(t) /\ newCount'[t] <= m)
      <3>1. AtMost(m, h)' \subseteq AtMost(m, h)
        BY <2>1, <2>3, <2>5, OthersEntered, MoverEntered
      <3>2. Cardinality(AtMost(m, h)') <= Cardinality(AtMost(m, h))
            /\ Cardinality(AtMost(m, h)') \in Nat
        BY <2>2, <3>1, FS_Subset, FS_CardinalityType
      <3> QED
        BY <2>1, <2>2, <3>2
    <2> QED
      BY <2>4, <2>5
  <1>4. ASSUME NEW h \in Tables', h \notin Tables, NEW m \in 0 .. Cardinality(Threads),
               ~Fits(m + 1, h)'
        PROVE  Cardinality(AtMost(m, h)') <= m
    <2>1. PICK l : l = Len(tables)
      OBVIOUS
    <2>2. /\ h = l + 1 /\ l \in Nat /\ l \in Tables
          /\ \A u \in Threads : ~IsIn(u, h)'
          /\ tables'[h].capacity \in Nat /\ tables'[h].capacity > tables[l].capacity
          /\ tables[l].capacity \in Nat /\ m \in Nat
      BY <1>2, <1>4, <2>1, NewTables, TableFacts
    <2>3. tables'[l].capacity = tables[l].capacity
      BY <1>1, <2>2 DEF Evolve
    <2>4. ~Fits(m + 1, l)'
      BY <1>4, <2>2, <2>3 DEF Fits
    <2>5. l \in 0 .. Len(tables) /\ \A g \in Tables : g <= l
      BY <1>2, <2>1 DEF Tables
    <2>6. \A u \in Threads : mainHash'[u] \in Tables' \/ pc'[u] \notin {"list", "link", "insert"}
      <3>1. \A u \in Threads : LocalsRight(u)'
        BY OwnLocals, OtherLocals
      <3> QED
        BY <3>1 DEF LocalsRight
    <2>7. Allocate(t)
      <3>1. ASSUME ~Allocate(t) PROVE tables' = tables \/ Insert(t)
        BY <3>1 DEF Step, InsideCall, shared, Call, ProbeTaken, ProbeEmpty, ProbeFound, Count,
         TryLock, NoNeedToResize, AllocationFails, UnlockAndFail, Unlock, Wait,
         CreateProducer, CreationFails, LoadListTail, LinkProducer, InsertTaken
      <3>2. ASSUME Insert(t) PROVE Len(tables') = Len(tables)
        BY <3>2 DEF Insert
      <3>3. tables' = tables \/ Insert(t) => Tables' = Tables
        BY <3>2 DEF Tables
      <3> QED
        BY <1>4, <3>1, <3>3
    <2>8. ASSUME NEW u \in Threads, u \in AtMost(m, h)' PROVE u \in AtMost(m, l)'
      <3>1. CASE \E g \in 1 .. h : IsIn(u, g)'
        BY <2>2, <3>1 DEF AtMost, Entered
      <3>2. CASE pc'[u] \in {"list", "link", "insert"} /\ mine'[u] = NoProducer
        <4>1. u # t
          BY <1>1, <2>7, <3>2 DEF Allocate, Goto, TypeOK
        <4>2. OthersStay(t) /\ LocalsRight(u)
          BY StepIsLocal DEF Inv, HashInv
        <4>3. mainHash'[u] \in Tables
          BY <3>2, <4>1, <4>2 DEF OthersStay, LocalsRight
        <4>4. mainHash'[u] <= l
          BY <2>5, <4>3
        <4> QED
          BY <3>2, <4>4 DEF AtMost, Entered
      <3> QED
        BY <2>8, <3>1, <3>2 DEF AtMost, Entered, CountedBy
    <2>9. AtMost(m, h)' \subseteq AtMost(m, l)'
      BY <2>8 DEF AtMost
    <2>10. Cardinality(AtMost(m, l)') <= m
      BY <1>3, <2>2, <2>4
    <2>11. IsFiniteSet(AtMost(m, l)')
      BY FS_Subset, HashAssumption DEF AtMost
    <2>12. Cardinality(AtMost(m, h)') <= Cardinality(AtMost(m, l)')
           /\ Cardinality(AtMost(m, h)') \in Nat /\ Cardinality(AtMost(m, l)') \in Nat
      BY <2>9, <2>11, FS_Subset, FS_CardinalityType
    <2> QED
      BY <2>2, <2>10, <2>12
  <1> QED
    BY <1>3, <1>4 DEF RoomReserved

-----------------------------------------------------------------------------
(* The inductive invariant *)

LEMMA InvInit == Init => Inv
  <1> SUFFICES ASSUME Init PROVE Inv
    OBVIOUS
  <1> USE DEF Init
  <1>1. PICK c : c = InitialCapacity
    OBVIOUS
  <1>2. PICK e : e = EmptyTable(c, NoTable)
    OBVIOUS
  <1>3. /\ c \in Nat /\ c > 0
        /\ e \in AnyTable /\ e.capacity = c /\ e.prev = 0
        /\ e.key = [i \in 0 .. c - 1 |-> NoThread]
        /\ e.value = [i \in 0 .. c - 1 |-> NoProducer]
    BY <1>1, <1>2, EmptyTableIs, HashAssumption DEF NoTable
  <1>4. /\ tables = <<e>> /\ tables \in Seq(AnyTable) /\ Len(tables) = 1 /\ tables[1] = e
        /\ Tables = {1}
    BY <1>1, <1>2, <1>3 DEF Tables
  <1>5. Producers = {} /\ nextProducer \in [Producers -> Producers \cup {NoProducer}]
    BY DEF Producers
  <1>6. \A t \in Threads : /\ pc[t] = "idle" /\ mine[t] = NoProducer
                           /\ producer[t] = NoProducer
    OBVIOUS
  <1>7. Slots(1) = 0 .. c - 1
    BY <1>3, <1>4 DEF Slots
  <1>8. \A i \in Slots(1) : tables[1].key[i] = NoThread
    BY <1>3, <1>4, <1>7
  <1>9. \A h \in Tables : \A t \in Threads : ~IsIn(t, h)
    BY <1>4, <1>8, HashAssumption DEF IsIn
  <1>10. TypeOK
    <2>1. ASSUME NEW h \in Tables
          PROVE  /\ tables[h].prev \in 0 .. h - 1
                 /\ tables[h].key \in [0 .. tables[h].capacity - 1 -> Threads \cup {NoThread}]
                 /\ tables[h].value \in [0 .. tables[h].capacity - 1 -> Producers \cup {NoProducer}]
      BY <1>3, <1>4
    <2>2. /\ implicitProducerHash \in Tables /\ implicitProducerHashCount \in Nat
          /\ resizeInProgress \in BOOLEAN /\ producerCount \in Nat
          /\ producerListTail \in Producers \cup {NoProducer}
      BY <1>4
    <2>3. /\ pc \in [Threads -> Steps] /\ mainHash \in [Threads -> Tables \cup {NoTable}]
          /\ hash \in [Threads -> Tables \cup {NoTable}]
          /\ newCount \in [Threads -> Nat] /\ index \in [Threads -> Nat]
          /\ producer \in [Threads -> Producers \cup {NoProducer}]
          /\ prevTail \in [Threads -> Producers \cup {NoProducer}]
          /\ mine \in [Threads -> Producers \cup {NoProducer}]
      BY DEF Steps
    <2> QED
      BY <1>5, <1>6, <2>1, <2>2, <2>3 DEF TypeOK
  <1>11. TablesRight
    <2>1. ASSUME NEW h \in Tables, NEW g \in 1 .. h
          PROVE  tables[g].capacity <= tables[h].capacity
      BY <1>3, <1>4
    <2>2. ASSUME NEW h \in Tables, NEW i \in Slots(h) PROVE tables[h].key[i] = NoThread
      BY <1>4, <1>8
    <2>3. implicitProducerHash = Len(tables)
          /\ \A h \in Tables : tables[h].prev = h - 1 /\ tables[h].capacity > 0
      BY <1>3, <1>4
    <2> QED
      BY <2>1, <2>2, <2>3 DEF TablesRight
  <1>12. OwnersApart /\ EveryProducerListed
    BY <1>6 DEF OwnersApart, Owned, EveryProducerListed
  <1>13. CountIsExact
    <2>1. Registering = {}
      BY <1>6 DEF Registering
    <2> QED
      BY <2>1, FS_EmptySet DEF CountIsExact
  <1>14. LockIsHeld
    <2>1. LockParts
      BY <1>6 DEF LockParts, Inside
    <2> QED
      BY <2>1, LockSaid
  <1>15. RoomReserved
    <2>1. ASSUME NEW h \in Tables, NEW m PROVE AtMost(m, h) = {}
      BY <1>4, <1>6, <1>9 DEF AtMost, Entered, CountedBy
    <2>2. Cardinality({}) = 0
      BY FS_EmptySet
    <2>3. ASSUME NEW h \in Tables, NEW m \in 0 .. Cardinality(Threads)
          PROVE  Cardinality(AtMost(m, h)) <= m
      <3>1. Cardinality(AtMost(m, h)) = 0
        BY <2>1, <2>2
      <3>2. m \in Int /\ 0 <= m
        OBVIOUS
      <3> HIDE DEF Init
      <3> QED
        BY <3>1, <3>2
    <2> QED
      BY <2>3 DEF RoomReserved
  <1>16. \A t \in Threads : LocalsRight(t)
    BY <1>6 DEF LocalsRight
  <1> QED
    BY <1>4, <1>10, <1>11, <1>12, <1>13, <1>14, <1>15, <1>16 DEF Inv, HashInv

LEMMA InvStutter == ASSUME Inv, UNCHANGED vars PROVE Inv'
  <1> USE DEF vars, shared, list, searching, creating
  <1>0. Tables' = Tables /\ Producers' = Producers
    BY DEF Tables, Producers
  <1>1. TypeOK'
    BY <1>0 DEF Inv, HashInv, TypeOK
  <1>2. /\ \A t, h : IsIn(t, h)' <=> IsIn(t, h)
        /\ \A h : Slots(h)' = Slots(h)
        /\ \A t, h, i : Passed(t, h, i)' <=> Passed(t, h, i)
        /\ \A t, h, i : Searched(t, h, i)' <=> Searched(t, h, i)
    BY DEF IsIn, Slots, Passed, Searched, Between, HomeSlot
  <1>3. TablesRight'
    BY <1>0, <1>2 DEF Inv, HashInv, TablesRight
  <1>4. OwnersApart' /\ Registering' = Registering /\ Listed' = Listed
    BY <1>0 DEF Inv, HashInv, OwnersApart, Owned, Registering, Listed, ListClosed
  <1>5. CountIsExact' /\ LockIsHeld' /\ EveryProducerListed'
    BY <1>4 DEF Inv, HashInv, CountIsExact, LockIsHeld, EveryProducerListed
  <1>6. \A m, h : AtMost(m, h)' = AtMost(m, h)
    BY <1>2 DEF AtMost, Entered, CountedBy
  <1>7. \A n, h : Fits(n, h)' <=> Fits(n, h)
    BY DEF Fits
  <1>8. RoomReserved'
    BY <1>0, <1>6, <1>7 DEF Inv, HashInv, RoomReserved
  <1>9. ASSUME NEW t \in Threads PROVE LocalsRight(t)'
    <2>1. PICK m, h, i : m = mainHash[t] /\ h = hash[t] /\ i = index[t]
      OBVIOUS
    <2>2. m = mainHash'[t] /\ h = hash'[t] /\ i = index'[t]
      BY <2>1
    <2>3. LocalsRight(t)
      BY DEF Inv, HashInv
    <2>4. (Searched(t, hash[t], index[t])' <=> Searched(t, hash[t], index[t]))
          /\ (Passed(t, mainHash[t], index[t])' <=> Passed(t, mainHash[t], index[t]))
          /\ (IsIn(t, mainHash[t])' <=> IsIn(t, mainHash[t]))
          /\ Slots(hash[t])' = Slots(hash[t]) /\ Slots(mainHash[t])' = Slots(mainHash[t])
      BY DEF Searched, Passed, IsIn, Slots, Between, HomeSlot
    <2> QED
      BY <1>0, <1>2, <1>4, <2>3, <2>4 DEF LocalsRight
  <1> QED
    BY <1>1, <1>3, <1>4, <1>5, <1>8, <1>9 DEF Inv, HashInv

LEMMA InvStep == ASSUME Inv, [Next]_vars PROVE Inv'
  <1>1. ASSUME NEW t \in Threads, Step(t) PROVE Inv'
    <2>1. TablesRight' /\ OwnersApart' /\ EveryProducerListed' /\ RoomReserved'
      BY <1>1, StepTablesRight, StepOwners, StepEveryListed, StepRoom
    <2>2. CountIsExact' /\ TypeOK'
      BY <1>1, StepCount, StepTypes
    <2>3. LockIsHeld'
      <3>1. (resizeInProgress \in BOOLEAN => (LockIsHeld <=> LockParts))'
        BY LockSaid, PTL
      <3> QED
        BY <1>1, <3>1, StepLock
    <2>4. \A u \in Threads : LocalsRight(u)'
      BY <1>1, OwnLocals, OtherLocals
    <2>5. tables' \in Seq(AnyTable)
      BY <1>1, TablesEvolve DEF Evolve
    <2> QED
      BY <2>1, <2>2, <2>3, <2>4, <2>5 DEF Inv, HashInv
  <1>2. CASE UNCHANGED vars
    BY <1>2, InvStutter
  <1>3. CASE Next
    BY <1>1, <1>3 DEF Next, Step
  <1> QED
    BY <1>2, <1>3

LEMMA InvAlways == Spec => []Inv
  BY InvInit, InvStep, PTL DEF Spec

-----------------------------------------------------------------------------
(* Theorems *)

\* The invariant the others follow from: every table holds each thread at most once,
\* reachable from its home slot, with its own sub-queue; the searches that are under
\* way have missed nothing, and the counted threads leave room in every table.
THEOREM HashInvariant == Spec => []HashInv
  <1>1. Inv => HashInv
    BY DEF Inv
  <1> QED
    BY <1>1, InvAlways, PTL

\* The tables, the list of producers and the locals of get_or_add_implicit_producer
\* have their types: no slot beyond a table's end is probed.
THEOREM HashTypes == Spec => []TypeOK
  <1>1. Inv => TypeOK
    BY DEF Inv, HashInv
  <1> QED
    BY <1>1, InvAlways, PTL

\* The count of get_or_add_implicit_producer is the number of threads that have a
\* sub-queue or are getting one; every failure gives its count back.
THEOREM CountStaysExact == Spec => []CountIsExact
  <1>1. Inv => CountIsExact
    BY DEF Inv, HashInv
  <1> QED
    BY <1>1, InvAlways, PTL

\* implicitProducerHashResizeInProgress is set while exactly one thread is inside the
\* part it guards, and clear when none is.
THEOREM ResizeLockIsHeld == Spec => []LockIsHeld
  <1>1. Inv => LockIsHeld
    BY DEF Inv, HashInv
  <1> QED
    BY <1>1, InvAlways, PTL

\* Whatever threads add their sub-queues at the same time (add_producer), none of them
\* is lost from the list that the consumer walks.
THEOREM NoProducerLost == Spec => []EveryProducerListed
  <1>1. Inv => EveryProducerListed
    BY DEF Inv, HashInv
  <1> QED
    BY <1>1, InvAlways, PTL

LEMMA SlotIsFree == Inv => FreeSlotInEveryTable
  <1> SUFFICES ASSUME Inv, NEW h \in Tables, \A i \in Slots(h) : tables[h].key[i] # NoThread
               PROVE  FALSE
    BY DEF FreeSlotInEveryTable, Slots
  <1>1. PICK c, k : c = tables[h].capacity /\ k = tables[h].key
    OBVIOUS
  <1>2. c \in Nat /\ c > 0 /\ Slots(h) = 0 .. c - 1
    BY <1>1, TableFacts DEF Slots
  <1>3. k \in [0 .. c - 1 -> Threads]
    BY <1>1, <1>2, TableFacts
  <1>4. \A i, j \in 0 .. c - 1 : k[i] = k[j] => i = j
    BY <1>1, <1>2, <1>3, HashAssumption DEF Inv, HashInv, TablesRight
  <1>5. IsFiniteSet(0 .. c - 1) /\ Cardinality(0 .. c - 1) = c
    BY <1>2, FS_Interval
  <1>6. IsFiniteSet(Threads) /\ Cardinality(Threads) \in Nat
    BY HashAssumption, FS_CardinalityType
  <1>7. c <= Cardinality(Threads)
    BY <1>2, <1>3, <1>4, <1>5, <1>6, FS_PigeonHole
  <1>8. PICK m \in Nat : m < c /\ m + 1 >= (c \div 2) + (c \div 4)
    <2>1. CASE c = 1
      <3>1. 0 < c /\ 0 + 1 >= (c \div 2) + (c \div 4)
        BY <2>1
      <3> QED
        BY <3>1
    <2>2. CASE c # 1
      <3>1. c - 1 \in Nat /\ c - 1 < c /\ (c - 1) + 1 >= (c \div 2) + (c \div 4)
        BY <1>2
      <3> QED
        BY <3>1
    <2> QED
      BY <2>1, <2>2
  <1>9. ~Fits(m + 1, h)
    BY <1>1, <1>2, <1>8 DEF Fits
  <1>10. Cardinality(AtMost(m, h)) <= m
    <2>1. m \in 0 .. Cardinality(Threads)
      BY <1>2, <1>6, <1>7, <1>8
    <2> QED
      BY <1>9, <2>1 DEF Inv, HashInv, RoomReserved
  <1>11. k \in [0 .. c - 1 -> AtMost(m, h)]
    <2>1. ASSUME NEW i \in 0 .. c - 1 PROVE k[i] \in AtMost(m, h)
      <3>1. IsIn(k[i], h) /\ k[i] \in Threads
        BY <1>1, <1>2, <1>3 DEF IsIn
      <3>2. h \in 1 .. h
        BY TableFacts
      <3> QED
        BY <3>1, <3>2 DEF AtMost, Entered
    <2> QED
      BY <1>3, <2>1
  <1>12. IsFiniteSet(AtMost(m, h)) /\ Cardinality(AtMost(m, h)) \in Nat
    BY AtMostIs
  <1>13. Cardinality(AtMost(m, h)) < c
    BY <1>2, <1>8, <1>10, <1>12
  <1>14. PICK S, A : S = 0 .. c - 1 /\ A = AtMost(m, h)
    OBVIOUS
  <1>15. IsFiniteSet(S) /\ IsFiniteSet(A) /\ Cardinality(A) < Cardinality(S) /\ k \in [S -> A]
    BY <1>5, <1>11, <1>12, <1>13, <1>14
  <1>16. \E i, j \in S : i # j /\ k[i] = k[j]
    BY <1>15, FS_PigeonHole
  <1> QED
    BY <1>4, <1>14, <1>16

\* A search for a thread ends at a free slot of each table, however many threads add
\* themselves to the newest table without being counted again.
THEOREM SearchesEnd == Spec => []FreeSlotInEveryTable
  BY SlotIsFree, InvAlways, PTL

\* Every call of a thread returns the same sub-queue, which no other thread gets.
THEOREM OneSubQueueEach == Spec => OneSubQueuePerThread
  <1>1. ASSUME Inv, Inv', [Next]_vars
        PROVE  [\A t \in Threads :
                   mine[t] # NoProducer =>
                       /\ mine'[t] = mine[t]
                       /\ \A u \in Threads \ {t} : mine'[u] # mine[t]]_vars
    <2> SUFFICES ASSUME NEW t \in Threads, mine[t] # NoProducer, Next
                 PROVE  /\ mine'[t] = mine[t]
                        /\ \A u \in Threads \ {t} : mine'[u] # mine[t]
      BY <1>1
    <2>1. mine'[t] = mine[t]
      BY <1>1, MineStays DEF Next, Step
    <2>2. ASSUME NEW u \in Threads \ {t} PROVE mine'[u] # mine[t]
      <3>1. Owned(t)' \cap Owned(u)' = {}
        BY <1>1 DEF Inv, HashInv, OwnersApart
      <3> QED
        BY <2>1, <3>1 DEF Owned
    <2> QED
      BY <2>1, <2>2
  <1> QED
    BY <1>1, InvAlways, InvStep, PTL DEF Spec, OneSubQueuePerThread

=============================================================================
