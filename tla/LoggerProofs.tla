---------------------------- MODULE LoggerProofs ----------------------------
(***************************************************************************)
(* Theorems about what a logger writes.                                    *)
(*                                                                         *)
(* About LogPipeline, for any number of writers and messages and           *)
(* sub-queues of any capacity: messages come out in order, and the file of *)
(* a stopped consumer has all it should have.                              *)
(*                                                                         *)
(* About Message: the text that CFormatter::format returns is that of all  *)
(* the pieces CLogger::write saved, in their order, for every size of the  *)
(* array and of the buffer, and every list of arguments.                   *)
(***************************************************************************)
EXTENDS LogPipeline, Message, SequenceTheorems, WellFoundedInduction, TLAPS

-----------------------------------------------------------------------------
(* Sequences *)

LEMMA Appended ==
    ASSUME NEW S, NEW s \in Seq(S), NEW e \in S, NEW t, t = Append(s, e)
    PROVE  /\ t \in Seq(S) /\ Len(t) = Len(s) + 1
           /\ \A i \in 1 .. Len(s) : t[i] = s[i]
           /\ t[Len(s) + 1] = e
           /\ \A x : Contains(t, x) <=> Contains(s, x) \/ x = e
  <1>1. /\ t \in Seq(S) /\ Len(t) = Len(s) + 1
        /\ \A i \in 1 .. Len(s) : t[i] = s[i]
        /\ t[Len(s) + 1] = e
    OBVIOUS
  <1>2. ASSUME NEW x PROVE Contains(t, x) <=> Contains(s, x) \/ x = e
    BY <1>1 DEF Contains
  <1> QED
    BY <1>1, <1>2

LEMMA Shortened ==
    ASSUME NEW S, NEW s \in Seq(S), Len(s) > 0, NEW t, t = Tail(s)
    PROVE  /\ t \in Seq(S) /\ Len(t) = Len(s) - 1 /\ Head(s) = s[1] /\ Head(s) \in S
           /\ \A i \in 1 .. Len(s) - 1 : t[i] = s[i + 1]
  OBVIOUS

LEMMA Joined ==
    ASSUME NEW S, NEW s \in Seq(S), NEW t \in Seq(S), NEW m \in S
    PROVE  /\ s \o t \in Seq(S)
           /\ (s \o t) \o <<>> = s \o t
           /\ s \o Append(t, m) = (s \o t) \o <<m>>
           /\ (s \o t) \o <<m>> = Append(s \o t, m)
  OBVIOUS

LEMMA NothingJoined ==
    ASSUME NEW S, NEW s \in Seq(S) PROVE s \o <<>> = s
  OBVIOUS

-----------------------------------------------------------------------------
(* What was dequeued *)

NoOneYet == NoMessage \notin Messages

LEMMA NullIsNone == NoOneYet
  BY DEF NoOneYet, NoMessage, Messages

LEMMA DequeuedType == ASSUME TypeOK PROVE Dequeued \in Seq(Messages)
  <1>1. /\ file \in Seq(Messages) /\ stream \in Seq(Messages)
        /\ hand \in Messages \cup {NoMessage}
    BY DEF TypeOK
  <1>2. file \o stream \in Seq(Messages)
    BY <1>1
  <1>3. (IF hand = NoMessage THEN <<>> ELSE <<hand>>) \in Seq(Messages)
    BY <1>1
  <1> QED
    BY <1>2, <1>3 DEF Dequeued

\* The consumer's steps leave what was dequeued as it is, save one that adds the first
\* message of the best sub-queue.
LEMMA DequeuedStep ==
    ASSUME TypeOK, ConsumerRight, [Next]_vars
    PROVE  /\ Dequeued \in Seq(Messages)
           /\ TryBest => Dequeued' = Append(Dequeued, Head(subqueue[best]))
           /\ ~TryBest => Dequeued' = Dequeued
  <1>1. /\ file \in Seq(Messages) /\ stream \in Seq(Messages)
        /\ hand \in Messages \cup {NoMessage}
        /\ subqueue \in [Writers -> Seq(Messages)]
    BY DEF TypeOK
  <1>2. <<>> \in Seq(Messages) /\ file \o stream \in Seq(Messages)
    BY <1>1
  <1>3. hand = NoMessage => Dequeued = file \o stream
    BY <1>1, <1>2, Joined DEF Dequeued
  <1>4. hand # NoMessage => Dequeued = Append(file \o stream, hand)
    BY <1>1, <1>2 DEF Dequeued
  <1>5. Dequeued \in Seq(Messages)
    BY DequeuedType
  <1>6. CASE TryBest
    <2>1. /\ hand = NoMessage /\ best \in Writers /\ Len(subqueue[best]) > 0
          /\ hand' = Head(subqueue[best]) /\ UNCHANGED output
      <3>1. cpc = "best" /\ hand' = Head(subqueue[best]) /\ UNCHANGED output
        BY <1>6 DEF TryBest, Goto
      <3>2. best \in Writers /\ bestSize > 0 /\ bestSize <= Len(subqueue[best])
        BY <3>1 DEF ConsumerRight
      <3>3. bestSize \in Int
        <4>1. bestSize \in 0 .. Capacity
          BY DEF TypeOK
        <4> QED
          BY <4>1, PipelineAssumption
      <3>4. Len(subqueue[best]) \in Nat
        BY <1>1, <3>2
      <3>5. hand = NoMessage
        BY <3>1 DEF ConsumerRight
      <3> QED
        BY <3>1, <3>2, <3>3, <3>4, <3>5
    <2>2. hand' \in Messages /\ hand' # NoMessage
      BY <1>1, <2>1, NullIsNone, Shortened DEF NoOneYet
    <2>3. Dequeued' = (file \o stream) \o <<hand'>>
      BY <2>1, <2>2 DEF Dequeued, output
    <2>4. Dequeued' = Append(file \o stream, hand')
      BY <1>2, <2>2, <2>3
    <2> QED
      BY <1>3, <1>5, <1>6, <2>1, <2>4
  <1>7. CASE FormatAndWrite
    <2>1. hand \in Messages /\ hand # NoMessage /\ hand' = NoMessage
          /\ stream' = Append(stream, hand) /\ file' = file /\ ~TryBest
      BY <1>1, <1>7 DEF FormatAndWrite, TryBest, Goto, ConsumerRight
    <2>2. Dequeued' = (file \o Append(stream, hand)) \o <<>>
      BY <2>1 DEF Dequeued
    <2>3. file \o Append(stream, hand) \in Seq(Messages)
      BY <1>1, <2>1
    <2>4. Dequeued' = file \o Append(stream, hand)
      BY <2>2, <2>3, NothingJoined
    <2>5. file \o Append(stream, hand) = Append(file \o stream, hand)
      BY <1>1, <2>1, Joined
    <2> QED
      BY <1>4, <1>5, <2>1, <2>4, <2>5
  <1>8. CASE FlushAndSleep \/ LastFlush \/ CloseStream
    <2>1. hand = NoMessage /\ UNCHANGED hand /\ Flush /\ ~TryBest
      <3>1. CASE FlushAndSleep
        BY <3>1 DEF FlushAndSleep, TryBest, Goto, ConsumerRight
      <3>2. CASE LastFlush
        BY <3>2 DEF LastFlush, TryBest, Goto, ConsumerRight
      <3>3. CASE CloseStream
        BY <3>3 DEF CloseStream, Step, TryBest, Goto, ConsumerRight
      <3> QED
        BY <1>8, <3>1, <3>2, <3>3
    <2>2. Dequeued' = ((file \o stream) \o <<>>) \o <<>>
      BY <2>1 DEF Dequeued, Flush
    <2> QED
      BY <1>2, <1>3, <1>5, <2>1, <2>2, NothingJoined
  <1>9. CASE ~(TryBest \/ FormatAndWrite \/ FlushAndSleep \/ LastFlush \/ CloseStream)
    <2>1. UNCHANGED <<file, stream, hand>>
      BY <1>9 DEF Next, Writer, Write, Register, Enqueue, Refuse, EndThread, Consumer,
         CheckStop, StartScan, LookAtSize, Main, Initialize, StartConsumer, SetStop, Join,
         JoinWriters, DestroyConsumer, DestroyLogger, output, vars
    <2> QED
      BY <1>5, <1>9, <2>1 DEF Dequeued
  <1> QED
    BY <1>6, <1>7, <1>8, <1>9

-----------------------------------------------------------------------------
(* The parts of the invariant, as the steps leave them *)

LEMMA Typed ==
    ASSUME PipelineInv
    PROVE  /\ producers \in Seq(Writers) /\ Len(producers) \in Nat
           /\ subqueue \in [Writers -> Seq(Messages)]
           /\ \A w \in Writers : Len(subqueue[w]) \in Nat /\ Len(subqueue[w]) <= Capacity
           /\ accepted \in [Writers -> 0 .. MaxMessages]
           /\ wpc \in [Writers -> {"idle", "register", "enqueue", "ended"}]
           /\ position \in Nat /\ nonEmpty \in Nat /\ nonEmpty <= NonEmptyEnough
           /\ bestSize \in Nat /\ bestSize <= Capacity
           /\ best \in Writers \cup {Nobody}
           /\ hand \in Messages \cup {NoMessage}
           /\ stream \in Seq(Messages) /\ file \in Seq(Messages)
           /\ Capacity \in Nat /\ MaxMessages \in Nat /\ NonEmptyEnough \in Nat
           /\ NonEmptyEnough > 0 /\ Capacity > 0
           /\ \A w \in Writers : accepted[w] \in Nat /\ Taken(w) \in Int
  <1>1. Capacity \in Nat /\ MaxMessages \in Nat /\ NonEmptyEnough \in Nat
        /\ NonEmptyEnough > 0 /\ Capacity > 0
    BY PipelineAssumption
  <1>2. TypeOK
    BY DEF PipelineInv
  <1>3. nonEmpty \in 0 .. NonEmptyEnough /\ bestSize \in 0 .. Capacity
        /\ accepted \in [Writers -> 0 .. MaxMessages]
    BY <1>2 DEF TypeOK
  <1>4. /\ producers \in Seq(Writers) /\ subqueue \in [Writers -> Seq(Messages)]
        /\ \A w \in Writers : Len(subqueue[w]) <= Capacity
        /\ wpc \in [Writers -> {"idle", "register", "enqueue", "ended"}]
        /\ position \in Nat /\ best \in Writers \cup {Nobody}
        /\ hand \in Messages \cup {NoMessage}
        /\ stream \in Seq(Messages) /\ file \in Seq(Messages)
    BY <1>2 DEF TypeOK
  <1>5. Len(producers) \in Nat /\ \A w \in Writers : Len(subqueue[w]) \in Nat
    BY <1>4
  <1>6. \A w \in Writers : accepted[w] \in Nat
    BY <1>1, <1>3
  <1>7. \A w \in Writers : Taken(w) \in Int
    BY <1>5, <1>6 DEF Taken
  <1>8. nonEmpty \in Nat /\ nonEmpty <= NonEmptyEnough /\ bestSize \in Nat /\ bestSize <= Capacity
    BY <1>1, <1>3
  <1> QED
    BY <1>1, <1>3, <1>4, <1>5, <1>6, <1>7, <1>8

\* The queues change in four ways.
LEMMA QueueSteps ==
    ASSUME Next
    PROVE  \/ \E w \in Writers : Register(w)
           \/ \E w \in Writers : Enqueue(w)
           \/ TryBest
           \/ DestroyLogger
           \/ UNCHANGED queue
  BY DEF Next, Writer, Write, Refuse, EndThread, Consumer,
     CheckStop, StartScan, LookAtSize, FormatAndWrite, FlushAndSleep, LastFlush,
     Main, Initialize, StartConsumer, SetStop, Join,
     CloseStream, JoinWriters, DestroyConsumer, queue

\* main's end is final.
LEMMA EndIsFinal == ASSUME [Next]_vars, mpc = "end" PROVE mpc' = "end"
  BY DEF Next, Writer, Write, Register, Enqueue, Refuse, EndThread, Consumer,
     CheckStop, StartScan, LookAtSize, TryBest, FormatAndWrite, FlushAndSleep, LastFlush,
     Main, Initialize, StartConsumer, SetStop, Join,
     CloseStream, JoinWriters, DestroyConsumer, DestroyLogger, Step, vars

\* What TryBest finds.
LEMMA BestHasOne ==
    ASSUME PipelineInv, cpc = "best"
    PROVE  /\ best \in Writers /\ Len(subqueue[best]) > 0 /\ mpc # "end"
           /\ Head(subqueue[best]) = <<best, Taken(best) + 1>>
           /\ Head(subqueue[best]) \in Messages
  <1>1. best \in Writers /\ bestSize > 0 /\ bestSize <= Len(subqueue[best]) /\ mpc # "end"
    BY DEF PipelineInv, ConsumerRight
  <1>2. Len(subqueue[best]) \in Nat /\ bestSize \in Nat /\ subqueue[best] \in Seq(Messages)
    BY <1>1, Typed
  <1>3. Len(subqueue[best]) > 0 /\ 1 \in DOMAIN subqueue[best]
    BY <1>1, <1>2
  <1>4. Head(subqueue[best]) = subqueue[best][1] /\ Head(subqueue[best]) \in Messages
    BY <1>2, <1>3
  <1>5. subqueue[best][1] = <<best, Taken(best) + 1>>
    BY <1>1, <1>3 DEF PipelineInv, EveryMessageInOrder
  <1> QED
    BY <1>1, <1>3, <1>4, <1>5

\* EveryMessageInOrder, of what was dequeued (d), how many of each (k), what waits (q).
InOrder(d, k, q) ==
    /\ \A w \in Writers :
          /\ k[w] >= 0
          /\ \A n \in DOMAIN q[w] : q[w][n] = <<w, k[w] + n>>
          /\ \A n \in 1 .. k[w] : \E i \in DOMAIN d : d[i] = <<w, n>>
    /\ \A i \in DOMAIN d : d[i][2] <= k[d[i][1]]
    /\ \A i, j \in DOMAIN d : i < j /\ d[i][1] = d[j][1] => d[i][2] < d[j][2]

LEMMA AcceptedInOrder ==
    ASSUME NEW d, NEW k \in [Writers -> Int], NEW q \in [Writers -> Seq(Messages)],
           InOrder(d, k, q), NEW w \in Writers, NEW e \in Messages,
           e = <<w, k[w] + Len(q[w]) + 1>>,
           NEW z, z = [q EXCEPT ![w] = Append(q[w], e)]
    PROVE  InOrder(d, k, z)
  <1>1. q[w] \in Seq(Messages)
    OBVIOUS
  <1>2. PICK s \in Seq(Messages) : s = q[w]
    BY <1>1
  <1>3. PICK t : t = Append(s, e)
    OBVIOUS
  <1>4. /\ Len(s) \in Nat /\ DOMAIN t = 1 .. Len(s) + 1 /\ DOMAIN s = 1 .. Len(s)
        /\ \A i \in 1 .. Len(s) : t[i] = s[i]
        /\ t[Len(s) + 1] = e
    BY <1>2, <1>3
  <1>5. z[w] = t /\ \A u \in Writers \ {w} : z[u] = q[u]
    BY <1>2, <1>3
  <1>6. \A n \in DOMAIN s : s[n] = <<w, k[w] + n>>
    BY <1>2 DEF InOrder
  <1>7. t[Len(s) + 1] = <<w, k[w] + (Len(s) + 1)>>
    BY <1>2, <1>4
  <1>8. ASSUME NEW n \in DOMAIN t PROVE t[n] = <<w, k[w] + n>>
    <2>1. n \in 1 .. Len(s) \/ n = Len(s) + 1
      BY <1>4
    <2>2. CASE n \in 1 .. Len(s)
      <3>1. n \in DOMAIN s /\ t[n] = s[n]
        BY <1>4, <2>2
      <3> QED
        BY <1>6, <3>1
    <2>3. CASE n = Len(s) + 1
      BY <1>7, <2>3
    <2> QED
      BY <2>1, <2>2, <2>3
  <1>9. \A u \in Writers : \A n \in DOMAIN z[u] : z[u][n] = <<u, k[u] + n>>
    BY <1>5, <1>8 DEF InOrder
  <1> QED
    BY <1>9 DEF InOrder

LEMMA TakenInOrder ==
    ASSUME NEW d \in Seq(Messages), NEW k \in [Writers -> Int],
           NEW q \in [Writers -> Seq(Messages)],
           InOrder(d, k, q), NEW w \in Writers, Len(q[w]) > 0,
           NEW z, z = [q EXCEPT ![w] = Tail(q[w])],
           NEW m, m = [k EXCEPT ![w] = k[w] + 1],
           NEW e, e = Append(d, <<w, k[w] + 1>>), <<w, k[w] + 1>> \in Messages
    PROVE  InOrder(e, m, z)
  <1>1. q[w] \in Seq(Messages)
    OBVIOUS
  <1>2. PICK s \in Seq(Messages) : s = q[w]
    BY <1>1
  <1>3. PICK t : t = Tail(s)
    OBVIOUS
  <1>4. PICK c \in Int : c = k[w]
    OBVIOUS
  <1>5. /\ Len(s) \in Nat /\ DOMAIN t = 1 .. Len(s) - 1 /\ DOMAIN s = 1 .. Len(s)
        /\ \A i \in 1 .. Len(s) - 1 : t[i] = s[i + 1]
    BY <1>2, <1>3
  <1>6. z[w] = t /\ \A u \in Writers \ {w} : z[u] = q[u]
    BY <1>2, <1>3
  <1>7. m[w] = c + 1 /\ \A u \in Writers \ {w} : m[u] = k[u]
    BY <1>4
  <1>8. /\ Len(d) \in Nat /\ DOMAIN d = 1 .. Len(d) /\ DOMAIN e = 1 .. Len(d) + 1
        /\ \A i \in 1 .. Len(d) : e[i] = d[i]
        /\ e[Len(d) + 1] = <<w, c + 1>>
    BY <1>4
  <1>9. \A i \in DOMAIN d : d[i][1] \in Writers /\ d[i][2] \in Int
    <2>1. \A x \in Messages : x[1] \in Writers /\ x[2] \in Int
      BY PipelineAssumption DEF Messages
    <2>2. \A i \in DOMAIN d : d[i] \in Messages
      OBVIOUS
    <2> QED
      BY <2>1, <2>2
  <1>10. ASSUME NEW n \in DOMAIN t PROVE t[n] = <<w, (c + 1) + n>>
    <2>1. n + 1 \in DOMAIN s /\ t[n] = s[n + 1] /\ n \in Int
      BY <1>5
    <2>2. s[n + 1] = <<w, c + (n + 1)>>
      BY <1>2, <1>4, <2>1 DEF InOrder
    <2>3. c + (n + 1) = (c + 1) + n
      BY <2>1
    <2> QED
      BY <2>1, <2>2, <2>3
  <1>11. ASSUME NEW u \in Writers, NEW n \in 1 .. m[u]
         PROVE  \E i \in DOMAIN e : e[i] = <<u, n>>
    <2>1. CASE u = w /\ n = c + 1
      <3>1. Len(d) + 1 \in DOMAIN e
        BY <1>8
      <3> QED
        BY <1>8, <2>1, <3>1
    <2>2. CASE u # w \/ n # c + 1
      <3>1. n \in 1 .. k[u]
        BY <1>4, <1>7, <1>11, <2>2
      <3>2. PICK i \in DOMAIN d : d[i] = <<u, n>>
        BY <3>1 DEF InOrder
      <3>3. i \in DOMAIN e /\ e[i] = d[i]
        BY <1>8, <3>2
      <3> QED
        BY <3>2, <3>3
    <2> QED
      BY <2>1, <2>2
  <1>12. \A u \in Writers : m[u] >= k[u] /\ m[u] >= 0
    BY <1>4, <1>7 DEF InOrder
  <1>13. ASSUME NEW i \in DOMAIN e PROVE e[i][2] <= m[e[i][1]]
    <2>1. CASE i \in DOMAIN d
      <3>1. PICK u, n : u = d[i][1] /\ n = d[i][2]
        OBVIOUS
      <3>2. u \in Writers /\ n \in Int /\ n <= k[u] /\ e[i] = d[i] /\ k[u] \in Int
        BY <1>8, <1>9, <2>1, <3>1 DEF InOrder
      <3>3. m[u] >= k[u] /\ m[u] \in Int
        BY <1>12, <1>4, <3>2
      <3>4. n <= m[u]
        BY <3>2, <3>3
      <3> QED
        BY <3>1, <3>2, <3>4
    <2>2. CASE i = Len(d) + 1
      BY <1>7, <1>8, <2>2
    <2> QED
      BY <1>8, <2>1, <2>2
  <1>14. ASSUME NEW i \in DOMAIN e, NEW j \in DOMAIN e, i < j, e[i][1] = e[j][1]
         PROVE  e[i][2] < e[j][2]
    <2>1. i \in DOMAIN d /\ e[i] = d[i]
      BY <1>8, <1>14
    <2>2. CASE j \in DOMAIN d
      <3>1. e[j] = d[j]
        BY <1>8, <2>2
      <3> QED
        BY <1>14, <2>1, <2>2, <3>1 DEF InOrder
    <2>3. CASE j = Len(d) + 1
      <3>1. e[j] = <<w, c + 1>> /\ d[i][1] = w
        BY <1>8, <1>14, <2>1, <2>3
      <3>2. d[i][2] <= c /\ d[i][2] \in Int
        BY <1>4, <1>9, <2>1, <3>1 DEF InOrder
      <3>3. e[j][2] = c + 1 /\ e[i][2] = d[i][2]
        BY <2>1, <3>1
      <3> QED
        BY <3>2, <3>3
    <2> QED
      BY <1>8, <2>2, <2>3
  <1>15. \A u \in Writers : \A n \in DOMAIN z[u] : z[u][n] = <<u, m[u] + n>>
    BY <1>6, <1>7, <1>10 DEF InOrder
  <1> QED
    BY <1>11, <1>12, <1>13, <1>14, <1>15 DEF InOrder

TakenOf == [w \in Writers |-> Taken(w)]

LEMMA OrderSaid ==
    ASSUME Dequeued \in Seq(Messages)
    PROVE  EveryMessageInOrder <=> (mpc # "end" => InOrder(Dequeued, TakenOf, subqueue))
  <1>1. \A w \in Writers : TakenOf[w] = Taken(w)
    BY DEF TakenOf
  <1>2. PICK d \in Seq(Messages) : d = Dequeued
    OBVIOUS
  <1>3. \A i \in DOMAIN d : d[i][1] \in Writers
    BY DEF Messages
  <1>4. \A i \in DOMAIN d : TakenOf[d[i][1]] = Taken(d[i][1])
    BY <1>1, <1>3
  <1> QED
    BY <1>1, <1>2, <1>4 DEF EveryMessageInOrder, InOrder

LEMMA StepOrder ==
    ASSUME PipelineInv, [Next]_vars PROVE EveryMessageInOrder'
  <1>0. (Dequeued \in Seq(Messages) =>
            (EveryMessageInOrder <=> (mpc # "end" => InOrder(Dequeued, TakenOf, subqueue))))'
    BY OrderSaid, PTL
  <1> SUFFICES ASSUME mpc' # "end"
               PROVE  Dequeued' \in Seq(Messages) /\ InOrder(Dequeued', TakenOf', subqueue')
    BY <1>0 DEF EveryMessageInOrder
  <1>1. /\ mpc # "end" /\ Dequeued \in Seq(Messages)
        /\ InOrder(Dequeued, TakenOf, subqueue)
    BY EndIsFinal, OrderSaid, DequeuedType DEF PipelineInv
  <1>2. /\ TryBest => Dequeued' = Append(Dequeued, Head(subqueue[best]))
        /\ ~TryBest => Dequeued' = Dequeued
    BY DequeuedStep DEF PipelineInv
  <1>3. /\ subqueue \in [Writers -> Seq(Messages)]
        /\ accepted \in [Writers -> 0 .. MaxMessages] /\ MaxMessages \in Nat
        /\ \A w \in Writers : accepted[w] \in Nat /\ Taken(w) \in Int
                              /\ Len(subqueue[w]) \in Nat
    BY Typed
  <1>4. TakenOf \in [Writers -> Int]
    BY <1>3 DEF TakenOf
  <1>5. PICK d, k, q : d = Dequeued /\ k = TakenOf /\ q = subqueue
    OBVIOUS
  <1>6. /\ d \in Seq(Messages) /\ k \in [Writers -> Int] /\ q \in [Writers -> Seq(Messages)]
        /\ InOrder(d, k, q)
    BY <1>1, <1>3, <1>4, <1>5
  <1>7. ASSUME NEW w \in Writers, Enqueue(w)
        PROVE  Dequeued' \in Seq(Messages) /\ InOrder(Dequeued', TakenOf', subqueue')
    <2>1. Dequeued' = d
      <3>1. ~TryBest
        BY <1>7 DEF Enqueue, TryBest, Goto
      <3> QED
        BY <1>2, <1>5, <3>1
    <2>2. PICK e : e = <<w, accepted[w] + 1>>
      OBVIOUS
    <2>3. /\ accepted'[w] = accepted[w] + 1
          /\ \A u \in Writers \ {w} : accepted'[u] = accepted[u]
          /\ subqueue' = [q EXCEPT ![w] = Append(q[w], e)]
      BY <1>3, <1>5, <1>7, <2>2 DEF Enqueue
    <2>4. e \in Messages
      <3>1. accepted[w] < MaxMessages
        BY <1>7 DEF Enqueue, PipelineInv, WritersRight
      <3> QED
        BY <1>3, <2>2, <3>1 DEF Messages
    <2>5. e = <<w, k[w] + Len(q[w]) + 1>>
      <3>1. k[w] + Len(q[w]) + 1 = accepted[w] + 1
        BY <1>3, <1>5 DEF TakenOf, Taken
      <3> QED
        BY <2>2, <3>1
    <2>6. PICK z : z = [q EXCEPT ![w] = Append(q[w], e)]
      OBVIOUS
    <2>7. InOrder(d, k, z) /\ subqueue' = z
      BY <1>6, <2>3, <2>4, <2>5, <2>6, AcceptedInOrder
    <2>8. TakenOf' = k
      <3>1. Len(z[w]) = Len(q[w]) + 1
        <4>1. z[w] = Append(q[w], e) /\ q[w] \in Seq(Messages)
          BY <1>6, <2>6
        <4> QED
          BY <2>4, <4>1
      <3>2. \A u \in Writers \ {w} : z[u] = q[u]
        BY <1>6, <2>6
      <3>3. \A u \in Writers : Taken(u)' = Taken(u)
        BY <1>3, <1>5, <2>3, <2>7, <3>1, <3>2 DEF Taken
      <3> QED
        BY <1>5, <3>3 DEF TakenOf
    <2> QED
      BY <1>6, <2>1, <2>7, <2>8
  <1>8. CASE TryBest
    <2>1. PICK w : w = best
      OBVIOUS
    <2>2. /\ cpc = "best" /\ subqueue' = [q EXCEPT ![w] = Tail(q[w])]
          /\ UNCHANGED accepted
      BY <1>3, <1>5, <1>8, <2>1 DEF TryBest, Goto
    <2>3. /\ w \in Writers /\ Len(q[w]) > 0
          /\ Head(subqueue[best]) = <<w, k[w] + 1>> /\ <<w, k[w] + 1>> \in Messages
      <3>1. /\ best \in Writers /\ Len(subqueue[best]) > 0
            /\ Head(subqueue[best]) = <<best, Taken(best) + 1>>
            /\ Head(subqueue[best]) \in Messages
        BY <2>2, BestHasOne
      <3>2. k[w] = Taken(best)
        BY <1>5, <2>1, <3>1 DEF TakenOf
      <3> QED
        BY <1>5, <2>1, <3>1, <3>2
    <2>4. PICK z, m, e : /\ z = [q EXCEPT ![w] = Tail(q[w])]
                         /\ m = [k EXCEPT ![w] = k[w] + 1]
                         /\ e = Append(d, <<w, k[w] + 1>>)
      OBVIOUS
    <2>5. InOrder(e, m, z)
      BY <1>6, <2>3, <2>4, TakenInOrder
    <2>6. Dequeued' = e /\ subqueue' = z /\ e \in Seq(Messages)
      BY <1>2, <1>5, <1>6, <1>8, <2>2, <2>3, <2>4
    <2>7. TakenOf' = m
      <3>1. Len(z[w]) = Len(q[w]) - 1
        <4>1. z[w] = Tail(q[w]) /\ q[w] \in Seq(Messages)
          BY <1>6, <2>3, <2>4
        <4> QED
          BY <2>3, <4>1
      <3>2. \A u \in Writers \ {w} : z[u] = q[u]
        BY <1>6, <2>4
      <3>3. Taken(w)' = k[w] + 1
        BY <1>3, <1>5, <2>2, <2>3, <2>6, <3>1 DEF Taken, TakenOf
      <3>4. \A u \in Writers \ {w} : Taken(u)' = k[u]
        BY <1>5, <2>2, <2>6, <3>2 DEF Taken, TakenOf
      <3>5. TakenOf' = [u \in Writers |-> IF u = w THEN k[w] + 1 ELSE k[u]]
        BY <3>3, <3>4 DEF TakenOf
      <3> QED
        BY <1>6, <2>4, <3>5
    <2> QED
      BY <2>5, <2>6, <2>7
  <1>9. CASE ~TryBest /\ UNCHANGED <<subqueue, accepted>>
    <2>1. TakenOf' = TakenOf
      BY <1>9 DEF TakenOf, Taken
    <2> QED
      BY <1>1, <1>2, <1>9, <2>1
  <1>10. CASE ~TryBest /\ ~\E w \in Writers : Enqueue(w)
    <2>1. CASE Next
      <3>1. ~DestroyLogger
        BY DEF DestroyLogger, Step
      <3>2. UNCHANGED <<subqueue, accepted>>
        BY <1>10, <2>1, <3>1, QueueSteps DEF queue, Register
      <3> QED
        BY <1>9, <1>10, <3>2
    <2>2. CASE UNCHANGED vars
      BY <1>9, <1>10, <2>2 DEF vars, queue
    <2> QED
      BY <2>1, <2>2
  <1> QED
    BY <1>7, <1>8, <1>10

-----------------------------------------------------------------------------
(* What the other steps change *)

LEMMA ScanSteps ==
    ASSUME Next
    PROVE  StartScan \/ LookAtSize \/ TryBest \/ UNCHANGED scan
  BY DEF Next, Writer, Write, Register, Enqueue, Refuse, EndThread, Consumer,
     CheckStop, FormatAndWrite, FlushAndSleep, LastFlush, Main, Initialize, StartConsumer,
     SetStop, Join, CloseStream, JoinWriters, DestroyConsumer, DestroyLogger

LEMMA OutputSteps ==
    ASSUME Next
    PROVE  \/ FormatAndWrite \/ FlushAndSleep \/ LastFlush \/ CloseStream \/ UNCHANGED output
  BY DEF Next, Writer, Write, Register, Enqueue, Refuse, EndThread, Consumer,
     CheckStop, StartScan, LookAtSize, TryBest, Main, Initialize, StartConsumer,
     SetStop, Join, JoinWriters, DestroyConsumer, DestroyLogger

LEMMA WriterSteps ==
    ASSUME Next
    PROVE  \/ (\E w \in Writers : Writer(w)) /\ UNCHANGED <<cpc, scan, hand, output, mpc,
                                                           acceptedBefore>>
           \/ (Consumer \/ Main) /\ UNCHANGED <<wpc, accepted>>
  BY DEF Next, Writer, Write, Register, Enqueue, Refuse, EndThread, Consumer, output,
     CheckStop, StartScan, LookAtSize, TryBest, FormatAndWrite, FlushAndSleep, LastFlush,
     Main, Initialize, StartConsumer, SetStop, Join, CloseStream, JoinWriters,
     DestroyConsumer, DestroyLogger, queue

\* An accepted message is one more in its sub-queue; nothing else is dequeued or accepted.
LEMMA EnqueueDoes ==
    ASSUME PipelineInv, NEW w \in Writers, Enqueue(w)
    PROVE  /\ subqueue' \in [Writers -> Seq(Messages)]
           /\ accepted' \in [Writers -> 0 .. MaxMessages]
           /\ Len(subqueue'[w]) = Len(subqueue[w]) + 1 /\ Len(subqueue'[w]) <= Capacity
           /\ accepted'[w] = accepted[w] + 1
           /\ \A u \in Writers \ {w} : subqueue'[u] = subqueue[u] /\ accepted'[u] = accepted[u]
  <1>1. /\ subqueue \in [Writers -> Seq(Messages)]
        /\ accepted \in [Writers -> 0 .. MaxMessages] /\ MaxMessages \in Nat
        /\ Capacity \in Nat /\ Len(subqueue[w]) \in Nat /\ accepted[w] \in Nat
    BY Typed
  <1>2. accepted[w] < MaxMessages /\ Len(subqueue[w]) < Capacity
    BY DEF PipelineInv, WritersRight, Enqueue
  <1>3. PICK e : e = <<w, accepted[w] + 1>>
    OBVIOUS
  <1>4. e \in Messages
    BY <1>1, <1>2, <1>3 DEF Messages
  <1>5. PICK t : t = Append(subqueue[w], e)
    OBVIOUS
  <1>6. t \in Seq(Messages) /\ Len(t) = Len(subqueue[w]) + 1
    <2>1. subqueue[w] \in Seq(Messages)
      BY <1>1
    <2> QED
      BY <1>4, <1>5, <2>1, Appended
  <1>7. subqueue' = [subqueue EXCEPT ![w] = t]
    BY <1>3, <1>5 DEF Enqueue
  <1>8. accepted' = [accepted EXCEPT ![w] = accepted[w] + 1]
    BY DEF Enqueue
  <1>9. accepted[w] + 1 \in 0 .. MaxMessages
    BY <1>1, <1>2
  <1> QED
    BY <1>1, <1>2, <1>6, <1>7, <1>8, <1>9

\* TryBest takes the first message of the best sub-queue.
LEMMA TryBestDoes ==
    ASSUME PipelineInv, TryBest
    PROVE  /\ subqueue' \in [Writers -> Seq(Messages)]
           /\ Len(subqueue'[best]) = Len(subqueue[best]) - 1
           /\ best \in Writers /\ hand' \in Messages /\ hand' # NoMessage
           /\ \A u \in Writers \ {best} : subqueue'[u] = subqueue[u]
  <1>1. subqueue \in [Writers -> Seq(Messages)]
    BY Typed
  <1>2. cpc = "best" /\ hand' = Head(subqueue[best])
        /\ subqueue' = [subqueue EXCEPT ![best] = Tail(subqueue[best])]
    BY DEF TryBest, Goto
  <1>3. best \in Writers /\ Len(subqueue[best]) > 0 /\ Head(subqueue[best]) \in Messages
    BY <1>2, BestHasOne
  <1>4. PICK t : t = Tail(subqueue[best])
    OBVIOUS
  <1>5. t \in Seq(Messages) /\ Len(t) = Len(subqueue[best]) - 1
    <2>1. subqueue[best] \in Seq(Messages)
      BY <1>1, <1>3
    <2> QED
      BY <1>3, <1>4, <2>1, Shortened
  <1>6. subqueue' = [subqueue EXCEPT ![best] = t]
    BY <1>2, <1>4
  <1>7. hand' # NoMessage
    BY <1>2, <1>3, NullIsNone DEF NoOneYet
  <1> QED
    BY <1>1, <1>2, <1>3, <1>5, <1>6, <1>7

\* LookAtSize counts the producer it is at, and makes it the best if it has most.
LEMMA LookAtSizeDoes ==
    ASSUME PipelineInv, LookAtSize
    PROVE  \E w \in Writers, size \in Nat :
              /\ w = producers[position] /\ size = Len(subqueue[w]) /\ size <= Capacity
              /\ position \in 1 .. Len(producers) /\ position' = position - 1
              /\ nonEmpty < NonEmptyEnough /\ (nonEmpty > 0 <=> bestSize > 0)
              /\ nonEmpty' = IF size > 0 THEN nonEmpty + 1 ELSE nonEmpty
              /\ \/ size > bestSize /\ best' = w /\ bestSize' = size
                 \/ ~(size > bestSize) /\ UNCHANGED <<best, bestSize>>
              /\ cpc = "size"
              /\ \/ cpc' = "size" /\ nonEmpty' < NonEmptyEnough /\ position' # 0
                 \/ cpc' = "best" /\ nonEmpty' > 0
                 \/ cpc' = "empty" /\ nonEmpty' = 0 /\ position' = 0
              /\ UNCHANGED <<queue, wpc, hand, output, m_Stop, mpc, acceptedBefore>>
  <1>1. cpc = "size"
    BY DEF LookAtSize
  <1>2. position \in 1 .. Len(producers) /\ nonEmpty < NonEmptyEnough
        /\ (nonEmpty > 0 <=> bestSize > 0)
    BY <1>1 DEF PipelineInv, ConsumerRight
  <1>3. PICK w : w = producers[position]
    OBVIOUS
  <1>4. w \in Writers
    <2>1. producers \in Seq(Writers)
      BY Typed
    <2> QED
      BY <1>2, <1>3, <2>1
  <1>5. PICK size : size = Len(subqueue[w])
    OBVIOUS
  <1>6. size \in Nat /\ size <= Capacity
    BY <1>4, <1>5, Typed
  <1>7. nonEmpty \in Nat /\ NonEmptyEnough \in Nat /\ NonEmptyEnough > 0 /\ position \in Nat
    BY Typed
  <1>8. /\ position' = position - 1
        /\ nonEmpty' = nonEmpty + IF size > 0 THEN 1 ELSE 0
        /\ \/ size > bestSize /\ best' = w /\ bestSize' = size
           \/ ~(size > bestSize) /\ UNCHANGED <<best, bestSize>>
        /\ UNCHANGED <<queue, wpc, hand, output, m_Stop, mpc, acceptedBefore>>
    BY <1>3, <1>5 DEF LookAtSize, NextProd
  <1>9. nonEmpty' = IF size > 0 THEN nonEmpty + 1 ELSE nonEmpty
    BY <1>6, <1>7, <1>8
  <1>10. nonEmpty' \in Nat
    BY <1>7, <1>9
  <1>11. cpc' = IF nonEmpty' < NonEmptyEnough /\ position' # 0 THEN "size"
                ELSE IF nonEmpty' > 0 THEN "best" ELSE "empty"
    BY DEF LookAtSize, Goto
  <1>12. \/ cpc' = "size" /\ nonEmpty' < NonEmptyEnough /\ position' # 0
         \/ cpc' = "best" /\ nonEmpty' > 0
         \/ cpc' = "empty" /\ nonEmpty' = 0 /\ position' = 0
    BY <1>7, <1>10, <1>11
  <1> QED
    BY <1>1, <1>2, <1>3, <1>4, <1>5, <1>6, <1>8, <1>9, <1>12

-----------------------------------------------------------------------------
(* TypeOK *)

LEMMA StepTypes ==
    ASSUME PipelineInv, Next PROVE TypeOK'
  <1>0. /\ producers \in Seq(Writers) /\ Len(producers) \in Nat
        /\ subqueue \in [Writers -> Seq(Messages)]
        /\ \A w \in Writers : Len(subqueue[w]) \in Nat /\ Len(subqueue[w]) <= Capacity
        /\ accepted \in [Writers -> 0 .. MaxMessages]
        /\ wpc \in [Writers -> {"idle", "register", "enqueue", "ended"}]
        /\ position \in Nat /\ nonEmpty \in Nat /\ nonEmpty <= NonEmptyEnough
        /\ bestSize \in Nat /\ bestSize <= Capacity
        /\ best \in Writers \cup {Nobody}
        /\ hand \in Messages \cup {NoMessage}
        /\ stream \in Seq(Messages) /\ file \in Seq(Messages)
        /\ Capacity \in Nat /\ MaxMessages \in Nat /\ NonEmptyEnough \in Nat
    BY Typed
  <1>1. producers' \in Seq(Writers)
    <2>1. ASSUME NEW w \in Writers, Register(w) PROVE producers' \in Seq(Writers)
      <3>1. producers' = Append(producers, w)
        BY <2>1 DEF Register
      <3> QED
        BY <1>0, <3>1
    <2>2. CASE UNCHANGED producers
      BY <1>0, <2>2
    <2>3. CASE DestroyLogger
      <3>1. producers' = <<>>
        BY <2>3 DEF DestroyLogger
      <3>2. <<>> \in Seq(Writers)
        OBVIOUS
      <3> QED
        BY <3>1, <3>2
    <2> QED
      BY <2>1, <2>2, <2>3, QueueSteps DEF queue, Enqueue, TryBest
  <1>2. /\ subqueue' \in [Writers -> Seq(Messages)]
        /\ \A w \in Writers : Len(subqueue'[w]) <= Capacity
        /\ accepted' \in [Writers -> 0 .. MaxMessages]
    <2>1. CASE \E w \in Writers : Enqueue(w)
      BY <1>0, <2>1, EnqueueDoes
    <2>2. CASE TryBest
      <3>1. UNCHANGED accepted
        BY <2>2 DEF TryBest
      <3>2. /\ subqueue' \in [Writers -> Seq(Messages)] /\ best \in Writers
            /\ Len(subqueue'[best]) = Len(subqueue[best]) - 1
            /\ \A u \in Writers \ {best} : subqueue'[u] = subqueue[u]
        BY <2>2, TryBestDoes
      <3>3. Len(subqueue'[best]) <= Capacity
        BY <1>0, <3>2
      <3>4. ASSUME NEW u \in Writers \ {best} PROVE Len(subqueue'[u]) <= Capacity
        BY <1>0, <3>2
      <3> QED
        BY <1>0, <3>1, <3>2, <3>3, <3>4
    <2>3. CASE DestroyLogger
      <3>1. subqueue' = [w \in Writers |-> <<>>] /\ UNCHANGED accepted
        BY <2>3 DEF DestroyLogger
      <3>2. <<>> \in Seq(Messages) /\ Len(<<>>) = 0
        OBVIOUS
      <3> QED
        BY <1>0, <3>1, <3>2
    <2>4. CASE UNCHANGED <<subqueue, accepted>>
      BY <1>0, <2>4
    <2> QED
      BY <2>1, <2>2, <2>3, <2>4, QueueSteps DEF queue, Register
  <1>3. wpc' \in [Writers -> {"idle", "register", "enqueue", "ended"}]
    <2>1. ASSUME NEW w \in Writers, Writer(w)
          PROVE  wpc' \in [Writers -> {"idle", "register", "enqueue", "ended"}]
      BY <1>0, <2>1 DEF Writer, Write, Register, Enqueue, Refuse, EndThread
    <2> QED
      BY <1>0, <2>1, WriterSteps
  <1>4. cpc' \in {"none", "check", "scan", "size", "best", "format", "empty", "last flush",
                  "ended"}
    <2>1. cpc \in {"none", "check", "scan", "size", "best", "format", "empty", "last flush",
                   "ended"}
      BY DEF PipelineInv, TypeOK
    <2>2. CASE Consumer
      BY <2>1, <2>2 DEF Consumer, CheckStop, StartScan, LookAtSize, TryBest, FormatAndWrite,
         FlushAndSleep, LastFlush, Goto
    <2>3. CASE Main
      BY <2>1, <2>3 DEF Main, Initialize, StartConsumer, SetStop, Join, CloseStream,
         JoinWriters, DestroyConsumer, DestroyLogger
    <2> QED
      BY <2>1, <2>2, <2>3, WriterSteps
  <1>5. /\ position' \in Nat /\ nonEmpty' \in 0 .. NonEmptyEnough
        /\ best' \in Writers \cup {Nobody} /\ bestSize' \in 0 .. Capacity
    <2>1. CASE StartScan
      BY <1>0, <2>1 DEF StartScan, ListTail
    <2>2. CASE LookAtSize
      <3>1. PICK w \in Writers, size \in Nat :
              /\ size <= Capacity /\ position \in 1 .. Len(producers)
              /\ position' = position - 1 /\ nonEmpty < NonEmptyEnough
              /\ nonEmpty' = IF size > 0 THEN nonEmpty + 1 ELSE nonEmpty
              /\ \/ best' = w /\ bestSize' = size
                 \/ UNCHANGED <<best, bestSize>>
        BY <2>2, LookAtSizeDoes
      <3>2. position' \in Nat
        BY <1>0, <3>1
      <3>3. nonEmpty' \in 0 .. NonEmptyEnough
        BY <1>0, <3>1
      <3>4. (best' = w /\ bestSize' = size) \/ (best' = best /\ bestSize' = bestSize)
        BY <3>1
      <3>5. best' \in Writers \cup {Nobody}
        BY <1>0, <3>4
      <3>6. bestSize' \in 0 .. Capacity
        <4>1. bestSize \in 0 .. Capacity
          <5>1. bestSize \in Nat /\ bestSize <= Capacity /\ Capacity \in Nat
            BY <1>0
          <5> QED
            BY ONLY <5>1
        <4>2. size \in 0 .. Capacity
          <5>1. size \in Nat /\ size <= Capacity /\ Capacity \in Nat
            BY <1>0, <3>1
          <5> QED
            BY ONLY <5>1
        <4>3. CASE best' = w /\ bestSize' = size
          BY ONLY <4>2, <4>3
        <4>4. CASE best' = best /\ bestSize' = bestSize
          BY ONLY <4>1, <4>4
        <4> QED
          BY ONLY <3>4, <4>3, <4>4
      <3> QED
        BY <3>2, <3>3, <3>5, <3>6
    <2>3. CASE TryBest
      BY <1>0, <2>3 DEF TryBest, LocalsGone
    <2>4. CASE UNCHANGED scan
      BY <1>0, <2>4 DEF scan
    <2> QED
      BY <2>1, <2>2, <2>3, <2>4, ScanSteps
  <1>6. hand' \in Messages \cup {NoMessage}
    <2>1. CASE TryBest
      BY <2>1, TryBestDoes
    <2>2. CASE ~TryBest
      <3>1. UNCHANGED hand \/ hand' = NoMessage
        BY <2>2 DEF Next, Writer, Write, Register, Enqueue, Refuse, EndThread, Consumer,
           CheckStop, StartScan, LookAtSize, FormatAndWrite, FlushAndSleep, LastFlush,
           Main, Initialize, StartConsumer, SetStop, Join, CloseStream, JoinWriters,
           DestroyConsumer, DestroyLogger
      <3> QED
        BY <1>0, <3>1
    <2> QED
      BY <2>1, <2>2
  <1>7. stream' \in Seq(Messages) /\ file' \in Seq(Messages)
    <2>1. CASE FormatAndWrite
      <3>1. cpc = "format" /\ stream' = Append(stream, hand) /\ UNCHANGED file
        BY <2>1 DEF FormatAndWrite, Goto
      <3>2. hand \in Messages
        BY <1>0, <3>1 DEF PipelineInv, ConsumerRight
      <3> QED
        BY <1>0, <3>1, <3>2
    <2>2. CASE Flush
      <3>1. file' = file \o stream /\ stream' = <<>>
        BY <2>2 DEF Flush
      <3> QED
        BY <1>0, <3>1
    <2>3. CASE UNCHANGED output
      BY <1>0, <2>3 DEF output
    <2> QED
      BY <2>1, <2>2, <2>3, OutputSteps DEF FlushAndSleep, LastFlush, CloseStream
  <1>8. /\ m_Stop' \in BOOLEAN
        /\ mpc' \in {"begin", "logger", "consumer", "join", "close", "stopped", "alone",
                     "no consumer", "end"}
    <2>1. /\ m_Stop \in BOOLEAN
          /\ mpc \in {"begin", "logger", "consumer", "join", "close", "stopped", "alone",
                      "no consumer", "end"}
      BY DEF PipelineInv, TypeOK
    <2>2. m_Stop' = m_Stop \/ m_Stop' = TRUE
      BY DEF Next, Writer, Write, Register, Enqueue, Refuse, EndThread, Consumer,
         CheckStop, StartScan, LookAtSize, TryBest, FormatAndWrite, FlushAndSleep, LastFlush,
         Main, Initialize, StartConsumer, SetStop, Join, CloseStream, JoinWriters,
         DestroyConsumer, DestroyLogger
    <2>3. \/ mpc' = mpc
          \/ mpc' \in {"begin", "logger", "consumer", "join", "close", "stopped", "alone",
                       "no consumer", "end"}
      BY DEF Next, Writer, Write, Register, Enqueue, Refuse, EndThread, Consumer,
         CheckStop, StartScan, LookAtSize, TryBest, FormatAndWrite, FlushAndSleep, LastFlush,
         Main, Initialize, StartConsumer, SetStop, Join, CloseStream, JoinWriters,
         DestroyConsumer, DestroyLogger, Step
    <2>4. m_Stop' \in BOOLEAN
      BY <2>1, <2>2
    <2> QED
      BY <2>1, <2>3, <2>4
  <1> QED
    BY <1>1, <1>2, <1>3, <1>4, <1>5, <1>6, <1>7, <1>8 DEF TypeOK

-----------------------------------------------------------------------------
(* WritersRight *)

LEMMA StepWriters ==
    ASSUME PipelineInv, Next PROVE WritersRight'
  <1>0. /\ producers \in Seq(Writers)
        /\ accepted \in [Writers -> 0 .. MaxMessages] /\ MaxMessages \in Nat
        /\ wpc \in [Writers -> {"idle", "register", "enqueue", "ended"}]
        /\ \A w \in Writers : accepted[w] \in Nat
    BY Typed
  <1>1. \A w \in Writers :
           /\ wpc[w] \in {"register", "enqueue"} => accepted[w] < MaxMessages
           /\ wpc[w] = "enqueue" \/ accepted[w] > 0 => mpc = "end" \/ Contains(producers, w)
           /\ mpc \in {"alone", "no consumer", "end"} => wpc[w] = "ended"
           /\ acceptedBefore[w] \in 0 .. accepted[w]
    BY DEF PipelineInv, WritersRight
  <1> SUFFICES ASSUME NEW w \in Writers
               PROVE  /\ wpc'[w] \in {"register", "enqueue"} => accepted'[w] < MaxMessages
                      /\ wpc'[w] = "enqueue" \/ accepted'[w] > 0
                            => mpc' = "end" \/ Contains(producers', w)
                      /\ mpc' \in {"alone", "no consumer", "end"} => wpc'[w] = "ended"
                      /\ acceptedBefore'[w] \in 0 .. accepted'[w]
    BY DEF WritersRight
  <1>2. CASE \E v \in Writers : Writer(v)
    <2>1. PICK v \in Writers : Writer(v)
      BY <1>2
    <2>2. UNCHANGED <<mpc, acceptedBefore>>
      BY <2>1 DEF Writer, Write, Register, Enqueue, Refuse, EndThread
    <2>3. CASE Write(v)
      BY <1>0, <1>1, <2>2, <2>3 DEF Write, queue
    <2>4. CASE Register(v)
      <3>1. PICK z : z = Append(producers, v)
        OBVIOUS
      <3>2. Contains(z, v) /\ (Contains(producers, w) => Contains(z, w))
        BY <1>0, <3>1, Appended
      <3>3. producers' = z
        BY <2>4, <3>1 DEF Register
      <3> QED
        BY <1>0, <1>1, <2>2, <2>4, <3>2, <3>3 DEF Register
    <2>5. CASE Enqueue(v)
      <3>1. /\ accepted'[v] = accepted[v] + 1
            /\ \A u \in Writers \ {v} : accepted'[u] = accepted[u]
        BY <2>5, EnqueueDoes
      <3>2. wpc[v] = "enqueue" /\ wpc' = [wpc EXCEPT ![v] = "idle"] /\ UNCHANGED producers
        BY <2>5 DEF Enqueue
      <3>3. CASE w = v
        <4>1. wpc'[w] = "idle" /\ wpc[w] = "enqueue"
          BY <1>0, <3>2, <3>3
        <4>2. mpc \notin {"alone", "no consumer", "end"} /\ Contains(producers, w)
          BY <1>1, <4>1
        <4>3. acceptedBefore[w] \in 0 .. accepted[w] + 1
          <5>1. acceptedBefore[w] \in 0 .. accepted[w] /\ accepted[w] \in Nat
            BY <1>0, <1>1
          <5> QED
            BY <5>1
        <4> QED
          BY <2>2, <3>1, <3>2, <3>3, <4>1, <4>2, <4>3
      <3>4. CASE w # v
        <4>1. wpc'[w] = wpc[w] /\ accepted'[w] = accepted[w]
          BY <1>0, <3>1, <3>2, <3>4
        <4> QED
          BY <1>1, <2>2, <3>2, <4>1
      <3> QED
        BY <3>3, <3>4
    <2>6. CASE Refuse(v)
      BY <1>0, <1>1, <2>2, <2>6 DEF Refuse, queue
    <2>7. CASE EndThread(v)
      BY <1>0, <1>1, <2>2, <2>7 DEF EndThread, queue
    <2> QED
      BY <2>1, <2>3, <2>4, <2>5, <2>6, <2>7 DEF Writer
  <1>3. CASE Consumer
    <2>1. UNCHANGED <<producers, accepted, wpc, mpc>>
      BY <1>3 DEF Consumer, CheckStop, StartScan, LookAtSize, TryBest, FormatAndWrite,
         FlushAndSleep, LastFlush, queue
    <2>2. acceptedBefore' = acceptedBefore \/ acceptedBefore' = accepted
      BY <1>3 DEF Consumer, CheckStop, StartScan, LookAtSize, TryBest, FormatAndWrite,
         FlushAndSleep, LastFlush
    <2>3. acceptedBefore'[w] \in 0 .. accepted[w]
      <3>1. CASE acceptedBefore' = acceptedBefore
        BY <1>1, <3>1
      <3>2. CASE acceptedBefore' = accepted
        <4>1. accepted[w] \in Nat
          BY <1>0
        <4> QED
          BY <3>2, <4>1
      <3> QED
        BY <2>2, <3>1, <3>2
    <2> QED
      BY <1>1, <2>1, <2>3
  <1>4. CASE Main
    <2>1. UNCHANGED <<accepted, wpc, acceptedBefore>>
      BY <1>4 DEF Main, Initialize, StartConsumer, SetStop, Join, CloseStream,
         JoinWriters, DestroyConsumer, DestroyLogger, queue
    <2>2. mpc' = "end" \/ UNCHANGED producers
      BY <1>4 DEF Main, Initialize, StartConsumer, SetStop, Join, CloseStream,
         JoinWriters, DestroyConsumer, DestroyLogger, queue, Step
    <2>3. mpc' \in {"alone", "no consumer", "end"} => wpc[w] = "ended"
      BY <1>1, <1>4 DEF Main, Initialize, StartConsumer, SetStop, Join, CloseStream,
         JoinWriters, DestroyConsumer, DestroyLogger, Step
    <2>4. mpc # "end"
      BY <1>4 DEF Main, Initialize, StartConsumer, SetStop, Join, CloseStream,
         JoinWriters, DestroyConsumer, DestroyLogger, Step
    <2> QED
      BY <1>1, <2>1, <2>2, <2>3, <2>4
  <1> QED
    BY <1>2, <1>3, <1>4 DEF Next

-----------------------------------------------------------------------------
(* ConsumerRight *)

LEMMA StepHand ==
    ASSUME PipelineInv, Next PROVE (hand # NoMessage <=> cpc = "format")'
  <1>1. hand # NoMessage <=> cpc = "format"
    BY DEF PipelineInv, ConsumerRight
  <1>2. CASE TryBest
    BY <1>2, TryBestDoes DEF TryBest, Goto
  <1>3. CASE FormatAndWrite
    BY <1>3 DEF FormatAndWrite, Goto
  <1>4. CASE ~TryBest /\ ~FormatAndWrite
    BY <1>1, <1>4 DEF Next, Writer, Write, Register, Enqueue, Refuse, EndThread, Consumer,
       CheckStop, StartScan, LookAtSize, FlushAndSleep, LastFlush,
       Main, Initialize, StartConsumer, SetStop, Join, CloseStream, JoinWriters,
       DestroyConsumer, DestroyLogger, Goto
  <1> QED
    BY <1>2, <1>3, <1>4

LEMMA StepPlaces ==
    ASSUME PipelineInv, Next
    PROVE  /\ (cpc = "ended" => stream = <<>>)'
           /\ (mpc \in {"begin", "logger"} <=> cpc = "none")'
           /\ (mpc \in {"close", "stopped", "alone", "no consumer", "end"}
                 => cpc = "ended")'
  <1>1. /\ cpc = "ended" => stream = <<>>
        /\ mpc \in {"begin", "logger"} <=> cpc = "none"
        /\ mpc \in {"close", "stopped", "alone", "no consumer", "end"} => cpc = "ended"
    BY DEF PipelineInv, ConsumerRight
  <1>2. CASE \E v \in Writers : Writer(v)
    BY <1>1, <1>2 DEF Writer, Write, Register, Enqueue, Refuse, EndThread, output
  <1>3. CASE Consumer
    BY <1>1, <1>3 DEF Consumer, CheckStop, StartScan, LookAtSize, TryBest, FormatAndWrite,
         FlushAndSleep, LastFlush, Goto, Flush, output
  <1>4. CASE Main
    BY <1>1, <1>4 DEF Main, Initialize, StartConsumer, SetStop, Join, CloseStream,
         JoinWriters, DestroyConsumer, DestroyLogger, Step, Flush, output
  <1> QED
    BY <1>2, <1>3, <1>4 DEF Next

\* What the traversal and its result rest on.
ScanRight ==
    /\ cpc = "size" =>
          /\ position \in 1 .. Len(producers) /\ nonEmpty < NonEmptyEnough
          /\ nonEmpty > 0 <=> bestSize > 0
    /\ (cpc = "size" /\ nonEmpty > 0) \/ cpc = "best" =>
          best \in Writers /\ bestSize > 0 /\ bestSize <= Len(subqueue[best])

LEMMA StepScanRight ==
    ASSUME PipelineInv, Next PROVE ScanRight'
  <1>0. /\ producers \in Seq(Writers) /\ Len(producers) \in Nat
        /\ subqueue \in [Writers -> Seq(Messages)]
        /\ \A w \in Writers : Len(subqueue[w]) \in Nat
        /\ position \in Nat /\ nonEmpty \in Nat /\ bestSize \in Nat
        /\ NonEmptyEnough \in Nat /\ NonEmptyEnough > 0
    BY Typed
  <1>1. ScanRight
    BY DEF PipelineInv, ConsumerRight, ScanRight
  <1>2. CASE \E v \in Writers : Writer(v)
    <2>1. PICK v \in Writers : Writer(v)
      BY <1>2
    <2>2. UNCHANGED <<cpc, position, nonEmpty, best, bestSize>>
      BY <2>1 DEF Writer, Write, Register, Enqueue, Refuse, EndThread, scan
    <2>3. Len(producers') \in Nat /\ Len(producers') >= Len(producers)
      <3>1. producers' = producers \/ producers' = Append(producers, v)
        BY <2>1 DEF Writer, Write, Register, Enqueue, Refuse, EndThread, queue
      <3>2. CASE producers' = Append(producers, v)
        BY <1>0, <3>2
      <3> QED
        BY <1>0, <3>1, <3>2
    <2>4. \A u \in Writers : Len(subqueue'[u]) \in Nat /\ Len(subqueue'[u]) >= Len(subqueue[u])
      <3>1. CASE Enqueue(v)
        <4>1. /\ Len(subqueue'[v]) = Len(subqueue[v]) + 1
              /\ \A u \in Writers \ {v} : subqueue'[u] = subqueue[u]
          BY <3>1, EnqueueDoes
        <4>2. Len(subqueue'[v]) \in Nat /\ Len(subqueue'[v]) >= Len(subqueue[v])
          BY <1>0, <4>1
        <4>3. ASSUME NEW u \in Writers \ {v}
              PROVE  Len(subqueue'[u]) \in Nat /\ Len(subqueue'[u]) >= Len(subqueue[u])
          BY <1>0, <4>1
        <4> QED
          BY <4>2, <4>3
      <3>2. CASE ~Enqueue(v)
        <4>1. UNCHANGED subqueue
          BY <2>1, <3>2 DEF Writer, Write, Register, Refuse, EndThread, queue
        <4> QED
          BY <1>0, <4>1
      <3> QED
        BY <3>1, <3>2
    <2>5. ASSUME cpc = "size"
          PROVE  /\ position \in 1 .. Len(producers') /\ nonEmpty < NonEmptyEnough
                 /\ nonEmpty > 0 <=> bestSize > 0
      BY <1>0, <1>1, <2>3, <2>5 DEF ScanRight
    <2>6. ASSUME (cpc = "size" /\ nonEmpty > 0) \/ cpc = "best"
          PROVE  best \in Writers /\ bestSize > 0 /\ bestSize <= Len(subqueue'[best])
      BY <1>0, <1>1, <2>4, <2>6 DEF ScanRight
    <2> QED
      BY <2>2, <2>5, <2>6 DEF ScanRight
  <1>3. CASE StartScan
    <2>1. /\ cpc' \in {"empty", "size"} /\ (cpc' = "size" => Len(producers) # 0)
          /\ position' = Len(producers) /\ nonEmpty' = 0 /\ bestSize' = 0
          /\ UNCHANGED producers
      BY <1>3 DEF StartScan, Goto, ListTail, queue
    <2> QED
      BY <1>0, <2>1 DEF ScanRight
  <1>4. CASE LookAtSize
    <2>1. PICK w \in Writers, size \in Nat :
              /\ size = Len(subqueue[w])
              /\ position \in 1 .. Len(producers) /\ position' = position - 1
              /\ nonEmpty < NonEmptyEnough /\ (nonEmpty > 0 <=> bestSize > 0)
              /\ nonEmpty' = IF size > 0 THEN nonEmpty + 1 ELSE nonEmpty
              /\ \/ size > bestSize /\ best' = w /\ bestSize' = size
                 \/ ~(size > bestSize) /\ UNCHANGED <<best, bestSize>>
              /\ cpc = "size"
              /\ \/ cpc' = "size" /\ nonEmpty' < NonEmptyEnough /\ position' # 0
                 \/ cpc' = "best" /\ nonEmpty' > 0
                 \/ cpc' = "empty" /\ nonEmpty' = 0 /\ position' = 0
              /\ UNCHANGED queue
      BY <1>4, LookAtSizeDoes
    <2>2. UNCHANGED <<producers, subqueue>>
      BY <2>1 DEF queue
    <2>3. nonEmpty' > 0 <=> bestSize' > 0
      BY <1>0, <2>1
    <2>4. ASSUME bestSize' > 0
          PROVE  best' \in Writers /\ bestSize' <= Len(subqueue[best'])
      <3>1. CASE best' = w /\ bestSize' = size
        BY <1>0, <2>1, <3>1
      <3>2. CASE UNCHANGED <<best, bestSize>>
        <4>1. nonEmpty > 0 /\ cpc = "size"
          BY <2>1, <2>4, <3>2
        <4>2. best \in Writers /\ bestSize <= Len(subqueue[best])
          BY <1>1, <4>1 DEF ScanRight
        <4> QED
          BY <3>2, <4>2
      <3> QED
        BY <2>1, <3>1, <3>2
    <2>5. cpc' = "size" => position' \in 1 .. Len(producers) /\ nonEmpty' < NonEmptyEnough
      BY <1>0, <2>1
    <2>6. cpc' = "best" => nonEmpty' > 0
      BY <2>1
    <2> QED
      BY <2>2, <2>3, <2>4, <2>5, <2>6 DEF ScanRight
  <1>5. CASE ~(StartScan \/ LookAtSize) /\ Consumer
    <2>1. cpc' \notin {"size", "best"}
      BY <1>5 DEF Consumer, CheckStop, TryBest, FormatAndWrite, FlushAndSleep, LastFlush, Goto
    <2> QED
      BY <2>1 DEF ScanRight
  <1>6. CASE Main
    <2>1. UNCHANGED scan /\ (UNCHANGED cpc \/ cpc' = "check")
      BY <1>6 DEF Main, Initialize, StartConsumer, SetStop, Join, CloseStream,
         JoinWriters, DestroyConsumer, DestroyLogger
    <2>2. UNCHANGED queue \/ (mpc = "no consumer" /\ UNCHANGED cpc)
      BY <1>6 DEF Main, Initialize, StartConsumer, SetStop, Join, CloseStream,
         JoinWriters, DestroyConsumer, DestroyLogger, Step
    <2>3. mpc = "no consumer" => cpc = "ended"
      BY DEF PipelineInv, ConsumerRight
    <2> QED
      BY <1>1, <2>1, <2>2, <2>3 DEF ScanRight, scan, queue
  <1> QED
    BY <1>2, <1>3, <1>4, <1>5, <1>6 DEF Next

LEMMA StepConsumer ==
    ASSUME PipelineInv, Next PROVE ConsumerRight'
  BY StepHand, StepPlaces, StepScanRight DEF ConsumerRight, ScanRight

-----------------------------------------------------------------------------
(* ScanMissesNothing *)

\* A writer some of whose accepted messages wait is on the list, with a sub-queue that
\* is not empty.
LEMMA WaitingIsListed ==
    ASSUME PipelineInv, mpc # "end", NEW w \in Writers, accepted[w] > Taken(w)
    PROVE  Len(subqueue[w]) > 0 /\ Contains(producers, w)
  <1>1. accepted[w] \in Nat /\ Len(subqueue[w]) \in Nat
    BY Typed
  <1>2. Taken(w) = accepted[w] - Len(subqueue[w]) /\ Taken(w) >= 0
    BY DEF Taken, PipelineInv, EveryMessageInOrder
  <1>3. Len(subqueue[w]) > 0 /\ accepted[w] > 0
    BY <1>1, <1>2
  <1> QED
    BY <1>3 DEF PipelineInv, WritersRight

LEMMA StepScan ==
    ASSUME PipelineInv, Next PROVE ScanMissesNothing'
  <1>0. /\ producers \in Seq(Writers) /\ Len(producers) \in Nat
        /\ subqueue \in [Writers -> Seq(Messages)]
        /\ \A w \in Writers : accepted[w] \in Nat /\ Len(subqueue[w]) \in Nat
                              /\ Taken(w) \in Int
        /\ position \in Nat /\ nonEmpty \in Nat
    BY Typed
  <1>1. CASE mpc' = "end"
    BY <1>1 DEF ScanMissesNothing
  <1>2. CASE mpc' # "end"
    <2>1. mpc # "end"
      BY <1>2, EndIsFinal
    <2> SUFFICES ASSUME NEW w \in Writers, acceptedBefore'[w] > Taken(w)'
                 PROVE  \/ cpc' \in {"scan", "best", "format"}
                        \/ cpc' = "size" /\ (nonEmpty' > 0
                              \/ \E k \in 1 .. position' : producers'[k] = w)
      BY DEF ScanMissesNothing
    <2>2. acceptedBefore[w] \in Int /\ acceptedBefore[w] <= accepted[w]
      <3>1. acceptedBefore[w] \in 0 .. accepted[w] /\ accepted[w] \in Nat
        BY <1>0 DEF PipelineInv, WritersRight
      <3> QED
        BY <3>1
    <2>3. acceptedBefore[w] > Taken(w) =>
            \/ cpc \in {"scan", "best", "format"}
            \/ cpc = "size" /\ (nonEmpty > 0 \/ \E k \in 1 .. position : producers[k] = w)
      BY <2>1 DEF PipelineInv, ScanMissesNothing
    <2>4. CASE \E v \in Writers : Writer(v)
      <3>1. PICK v \in Writers : Writer(v)
        BY <2>4
      <3>2. UNCHANGED <<cpc, position, nonEmpty, acceptedBefore>>
        BY <3>1 DEF Writer, Write, Register, Enqueue, Refuse, EndThread, scan
      <3>3. Taken(w)' = Taken(w)
        <4>1. CASE Enqueue(v)
          <5>1. CASE v = w
            <6>1. /\ accepted'[w] = accepted[w] + 1
                  /\ Len(subqueue'[w]) = Len(subqueue[w]) + 1
              BY <4>1, <5>1, EnqueueDoes
            <6>2. accepted'[w] - Len(subqueue'[w]) = accepted[w] - Len(subqueue[w])
              <7>1. accepted[w] \in Nat /\ Len(subqueue[w]) \in Nat
                BY <1>0
              <7>2. \A a, l \in Nat : (a + 1) - (l + 1) = a - l
                OBVIOUS
              <7> QED
                BY <6>1, <7>1, <7>2
            <6> QED
              BY <6>2 DEF Taken
          <5>2. CASE v # w
            <6>1. accepted'[w] = accepted[w] /\ subqueue'[w] = subqueue[w]
              BY <4>1, <5>2, EnqueueDoes
            <6> QED
              BY <6>1 DEF Taken
          <5> QED
            BY <5>1, <5>2
        <4>2. CASE ~Enqueue(v)
          BY <3>1, <4>2 DEF Writer, Write, Register, Refuse, EndThread, queue, Taken
        <4> QED
          BY <4>1, <4>2
      <3>4. CASE cpc \in {"scan", "best", "format"}
        BY <3>2, <3>4
      <3>5. CASE cpc = "size"
        <4>1. position <= Len(producers)
          <5>1. position \in 1 .. Len(producers)
            BY <3>5 DEF PipelineInv, ConsumerRight
          <5> QED
            BY <1>0, <5>1
        <4>2. \A k \in 1 .. position : producers'[k] = producers[k]
          <5>1. producers' = producers \/ producers' = Append(producers, v)
            BY <3>1 DEF Writer, Write, Register, Enqueue, Refuse, EndThread, queue
          <5>2. CASE producers' = Append(producers, v)
            BY <1>0, <4>1, <5>2
          <5> QED
            BY <5>1, <5>2
        <4>3. nonEmpty > 0 \/ \E k \in 1 .. position : producers[k] = w
          BY <2>3, <3>2, <3>3, <3>5
        <4> QED
          BY <3>2, <3>5, <4>2, <4>3
      <3> QED
        BY <2>3, <3>2, <3>3, <3>4, <3>5
    <2>5. CASE StartScan
      <3>1. /\ acceptedBefore' = accepted /\ UNCHANGED <<producers, subqueue, accepted>>
            /\ position' = Len(producers)
            /\ cpc' = IF Len(producers) = 0 THEN "empty" ELSE "size"
        BY <2>5 DEF StartScan, Goto, ListTail, queue
      <3>2. accepted[w] > Taken(w)
        BY <3>1 DEF Taken
      <3>3. Contains(producers, w)
        BY <2>1, <3>2, WaitingIsListed
      <3>4. PICK k \in 1 .. Len(producers) : producers[k] = w
        BY <1>0, <3>3 DEF Contains
      <3>5. Len(producers) # 0
        BY <1>0, <3>4
      <3> QED
        BY <3>1, <3>4, <3>5
    <2>6. CASE LookAtSize
      <3>1. PICK u \in Writers, size \in Nat :
              /\ u = producers[position] /\ size = Len(subqueue[u])
              /\ position \in 1 .. Len(producers) /\ position' = position - 1
              /\ nonEmpty' = IF size > 0 THEN nonEmpty + 1 ELSE nonEmpty
              /\ cpc = "size"
              /\ \/ cpc' = "size"
                 \/ cpc' = "best"
                 \/ cpc' = "empty" /\ nonEmpty' = 0 /\ position' = 0
              /\ UNCHANGED <<queue, acceptedBefore>>
        BY <2>6, LookAtSizeDoes
      <3>2. UNCHANGED <<producers, subqueue, accepted, acceptedBefore>>
        BY <3>1 DEF queue
      <3>3. acceptedBefore[w] > Taken(w)
        BY <3>2 DEF Taken
      <3>4. accepted[w] > Taken(w)
        BY <1>0, <2>2, <3>3
      <3>5. Len(subqueue[w]) > 0
        BY <2>1, <3>4, WaitingIsListed
      <3>6. CASE nonEmpty' > 0
        <4>1. cpc' = "size" \/ cpc' = "best"
          BY <3>1, <3>6
        <4> QED
          BY <3>6, <4>1
      <3>7. CASE ~(nonEmpty' > 0)
        <4>1. nonEmpty = 0 /\ size = 0
          BY <1>0, <3>1, <3>7
        <4>2. PICK k \in 1 .. position : producers[k] = w
          BY <2>3, <3>1, <3>3, <4>1
        <4>3. k # position
          <5>1. Len(subqueue[u]) = 0
            BY <3>1, <4>1
          <5>2. u # w
            <6> SUFFICES ASSUME u = w PROVE FALSE
              OBVIOUS
            <6>1. Len(subqueue[w]) = 0
              BY <5>1
            <6> QED
              BY <3>5, <6>1
          <5>3. u = producers[position]
            BY <3>1
          <5> QED
            BY <4>2, <5>2, <5>3
        <4>4. k \in 1 .. position' /\ position' # 0
          BY <1>0, <3>1, <4>2, <4>3
        <4>5. CASE cpc' = "size"
          BY <3>2, <4>2, <4>4, <4>5
        <4>6. CASE cpc' = "best"
          BY <4>6
        <4> QED
          BY <3>1, <4>4, <4>5, <4>6
      <3> QED
        BY <3>6, <3>7
    <2>7. CASE TryBest \/ FormatAndWrite
      BY <2>7 DEF TryBest, FormatAndWrite, Goto
    <2>8. CASE CheckStop \/ FlushAndSleep \/ LastFlush \/ Main
      <3>1. UNCHANGED <<queue, acceptedBefore>>
        <4>1. ~DestroyLogger
          BY <1>2 DEF DestroyLogger, Step
        <4> QED
          BY <2>8, <4>1 DEF CheckStop, FlushAndSleep, LastFlush, Main, Initialize,
             StartConsumer, SetStop, Join, CloseStream, JoinWriters, DestroyConsumer
      <3>2. acceptedBefore[w] > Taken(w)
        BY <3>1 DEF Taken, queue
      <3>3. UNCHANGED <<scan, cpc>>
        BY <2>3, <2>8, <3>2 DEF CheckStop, FlushAndSleep, LastFlush, Main, Initialize, Goto,
           StartConsumer, SetStop, Join, CloseStream, JoinWriters, DestroyConsumer,
           DestroyLogger
      <3> QED
        BY <2>3, <3>1, <3>2, <3>3 DEF queue, scan
    <2> QED
      BY <2>4, <2>5, <2>6, <2>7, <2>8 DEF Next, Consumer
  <1> QED
    BY <1>1, <1>2

-----------------------------------------------------------------------------
(* The invariant *)

LEMMA InitPipeline == ASSUME Init PROVE PipelineInv
  <1>1. /\ Capacity \in Nat /\ MaxMessages \in Nat /\ NonEmptyEnough \in Nat
        /\ NonEmptyEnough > 0
    BY PipelineAssumption
  <1>2. <<>> \in Seq(Writers) /\ <<>> \in Seq(Messages) /\ Len(<<>>) = 0
    OBVIOUS
  <1>3. TypeOK
    <2>1. subqueue \in [Writers -> Seq(Messages)]
          /\ \A w \in Writers : Len(subqueue[w]) <= Capacity
      BY <1>1, <1>2 DEF Init
    <2>2. /\ accepted \in [Writers -> 0 .. MaxMessages]
          /\ wpc \in [Writers -> {"idle", "register", "enqueue", "ended"}]
      BY <1>1 DEF Init
    <2>3. /\ position \in Nat /\ nonEmpty \in 0 .. NonEmptyEnough
          /\ best \in Writers \cup {Nobody} /\ bestSize \in 0 .. Capacity
      BY <1>1 DEF Init
    <2>4. /\ producers \in Seq(Writers) /\ stream \in Seq(Messages)
          /\ file \in Seq(Messages) /\ hand \in Messages \cup {NoMessage}
      BY <1>2 DEF Init
    <2>5. /\ cpc \in {"none", "check", "scan", "size", "best", "format", "empty",
                      "last flush", "ended"}
          /\ m_Stop \in BOOLEAN
          /\ mpc \in {"begin", "logger", "consumer", "join", "close", "stopped", "alone",
                      "no consumer", "end"}
      BY DEF Init
    <2> QED
      BY <2>1, <2>2, <2>3, <2>4, <2>5 DEF TypeOK
  <1>4. WritersRight
    BY DEF Init, WritersRight
  <1>5. ConsumerRight
    BY DEF Init, ConsumerRight
  <1>6. \A w \in Writers : Taken(w) = 0
    BY <1>2 DEF Init, Taken
  <1>7. ScanMissesNothing
    BY <1>6 DEF Init, ScanMissesNothing
  <1>8. Dequeued = <<>>
    <2>1. Dequeued = (<<>> \o <<>>) \o <<>>
      BY DEF Init, Dequeued
    <2>2. <<>> \o <<>> = <<>>
      BY <1>2, NothingJoined
    <2> QED
      BY <2>1, <2>2
  <1>9. EveryMessageInOrder
    <2>1. DOMAIN Dequeued = {} /\ \A w \in Writers : DOMAIN subqueue[w] = {}
      BY <1>8 DEF Init
    <2> QED
      BY <1>6, <2>1 DEF EveryMessageInOrder
  <1> QED
    BY <1>3, <1>4, <1>5, <1>7, <1>9 DEF PipelineInv

LEMMA StutterPipeline == ASSUME PipelineInv, UNCHANGED vars PROVE PipelineInv'
  <1>1. TypeOK'
    BY DEF PipelineInv, TypeOK, vars, queue, scan, output
  <1>2. WritersRight' /\ ConsumerRight'
    BY DEF PipelineInv, WritersRight, ConsumerRight, vars, queue, scan, output
  <1>3. ScanMissesNothing'
    BY DEF PipelineInv, ScanMissesNothing, Taken, vars, queue, scan
  <1>4. EveryMessageInOrder'
    BY StepOrder
  <1> QED
    BY <1>1, <1>2, <1>3, <1>4 DEF PipelineInv

\* The invariant the theorems rest on holds in every state: threads write, register and
\* dequeue in any order, and main stops the consumer whenever it likes.
THEOREM PipelineInvariant == Spec => []PipelineInv
  <1>1. Init => PipelineInv
    BY InitPipeline
  <1>2. PipelineInv /\ [Next]_vars => PipelineInv'
    <2>1. ASSUME PipelineInv, Next PROVE PipelineInv'
      BY <2>1, StepTypes, StepWriters, StepConsumer, StepScan, StepOrder DEF PipelineInv
    <2> QED
      BY <2>1, StutterPipeline
  <1> QED
    BY <1>1, <1>2, PTL DEF Spec

\* Every variable keeps its type; no sub-queue exceeds its limit, however the writers'
\* calls interleave with the consumer's.
THEOREM PipelineTypes == Spec => []TypeOK
  <1>1. PipelineInv => TypeOK
    BY DEF PipelineInv
  <1> QED
    BY <1>1, PipelineInvariant, PTL

\* Between CLogger::write and the file no message is lost, doubled or overtaken by a
\* later one of its thread, whichever sub-queues try_dequeue chooses.
THEOREM MessagesInOrder == Spec => []EveryMessageInOrder
  <1>1. PipelineInv => EveryMessageInOrder
    BY DEF PipelineInv
  <1> QED
    BY <1>1, PipelineInvariant, PTL

\* When stop() has returned, the file has all that was accepted before the consumer
\* thread's last try_dequeue began: a traversal that finds nothing has missed nothing
\* that was there when it began.
THEOREM StoppedFileComplete == Spec => []StoppedFileIsComplete
  <1>1. ASSUME PipelineInv PROVE StoppedFileIsComplete
    <2> SUFFICES ASSUME mpc = "stopped", NEW w \in Writers, NEW n \in 1 .. acceptedBefore[w]
                 PROVE  Contains(file, <<w, n>>)
      BY DEF StoppedFileIsComplete
    <2>1. cpc = "ended" /\ stream = <<>> /\ hand = NoMessage
      BY <1>1 DEF PipelineInv, ConsumerRight
    <2>2. acceptedBefore[w] \in Int /\ Taken(w) \in Int /\ file \in Seq(Messages)
      <3>1. acceptedBefore[w] \in 0 .. accepted[w] /\ accepted[w] \in Nat
        BY <1>1, Typed DEF PipelineInv, WritersRight
      <3> QED
        BY <1>1, <3>1, Typed
    <2>3. ~(acceptedBefore[w] > Taken(w))
      BY <1>1, <2>1 DEF PipelineInv, ScanMissesNothing
    <2>4. n \in 1 .. Taken(w)
      BY <2>2, <2>3
    <2>5. \E i \in DOMAIN Dequeued : Dequeued[i] = <<w, n>>
      BY <1>1, <2>4 DEF PipelineInv, EveryMessageInOrder
    <2>6. Dequeued = file
      <3>1. Dequeued = (file \o <<>>) \o <<>>
        BY <2>1 DEF Dequeued
      <3>2. file \o <<>> = file
        BY <2>2, NothingJoined
      <3> QED
        BY <3>1, <3>2
    <2>7. PICK i \in 1 .. Len(file) : file[i] = <<w, n>>
      BY <2>2, <2>5, <2>6
    <2> QED
      BY <2>7 DEF Contains
  <1>2. PipelineInv => StoppedFileIsComplete
    BY <1>1
  <1> QED
    BY <1>2, PipelineInvariant, PTL

\* Destructors run when nobody is left who could use the object: the stream is closed
\* after the consumer thread has ended, the queue goes after the writers have.
THEOREM ObjectsOutlive == Spec => []ObjectsOutliveUsers
  <1>1. ASSUME PipelineInv PROVE ObjectsOutliveUsers
    <2>1. mpc \in {"close", "stopped", "alone", "no consumer", "end"} => cpc = "ended"
      BY <1>1 DEF PipelineInv, ConsumerRight
    <2>2. mpc = "end" => \A w \in Writers : wpc[w] = "ended"
      BY <1>1 DEF PipelineInv, WritersRight
    <2> QED
      BY <2>1, <2>2 DEF ObjectsOutliveUsers
  <1>2. PipelineInv => ObjectsOutliveUsers
    BY <1>1
  <1> QED
    BY <1>2, PipelineInvariant, PTL

-----------------------------------------------------------------------------
(* Sequences of texts and what FlattenSeq makes of them *)

\* The natural numbers are well ordered.
LEMMA NatIsWellFounded == IsWellFoundedOn({p1 \in Nat \X Nat : p1[1] < p1[2]}, Nat)
  BY NatLessThanWellFounded, Zenon DEF OpToRel

LEMMA LeastElement ==
  ASSUME NEW T \in SUBSET Nat, T # {}
  PROVE  \E n \in T : \A m \in T : n <= m
<1>1. PICK n \in T : \A m \in T : <<m, n>> \notin {p1 \in Nat \X Nat : p1[1] < p1[2]}
  BY NatIsWellFounded, WFMin, Zenon
<1>2. ASSUME NEW m \in T PROVE n <= m
  <2>1. <<m, n>> \notin {p1 \in Nat \X Nat : p1[1] < p1[2]}
    BY <1>1
  <2>2. m \in Nat /\ n \in Nat
    OBVIOUS
  <2> QED BY <2>1, <2>2
<1> QED BY <1>2

\* g computes what FlattenSeq's recursive function does, up to the n-th sequence.
Flattens(g, s, n) == \A i \in 1 .. n : g[i] = IF i = 1 THEN s[i] ELSE g[i - 1] \o s[i]

LEMMA FlattenerExists ==
  ASSUME NEW X, NEW s \in Seq(Seq(X))
  PROVE  \E g \in [1 .. Len(s) -> Seq(X)] : Flattens(g, s, Len(s))
<1> DEFINE Good(n) == \E g \in [1 .. n -> Seq(X)] : Flattens(g, s, n)
           Bad == {n \in 0 .. Len(s) : ~Good(n)}
<1>1. Good(0)
  <2>1. [i \in 1 .. 0 |-> <<>>] \in [1 .. 0 -> Seq(X)]
    OBVIOUS
  <2>2. Flattens([i \in 1 .. 0 |-> <<>>], s, 0)
    BY DEF Flattens
  <2> QED BY <2>1, <2>2
<1>2. ASSUME NEW n \in 0 .. Len(s) - 1, Good(n)
      PROVE  Good(n + 1)
  <2>1. PICK g \in [1 .. n -> Seq(X)] : Flattens(g, s, n)
    BY <1>2
  <2>2. PICK last \in Seq(X) : /\ n = 0 => last = s[1]
                               /\ n # 0 => last = g[n] \o s[n + 1]
    <3>1. s[n + 1] \in Seq(X)
      OBVIOUS
    <3>2. CASE n = 0
      BY <3>1, <3>2
    <3>3. CASE n # 0
      <4>1. g[n] \in Seq(X)
        BY <3>3
      <4>2. g[n] \o s[n + 1] \in Seq(X)
        BY <3>1, <4>1
      <4> QED BY <3>3, <4>2, Zenon
    <3> QED BY <3>2, <3>3
  <2> DEFINE h == [i \in 1 .. n + 1 |-> IF i = n + 1 THEN last ELSE g[i]]
  <2>3. h \in [1 .. n + 1 -> Seq(X)]
    BY <2>2
  <2>4. ASSUME NEW i \in 1 .. n + 1
        PROVE  h[i] = IF i = 1 THEN s[i] ELSE h[i - 1] \o s[i]
    <3>1. CASE i = n + 1
      <4>1. h[i] = last /\ (i = 1 <=> n = 0) /\ i - 1 = n
        BY <3>1
      <4>2. n # 0 => h[i - 1] = g[n]
        BY <3>1
      <4> HIDE DEF h
      <4>5. CASE n = 0
        <5>1. i = 1 /\ h[i] = s[i]
          BY <3>1, <4>1, <2>2, <4>5
        <5> QED BY <5>1, Zenon
      <4>6. CASE n # 0
        <5>1. i # 1
          BY <3>1, <4>6
        <5>2. h[i] = h[i - 1] \o s[i]
          BY <3>1, <4>1, <4>2, <2>2, <4>6, Zenon
        <5> QED BY <5>1, <5>2, Zenon
      <4> QED BY <4>5, <4>6, Zenon
    <3>2. CASE i \in 1 .. n
      <4>1. g[i] = IF i = 1 THEN s[i] ELSE g[i - 1] \o s[i]
        BY <2>1, <3>2 DEF Flattens
      <4>2. h[i] = g[i]
        BY <3>2
      <4>3. i # 1 => h[i - 1] = g[i - 1]
        BY <3>2
      <4> QED BY <4>1, <4>2, <4>3, Zenon
    <3> QED BY <3>1, <3>2
  <2>5. Flattens(h, s, n + 1)
    BY <2>4 DEF Flattens
  <2> QED BY <2>3, <2>5
<1>3. SUFFICES Bad = {}
  BY <1>3, Len(s) \in 0 .. Len(s)
<1>4. SUFFICES ASSUME Bad # {} PROVE FALSE
  OBVIOUS
<1>5. PICK n \in Bad : \A m \in Bad : n <= m
  <2>1. Bad \in SUBSET Nat
    OBVIOUS
  <2> QED BY <2>1, <1>4, LeastElement
<1> HIDE DEF Good
<1>6. n \in 1 .. Len(s)
  BY <1>5, <1>1
<1>7. Good(n - 1)
  BY <1>5, <1>6
<1>8. Good(n - 1 + 1)
  BY <1>2, <1>6, <1>7
<1> QED BY <1>5, <1>6, <1>8

\* g and h have the same first n values.
Agree(g, h, n) == \A i \in 1 .. n : g[i] = h[i]

LEMMA FlattenerIsUnique ==
  ASSUME NEW s, NEW n \in Nat, NEW g, NEW h, Flattens(g, s, n), Flattens(h, s, n)
  PROVE  Agree(g, h, n)
<1> DEFINE Bad == {i \in 1 .. n : g[i] # h[i]}
<1>1. SUFFICES ASSUME Bad # {} PROVE FALSE
  BY DEF Agree
<1>2. PICK i \in Bad : \A j \in Bad : i <= j
  <2>1. Bad \in SUBSET Nat
    OBVIOUS
  <2> QED BY <2>1, <1>1, LeastElement
<1>3. CASE i = 1
  BY <1>2, <1>3 DEF Flattens
<1>4. CASE i # 1
  <2>1. i - 1 \in 1 .. n /\ i - 1 \notin Bad
    BY <1>2, <1>4
  <2>2. g[i - 1] = h[i - 1]
    BY <2>1
  <2>3. g[i] = g[i - 1] \o s[i] /\ h[i] = h[i - 1] \o s[i]
    BY <1>2, <1>4 DEF Flattens
  <2> QED BY <1>2, <2>2, <2>3
<1> QED BY <1>3, <1>4

\* FlattenSeq is the last value of such a function.
LEMMA FlattenIsLast ==
  ASSUME NEW X, NEW s \in Seq(Seq(X)), s # <<>>
  PROVE  \E g \in [1 .. Len(s) -> Seq(X)] :
            Flattens(g, s, Len(s)) /\ FlattenSeq(s) = g[Len(s)]
<1> DEFINE fl[i \in 1 .. Len(s)] == IF i = 1 THEN s[i] ELSE fl[i - 1] \o s[i]
<1>1. FlattenSeq(s) = fl[Len(s)]
  <2>1. Len(s) # 0
    OBVIOUS
  <2> QED BY <2>1 DEF FlattenSeq
<1>2. PICK g \in [1 .. Len(s) -> Seq(X)] : Flattens(g, s, Len(s))
  BY FlattenerExists
<1>3. g = [i \in 1 .. Len(s) |-> IF i = 1 THEN s[i] ELSE g[i - 1] \o s[i]]
  BY <1>2 DEF Flattens
<1>4. fl = [i \in 1 .. Len(s) |-> IF i = 1 THEN s[i] ELSE fl[i - 1] \o s[i]]
  BY <1>3, Zenon
<1> HIDE DEF fl
<1>5. Flattens(fl, s, Len(s))
  BY <1>4 DEF Flattens
<1>6. \A i \in 1 .. Len(s) : fl[i] = g[i]
  <2>1. Len(s) \in Nat
    OBVIOUS
  <2> QED BY <1>2, <1>5, <2>1, FlattenerIsUnique DEF Agree
<1>7. Len(s) \in 1 .. Len(s)
  OBVIOUS
<1>8. fl[Len(s)] = g[Len(s)]
  BY <1>6, <1>7
<1> QED BY <1>1, <1>2, <1>8

\* What FlattenSeq of one sequence more is.
LEMMA FlattenAppend ==
  ASSUME NEW X, NEW s \in Seq(Seq(X)), NEW t \in Seq(X)
  PROVE  FlattenSeq(Append(s, t)) = FlattenSeq(s) \o t
<1> DEFINE u == Append(s, t)
<1>0. u \in Seq(Seq(X)) /\ u # <<>> /\ Len(u) = Len(s) + 1 /\ Len(s) \in Nat
      /\ u[Len(s) + 1] = t /\ \A i \in 1 .. Len(s) : u[i] = s[i]
  <2>1. ASSUME NEW Y, s \in Seq(Y), t \in Y
        PROVE  /\ u \in Seq(Y) /\ u # <<>> /\ Len(u) = Len(s) + 1 /\ Len(s) \in Nat
               /\ u[Len(s) + 1] = t /\ \A i \in 1 .. Len(s) : u[i] = s[i]
    BY <2>1
  <2> QED BY <2>1
<1> HIDE DEF u
<1>1. PICK g \in [1 .. Len(u) -> Seq(X)] :
         Flattens(g, u, Len(u)) /\ FlattenSeq(u) = g[Len(u)]
  BY <1>0, FlattenIsLast
<1>2. CASE s = <<>>
  <2>1. FlattenSeq(s) = <<>>
    BY <1>2 DEF FlattenSeq
  <2>2. g[1] = t
    BY <1>0, <1>1, <1>2 DEF Flattens
  <2>3. FlattenSeq(u) = t
    BY <1>0, <1>1, <1>2, <2>2
  <2> QED BY <2>1, <2>3 DEF u
<1>3. CASE s # <<>>
  <2>1. PICK h \in [1 .. Len(s) -> Seq(X)] :
           Flattens(h, s, Len(s)) /\ FlattenSeq(s) = h[Len(s)]
    BY <1>3, FlattenIsLast
  <2>2. Flattens(g, s, Len(s))
    <3>1. ASSUME NEW i \in 1 .. Len(s)
          PROVE  g[i] = IF i = 1 THEN s[i] ELSE g[i - 1] \o s[i]
      <4>1. i \in 1 .. Len(u) /\ u[i] = s[i]
        BY <1>0
      <4>2. g[i] = IF i = 1 THEN u[i] ELSE g[i - 1] \o u[i]
        BY <1>1, <4>1 DEF Flattens
      <4> QED BY <4>1, <4>2, Zenon
    <3> QED BY <3>1, Zenon DEF Flattens
  <2>3. g[Len(s)] = h[Len(s)]
    <3>1. Len(s) \in 1 .. Len(s)
      BY <1>0, <1>3
    <3>2. \A i \in 1 .. Len(s) : g[i] = h[i]
      <4>1. Len(s) \in Nat
        BY <1>0
      <4>2. Flattens(h, s, Len(s))
        BY <2>1
      <4>3. Agree(g, h, Len(s))
        BY ONLY <4>1, <4>2, <2>2, FlattenerIsUnique
      <4> QED BY <4>3, Zenon DEF Agree
    <3> QED BY <3>1, <3>2
  <2>4. g[Len(u)] = g[Len(s)] \o t
    <3>1. Len(u) \in 1 .. Len(u) /\ Len(u) # 1 /\ Len(u) - 1 = Len(s) /\ u[Len(u)] = t
      BY <1>0, <1>3
    <3>2. g[Len(u)] = g[Len(u) - 1] \o u[Len(u)]
      BY <1>1, <3>1 DEF Flattens
    <3> QED BY <3>1, <3>2
  <2> QED BY <1>1, <2>1, <2>3, <2>4 DEF u
<1> QED BY <1>2, <1>3

\* A flattened prefix is no longer than the whole.
LEMMA FlattenGrows ==
  ASSUME NEW X, NEW s \in Seq(Seq(X)), NEW k \in 0 .. Len(s)
  PROVE  /\ FlattenSeq(SubSeq(s, 1, k)) \in Seq(X)
         /\ k < Len(s) => FlattenSeq(SubSeq(s, 1, k + 1))
                             = FlattenSeq(SubSeq(s, 1, k)) \o s[k + 1]
         /\ Len(FlattenSeq(SubSeq(s, 1, k))) <= Len(FlattenSeq(s))
<1> DEFINE F(j) == FlattenSeq(SubSeq(s, 1, j))
<1>1. ASSUME NEW j \in 0 .. Len(s)
      PROVE  F(j) \in Seq(X)
  <2>1. ASSUME NEW u \in Seq(Seq(X))
        PROVE  FlattenSeq(u) \in Seq(X)
    <3>1. CASE u = <<>>
      <4>1. FlattenSeq(u) = <<>>
        BY <3>1 DEF FlattenSeq
      <4> QED BY <4>1
    <3>2. CASE u # <<>>
      <4>1. PICK g \in [1 .. Len(u) -> Seq(X)] : FlattenSeq(u) = g[Len(u)]
        BY <3>2, FlattenIsLast
      <4>2. Len(u) \in 1 .. Len(u)
        BY <3>2
      <4>3. g[Len(u)] \in Seq(X)
        BY <4>2
      <4> QED BY <4>1, <4>3, Zenon
    <3> QED BY <3>1, <3>2
  <2>2. SubSeq(s, 1, j) \in Seq(Seq(X))
    OBVIOUS
  <2> QED BY <2>1, <2>2
<1>2. ASSUME NEW j \in 0 .. Len(s) - 1
      PROVE  F(j + 1) = F(j) \o s[j + 1]
  <2>1. SubSeq(s, 1, j) \in Seq(Seq(X)) /\ s[j + 1] \in Seq(X)
    OBVIOUS
  <2>2. SubSeq(s, 1, j + 1) = Append(SubSeq(s, 1, j), s[j + 1])
    <3>1. ASSUME NEW Y, s \in Seq(Y)
          PROVE  SubSeq(s, 1, j + 1) = Append(SubSeq(s, 1, j), s[j + 1])
      BY <3>1
    <3> QED BY <3>1
  <2>3. FlattenSeq(Append(SubSeq(s, 1, j), s[j + 1]))
           = FlattenSeq(SubSeq(s, 1, j)) \o s[j + 1]
    BY <2>1, FlattenAppend
  <2> QED BY <2>2, <2>3, Zenon
<1>3. F(Len(s)) = FlattenSeq(s)
  <2>1. SubSeq(s, 1, Len(s)) = s
    <3>1. ASSUME NEW Y, s \in Seq(Y)
          PROVE  SubSeq(s, 1, Len(s)) = s
      BY <3>1
    <3> QED BY <3>1
  <2> QED BY <2>1, Zenon
<1> DEFINE Shorter == {j \in k .. Len(s) : Len(F(j)) < Len(F(k))}
<1>4. Shorter = {}
  <2>1. SUFFICES ASSUME Shorter # {} PROVE FALSE
    OBVIOUS
  <2>2. PICK j \in Shorter : \A m \in Shorter : j <= m
    <3>1. Shorter \in SUBSET Nat
      OBVIOUS
    <3> QED BY <2>1, <3>1, LeastElement
  <2> HIDE DEF F
  <2>3. j # k /\ j \in k .. Len(s)
    BY <2>2
  <2>4. j - 1 \in k .. Len(s) /\ j - 1 \notin Shorter
    BY <2>2, <2>3
  <2>5. Len(F(j - 1)) >= Len(F(k))
    <3>1. F(k) \in Seq(X) /\ F(j - 1) \in Seq(X)
      BY <1>1, <2>4
    <3>2. Len(F(k)) \in Nat /\ Len(F(j - 1)) \in Nat
      BY <3>1
    <3> QED BY <2>4, <3>2
  <2>6. F(j) = F(j - 1) \o s[j]
    <3>1. j - 1 \in 0 .. Len(s) - 1 /\ j - 1 + 1 = j
      BY <2>3
    <3> QED BY <1>2, <3>1
  <2>7. Len(F(j)) >= Len(F(j - 1))
    <3>1. F(j - 1) \in Seq(X) /\ s[j] \in Seq(X)
      BY <1>1, <2>3, <2>4
    <3>2. \A a, b \in Seq(X) : Len(a \o b) >= Len(a)
      OBVIOUS
    <3>3. Len(F(j - 1) \o s[j]) >= Len(F(j - 1))
      BY <3>1, <3>2
    <3> QED BY <2>6, <3>3, Zenon
  <2>8. Len(F(j)) \in Nat /\ Len(F(k)) \in Nat /\ Len(F(j - 1)) \in Nat
    <3>1. F(k) \in Seq(X) /\ F(j) \in Seq(X) /\ F(j - 1) \in Seq(X)
      BY <1>1, <2>3, <2>4
    <3> QED BY <3>1
  <2> QED BY <2>2, <2>5, <2>7, <2>8
<1>5. Len(F(k)) <= Len(F(Len(s)))
  <2>1. Len(s) \in k .. Len(s) /\ Len(s) \notin Shorter
    BY <1>4
  <2> HIDE DEF F
  <2>2. F(k) \in Seq(X) /\ F(Len(s)) \in Seq(X)
    BY <1>1, <2>1
  <2>3. Len(F(k)) \in Nat /\ Len(F(Len(s))) \in Nat
    BY <2>2
  <2> QED BY <2>1, <2>3
<1> QED
  <2>1. k < Len(s) => k \in 0 .. Len(s) - 1
    OBVIOUS
  <2>2. Len(F(k)) <= Len(FlattenSeq(s))
    BY <1>3, <1>5, Zenon
  <2> QED BY <1>1, <1>2, <2>1, <2>2, Zenon

-----------------------------------------------------------------------------
(* The pieces of a statement *)

\* What texts are made of.
Symbols == Values \cup {"\n", " ", "now", "thread id", "level", "position"}

\* A piece before the end marker.
IsValue(piece) ==
    /\ ~Incomplete(piece) /\ piece.type # "END_MARKER_TYPE"
    /\ Text(piece) \in Seq(Symbols)

LEMMA TextOfOneValue == \A v \in Symbols : <<v, " ">> \in Seq(Symbols)
<1>1. " " \in Symbols
  BY DEF Symbols
<1>2. ASSUME NEW S, NEW v \in S, NEW w \in S
      PROVE  <<v, w>> \in Seq(S)
  OBVIOUS
<1> QED BY <1>1, <1>2

LEMMA PrefixOfValues ==
  ASSUME NEW o \in {"plain", "timed"}
  PROVE  /\ Len(Prefix(o)) = IF o = "timed" THEN 4 ELSE 3
         /\ \A i \in 1 .. Len(Prefix(o)) : IsValue(Prefix(o)[i])
<1> DEFINE now == Piece("TIMEPOINT_TYPE", "now")
           id == Piece("INT32_TYPE", "thread id")
           level == Piece("LOG_LEVEL_TYPE", "level")
           place == Piece("C_STR_TYPE", "position")
<1>1. IsValue(now) /\ IsValue(id) /\ IsValue(level) /\ IsValue(place)
  <2>1. \A v \in Symbols : <<v, " ">> \in Seq(Symbols)
    BY TextOfOneValue
  <2>2. /\ Text(now) = <<"now", " ">> /\ Text(id) = <<"thread id", " ">>
        /\ Text(level) = <<"level", " ">> /\ Text(place) = <<"position", " ">>
    BY DEF Text, Piece
  <2>3. /\ Text(now) \in Seq(Symbols) /\ Text(id) \in Seq(Symbols)
        /\ Text(level) \in Seq(Symbols) /\ Text(place) \in Seq(Symbols)
    BY <2>1, <2>2 DEF Symbols
  <2> QED BY <2>3 DEF IsValue, Incomplete, Empty, Piece
<1> HIDE DEF now, id, level, place
<1>2. CASE o = "timed"
  <2>1. Prefix(o) = <<now>> \o <<id, level, place>>
    BY <1>2 DEF Prefix, now, id, level, place
  <2>2. ASSUME NEW Y, NEW a \in Y, NEW b \in Y, NEW c \in Y, NEW d \in Y
        PROVE  LET w == <<a>> \o <<b, c, d>>
               IN  Len(w) = 4 /\ w[1] = a /\ w[2] = b /\ w[3] = c /\ w[4] = d
    OBVIOUS
  <2> DEFINE w == <<now>> \o <<id, level, place>>
  <2>3. Len(w) = 4 /\ w[1] = now /\ w[2] = id /\ w[3] = level /\ w[4] = place
    <3> DEFINE Y == {now, id, level, place}
    <3>2. now \in Y /\ id \in Y /\ level \in Y /\ place \in Y
      OBVIOUS
    <3> HIDE DEF Y
    <3> QED BY <2>2, <3>2
  <2>4. Prefix(o) = w
    BY <2>1
  <2> HIDE DEF w
  <2>5. \A i \in 1 .. 4 : IsValue(w[i])
    BY <1>1, <2>3
  <2> QED BY <1>2, <2>3, <2>4, <2>5
<1>3. CASE o # "timed"
  <2>1. Prefix(o) = <<>> \o <<id, level, place>>
    BY <1>3 DEF Prefix, now, id, level, place
  <2>2. <<>> \o <<id, level, place>> = <<id, level, place>>
    OBVIOUS
  <2> QED BY <1>1, <1>3, <2>1, <2>2
<1> QED BY <1>2, <1>3

LEMMA ArgumentsAreValues ==
  ASSUME NEW a \in Arguments
  PROVE  IsValue(a)
<1>1. CASE a = NullArgument
  <2>1. Text(a) = <<>>
    BY <1>1 DEF Text, NullArgument, Piece
  <2>2. Text(a) \in Seq(Symbols)
    BY <2>1
  <2> QED BY <1>1, <2>2 DEF IsValue, Incomplete, Empty, NullArgument, Piece
<1>2. CASE a # NullArgument
  <2>1. PICK v \in Values : a = Piece("VALUE_TYPE", v)
    BY <1>2 DEF Arguments
  <2>2. Text(a) = <<v, " ">>
    BY <2>1 DEF Text, Piece
  <2>3. v \in Symbols
    BY DEF Symbols
  <2>4. Text(a) \in Seq(Symbols)
    BY <2>2, <2>3, TextOfOneValue
  <2> QED BY <2>1, <2>4 DEF IsValue, Incomplete, Empty, Piece
<1> QED BY <1>1, <1>2

\* The end marker is the last of the pieces, and only the last.
LEMMA PiecesOfAStatement ==
  ASSUME NEW o \in {"plain", "timed"}, NEW s \in Seq(Arguments)
  PROVE  LET ps == Pieces(o, s)
             n == Len(s) + (IF o = "timed" THEN 5 ELSE 4)
         IN  /\ DOMAIN ps = 1 .. n /\ Len(ps) = n
             /\ ps[n] = EndMarker
             /\ \A i \in 1 .. n - 1 : IsValue(ps[i])
<1> DEFINE pre == Prefix(o)
           m == IF o = "timed" THEN 4 ELSE 3
           ps == Pieces(o, s)
<1>1. Len(pre) = m /\ \A i \in 1 .. m : IsValue(pre[i])
  BY PrefixOfValues
<1>2. \E Y : pre \in Seq(Y) /\ s \in Seq(Y) /\ EndMarker \in Y
  <2> DEFINE Y == {Piece("TIMEPOINT_TYPE", "now"), Piece("INT32_TYPE", "thread id"),
                   Piece("LOG_LEVEL_TYPE", "level"), Piece("C_STR_TYPE", "position"),
                   EndMarker} \cup Arguments
  <2>1. pre \in Seq(Y)
    <3> DEFINE now == Piece("TIMEPOINT_TYPE", "now")
               id == Piece("INT32_TYPE", "thread id")
               level == Piece("LOG_LEVEL_TYPE", "level")
               place == Piece("C_STR_TYPE", "position")
    <3>1. now \in Y /\ id \in Y /\ level \in Y /\ place \in Y
      OBVIOUS
    <3>2. pre = (IF o = "timed" THEN <<now>> ELSE <<>>) \o <<id, level, place>>
      BY DEF Prefix
    <3> HIDE DEF now, id, level, place, Y
    <3>3. <<id, level, place>> \in Seq(Y) /\ <<now>> \in Seq(Y) /\ <<>> \in Seq(Y)
      BY <3>1
    <3>4. <<now>> \o <<id, level, place>> \in Seq(Y)
          /\ <<>> \o <<id, level, place>> \in Seq(Y)
      BY <3>3
    <3> QED BY <3>2, <3>4
  <2>2. s \in Seq(Y)
    <3>1. Arguments \subseteq Y
      OBVIOUS
    <3> HIDE DEF Y
    <3> QED BY <3>1
  <2>3. EndMarker \in Y
    OBVIOUS
  <2> HIDE DEF Y, pre
  <2> QED BY <2>1, <2>2, <2>3
<1>3. ps = pre \o s \o <<EndMarker>>
  BY DEF Pieces
<1> HIDE DEF pre, ps, m
<1>4. m \in Nat
  BY DEF m
<1>5. /\ DOMAIN ps = 1 .. m + Len(s) + 1 /\ Len(ps) = m + Len(s) + 1
      /\ ps[m + Len(s) + 1] = EndMarker
      /\ \A i \in 1 .. m : ps[i] = pre[i]
      /\ \A i \in m + 1 .. m + Len(s) : ps[i] = s[i - m]
  <2>1. ASSUME NEW Y, NEW a \in Seq(Y), NEW b \in Seq(Y), NEW c \in Y
        PROVE  LET w == a \o b \o <<c>>
                   n == Len(a) + Len(b) + 1
               IN  /\ DOMAIN w = 1 .. n /\ Len(w) = n
                   /\ w[n] = c
                   /\ \A i \in 1 .. Len(a) : w[i] = a[i]
                   /\ \A i \in Len(a) + 1 .. Len(a) + Len(b) : w[i] = b[i - Len(a)]
    OBVIOUS
  <2>2. PICK Y : pre \in Seq(Y) /\ s \in Seq(Y) /\ EndMarker \in Y
    BY <1>2
  <2>3. Len(pre) = m
    BY <1>1
  <2> DEFINE w == pre \o s \o <<EndMarker>>
             k == Len(pre) + Len(s) + 1
  <2>4. /\ DOMAIN w = 1 .. k /\ Len(w) = k
        /\ w[k] = EndMarker
        /\ \A i \in 1 .. Len(pre) : w[i] = pre[i]
        /\ \A i \in Len(pre) + 1 .. Len(pre) + Len(s) : w[i] = s[i - Len(pre)]
    BY <2>1, <2>2
  <2>5. ps = w
    BY <1>3
  <2> HIDE DEF w
  <2> QED BY <2>3, <2>4, <2>5
<1>6. ASSUME NEW i \in 1 .. m + Len(s)
      PROVE  IsValue(ps[i])
  <2>1. CASE i <= m
    BY <1>1, <1>5, <2>1, <1>4
  <2>2. CASE i > m
    <3>1. i \in m + 1 .. m + Len(s) /\ i - m \in 1 .. Len(s)
      BY <2>2, <1>4
    <3>2. ps[i] = s[i - m]
      BY <1>5, <3>1
    <3>3. s[i - m] \in Arguments
      BY <3>1
    <3> QED BY <3>2, <3>3, ArgumentsAreValues
  <2> QED BY <2>1, <2>2, <1>4
<1>7. m + Len(s) + 1 = Len(s) + (IF o = "timed" THEN 5 ELSE 4)
  BY DEF m
<1> QED BY <1>5, <1>6, <1>7 DEF ps, m

LEMMA TextsOfAStatement ==
  ASSUME NEW o \in {"plain", "timed"}, NEW s \in Seq(Arguments)
  PROVE  /\ Texts(o, s) \in Seq(Seq(Symbols))
         /\ Len(Texts(o, s)) = Len(Pieces(o, s))
         /\ \A i \in 1 .. Len(Pieces(o, s)) : Texts(o, s)[i] = Text(Pieces(o, s)[i])
<1> DEFINE ps == Pieces(o, s)
           n == Len(s) + (IF o = "timed" THEN 5 ELSE 4)
<1>1. /\ DOMAIN ps = 1 .. n /\ Len(ps) = n
      /\ ps[n] = EndMarker
      /\ \A i \in 1 .. n - 1 : IsValue(ps[i])
  BY PiecesOfAStatement
<1>2. Text(EndMarker) \in Seq(Symbols)
  <2>1. Text(EndMarker) = <<"\n">>
    BY DEF Text, EndMarker, Piece
  <2> QED BY <2>1 DEF Symbols
<1>3. n \in Nat
  OBVIOUS
<1> HIDE DEF ps, n
<1>4. \A i \in 1 .. n : Text(ps[i]) \in Seq(Symbols)
  BY <1>1, <1>2, <1>3 DEF IsValue
<1>5. Texts(o, s) = [i \in 1 .. n |-> Text(ps[i])]
  BY <1>1 DEF Texts, ps
<1> QED BY <1>1, <1>3, <1>4, <1>5 DEF ps

-----------------------------------------------------------------------------
(* The loops *)

\* The plain overload's static_assert leaves room for every piece.
LEMMA PlainFits ==
  ASSUME LoopInv, overload # "timed"
  PROVE  Len(Pieces(overload, args)) <= PARAM_SIZE
<1>1. overload \in {"plain", "timed"} /\ args \in Seq(Arguments)
  BY ParamAssumption DEF LoopInv
<1>2. Len(args) - 1 < PARAM_SIZE - 3 - 1
  BY DEF LoopInv, Passes
<1>3. Len(Pieces(overload, args)) = Len(args) + 4
  BY <1>1, PiecesOfAStatement
<1> QED BY <1>1, <1>2, <1>3, ParamAssumption

\* What the loops of a statement go by.
LEMMA StatementFacts ==
  ASSUME LoopInv
  PROVE  LET ps == Pieces(overload, args)
             n == Len(ps)
             ts == Texts(overload, args)
         IN  /\ overload \in {"plain", "timed"} /\ args \in Seq(Arguments)
             /\ n \in Nat /\ n > 3 /\ DOMAIN ps = 1 .. n /\ ps[n] = EndMarker
             /\ \A i \in 1 .. n - 1 : IsValue(ps[i])
             /\ ts \in Seq(Seq(Symbols)) /\ Len(ts) = n
             /\ \A i \in 1 .. n : ts[i] = Text(ps[i])
<1>1. overload \in {"plain", "timed"} /\ args \in Seq(Arguments)
  BY ParamAssumption DEF LoopInv
<1>2. Len(args) \in Nat
  BY <1>1
<1>3. Len(Pieces(overload, args)) = Len(args) + (IF overload = "timed" THEN 5 ELSE 4)
  BY <1>1, PiecesOfAStatement
<1>4. Len(Pieces(overload, args)) \in Nat /\ Len(Pieces(overload, args)) > 3
  BY <1>2, <1>3
<1>5. LET ps == Pieces(overload, args)
          n == Len(ps)
      IN  DOMAIN ps = 1 .. n /\ ps[n] = EndMarker /\ \A i \in 1 .. n - 1 : IsValue(ps[i])
  BY <1>1, <1>3, PiecesOfAStatement
<1> QED BY <1>1, <1>4, <1>5, TextsOfAStatement

LEMMA LoopInvInit == MessageInit => LoopInv
<1> SUFFICES ASSUME MessageInit PROVE LoopInv
  OBVIOUS
<1>1. overload \in {"plain", "timed"} /\ args \in Seq(Arguments) /\ Len(args) = 0
  BY ParamAssumption DEF MessageInit
<1>2. Len(Pieces(overload, args)) \in Nat
  BY <1>1, PiecesOfAStatement
<1>3. Passes(overload, Len(args) - 1)
  BY <1>1, ParamAssumption DEF Passes
<1>4. p = Saved(0) /\ enqueuedArguments = 0
  BY DEF MessageInit, Saved, Entries
<1>5. pc = "call" /\ outside = FALSE /\ overload \in Overloads
  BY DEF MessageInit
<1>6. WholeMessages
  BY <1>5 DEF WholeMessages
<1>7. outside <=> enqueuedArguments > PARAM_SIZE
  BY <1>4, <1>5, ParamAssumption
<1> QED BY <1>1, <1>2, <1>3, <1>4, <1>5, <1>6, <1>7 DEF LoopInv

LEMMA CallInv == LoopInv /\ Call => LoopInv'
<1> SUFFICES ASSUME LoopInv, Call PROVE LoopInv'
  OBVIOUS
<1>1. PICK o \in Overloads, a \in BoundedSeq(Arguments, PARAM_SIZE) :
         Passes(o, Len(a) - 1) /\ overload' = o /\ args' = a
  BY DEF Call
<1>2. a \in Seq(Arguments)
  <2>1. a \in UNION {[1 .. m -> Arguments] : m \in 0 .. PARAM_SIZE}
    BY DEF BoundedSeq, SeqOf
  <2>2. PICK m \in 0 .. PARAM_SIZE : a \in [1 .. m -> Arguments]
    BY <2>1
  <2> QED BY <2>2, ParamAssumption
<1>3. Len(Pieces(o, a)) \in Nat /\ Len(Pieces(o, a)) > 0
  <2>1. o \in {"plain", "timed"} /\ Len(a) \in Nat
    BY <1>2, ParamAssumption
  <2>2. Len(Pieces(o, a)) = Len(a) + (IF o = "timed" THEN 5 ELSE 4)
    BY <1>2, <2>1, PiecesOfAStatement
  <2> QED BY <2>1, <2>2
<1>4. pc' = "write" /\ enqueuedArguments' = 0 /\ outside' = FALSE
      /\ p' = [i \in Entries |-> Empty]
  BY DEF Call
<1>5. p' = Saved(0)'
  BY <1>4 DEF Saved, Entries
<1>6. WholeMessages'
  BY <1>4 DEF WholeMessages
<1>7. enqueuedArguments' \in 0 .. Len(Pieces(overload, args)')
      /\ enqueuedArguments' < Len(Pieces(overload, args)')
  BY <1>1, <1>3, <1>4
<1>8. outside' <=> enqueuedArguments' > PARAM_SIZE
  BY <1>4, ParamAssumption
<1> QED BY <1>1, <1>2, <1>4, <1>5, <1>6, <1>7, <1>8 DEF LoopInv

\* _write stores the next piece in the next entry, or outside the array.
LEMMA WritePieceInv == LoopInv /\ WritePiece => LoopInv'
<1> SUFFICES ASSUME LoopInv, WritePiece PROVE LoopInv'
  OBVIOUS
<1> DEFINE ps == Pieces(overload, args)
           k == enqueuedArguments
<1>1. /\ Len(ps) \in Nat /\ k \in 0 .. Len(ps) - 1 /\ p = Saved(k)
      /\ outside <=> k > PARAM_SIZE
  BY StatementFacts DEF LoopInv, WritePiece
<1>2. overload' = overload /\ args' = args /\ k' = k + 1
  BY DEF WritePiece
<1>3. pc' \in {"write", "format"} /\ (pc' = "write" <=> k + 1 # Len(ps))
  BY DEF WritePiece
<1>4. p' = Saved(k + 1) /\ (outside' <=> k + 1 > PARAM_SIZE)
  <2>1. CASE k \in Entries
    <3>1. p' = [p EXCEPT ![k] = ps[k + 1]] /\ outside' = outside
      BY <2>1 DEF WritePiece
    <3>2. \A i \in Entries : (i < k + 1) <=> (i < k \/ i = k)
      BY <1>1 DEF Entries
    <3>3. p' = Saved(k + 1)
      BY <1>1, <2>1, <3>1, <3>2 DEF Saved
    <3>4. ~(k > PARAM_SIZE) /\ ~(k + 1 > PARAM_SIZE)
      BY <2>1, ParamAssumption DEF Entries
    <3> QED BY <1>1, <3>1, <3>3, <3>4
  <2>2. CASE k \notin Entries
    <3>1. p' = p /\ outside' = TRUE
      BY <2>2 DEF WritePiece
    <3>2. k >= PARAM_SIZE
      BY <1>1, <2>2, ParamAssumption DEF Entries
    <3>3. \A i \in Entries : i < k + 1 /\ i < k
      BY <1>1, <3>2, ParamAssumption DEF Entries
    <3>4. Saved(k + 1) = Saved(k)
      BY <3>3 DEF Saved
    <3> QED BY <1>1, <3>1, <3>2, <3>4, ParamAssumption
  <2> QED BY <2>1, <2>2
<1>5. (p = Saved(enqueuedArguments))'
  BY <1>2, <1>4 DEF Saved
<1>6. outside' => overload' = "timed"
  <2>1. overload # "timed" => Len(ps) <= PARAM_SIZE
    BY PlainFits
  <2> QED BY <1>1, <1>2, <1>4, <2>1, ParamAssumption
<1>7. WholeMessages'
  BY <1>3, <1>6 DEF WholeMessages
<1>8. ps' = ps
  BY <1>2
<1> HIDE DEF ps
<1>9. k' \in 0 .. Len(ps') /\ (pc' = "write" => k' < Len(ps'))
      /\ (pc' \in {"format", "next"} => k' = Len(ps'))
  BY <1>1, <1>2, <1>3, <1>8
<1>10. overload' \in Overloads /\ args' \in Seq(Arguments)
       /\ Passes(overload', Len(args') - 1)
  BY <1>2 DEF LoopInv
<1>11. outside' <=> k' > PARAM_SIZE
  BY <1>2, <1>4
<1>12. pc' \in {"call", "write", "format", "next", "returned", "terminated"}
       /\ pc' # "next"
  BY <1>3
<1> QED BY <1>3, <1>5, <1>7, <1>9, <1>10, <1>11, <1>12 DEF LoopInv, ps

\* What the steps of format leave alone.
SameStatement ==
    UNCHANGED <<overload, args, p, enqueuedArguments, outside>>

\* What is left to show of a step of format.
LEMMA FormatStepInv ==
  ASSUME LoopInv, SameStatement,
         pc \notin {"call", "write"},
         pc' \in {"next", "returned", "terminated"},
         pc = "returned" => FALSE,
         pc' = "next" =>
            /\ elem' \in 0 .. Len(Pieces(overload, args)) - 1
            /\ writer' = FlattenSeq(SubSeq(Texts(overload, args), 1, elem')),
         pc' = "returned" =>
            \/ formatted' = FlattenSeq(Texts(overload, args))
            \/ formatted' = Null /\ outside,
         pc' = "terminated" => Len(FlattenSeq(Texts(overload, args))) >= BUFFER_SIZE,
         pc \in {"format", "next"}
  PROVE  LoopInv'
<1>1. overload' = overload /\ args' = args /\ p' = p /\ outside' = outside
      /\ enqueuedArguments' = enqueuedArguments
  BY DEF SameStatement
<1>2. ASSUME pc' = "next"
      PROVE  (elem \in 0 .. Len(Pieces(overload, args)) - 1 /\ writer = TextOfFirst(elem))'
  BY <1>1, <1>2 DEF TextOfFirst
<1>3. (p = Saved(enqueuedArguments))'
  BY <1>1 DEF Saved, LoopInv
<1>4. Pieces(overload, args)' = Pieces(overload, args)
      /\ Texts(overload, args)' = Texts(overload, args)
  BY <1>1
<1>5. WholeMessages'
  <2>1. outside => overload = "timed"
    BY DEF LoopInv, WholeMessages
  <2> QED BY <1>1, <1>4, <2>1 DEF WholeMessages
<1>6. /\ overload \in Overloads /\ args \in Seq(Arguments)
      /\ Passes(overload, Len(args) - 1)
      /\ enqueuedArguments = Len(Pieces(overload, args))
      /\ enqueuedArguments \in 0 .. Len(Pieces(overload, args))
      /\ p = Saved(enqueuedArguments)
      /\ outside <=> enqueuedArguments > PARAM_SIZE
  BY DEF LoopInv
<1>7. /\ pc' \in {"call", "write", "format", "next", "returned", "terminated"}
      /\ pc' # "write"
  OBVIOUS
<1> QED BY <1>1, <1>2, <1>3, <1>4, <1>5, <1>6, <1>7 DEF LoopInv

LEMMA ClearInv == LoopInv /\ Clear => LoopInv'
<1> SUFFICES ASSUME LoopInv, Clear PROVE LoopInv'
  OBVIOUS
<1>1. SameStatement /\ pc = "format" /\ pc' = "next" /\ elem' = 0 /\ writer' = <<>>
  BY DEF Clear, SameStatement
<1>2. FlattenSeq(SubSeq(Texts(overload, args), 1, 0)) = <<>>
  <2>1. Texts(overload, args) \in Seq(Seq(Symbols))
    BY StatementFacts
  <2>2. \A Y : \A s \in Seq(Y) : SubSeq(s, 1, 0) = <<>>
    OBVIOUS
  <2>3. SubSeq(Texts(overload, args), 1, 0) = <<>>
    BY <2>1, <2>2
  <2> QED BY <2>3 DEF FlattenSeq
<1>3. 0 \in 0 .. Len(Pieces(overload, args)) - 1
  BY StatementFacts
<1> QED BY <1>1, <1>2, <1>3, FormatStepInv

\* While format is at an entry of the array, that entry is the piece with its number.
LEMMA EntryIsPiece ==
  ASSUME LoopInv, pc = "next"
  PROVE  LET ps == Pieces(overload, args)
             n == Len(ps)
         IN  /\ elem \in 0 .. n - 1 /\ n \in Nat
             /\ writer = FlattenSeq(SubSeq(Texts(overload, args), 1, elem))
             /\ elem \in Entries => p[elem] = ps[elem + 1]
             /\ elem \notin Entries => outside
<1> DEFINE ps == Pieces(overload, args)
           n == Len(ps)
<1>1. elem \in 0 .. n - 1 /\ n \in Nat /\ enqueuedArguments = n /\ p = Saved(n)
      /\ (outside <=> n > PARAM_SIZE)
      /\ writer = FlattenSeq(SubSeq(Texts(overload, args), 1, elem))
  BY StatementFacts DEF LoopInv, TextOfFirst
<1> HIDE DEF n
<1>2. elem \in Entries => p[elem] = ps[elem + 1]
  BY <1>1 DEF Saved, Entries
<1>3. elem \notin Entries => outside
  BY <1>1, ParamAssumption DEF Entries
<1> QED BY <1>1, <1>2, <1>3 DEF n

\* Every piece was stored, so format fails only at the end of the array.
LEMMA FormatFailsInv == LoopInv /\ FormatFails => LoopInv'
<1> SUFFICES ASSUME LoopInv, FormatFails PROVE LoopInv'
  OBVIOUS
<1> DEFINE ps == Pieces(overload, args)
           n == Len(ps)
<1>1. SameStatement /\ pc = "next" /\ pc' = "returned" /\ formatted' = Null
      /\ (elem \in Entries => Incomplete(p[elem]))
  BY DEF FormatFails, Return, SameStatement
<1>2. outside
  <2>1. ASSUME elem \in Entries PROVE FALSE
    <3>1. p[elem] = ps[elem + 1] /\ elem \in 0 .. n - 1 /\ n \in Nat
      BY <1>1, <2>1, EntryIsPiece
    <3>2. ~Incomplete(ps[elem + 1])
      <4>1. ps[n] = EndMarker /\ \A i \in 1 .. n - 1 : IsValue(ps[i])
        BY StatementFacts
      <4>2. ~Incomplete(EndMarker)
        BY DEF Incomplete, EndMarker, Empty, Piece
      <4>3. \A i \in 1 .. n - 1 : ~Incomplete(ps[i])
        BY <4>1 DEF IsValue
      <4>4. elem + 1 \in 1 .. n - 1 \/ elem + 1 = n
        BY <3>1
      <4> QED BY <4>1, <4>2, <4>3, <4>4
    <3> QED BY <1>1, <2>1, <3>1, <3>2
  <2> QED BY <1>1, <2>1, EntryIsPiece
<1> QED BY <1>1, <1>2, FormatStepInv

\* The text of one piece more.
LEMMA NextText ==
  ASSUME LoopInv, pc = "next", elem \in Entries
  PROVE  LET ts == Texts(overload, args)
             n == Len(Pieces(overload, args))
         IN  /\ writer \o Text(p[elem]) = FlattenSeq(SubSeq(ts, 1, elem + 1))
             /\ elem + 1 = n => writer \o Text(p[elem]) = FlattenSeq(ts)
             /\ Len(writer \o Text(p[elem])) \in Nat /\ Len(FlattenSeq(ts)) \in Nat
             /\ Len(writer \o Text(p[elem])) <= Len(FlattenSeq(ts))
             /\ p[elem].type = "END_MARKER_TYPE" <=> elem + 1 = n
             /\ elem \in 0 .. n - 1 /\ n \in Nat
<1> DEFINE ts == Texts(overload, args)
           ps == Pieces(overload, args)
           n == Len(ps)
<1>1. /\ elem \in 0 .. n - 1 /\ n \in Nat
      /\ writer = FlattenSeq(SubSeq(ts, 1, elem))
      /\ p[elem] = ps[elem + 1]
  BY EntryIsPiece
<1>2. /\ ps[n] = EndMarker /\ \A i \in 1 .. n - 1 : IsValue(ps[i])
      /\ ts \in Seq(Seq(Symbols)) /\ Len(ts) = n
      /\ \A i \in 1 .. n : ts[i] = Text(ps[i])
  BY StatementFacts
<1> HIDE DEF ts, ps, n
<1>3. ts[elem + 1] = Text(p[elem])
  BY <1>1, <1>2
<1>4. writer \o Text(p[elem]) = FlattenSeq(SubSeq(ts, 1, elem + 1))
  <2>1. elem \in 0 .. Len(ts) /\ elem < Len(ts)
    BY <1>1, <1>2
  <2>2. FlattenSeq(SubSeq(ts, 1, elem + 1)) = FlattenSeq(SubSeq(ts, 1, elem)) \o ts[elem + 1]
    BY <1>2, <2>1, FlattenGrows
  <2> QED BY <1>1, <1>3, <2>2, Zenon
<1>5. SubSeq(ts, 1, n) = ts
  <2>1. \A Y : \A s \in Seq(Y) : SubSeq(s, 1, Len(s)) = s
    OBVIOUS
  <2> QED BY <1>2, <2>1
<1>6. /\ FlattenSeq(SubSeq(ts, 1, elem + 1)) \in Seq(Symbols)
      /\ Len(FlattenSeq(SubSeq(ts, 1, elem + 1))) <= Len(FlattenSeq(ts))
  <2>1. elem + 1 \in 0 .. Len(ts)
    BY <1>1, <1>2
  <2> QED BY <1>2, <2>1, FlattenGrows
<1>7. FlattenSeq(ts) \in Seq(Symbols)
  <2>1. Len(ts) \in 0 .. Len(ts)
    BY <1>1, <1>2
  <2>2. FlattenSeq(SubSeq(ts, 1, Len(ts))) \in Seq(Symbols)
    BY <1>2, <2>1, FlattenGrows
  <2> QED BY <1>2, <1>5, <2>2, Zenon
<1>8. p[elem].type = "END_MARKER_TYPE" <=> elem + 1 = n
  <2>1. EndMarker.type = "END_MARKER_TYPE"
    BY DEF EndMarker, Piece
  <2>2. \A i \in 1 .. n - 1 : ps[i].type # "END_MARKER_TYPE"
    BY <1>2 DEF IsValue
  <2>3. elem + 1 \in 1 .. n - 1 \/ elem + 1 = n
    BY <1>1
  <2> QED BY <1>1, <1>2, <2>1, <2>2, <2>3
<1>9. /\ Len(FlattenSeq(SubSeq(ts, 1, elem + 1))) \in Nat
      /\ Len(FlattenSeq(ts)) \in Nat
  BY <1>6, <1>7
<1>10. elem + 1 = n => writer \o Text(p[elem]) = FlattenSeq(ts)
  BY <1>4, <1>5, Zenon
<1> QED BY <1>1, <1>4, <1>6, <1>8, <1>9, <1>10 DEF ts, ps, n

LEMMA FormatPieceInv == LoopInv /\ FormatPiece => LoopInv'
<1> SUFFICES ASSUME LoopInv, FormatPiece PROVE LoopInv'
  OBVIOUS
<1> DEFINE n == Len(Pieces(overload, args))
           ts == Texts(overload, args)
<1>1. /\ SameStatement /\ pc = "next" /\ elem \in Entries /\ elem' = elem + 1
      /\ writer' = writer \o Text(p[elem])
  BY DEF FormatPiece, SameStatement
<1>2. /\ writer' = FlattenSeq(SubSeq(ts, 1, elem + 1))
      /\ elem + 1 = n => writer' = FlattenSeq(ts)
      /\ p[elem].type = "END_MARKER_TYPE" <=> elem + 1 = n
      /\ elem \in 0 .. n - 1 /\ n \in Nat
  BY <1>1, NextText
<1>3. CASE elem + 1 = n
  <2>1. formatted' = writer' /\ pc' = "returned"
    BY <1>2, <1>3 DEF FormatPiece, Return
  <2>2. formatted' = FlattenSeq(ts)
    BY <1>2, <1>3, <2>1
  <2> HIDE DEF ts
  <2> QED BY <1>1, <2>1, <2>2, FormatStepInv DEF ts
<1>4. CASE elem + 1 # n
  <2>1. pc' = pc
    BY <1>2, <1>4 DEF FormatPiece
  <2>2. elem' \in 0 .. n - 1
    BY <1>1, <1>2, <1>4
  <2>3. writer' = FlattenSeq(SubSeq(ts, 1, elem'))
    BY <1>1, <1>2
  <2> QED BY <1>1, <2>1, <2>2, <2>3, FormatStepInv
<1> QED BY <1>3, <1>4

\* The text so far and the piece are part of the whole: that is too long.
LEMMA WriterThrowsInv == LoopInv /\ WriterThrows => LoopInv'
<1> SUFFICES ASSUME LoopInv, WriterThrows PROVE LoopInv'
  OBVIOUS
<1> DEFINE ts == Texts(overload, args)
           text == writer \o Text(p[elem])
<1>1. /\ SameStatement /\ pc = "next" /\ elem \in Entries /\ pc' = "terminated"
      /\ ~Fits(text, p[elem])
  BY DEF WriterThrows, SameStatement
<1>2. Len(text) \in Nat /\ Len(FlattenSeq(ts)) \in Nat /\ Len(text) <= Len(FlattenSeq(ts))
  BY <1>1, NextText
<1> HIDE DEF ts, text
<1>3. Len(text) + 1 > BUFFER_SIZE
  BY <1>1, <1>2, ParamAssumption DEF Fits
<1>4. Len(FlattenSeq(ts)) >= BUFFER_SIZE
  BY <1>2, <1>3, ParamAssumption
<1> QED BY <1>1, <1>4, FormatStepInv DEF ts

LEMMA AgainInv == LoopInv /\ Again => LoopInv'
<1> SUFFICES ASSUME LoopInv, Again PROVE LoopInv'
  OBVIOUS
<1>1. UNCHANGED <<overload, args, p, enqueuedArguments, outside>> /\ pc' = "call"
  BY DEF Again
<1>2. (p = Saved(enqueuedArguments))'
  BY <1>1 DEF Saved, LoopInv
<1>3. WholeMessages'
  <2>1. outside => overload = "timed"
    BY DEF LoopInv, WholeMessages
  <2> QED BY <1>1, <2>1 DEF WholeMessages
<1> QED BY <1>1, <1>2, <1>3 DEF LoopInv

LEMMA MessageStutterInv == LoopInv /\ UNCHANGED messageVars => LoopInv'
<1> SUFFICES ASSUME LoopInv, UNCHANGED messageVars PROVE LoopInv'
  OBVIOUS
<1>1. UNCHANGED <<pc, overload, args, p, enqueuedArguments, outside, elem, writer,
                  formatted>>
  BY DEF messageVars
<1> QED BY <1>1 DEF LoopInv, WholeMessages, Saved, TextOfFirst

\* The consumer gets a message's text whole or not at all, whatever the sizes of the
\* array and the buffer and whatever is logged: what _write saved of this statement,
\* in its order, nothing of the statement before, unless a time point made the
\* pieces too many for the array.
THEOREM MessagesAreWhole == MessageSpec => []WholeMessages
<1>1. LoopInv /\ [MessageNext]_messageVars => LoopInv'
  BY CallInv, WritePieceInv, ClearInv, FormatFailsInv, FormatPieceInv,
     WriterThrowsInv, AgainInv, MessageStutterInv DEF MessageNext
<1>2. LoopInv => WholeMessages
  BY DEF LoopInv
<1> QED BY LoopInvInit, <1>1, <1>2, PTL DEF MessageSpec

\* A statement without a time point never writes outside the array: the check its
\* overload's static_assert makes is enough, for every size.
THEOREM PlainStaysInside == MessageSpec => [](overload = "plain" => EnoughRoom)
<1>1. WholeMessages => (overload = "plain" => EnoughRoom)
  BY DEF WholeMessages, EnoughRoom
<1> QED BY MessagesAreWhole, <1>1, PTL

=============================================================================
