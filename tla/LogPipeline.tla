---------------------------- MODULE LogPipeline -----------------------------
(***************************************************************************)
(* From the log statements of the writer threads to the log file:          *)
(* CLogger::write (include/rtlog/rtlog.hpp), the queue's try_enqueue and   *)
(* try_dequeue over all the producers' sub-queues                          *)
(* (include/concurrentqueue.h), the thread of CLogConsumerSingleFile with  *)
(* its stop() (include/rtlog/Consumer.hpp), and the life of these objects  *)
(* in a program: examples/example1.cpp, include/Singleton.hpp.             *)
(*                                                                         *)
(* A sub-queue is the FIFO that SubQueue implements.  A writer's messages  *)
(* are numbered as its sub-queue accepts them; a message below the current *)
(* log level is dropped before anything happens and is not modelled.       *)
(***************************************************************************)
EXTENDS Integers, Sequences, SequencesExt

CONSTANTS
    Writers,        \* threads that log
    Capacity,       \* messages a sub-queue holds at most
    NonEmptyEnough, \* try_dequeue looks for the best of this many (3)
    MaxMessages,    \* bound: messages accepted per writer
    Nobody

ASSUME PipelineAssumption ==
    /\ Capacity \in Nat \ {0} /\ NonEmptyEnough \in Nat \ {0}
    /\ MaxMessages \in Nat
    /\ Nobody \notin Writers

VARIABLES
    \* the queue, inside the logger
    producers,  \* the producer list, oldest first: it is traversed backwards
    subqueue,   \* per writer: the accepted messages nobody has dequeued
    accepted,   \* per writer: how many its sub-queue accepted
    wpc,        \* per writer: where its log statement is
    \* the consumer thread
    cpc,
    position,   \* try_dequeue: the producer it looks at, 0 at the list's end
    nonEmpty,   \* try_dequeue: sub-queues seen with elements
    best, bestSize,
    hand,       \* the message dequeued
    stream,     \* m_Stream: messages written and not flushed
    file,
    m_Stop,
    mpc,        \* the main thread: which objects exist, where stop() is
    \* history: accepted, when the consumer's last try_dequeue began
    acceptedBefore

scan == <<position, nonEmpty, best, bestSize>>
output == <<stream, file>>
queue == <<producers, subqueue, accepted>>
vars == <<queue, wpc, cpc, scan, hand, output, m_Stop, mpc, acceptedBefore>>

NoMessage == <<>>

Init ==
    /\ producers = <<>>
    /\ subqueue = [w \in Writers |-> <<>>]
    /\ accepted = [w \in Writers |-> 0]
    /\ wpc = [w \in Writers |-> "idle"]
    /\ cpc = "none"
    /\ position = 0 /\ nonEmpty = 0 /\ best = Nobody /\ bestSize = 0
    /\ hand = NoMessage
    /\ stream = <<>> /\ file = <<>>
    /\ m_Stop = FALSE
    /\ mpc = "begin"
    /\ acceptedBefore = [w \in Writers |-> 0]

-----------------------------------------------------------------------------
(* Writers: LOG_INFO and the others, CLogger::write, try_enqueue *)

\* A log statement at or above the level, of a thread that logs only after
\* CLogger::initialize: the thread's producer is looked up.
Write(w) ==
    /\ wpc[w] = "idle" /\ accepted[w] < MaxMessages
    /\ mpc # "begin"
    /\ wpc' = [wpc EXCEPT ![w] = IF Contains(producers, w) THEN "enqueue"
                                                          ELSE "register"]
    /\ UNCHANGED <<queue, cpc, scan, hand, output, m_Stop, mpc, acceptedBefore>>

\* Faulty variant: a concurrent addition is overwritten.
BugRegister(w) ==
    /\ wpc[w] = "register"
    /\ producers' = <<w>>
    /\ wpc' = [wpc EXCEPT ![w] = "enqueue"]
    /\ UNCHANGED <<subqueue, accepted, cpc, scan, hand, output, m_Stop, mpc,
                   acceptedBefore>>

\* add_producer puts a new producer in front of the list, where running
\* traversals do not see it.
Register(w) ==
    /\ wpc[w] = "register"
    /\ producers' = Append(producers, w)
    /\ wpc' = [wpc EXCEPT ![w] = "enqueue"]
    /\ UNCHANGED <<subqueue, accepted, cpc, scan, hand, output, m_Stop, mpc,
                   acceptedBefore>>

\* Faulty variant: one message too many.
BugEnqueue(w) ==
    /\ wpc[w] = "enqueue"
    /\ Len(subqueue[w]) <= Capacity
    /\ accepted' = [accepted EXCEPT ![w] = @ + 1]
    /\ subqueue' = [subqueue EXCEPT ![w] = Append(@, <<w, accepted[w] + 1>>)]
    /\ wpc' = [wpc EXCEPT ![w] = "idle"]
    /\ UNCHANGED <<producers, cpc, scan, hand, output, m_Stop, mpc, acceptedBefore>>

Enqueue(w) ==
    /\ wpc[w] = "enqueue"
    /\ Len(subqueue[w]) < Capacity
    /\ accepted' = [accepted EXCEPT ![w] = @ + 1]
    /\ subqueue' = [subqueue EXCEPT ![w] = Append(@, <<w, accepted[w] + 1>>)]
    /\ wpc' = [wpc EXCEPT ![w] = "idle"]
    /\ UNCHANGED <<producers, cpc, scan, hand, output, m_Stop, mpc, acceptedBefore>>

\* try_enqueue fails, at the limit or for want of a block, or no producer could be
\* created: the macros ignore write's result, so that the message is gone.
Refuse(w) ==
    /\ wpc[w] \in {"register", "enqueue"}
    /\ wpc' = [wpc EXCEPT ![w] = "idle"]
    /\ UNCHANGED <<queue, cpc, scan, hand, output, m_Stop, mpc, acceptedBefore>>

\* The thread's function ends.
EndThread(w) ==
    /\ wpc[w] = "idle"
    /\ wpc' = [wpc EXCEPT ![w] = "ended"]
    /\ UNCHANGED <<queue, cpc, scan, hand, output, m_Stop, mpc, acceptedBefore>>

Writer(w) == Write(w) \/ Register(w) \/ Enqueue(w) \/ Refuse(w) \/ EndThread(w)

-----------------------------------------------------------------------------
(* try_dequeue, of the only consumer (FrontEnd has what others change) *)

Goto(from, to) == cpc = from /\ cpc' = to

\* Where a traversal of the list begins, and where it goes on.
ListTail == Len(producers)

\* Faulty variant: the oldest producer is never reached.
BugNextProd(k) == IF k = 2 THEN 0 ELSE k - 1

NextProd(k) == k - 1

\* Begins the call: the traversal for the largest sub-queue, from the list's tail.
StartScan ==
    /\ Goto("scan", IF ListTail = 0 THEN "empty" ELSE "size")
    /\ position' = ListTail
    /\ nonEmpty' = 0 /\ best' = Nobody /\ bestSize' = 0
    /\ acceptedBefore' = accepted
    /\ UNCHANGED <<queue, wpc, hand, output, m_Stop, mpc>>

\* One producer's size; the traversal ends early with enough that are not empty.
LookAtSize ==
    LET w == producers[position]
        size == Len(subqueue[w])
        more == nonEmpty' < NonEmptyEnough /\ position' # 0
    IN  /\ cpc = "size"
        /\ position' = NextProd(position)
        /\ nonEmpty' = nonEmpty + IF size > 0 THEN 1 ELSE 0
        /\ IF size > bestSize THEN best' = w /\ bestSize' = size
                              ELSE UNCHANGED <<best, bestSize>>
        /\ Goto("size", IF more THEN "size"
                        ELSE IF nonEmpty' > 0 THEN "best" ELSE "empty")
        /\ UNCHANGED <<queue, wpc, hand, output, m_Stop, mpc, acceptedBefore>>

\* try_dequeue returns.
LocalsGone == position' = 0 /\ nonEmpty' = 0 /\ best' = Nobody /\ bestSize' = 0

\* Faulty variant: the message accepted last comes first.
BugTryBest ==
    /\ Goto("best", "format")
    /\ hand' = Last(subqueue[best])
    /\ subqueue' = [subqueue EXCEPT ![best] = Front(@)]
    /\ LocalsGone
    /\ UNCHANGED <<producers, accepted, wpc, output, m_Stop, mpc, acceptedBefore>>

\* best->dequeue(item).  What a lone consumer has seen in a sub-queue it gets from it
\* (SubQueue!EmptyMeansDrained): there is no second traversal.
TryBest ==
    /\ Goto("best", "format")
    /\ hand' = Head(subqueue[best])
    /\ subqueue' = [subqueue EXCEPT ![best] = Tail(@)]
    /\ LocalsGone
    /\ UNCHANGED <<producers, accepted, wpc, output, m_Stop, mpc, acceptedBefore>>

-----------------------------------------------------------------------------
(* consume *)

\* Faulty variant: the flag is never looked at.
BugCheckStop ==
    /\ Goto("check", "scan")
    /\ UNCHANGED <<queue, wpc, scan, hand, output, m_Stop, mpc, acceptedBefore>>

\* The outer loop ends when the flag is set: nothing is dequeued after that.
CheckStop ==
    /\ Goto("check", IF m_Stop THEN "last flush" ELSE "scan")
    /\ UNCHANGED <<queue, wpc, scan, hand, output, m_Stop, mpc, acceptedBefore>>

\* format and m_Stream << p.  Then the inner loop tries again: it does not look at
\* the flag.
FormatAndWrite ==
    /\ Goto("format", "scan")
    /\ stream' = Append(stream, hand)
    /\ hand' = NoMessage
    /\ UNCHANGED <<queue, wpc, scan, file, m_Stop, mpc, acceptedBefore>>

Flush == file' = file \o stream /\ stream' = <<>>

\* Nothing was dequeued: flush and sleep.
FlushAndSleep ==
    /\ Goto("empty", "check")
    /\ Flush
    /\ UNCHANGED <<queue, wpc, scan, hand, m_Stop, mpc, acceptedBefore>>

LastFlush ==
    /\ Goto("last flush", "ended")
    /\ Flush
    /\ UNCHANGED <<queue, wpc, scan, hand, m_Stop, mpc, acceptedBefore>>

Consumer ==
    \/ CheckStop \/ StartScan \/ LookAtSize \/ TryBest
    \/ FormatAndWrite \/ FlushAndSleep \/ LastFlush

-----------------------------------------------------------------------------
(* The main thread.  The example waits for the writers before it calls stop(); a   *)
(* program may also stop the consumer while they log.                              *)

Step(from, to) == mpc = from /\ mpc' = to

\* CLogger::initialize: the singleton's instance, with the queue.
Initialize ==
    /\ Step("begin", "logger")
    /\ UNCHANGED <<queue, wpc, cpc, scan, hand, output, m_Stop, acceptedBefore>>

\* CLogConsumerSingleFile: the constructor starts the thread.
StartConsumer ==
    /\ Step("logger", "consumer")
    /\ cpc = "none" /\ cpc' = "check"
    /\ UNCHANGED <<queue, wpc, scan, hand, output, m_Stop, acceptedBefore>>

\* stop() sets the flag ...
SetStop ==
    /\ Step("consumer", "join")
    /\ m_Stop' = TRUE
    /\ UNCHANGED <<queue, wpc, cpc, scan, hand, output, acceptedBefore>>

\* Faulty variant: the thread is not waited for (the base class's stop() does not).
BugJoin ==
    /\ Step("join", "close")
    /\ UNCHANGED <<queue, wpc, cpc, scan, hand, output, m_Stop, acceptedBefore>>

\* ... waits for the thread ...
Join ==
    /\ Step("join", "close") /\ cpc = "ended"
    /\ UNCHANGED <<queue, wpc, cpc, scan, hand, output, m_Stop, acceptedBefore>>

\* ... and closes the stream, which flushes it.
CloseStream ==
    /\ Step("close", "stopped")
    /\ Flush
    /\ UNCHANGED <<queue, wpc, cpc, scan, hand, m_Stop, acceptedBefore>>

\* main returns only when all writers have ended: f.wait() in the example.
JoinWriters ==
    /\ Step("stopped", "alone") /\ \A w \in Writers : wpc[w] = "ended"
    /\ UNCHANGED <<queue, wpc, cpc, scan, hand, output, m_Stop, acceptedBefore>>

\* main returns: the consumer is destroyed ...
DestroyConsumer ==
    /\ Step("alone", "no consumer")
    /\ UNCHANGED <<queue, wpc, cpc, scan, hand, output, m_Stop, acceptedBefore>>

\* ... and then the singleton's unique_ptr, with the messages still in the queue.
DestroyLogger ==
    /\ Step("no consumer", "end")
    /\ producers' = <<>> /\ subqueue' = [w \in Writers |-> <<>>]
    /\ UNCHANGED <<accepted, wpc, cpc, scan, hand, output, m_Stop, acceptedBefore>>

Main ==
    \/ Initialize \/ StartConsumer \/ SetStop \/ Join \/ CloseStream
    \/ JoinWriters \/ DestroyConsumer \/ DestroyLogger

-----------------------------------------------------------------------------
Next == (\E w \in Writers : Writer(w)) \/ Consumer \/ Main

Spec == Init /\ [][Next]_vars

\* Every thread inside a call runs on; writing, ending and stopping are choices of
\* the application.
Fairness ==
    /\ \A w \in Writers : WF_vars(Register(w) \/ Enqueue(w) \/ Refuse(w))
    /\ WF_vars(Consumer)
    /\ WF_vars(Join \/ CloseStream)

FairSpec == Spec /\ Fairness

-----------------------------------------------------------------------------
(* Properties *)

Messages == Writers \X (1 .. MaxMessages)

\* Type invariant of the pipeline.
TypeOK ==
    /\ producers \in Seq(Writers)
    /\ subqueue \in [Writers -> Seq(Messages)]
    /\ \A w \in Writers : Len(subqueue[w]) <= Capacity
    /\ accepted \in [Writers -> 0 .. MaxMessages]
    /\ wpc \in [Writers -> {"idle", "register", "enqueue", "ended"}]
    /\ cpc \in {"none", "check", "scan", "size", "best", "format", "empty",
                "last flush", "ended"}
    /\ position \in Nat
    /\ nonEmpty \in 0 .. NonEmptyEnough
    /\ best \in Writers \cup {Nobody}
    /\ bestSize \in 0 .. Capacity
    /\ hand \in Messages \cup {NoMessage}
    /\ stream \in Seq(Messages) /\ file \in Seq(Messages)
    /\ m_Stop \in BOOLEAN
    /\ mpc \in {"begin", "logger", "consumer", "join", "close", "stopped", "alone",
                "no consumer", "end"}

\* What the consumer has dequeued, in the order it did; how many of a writer's.
Dequeued == file \o stream \o IF hand = NoMessage THEN <<>> ELSE <<hand>>
Taken(w) == accepted[w] - Len(subqueue[w])

\* No message is lost, doubled or overtaken by another of its thread, whichever
\* sub-queues the traversals choose: what waits are the last of a thread's accepted
\* messages in the order it wrote them, and what was dequeued are the others.
EveryMessageInOrder ==
    mpc # "end" =>
        /\ \A w \in Writers :
              /\ Taken(w) >= 0
              /\ \A n \in DOMAIN subqueue[w] : subqueue[w][n] = <<w, Taken(w) + n>>
              /\ \A n \in 1 .. Taken(w) : \E i \in DOMAIN Dequeued : Dequeued[i] = <<w, n>>
        /\ \A i \in DOMAIN Dequeued : Dequeued[i][2] <= Taken(Dequeued[i][1])
        /\ \A i, j \in DOMAIN Dequeued :
              i < j /\ Dequeued[i][1] = Dequeued[j][1] => Dequeued[i][2] < Dequeued[j][2]

\* When stop() returns, the file holds every message accepted before the thread's last
\* try_dequeue began.  (Only those: what comes later, even before stop() is called,
\* stays in the queue, and is destroyed with it.)
StoppedFileIsComplete ==
    mpc = "stopped" =>
        \A w \in Writers : \A n \in 1 .. acceptedBefore[w] : Contains(file, <<w, n>>)

\* Nobody uses what was destroyed, or writes to a stream that is being closed: the
\* threads that may still use an object hold up its destruction.
ObjectsOutliveUsers ==
    /\ mpc \in {"close", "stopped", "alone", "no consumer", "end"} => cpc = "ended"
    /\ mpc = "end" => \A w \in Writers : wpc[w] \notin {"register", "enqueue"}

\* Unless the consumer is stopped, every accepted message gets to the file.
AcceptedIsWritten ==
    \A m \in Messages :
        accepted[m[1]] >= m[2] /\ mpc \notin {"begin", "logger"}
            ~> (Contains(file, m) \/ m_Stop)

\* stop() returns once the writers pause: the consumer's inner loop ends.
StopReturns == (mpc = "join") ~> (mpc = "stopped")

\* The inductive invariant of the proofs.  A thread inside its call has room for one
\* message, its producer is on the list once it enqueues, and main has not ended.
WritersRight ==
    \A w \in Writers :
        /\ wpc[w] \in {"register", "enqueue"} => accepted[w] < MaxMessages
        /\ wpc[w] = "enqueue" \/ accepted[w] > 0 => mpc = "end" \/ Contains(producers, w)
        /\ mpc \in {"alone", "no consumer", "end"} => wpc[w] = "ended"
        /\ acceptedBefore[w] \in 0 .. accepted[w]

\* The consumer has what it has seen.
ConsumerRight ==
    /\ hand # NoMessage <=> cpc = "format"
    /\ cpc = "ended" => stream = <<>>
    /\ mpc \in {"begin", "logger"} <=> cpc = "none"
    /\ mpc \in {"close", "stopped", "alone", "no consumer", "end"} => cpc = "ended"
    /\ cpc = "size" =>
          /\ position \in 1 .. Len(producers) /\ nonEmpty < NonEmptyEnough
          /\ nonEmpty > 0 <=> bestSize > 0
    /\ (cpc = "size" /\ nonEmpty > 0) \/ cpc = "best" =>
          best \in Writers /\ bestSize > 0 /\ bestSize <= Len(subqueue[best])

\* As long as the traversal has found nothing, messages from before it can only wait
\* with producers it has not come to.
ScanMissesNothing ==
    mpc # "end" =>
        \A w \in Writers : acceptedBefore[w] > Taken(w) =>
            \/ cpc \in {"scan", "best", "format"}
            \/ cpc = "size" /\ (nonEmpty > 0 \/ \E k \in 1 .. position : producers[k] = w)

PipelineInv ==
    /\ TypeOK /\ WritersRight /\ ConsumerRight /\ ScanMissesNothing
    /\ EveryMessageInOrder

=============================================================================
