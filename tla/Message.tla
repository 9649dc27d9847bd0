------------------------------ MODULE Message -------------------------------
(***************************************************************************)
(* One log message: CLogger::write saves the pieces of a log statement in  *)
(* a fixed array of Arguments (include/rtlog/rtlog.hpp, Argument.hpp), and *)
(* CFormatter::format turns the array into text (Formatter.hpp).           *)
(*                                                                         *)
(* A piece is an Argument's type and value.  What a value looks like as    *)
(* text is fmt's business: the text of a piece is the piece itself.        *)
(***************************************************************************)
EXTENDS Integers, Sequences, SequencesExt

CONSTANTS
    PARAM_SIZE,     \* entries of the array; rtlog has 16
    BUFFER_SIZE,    \* what m_Buffer holds, in texts of one value; rtlog: 1024 characters
    Overloads,      \* of write: "plain", or "timed" with a time point first
    Values          \* what the arguments of log statements may be

\* static_assert(PARAM_SIZE > 6): the minimum with a time point.
ASSUME ParamAssumption ==
    /\ PARAM_SIZE \in Nat /\ PARAM_SIZE > 6
    /\ BUFFER_SIZE \in Nat
    /\ Overloads \subseteq {"plain", "timed"}

VARIABLES
    pc,
    overload,
    args,               \* the statement's own arguments: arg0 and the others
    p,                  \* the ArgumentArray, indexed from 0
    enqueuedArguments,  \* entries written
    outside,            \* was an entry written outside the array?
    elem,               \* format: the entry it is at
    writer,             \* format: m_Writer's text
    formatted           \* what format returned: text, or Null

messageVars == <<pc, overload, args, p, enqueuedArguments, outside, elem, writer, formatted>>

Entries == 0 .. PARAM_SIZE - 1
Null == <<"null pointer">>

Piece(type, value) == [type |-> type, value |-> value]
Empty == Piece("NULL_TYPE", "nothing")      \* Argument(): empty() holds
NullArgument == Piece("NULL_TYPE", "nullptr")   \* empty() does not hold
EndMarker == Piece("END_MARKER_TYPE", "end")
Arguments == {NullArgument} \cup {Piece("VALUE_TYPE", v) : v \in Values}

\* The numbers of further arguments the static_asserts of the overloads let pass.
Passes(o, n) ==
    IF o = "timed" THEN n <= PARAM_SIZE - 4 - 1 ELSE n < PARAM_SIZE - 3 - 1

\* What precedes the statement's own arguments.
Prefix(o) ==
    (IF o = "timed" THEN <<Piece("TIMEPOINT_TYPE", "now")>> ELSE <<>>)
    \o <<Piece("INT32_TYPE", "thread id"), Piece("LOG_LEVEL_TYPE", "level"),
         Piece("C_STR_TYPE", "position")>>

\* The calls of _write, in their order.
Pieces(o, s) == Prefix(o) \o s \o <<EndMarker>>

MessageInit ==
    /\ pc = "call"
    /\ overload \in Overloads
    /\ args = <<>>
    /\ p = [i \in Entries |-> Empty]
    /\ enqueuedArguments = 0 /\ outside = FALSE
    /\ elem = 0 /\ writer = <<>> /\ formatted = Null

\* A log statement the compiler accepts.
Call ==
    /\ pc = "call"
    /\ \E o \in Overloads : \E a \in BoundedSeq(Arguments, PARAM_SIZE) :
          /\ a # <<>> /\ Passes(o, Len(a) - 1)
          /\ overload' = o /\ args' = a
    /\ p' = [i \in Entries |-> Empty]
    /\ enqueuedArguments' = 0
    /\ pc' = "write"
    /\ outside' = FALSE
    /\ UNCHANGED <<elem, writer, formatted>>

\* p[queue_pos++] = v0.  An entry outside the array overwrites other memory: the
\* array does not get it.
WritePiece ==
    /\ pc = "write"
    /\ LET v0 == Pieces(overload, args)[enqueuedArguments + 1] IN
       IF enqueuedArguments \in Entries
       THEN p' = [p EXCEPT ![enqueuedArguments] = v0] /\ UNCHANGED outside
       ELSE outside' = TRUE /\ UNCHANGED p
    /\ enqueuedArguments' = enqueuedArguments + 1
    /\ pc' = IF enqueuedArguments + 1 = Len(Pieces(overload, args))
             THEN "format" ELSE "write"
    /\ UNCHANGED <<overload, args, elem, writer, formatted>>

\* Faulty variant: the text of the last message is still there.
BugClear ==
    /\ pc = "format" /\ pc' = "next"
    /\ elem' = 0
    /\ UNCHANGED <<overload, args, p, enqueuedArguments, outside, writer,
                   formatted>>

\* The array went through the queue: m_Writer.clear(), the first entry.
Clear ==
    /\ pc = "format" /\ pc' = "next"
    /\ writer' = <<>> /\ elem' = 0
    /\ UNCHANGED <<overload, args, p, enqueuedArguments, outside, formatted>>

\* operator<<: a null argument leaves no text, any other is followed by a space, and
\* the end marker is a newline.
Text(piece) ==
    CASE piece.type = "NULL_TYPE" -> <<>>
      [] piece.type = "END_MARKER_TYPE" -> <<"\n">>
      [] OTHER -> <<piece.value, " ">>

\* The texts of a statement's pieces.
Texts(o, s) == [i \in DOMAIN Pieces(o, s) |-> Text(Pieces(o, s)[i])]

\* elem.empty(): no value was ever stored.
Incomplete(piece) == piece = Empty

\* c_str() puts a terminator after the text.
Fits(text, piece) ==
    Len(text) + (IF piece.type = "END_MARKER_TYPE" THEN 1 ELSE 0) <= BUFFER_SIZE

Return(text) == formatted' = text /\ pc' = "returned"

\* An empty entry, or the end of the array, before the end marker: no message.
FormatFails ==
    /\ pc = "next"
    /\ elem \in Entries => Incomplete(p[elem])
    /\ Return(Null)
    /\ UNCHANGED <<overload, args, p, enqueuedArguments, outside, elem, writer>>

\* m_Writer << elem, and for the end marker m_Writer.c_str().
FormatPiece ==
    /\ pc = "next"
    /\ elem \in Entries /\ ~Incomplete(p[elem])
    /\ Fits(writer \o Text(p[elem]), p[elem])
    /\ writer' = writer \o Text(p[elem])
    /\ elem' = elem + 1
    /\ IF p[elem].type = "END_MARKER_TYPE"
       THEN Return(writer')
       ELSE UNCHANGED <<pc, formatted>>
    /\ UNCHANGED <<overload, args, p, enqueuedArguments, outside>>

\* The writer's buffer is fixed: it throws when it would have to grow.  Nothing in
\* format or consume catches that: the thread, and the process with it, is over.
WriterThrows ==
    /\ pc = "next"
    /\ elem \in Entries /\ ~Incomplete(p[elem])
    /\ ~Fits(writer \o Text(p[elem]), p[elem])
    /\ pc' = "terminated"
    /\ UNCHANGED <<overload, args, p, enqueuedArguments, outside, elem, writer,
                   formatted>>

\* The consumer has written the text; the formatter is used again.
Again ==
    /\ pc = "returned" /\ pc' = "call"
    /\ formatted' = Null
    /\ UNCHANGED <<overload, args, p, enqueuedArguments, outside, elem, writer>>

MessageNext == Call \/ WritePiece \/ Clear \/ FormatFails \/ FormatPiece \/ WriterThrows
        \/ Again

MessageSpec == MessageInit /\ [][MessageNext]_messageVars

-----------------------------------------------------------------------------
(* Properties *)

\* The array has room for every statement that compiles ("Make sure we have enough
\* room", at the static_assert of write).
EnoughRoom == ~outside

\* The consumer gets a message's text whole or not at all: no piece is cut off or
\* out of place, none comes from the message before, a message is dropped only when
\* it did not fit the array ("It SHOULD be complete but it's not guaranteed"), only a
\* time point makes it not fit, and only a text longer than the formatter's buffer
\* ends the consumer's thread.
WholeMessages ==
    LET whole == FlattenSeq(Texts(overload, args)) IN
    /\ pc = "returned" =>
          \/ formatted = whole
          \/ formatted = Null /\ outside
    /\ outside => overload = "timed"
    /\ pc = "terminated" => Len(whole) >= BUFFER_SIZE

-----------------------------------------------------------------------------
(* Why a message is whole: the loop invariants of _write and of format *)

\* What the array holds after n calls of _write.
Saved(n) ==
    [i \in Entries |-> IF i < n THEN Pieces(overload, args)[i + 1] ELSE Empty]

\* The text of the first n pieces.
TextOfFirst(n) == FlattenSeq(SubSeq(Texts(overload, args), 1, n))

\* _write fills the array in order, format has the text of the entries before elem
\* and never passes the end marker.
LoopInv ==
    LET n == Len(Pieces(overload, args)) IN
    /\ pc \in {"call", "write", "format", "next", "returned", "terminated"}
    /\ overload \in Overloads /\ args \in Seq(Arguments)
    /\ Passes(overload, Len(args) - 1)
    /\ enqueuedArguments \in 0 .. n
    /\ pc = "write" => enqueuedArguments < n
    /\ pc \in {"format", "next"} => enqueuedArguments = n
    /\ p = Saved(enqueuedArguments)
    /\ outside <=> enqueuedArguments > PARAM_SIZE
    /\ pc = "next" => elem \in 0 .. n - 1 /\ writer = TextOfFirst(elem)
    /\ WholeMessages

=============================================================================
