------------------------------ MODULE TraceLog ------------------------------
(***************************************************************************)
(* The trace over MQTT (src/src/logging.cpp): a ring of characters that    *)
(* addChar() fills from everywhere in the firmware and that loop() empties *)
(* one string at a time.                                                   *)
(*                                                                         *)
(* The writer uses the cells below Ring; the reader counts modulo Size and *)
(* finds an end of string in the cell between, which nobody writes.        *)
(***************************************************************************)
EXTENDS Naturals, Sequences, SequencesExt, FiniteSetsExt

CONSTANTS
    Size,     \* LOGGING_BUFFER_SIZE
    Waste,    \* EXCEPT_BUFFER_WASTING * LOGGING_BUFFER_SIZE
    MaxMsg,   \* MAX_MQTT_MSG
    Char,     \* the characters of the text
    Hash,     \* '#', over lost text
    Dollar,   \* '$', where a long message is split
    End,      \* 0x00, behind every string
    Hasty     \* TRUE: loop() may run inside a line that was just moved

Ring == Size - 1
Cells == 0..(Size - 1)
Cell == Char \cup {Hash, Dollar, End}

ASSUME CharAssumption ==
    /\ Hash # Dollar
    /\ End \notin {Hash, Dollar}
    /\ Char \cap {Hash, Dollar, End} = {}
ASSUME SizeAssumption ==
    /\ Size \in Nat /\ Waste \in Nat /\ MaxMsg \in Nat
    /\ 2 <= MaxMsg
    /\ 2 <= Waste
    /\ 2 * Waste + 2 <= Size
ASSUME HastyAssumption == Hasty \in BOOLEAN

VARIABLES
    log,      \* the members buffer, head and tail
    count,    \* msg_c: characters since the last end of a message
    active,   \* mqtt_trace_active
    sent      \* the string that loop() returned last

vars == <<log, count, active, sent>>

\* Nobody writes the cell behind the ring, which holds 0x00 from the start.
Buffers == {b \in [Cells -> Cell] : b[Ring] = End}

Log == [buffer : Buffers, head : Cells, tail : Cells]

-----------------------------------------------------------------------------
(* addChar().                                                              *)

\* Slip: the writer uses the whole buffer.
StoredModSize(l, c) ==
    LET next == (l.tail + 1) % Size
    IN  [l EXCEPT !.buffer = [@ EXCEPT ![l.tail % Size] = c, ![next] = End],
                  !.tail = next]

\* the character, and the end of the string behind it
Stored(l, c) ==
    LET next == (l.tail + 1) % Ring
    IN  [l EXCEPT !.buffer = [@ EXCEPT ![l.tail % Ring] = c, ![next] = End],
                  !.tail = next]

\* where the last cells of the ring hold an end of string, counted backwards
Ends(l) == {i \in 1..(Waste - 1) : l.buffer[Size - 1 - i] = End}

\* Slip: the line is copied to the front but not erased behind.
MovedTwice(l) ==
    LET i == Min(Ends(l))
        line == Size - i
        length == i - 1
    IN  [buffer |-> [k \in Cells |-> IF k < length THEN l.buffer[line + k]
                                     ELSE l.buffer[k]],
         tail |-> length,
         head |-> IF l.head <= length THEN length + 1 ELSE l.head]

\* The line that begins after the last of them is moved to the front, so
\* that it stays in one piece.
Moved(l) ==
    LET i == Min(Ends(l))
        line == Size - i
        length == i - 1
    IN  [buffer |-> [k \in Cells |-> IF k >= line THEN End
                                     ELSE IF k < length THEN l.buffer[line + k]
                                     ELSE l.buffer[k]],
         tail |-> length,
         head |-> IF l.head <= length THEN length + 1 ELSE l.head]

Wrapped(l) == IF l.tail = 0 /\ Ends(l) # {} THEN Moved(l) ELSE l

\* Slip: the reader is not pushed on when the writer reaches it.
MarkedOnly(l) ==
    IF l.tail # l.head THEN l
    ELSE [l EXCEPT !.buffer = [@ EXCEPT ![(l.tail + 1) % Ring] = Hash,
                                        ![(l.tail + 2) % Ring] = Hash]]

\* the writer has reached the reader: the oldest text is given up
Overrun(l) ==
    IF l.tail # l.head THEN l
    ELSE LET first == (l.tail + 1) % Ring
         IN  [l EXCEPT !.head = first,
                       !.buffer = [@ EXCEPT ![first] = Hash,
                                            ![(first + 1) % Ring] = Hash]]

Added(l, c) == Overrun(Wrapped(Stored(l, c)))

\* A message that grows too long is ended and continued with "$$".
AddChar(c) ==
    /\ active
    /\ IF c # End /\ count = MaxMsg
       THEN /\ log' = Added(Added(Added(Added(log, c), End), Dollar), Dollar)
            /\ count' = 2
       ELSE /\ log' = Added(log, c)
            /\ count' = IF c = End THEN 0 ELSE count + 1
    /\ UNCHANGED <<active, sent>>

-----------------------------------------------------------------------------
(* loop().                                                                 *)

\* strlen(buffer + from)
Length(from) == Min({k \in from..(Size - 1) : log.buffer[k] = End}) - from

StringAt(from) == [k \in 1..Length(from) |-> log.buffer[from + k - 1]]

TailEnded == log.buffer[log.tail % Ring] = End

\* Slip: a reader that has passed the end of an unfinished line stays there.
LoopPastTail ==
    /\ active
    /\ log.head # log.tail
    /\ Hasty \/ TailEnded
    /\ log' = [log EXCEPT !.head = (@ + Length(@) + 1) % Size]
    /\ sent' = StringAt(log.head)
    /\ UNCHANGED <<count, active>>

\* An empty string is skipped: nothing is sent.
Loop ==
    /\ active
    /\ log.head # log.tail
    /\ Hasty \/ TailEnded
    /\ LET next == (log.head + Length(log.head) + 1) % Size
       IN  log' = [log EXCEPT !.head = next,
                              !.tail = IF next = @ + 1 THEN next ELSE @]
    /\ sent' = StringAt(log.head)
    /\ UNCHANGED <<count, active>>

EnableMqttTrace ==
    /\ active' \in BOOLEAN
    /\ UNCHANGED <<log, count, sent>>

-----------------------------------------------------------------------------

\* The object is global, so its buffer starts with zeros.
Init ==
    /\ log = [buffer |-> [k \in Cells |-> End], head |-> 0, tail |-> 0]
    /\ count = 0
    /\ active = FALSE
    /\ sent = <<>>

Next ==
    \/ \E c \in Char \cup {End} : AddChar(c)
    \/ Loop
    \/ EnableMqttTrace

Spec == Init /\ [][Next]_vars

\* The main loop asks for the next string again and again.
Fairness == WF_vars(Loop)

FairSpec == Spec /\ Fairness

-----------------------------------------------------------------------------
(* Properties.                                                             *)

\* Head and tail stay inside the buffer, a message below its limit, and the
\* cell behind the ring, which is never written, ends the string in front of
\* it: strlen() in loop(), which knows no limit, stays inside the buffer.
TypeOK ==
    /\ log \in Log
    /\ count \in 0..MaxMsg
    /\ active \in BOOLEAN
    /\ sent \in Seq(Cell)

\* The text in the cells from first on: after[k] is that of the cells before k,
\* without the ends of string.
TextsFrom(buffer, first) ==
    LET after[k \in first..Size] ==
            IF k = first THEN <<>>
            ELSE IF buffer[k - 1] = End THEN after[k - 1]
            ELSE Append(after[k - 1], buffer[k - 1])
    IN  after

Text(buffer, first, last) == TextsFrom(buffer, first)[last]

\* The text from head to tail, on the reader's way.
TextIn(l) ==
    IF l.head <= l.tail THEN Text(l.buffer, l.head, l.tail)
    ELSE Text(l.buffer, l.head, Size) \o Text(l.buffer, 0, l.tail)

Unread == TextIn(log)

Texts == INSTANCE TextQueue WITH
    Char <- Char,
    Lost <- <<Hash, Hash>>,
    Split <- <<Dollar, Dollar>>,
    pending <- Unread

\* What is sent was logged, in this order, once, and complete but for the
\* oldest part: wraps, moved lines, splits and overruns leave the ring a queue.
IsTextQueue == Texts!Spec

\* a line logged now costs more than a wrap may cost, and nothing shows it
LossHidden ==
    /\ Len(Unread') + Waste <= Len(Unread)
    /\ ~IsPrefix(<<Hash, Hash>>, Unread')

\* "visulize buffer overrun with 2x#" (addChar): who reads the trace sees that
\* some of it is missing, as long as the reader is not in the cell behind the
\* ring. There its index, Size - 1, never equals that of the writer, which
\* passes unnoticed.
OverrunMarkedInRing ==
    [][(\E c \in Char \cup {End} : AddChar(c)) /\ log.head # Ring
          => ~LossHidden]_vars

\* When nobody logs any more and the last line is whole, everything is sent:
\* the reader never runs round the ring past the writer.
Drained ==
    <>[][Loop]_vars /\ <>[](active /\ TailEnded) => <>[](log.head = log.tail)
=============================================================================
