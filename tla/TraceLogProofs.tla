--------------------------- MODULE TraceLogProofs ---------------------------
(* The trace ring, for every size, waste and limit of a message.            *)
EXTENDS TraceLog, Integers, FiniteSetsExt, WellFoundedInduction, SequenceTheorems,
        TLAPS

\* A set of numbers that is not empty has a least one, and Min is it.
LEMMA MinIsLeast ==
    ASSUME NEW S \in SUBSET Nat, S # {}
    PROVE  Min(S) \in S /\ \A y \in S : Min(S) <= y
<1>1. PICK x \in S : \A y \in S : ~(<<y, x>> \in OpToRel(<, Nat))
  BY NatLessThanWellFounded, WFMin
<1>2. ASSUME NEW y \in S PROVE x <= y
  <2>1. <<y, x>> \in Nat \X Nat /\ ~(y < x)
    BY <1>1 DEF OpToRel
  <2> QED BY <2>1
<1> QED BY <1>2 DEF Min

LEMMA ModBelow ==
    ASSUME NEW a \in Nat, NEW b \in Nat \ {0}
    PROVE  a % b \in 0..(b - 1)
OBVIOUS

\* The ring has room for the line that is moved, and ends inside the buffer.
LEMMA Sizes ==
    /\ Size \in Nat /\ 5 < Size /\ Ring \in Nat \ {0} /\ Ring = Size - 1
    /\ Ring \in Cells /\ 0 \in Cells
    /\ \A n \in Nat : n % Ring \in 0..(Ring - 1) /\ n % Size \in Cells
    /\ \A n \in 0..(Ring - 1) : n \in Cells /\ n # Ring
<1>1. Size \in Nat /\ 5 < Size /\ Ring \in Nat \ {0} /\ Ring = Size - 1
  BY SizeAssumption DEF Ring
<1>2. Ring \in Cells /\ 0 \in Cells
  BY <1>1 DEF Cells
<1>3. ASSUME NEW n \in Nat PROVE n % Ring \in 0..(Ring - 1) /\ n % Size \in Cells
  <2>1. n % Ring \in 0..(Ring - 1)
    BY <1>1, ModBelow
  <2>2. Size \in Nat \ {0}
    BY <1>1
  <2> QED BY <2>1, <2>2, ModBelow DEF Cells
<1>4. \A n \in 0..(Ring - 1) : n \in Cells /\ n # Ring
  BY <1>1 DEF Cells
<1> QED BY <1>1, <1>2, <1>3, <1>4

\* A character may be written anywhere below the last cell.
LEMMA Written ==
    ASSUME NEW b \in Buffers, NEW i \in 0..(Ring - 1), NEW c \in Cell
    PROVE  [b EXCEPT ![i] = c] \in Buffers
BY Sizes DEF Buffers

LEMMA CellMembers == Hash \in Cell /\ Dollar \in Cell /\ End \in Cell /\ Char \subseteq Cell
BY DEF Cell

-----------------------------------------------------------------------------
(* addChar().                                                              *)

LEMMA StoredType ==
    ASSUME NEW l \in Log, NEW c \in Cell
    PROVE  Stored(l, c) \in Log /\ Stored(l, c).tail \in 0..(Ring - 1)
<1> DEFINE at == l.tail % Ring
           next == (l.tail + 1) % Ring
<1>1. at \in 0..(Ring - 1) /\ next \in 0..(Ring - 1)
  <2>1. l.tail \in Nat /\ l.tail + 1 \in Nat
    BY Sizes DEF Log, Cells
  <2> QED BY <2>1, Sizes
<1>2. Stored(l, c) = [l EXCEPT !.buffer = [[l.buffer EXCEPT ![at] = c] EXCEPT ![next] = End],
                               !.tail = next]
  BY DEF Stored, Log
<1> HIDE DEF at, next
<1>3. [[l.buffer EXCEPT ![at] = c] EXCEPT ![next] = End] \in Buffers
  BY <1>1, Written, CellMembers DEF Log
<1> QED BY <1>1, <1>2, <1>3, Sizes DEF Log

LEMMA MovedType ==
    ASSUME NEW l \in Log, Ends(l) # {}
    PROVE  Moved(l) \in Log
<1> DEFINE i == Min(Ends(l))
           line == Size - i
           length == i - 1
           b == [k \in Cells |-> IF k >= line THEN End
                                 ELSE IF k < length THEN l.buffer[line + k]
                                 ELSE l.buffer[k]]
<1>1. i \in 1..(Waste - 1)
  <2>1. Ends(l) \in SUBSET Nat /\ Ends(l) \subseteq 1..(Waste - 1)
    BY DEF Ends
  <2> QED BY <2>1, MinIsLeast
<1>2. Moved(l) = [buffer |-> b, tail |-> length,
                  head |-> IF l.head <= length THEN length + 1 ELSE l.head]
  BY DEF Moved
<1>3. line \in Nat /\ length \in Nat /\ line <= Ring /\ length + 1 \in Cells
      /\ length \in Cells /\ line + length = Ring
  <2> HIDE DEF i
  <2>1. Waste \in Nat /\ 2 <= Waste /\ Size \in Nat /\ Waste + 1 < Size
    BY SizeAssumption
  <2> QED BY <1>1, <2>1 DEF Cells, Ring
<1> HIDE DEF i, line, length
<1>4. b \in Buffers
  <2>1. ASSUME NEW k \in Cells PROVE b[k] \in Cell
    <3>1. l.buffer \in [Cells -> Cell] /\ k \in Nat
      BY Sizes DEF Log, Buffers, Cells
    <3>2. CASE k >= line
      BY <3>2, CellMembers
    <3>3. CASE ~(k >= line) /\ k < length
      <4>1. line + k \in Cells
        BY <1>3, <3>1, <3>3, Sizes DEF Cells
      <4> QED BY <3>1, <3>3, <4>1
    <3>4. CASE ~(k >= line) /\ ~(k < length)
      BY <3>1, <3>4
    <3> QED BY <3>2, <3>3, <3>4
  <2>2. b[Ring] = End
    BY <1>3, Sizes
  <2> QED BY <2>1, <2>2 DEF Buffers
<1> HIDE DEF b
<1>5. (IF l.head <= length THEN length + 1 ELSE l.head) \in Cells
  BY <1>3 DEF Log
<1> QED BY <1>2, <1>3, <1>4, <1>5 DEF Log

LEMMA OverrunType ==
    ASSUME NEW l \in Log
    PROVE  Overrun(l) \in Log
<1> DEFINE first == (l.tail + 1) % Ring
           second == (first + 1) % Ring
<1>1. first \in 0..(Ring - 1)
  <2>1. l.tail + 1 \in Nat
    BY Sizes DEF Log, Cells
  <2> QED BY <2>1, Sizes
<1>2. second \in 0..(Ring - 1)
  <2> HIDE DEF first
  <2>1. first + 1 \in Nat
    BY <1>1, Sizes
  <2> QED BY <2>1, Sizes
<1>3. l.tail = l.head =>
        Overrun(l) = [l EXCEPT !.head = first,
                               !.buffer = [[l.buffer EXCEPT ![first] = Hash]
                                                     EXCEPT ![second] = Hash]]
  BY DEF Overrun, Log
<1>4. l.tail # l.head => Overrun(l) = l
  BY DEF Overrun
<1> HIDE DEF first, second
<1>5. [[l.buffer EXCEPT ![first] = Hash] EXCEPT ![second] = Hash] \in Buffers
  BY <1>1, <1>2, Written, CellMembers DEF Log
<1> QED BY <1>1, <1>3, <1>4, <1>5, Sizes DEF Log

LEMMA AddedType ==
    ASSUME NEW l \in Log, NEW c \in Cell
    PROVE  Added(l, c) \in Log
BY StoredType, MovedType, OverrunType DEF Added, Wrapped

-----------------------------------------------------------------------------
(* loop().                                                                 *)

\* strlen() finds an end of string inside the buffer, wherever it starts.
LEMMA LengthBounded ==
    ASSUME log \in Log, NEW from \in Cells
    PROVE  /\ Length(from) \in Nat /\ from + Length(from) \in Cells
           /\ log.buffer[from + Length(from)] = End
<1> DEFINE ends == {k \in from..(Size - 1) : log.buffer[k] = End}
<1>1. ends \in SUBSET Nat /\ ends # {} /\ \A k \in ends : k \in Cells /\ from <= k
  <2>1. log.buffer[Ring] = End /\ Ring \in from..(Size - 1)
    BY Sizes DEF Cells, Log, Buffers
  <2>2. from..(Size - 1) \subseteq Cells /\ Cells \subseteq Nat
    BY Sizes DEF Cells
  <2>3. \A k \in from..(Size - 1) : from <= k
    BY Sizes DEF Cells
  <2> QED BY <2>1, <2>2, <2>3
<1>2. Min(ends) \in ends
  BY <1>1, MinIsLeast
<1>3. Length(from) = Min(ends) - from
  BY DEF Length
<1>4. Min(ends) \in Cells /\ from <= Min(ends) /\ log.buffer[Min(ends)] = End
  BY <1>1, <1>2
<1> DEFINE m == Min(ends)
<1>5. Length(from) = m - from /\ m \in Nat /\ from \in Nat /\ from <= m
      /\ m \in Cells /\ log.buffer[m] = End
  BY <1>3, <1>4, Sizes DEF Cells
<1> HIDE DEF m, ends
<1>6. Length(from) \in Nat /\ from + Length(from) = m
  BY <1>5
<1> QED BY <1>5, <1>6

LEMMA StringType ==
    ASSUME log \in Log, NEW from \in Cells
    PROVE  StringAt(from) \in Seq(Cell)
<1>1. Length(from) \in Nat /\ from + Length(from) \in Cells
  BY LengthBounded
<1> DEFINE n == Length(from)
<1>2. n \in Nat /\ from + n \in Cells /\ StringAt(from) = [k \in 1..n |-> log.buffer[from + k - 1]]
  BY <1>1 DEF StringAt
<1> HIDE DEF n
<1>3. ASSUME NEW k \in 1..n PROVE log.buffer[from + k - 1] \in Cell
  <2>1. from + k - 1 \in Cells
    BY <1>2, Sizes DEF Cells
  <2> QED BY <2>1 DEF Log, Buffers
<1> QED BY <1>2, <1>3

-----------------------------------------------------------------------------

LEMMA InitType == Init => TypeOK
<1> SUFFICES ASSUME Init PROVE TypeOK
  OBVIOUS
<1>1. [k \in Cells |-> End] \in Buffers
  BY Sizes, CellMembers DEF Buffers
<1>2. log \in Log
  BY <1>1, Sizes DEF Init, Log
<1>3. count \in 0..MaxMsg /\ active \in BOOLEAN
  <2>1. 0 \in 0..MaxMsg
    BY SizeAssumption
  <2>2. FALSE \in BOOLEAN
    OBVIOUS
  <2> QED BY <2>1, <2>2 DEF Init
<1>4. <<>> \in Seq(Cell)
  OBVIOUS
<1> QED BY <1>2, <1>3, <1>4 DEF Init, TypeOK

LEMMA NextType == TypeOK /\ [Next]_vars => TypeOK'
<1> SUFFICES ASSUME TypeOK, [Next]_vars PROVE TypeOK'
  OBVIOUS
<1>1. ASSUME NEW c \in Char \cup {End}, AddChar(c) PROVE TypeOK'
  <2>1. log \in Log /\ c \in Cell /\ count \in 0..MaxMsg /\ 2 <= MaxMsg /\ MaxMsg \in Nat
    BY CellMembers, SizeAssumption DEF TypeOK
  <2>2. log' \in Log
    <3>1. Added(log, c) \in Log
      BY <2>1, AddedType
    <3>2. Added(Added(Added(Added(log, c), End), Dollar), Dollar) \in Log
      BY <3>1, AddedType, CellMembers
    <3> QED BY <1>1, <3>1, <3>2 DEF AddChar
  <2>3. count' \in 0..MaxMsg
    BY <1>1, <2>1 DEF AddChar
  <2> QED BY <1>1, <2>2, <2>3 DEF AddChar, TypeOK
<1>2. CASE Loop
  <2> DEFINE next == (log.head + Length(log.head) + 1) % Size
  <2>1. next \in Cells
    <3>1. log.head \in Cells /\ Length(log.head) \in Nat
      BY LengthBounded DEF TypeOK, Log
    <3>2. log.head + Length(log.head) + 1 \in Nat
      BY <3>1, Sizes DEF Cells
    <3> QED BY <3>2, Sizes
  <2>2. log' = [log EXCEPT !.head = next, !.tail = IF next = log.tail + 1 THEN next ELSE log.tail]
    BY <1>2 DEF Loop, TypeOK, Log
  <2> HIDE DEF next
  <2>3. log' \in Log
    BY <2>1, <2>2 DEF TypeOK, Log
  <2>4. sent' \in Seq(Cell)
    <3>1. log.head \in Cells
      BY DEF TypeOK, Log
    <3> QED BY <1>2, <3>1, StringType DEF Loop, TypeOK
  <2> QED BY <1>2, <2>3, <2>4 DEF Loop, TypeOK
<1>3. CASE EnableMqttTrace
  BY <1>3 DEF EnableMqttTrace, TypeOK
<1>4. CASE UNCHANGED vars
  BY <1>4 DEF vars, TypeOK
<1> QED BY <1>1, <1>2, <1>3, <1>4 DEF Next

\* Whatever the size of the ring, its indices stay inside it, and strlen() in
\* loop(), which knows no limit, always finds an end of string in the buffer,
\* though lines are moved, split and overrun (addChar and loop of logging.cpp).
THEOREM TypeCorrect == Spec => []TypeOK
<1> QED BY InitType, NextType, PTL DEF Spec

-----------------------------------------------------------------------------
(* The text in a part of the buffer.                                       *)

Symbols == Cell \ {End}
One(c) == IF c = End THEN <<>> ELSE <<c>>

\* Texts can be joined, in any grouping.
LEMMA Joins ==
    /\ \A s, t \in Seq(Symbols) : s \o t \in Seq(Symbols)
    /\ \A s \in Seq(Symbols) : s \o <<>> = s /\ <<>> \o s = s
    /\ \A s, t, u \in Seq(Symbols) : (s \o t) \o u = s \o (t \o u)
    /\ <<>> \in Seq(Symbols)
    /\ \A c \in Cell : One(c) \in Seq(Symbols)
<1>1. \A s, t \in Seq(Symbols) : s \o t \in Seq(Symbols)
  BY ConcatProperties
<1>2. \A s \in Seq(Symbols) : s \o <<>> = s /\ <<>> \o s = s
  BY ConcatEmptySeq
<1>3. \A s, t, u \in Seq(Symbols) : (s \o t) \o u = s \o (t \o u)
  BY ConcatAssociative
<1>4. <<>> \in Seq(Symbols)
  BY EmptySeq
<1>5. ASSUME NEW c \in Cell PROVE One(c) \in Seq(Symbols)
  <2>1. CASE c = End
    BY <1>4, <2>1 DEF One
  <2>2. CASE c # End
    <3>1. c \in Symbols
      BY <2>2 DEF Symbols
    <3>2. <<c>> \in Seq(Symbols)
      BY <3>1
    <3> QED BY <2>2, <3>2 DEF One
  <2> QED BY <2>1, <2>2
<1> QED BY <1>1, <1>2, <1>3, <1>4, <1>5

\* There is the text before each cell, and it follows from the one before.
LEMMA TextsFollow ==
    ASSUME NEW b, NEW i \in 0..Size
    PROVE  /\ Text(b, i, i) = <<>>
           /\ \A k \in (i + 1)..Size :
                 Text(b, i, k) = IF b[k - 1] = End THEN Text(b, i, k - 1)
                                 ELSE Append(Text(b, i, k - 1), b[k - 1])
<1> DEFINE Are(g, n) == g = [k \in i..n |->
                               IF k = i THEN <<>>
                               ELSE IF b[k - 1] = End THEN g[k - 1]
                               ELSE Append(g[k - 1], b[k - 1])]
           Short == {n \in Nat : i <= n /\ ~\E g : Are(g, n)}
<1>0. Size \in Nat /\ i \in Nat /\ i <= Size
  BY Sizes
<1>1. Short = {}
  <2> SUFFICES ASSUME Short # {} PROVE FALSE
    OBVIOUS
  <2> DEFINE m == Min(Short)
  <2>1. m \in Nat /\ i <= m /\ ~(\E g : Are(g, m)) /\ \A n \in Short : m <= n
    BY MinIsLeast
  <2> HIDE DEF m
  <2>2. m # i
    <3> DEFINE g == [k \in i..i |-> <<>>]
    <3>1. Are(g, i)
      BY <1>0
    <3> QED BY <2>1, <3>1
  <2>3. PICK g : Are(g, m - 1)
    <3>1. m - 1 \in Nat /\ i <= m - 1 /\ ~(m <= m - 1)
      BY <1>0, <2>1, <2>2
    <3>2. m - 1 \notin Short
      BY <2>1, <3>1
    <3> QED BY <3>1, <3>2
  <2> DEFINE next == IF b[m - 1] = End THEN g[m - 1] ELSE Append(g[m - 1], b[m - 1])
             h == [k \in i..m |-> IF k = m THEN next ELSE g[k]]
  <2> HIDE DEF next
  <2>4. Are(h, m)
    <3>1. ASSUME NEW k \in i..m
          PROVE  h[k] = IF k = i THEN <<>>
                        ELSE IF b[k - 1] = End THEN h[k - 1] ELSE Append(h[k - 1], b[k - 1])
      <4>1. CASE k = i
        <5>1. h[k] = g[i] /\ i \in i..(m - 1)
          BY <1>0, <2>1, <2>2, <4>1
        <5>2. g[i] = <<>>
          BY <2>3, <5>1
        <5> QED BY <4>1, <5>1, <5>2
      <4>2. CASE k = m
        <5>1. h[k] = next /\ m - 1 \in i..m /\ m - 1 # m
          BY <1>0, <2>1, <2>2, <4>2
        <5>2. h[m - 1] = g[m - 1]
          BY <5>1
        <5> QED BY <2>2, <4>2, <5>1, <5>2 DEF next
      <4>3. CASE k # i /\ k # m
        <5>1. k \in i..(m - 1) /\ k - 1 \in i..m /\ k - 1 # m
          BY <1>0, <2>1, <4>3
        <5>2. h[k] = g[k] /\ h[k - 1] = g[k - 1]
          BY <4>3, <5>1
        <5>3. g[k] = IF b[k - 1] = End THEN g[k - 1] ELSE Append(g[k - 1], b[k - 1])
          BY <2>3, <4>3, <5>1
        <5> QED BY <4>3, <5>2, <5>3
      <4> QED BY <4>1, <4>2, <4>3
    <3> QED BY <3>1
  <2> QED BY <2>1, <2>4
<1>2. PICK g : Are(g, Size)
  BY <1>0, <1>1
<1>3. Are(TextsFrom(b, i), Size)
  BY <1>2 DEF TextsFrom
<1>4. i \in i..Size /\ \A k \in (i + 1)..Size : k \in i..Size /\ k # i
  BY <1>0
<1> HIDE DEF Short
<1>5. \A r : Are(r, Size) =>
             /\ r[i] = <<>>
             /\ \A k \in (i + 1)..Size :
                   r[k] = IF b[k - 1] = End THEN r[k - 1] ELSE Append(r[k - 1], b[k - 1])
  BY <1>4
<1> QED BY <1>3, <1>5 DEF Text

Buffer == [Cells -> Cell]

\* One cell more adds its character, if it holds one.
LEMMA TextGrows ==
    ASSUME NEW b \in Buffer, NEW i \in 0..Size
    PROVE  /\ \A j \in i..Size : Text(b, i, j) \in Seq(Symbols)
           /\ \A j \in i..(Size - 1) :
                 /\ b[j] \in Cell
                 /\ Text(b, i, j + 1) = Text(b, i, j) \o One(b[j])
<1>0. Size \in Nat /\ i \in Nat /\ i <= Size
  BY Sizes
<1>1. ASSUME NEW j \in i..(Size - 1) PROVE b[j] \in Cell
  <2>1. j \in Cells
    BY <1>0 DEF Cells
  <2> QED BY <2>1 DEF Buffer
<1>2. ASSUME NEW j \in i..(Size - 1), Text(b, i, j) \in Seq(Symbols)
      PROVE  /\ Text(b, i, j + 1) = Text(b, i, j) \o One(b[j])
             /\ Text(b, i, j + 1) \in Seq(Symbols)
  <2>1. j + 1 \in (i + 1)..Size /\ (j + 1) - 1 = j
    BY <1>0
  <2>2. Text(b, i, j + 1) = IF b[j] = End THEN Text(b, i, j) ELSE Append(Text(b, i, j), b[j])
    BY <2>1, TextsFollow
  <2>3. CASE b[j] = End
    BY <1>2, <2>2, <2>3, Joins DEF One
  <2>4. CASE b[j] # End
    <3>1. b[j] \in Symbols
      BY <1>1, <2>4 DEF Symbols
    <3>2. Append(Text(b, i, j), b[j]) = Text(b, i, j) \o <<b[j]>>
      BY <1>2, <3>1
    <3>3. One(b[j]) = <<b[j]>> /\ b[j] \in Cell
      BY <1>1, <2>4 DEF One
    <3>4. Text(b, i, j + 1) = Text(b, i, j) \o One(b[j])
      BY <2>2, <2>4, <3>2, <3>3
    <3>5. One(b[j]) \in Seq(Symbols)
      BY <3>3, Joins
    <3> QED BY <1>2, <3>4, <3>5, Joins
  <2> QED BY <2>3, <2>4
<1> DEFINE Odd == {j \in i..Size : Text(b, i, j) \notin Seq(Symbols)}
<1>3. Odd = {}
  <2> SUFFICES ASSUME Odd # {} PROVE FALSE
    OBVIOUS
  <2>1. Odd \in SUBSET Nat
    BY <1>0
  <2> DEFINE m == Min(Odd)
  <2>2. m \in Odd /\ \A n \in Odd : m <= n
    BY <2>1, MinIsLeast
  <2> HIDE DEF m
  <2>3. m # i
    <3>1. Text(b, i, i) \in Seq(Symbols)
      <4>1. Text(b, i, i) = <<>>
        BY TextsFollow
      <4> QED BY <4>1, Joins
    <3> QED BY <2>2, <3>1
  <2>4. m - 1 \in i..(Size - 1) /\ m - 1 \in i..Size /\ m - 1 \notin Odd /\ (m - 1) + 1 = m
    BY <1>0, <2>2, <2>3
  <2> QED BY <1>2, <2>2, <2>4
<1>4. \A j \in i..Size : Text(b, i, j) \in Seq(Symbols)
  BY <1>3
<1>5. \A j \in i..(Size - 1) : j \in i..Size
  BY <1>0
<1> QED BY <1>1, <1>2, <1>4, <1>5

\* A part that is split in two.
LEMMA TextSplits ==
    ASSUME NEW b \in Buffer, NEW i \in 0..Size, NEW m \in i..Size, NEW j \in m..Size
    PROVE  Text(b, i, j) = Text(b, i, m) \o Text(b, m, j)
<1>0. Size \in Nat /\ i \in Nat /\ i <= Size /\ m \in 0..Size /\ m \in Nat /\ i <= m
  BY Sizes
<1> DEFINE Odd == {n \in m..Size : Text(b, i, n) # Text(b, i, m) \o Text(b, m, n)}
<1>1. Odd = {}
  <2> SUFFICES ASSUME Odd # {} PROVE FALSE
    OBVIOUS
  <2>1. Odd \in SUBSET Nat
    BY <1>0
  <2> DEFINE n == Min(Odd)
  <2>2. n \in Odd /\ \A x \in Odd : n <= x
    BY <2>1, MinIsLeast
  <2> HIDE DEF n
  <2>3. n # m
    <3>1. Text(b, m, m) = <<>> /\ Text(b, i, m) \in Seq(Symbols)
      BY <1>0, TextsFollow, TextGrows
    <3> QED BY <2>2, <3>1, Joins
  <2>4. /\ n - 1 \in m..(Size - 1) /\ n - 1 \in i..(Size - 1) /\ n - 1 \in m..Size
        /\ n - 1 \in i..Size /\ n - 1 \notin Odd /\ (n - 1) + 1 = n
    BY <1>0, <2>2, <2>3
  <2>5. Text(b, i, n - 1) = Text(b, i, m) \o Text(b, m, n - 1)
    BY <2>4
  <2>6. /\ Text(b, i, n) = Text(b, i, n - 1) \o One(b[n - 1])
        /\ Text(b, m, n) = Text(b, m, n - 1) \o One(b[n - 1])
        /\ Text(b, i, m) \in Seq(Symbols) /\ Text(b, m, n - 1) \in Seq(Symbols)
        /\ b[n - 1] \in Cell
    BY <1>0, <2>4, TextGrows
  <2>7. Text(b, i, n) = Text(b, i, m) \o Text(b, m, n)
    <3>1. One(b[n - 1]) \in Seq(Symbols)
      BY <2>6, Joins
    <3>2. (Text(b, i, m) \o Text(b, m, n - 1)) \o One(b[n - 1])
              = Text(b, i, m) \o (Text(b, m, n - 1) \o One(b[n - 1]))
      BY <2>6, <3>1, Joins
    <3> QED BY <2>5, <2>6, <3>2
  <2> QED BY <2>2, <2>7
<1> QED BY <1>1

\* A single cell.
LEMMA TextOfOne ==
    ASSUME NEW b \in Buffer, NEW i \in 0..(Size - 1)
    PROVE  Text(b, i, i + 1) = One(b[i]) /\ b[i] \in Cell
<1>1. i \in 0..Size /\ i \in i..(Size - 1)
  BY Sizes
<1>2. Text(b, i, i) = <<>> /\ Text(b, i, i + 1) = Text(b, i, i) \o One(b[i]) /\ b[i] \in Cell
  BY <1>1, TextsFollow, TextGrows
<1> QED BY <1>2, Joins

\* The text depends on the cells it is taken from, and not on their place.
LEMMA TextMoves ==
    \A b, a \in Buffer, i, j \in 0..Size :
        \A iEnd \in i..Size, jEnd \in j..Size, d \in Int :
            j = i + d /\ jEnd = iEnd + d /\ (\A k \in i..(iEnd - 1) : b[k] = a[k + d])
            => Text(b, i, iEnd) = Text(a, j, jEnd)
<1> SUFFICES ASSUME NEW b \in Buffer, NEW a \in Buffer, NEW i \in 0..Size, NEW j \in 0..Size,
                    NEW iEnd \in i..Size, NEW jEnd \in j..Size, NEW d \in Int,
                    j = i + d, jEnd = iEnd + d, \A k \in i..(iEnd - 1) : b[k] = a[k + d]
             PROVE  Text(b, i, iEnd) = Text(a, j, jEnd)
  OBVIOUS
<1>0. Size \in Nat /\ i \in Nat /\ j \in Nat /\ iEnd \in Nat
  BY Sizes
<1> DEFINE Odd == {k \in i..iEnd : Text(b, i, k) # Text(a, j, k + d)}
<1>1. Odd = {}
  <2> SUFFICES ASSUME Odd # {} PROVE FALSE
    OBVIOUS
  <2>1. Odd \in SUBSET Nat
    BY <1>0
  <2> DEFINE k == Min(Odd)
  <2>2. k \in Odd /\ \A x \in Odd : k <= x
    BY <2>1, MinIsLeast
  <2> HIDE DEF k
  <2>3. k # i
    BY <2>2, TextsFollow
  <2>4. k - 1 \in i..iEnd /\ k - 1 \in i..(iEnd - 1) /\ k - 1 \notin Odd
    BY <1>0, <2>2, <2>3
  <2>5. /\ k - 1 \in i..(Size - 1) /\ (k - 1) + 1 = k
        /\ (k - 1) + d \in j..(Size - 1) /\ ((k - 1) + d) + 1 = k + d
    <3>1. k \in Int /\ i <= k - 1 /\ k - 1 < iEnd
      BY <1>0, <2>2, <2>4
    <3>2. /\ j \in Int /\ jEnd \in Int /\ jEnd <= Size /\ iEnd <= Size
          /\ iEnd \in Int /\ i \in Int /\ Size \in Int
      BY <1>0
    <3> QED BY <3>1, <3>2
  <2>6. Text(b, i, k) = Text(b, i, k - 1) \o One(b[k - 1])
    BY <2>5, TextGrows
  <2>7. Text(a, j, k + d) = Text(a, j, (k - 1) + d) \o One(a[(k - 1) + d])
    <3>1. Text(a, j, ((k - 1) + d) + 1) = Text(a, j, (k - 1) + d) \o One(a[(k - 1) + d])
      BY <2>5, TextGrows
    <3> QED BY <2>5, <3>1
  <2>8. Text(b, i, k - 1) = Text(a, j, (k - 1) + d) /\ b[k - 1] = a[(k - 1) + d]
    BY <2>4
  <2> QED BY <2>2, <2>6, <2>7, <2>8
<1>2. iEnd \in i..iEnd
  BY <1>0
<1> QED BY <1>1, <1>2

\* The special case of the same place.
LEMMA TextSame ==
    ASSUME NEW b \in Buffer, NEW a \in Buffer, NEW i \in 0..Size, NEW j \in i..Size,
           \A k \in i..(j - 1) : b[k] = a[k]
    PROVE  Text(b, i, j) = Text(a, i, j)
<1>1. 0 \in Int /\ i = i + 0 /\ j = j + 0
  BY Sizes
<1>2. ASSUME NEW k \in i..(j - 1) PROVE b[k] = a[k + 0]
  <2>1. k + 0 = k
    BY Sizes
  <2> QED BY <2>1
<1> QED BY <1>1, <1>2, TextMoves

\* Nothing but ends of string.
LEMMA TextOfEnds ==
    ASSUME NEW b \in Buffer, NEW i \in 0..Size, NEW j \in i..Size,
           \A k \in i..(j - 1) : b[k] = End
    PROVE  Text(b, i, j) = <<>>
<1>0. Size \in Nat /\ i \in Nat /\ j \in Nat
  BY Sizes
<1> DEFINE Odd == {k \in i..j : Text(b, i, k) # <<>>}
<1>1. Odd = {}
  <2> SUFFICES ASSUME Odd # {} PROVE FALSE
    OBVIOUS
  <2>1. Odd \in SUBSET Nat
    BY <1>0
  <2> DEFINE k == Min(Odd)
  <2>2. k \in Odd /\ \A x \in Odd : k <= x
    BY <2>1, MinIsLeast
  <2> HIDE DEF k
  <2>3. k # i
    BY <2>2, TextsFollow
  <2>4. k - 1 \in i..(j - 1) /\ k - 1 \in i..j /\ k \in (i + 1)..Size /\ k - 1 \notin Odd
    BY <1>0, <2>2, <2>3
  <2> QED BY <2>2, <2>4, TextsFollow
<1>2. j \in i..j
  BY <1>0
<1> QED BY <1>1, <1>2

LEMMA OneLength ==
    \A c \in Cell : Len(One(c)) = IF c = End THEN 0 ELSE 1
BY DEF One

\* There is at most one character in a cell.
LEMMA TextShort ==
    ASSUME NEW b \in Buffer, NEW i \in 0..Size, NEW j \in i..Size
    PROVE  Len(Text(b, i, j)) <= j - i
<1>0. Size \in Nat /\ i \in Nat /\ j \in Nat
  BY Sizes
<1>1. \A k \in i..Size : Text(b, i, k) \in Seq(Symbols) /\ Len(Text(b, i, k)) \in Nat
  <2>1. \A k \in i..Size : Text(b, i, k) \in Seq(Symbols)
    BY TextGrows
  <2> QED BY <2>1
<1> DEFINE Odd == {k \in i..Size : ~(Len(Text(b, i, k)) <= k - i)}
<1>2. Odd = {}
  <2> SUFFICES ASSUME Odd # {} PROVE FALSE
    OBVIOUS
  <2>1. Odd \in SUBSET Nat
    BY <1>0
  <2> DEFINE k == Min(Odd)
  <2>2. k \in Odd /\ \A x \in Odd : k <= x
    BY <2>1, MinIsLeast
  <2> HIDE DEF k
  <2>3. k # i
    <3>1. Text(b, i, i) = <<>> /\ Len(<<>>) = 0
      BY TextsFollow
    <3> QED BY <1>0, <2>2, <3>1
  <2> DEFINE n == k - 1
  <2>4. /\ n \in i..Size /\ n \in i..(Size - 1) /\ n + 1 = k /\ n \notin Odd /\ n \in Int
    BY <1>0, <2>2, <2>3
  <2> HIDE DEF n
  <2>5. Len(Text(b, i, n)) <= n - i
    BY <2>4
  <2>6. Text(b, i, n + 1) = Text(b, i, n) \o One(b[n]) /\ b[n] \in Cell
    BY <2>4, TextGrows
  <2>7. Len(One(b[n])) <= 1 /\ Len(One(b[n])) \in Nat /\ One(b[n]) \in Seq(Symbols)
    BY <2>6, OneLength, Joins
  <2>8. Len(Text(b, i, n) \o One(b[n])) = Len(Text(b, i, n)) + Len(One(b[n]))
    BY <1>1, <2>4, <2>7, ConcatProperties
  <2>9. Len(Text(b, i, k)) <= k - i
    BY <1>0, <1>1, <2>4, <2>5, <2>6, <2>7, <2>8
  <2> QED BY <2>2, <2>9
<1> QED BY <1>2

-----------------------------------------------------------------------------
(* The three parts of addChar(), cell by cell.                             *)

\* the cell behind t for the writer, and the cell it writes to
Turn(t) == IF t = Ring THEN 1 ELSE IF t = Ring - 1 THEN 0 ELSE t + 1
At(t) == IF t = Ring THEN 0 ELSE t

LEMMA TurnIs ==
    ASSUME NEW t \in Cells
    PROVE  /\ t % Ring = At(t) /\ (t + 1) % Ring = Turn(t)
           /\ At(t) \in 0..(Ring - 1) /\ Turn(t) \in 0..(Ring - 1) /\ At(t) # Turn(t)
<1>1. \A b \in Nat : \A a \in 0..(b - 1) : a % b = a
  OBVIOUS
<1>2. \A b \in Nat : b > 1 => b % b = 0 /\ (b + 1) % b = 1
  OBVIOUS
<1>3. t \in Nat /\ t <= Ring /\ Ring \in Nat /\ Ring > 4
  BY Sizes DEF Cells
<1>4. CASE t = Ring
  BY <1>2, <1>3, <1>4 DEF Turn, At
<1>5. CASE t = Ring - 1
  <2>1. t + 1 = Ring /\ t \in 0..(Ring - 1) /\ t # Ring
    BY <1>3, <1>5
  <2> QED BY <1>1, <1>2, <1>3, <1>5, <2>1 DEF Turn, At
<1>6. CASE t < Ring - 1
  <2>1. t + 1 \in 0..(Ring - 1) /\ t \in 0..(Ring - 1) /\ t # Ring /\ t # Ring - 1
    BY <1>3, <1>6
  <2> QED BY <1>1, <1>3, <2>1 DEF Turn, At
<1> QED BY <1>3, <1>4, <1>5, <1>6

LEMMA LogIs ==
    ASSUME NEW l \in Log
    PROVE  /\ l.buffer \in Buffer /\ l.buffer[Ring] = End
           /\ l.head \in Cells /\ l.tail \in Cells
           /\ l = [buffer |-> l.buffer, head |-> l.head, tail |-> l.tail]
BY DEF Log, Buffers, Buffer

LEMMA StoredIs ==
    ASSUME NEW l \in Log, NEW c \in Cell
    PROVE  /\ Stored(l, c) \in Log
           /\ Stored(l, c).head = l.head
           /\ Stored(l, c).tail = Turn(l.tail)
           /\ \A k \in Cells :
                 Stored(l, c).buffer[k] = IF k = Turn(l.tail) THEN End
                                          ELSE IF k = At(l.tail) THEN c ELSE l.buffer[k]
<1> DEFINE at == l.tail % Ring
           next == (l.tail + 1) % Ring
<1>1. at = At(l.tail) /\ next = Turn(l.tail)
  BY TurnIs, LogIs
<1>2. Stored(l, c) = [l EXCEPT !.buffer = [[l.buffer EXCEPT ![at] = c] EXCEPT ![next] = End],
                               !.tail = next]
  BY DEF Stored, Log
<1> HIDE DEF at, next
<1>3. l.buffer \in [Cells -> Cell]
  BY LogIs DEF Buffer
<1>4. /\ Stored(l, c).head = l.head
      /\ Stored(l, c).tail = next
      /\ Stored(l, c).buffer = [[l.buffer EXCEPT ![at] = c] EXCEPT ![next] = End]
  BY <1>2 DEF Log
<1>5. \A k \in Cells : Stored(l, c).buffer[k] = IF k = next THEN End
                                               ELSE IF k = at THEN c ELSE l.buffer[k]
  BY <1>3, <1>4
<1> QED BY <1>1, <1>4, <1>5, StoredType

LEMMA OverrunIs ==
    ASSUME NEW l \in Log, l.tail = l.head
    PROVE  /\ Overrun(l) \in Log
           /\ Overrun(l).head = Turn(l.tail)
           /\ Overrun(l).tail = l.tail
           /\ \A k \in Cells :
                 Overrun(l).buffer[k] = IF k \in {Turn(l.tail), Turn(Turn(l.tail))} THEN Hash
                                        ELSE l.buffer[k]
<1> DEFINE first == (l.tail + 1) % Ring
           second == (first + 1) % Ring
<1>1. first = Turn(l.tail) /\ first \in Cells
  BY TurnIs, LogIs, Sizes
<1>2. second = Turn(first)
  <2> HIDE DEF first
  <2> QED BY <1>1, TurnIs
<1>3. Overrun(l) = [l EXCEPT !.head = first,
                             !.buffer = [[l.buffer EXCEPT ![first] = Hash]
                                                   EXCEPT ![second] = Hash]]
  BY DEF Overrun, Log
<1> HIDE DEF first, second
<1>4. l.buffer \in [Cells -> Cell]
  BY LogIs DEF Buffer
<1>5. /\ Overrun(l).head = first
      /\ Overrun(l).tail = l.tail
      /\ Overrun(l).buffer = [[l.buffer EXCEPT ![first] = Hash] EXCEPT ![second] = Hash]
  BY <1>3 DEF Log
<1>6. \A k \in Cells : Overrun(l).buffer[k] = IF k \in {first, second} THEN Hash
                                             ELSE l.buffer[k]
  BY <1>4, <1>5
<1> QED BY <1>1, <1>2, <1>5, <1>6, OverrunType

\* the line that is moved
Line(l) == Size - Min(Ends(l))

LEMMA MovedIs ==
    ASSUME NEW l \in Log, Ends(l) # {}
    PROVE  LET line == Line(l)
               length == Ring - line
               m == Moved(l)
           IN  /\ m \in Log
               /\ line \in Waste..Ring /\ length \in 0..(Waste - 2)
               /\ l.buffer[line - 1] = End
               /\ \A k \in line..(Ring - 1) : l.buffer[k] # End
               /\ m.tail = length
               /\ m.head = IF l.head <= length THEN length + 1 ELSE l.head
               /\ \A k \in Cells :
                     m.buffer[k] = IF k >= line THEN End
                                   ELSE IF k < length THEN l.buffer[line + k]
                                   ELSE l.buffer[k]
<1> DEFINE i == Min(Ends(l))
           line == Size - i
           length == i - 1
           b == [k \in Cells |-> IF k >= line THEN End
                                 ELSE IF k < length THEN l.buffer[line + k]
                                 ELSE l.buffer[k]]
<1>1. i \in Ends(l) /\ \A k \in Ends(l) : i <= k
  <2>1. Ends(l) \in SUBSET Nat
    BY DEF Ends
  <2> QED BY <2>1, MinIsLeast
<1>2. /\ Moved(l).buffer = b /\ Moved(l).tail = length
      /\ Moved(l).head = IF l.head <= length THEN length + 1 ELSE l.head
  BY DEF Moved
<1>3. \A k \in Cells : b[k] = IF k >= line THEN End
                             ELSE IF k < length THEN l.buffer[line + k]
                             ELSE l.buffer[k]
  OBVIOUS
<1> HIDE DEF b, i
<1>4. i \in 1..(Waste - 1) /\ l.buffer[Size - 1 - i] = End
  BY <1>1 DEF Ends
<1>5. Waste \in Nat /\ 2 <= Waste /\ Size \in Nat /\ 2 * Waste + 2 <= Size /\ Ring = Size - 1
  BY SizeAssumption DEF Ring
<1>6. /\ line \in Waste..Ring /\ length \in 0..(Waste - 2) /\ length = Ring - line
      /\ line - 1 = Size - 1 - i
  BY <1>4, <1>5
<1>7. ASSUME NEW k \in line..(Ring - 1) PROVE l.buffer[k] # End
  <2>1. /\ Size - 1 - k \in 1..(Waste - 1) /\ Size - 1 - k < i
        /\ Size - 1 - (Size - 1 - k) = k
    BY <1>4, <1>5
  <2>2. Size - 1 - k \notin Ends(l)
    BY <1>1, <1>4, <2>1
  <2> QED BY <2>1, <2>2 DEF Ends
<1>8. Line(l) = line
  BY DEF Line, i
<1> QED BY <1>2, <1>3, <1>4, <1>6, <1>7, <1>8, MovedType

-----------------------------------------------------------------------------
(* The text after each of them.                                            *)

\* The whole text of the ring is that of its parts before and behind the end
\* of the buffer.
LEMMA TextInIs ==
    ASSUME NEW l \in Log
    PROVE  /\ TextIn(l) \in Seq(Symbols)
           /\ l.head <= l.tail => TextIn(l) = Text(l.buffer, l.head, l.tail)
           /\ ~(l.head <= l.tail) =>
                 TextIn(l) = Text(l.buffer, l.head, Size) \o Text(l.buffer, 0, l.tail)
<1>1. l.buffer \in Buffer /\ l.head \in 0..Size /\ l.tail \in 0..Size /\ 0 \in 0..Size
  BY LogIs, Sizes DEF Cells
<1>2. Text(l.buffer, 0, l.tail) \in Seq(Symbols) /\ Text(l.buffer, l.head, Size) \in Seq(Symbols)
  <2>1. l.tail \in 0..Size /\ Size \in l.head..Size
    BY <1>1, Sizes
  <2> QED BY <1>1, <2>1, TextGrows
<1>3. l.head <= l.tail => Text(l.buffer, l.head, l.tail) \in Seq(Symbols)
  <2>1. l.head <= l.tail => l.tail \in l.head..Size
    BY <1>1, Sizes
  <2> QED BY <1>1, <2>1, TextGrows
<1> QED BY <1>2, <1>3, Joins DEF TextIn

\* A line that is moved is read in its place, behind all that the reader has
\* yet to pass.
LEMMA MovedText ==
    ASSUME NEW l \in Log, Ends(l) # {}, l.tail = 0
    PROVE  LET line == Line(l)
               m == Moved(l)
           IN  /\ m.head <= line => TextIn(m) = Text(l.buffer, m.head, Ring)
               /\ m.head = Ring => TextIn(m) = Text(l.buffer, line, Ring)
<1> DEFINE line == Line(l)
           length == Ring - line
           m == Moved(l)
<1>1. /\ m \in Log
      /\ line \in Waste..Ring /\ length \in 0..(Waste - 2)
      /\ m.tail = length
      /\ m.head = IF l.head <= length THEN length + 1 ELSE l.head
      /\ \A k \in Cells :
            m.buffer[k] = IF k >= line THEN End
                          ELSE IF k < length THEN l.buffer[line + k]
                          ELSE l.buffer[k]
  BY MovedIs
<1> HIDE DEF m
<1>2. /\ Waste \in Nat /\ Size \in Nat /\ 2 * Waste + 2 <= Size /\ Ring = Size - 1
      /\ Ring \in Nat /\ line \in Nat /\ l.head \in 0..Ring /\ m.head \in 0..Ring
  BY <1>1, SizeAssumption, Sizes, LogIs DEF Cells
<1> HIDE DEF line
<1>3. m.buffer \in Buffer /\ l.buffer \in Buffer
  BY <1>1, LogIs
<1>4. m.head > length
  BY <1>1, <1>2
<1>5. Text(m.buffer, 0, length) = Text(l.buffer, line, Ring)
  <2>1. /\ line = 0 + line /\ Ring = length + line /\ line \in Int
        /\ 0 \in 0..Size /\ line \in 0..Size /\ length \in 0..Size /\ Ring \in line..Size
    BY <1>1, <1>2
  <2>2. ASSUME NEW k \in 0..(length - 1) PROVE m.buffer[k] = l.buffer[k + line]
    <3>1. k \in Cells /\ k < length /\ ~(k >= line) /\ k + line = line + k
      BY <1>1, <1>2 DEF Cells
    <3> QED BY <1>1, <3>1
  <2> HIDE DEF length
  <2>3. m.buffer \in Buffer /\ l.buffer \in Buffer /\ 0 \in 0..Size /\ line \in 0..Size
    BY <1>3, <2>1
  <2>4. \A iEnd \in 0..Size, jEnd \in line..Size, d \in Int :
           (line = 0 + d /\ jEnd = iEnd + d
               /\ \A k \in 0..(iEnd - 1) : m.buffer[k] = l.buffer[k + d])
           => Text(m.buffer, 0, iEnd) = Text(l.buffer, line, jEnd)
    <3> DEFINE a == l.buffer
               b == m.buffer
    <3>1. a \in Buffer /\ b \in Buffer
      BY <2>3
    <3> HIDE DEF a, b
    <3>2. \A iEnd \in 0..Size, jEnd \in line..Size, d \in Int :
           (line = 0 + d /\ jEnd = iEnd + d
               /\ \A k \in 0..(iEnd - 1) : b[k] = a[k + d])
           => Text(b, 0, iEnd) = Text(a, line, jEnd)
      BY <2>3, <3>1, TextMoves
    <3> QED BY <3>2 DEF a, b
  <2> QED BY <2>1, <2>2, <2>4
<1>6. ASSUME NEW i \in line..Ring PROVE Text(m.buffer, i, Size) = <<>>
  <2>1. i \in 0..Size /\ Size \in i..Size
    BY <1>1, <1>2
  <2>2. ASSUME NEW k \in i..(Size - 1) PROVE m.buffer[k] = End
    <3>1. k \in Cells /\ k >= line
      BY <1>1, <1>2 DEF Cells
    <3> QED BY <1>1, <3>1
  <2> QED BY <1>3, <2>1, <2>2, TextOfEnds
<1>7. Text(l.buffer, line, Ring) \in Seq(Symbols)
  <2>1. line \in 0..Size /\ Ring \in line..Size
    BY <1>1, <1>2
  <2> QED BY <1>3, <2>1, TextGrows
<1>8. TextIn(m) = Text(m.buffer, m.head, Size) \o Text(l.buffer, line, Ring)
  <2>1. ~(m.head <= m.tail)
    BY <1>1, <1>2, <1>4
  <2> QED BY <1>1, <1>5, <2>1, TextInIs
<1>9. ASSUME m.head <= line PROVE TextIn(m) = Text(l.buffer, m.head, Ring)
  <2>1. /\ m.head \in 0..Size /\ line \in m.head..Size /\ Size \in line..Size
        /\ Ring \in line..Size /\ line \in line..Ring
    BY <1>1, <1>2, <1>9
  <2>2. Text(m.buffer, m.head, line) = Text(l.buffer, m.head, line)
    <3>1. ASSUME NEW k \in m.head..(line - 1) PROVE m.buffer[k] = l.buffer[k]
      <4>1. k \in Cells /\ ~(k >= line) /\ ~(k < length)
        BY <1>1, <1>2, <1>4 DEF Cells
      <4> QED BY <1>1, <4>1
    <3> QED BY <1>3, <2>1, <3>1, TextSame
  <2>3. Text(m.buffer, m.head, Size) = Text(l.buffer, m.head, line)
    <3>1. Text(m.buffer, m.head, Size) = Text(m.buffer, m.head, line) \o Text(m.buffer, line, Size)
      BY <1>3, <2>1, TextSplits
    <3>2. Text(m.buffer, line, Size) = <<>>
      BY <1>6, <2>1
    <3>3. Text(l.buffer, m.head, line) \in Seq(Symbols)
      BY <1>3, <2>1, TextGrows
    <3> QED BY <2>2, <3>1, <3>2, <3>3, Joins
  <2>4. Text(l.buffer, m.head, Ring)
            = Text(l.buffer, m.head, line) \o Text(l.buffer, line, Ring)
    BY <1>3, <2>1, TextSplits
  <2> QED BY <1>8, <2>3, <2>4
<1>10. ASSUME m.head = Ring PROVE TextIn(m) = Text(l.buffer, line, Ring)
  <2>1. Text(m.buffer, m.head, Size) = <<>>
    <3>1. Ring \in line..Ring
      BY <1>1, <1>2
    <3> QED BY <1>6, <1>10, <3>1
  <2> QED BY <1>7, <1>8, <2>1, Joins
<1> QED BY <1>9, <1>10 DEF m, line

-----------------------------------------------------------------------------
(* One character more.                                                     *)

\* The reader stands at the beginning of a string, or where the writer has
\* pushed it to, or behind the ring; and the writer is there only with it.
Valid(l) ==
    /\ l \in Log
    /\ l.tail = Ring => l.head = Ring
    /\ \/ l.head \in {0, Ring, l.tail + 1}
       \/ l.buffer[l.head - 1] = End

\* The next character overruns the reader.
Adjacent(l) == l.tail # Ring /\ l.head = Turn(l.tail)

LEMMA Bounds ==
    ASSUME NEW l \in Log
    PROVE  /\ Size \in Nat /\ Ring \in Nat /\ Size = Ring + 1 /\ 5 < Size
           /\ l.head \in 0..Ring /\ l.tail \in 0..Ring
           /\ l.head \in Nat /\ l.tail \in Nat
           /\ Cells = 0..Ring
BY LogIs, Sizes DEF Cells

\* In the middle of the ring, the character is added to the text.
LEMMA PlainText ==
    ASSUME NEW l, Valid(l), NEW c \in Cell, l.tail # Ring - 1, ~Adjacent(l)
    PROVE  /\ Valid(Added(l, c))
           /\ TextIn(Added(l, c)) = TextIn(l) \o One(c)
<1> DEFINE s == Stored(l, c)
           b == l.buffer
           a == s.buffer
           h == l.head
           t == l.tail
<1>1. /\ l \in Log /\ s \in Log /\ s.head = h /\ s.tail = Turn(t)
      /\ \A k \in Cells : a[k] = IF k = Turn(t) THEN End ELSE IF k = At(t) THEN c ELSE b[k]
      /\ a \in Buffer /\ b \in Buffer
      /\ a[Ring] = End
  BY StoredIs, LogIs DEF Valid
<1>2. /\ Size \in Nat /\ Ring \in Nat /\ Size = Ring + 1 /\ 5 < Size
      /\ h \in 0..Ring /\ t \in 0..Ring /\ Cells = 0..Ring
      /\ h \in Nat /\ t \in Nat
  BY <1>1, Bounds
<1>3. Turn(t) # 0 /\ Turn(t) # h
  BY <1>2 DEF Turn, Adjacent, Valid
<1>4. Added(l, c) = s
  <2>1. Wrapped(s) = s
    BY <1>1, <1>3 DEF Wrapped
  <2>2. Overrun(s) = s
    BY <1>1, <1>3 DEF Overrun
  <2> QED BY <2>1, <2>2 DEF Added
<1>5. TextIn(l) \in Seq(Symbols) /\ One(c) \in Seq(Symbols)
  BY <1>1, TextInIs, Joins
<1>6. l.tail = Ring => l.head = Ring
  BY DEF Valid
<1>7. l.head \in {0, Ring, l.tail + 1} \/ l.buffer[l.head - 1] = End
  BY DEF Valid
<1> HIDE DEF s
<1>8. CASE t = Ring
  <2>1. h = Ring /\ Turn(t) = 1 /\ At(t) = 0
    BY <1>6, <1>8 DEF Turn, At
  <2>2. Valid(s)
    BY <1>1, <1>2, <2>1 DEF Valid
  <2>3. TextIn(l) = <<>>
    <3>1. TextIn(l) = Text(b, Ring, Ring)
      BY <1>1, <1>2, <1>8, <2>1, TextInIs
    <3> QED BY <1>2, <3>1, TextsFollow
  <2>4. TextIn(s) = Text(a, Ring, Size) \o Text(a, 0, 1)
    <3>1. ~(s.head <= s.tail) /\ s.head = Ring /\ s.tail = 1
      BY <1>1, <1>2, <2>1
    <3> QED BY <1>1, <3>1, TextInIs
  <2>5. Text(a, Ring, Size) = One(End) /\ Text(a, 0, 1) = One(c)
    <3>1. Ring \in 0..(Size - 1) /\ 0 \in 0..(Size - 1) /\ 0 \in Cells /\ 0 # 1 /\ 0 + 1 = 1
      BY <1>2
    <3>2. a[0] = c
      BY <1>1, <2>1, <3>1
    <3>3. Text(a, Ring, Ring + 1) = One(a[Ring]) /\ Text(a, 0, 0 + 1) = One(a[0])
      BY <1>1, <3>1, TextOfOne
    <3> QED BY <1>1, <1>2, <3>1, <3>2, <3>3
  <2>6. One(End) = <<>>
    BY DEF One
  <2> QED BY <1>4, <1>5, <2>2, <2>3, <2>4, <2>5, <2>6, Joins
<1>9. CASE t # Ring
  <2>1. t < Ring - 1 /\ Turn(t) = t + 1 /\ At(t) = t /\ h # t + 1
    BY <1>2, <1>3, <1>9 DEF Turn, At
  <2>2. Valid(s)
    <3>1. CASE h \in {0, Ring}
      BY <1>1, <1>2, <2>1, <3>1 DEF Valid
    <3>2. CASE h \notin {0, Ring}
      <4>1. b[h - 1] = End /\ h - 1 \in Cells /\ h - 1 # t
        BY <1>2, <1>7, <2>1, <3>2
      <4>2. a[h - 1] = End
        BY <1>1, <2>1, <4>1
      <4> QED BY <1>1, <1>2, <2>1, <4>2 DEF Valid
    <3> QED BY <3>1, <3>2
  <2>3. ASSUME NEW i \in 0..t
        PROVE  Text(a, i, t + 1) = Text(b, i, t) \o One(c)
    <3>1. i \in 0..Size /\ t \in i..Size /\ t \in i..(Size - 1) /\ t \in Cells
      BY <1>2
    <3>2. ASSUME NEW k \in i..(t - 1) PROVE a[k] = b[k]
      <4>1. k \in Cells /\ k # t /\ k # t + 1
        BY <1>2
      <4> QED BY <1>1, <2>1, <4>1
    <3>3. Text(a, i, t) = Text(b, i, t)
      BY <1>1, <3>1, <3>2, TextSame
    <3>4. a[t] = c
      BY <1>1, <1>2, <2>1, <3>1
    <3> QED BY <1>1, <3>1, <3>3, <3>4, TextGrows
  <2>4. CASE h <= t
    <3>1. TextIn(s) = Text(a, h, t + 1) /\ TextIn(l) = Text(b, h, t) /\ h \in 0..t
      BY <1>1, <1>2, <2>1, <2>4, TextInIs
    <3> QED BY <1>4, <2>2, <2>3, <3>1
  <2>5. CASE ~(h <= t)
    <3>1. /\ TextIn(s) = Text(a, h, Size) \o Text(a, 0, t + 1)
          /\ TextIn(l) = Text(b, h, Size) \o Text(b, 0, t)
      <4>1. ~(h <= t + 1)
        BY <1>2, <2>1, <2>5
      <4> QED BY <1>1, <2>1, <2>5, <4>1, TextInIs
    <3>2. h \in 0..Size /\ Size \in h..Size /\ 0 \in 0..t /\ t \in 0..Size /\ 0 \in 0..Size
      BY <1>2
    <3>3. Text(a, h, Size) = Text(b, h, Size)
      <4>1. ASSUME NEW k \in h..(Size - 1) PROVE a[k] = b[k]
        <5>1. k \in Cells /\ k # t /\ k # t + 1
          BY <1>2, <2>1, <2>5
        <5> QED BY <1>1, <2>1, <5>1
      <4> QED BY <1>1, <3>2, <4>1, TextSame
    <3>4. Text(a, 0, t + 1) = Text(b, 0, t) \o One(c)
      BY <2>3, <3>2
    <3>5. Text(b, h, Size) \in Seq(Symbols) /\ Text(b, 0, t) \in Seq(Symbols)
      BY <1>1, <3>2, TextGrows
    <3>6. Text(b, h, Size) \o (Text(b, 0, t) \o One(c))
              = (Text(b, h, Size) \o Text(b, 0, t)) \o One(c)
      BY <1>5, <3>5, Joins
    <3>7. TextIn(s) = TextIn(l) \o One(c)
      BY <3>1, <3>3, <3>4, <3>6
    <3> QED BY <1>4, <2>2, <3>7
  <2> QED BY <2>4, <2>5
<1> QED BY <1>8, <1>9

\* The cells of a text that are written behind it.
LEMMA StoredLast ==
    ASSUME NEW l \in Log, NEW c \in Cell, l.tail = Ring - 1, NEW i \in 1..(Ring - 1)
    PROVE  Text(Stored(l, c).buffer, i, Ring) = Text(l.buffer, i, Ring - 1) \o One(c)
<1> DEFINE b == l.buffer
           a == Stored(l, c).buffer
<1>1. /\ \A k \in Cells : a[k] = IF k = Turn(Ring - 1) THEN End
                               ELSE IF k = At(Ring - 1) THEN c ELSE b[k]
      /\ a \in Buffer /\ b \in Buffer
  BY StoredIs, LogIs
<1>2. Size \in Nat /\ Ring \in Nat /\ Size = Ring + 1 /\ 5 < Size /\ Cells = 0..Ring
  BY Bounds
<1>3. Turn(Ring - 1) = 0 /\ At(Ring - 1) = Ring - 1
  BY <1>2 DEF Turn, At
<1> HIDE DEF a
<1>4. /\ i \in 0..Size /\ Ring - 1 \in i..Size /\ Ring - 1 \in i..(Size - 1)
      /\ (Ring - 1) + 1 = Ring /\ Ring - 1 \in Cells /\ Ring - 1 # 0
  BY <1>2
<1>5. Text(a, i, Ring - 1) = Text(b, i, Ring - 1)
  <2>1. ASSUME NEW k \in i..((Ring - 1) - 1) PROVE a[k] = b[k]
    <3>1. k \in Cells /\ k # Ring - 1 /\ k # 0
      BY <1>2
    <3> QED BY <1>1, <1>3, <3>1
  <2> QED BY <1>1, <1>4, <2>1, TextSame
<1>6. a[Ring - 1] = c
  BY <1>1, <1>3, <1>4
<1>7. Text(a, i, (Ring - 1) + 1) = Text(a, i, Ring - 1) \o One(a[Ring - 1])
  BY <1>1, <1>4, TextGrows
<1> QED BY <1>4, <1>5, <1>6, <1>7 DEF a

\* At the end of the ring the last line is moved, or the writer starts anew.
LEMMA WrapIs ==
    ASSUME NEW l \in Log, NEW c \in Cell, l.tail = Ring - 1
    PROVE  LET s == Stored(l, c)
           IN  /\ s \in Log /\ s.tail = 0 /\ s.head = l.head
               /\ \A k \in Cells : s.buffer[k] = IF k = 0 THEN End
                                               ELSE IF k = Ring - 1 THEN c ELSE l.buffer[k]
               /\ Ends(s) = {} => Added(l, c) = Overrun(s)
               /\ Ends(s) # {} => Added(l, c) = Moved(s) /\ Moved(s).tail < Moved(s).head
<1> DEFINE s == Stored(l, c)
<1>1. Size \in Nat /\ Ring \in Nat /\ Size = Ring + 1 /\ 5 < Size /\ l.head \in 0..Ring
  BY Bounds
<1>2. Turn(Ring - 1) = 0 /\ At(Ring - 1) = Ring - 1
  BY <1>1 DEF Turn, At
<1>3. /\ s \in Log /\ s.tail = 0 /\ s.head = l.head
      /\ \A k \in Cells : s.buffer[k] = IF k = 0 THEN End
                                      ELSE IF k = Ring - 1 THEN c ELSE l.buffer[k]
  BY <1>2, StoredIs
<1> HIDE DEF s
<1>4. Ends(s) = {} => Wrapped(s) = s
  BY DEF Wrapped
<1>5. ASSUME Ends(s) # {}
      PROVE  Wrapped(s) = Moved(s) /\ Overrun(Moved(s)) = Moved(s) /\ Moved(s).tail < Moved(s).head
  <2>1. Wrapped(s) = Moved(s)
    BY <1>3, <1>5 DEF Wrapped
  <2> DEFINE length == Ring - Line(s)
             m == Moved(s)
  <2>2. /\ Line(s) \in Waste..Ring /\ length \in 0..(Waste - 2) /\ m.tail = length
        /\ m.head = IF s.head <= length THEN length + 1 ELSE s.head
    BY <1>3, <1>5, MovedIs
  <2> HIDE DEF m
  <2>3. m.tail < m.head
    <3>1. length \in Int
      BY <2>2, SizeAssumption
    <3> HIDE DEF length
    <3> QED BY <1>1, <1>3, <2>2, <3>1
  <2>4. m.tail # m.head
    <3>1. m.tail \in Int /\ m.head \in Int
      <4>1. length \in Int
        BY <2>2, SizeAssumption
      <4> HIDE DEF length
      <4> QED BY <1>1, <1>3, <2>2, <4>1
    <3> QED BY <2>3, <3>1
  <2>5. Overrun(m) = m
    BY <2>4 DEF Overrun
  <2> QED BY <2>1, <2>3, <2>5 DEF m
<1>6. Added(l, c) = Overrun(Wrapped(s))
  BY DEF Added, s
<1> QED BY <1>3, <1>4, <1>5, <1>6 DEF s

\* A move behind which the reader is pushed.
LEMMA MovePushes ==
    ASSUME NEW l \in Log, NEW c \in Cell, l.tail = Ring - 1, Ends(Stored(l, c)) # {},
           l.head <= Ring - Line(Stored(l, c))
    PROVE  LET s == Stored(l, c)
               length == Ring - Line(s)
               m == Added(l, c)
           IN  /\ m \in Log /\ m.tail = length /\ m.head = length + 1
               /\ length \in Nat /\ length + 1 \in 1..(Ring - 1)
               /\ length = 0 => c = End
               /\ TextIn(l) = Text(l.buffer, l.head, Ring - 1)
               /\ TextIn(m) = Text(l.buffer, length + 1, Ring - 1) \o One(c)
               /\ \A k \in (length + 1)..(Ring - 2) :
                     k < Line(s) => m.buffer[k] = l.buffer[k]
<1> DEFINE s == Stored(l, c)
           line == Line(s)
           length == Ring - line
           m == Moved(s)
<1>1. /\ s \in Log /\ s.tail = 0 /\ s.head = l.head
      /\ \A k \in Cells : s.buffer[k] = IF k = 0 THEN End
                                      ELSE IF k = Ring - 1 THEN c ELSE l.buffer[k]
      /\ Added(l, c) = m
  BY WrapIs
<1>2. /\ m \in Log
      /\ line \in Waste..Ring /\ length \in 0..(Waste - 2)
      /\ s.buffer[line - 1] = End
      /\ m.tail = length
      /\ m.head = IF s.head <= length THEN length + 1 ELSE s.head
      /\ \A k \in Cells :
            m.buffer[k] = IF k >= line THEN End
                          ELSE IF k < length THEN s.buffer[line + k]
                          ELSE s.buffer[k]
  BY <1>1, MovedIs
<1>3. m.head <= line => TextIn(m) = Text(s.buffer, m.head, Ring)
  BY <1>1, MovedText
<1> HIDE DEF m
<1>4. /\ Size \in Nat /\ Ring \in Nat /\ Size = Ring + 1 /\ 5 < Size
      /\ l.head \in 0..Ring /\ Cells = 0..Ring
      /\ Waste \in Nat /\ 2 <= Waste /\ 2 * Waste + 2 <= Size
  BY Bounds, SizeAssumption
<1>5. m.head = length + 1 /\ length \in Nat /\ length + 1 \in 1..(Ring - 1) /\ m.head <= line
  <2>1. line \in Int /\ length \in Int
    BY <1>2, <1>4
  <2> QED BY <1>1, <1>2, <1>4, <2>1
<1>6. TextIn(m) = Text(l.buffer, length + 1, Ring - 1) \o One(c)
  <2>1. Text(s.buffer, length + 1, Ring) = Text(l.buffer, length + 1, Ring - 1) \o One(c)
    BY <1>5, StoredLast
  <2> QED BY <1>3, <1>5, <2>1
<1>7. TextIn(l) = Text(l.buffer, l.head, Ring - 1)
  <2>1. l.head <= l.tail
    <3>1. length <= Ring - 1
      BY <1>4, <1>5
    <3> QED BY <1>4, <1>5, <3>1
  <2> QED BY <2>1, TextInIs
<1>8. length = 0 => c = End
  <2> SUFFICES ASSUME length = 0 PROVE c = End
    OBVIOUS
  <2>1. line = Ring /\ line - 1 = Ring - 1 /\ Ring - 1 \in Cells /\ Ring - 1 # 0
    BY <1>2, <1>4
  <2>2. s.buffer[Ring - 1] = c
    BY <1>1, <2>1
  <2> QED BY <1>2, <2>1, <2>2
<1>9. ASSUME NEW k \in (length + 1)..(Ring - 2), k < line PROVE m.buffer[k] = l.buffer[k]
  <2>1. k \in Cells /\ ~(k >= line) /\ ~(k < length) /\ k # 0 /\ k # Ring - 1
    <3>1. line \in Int
      BY <1>2, <1>4
    <3> QED BY <1>4, <1>5, <1>9, <3>1
  <2> QED BY <1>1, <1>2, <2>1
<1> QED BY <1>1, <1>2, <1>5, <1>6, <1>7, <1>8, <1>9

LEMMA JoinsThree ==
    \A s, t, u \in Seq(Symbols) : (s \o t) \o u = s \o (t \o u)
BY Joins

\* Where the writer starts anew, the text keeps its end, unless the reader
\* waits for it there; behind the ring it may lose all of it.
LEMMA WrapText ==
    ASSUME NEW l, Valid(l), NEW c \in Cell, l.tail = Ring - 1, l.head # 0
    PROVE  /\ Valid(Added(l, c))
           /\ \E A, B \in Seq(Symbols) :
                 /\ TextIn(l) \o One(c) = A \o B /\ TextIn(Added(l, c)) = B
                 /\ l.head # Ring => Len(A) < Waste
<1> DEFINE s == Stored(l, c)
           b == l.buffer
           a == s.buffer
           h == l.head
           m == Added(l, c)
           Some == \E A, B \in Seq(Symbols) :
                      /\ TextIn(l) \o One(c) = A \o B /\ TextIn(m) = B
                      /\ h # Ring => Len(A) < Waste
<1>1. /\ l \in Log /\ s \in Log /\ s.tail = 0 /\ s.head = h
      /\ \A k \in Cells : a[k] = IF k = 0 THEN End ELSE IF k = Ring - 1 THEN c ELSE b[k]
      /\ Ends(s) = {} => m = Overrun(s)
      /\ Ends(s) # {} => m = Moved(s)
      /\ a \in Buffer /\ b \in Buffer /\ a[Ring] = End /\ b[Ring] = End
  BY WrapIs, LogIs DEF Valid
<1>2. /\ Size \in Nat /\ Ring \in Nat /\ Size = Ring + 1 /\ 5 < Size
      /\ h \in 1..Ring /\ Cells = 0..Ring
  BY <1>1, Bounds
<1>3. TextIn(l) \in Seq(Symbols) /\ One(c) \in Seq(Symbols) /\ TextIn(l) \o One(c) \in Seq(Symbols)
  BY <1>1, TextInIs, Joins
<1>4. h = Ring \/ b[h - 1] = End
  BY <1>2 DEF Valid
<1>5. ASSUME NEW i \in 1..(Ring - 1) PROVE Text(a, i, Ring) = Text(b, i, Ring - 1) \o One(c)
  BY <1>1, StoredLast
<1>6. h # Ring => TextIn(l) = Text(b, h, Ring - 1)
  <2>1. h # Ring => h <= l.tail
    BY <1>2
  <2> QED BY <1>1, <2>1, TextInIs
<1>7. h = Ring => TextIn(l) = Text(b, Ring, Size) \o Text(b, 0, Ring - 1)
  <2>1. h = Ring => ~(h <= l.tail)
    BY <1>2
  <2> QED BY <1>1, <2>1, TextInIs
<1>8. ASSUME TextIn(m) = <<>>, h = Ring PROVE Some
  <2>1. TextIn(l) \o One(c) = (TextIn(l) \o One(c)) \o <<>>
    BY <1>3, Joins
  <2> QED BY <1>3, <1>8, <2>1, Joins
<1>9. ASSUME TextIn(m) = TextIn(l) \o One(c) PROVE Some
  <2>1. TextIn(l) \o One(c) = <<>> \o (TextIn(l) \o One(c))
    BY <1>3, Joins
  <2>2. Len(<<>>) < Waste
    BY SizeAssumption
  <2> QED BY <1>3, <1>9, <2>1, <2>2, Joins
<1> HIDE DEF s, m
<1>10. CASE Ends(s) = {}
  <2>1. m = s
    BY <1>1, <1>2, <1>10 DEF Overrun
  <2>2. Valid(m)
    <3>1. CASE h = Ring
      BY <1>1, <1>2, <2>1, <3>1 DEF Valid
    <3>2. CASE h # Ring
      <4>1. b[h - 1] = End /\ h - 1 \in Cells /\ h - 1 # Ring - 1
        BY <1>2, <1>4, <3>2
      <4>2. a[h - 1] = End
        BY <1>1, <4>1
      <4> QED BY <1>1, <1>2, <2>1, <4>2 DEF Valid
    <3> QED BY <3>1, <3>2
  <2>3. TextIn(m) = Text(a, h, Size)
    <3>1. ~(s.head <= s.tail)
      BY <1>1, <1>2
    <3>2. Text(a, 0, 0) = <<>> /\ Text(a, h, Size) \in Seq(Symbols)
      <4>1. 0 \in 0..Size /\ h \in 0..Size /\ Size \in h..Size
        BY <1>2
      <4> QED BY <1>1, <4>1, TextsFollow, TextGrows
    <3>3. TextIn(s) = Text(a, h, Size) \o Text(a, 0, 0)
      BY <1>1, <3>1, TextInIs
    <3>4. Text(a, h, Size) \o <<>> = Text(a, h, Size)
      BY <3>2, Joins
    <3> QED BY <2>1, <3>2, <3>3, <3>4
  <2>4. Text(a, Ring, Size) = <<>>
    <3>1. Ring \in 0..(Size - 1)
      BY <1>2
    <3>2. Text(a, Ring, Ring + 1) = One(a[Ring])
      BY <1>1, <3>1, TextOfOne
    <3> QED BY <1>1, <1>2, <3>2 DEF One
  <2>5. CASE h = Ring
    BY <1>8, <2>2, <2>3, <2>4, <2>5 DEF m
  <2>6. CASE h # Ring
    <3>1. h \in 0..Size /\ Ring \in h..Size /\ Size \in Ring..Size /\ h \in 1..(Ring - 1)
      BY <1>2, <2>6
    <3>2. Text(a, h, Size) = Text(a, h, Ring) \o Text(a, Ring, Size)
      BY <1>1, <3>1, TextSplits
    <3>3. Text(a, h, Ring) = TextIn(l) \o One(c)
      BY <1>5, <1>6, <2>6, <3>1
    <3>4. TextIn(m) = TextIn(l) \o One(c)
      BY <1>3, <2>3, <2>4, <3>2, <3>3, Joins
    <3> QED BY <1>9, <2>2, <3>4 DEF m
  <2> QED BY <2>5, <2>6
<1>11. CASE Ends(s) # {}
  <2> DEFINE line == Line(s)
             length == Ring - line
  <2>1. /\ m = Moved(s) /\ m \in Log
        /\ line \in Waste..Ring /\ length \in 0..(Waste - 2)
        /\ a[line - 1] = End
        /\ \A k \in line..(Ring - 1) : a[k] # End
        /\ m.tail = length
        /\ m.head = IF h <= length THEN length + 1 ELSE h
        /\ \A k \in Cells :
              m.buffer[k] = IF k >= line THEN End
                            ELSE IF k < length THEN a[line + k]
                            ELSE a[k]
    BY <1>1, <1>11, MovedIs
  <2>2. /\ m.head <= line => TextIn(m) = Text(a, m.head, Ring)
        /\ m.head = Ring => TextIn(m) = Text(a, line, Ring)
    BY <1>1, <1>11, <2>1, MovedText
  <2>3. /\ Waste \in Nat /\ 2 <= Waste /\ 2 * Waste + 2 <= Size
        /\ line \in Nat /\ length \in Nat /\ length < Ring - 1 /\ length + line = Ring
    <3>1. Waste \in Nat /\ 2 <= Waste /\ 2 * Waste + 2 <= Size
      BY SizeAssumption
    <3>2. line \in Int
      BY <1>2, <2>1, <3>1
    <3> HIDE DEF line
    <3> QED BY <1>2, <2>1, <3>1, <3>2
  <2> HIDE DEF line
  <2>4. CASE h <= length
    <3>1. /\ m.tail = length /\ m.head = length + 1
          /\ TextIn(m) = Text(b, length + 1, Ring - 1) \o One(c)
      BY <1>1, <1>11, <2>4, MovePushes DEF m, s, line
    <3>2. Valid(m)
      BY <1>2, <2>1, <2>3, <3>1 DEF Valid
    <3>3. /\ h \in 0..Size /\ length + 1 \in h..Size /\ Ring - 1 \in (length + 1)..Size
          /\ length + 1 \in 0..Size /\ h # Ring
      BY <1>2, <2>3, <2>4
    <3>4. Text(b, h, Ring - 1) = Text(b, h, length + 1) \o Text(b, length + 1, Ring - 1)
      BY <1>1, <3>3, TextSplits
    <3>5. Text(b, h, length + 1) \in Seq(Symbols) /\ Text(b, length + 1, Ring - 1) \in Seq(Symbols)
      BY <1>1, <3>3, TextGrows
    <3>6. TextIn(l) \o One(c) = Text(b, h, length + 1) \o TextIn(m)
      <4>1. (Text(b, h, length + 1) \o Text(b, length + 1, Ring - 1)) \o One(c)
                = Text(b, h, length + 1) \o (Text(b, length + 1, Ring - 1) \o One(c))
        BY <1>3, <3>5, Joins
      <4> QED BY <1>6, <3>1, <3>3, <3>4, <4>1
    <3>7. TextIn(m) \in Seq(Symbols)
      BY <2>1, TextInIs
    <3>8. Len(Text(b, h, length + 1)) < Waste
      <4> DEFINE f == length + 1
                 n == Len(Text(b, h, f))
      <4>1. n <= f - h
        BY <1>1, <3>3, TextShort
      <4>2. n \in Nat
        BY <3>5
      <4> HIDE DEF n
      <4>3. n < Waste
        BY <1>2, <2>1, <2>3, <4>1, <4>2
      <4> QED BY <4>3 DEF n
    <3> QED BY <3>2, <3>5, <3>6, <3>7, <3>8 DEF m
  <2>5. CASE ~(h <= length) /\ h # Ring
    <3>1. m.head = h /\ h \in 1..(Ring - 1)
      BY <1>2, <2>1, <2>5
    <3>2. h <= line
      <4> SUFFICES ASSUME ~(h <= line) PROVE FALSE
        OBVIOUS
      <4>1. /\ h - 1 \in line..(Ring - 1) /\ h - 1 \in Cells
            /\ h - 1 # 0 /\ h - 1 # Ring - 1
        BY <1>2, <2>1, <2>3, <3>1
      <4>2. a[h - 1] = b[h - 1] /\ a[h - 1] # End
        BY <1>1, <2>1, <4>1
      <4> QED BY <1>4, <2>5, <4>2
    <3>3. TextIn(m) = TextIn(l) \o One(c)
      BY <1>5, <1>6, <2>2, <2>5, <3>1, <3>2
    <3>4. Valid(m)
      <4>1. /\ h - 1 \in Cells /\ ~(h - 1 >= line) /\ ~(h - 1 < length)
            /\ h - 1 # Ring - 1
        BY <1>2, <2>3, <2>5, <3>1, <3>2
      <4>2. b[h - 1] = End /\ m.buffer[h - 1] = a[h - 1]
        BY <1>4, <2>1, <2>5, <4>1
      <4>3. a[h - 1] = End
        BY <1>1, <4>1, <4>2
      <4>4. m.tail # Ring
        BY <2>1, <2>3, <1>2
      <4> QED BY <2>1, <3>1, <4>2, <4>3, <4>4 DEF Valid
    <3> QED BY <1>9, <3>3, <3>4 DEF m
  <2>6. CASE ~(h <= length) /\ h = Ring
    <3>1. m.head = Ring /\ TextIn(m) = Text(a, line, Ring)
      BY <2>1, <2>2, <2>6
    <3>2. Valid(m)
      <4>1. m.tail # Ring
        BY <2>1, <2>3, <1>2
      <4> QED BY <2>1, <3>1, <4>1 DEF Valid
    <3>3. CASE line = Ring
      <4>1. Ring \in 0..Size
        BY <1>2
      <4>2. TextIn(m) = <<>>
        BY <3>1, <3>3, <4>1, TextsFollow
      <4> QED BY <1>8, <2>6, <3>2, <4>2 DEF m
    <3>4. CASE line # Ring
      <4>1. /\ line \in 1..(Ring - 1) /\ line \in 0..Size /\ Ring - 1 \in line..Size
            /\ 0 \in 0..Size /\ Ring \in 0..Size /\ Size \in Ring..Size
        BY <1>2, <2>1, <2>3, <3>4
      <4>2. TextIn(m) = Text(b, line, Ring - 1) \o One(c)
        BY <1>5, <3>1, <4>1
      <4>3. Text(b, 0, Ring - 1) = Text(b, 0, line) \o Text(b, line, Ring - 1)
        BY <1>1, <4>1, TextSplits
      <4>4. /\ Text(b, Ring, Size) \in Seq(Symbols) /\ Text(b, 0, line) \in Seq(Symbols)
            /\ Text(b, line, Ring - 1) \in Seq(Symbols)
        BY <1>1, <4>1, TextGrows
      <4> DEFINE lost == Text(b, Ring, Size) \o Text(b, 0, line)
      <4>5. lost \in Seq(Symbols) /\ TextIn(m) \in Seq(Symbols)
        BY <2>1, <4>4, Joins, TextInIs
      <4>6. TextIn(l) = lost \o Text(b, line, Ring - 1)
        <5>1. Text(b, Ring, Size) \o (Text(b, 0, line) \o Text(b, line, Ring - 1))
                  = lost \o Text(b, line, Ring - 1)
          BY <4>4, Joins
        <5> QED BY <1>7, <2>6, <4>3, <5>1
      <4> HIDE DEF lost
      <4>7. TextIn(l) \o One(c) = lost \o TextIn(m)
        <5> DEFINE kept == Text(b, line, Ring - 1)
                   last == One(c)
        <5>0. kept \in Seq(Symbols) /\ last \in Seq(Symbols)
          BY <1>3, <4>4
        <5> HIDE DEF kept, last
        <5>1. (lost \o kept) \o last = lost \o (kept \o last)
          BY ONLY <4>5, <5>0, ConcatAssociative
        <5> USE DEF kept, last
        <5> QED BY <4>2, <4>6, <5>1
      <4> QED BY <2>6, <3>2, <4>5, <4>7 DEF m
    <3> QED BY <3>3, <3>4
  <2> QED BY <2>4, <2>5, <2>6
<1> QED BY <1>10, <1>11
-----------------------------------------------------------------------------
(* The writer reaches the reader.                                          *)

LEMMA TextFirst ==
    ASSUME NEW b \in Buffer, NEW i \in 0..(Size - 1), NEW j \in (i + 1)..Size
    PROVE  /\ Text(b, i, j) = One(b[i]) \o Text(b, i + 1, j)
           /\ One(b[i]) \in Seq(Symbols) /\ Text(b, i + 1, j) \in Seq(Symbols)
           /\ Text(b, i, j) \in Seq(Symbols)
<1>1. i \in 0..Size /\ i + 1 \in i..Size /\ i + 1 \in 0..Size /\ j \in i..Size
  BY Sizes
<1>2. Text(b, i, i + 1) = One(b[i]) /\ b[i] \in Cell
  BY TextOfOne
<1>3. Text(b, i, j) = Text(b, i, i + 1) \o Text(b, i + 1, j)
  BY <1>1, TextSplits
<1>4. Text(b, i + 1, j) \in Seq(Symbols)
  BY <1>1, TextGrows
<1>5. Text(b, i, j) \in Seq(Symbols)
  BY <1>1, TextGrows
<1> QED BY <1>2, <1>3, <1>4, <1>5, Joins

\* Cells that are left alone, behind them one that is written, and nothing more.
LEMMA TextWritten ==
    ASSUME NEW b \in Buffer, NEW a \in Buffer, NEW i \in 0..(Size - 1), NEW t \in i..(Size - 1),
           \A k \in i..(t - 1) : a[k] = b[k]
    PROVE  /\ Text(a, i, t + 1) = Text(b, i, t) \o One(a[t])
           /\ Text(b, i, t) \in Seq(Symbols)
<1>1. i \in 0..Size /\ t \in i..Size
  BY Sizes
<1>2. Text(a, i, t) = Text(b, i, t)
  BY <1>1, TextSame
<1>3. Text(a, i, t + 1) = Text(a, i, t) \o One(a[t]) /\ Text(b, i, t) \in Seq(Symbols)
  BY <1>1, TextGrows
<1> QED BY <1>2, <1>3

\* The cell behind the ring adds nothing.
LEMMA TextToEnd ==
    ASSUME NEW b \in Buffer, b[Ring] = End, NEW i \in 0..Ring
    PROVE  Text(b, i, Size) = Text(b, i, Ring)
<1>1. /\ i \in 0..Size /\ Ring \in i..Size /\ Ring \in i..(Size - 1) /\ Ring + 1 = Size
  BY Sizes
<1>2. Text(b, i, Ring + 1) = Text(b, i, Ring) \o One(b[Ring]) /\ Text(b, i, Ring) \in Seq(Symbols)
  BY <1>1, TextGrows
<1>3. One(End) = <<>>
  BY DEF One
<1> QED BY <1>1, <1>2, <1>3, Joins

\* The text has been lost here, and what it was replaced by comes first.
Marked(l) ==
    /\ Adjacent(l)
    /\ l.buffer[l.head] = Hash
    /\ l.buffer[Turn(l.head)] = Hash

\* Three cells are given up, two of them are marked.
LEMMA OverrunCells ==
    ASSUME NEW l \in Log, Adjacent(l), NEW c \in Cell,
           l.tail = Ring - 1 => Ends(Stored(l, c)) = {}
    PROVE  LET m == Added(l, c)
               g == Turn(l.head)
           IN  /\ m \in Log /\ m.head = g /\ m.tail = l.head
               /\ Valid(m) /\ Marked(m)
               /\ \A k \in Cells :
                     m.buffer[k] = IF k \in {g, Turn(g)} THEN Hash
                                   ELSE IF k = l.head THEN End
                                   ELSE IF k = l.tail THEN c
                                   ELSE l.buffer[k]
<1> DEFINE s == Stored(l, c)
           m == Overrun(s)
           h == l.head
           t == l.tail
           g == Turn(h)
           f == Turn(g)
<1>1. /\ s \in Log /\ s.head = h /\ s.tail = Turn(t) /\ h = Turn(t) /\ t # Ring
      /\ \A k \in Cells : s.buffer[k] = IF k = Turn(t) THEN End
                                      ELSE IF k = At(t) THEN c ELSE l.buffer[k]
  BY StoredIs DEF Adjacent
<1>2. At(t) = t
  BY <1>1 DEF At
<1>3. Size \in Nat /\ Ring \in Nat /\ 5 < Size /\ Size = Ring + 1 /\ Cells = 0..Ring
      /\ t \in 0..(Ring - 1) /\ h \in 0..(Ring - 1)
  <2>1. Turn(t) \in 0..(Ring - 1)
    BY LogIs, TurnIs
  <2> QED BY <1>1, <2>1, Bounds
<1>4. Added(l, c) = m
  <2>1. CASE t = Ring - 1
    <3>1. Ends(s) = {} => Added(l, c) = Overrun(s)
      BY <2>1, WrapIs
    <3> QED BY <2>1, <3>1
  <2>2. CASE t # Ring - 1
    <3>1. s.tail # 0
      BY <1>1, <1>3, <2>2 DEF Turn
    <3> QED BY <3>1 DEF Added, Wrapped
  <2> QED BY <2>1, <2>2
<1>5. /\ m \in Log /\ m.head = g /\ m.tail = h
      /\ \A k \in Cells : m.buffer[k] = IF k \in {g, f} THEN Hash ELSE s.buffer[k]
  BY <1>1, OverrunIs
<1> HIDE DEF s, m
<1>6. h \in Cells /\ g \in Cells /\ f \in Cells
  <2>1. h \in Cells
    BY <1>3
  <2>2. g \in 0..(Ring - 1)
    BY <2>1, TurnIs
  <2>3. g \in Cells
    BY <1>3, <2>2
  <2>4. f \in 0..(Ring - 1)
    BY <2>3, TurnIs
  <2> QED BY <1>3, <2>1, <2>3, <2>4
<1>7. Marked(m)
  <2>1. m.tail # Ring
    BY <1>3, <1>5
  <2> QED BY <1>5, <1>6, <2>1 DEF Marked, Adjacent
<1>8. Valid(m)
  <2>1. m.tail # Ring /\ m.head \in {0, Ring, m.tail + 1}
    BY <1>3, <1>5 DEF Turn
  <2> QED BY <1>5, <2>1 DEF Valid
<1>9. ASSUME NEW k \in Cells
      PROVE  m.buffer[k] = IF k \in {g, f} THEN Hash
                           ELSE IF k = h THEN End
                           ELSE IF k = t THEN c
                           ELSE l.buffer[k]
  BY <1>1, <1>2, <1>5
<1> QED BY <1>4, <1>5, <1>7, <1>8, <1>9

\* What is behind the three of them, W, is kept.
LEMMA OverrunKeeps ==
    ASSUME NEW l \in Log, Adjacent(l), NEW c \in Cell,
           l.tail = Ring - 1 => Ends(Stored(l, c)) = {}
    PROVE  LET b == l.buffer
               h == l.head
               g == Turn(h)
               f == Turn(g)
           IN  \E W \in Seq(Symbols) :
                  /\ TextIn(l) = One(b[h]) \o (One(b[g]) \o (One(b[f]) \o W))
                  /\ TextIn(Added(l, c)) = One(Hash) \o (One(Hash) \o (W \o One(c)))
<1> DEFINE b == l.buffer
           h == l.head
           t == l.tail
           g == Turn(h)
           f == Turn(g)
           m == Added(l, c)
           a == m.buffer
           Goal == \E W \in Seq(Symbols) :
                      /\ TextIn(l) = One(b[h]) \o (One(b[g]) \o (One(b[f]) \o W))
                      /\ TextIn(m) = One(Hash) \o (One(Hash) \o (W \o One(c)))
<1>1. /\ m \in Log /\ m.head = g /\ m.tail = h
      /\ \A k \in Cells :
            a[k] = IF k \in {g, f} THEN Hash
                   ELSE IF k = h THEN End
                   ELSE IF k = t THEN c
                   ELSE b[k]
  BY OverrunCells
<1> HIDE DEF m
<1>2. /\ Size \in Nat /\ Ring \in Nat /\ 5 < Size /\ Size = Ring + 1 /\ Cells = 0..Ring
      /\ t \in 0..(Ring - 1) /\ h = Turn(t)
  BY Bounds DEF Adjacent
<1>3. a \in Buffer /\ b \in Buffer /\ a[Ring] = End /\ b[Ring] = End
  BY <1>1, LogIs
<1>4. /\ h <= t => TextIn(l) = Text(b, h, t)
      /\ ~(h <= t) => TextIn(l) = Text(b, h, Size) \o Text(b, 0, t)
      /\ g <= h => TextIn(m) = Text(a, g, h)
      /\ ~(g <= h) => TextIn(m) = Text(a, g, Size) \o Text(a, 0, h)
  BY <1>1, TextInIs
<1> HIDE DEF a, b, h, t
<1>5. One(c) \in Seq(Symbols) /\ One(Hash) \in Seq(Symbols)
  BY Joins, CellMembers
<1>6. ASSUME t = Ring - 1 PROVE Goal
  <2>1. h = 0 /\ g = 1 /\ f = 2
    BY <1>2, <1>6 DEF Turn
  <2> DEFINE W == Text(b, 3, Ring - 1)
  <2>2. TextIn(l) = One(b[0]) \o (One(b[1]) \o (One(b[2]) \o W)) /\ W \in Seq(Symbols)
    <3>1. /\ 0 \in 0..(Size - 1) /\ 1 \in 0..(Size - 1) /\ 2 \in 0..(Size - 1)
          /\ Ring - 1 \in (0 + 1)..Size /\ Ring - 1 \in (1 + 1)..Size /\ Ring - 1 \in (2 + 1)..Size
          /\ 0 + 1 = 1 /\ 1 + 1 = 2 /\ 2 + 1 = 3
      BY <1>2
    <3>2. Text(b, 0, Ring - 1) = One(b[0]) \o Text(b, 0 + 1, Ring - 1)
      BY <1>3, <3>1, TextFirst
    <3>3. Text(b, 1, Ring - 1) = One(b[1]) \o Text(b, 1 + 1, Ring - 1)
      BY <1>3, <3>1, TextFirst
    <3>4. Text(b, 2, Ring - 1) = One(b[2]) \o Text(b, 2 + 1, Ring - 1)
          /\ Text(b, 2 + 1, Ring - 1) \in Seq(Symbols)
      BY <1>3, <3>1, TextFirst
    <3>5. TextIn(l) = Text(b, 0, Ring - 1)
      BY <1>2, <1>4, <1>6, <2>1
    <3> QED BY <3>1, <3>2, <3>3, <3>4, <3>5
  <2>3. TextIn(m) = One(Hash) \o (One(Hash) \o (W \o One(c)))
    <3>1. /\ 1 \in 0..(Size - 1) /\ 2 \in 0..(Size - 1) /\ 0 \in 0..Size /\ 3 \in 0..Ring
          /\ Size \in (1 + 1)..Size /\ Size \in (2 + 1)..Size /\ 3 \in 0..(Size - 1)
          /\ Ring - 1 \in 3..(Size - 1) /\ (Ring - 1) + 1 = Ring
          /\ 1 + 1 = 2 /\ 2 + 1 = 3
          /\ 1 \in Cells /\ 2 \in Cells /\ Ring - 1 \in Cells /\ Ring - 1 \notin {0, 1, 2}
      BY <1>2
    <3>2. Text(a, 1, Size) = One(a[1]) \o Text(a, 1 + 1, Size) /\ Text(a, 1, Size) \in Seq(Symbols)
      BY <1>3, <3>1, TextFirst
    <3>3. Text(a, 2, Size) = One(a[2]) \o Text(a, 2 + 1, Size)
      BY <1>3, <3>1, TextFirst
    <3>4. a[1] = Hash /\ a[2] = Hash /\ a[Ring - 1] = c
      BY <1>1, <1>6, <2>1, <3>1 DEF a, b, h, t
    <3>5. Text(a, 3, Size) = Text(a, 3, Ring)
      BY <1>3, <3>1, TextToEnd
    <3>6. Text(a, 3, (Ring - 1) + 1) = W \o One(a[Ring - 1])
      <4>1. ASSUME NEW k \in 3..((Ring - 1) - 1) PROVE a[k] = b[k]
        <5>1. k \in Cells /\ k \notin {0, 1, 2} /\ k # Ring - 1
          BY <1>2
        <5> QED BY <1>1, <1>6, <2>1, <5>1 DEF a, b, h, t
      <4> QED BY <1>3, <3>1, <4>1, TextWritten
    <3>7. TextIn(m) = Text(a, 1, Size) \o Text(a, 0, 0)
      BY <1>4, <2>1
    <3>8. TextIn(m) = Text(a, 1, Size)
      <4>1. Text(a, 0, 0) = <<>>
        BY <3>1, TextsFollow
      <4>2. Text(a, 1, Size) \in Seq(Symbols)
        BY <3>2
      <4> QED BY <3>7, <4>1, <4>2, Joins
    <3> QED BY <3>1, <3>2, <3>3, <3>4, <3>5, <3>6, <3>8
  <2> HIDE DEF W
  <2> QED BY <2>1, <2>2, <2>3
<1>7. ASSUME t = Ring - 2 PROVE Goal
  <2>1. h = Ring - 1 /\ g = 0 /\ f = 1 /\ t \in Nat
    BY <1>2, <1>7 DEF Turn
  <2> DEFINE W == Text(b, 2, t)
  <2>2. TextIn(l) = One(b[h]) \o (One(b[0]) \o (One(b[1]) \o W)) /\ W \in Seq(Symbols)
    <3>1. /\ 0 \in 0..(Size - 1) /\ 1 \in 0..(Size - 1) /\ h \in 0..(Size - 1) /\ h \in 0..Ring
          /\ t \in (0 + 1)..Size /\ t \in (1 + 1)..Size /\ h + 1 = Ring
          /\ 0 + 1 = 1 /\ 1 + 1 = 2 /\ ~(h <= t)
      BY <1>2, <1>7, <2>1
    <3>2. Text(b, 0, t) = One(b[0]) \o Text(b, 0 + 1, t)
      BY <1>3, <3>1, TextFirst
    <3>3. Text(b, 1, t) = One(b[1]) \o Text(b, 1 + 1, t) /\ Text(b, 1 + 1, t) \in Seq(Symbols)
      BY <1>3, <3>1, TextFirst
    <3>4. Text(b, h, h + 1) = One(b[h])
      BY <1>3, <3>1, TextOfOne
    <3>5. Text(b, h, Size) = Text(b, h, Ring)
      BY <1>3, <3>1, TextToEnd
    <3> QED BY <1>4, <3>1, <3>2, <3>3, <3>4, <3>5
  <2>3. TextIn(m) = One(Hash) \o (One(Hash) \o (W \o One(c)))
    <3>1. /\ 0 \in 0..(Size - 1) /\ 1 \in 0..(Size - 1) /\ 2 \in 0..(Size - 1)
          /\ h \in (0 + 1)..Size /\ h \in (1 + 1)..Size
          /\ t \in 2..(Size - 1) /\ t + 1 = h
          /\ 0 + 1 = 1 /\ 1 + 1 = 2 /\ 0 <= h
          /\ 0 \in Cells /\ 1 \in Cells /\ t \in Cells /\ t \notin {0, 1, h}
      BY <1>2, <1>7, <2>1
    <3>2. Text(a, 0, h) = One(a[0]) \o Text(a, 0 + 1, h)
      BY <1>3, <3>1, TextFirst
    <3>3. Text(a, 1, h) = One(a[1]) \o Text(a, 1 + 1, h)
      BY <1>3, <3>1, TextFirst
    <3>4. a[0] = Hash /\ a[1] = Hash /\ a[t] = c
      BY <1>1, <2>1, <3>1 DEF a, b, h, t
    <3>5. Text(a, 2, t + 1) = W \o One(a[t])
      <4>1. ASSUME NEW k \in 2..(t - 1) PROVE a[k] = b[k]
        <5>1. k \in Cells /\ k \notin {0, 1} /\ k # t /\ k # h
          BY <1>2, <1>7, <2>1
        <5> QED BY <1>1, <2>1, <5>1 DEF a, b, h, t
      <4> QED BY <1>3, <3>1, <4>1, TextWritten
    <3> QED BY <1>4, <2>1, <3>1, <3>2, <3>3, <3>4, <3>5
  <2> HIDE DEF W
  <2> QED BY <2>1, <2>2, <2>3
<1>8. ASSUME t = Ring - 3 PROVE Goal
  <2>1. h = Ring - 2 /\ g = Ring - 1 /\ f = 0 /\ t \in Nat
    BY <1>2, <1>8 DEF Turn
  <2> DEFINE W == Text(b, 1, t)
  <2>2. TextIn(l) = One(b[h]) \o (One(b[Ring - 1]) \o (One(b[0]) \o W)) /\ W \in Seq(Symbols)
    <3>1. /\ 0 \in 0..(Size - 1) /\ h \in 0..(Size - 1) /\ h \in 0..Ring
          /\ Ring - 1 \in 0..(Size - 1) /\ (Ring - 1) + 1 = Ring
          /\ t \in (0 + 1)..Size /\ h + 1 = Ring - 1 /\ Ring \in (h + 1)..Size
          /\ 0 + 1 = 1 /\ ~(h <= t)
      BY <1>2, <1>8, <2>1
    <3>2. Text(b, 0, t) = One(b[0]) \o Text(b, 0 + 1, t) /\ Text(b, 0 + 1, t) \in Seq(Symbols)
          /\ Text(b, 0, t) \in Seq(Symbols)
      BY <1>3, <3>1, TextFirst
    <3>3. Text(b, h, Ring) = One(b[h]) \o Text(b, h + 1, Ring) /\ One(b[h]) \in Seq(Symbols)
          /\ Text(b, h + 1, Ring) \in Seq(Symbols)
      BY <1>3, <3>1, TextFirst
    <3>4. Text(b, Ring - 1, (Ring - 1) + 1) = One(b[Ring - 1])
      BY <1>3, <3>1, TextOfOne
    <3>5. Text(b, h, Size) = Text(b, h, Ring)
      BY <1>3, <3>1, TextToEnd
    <3>6. Text(b, 0, t) \in Seq(Symbols)
      BY <3>2
    <3>7. (One(b[h]) \o Text(b, h + 1, Ring)) \o Text(b, 0, t)
              = One(b[h]) \o (Text(b, h + 1, Ring) \o Text(b, 0, t))
      BY <3>3, <3>6, JoinsThree
    <3> QED BY <1>4, <3>1, <3>2, <3>3, <3>4, <3>5, <3>7
  <2>3. TextIn(m) = One(Hash) \o (One(Hash) \o (W \o One(c)))
    <3>1. /\ 0 \in 0..(Size - 1) /\ 1 \in 0..(Size - 1) /\ Ring - 1 \in 0..(Size - 1)
          /\ Ring - 1 \in 0..Ring /\ (Ring - 1) + 1 = Ring
          /\ h \in (0 + 1)..Size /\ t \in 1..(Size - 1) /\ t + 1 = h
          /\ 0 + 1 = 1 /\ ~(Ring - 1 <= h)
          /\ 0 \in Cells /\ Ring - 1 \in Cells /\ t \in Cells /\ t \notin {0, Ring - 1, h}
      BY <1>2, <1>8, <2>1
    <3>2. Text(a, 0, h) = One(a[0]) \o Text(a, 0 + 1, h)
      BY <1>3, <3>1, TextFirst
    <3>3. Text(a, Ring - 1, (Ring - 1) + 1) = One(a[Ring - 1])
      BY <1>3, <3>1, TextOfOne
    <3>4. a[0] = Hash /\ a[Ring - 1] = Hash /\ a[t] = c
      BY <1>1, <2>1, <3>1 DEF a, b, h, t
    <3>5. Text(a, 1, t + 1) = W \o One(a[t])
      <4>1. ASSUME NEW k \in 1..(t - 1) PROVE a[k] = b[k]
        <5>1. k \in Cells /\ k \notin {0, Ring - 1} /\ k # t /\ k # h
          BY <1>2, <1>8, <2>1
        <5> QED BY <1>1, <2>1, <5>1 DEF a, b, h, t
      <4> QED BY <1>3, <3>1, <4>1, TextWritten
    <3>6. Text(a, Ring - 1, Size) = Text(a, Ring - 1, Ring)
      BY <1>3, <3>1, TextToEnd
    <3> QED BY <1>4, <2>1, <3>1, <3>2, <3>3, <3>4, <3>5, <3>6
  <2> HIDE DEF W
  <2> QED BY <2>1, <2>2, <2>3
<1>9. ASSUME t < Ring - 3 PROVE Goal
  <2>1. h = t + 1 /\ g = t + 2 /\ f = t + 3 /\ t \in Nat
    BY <1>2, <1>9 DEF Turn
  <2> DEFINE V == Text(b, t + 4, Size)
             W == V \o Text(b, 0, t)
  <2>2. V \in Seq(Symbols) /\ Text(b, 0, t) \in Seq(Symbols) /\ W \in Seq(Symbols)
    <3>1. t + 4 \in 0..Size /\ Size \in (t + 4)..Size /\ 0 \in 0..Size /\ t \in 0..Size
      BY <1>2, <1>9
    <3>2. V \in Seq(Symbols) /\ Text(b, 0, t) \in Seq(Symbols)
      BY <1>3, <3>1, TextGrows
    <3> QED BY <3>2, Joins
  <2>3. \A d \in Buffer :
           /\ Text(d, t + 1, Size) = One(d[t + 1]) \o Text(d, t + 2, Size)
           /\ Text(d, t + 2, Size) = One(d[t + 2]) \o Text(d, t + 3, Size)
           /\ Text(d, t + 3, Size) = One(d[t + 3]) \o Text(d, t + 4, Size)
           /\ One(d[t + 1]) \in Seq(Symbols) /\ Text(d, t + 1, Size) \in Seq(Symbols)
           /\ One(d[t + 2]) \in Seq(Symbols) /\ Text(d, t + 2, Size) \in Seq(Symbols)
           /\ One(d[t + 3]) \in Seq(Symbols) /\ Text(d, t + 3, Size) \in Seq(Symbols)
           /\ Text(d, t + 4, Size) \in Seq(Symbols)
    <3> SUFFICES ASSUME NEW d \in Buffer
                 PROVE  /\ Text(d, t + 1, Size) = One(d[t + 1]) \o Text(d, t + 2, Size)
                        /\ Text(d, t + 2, Size) = One(d[t + 2]) \o Text(d, t + 3, Size)
                        /\ Text(d, t + 3, Size) = One(d[t + 3]) \o Text(d, t + 4, Size)
                        /\ One(d[t + 1]) \in Seq(Symbols) /\ Text(d, t + 1, Size) \in Seq(Symbols)
                        /\ One(d[t + 2]) \in Seq(Symbols) /\ Text(d, t + 2, Size) \in Seq(Symbols)
                        /\ One(d[t + 3]) \in Seq(Symbols) /\ Text(d, t + 3, Size) \in Seq(Symbols)
                        /\ Text(d, t + 4, Size) \in Seq(Symbols)
      OBVIOUS
    <3>1. /\ t + 1 \in 0..(Size - 1) /\ Size \in ((t + 1) + 1)..Size
          /\ t + 2 \in 0..(Size - 1) /\ Size \in ((t + 2) + 1)..Size
          /\ t + 3 \in 0..(Size - 1) /\ Size \in ((t + 3) + 1)..Size
          /\ (t + 1) + 1 = t + 2 /\ (t + 2) + 1 = t + 3 /\ (t + 3) + 1 = t + 4
      BY <1>2, <1>9
    <3>2. Text(d, t + 1, Size) = One(d[t + 1]) \o Text(d, (t + 1) + 1, Size)
          /\ One(d[t + 1]) \in Seq(Symbols) /\ Text(d, t + 1, Size) \in Seq(Symbols)
      BY <3>1, TextFirst
    <3>3. Text(d, t + 2, Size) = One(d[t + 2]) \o Text(d, (t + 2) + 1, Size)
          /\ One(d[t + 2]) \in Seq(Symbols) /\ Text(d, t + 2, Size) \in Seq(Symbols)
      BY <3>1, TextFirst
    <3>4. Text(d, t + 3, Size) = One(d[t + 3]) \o Text(d, (t + 3) + 1, Size)
          /\ One(d[t + 3]) \in Seq(Symbols) /\ Text(d, t + 3, Size) \in Seq(Symbols)
          /\ Text(d, (t + 3) + 1, Size) \in Seq(Symbols)
      BY <3>1, TextFirst
    <3> QED BY <3>1, <3>2, <3>3, <3>4
  <2>4. TextIn(l) = One(b[h]) \o (One(b[g]) \o (One(b[f]) \o W))
    <3>1. TextIn(l) = Text(b, t + 1, Size) \o Text(b, 0, t)
      <4>1. ~(h <= t)
        BY <2>1
      <4> QED BY <1>4, <2>1, <4>1
    <3> DEFINE x == One(b[t + 1])
               y == One(b[t + 2])
               z == One(b[t + 3])
               u == Text(b, 0, t)
               p == Text(b, t + 1, Size)
               q == Text(b, t + 2, Size)
               r == Text(b, t + 3, Size)
    <3>2. /\ x \in Seq(Symbols) /\ y \in Seq(Symbols) /\ z \in Seq(Symbols) /\ u \in Seq(Symbols)
          /\ q \in Seq(Symbols) /\ r \in Seq(Symbols) /\ V \in Seq(Symbols)
      BY <1>3, <2>2, <2>3
    <3>0. p = x \o q /\ q = y \o r /\ r = z \o V
      BY <1>3, <2>3
    <3> HIDE DEF x, y, z, u, p, q, r, V
    <3>3. (x \o q) \o u = x \o (q \o u)
      <4>1. x \in Seq(Symbols) /\ q \in Seq(Symbols) /\ u \in Seq(Symbols)
        BY <3>2
      <4> QED BY ONLY <4>1, JoinsThree
    <3>4. (y \o r) \o u = y \o (r \o u)
      <4>1. y \in Seq(Symbols) /\ r \in Seq(Symbols) /\ u \in Seq(Symbols)
        BY <3>2
      <4> QED BY ONLY <4>1, JoinsThree
    <3>5. (z \o V) \o u = z \o (V \o u)
      <4>1. z \in Seq(Symbols) /\ V \in Seq(Symbols) /\ u \in Seq(Symbols)
        BY <3>2
      <4> QED BY ONLY <4>1, JoinsThree
    <3>6. p \o u = x \o (y \o (z \o (V \o u)))
      BY ONLY <3>0, <3>3, <3>4, <3>5
    <3>7. TextIn(l) = p \o u
      BY <3>1 DEF p, u
    <3> QED BY <2>1, <3>6, <3>7 DEF x, y, z, u
  <2>5. TextIn(m) = One(Hash) \o (One(Hash) \o (W \o One(c)))
    <3>1. TextIn(m) = Text(a, t + 2, Size) \o Text(a, 0, t + 1)
      <4>1. ~(g <= h)
        BY <2>1
      <4> QED BY <1>4, <2>1, <4>1
    <3>2. a[t + 2] = Hash /\ a[t + 3] = Hash /\ a[t] = c
      <4>1. t + 2 \in Cells /\ t + 3 \in Cells /\ t \in Cells /\ t \notin {t + 1, t + 2, t + 3}
        BY <1>2, <1>9, <2>1
      <4> QED BY <1>1, <2>1, <4>1 DEF a, b, h, t
    <3>3. Text(a, 0, t + 1) = Text(b, 0, t) \o One(c)
      <4>1. 0 \in 0..(Size - 1) /\ t \in 0..(Size - 1)
        BY <1>2, <1>9
      <4>2. ASSUME NEW k \in 0..(t - 1) PROVE a[k] = b[k]
        <5>1. k \in Cells /\ k \notin {t, t + 1, t + 2, t + 3}
          BY <1>2, <1>9
        <5> QED BY <1>1, <2>1, <5>1 DEF a, b, h, t
      <4> QED BY <1>3, <3>2, <4>1, <4>2, TextWritten
    <3>4. Text(a, t + 4, Size) = V
      <4>1. t + 4 \in 0..Size /\ Size \in (t + 4)..Size
        BY <1>2, <1>9
      <4>2. ASSUME NEW k \in (t + 4)..(Size - 1) PROVE a[k] = b[k]
        <5>1. k \in Cells /\ k \notin {t, t + 1, t + 2, t + 3}
          BY <1>2, <1>9, <2>1
        <5> QED BY <1>1, <2>1, <5>1 DEF a, b, h, t
      <4> QED BY <1>3, <4>1, <4>2, TextSame
    <3> DEFINE x == One(Hash)
               u == Text(b, 0, t)
               v == One(c)
               r == u \o v
               p == Text(a, t + 2, Size)
               q == Text(a, t + 3, Size)
    <3>5. /\ x \in Seq(Symbols) /\ u \in Seq(Symbols) /\ v \in Seq(Symbols)
          /\ q \in Seq(Symbols) /\ V \in Seq(Symbols)
      BY <1>3, <1>5, <2>2, <2>3
    <3>0. p = x \o q /\ q = x \o V
      BY <1>3, <2>3, <3>2, <3>4
    <3> HIDE DEF x, u, v, p, q, V
    <3>6. r \in Seq(Symbols)
      BY <3>5, Joins
    <3>7. V \o r = (V \o u) \o v
      BY ONLY <3>5, JoinsThree
    <3> HIDE DEF r
    <3>8. (x \o q) \o r = x \o (q \o r)
      BY ONLY <3>5, <3>6, JoinsThree
    <3>9. (x \o V) \o r = x \o (V \o r)
      BY ONLY <3>5, <3>6, JoinsThree
    <3>10. TextIn(m) = p \o r
      BY <3>1, <3>3 DEF p, r, u, v
    <3> QED BY <3>0, <3>7, <3>8, <3>9, <3>10 DEF x, u, v
  <2> HIDE DEF W
  <2> QED BY <2>2, <2>4, <2>5
<1>10. Goal
  <2>1. t = Ring - 1 \/ t = Ring - 2 \/ t = Ring - 3 \/ t < Ring - 3
    BY <1>2
  <2> QED BY <1>6, <1>7, <1>8, <1>9, <2>1
<1> QED BY <1>10 DEF a, b, h, t, m
-----------------------------------------------------------------------------
(* One character more, in every state.                                     *)

\* only the beginning of the text is given up
Kept(l, c) ==
    \E A, B \in Seq(Symbols) :
       /\ TextIn(l) \o One(c) = A \o B
       /\ TextIn(Added(l, c)) = B

\* the first two cells at least, where the marks of an earlier loss are
Pushed(l, c) ==
    \E R, A, B \in Seq(Symbols) :
       /\ TextIn(l) = (One(l.buffer[l.head]) \o One(l.buffer[Turn(l.head)])) \o R
       /\ R \o One(c) = A \o B
       /\ \/ TextIn(Added(l, c)) = B
          \/ /\ TextIn(Added(l, c)) = (One(Hash) \o One(Hash)) \o B
             /\ Marked(Added(l, c))

\* a single cell, when an end of string is the last character of the ring
Pressed(l, c) ==
    /\ c = End /\ l.tail = Ring - 1
    /\ Added(l, c).tail = 0 /\ Added(l, c).head = 1
    /\ Added(l, c).buffer[1] = l.buffer[Turn(l.head)]
    /\ \E R \in Seq(Symbols) :
          /\ TextIn(l) = One(l.buffer[l.head]) \o R
          /\ TextIn(Added(l, c)) = R

\* The cells at the reader.
LEMMA FirstCells ==
    ASSUME NEW l \in Log
    PROVE  /\ Turn(l.head) \in Cells
           /\ One(l.buffer[l.head]) \in Seq(Symbols)
           /\ One(l.buffer[Turn(l.head)]) \in Seq(Symbols)
<1>1. Turn(l.head) \in Cells /\ l.head \in Cells
  BY LogIs, TurnIs, Sizes
<1>2. \A k \in Cells : l.buffer[k] \in Cell
  BY LogIs DEF Buffer
<1> QED BY <1>1, <1>2, Joins

LEMMA OverrunPushes ==
    ASSUME NEW l \in Log, Adjacent(l), NEW c \in Cell,
           l.tail = Ring - 1 => Ends(Stored(l, c)) = {}
    PROVE  Valid(Added(l, c)) /\ Pushed(l, c)
<1> DEFINE m == Added(l, c)
           p == One(l.buffer[l.head])
           q == One(l.buffer[Turn(l.head)])
           A == One(l.buffer[Turn(Turn(l.head))])
           H == One(Hash)
           u == One(c)
<1>1. PICK W \in Seq(Symbols) :
         /\ TextIn(l) = p \o (q \o (A \o W))
         /\ TextIn(m) = H \o (H \o (W \o u))
  BY OverrunKeeps
<1>2. Valid(m) /\ Marked(m)
  BY OverrunCells
<1>3. p \in Seq(Symbols) /\ q \in Seq(Symbols) /\ A \in Seq(Symbols)
  <2>1. Turn(Turn(l.head)) \in Cells
    BY FirstCells, TurnIs, Sizes
  <2>2. l.buffer[Turn(Turn(l.head))] \in Cell
    BY <2>1, LogIs DEF Buffer
  <2> QED BY <2>2, FirstCells, Joins
<1>4. H \in Seq(Symbols) /\ u \in Seq(Symbols)
  BY Joins, CellMembers
<1> HIDE DEF m, p, q, A, H, u
<1> DEFINE R == A \o W
           B == W \o u
<1>5. R \in Seq(Symbols) /\ B \in Seq(Symbols)
  BY <1>1, <1>3, <1>4, Joins
<1>6. R \o u = A \o B
  BY <1>1, <1>3, <1>4, JoinsThree
<1> HIDE DEF R, B
<1>7. (p \o q) \o R = p \o (q \o R)
  BY ONLY <1>3, <1>5, JoinsThree
<1>8. (H \o H) \o B = H \o (H \o B)
  BY ONLY <1>4, <1>5, JoinsThree
<1>9. TextIn(l) = (p \o q) \o R /\ TextIn(m) = (H \o H) \o B
  BY <1>1, <1>7, <1>8 DEF R, B
<1> QED BY <1>2, <1>3, <1>5, <1>6, <1>9 DEF Pushed, m, p, q, H, u

\* The line is moved to where the reader stands, and pushes it on.
LEMMA MovePushesOn ==
    ASSUME NEW l \in Log, l.head = 0, NEW c \in Cell, l.tail = Ring - 1, Ends(Stored(l, c)) # {}
    PROVE  Valid(Added(l, c)) /\ (Pushed(l, c) \/ Pressed(l, c))
<1> DEFINE m == Added(l, c)
           b == l.buffer
           length == Ring - Line(Stored(l, c))
<1>1. Stored(l, c) \in Log
  BY StoredType
<1>2. /\ Line(Stored(l, c)) \in Waste..Ring /\ length \in 0..(Waste - 2)
  BY <1>1, MovedIs
<1>3. l.head <= length
  BY <1>2, SizeAssumption
<1>4. /\ m \in Log /\ m.tail = length /\ m.head = length + 1
      /\ length \in Nat /\ length + 1 \in 1..(Ring - 1)
      /\ length = 0 => c = End
      /\ TextIn(l) = Text(b, 0, Ring - 1)
      /\ TextIn(m) = Text(b, length + 1, Ring - 1) \o One(c)
      /\ \A k \in (length + 1)..(Ring - 2) : k < Line(Stored(l, c)) => m.buffer[k] = b[k]
  BY <1>3, MovePushes
<1>5. /\ Size \in Nat /\ Ring \in Nat /\ Size = Ring + 1 /\ 5 < Size /\ Turn(0) = 1
      /\ b \in Buffer
  BY Bounds, LogIs DEF Turn
<1>6. Valid(m)
  <2>1. m.tail # Ring
    <3> HIDE DEF length
    <3> QED BY <1>4, <1>5
  <2> QED BY <1>4, <2>1 DEF Valid
<1>7. /\ Text(b, 0, Ring - 1) = One(b[0]) \o Text(b, 1, Ring - 1)
      /\ Text(b, 1, Ring - 1) = One(b[1]) \o Text(b, 2, Ring - 1)
      /\ One(b[0]) \in Seq(Symbols) /\ One(b[1]) \in Seq(Symbols)
      /\ Text(b, 1, Ring - 1) \in Seq(Symbols) /\ Text(b, 2, Ring - 1) \in Seq(Symbols)
  <2>1. /\ 0 \in 0..(Size - 1) /\ 1 \in 0..(Size - 1) /\ 0 + 1 = 1 /\ 1 + 1 = 2
        /\ Ring - 1 \in (0 + 1)..Size /\ Ring - 1 \in (1 + 1)..Size
    BY <1>5
  <2>2. /\ Text(b, 0, Ring - 1) = One(b[0]) \o Text(b, 0 + 1, Ring - 1)
        /\ One(b[0]) \in Seq(Symbols)
    BY <1>5, <2>1, TextFirst
  <2>3. /\ Text(b, 1, Ring - 1) = One(b[1]) \o Text(b, 1 + 1, Ring - 1)
        /\ One(b[1]) \in Seq(Symbols)
        /\ Text(b, 1, Ring - 1) \in Seq(Symbols) /\ Text(b, 1 + 1, Ring - 1) \in Seq(Symbols)
    BY <1>5, <2>1, TextFirst
  <2> QED BY <2>1, <2>2, <2>3
<1>8. One(c) \in Seq(Symbols)
  BY Joins
<1>9. CASE length = 0
  <2>1. c = End /\ m.tail = 0 /\ m.head = 1 /\ TextIn(m) = Text(b, 1, Ring - 1) \o One(c)
    BY <1>4, <1>9
  <2>2. TextIn(m) = Text(b, 1, Ring - 1)
    BY <1>7, <2>1, Joins DEF One
  <2>3. m.buffer[1] = b[1]
    <3>1. 1 \in (length + 1)..(Ring - 2) /\ 1 < Line(Stored(l, c))
      BY <1>2, <1>5, <1>9, SizeAssumption
    <3> QED BY <1>4, <3>1
  <2>4. Pressed(l, c)
    BY <1>4, <1>5, <1>7, <2>1, <2>2, <2>3 DEF Pressed
  <2> QED BY <1>6, <2>4
<1>10. CASE length # 0
  <2> HIDE DEF length, m
  <2> DEFINE R == Text(b, 2, Ring - 1)
             A == Text(b, 2, length + 1)
             V == Text(b, length + 1, Ring - 1)
             u == One(c)
             p == One(b[0])
             q == One(b[1])
  <2>1. R = A \o V /\ A \in Seq(Symbols) /\ V \in Seq(Symbols)
    <3>1. /\ 2 \in 0..Size /\ length + 1 \in 2..Size /\ Ring - 1 \in (length + 1)..Size
          /\ length + 1 \in 0..Size
      BY <1>4, <1>5, <1>10
    <3>2. Text(b, 2, Ring - 1) = Text(b, 2, length + 1) \o Text(b, length + 1, Ring - 1)
      <4>1. \A i \in 0..Size : \A x \in i..Size : \A y \in x..Size :
               Text(b, i, y) = Text(b, i, x) \o Text(b, x, y)
        BY <1>5, TextSplits
      <4> QED BY <3>1, <4>1
    <3>3. A \in Seq(Symbols) /\ V \in Seq(Symbols)
      BY <1>5, <3>1, TextGrows
    <3> QED BY <3>2, <3>3
  <2>2. p \in Seq(Symbols) /\ q \in Seq(Symbols) /\ R \in Seq(Symbols) /\ u \in Seq(Symbols)
    BY <1>7, <1>8
  <2>3. TextIn(l) = p \o (q \o R) /\ TextIn(m) = V \o u
    BY <1>4, <1>7 DEF m
  <2> HIDE DEF R, A, V, u, p, q
  <2>4. (A \o V) \o u = A \o (V \o u)
    BY ONLY <2>1, <2>2, JoinsThree
  <2>5. (p \o q) \o R = p \o (q \o R)
    BY ONLY <2>2, JoinsThree
  <2>6. V \o u \in Seq(Symbols)
    BY <2>1, <2>2, Joins
  <2>7. R \o u = A \o (V \o u) /\ TextIn(l) = (p \o q) \o R
    BY <2>1, <2>3, <2>4, <2>5
  <2>8. Pushed(l, c)
    BY <1>5, <2>1, <2>2, <2>3, <2>6, <2>7 DEF Pushed, p, q, u, m
  <2> QED BY <1>6, <2>8 DEF m
<1> QED BY <1>9, <1>10

LEMMA StepText ==
    ASSUME NEW l, Valid(l), NEW c \in Cell
    PROVE  /\ Valid(Added(l, c))
           /\ \/ ~Adjacent(l) /\ Kept(l, c)
              \/ Adjacent(l) /\ (Pushed(l, c) \/ Pressed(l, c))
<1>1. l \in Log
  BY DEF Valid
<1>2. /\ Size \in Nat /\ Ring \in Nat /\ Size = Ring + 1 /\ 5 < Size
  BY <1>1, Bounds
<1>3. CASE Adjacent(l) /\ (l.tail = Ring - 1 => Ends(Stored(l, c)) = {})
  BY <1>1, <1>3, OverrunPushes
<1>4. CASE Adjacent(l) /\ l.tail = Ring - 1 /\ Ends(Stored(l, c)) # {}
  <2>1. l.head = 0
    BY <1>2, <1>4 DEF Adjacent, Turn
  <2> QED BY <1>1, <1>4, <2>1, MovePushesOn
<1>5. CASE ~Adjacent(l) /\ l.tail = Ring - 1
  <2>1. l.head # 0
    BY <1>2, <1>5 DEF Adjacent, Turn
  <2> QED BY <1>5, <2>1, WrapText DEF Kept
<1>6. CASE ~Adjacent(l) /\ l.tail # Ring - 1
  <2>1. Valid(Added(l, c)) /\ TextIn(Added(l, c)) = TextIn(l) \o One(c)
    BY <1>6, PlainText
  <2>2. TextIn(Added(l, c)) \in Seq(Symbols)
    <3>1. Added(l, c) \in Log
      BY <2>1 DEF Valid
    <3> QED BY <3>1, TextInIs
  <2>3. TextIn(l) \o One(c) = <<>> \o TextIn(Added(l, c))
    BY <2>1, <2>2, Joins
  <2>4. Kept(l, c)
    BY <2>2, <2>3, Joins DEF Kept
  <2> QED BY <1>6, <2>1, <2>4
<1> QED BY <1>3, <1>4, <1>5, <1>6
-----------------------------------------------------------------------------
(* Several characters, one after the other.                                *)

\* Texts joined: of what they are made of nothing is needed below but these laws.
a ++ b == a \o b

LEMMA Laws ==
    /\ \A s, t \in Seq(Symbols) : s ++ t \in Seq(Symbols)
    /\ \A s \in Seq(Symbols) : s ++ <<>> = s /\ <<>> ++ s = s
    /\ \A s, t, u \in Seq(Symbols) : (s ++ t) ++ u = s ++ (t ++ u)
BY Joins DEF ++

\* Of the text V the beginning may have been given up, and then marked.
Shows(V, l) ==
    \E A, B \in Seq(Symbols) :
       /\ V = A ++ B
       /\ \/ TextIn(l) = B
          \/ TextIn(l) = (One(Hash) ++ One(Hash)) ++ B /\ Marked(l)

\* Half of the mark has been given up.
Torn(V, l) ==
    /\ l.tail = 0 /\ l.head = 1 /\ l.buffer[1] = Hash
    /\ \E A, B \in Seq(Symbols) :
          /\ V = A ++ B
          /\ TextIn(l) = One(Hash) ++ B

\* More is given up, and more is added.
LEMMA LongerAlone ==
    \A A, R, u, C, B \in Seq(Symbols) :
       R ++ u = C ++ B => (A ++ R) ++ u = (A ++ C) ++ B /\ A ++ C \in Seq(Symbols)
<1> SUFFICES ASSUME NEW A \in Seq(Symbols), NEW R \in Seq(Symbols), NEW u \in Seq(Symbols),
                    NEW C \in Seq(Symbols), NEW B \in Seq(Symbols), R ++ u = C ++ B
             PROVE  (A ++ R) ++ u = (A ++ C) ++ B /\ A ++ C \in Seq(Symbols)
  OBVIOUS
<1>1. (A ++ R) ++ u = A ++ (R ++ u)
  BY ONLY Laws
<1>2. (A ++ C) ++ B = A ++ (C ++ B)
  BY ONLY Laws
<1>3. A ++ C \in Seq(Symbols)
  BY ONLY Laws
<1> QED BY <1>1, <1>2, <1>3

LEMMA Longer ==
    \A A, P, R, u, C, B \in Seq(Symbols) :
       R ++ u = C ++ B => /\ (A ++ (P ++ R)) ++ u = ((A ++ P) ++ C) ++ B
                         /\ (A ++ P) ++ C \in Seq(Symbols)
<1> SUFFICES ASSUME NEW A \in Seq(Symbols), NEW P \in Seq(Symbols), NEW R \in Seq(Symbols),
                    NEW u \in Seq(Symbols), NEW C \in Seq(Symbols), NEW B \in Seq(Symbols),
                    R ++ u = C ++ B
             PROVE  /\ (A ++ (P ++ R)) ++ u = ((A ++ P) ++ C) ++ B
                    /\ (A ++ P) ++ C \in Seq(Symbols)
  OBVIOUS
<1>1. \A a, p, r \in Seq(Symbols) : a ++ (p ++ r) = (a ++ p) ++ r /\ a ++ p \in Seq(Symbols)
  BY Laws
<1>2. A ++ (P ++ R) = (A ++ P) ++ R /\ A ++ P \in Seq(Symbols)
  BY ONLY <1>1
<1> DEFINE Q == A ++ P
<1>3. Q \in Seq(Symbols) /\ A ++ (P ++ R) = Q ++ R
  BY <1>2
<1> HIDE DEF Q
<1>4. (Q ++ R) ++ u = (Q ++ C) ++ B /\ Q ++ C \in Seq(Symbols)
  BY <1>3, LongerAlone
<1> QED BY <1>3, <1>4 DEF Q

\* Text of which nothing is marked.
LEMMA ShowsPlain ==
    ASSUME NEW l, Valid(l), NEW c \in Cell, NEW A \in Seq(Symbols), NEW V,
           V = A ++ TextIn(l)
    PROVE  Shows(V ++ One(c), Added(l, c))
<1> DEFINE m == Added(l, c)
           T == TextIn(l)
           u == One(c)
<1>1. T \in Seq(Symbols) /\ u \in Seq(Symbols)
  BY TextInIs, Laws, Joins DEF Valid
<1>2. CASE Kept(l, c)
  <2>1. PICK C, B \in Seq(Symbols) : T ++ u = C ++ B /\ TextIn(m) = B
    BY <1>2 DEF Kept, ++
  <2> HIDE DEF T, u, m
  <2>2. (A ++ T) ++ u = (A ++ C) ++ B /\ A ++ C \in Seq(Symbols)
    BY <1>1, <2>1, LongerAlone
  <2>3. V ++ u = (A ++ C) ++ B
    BY <2>2 DEF T
  <2> QED BY <2>1, <2>2, <2>3 DEF Shows, u, m
<1>3. CASE Pushed(l, c)
  <2> DEFINE P == One(l.buffer[l.head]) ++ One(l.buffer[Turn(l.head)])
             H == One(Hash) ++ One(Hash)
  <2>1. PICK R, C, B \in Seq(Symbols) :
           /\ T = P ++ R /\ R ++ u = C ++ B
           /\ TextIn(m) = B \/ (TextIn(m) = H ++ B /\ Marked(m))
    BY <1>3 DEF Pushed, ++
  <2>2. P \in Seq(Symbols)
    BY FirstCells, Laws, Joins DEF Valid
  <2> HIDE DEF P, T, u, m, H
  <2>3. (A ++ (P ++ R)) ++ u = ((A ++ P) ++ C) ++ B /\ (A ++ P) ++ C \in Seq(Symbols)
    BY <1>1, <2>1, <2>2, Longer
  <2>4. V ++ u = ((A ++ P) ++ C) ++ B
    BY <2>1, <2>3 DEF T
  <2> QED BY <2>1, <2>3, <2>4 DEF Shows, u, m, H
<1>4. CASE Pressed(l, c)
  <2> DEFINE P == One(l.buffer[l.head])
  <2>1. PICK R \in Seq(Symbols) : T = P ++ R /\ TextIn(m) = R
    BY <1>4 DEF Pressed, ++
  <2>2. P \in Seq(Symbols)
    BY FirstCells DEF Valid
  <2>3. u = <<>>
    BY <1>4 DEF Pressed, One
  <2> HIDE DEF P, T, u, m
  <2>4. A ++ P \in Seq(Symbols) /\ A ++ (P ++ R) = (A ++ P) ++ R
    BY <2>1, <2>2, Laws
  <2>5. V \in Seq(Symbols) /\ V = A ++ (P ++ R)
    BY <1>1, <2>1, Laws DEF T
  <2>6. V ++ u = (A ++ P) ++ R
    BY <2>3, <2>4, <2>5, Laws
  <2> QED BY <2>1, <2>4, <2>6 DEF Shows, u, m
<1> QED BY <1>2, <1>3, <1>4, StepText

LEMMA Cancel ==
    \A s, t, v \in Seq(Symbols) : s ++ t = s ++ v => t = v
BY ConcatSimplifications DEF ++

\* Text of which something is marked: the marks go first.
LEMMA ShowsMarked ==
    ASSUME NEW l, Valid(l), Marked(l), NEW c \in Cell,
           NEW A \in Seq(Symbols), NEW B \in Seq(Symbols), NEW V,
           V = A ++ B, TextIn(l) = (One(Hash) ++ One(Hash)) ++ B
    PROVE  \/ Shows(V ++ One(c), Added(l, c))
           \/ c = End /\ Torn(V ++ One(c), Added(l, c))
<1> DEFINE m == Added(l, c)
           T == TextIn(l)
           u == One(c)
           h == One(Hash)
           H == h ++ h
<1>1. T \in Seq(Symbols) /\ u \in Seq(Symbols) /\ h \in Seq(Symbols) /\ H \in Seq(Symbols)
  BY TextInIs, Laws, Joins, CellMembers DEF Valid
<1>2. One(l.buffer[l.head]) = h /\ One(l.buffer[Turn(l.head)]) = h /\ Adjacent(l)
      /\ l.buffer[Turn(l.head)] = Hash
  BY DEF Marked
<1>3. CASE Pushed(l, c)
  <2>1. PICK R, C, D \in Seq(Symbols) :
           /\ T = H ++ R /\ R ++ u = C ++ D
           /\ TextIn(m) = D \/ (TextIn(m) = H ++ D /\ Marked(m))
    BY <1>2, <1>3 DEF Pushed, ++
  <2>2. T = H ++ B
    OBVIOUS
  <2> HIDE DEF H, T, u, m
  <2>3. R = B
    BY <1>1, <2>1, <2>2, Cancel
  <2>4. (A ++ B) ++ u = (A ++ C) ++ D /\ A ++ C \in Seq(Symbols)
    BY <1>1, <2>1, <2>3, LongerAlone
  <2> QED BY <2>1, <2>4 DEF Shows, u, m, H
<1>4. CASE Pressed(l, c)
  <2>1. /\ c = End /\ m.tail = 0 /\ m.head = 1 /\ m.buffer[1] = Hash
    BY <1>2, <1>4 DEF Pressed, ++
  <2>2. PICK R \in Seq(Symbols) : T = h ++ R /\ TextIn(m) = R
    BY <1>2, <1>4 DEF Pressed, ++
  <2>3. u = <<>>
    BY <2>1 DEF One
  <2>4. T = (h ++ h) ++ B
    OBVIOUS
  <2> HIDE DEF h, T, u, m
  <2>5. (h ++ h) ++ B = h ++ (h ++ B) /\ h ++ B \in Seq(Symbols)
    <3>1. h \in Seq(Symbols)
      BY <1>1
    <3>2. (h ++ h) ++ B = h ++ (h ++ B)
      BY ONLY <3>1, Laws
    <3>3. h ++ B \in Seq(Symbols)
      BY ONLY <3>1, Laws
    <3> QED BY <3>2, <3>3
  <2> DEFINE K == h ++ B
  <2>6. T = h ++ K /\ K \in Seq(Symbols)
    BY <2>4, <2>5
  <2> HIDE DEF K
  <2>7. R = K
    BY <1>1, <2>2, <2>6, Cancel
  <2>8. V ++ u = A ++ B
    <3>1. A ++ B \in Seq(Symbols)
      BY Laws
    <3> QED BY <2>3, <3>1, Laws
  <2> QED BY <2>1, <2>2, <2>7, <2>8 DEF Torn, u, m, h, K
<1> QED BY <1>2, <1>3, <1>4, StepText

\* Half a mark is given up before anything else.
LEMMA ShowsTorn ==
    ASSUME NEW l, Valid(l), NEW c \in Cell, NEW V, Torn(V, l)
    PROVE  Shows(V ++ One(c), Added(l, c))
<1> DEFINE m == Added(l, c)
           T == TextIn(l)
           u == One(c)
           h == One(Hash)
           H == h ++ h
           P == One(l.buffer[Turn(1)])
<1>1. u \in Seq(Symbols) /\ h \in Seq(Symbols) /\ P \in Seq(Symbols)
  BY FirstCells, Laws, Joins, CellMembers DEF Valid, Torn
<1>2. l.head = 1 /\ l.tail = 0 /\ One(l.buffer[l.head]) = h
  BY DEF Torn
<1>3. Adjacent(l) /\ l.tail # Ring - 1
  BY <1>2, Sizes DEF Adjacent, Turn
<1>4. Pushed(l, c)
  BY <1>3, StepText DEF Pressed
<1>5. PICK R, C, D \in Seq(Symbols) :
         /\ T = (h ++ P) ++ R /\ R ++ u = C ++ D
         /\ TextIn(m) = D \/ (TextIn(m) = H ++ D /\ Marked(m))
  BY <1>2, <1>4 DEF Pushed, ++
<1>6. PICK A, B \in Seq(Symbols) : V = A ++ B /\ T = h ++ B
  BY DEF Torn
<1> HIDE DEF m, T, u, h, P, H
<1>7. (h ++ P) ++ R = h ++ (P ++ R)
  BY ONLY <1>1, Laws
<1>8. P ++ R \in Seq(Symbols)
  BY <1>1, <1>5, Laws
<1>9. B = P ++ R
  <2> DEFINE K == P ++ R
  <2>1. T = h ++ K /\ K \in Seq(Symbols)
    BY <1>5, <1>7, <1>8
  <2> HIDE DEF K
  <2>2. B = K
    BY <1>1, <1>6, <2>1, Cancel
  <2> QED BY <2>2 DEF K
<1>10. (A ++ (P ++ R)) ++ u = ((A ++ P) ++ C) ++ D /\ (A ++ P) ++ C \in Seq(Symbols)
  BY <1>1, <1>5, <1>6, Longer
<1>11. V ++ u = ((A ++ P) ++ C) ++ D
  BY <1>6, <1>9, <1>10
<1> QED BY <1>5, <1>10, <1>11 DEF Shows, u, m, H, h

\* One of several characters.
LEMMA ShowsStep ==
    ASSUME NEW l, Valid(l), NEW c \in Cell, NEW V, Shows(V, l)
    PROVE  /\ Valid(Added(l, c))
           /\ \/ Shows(V ++ One(c), Added(l, c))
              \/ c = End /\ Torn(V ++ One(c), Added(l, c))
<1>1. PICK A, B \in Seq(Symbols) :
         /\ V = A ++ B
         /\ \/ TextIn(l) = B
            \/ TextIn(l) = (One(Hash) ++ One(Hash)) ++ B /\ Marked(l)
  BY DEF Shows
<1>2. CASE TextIn(l) = B
  BY <1>1, <1>2, ShowsPlain, StepText
<1>3. CASE TextIn(l) = (One(Hash) ++ One(Hash)) ++ B /\ Marked(l)
  BY <1>1, <1>3, ShowsMarked, StepText
<1> QED BY <1>1, <1>2, <1>3

-----------------------------------------------------------------------------
(* What loop() sends.                                                      *)

\* A string is the text of its cells.
LEMMA TextPlain ==
    ASSUME NEW b \in Buffer, NEW i \in Cells, NEW n \in Nat, i + n \in Cells,
           \A k \in i..(i + n - 1) : b[k] # End
    PROVE  Text(b, i, i + n) = [k \in 1..n |-> b[i + k - 1]]
<1>0. Size \in Nat /\ i \in Nat /\ i \in 0..Size /\ i + n < Size
  BY Sizes DEF Cells
<1> DEFINE String(m) == [k \in 1..m |-> b[i + k - 1]]
           Odd == {m \in 0..n : Text(b, i, i + m) # String(m)}
<1>1. Odd = {}
  <2> SUFFICES ASSUME Odd # {} PROVE FALSE
    OBVIOUS
  <2>1. Odd \in SUBSET Nat
    BY <1>0
  <2> DEFINE m == Min(Odd)
  <2>2. m \in Odd /\ \A x \in Odd : m <= x
    BY <2>1, MinIsLeast
  <2> HIDE DEF m
  <2>3. m # 0
    <3>1. Text(b, i, i) = <<>> /\ i + 0 = i
      BY <1>0, TextsFollow
    <3>2. String(0) = <<>>
      OBVIOUS
    <3> QED BY <2>2, <3>1, <3>2
  <2>4. /\ m \in Nat /\ m - 1 \in 0..n /\ m - 1 \notin Odd /\ m - 1 \in Nat
        /\ i + (m - 1) \in i..(i + n - 1) /\ i + (m - 1) \in Cells
        /\ i + m \in (i + 1)..Size /\ (i + m) - 1 = i + (m - 1)
    BY <1>0, <2>2, <2>3 DEF Cells
  <2>5. Text(b, i, i + (m - 1)) = String(m - 1)
    BY <2>4
  <2>6. b[i + (m - 1)] # End /\ b[i + (m - 1)] \in Cell
    BY <2>4 DEF Buffer
  <2>7. Text(b, i, i + m) = Append(Text(b, i, i + (m - 1)), b[i + (m - 1)])
    <3>1. \A k \in (i + 1)..Size :
             Text(b, i, k) = IF b[k - 1] = End THEN Text(b, i, k - 1)
                             ELSE Append(Text(b, i, k - 1), b[k - 1])
      BY <1>0, TextsFollow
    <3> QED BY <2>4, <2>6, <3>1
  <2>8. Append(String(m - 1), b[i + (m - 1)]) = String(m)
    <3> DEFINE p == m - 1
    <3>1. p \in Nat /\ m = p + 1
      BY <2>4
    <3> HIDE DEF p
    <3>2. \A k \in 1..p : b[i + k - 1] \in Cell
      <4>1. \A k \in 1..p : i + k - 1 \in Cells
        BY <1>0, <2>2, <3>1 DEF Cells
      <4> QED BY <4>1 DEF Buffer
    <3>3. String(p) \in Seq(Cell) /\ Len(String(p)) = p
      BY <3>1, <3>2
    <3>4. b[i + p] \in Cell /\ i + (m - 1) = i + p
      BY <2>6, <3>1
    <3> DEFINE s == String(p)
    <3>5. \A k \in 1..p : s[k] = b[i + k - 1]
      OBVIOUS
    <3>6. s \in Seq(Cell) /\ Len(s) = p
      BY <3>3
    <3> DEFINE r == Append(s, b[i + p])
               v == String(p + 1)
    <3>7. Len(v) = p + 1 /\ v \in Seq(Cell) /\ \A k \in 1..(p + 1) : v[k] = b[i + k - 1]
      <4>1. \A k \in 1..(p + 1) : b[i + k - 1] \in Cell
        <5>1. \A k \in 1..(p + 1) : k \in 1..p \/ (k = p + 1 /\ i + k - 1 = i + p)
          BY <1>0, <3>1
        <5> QED BY <3>2, <3>4, <5>1
      <4> QED BY <3>1, <4>1
    <3> HIDE DEF s
    <3>8. r \in Seq(Cell) /\ Len(r) = p + 1
          /\ \A k \in 1..(p + 1) : r[k] = IF k = p + 1 THEN b[i + p] ELSE s[k]
      BY <3>1, <3>4, <3>6
    <3> HIDE DEF r, v
    <3>9. ASSUME NEW k \in 1..(p + 1) PROVE r[k] = v[k]
      <4>1. CASE k = p + 1
        <5>1. i + k - 1 = i + p
          BY <1>0, <3>1, <4>1
        <5> QED BY <3>7, <3>8, <4>1, <5>1
      <4>2. CASE k # p + 1
        <5>1. k \in 1..p
          BY <3>1, <4>2
        <5> QED BY <3>5, <3>7, <3>8, <4>2, <5>1
      <4> QED BY <4>1, <4>2
    <3>10. r = v
      BY <3>7, <3>8, <3>9, SeqEqual
    <3> QED BY <3>1, <3>4, <3>10 DEF r, v, s, p
  <2> QED BY <2>2, <2>5, <2>7, <2>8
<1>2. n \in 0..n
  OBVIOUS
<1> QED BY <1>1, <1>2

LEMMA LengthFirst ==
    ASSUME log \in Log, NEW from \in Cells
    PROVE  \A k \in from..(from + Length(from) - 1) : log.buffer[k] # End
<1> DEFINE ends == {k \in from..(Size - 1) : log.buffer[k] = End}
           m == Min(ends)
<1>1. Length(from) \in Nat /\ from + Length(from) \in Cells
      /\ log.buffer[from + Length(from)] = End
  BY LengthBounded
<1>2. Length(from) = m - from
  BY DEF Length
<1>3. ends \in SUBSET Nat /\ ends # {}
  <2>1. from \in Nat /\ from + Length(from) \in from..(Size - 1)
    BY <1>1, Sizes DEF Cells
  <2>2. from..(Size - 1) \subseteq Nat
    BY <2>1
  <2> QED BY <1>1, <2>1, <2>2
<1>4. m \in ends /\ \A k \in ends : m <= k
  BY <1>3, MinIsLeast
<1>5. m \in Nat /\ from \in Nat /\ m <= Size - 1 /\ Size \in Nat
  BY <1>3, <1>4, Sizes DEF Cells
<1> HIDE DEF m
<1>6. from + Length(from) = m
  BY <1>2, <1>5
<1>7. ASSUME NEW k \in from..(m - 1) PROVE log.buffer[k] # End
  <2>1. k \in from..(Size - 1) /\ ~(m <= k)
    BY <1>5
  <2> QED BY <1>4, <2>1
<1>8. from..(from + Length(from) - 1) = from..(m - 1)
  BY <1>1, <1>5, <1>6
<1> QED BY <1>7, <1>8

\* The reader takes a string off the text, and stands behind it.
LEMMA LoopText ==
    ASSUME Valid(log), log.head # log.tail
    PROVE  LET next == (log.head + Length(log.head) + 1) % Size
               l == [log EXCEPT !.head = next,
                                !.tail = IF next = log.tail + 1 THEN next ELSE log.tail]
           IN  /\ Valid(l)
               /\ TailEnded => /\ StringAt(log.head) \in Seq(Symbols)
                               /\ TextIn(log) = StringAt(log.head) \o TextIn(l)
<1> DEFINE b == log.buffer
           h == log.head
           t == log.tail
           e == h + Length(h)
           next == (h + Length(h) + 1) % Size
           l == [log EXCEPT !.head = next, !.tail = IF next = t + 1 THEN next ELSE t]
           S == StringAt(h)
<1>1. /\ log \in Log /\ b \in Buffer /\ b[Ring] = End
  BY LogIs DEF Valid
<1>2. /\ Size \in Nat /\ Ring \in Nat /\ Size = Ring + 1 /\ 5 < Size
      /\ h \in 0..Ring /\ t \in 0..Ring /\ Cells = 0..Ring /\ h # t
      /\ t # Ring
  <2>1. t = Ring => h = Ring
    BY DEF Valid
  <2> QED BY <1>1, <2>1, Bounds
<1>3. Length(h) \in Nat /\ e \in h..Ring /\ b[e] = End
  <2>1. Length(h) \in Nat /\ h + Length(h) \in Cells /\ log.buffer[h + Length(h)] = End
    BY <1>1, <1>2, LengthBounded
  <2> QED BY <1>2, <2>1
<1>4. S = Text(b, h, e)
  <2>1. S = [k \in 1..Length(h) |-> b[h + k - 1]]
    BY DEF StringAt
  <2>2. \A k \in h..(h + Length(h) - 1) : b[k] # End
    BY <1>1, <1>2, LengthFirst
  <2>3. h \in Cells /\ h + Length(h) \in Cells
    BY <1>2, <1>3
  <2> QED BY <1>1, <1>3, <2>1, <2>2, <2>3, TextPlain
<1>5. next = IF e = Ring THEN 0 ELSE e + 1
  <2>1. \A k \in Nat : \A j \in 0..(k - 1) : j % k = j
    OBVIOUS
  <2>2. \A k \in Nat : k > 0 => k % k = 0
    OBVIOUS
  <2>3. next = (e + 1) % Size
    OBVIOUS
  <2> HIDE DEF next, e
  <2>4. CASE e = Ring
    <3>1. e + 1 = Size /\ Size > 0
      BY <1>2, <2>4
    <3> QED BY <1>2, <2>2, <2>3, <2>4, <3>1
  <2>5. CASE e # Ring
    <3>1. e + 1 \in 0..(Size - 1)
      BY <1>2, <1>3, <2>5
    <3> QED BY <1>2, <2>1, <2>3, <2>5, <3>1
  <2> QED BY <2>4, <2>5
<1> HIDE DEF next, e, S
<1>6. l = [buffer |-> b, head |-> next, tail |-> IF next = t + 1 THEN next ELSE t]
  <2> DEFINE new == IF next = t + 1 THEN next ELSE t
  <2>1. l = [log EXCEPT !.head = next, !.tail = new]
    OBVIOUS
  <2> HIDE DEF l, new
  <2>2. l = [buffer |-> b, head |-> next, tail |-> new]
    BY <1>1, <2>1 DEF Log
  <2> QED BY <2>2 DEF new
<1> HIDE DEF l
<1>7. next \in Cells /\ (IF next = t + 1 THEN next ELSE t) \in Cells
  BY <1>2, <1>3, <1>5
<1>8. l \in Log
  <2>1. log.buffer \in Buffers
    BY <1>1 DEF Log
  <2> QED BY <1>6, <1>7, <2>1 DEF Log
<1>9. l.buffer = b /\ l.head = next /\ l.tail = IF next = t + 1 THEN next ELSE t
  BY <1>6
<1>10. Valid(l)
  <2>1. l.tail = Ring => l.head = Ring
    BY <1>2, <1>9
  <2>2. l.head = 0 \/ l.buffer[l.head - 1] = End
    <3>1. CASE e = Ring
      BY <1>5, <1>9, <3>1
    <3>2. CASE e # Ring
      <4>1. next - 1 = e
        BY <1>2, <1>3, <1>5, <3>2
      <4> QED BY <1>3, <1>9, <4>1
    <3> QED BY <3>1, <3>2
  <2> QED BY <1>8, <2>1, <2>2 DEF Valid
<1>11. S \in Seq(Symbols) /\ TextIn(l) \in Seq(Symbols)
  <2>1. h \in 0..Size /\ e \in h..Size
    BY <1>2, <1>3
  <2> QED BY <1>1, <1>4, <1>8, <2>1, TextGrows, TextInIs
<1> SUFFICES ASSUME TailEnded PROVE TextIn(log) = S \o TextIn(l)
  BY <1>10, <1>11 DEF S, l, next
\* behind the string
<1>12. ASSUME NEW j \in (e + 1)..Size
       PROVE  Text(b, h, j) = S \o Text(b, e + 1, j) /\ Text(b, e + 1, j) \in Seq(Symbols)
  <2> DEFINE f == e + 1
  <2>1. h \in 0..Size /\ e \in h..Size /\ j \in e..Size /\ e \in 0..(Size - 1)
        /\ f \in 0..Size /\ e \in 0..Size /\ j \in f..Size
    BY <1>2, <1>3
  <2>2. Text(b, h, j) = Text(b, h, e) \o Text(b, e, j)
    BY <1>1, <2>1, TextSplits
  <2>3. Text(b, e, j) = One(b[e]) \o Text(b, e + 1, j) /\ Text(b, e + 1, j) \in Seq(Symbols)
    BY <1>1, <2>1, TextFirst
  <2>4. One(b[e]) = <<>>
    BY <1>3 DEF One
  <2>5. Text(b, e, j) = Text(b, e + 1, j)
    BY <2>3, <2>4, Joins
  <2> QED BY <1>4, <2>2, <2>3, <2>5
<1>13. CASE h < t
  <2>1. TextIn(log) = Text(b, h, t)
    BY <1>1, <1>2, <1>13, TextInIs
  <2>2. e <= t
    <3> SUFFICES ASSUME ~(e <= t) PROVE FALSE
      OBVIOUS
    <3>1. t \in Cells /\ At(t) = t /\ t % Ring = At(t)
      BY <1>2, TurnIs DEF At
    <3>2. b[t] = End
      BY <3>1 DEF TailEnded
    <3>3. t \in h..(h + Length(h) - 1)
      BY <1>2, <1>3, <1>13 DEF e
    <3>4. \A k \in h..(h + Length(h) - 1) : b[k] # End
      BY <1>1, <1>2, LengthFirst
    <3> QED BY <3>2, <3>3, <3>4
  <2>3. e # Ring /\ next = e + 1
    BY <1>2, <1>3, <1>5, <2>2
  <2>4. CASE e = t
    <3>1. TextIn(l) = <<>>
      <4>1. l.head <= l.tail /\ l.head = l.tail /\ l.head \in 0..Size
        BY <1>2, <1>7, <1>9, <2>3, <2>4
      <4>2. TextIn(l) = Text(b, l.head, l.head)
        BY <1>8, <1>9, <4>1, TextInIs
      <4> QED BY <4>1, <4>2, TextsFollow
    <3>2. TextIn(log) = S
      BY <1>4, <2>1, <2>4
    <3> QED BY <1>11, <3>1, <3>2, Joins
  <2>5. CASE e # t
    <3>1. t \in (e + 1)..Size /\ next # t + 1 /\ next <= t
      BY <1>2, <1>3, <2>2, <2>3, <2>5
    <3>2. TextIn(l) = Text(b, e + 1, t)
      BY <1>8, <1>9, <2>3, <3>1, TextInIs
    <3>3. TextIn(log) = S \o TextIn(l)
      BY <1>12, <2>1, <3>1, <3>2
    <3> QED BY <3>3
  <2> QED BY <2>4, <2>5
<1>14. CASE t < h
  <2> DEFINE Z == Text(b, 0, t)
  <2>1. TextIn(log) = Text(b, h, Size) \o Z
    <3>1. ~(h <= t)
      BY <1>2, <1>14
    <3> QED BY <1>1, <3>1, TextInIs
  <2>2. Z \in Seq(Symbols)
    <3>1. 0 \in 0..Size /\ t \in 0..Size
      BY <1>2
    <3> QED BY <1>1, <3>1, TextGrows
  <2>3. Size \in (e + 1)..Size /\ next # t + 1
    BY <1>2, <1>3, <1>5, <1>14
  <2> DEFINE Y == Text(b, e + 1, Size)
  <2>4. Text(b, h, Size) = S \o Y /\ Y \in Seq(Symbols)
    BY <1>12, <2>3
  <2>5. TextIn(l) = Y \o Z
    <3>1. CASE e = Ring
      <4>1. l.head = 0 /\ l.tail = t /\ 0 <= t
        BY <1>2, <1>5, <1>9, <2>3, <3>1
      <4>2. TextIn(l) = Z
        BY <1>8, <1>9, <4>1, TextInIs
      <4>3. Y = <<>>
        <5>1. e + 1 = Size /\ Size \in 0..Size
          BY <1>2, <3>1
        <5> QED BY <5>1, TextsFollow
      <4> QED BY <2>2, <4>2, <4>3, Joins
    <3>2. CASE e # Ring
      <4>1. l.head = e + 1 /\ l.tail = t /\ ~(e + 1 <= t)
        BY <1>2, <1>3, <1>5, <1>9, <1>14, <2>3, <3>2
      <4> QED BY <1>8, <1>9, <4>1, TextInIs
    <3> QED BY <3>1, <3>2
  <2> HIDE DEF Y, Z
  <2>6. (S \o Y) \o Z = S \o (Y \o Z)
    BY ONLY <1>11, <2>2, <2>4, JoinsThree
  <2> QED BY <2>1, <2>4, <2>5, <2>6
<1> QED BY <1>2, <1>13, <1>14

-----------------------------------------------------------------------------
(* The ring is a queue.                                                    *)

LEMMA Parts ==
    ASSUME NEW S, NEW s \in Seq(S), NEW t \in Seq(S)
    PROVE  /\ SubSeq(s \o t, 1, Len(s)) = s
           /\ SubSeq(s \o t, Len(s) + 1, Len(s \o t)) = t
           /\ Len(s \o t) = Len(s) + Len(t)
<1> DEFINE w == s \o t
           n == Len(s)
           m == Len(t)
<1>1. /\ w \in Seq(S) /\ Len(w) = n + m /\ n \in Nat /\ m \in Nat
      /\ \A i \in 1..(n + m) : w[i] = IF i <= n THEN s[i] ELSE t[i - n]
  BY ConcatProperties
<1>2. \A i \in 1..(n + m) : w[i] \in S
  BY <1>1
<1> HIDE DEF w, n, m
<1>3. SubSeq(w, 1, n) = s
  <2> DEFINE r == SubSeq(w, 1, n)
  <2>1. \A i \in 1..n : w[i] \in S
    BY <1>1, <1>2
  <2>2. r \in Seq(S) /\ Len(r) = n /\ \A i \in 1..n : r[i] = w[i]
    <3>1. /\ r \in Seq(S)
          /\ Len(r) = IF 1 <= n THEN n - 1 + 1 ELSE 0
          /\ \A i \in 1..(n - 1 + 1) : r[i] = w[1 + i - 1]
      BY <1>1, <2>1, SubSeqProperties
    <3>2. n - 1 + 1 = n /\ \A i \in 1..n : 1 + i - 1 = i
      BY <1>1
    <3> HIDE DEF r
    <3> QED BY <1>1, <3>1, <3>2
  <2> HIDE DEF r
  <2>3. \A i \in 1..Len(r) : r[i] = s[i]
    BY <1>1, <2>2
  <2>4. r = s
    BY <2>2, <2>3, SeqEqual DEF n
  <2> QED BY <2>4 DEF r
<1>4. SubSeq(w, n + 1, n + m) = t
  <2> DEFINE r == SubSeq(w, n + 1, n + m)
  <2>1. \A i \in (n + 1)..(n + m) : w[i] \in S
    BY <1>1, <1>2
  <2>2. r \in Seq(S) /\ Len(r) = m /\ \A i \in 1..m : r[i] = t[i]
    <3>1. /\ r \in Seq(S)
          /\ Len(r) = IF n + 1 <= n + m THEN (n + m) - (n + 1) + 1 ELSE 0
          /\ \A i \in 1..((n + m) - (n + 1) + 1) : r[i] = w[(n + 1) + i - 1]
      BY <1>1, <2>1, SubSeqProperties
    <3>2. /\ (n + m) - (n + 1) + 1 = m
          /\ \A i \in 1..m : /\ (n + 1) + i - 1 = n + i /\ n + i \in 1..(n + m)
                             /\ ~(n + i <= n) /\ (n + i) - n = i
      BY <1>1
    <3>3. \A i \in 1..m : w[n + i] = t[i]
      <4> TAKE i \in 1..m
      <4> DEFINE j == n + i
      <4>1. j \in 1..(n + m) /\ ~(j <= n) /\ j - n = i
        BY <3>2
      <4> HIDE DEF j
      <4>2. w[j] = t[i]
        BY <1>1, <4>1
      <4> QED BY <4>2 DEF j
    <3> HIDE DEF r
    <3>4. \A i \in 1..m : r[i] = t[i]
      BY <3>1, <3>2, <3>3
    <3>5. Len(r) = m
      BY <1>1, <3>1, <3>2
    <3> QED BY <3>1, <3>4, <3>5
  <2> HIDE DEF r
  <2>3. r = t
    BY <2>2, SeqEqual DEF m
  <2> QED BY <2>3 DEF r
<1> QED BY <1>1, <1>3, <1>4 DEF w, n, m

\* Two characters.
LEMMA Pair ==
    ASSUME NEW S, NEW x \in S, NEW y \in S
    PROVE  <<x>> \o <<y>> = <<x, y>>
<1> DEFINE r == <<x>> \o <<y>>
<1>0. /\ <<x>> \in Seq(S) /\ <<y>> \in Seq(S) /\ Len(<<x>>) = 1 /\ Len(<<y>>) = 1
      /\ <<x>>[1] = x /\ <<y>>[1] = y
  OBVIOUS
<1>1. r \in Seq(S) /\ Len(r) = 2 /\ r[1] = x /\ r[2] = y
  <2> DEFINE s == <<x>>
             t == <<y>>
  <2>1. s \in Seq(S) /\ t \in Seq(S) /\ Len(s) = 1 /\ Len(t) = 1 /\ s[1] = x /\ t[1] = y
    BY <1>0
  <2> HIDE DEF s, t
  <2>2. /\ s \o t \in Seq(S) /\ Len(s \o t) = Len(s) + Len(t)
        /\ \A i \in 1..(Len(s) + Len(t)) :
              (s \o t)[i] = IF i <= Len(s) THEN s[i] ELSE t[i - Len(s)]
    BY <2>1, ConcatProperties
  <2>3. /\ 1 \in 1..(Len(s) + Len(t)) /\ 2 \in 1..(Len(s) + Len(t))
        /\ 1 <= Len(s) /\ ~(2 <= Len(s)) /\ 2 - Len(s) = 1 /\ Len(s) + Len(t) = 2
    BY <2>1
  <2>4. (s \o t)[1] = x /\ (s \o t)[2] = y
    BY <2>1, <2>2, <2>3
  <2> QED BY <2>2, <2>3, <2>4 DEF s, t
<1> HIDE DEF r
<1>2. r = <<x, y>>
  <2> DEFINE q == <<x, y>>
  <2>1. q \in Seq(S) /\ Len(q) = 2 /\ q[1] = x /\ q[2] = y
    OBVIOUS
  <2> HIDE DEF q
  <2>2. \A i \in 1..Len(r) : r[i] = q[i]
    <3>1. \A i \in 1..2 : i = 1 \/ i = 2
      OBVIOUS
    <3> QED BY <1>1, <2>1, <3>1
  <2>3. r = q
    BY <1>1, <2>1, <2>2, SeqEqual
  <2> QED BY <2>3 DEF q
<1> QED BY <1>2 DEF r

LEMMA UnreadIs == Unread = TextIn(log) /\ Unread' = TextIn(log')
BY DEF Unread, TextIn

LEMMA InitQueue == Init => Texts!Init /\ Valid(log)
<1> SUFFICES ASSUME Init PROVE Texts!Init /\ Valid(log)
  OBVIOUS
<1>1. log \in Log /\ log.head = 0 /\ log.tail = 0
  BY InitType DEF Init, TypeOK
<1>2. TextIn(log) = <<>>
  <2>1. 0 \in 0..Size /\ log.head <= log.tail
    BY <1>1, Sizes
  <2>2. TextIn(log) = Text(log.buffer, 0, 0)
    BY <1>1, <2>1, TextInIs
  <2> QED BY <2>1, <2>2, TextsFollow
<1>3. Valid(log)
  BY <1>1, Sizes DEF Valid
<1> QED BY <1>2, <1>3, UnreadIs DEF Texts!Init, Init

\* What is shown of the text is a step of the queue.
LEMMA ShownIsLogged ==
    ASSUME log \in Log, sent' = sent,
           NEW text \in {<<>>} \cup {<<c>> : c \in Char} \cup {<<c>> \o <<Dollar, Dollar>> : c \in Char},
           text \in Seq(Symbols), Shows(Unread ++ text, log')
    PROVE  Texts!Log
<1>1. PICK A, B \in Seq(Symbols) :
         /\ Unread ++ text = A ++ B
         /\ \/ TextIn(log') = B
            \/ TextIn(log') = (One(Hash) ++ One(Hash)) ++ B
  BY DEF Shows
<1> DEFINE k == Len(A) + 1
           V == Unread \o text
<1>2. /\ Unread \o text = A \o B
      /\ \/ Unread' = <<>> \o B
         \/ Unread' = <<Hash, Hash>> \o B
  <2>1. <<>> \o B = B
    BY Joins
  <2>2. One(Hash) \o One(Hash) = <<Hash, Hash>>
    <3>1. Hash \in Cell /\ One(Hash) = <<Hash>>
      BY CellMembers, CharAssumption DEF One
    <3> QED BY <3>1, Pair
  <2> QED BY <1>1, <2>1, <2>2, UnreadIs DEF ++
<1>3. Unread \in Seq(Symbols)
  BY TextInIs, UnreadIs
<1>4. /\ SubSeq(A \o B, k, Len(A \o B)) = B
      /\ Len(A \o B) = Len(A) + Len(B)
      /\ Len(V) = Len(Unread) + Len(text)
  BY <1>3, Parts
<1>5. k \in 1..(Len(Unread) + Len(text) + 1) /\ Texts!SuffixFrom(V, k) = B
  <2>1. Len(A) \in Nat /\ Len(B) \in Nat /\ Len(Unread) \in Nat /\ Len(text) \in Nat
    BY <1>3
  <2>2. Len(Unread) + Len(text) = Len(A) + Len(B)
    BY <1>2, <1>4
  <2>3. k \in 1..(Len(Unread) + Len(text) + 1)
    BY <2>1, <2>2
  <2>4. Texts!SuffixFrom(V, k) = B
    BY <1>2, <1>4 DEF Texts!SuffixFrom
  <2> QED BY <2>3, <2>4
<1> HIDE DEF k, V
<1>6. \E mark \in {<<>>, <<Hash, Hash>>} : Unread' = mark \o Texts!SuffixFrom(V, k)
  BY <1>2, <1>5
<1> QED BY <1>5, <1>6 DEF Texts!Log, V

LEMMA AddQueue ==
    ASSUME Valid(log), NEW c \in Char \cup {End}, AddChar(c)
    PROVE  Valid(log') /\ Texts!Log
<1> DEFINE T == Unread
           l1 == Added(log, c)
           l2 == Added(l1, End)
           l3 == Added(l2, Dollar)
           l4 == Added(l3, Dollar)
           u == One(c)
           e == One(End)
           d == One(Dollar)
<1>1. log \in Log /\ T \in Seq(Symbols) /\ T = TextIn(log) /\ sent' = sent
  BY TextInIs, UnreadIs DEF Valid, AddChar
<1>2. /\ c \in Cell /\ End \in Cell /\ Dollar \in Cell /\ Dollar # End
      /\ u \in Seq(Symbols) /\ e = <<>> /\ d = <<Dollar>> /\ d \in Seq(Symbols)
  <2>1. c \in Cell /\ End \in Cell /\ Dollar \in Cell /\ Dollar # End
    BY CellMembers, CharAssumption
  <2> QED BY <2>1, Joins DEF One
<1>3. Valid(l1) /\ Shows(T ++ u, l1)
  <2>1. T = <<>> ++ TextIn(log) /\ <<>> \in Seq(Symbols)
    BY <1>1, Laws, Joins
  <2> QED BY <1>2, <2>1, ShowsPlain, StepText
<1>4. CASE ~(c # End /\ count = MaxMsg)
  <2>1. log' = l1
    BY <1>4 DEF AddChar
  <2>2. u \in {<<>>} \cup {<<x>> : x \in Char} \cup {<<x>> \o <<Dollar, Dollar>> : x \in Char}
    BY DEF One
  <2> HIDE DEF l1, u
  <2> QED BY <1>1, <1>2, <1>3, <2>1, <2>2, ShownIsLogged
<1>5. CASE c # End /\ count = MaxMsg
  <2>1. log' = l4
    BY <1>5 DEF AddChar
  <2> HIDE DEF l1, l2, l3, l4, T, u, e, d
  <2>2. /\ Valid(l2)
        /\ Shows((T ++ u) ++ e, l2) \/ Torn((T ++ u) ++ e, l2)
    BY <1>2, <1>3, ShowsStep DEF l2, e
  <2>3. Valid(l3) /\ Shows(((T ++ u) ++ e) ++ d, l3)
    <3>1. CASE Shows((T ++ u) ++ e, l2)
      BY <1>2, <2>2, <3>1, ShowsStep DEF l3, d
    <3>2. CASE Torn((T ++ u) ++ e, l2)
      BY <1>2, <2>2, <3>2, ShowsTorn, StepText DEF l3, d
    <3> QED BY <2>2, <3>1, <3>2
  <2>4. Valid(l4) /\ Shows((((T ++ u) ++ e) ++ d) ++ d, l4)
    BY <1>2, <2>3, ShowsStep DEF l4, d
  <2> DEFINE text == u ++ (d ++ d)
  <2>5. (((T ++ u) ++ e) ++ d) ++ d = T ++ text /\ text \in Seq(Symbols)
    <3>1. T ++ u \in Seq(Symbols) /\ d ++ d \in Seq(Symbols)
      BY <1>1, <1>2, Laws
    <3>2. (T ++ u) ++ e = T ++ u
      BY <1>2, <3>1, Laws
    <3>3. ((T ++ u) ++ d) ++ d = (T ++ u) ++ (d ++ d)
      BY <1>2, <3>1, Laws
    <3>4. (T ++ u) ++ (d ++ d) = T ++ (u ++ (d ++ d))
      BY <1>1, <1>2, <3>1, Laws
    <3>5. u ++ (d ++ d) \in Seq(Symbols)
      BY <1>2, <3>1, Laws
    <3> QED BY <3>2, <3>3, <3>4, <3>5
  <2>6. text \in {<<x>> \o <<Dollar, Dollar>> : x \in Char}
    <3>1. c \in Char /\ u = <<c>>
      BY <1>5 DEF u, One
    <3>2. d \o d = <<Dollar, Dollar>>
      BY <1>2, Pair
    <3>3. text = <<c>> \o <<Dollar, Dollar>>
      BY <3>1, <3>2 DEF ++
    <3> QED BY <3>1, <3>3
  <2> HIDE DEF text
  <2>7. Shows(T ++ text, log')
    BY <2>1, <2>4, <2>5
  <2>8. Texts!Log
    BY <1>1, <2>5, <2>6, <2>7, ShownIsLogged DEF T
  <2> QED BY <2>1, <2>4, <2>8
<1> QED BY <1>4, <1>5

LEMMA LoopQueue ==
    ASSUME Valid(log), Loop
    PROVE  /\ Valid(log')
           /\ TailEnded => Texts!Send
<1> DEFINE S == StringAt(log.head)
<1>0. /\ Valid(log')
      /\ TailEnded => S \in Seq(Symbols) /\ TextIn(log) = S \o TextIn(log')
  <2> DEFINE next == (log.head + Length(log.head) + 1) % Size
             l == [log EXCEPT !.head = next,
                              !.tail = IF next = log.tail + 1 THEN next ELSE log.tail]
  <2>1. log.head # log.tail
    BY DEF Loop
  <2>2. log' = l
    BY DEF Loop, Valid, Log
  <2>3. Valid(l) /\ (TailEnded => S \in Seq(Symbols) /\ TextIn(log) = S \o TextIn(l))
    BY <2>1, LoopText
  <2> HIDE DEF l, S
  <2> QED BY <2>2, <2>3
<1> SUFFICES ASSUME TailEnded PROVE Texts!Send
  BY <1>0
<1>1. Valid(log') /\ S \in Seq(Symbols) /\ TextIn(log) = S \o TextIn(log')
  BY <1>0
<1>2. sent' = S
  BY DEF Loop
<1> HIDE DEF S
<1> DEFINE R == TextIn(log')
<1>3. R \in Seq(Symbols)
  <2>1. log' \in Log
    BY <1>1 DEF Valid
  <2> QED BY <2>1, TextInIs
<1>4. Unread = S \o R /\ Unread' = R
  BY <1>1, UnreadIs
<1> HIDE DEF R
<1>5. /\ SubSeq(S \o R, 1, Len(S)) = S
      /\ SubSeq(S \o R, Len(S) + 1, Len(S \o R)) = R
      /\ Len(S \o R) = Len(S) + Len(R)
  BY <1>1, <1>3, Parts
<1>6. Len(S) \in 0..Len(Unread)
  <2>1. Len(S) \in Nat /\ Len(R) \in Nat
    BY <1>1, <1>3
  <2> QED BY <1>4, <1>5, <2>1
<1>7. sent' = SubSeq(Unread, 1, Len(S)) /\ Unread' = Texts!SuffixFrom(Unread, Len(S) + 1)
  BY <1>2, <1>4, <1>5 DEF Texts!SuffixFrom
<1> QED BY <1>6, <1>7 DEF Texts!Send

\* However long the ring and its lines are: what loop() sends is what addChar()
\* was given, in its order and once; only the oldest part of it may be missing,
\* and only where room is made for what is newer. loop() has to wait for the end
\* of a line that was moved (not Hasty).
THEOREM TraceIsQueue ==
    ASSUME ~Hasty
    PROVE  Spec => IsTextQueue
<1>1. Init => Texts!Init /\ Valid(log)
  BY InitQueue
<1>2. Valid(log) /\ [Next]_vars => Valid(log)' /\ [Texts!Next]_(Texts!vars)
  <2> SUFFICES ASSUME Valid(log), [Next]_vars
               PROVE  Valid(log') /\ [Texts!Next]_(Texts!vars)
    BY DEF Valid
  <2>1. ASSUME NEW c \in Char \cup {End}, AddChar(c)
        PROVE  Valid(log') /\ Texts!Log
    BY <2>1, AddQueue
  <2>2. CASE Loop
    BY <2>2, LoopQueue DEF Loop, Texts!Next
  <2>3. CASE EnableMqttTrace \/ UNCHANGED vars
    <3>1. log' = log /\ sent' = sent
      BY <2>3 DEF EnableMqttTrace, vars
    <3>2. Unread' = Unread
      BY <3>1, UnreadIs
    <3> QED BY <3>1, <3>2 DEF Texts!vars
  <2> QED BY <2>1, <2>2, <2>3 DEF Next, Texts!Next
<1> QED BY <1>1, <1>2, PTL DEF Spec, IsTextQueue, Texts!Spec

-----------------------------------------------------------------------------
(* How much is lost.                                                       *)

\* Neither before nor in a line that was moved, no more than it takes to move it.
LEMMA StepLength ==
    ASSUME NEW l, Valid(l), l.head # Ring, NEW c \in Cell
    PROVE  LET m == Added(l, c)
               before == Len(TextIn(l)) + Len(One(c))
               after == Len(TextIn(m))
           IN  /\ m.head # Ring
               /\ before \in Nat /\ after \in Nat
               /\ \/ /\ m.tail = Turn(l.tail)
                     /\ after + 1 >= before
                     /\ \/ after >= before
                        \/ \E B \in Seq(Symbols) : TextIn(m) = (One(Hash) \o One(Hash)) \o B
                  \/ /\ l.tail = Ring - 1
                     /\ m.tail \in 0..(Waste - 2)
                     /\ after + Waste > before
<1> DEFINE m == Added(l, c)
           b == l.buffer
           h == l.head
           t == l.tail
           T == TextIn(l)
           U == TextIn(m)
           u == One(c)
           before == Len(T) + Len(u)
           after == Len(U)
           Goal == /\ m.head # Ring
                   /\ before \in Nat /\ after \in Nat
                   /\ \/ /\ m.tail = Turn(t)
                         /\ after + 1 >= before
                         /\ \/ after >= before
                            \/ \E B \in Seq(Symbols) : U = (One(Hash) \o One(Hash)) \o B
                      \/ /\ t = Ring - 1
                         /\ m.tail \in 0..(Waste - 2)
                         /\ after + Waste > before
<1>1. l \in Log /\ m \in Log /\ b \in Buffer
  BY AddedType, LogIs DEF Valid
<1>2. T \in Seq(Symbols) /\ U \in Seq(Symbols) /\ u \in Seq(Symbols)
  BY <1>1, TextInIs, Joins
<1>3. /\ Size \in Nat /\ Ring \in Nat /\ Size = Ring + 1 /\ 5 < Size
      /\ h \in 0..(Ring - 1) /\ t \in 0..(Ring - 1)
  BY <1>1, Bounds DEF Valid
<1>4. Waste \in Nat /\ 2 <= Waste /\ 2 * Waste + 2 <= Size
  BY SizeAssumption
<1>5. \A s, r \in Seq(Symbols) : Len(s \o r) = Len(s) + Len(r) /\ Len(s) \in Nat
  BY ConcatProperties
<1>6. before \in Nat /\ after \in Nat /\ before = Len(T \o u)
  BY <1>2, <1>5
<1> HIDE DEF m, T, U, u
<1>7. CASE t # Ring - 1 /\ ~Adjacent(l)
  <2> DEFINE s == Stored(l, c)
  <2>1. s.head = h /\ s.tail = Turn(t)
    BY <1>1, StoredIs
  <2>2. s.tail # 0 /\ s.tail # s.head
    BY <1>3, <1>7, <2>1 DEF Turn, Adjacent
  <2> HIDE DEF s
  <2>3. m = s
    <3>1. Added(l, c) = Overrun(Wrapped(s))
      BY DEF Added, s
    <3> QED BY <2>2, <3>1 DEF Wrapped, Overrun, m
  <2>4. U = T \o u
    BY <1>7, PlainText DEF U, T, u, m
  <2>5. after = before
    BY <1>6, <2>4
  <2> HIDE DEF before, after
  <2> QED BY <1>3, <1>6, <2>1, <2>3, <2>5 DEF m, U, T, u, before, after
<1>8. CASE Adjacent(l) /\ (t = Ring - 1 => Ends(Stored(l, c)) = {})
  <2> DEFINE p == One(b[h])
             q == One(b[Turn(h)])
             a == One(b[Turn(Turn(h))])
             H == One(Hash)
  <2>1. m.head = Turn(h) /\ m.tail = h /\ h = Turn(t)
    BY <1>1, <1>8, OverrunCells DEF Adjacent, m
  <2>2. m.head # Ring
    <3>1. h \in Cells
      BY <1>1, LogIs
    <3> QED BY <1>3, <2>1, <3>1, TurnIs
  <2>3. PICK W \in Seq(Symbols) : T = p \o (q \o (a \o W)) /\ U = H \o (H \o (W \o u))
    BY <1>1, <1>8, OverrunKeeps DEF T, U, m, u
  <2>4. \A k \in Cells : One(b[k]) \in Seq(Symbols) /\ Len(One(b[k])) \in 0..1
    <3>1. \A k \in Cells : b[k] \in Cell
      BY <1>1 DEF Buffer
    <3> QED BY <3>1, Joins, OneLength
  <2>5. h \in Cells /\ Turn(h) \in Cells /\ Turn(Turn(h)) \in Cells
    BY <1>1, LogIs, TurnIs, Sizes
  <2>6. /\ p \in Seq(Symbols) /\ q \in Seq(Symbols) /\ a \in Seq(Symbols) /\ H \in Seq(Symbols)
        /\ Len(p) \in 0..1 /\ Len(q) \in 0..1 /\ Len(a) \in 0..1 /\ Len(H) = 1
    BY <2>4, <2>5, Joins, CellMembers, CharAssumption, OneLength
  <2> HIDE DEF p, q, a, H
  <2> DEFINE x == a \o W
             y == q \o x
             v == W \o u
             w == H \o v
  <2>7. x \in Seq(Symbols) /\ v \in Seq(Symbols) /\ Len(x) = Len(a) + Len(W)
        /\ Len(v) = Len(W) + Len(u)
    BY <1>2, <1>5, <2>3, <2>6, Joins
  <2> HIDE DEF x, v
  <2>8. y \in Seq(Symbols) /\ w \in Seq(Symbols) /\ Len(y) = Len(q) + Len(x)
        /\ Len(w) = Len(H) + Len(v)
    BY <1>5, <2>6, <2>7, Joins
  <2> HIDE DEF y, w
  <2>9. T = p \o y /\ U = H \o w
    BY <2>3 DEF y, w, x, v
  <2>10. Len(T) = Len(p) + Len(y) /\ Len(U) = Len(H) + Len(w)
    BY <1>5, <2>6, <2>8, <2>9
  <2>11. after + 1 >= before
    <3>1. Len(W) \in Nat /\ Len(u) \in Nat
      BY <1>2, <2>3
    <3>2. /\ before = Len(p) + (Len(q) + (Len(a) + Len(W))) + Len(u)
          /\ after = 1 + (1 + (Len(W) + Len(u)))
      BY <2>6, <2>7, <2>8, <2>10
    <3>3. \A i, j, k \in 0..1, n, r \in Nat :
             (1 + (1 + (n + r))) + 1 >= i + (j + (k + n)) + r
      OBVIOUS
    <3> HIDE DEF before, after
    <3> QED BY <2>6, <3>1, <3>2, <3>3
  <2>12. U = (H \o H) \o v
    <3>1. (H \o H) \o v = H \o (H \o v)
      BY ONLY <2>6, <2>7, JoinsThree
    <3> QED BY <2>9, <3>1 DEF w
  <2> HIDE DEF before, after
  <2> QED BY <1>6, <2>1, <2>2, <2>7, <2>11, <2>12 DEF m, U, T, u, before, after, H
<1>9. CASE t = Ring - 1 /\ h # 0
  <2>1. \E A, B \in Seq(Symbols) : T \o u = A \o B /\ U = B /\ Len(A) < Waste
    BY <1>3, <1>9, WrapText DEF T, U, u, m
  <2>2. PICK A \in Seq(Symbols), B \in Seq(Symbols) : T \o u = A \o B /\ U = B /\ Len(A) < Waste
    BY <2>1
  <2>3. after + Waste > before
    <3>1. before = Len(A) + Len(B) /\ after = Len(B) /\ Len(A) \in Nat /\ Len(B) \in Nat
      BY <1>5, <1>6, <2>2
    <3> HIDE DEF before, after
    <3> QED BY <1>4, <2>2, <3>1
  <2>4. m.head # Ring /\ m.tail \in 0..(Waste - 2)
    <3> DEFINE s == Stored(l, c)
    <3>1. /\ s \in Log /\ s.tail = 0 /\ s.head = h
          /\ Ends(s) = {} => m = Overrun(s)
          /\ Ends(s) # {} => m = Moved(s)
      BY <1>1, <1>9, WrapIs DEF m
    <3> HIDE DEF s
    <3>2. CASE Ends(s) = {}
      <4>1. m = s
        BY <1>9, <3>1, <3>2 DEF Overrun
      <4> QED BY <1>3, <1>4, <3>1, <4>1
    <3>3. CASE Ends(s) # {}
      <4> DEFINE length == Ring - Line(s)
      <4>1. /\ length \in 0..(Waste - 2) /\ m.tail = length
            /\ m.head = IF h <= length THEN length + 1 ELSE h
        BY <3>1, <3>3, MovedIs
      <4> HIDE DEF length
      <4> QED BY <1>3, <1>4, <4>1
    <3> QED BY <3>2, <3>3
  <2> HIDE DEF before, after
  <2> QED BY <1>6, <1>9, <2>3, <2>4 DEF m, U, T, u, before, after
<1>10. CASE t = Ring - 1 /\ h = 0 /\ Ends(Stored(l, c)) # {}
  <2> DEFINE length == Ring - Line(Stored(l, c))
  <2>1. Stored(l, c) \in Log
    BY <1>1, StoredType
  <2>2. length \in 0..(Waste - 2)
    BY <1>10, <2>1, MovedIs
  <2>3. h <= length
    BY <1>4, <1>10, <2>2
  <2>4. /\ m.tail = length /\ m.head = length + 1
        /\ T = Text(b, 0, Ring - 1)
        /\ U = Text(b, length + 1, Ring - 1) \o u
    BY <1>1, <1>10, <2>3, MovePushes DEF T, U, u, m
  <2> HIDE DEF length
  <2> DEFINE f == length + 1
             A == Text(b, 0, f)
             V == Text(b, f, Ring - 1)
  <2>5. f \in 0..(Waste - 1) /\ f # Ring
        /\ f \in 0..Size /\ Ring - 1 \in f..Size /\ 0 \in 0..Size /\ f - 0 < Waste
    BY <1>3, <1>4, <2>2
  <2>6. T = A \o V
    BY <1>1, <2>4, <2>5, TextSplits
  <2>7. A \in Seq(Symbols) /\ V \in Seq(Symbols)
    BY <1>1, <2>5, TextGrows
  <2>8. Len(A) <= f - 0
    BY <1>1, <2>5, TextShort
  <2> HIDE DEF f, A, V
  <2>9. Len(T) = Len(A) + Len(V) /\ Len(U) = Len(V) + Len(u) /\ U = V \o u
        /\ Len(A) \in Nat /\ Len(V) \in Nat /\ Len(u) \in Nat
    <3>1. U = V \o u
      BY <2>4 DEF V, f
    <3> QED BY <1>2, <1>5, <2>6, <2>7, <3>1
  <2>10. after + Waste > before
    <3>1. Len(A) < Waste
      <4>1. f \in Int
        BY <1>4, <2>5
      <4> QED BY <1>4, <2>5, <2>8, <2>9, <4>1
    <3> QED BY <1>4, <2>9, <3>1
  <2>11. m.head # Ring /\ m.tail \in 0..(Waste - 2)
    BY <2>2, <2>4, <2>5 DEF f
  <2> HIDE DEF before, after
  <2> QED BY <1>6, <1>10, <2>10, <2>11 DEF m, U, T, u, before, after
<1>11. \/ t # Ring - 1 /\ ~Adjacent(l)
       \/ Adjacent(l) /\ (t = Ring - 1 => Ends(Stored(l, c)) = {})
       \/ t = Ring - 1 /\ h # 0
       \/ t = Ring - 1 /\ h = 0 /\ Ends(Stored(l, c)) # {}
  <2>1. t = Ring - 1 /\ h = 0 => Adjacent(l)
    BY <1>3 DEF Adjacent, Turn
  <2> QED BY <2>1
<1> QED BY <1>7, <1>8, <1>9, <1>10, <1>11

\* Four characters: the line is moved once at the most.
LEMMA SplitLength ==
    ASSUME Valid(log), log.head # Ring, NEW c \in Cell, c # End
    PROVE  LET m == Added(Added(Added(Added(log, c), End), Dollar), Dollar)
           IN  Len(TextIn(m)) + Waste > Len(TextIn(log))
<1> DEFINE l1 == Added(log, c)
           l2 == Added(l1, End)
           l3 == Added(l2, Dollar)
           l4 == Added(l3, Dollar)
           n0 == Len(TextIn(log))
           n1 == Len(TextIn(l1))
           n2 == Len(TextIn(l2))
           n3 == Len(TextIn(l3))
           n4 == Len(TextIn(l4))
           t == log.tail
<1>1. /\ End \in Cell /\ Dollar \in Cell /\ Dollar # End
      /\ Len(One(c)) = 1 /\ Len(One(End)) = 0 /\ Len(One(Dollar)) = 1
  BY CellMembers, CharAssumption, OneLength
<1>2. Valid(l1) /\ Valid(l2) /\ Valid(l3) /\ Valid(l4)
  BY <1>1, StepText
\* a step that moves no line, and one that does
<1> DEFINE Small(n, m, k) == n + 1 >= m + k
           Move(x, y, n, m, k) == x = Ring - 1 /\ y \in 0..(Waste - 2) /\ n + Waste > m + k
<1>3. /\ l1.head # Ring /\ n0 + 1 \in Nat /\ n1 \in Nat
      /\ (l1.tail = Turn(t) /\ Small(n1, n0, 1)) \/ Move(t, l1.tail, n1, n0, 1)
  <2> HIDE DEF l1
  <2> QED BY <1>1, StepLength DEF l1
<1> HIDE DEF l1
<1>4. /\ l2.head # Ring /\ n2 \in Nat
      /\ (l2.tail = Turn(l1.tail) /\ Small(n2, n1, 0)) \/ Move(l1.tail, l2.tail, n2, n1, 0)
  <2> HIDE DEF l2
  <2> QED BY <1>1, <1>2, <1>3, StepLength DEF l2
<1> HIDE DEF l2
<1>5. /\ l3.head # Ring /\ n3 \in Nat
      /\ (l3.tail = Turn(l2.tail) /\ Small(n3, n2, 1)) \/ Move(l2.tail, l3.tail, n3, n2, 1)
  <2> HIDE DEF l3
  <2> QED BY <1>1, <1>2, <1>4, StepLength DEF l3
<1> HIDE DEF l3
<1>6. /\ l4.head # Ring /\ n4 \in Nat
      /\ (l4.tail = Turn(l3.tail) /\ Small(n4, n3, 1)) \/ Move(l3.tail, l4.tail, n4, n3, 1)
  <2> HIDE DEF l4
  <2> QED BY <1>1, <1>2, <1>5, StepLength DEF l4
<1>7. n0 \in Nat
  <2>1. TextIn(log) \in Seq(Symbols)
    BY TextInIs DEF Valid
  <2> QED BY <2>1
<1>8. /\ Ring \in Nat /\ Waste \in Nat /\ 2 <= Waste /\ 2 * Waste + 1 <= Ring
      /\ t \in 0..Ring
  BY SizeAssumption, Bounds DEF Valid
<1> DEFINE t1 == l1.tail
           t2 == l2.tail
           t3 == l3.tail
<1>9. t1 \in 0..Ring /\ t2 \in 0..Ring /\ t3 \in 0..Ring
  BY <1>2, Bounds DEF Valid
<1>10. /\ (t1 = Turn(t) /\ Small(n1, n0, 1)) \/ Move(t, t1, n1, n0, 1)
       /\ (t2 = Turn(t1) /\ Small(n2, n1, 0)) \/ Move(t1, t2, n2, n1, 0)
       /\ (t3 = Turn(t2) /\ Small(n3, n2, 1)) \/ Move(t2, t3, n3, n2, 1)
       /\ Small(n4, n3, 1) \/ Move(t3, l4.tail, n4, n3, 1)
  BY <1>3, <1>4, <1>5, <1>6
<1>11. n1 \in Nat /\ n2 \in Nat /\ n3 \in Nat /\ n4 \in Nat
  BY <1>3, <1>4, <1>5, <1>6
<1> HIDE DEF n0, n1, n2, n3, n4, t, t1, t2, t3, l4
\* after a move the end of the ring is far
<1>12. \A x \in 0..Ring : x <= Waste + 1 => Turn(x) = x + 1 /\ x # Ring - 1
  BY <1>8 DEF Turn
<1>13. CASE t = Ring - 1
  <2>1. t1 <= Waste - 2 \/ t1 = 0
    BY <1>8, <1>9, <1>10, <1>13 DEF Turn
  <2>2. t1 <= Waste - 2
    BY <1>8, <1>9, <2>1
  <2>3. t1 # Ring - 1 /\ t2 = t1 + 1
    BY <1>8, <1>9, <1>10, <1>12, <2>2
  <2>4. t2 # Ring - 1 /\ t3 = t2 + 1
    BY <1>8, <1>9, <1>10, <1>12, <2>2, <2>3
  <2>5. t3 # Ring - 1
    BY <1>8, <1>9, <1>12, <2>2, <2>3, <2>4
  <2>6. n1 + Waste > n0 + 1
    BY <1>7, <1>8, <1>10, <1>11
  <2>7. n2 + 1 >= n1 /\ n3 + 1 >= n2 + 1 /\ n4 + 1 >= n3 + 1
    BY <1>10, <1>11, <2>3, <2>4, <2>5
  <2>8. n4 + Waste > n0
    BY <1>7, <1>8, <1>11, <2>6, <2>7
  <2> QED BY <2>8 DEF n4, n0, l4, l3, l2, l1
<1>14. CASE t # Ring - 1 /\ t1 = Ring - 1
  <2>1. n1 + 1 >= n0 + 1
    BY <1>10, <1>14
  <2>2. t2 <= Waste - 2
    BY <1>8, <1>9, <1>10, <1>14 DEF Turn
  <2>3. t2 # Ring - 1 /\ t3 = t2 + 1
    BY <1>8, <1>9, <1>10, <1>12, <2>2
  <2>4. t3 # Ring - 1
    BY <1>8, <1>9, <1>12, <2>2, <2>3
  <2>5. n2 + Waste > n1
    BY <1>8, <1>10, <1>11
  <2>6. n3 + 1 >= n2 + 1 /\ n4 + 1 >= n3 + 1
    BY <1>10, <2>3, <2>4
  <2>7. n4 + Waste > n0
    BY <1>7, <1>8, <1>11, <2>1, <2>5, <2>6
  <2> QED BY <2>7 DEF n4, n0, l4, l3, l2, l1
<1>15. CASE t # Ring - 1 /\ t1 # Ring - 1 /\ t2 = Ring - 1
  <2>1. n1 + 1 >= n0 + 1 /\ n2 + 1 >= n1
    BY <1>10, <1>11, <1>15
  <2>2. t3 <= Waste - 2
    BY <1>8, <1>9, <1>10, <1>15 DEF Turn
  <2>3. t3 # Ring - 1
    BY <1>8, <1>9, <1>12, <2>2
  <2>4. n3 + Waste > n2 + 1 /\ n4 + 1 >= n3 + 1
    BY <1>8, <1>10, <1>11, <2>3
  <2>5. n4 + Waste > n0
    BY <1>7, <1>8, <1>11, <2>1, <2>4
  <2> QED BY <2>5 DEF n4, n0, l4, l3, l2, l1
<1>16. CASE t # Ring - 1 /\ t1 # Ring - 1 /\ t2 # Ring - 1
  <2>1. n1 + 1 >= n0 + 1 /\ n2 + 1 >= n1 /\ n3 + 1 >= n2 + 1
    BY <1>10, <1>11, <1>16
  <2>2. n4 + Waste > n3 + 1
    BY <1>8, <1>10, <1>11
  <2>3. n4 + Waste > n0
    BY <1>7, <1>8, <1>11, <2>1, <2>2
  <2> QED BY <2>3 DEF n4, n0, l4, l3, l2, l1
<1> QED BY <1>13, <1>14, <1>15, <1>16

LEMMA MarkComesFirst ==
    ASSUME NEW B \in Seq(Symbols), NEW U, U = (One(Hash) \o One(Hash)) \o B
    PROVE  IsPrefix(<<Hash, Hash>>, U)
<1> DEFINE H == <<Hash, Hash>>
<1>1. Hash \in Cell /\ One(Hash) = <<Hash>> /\ Hash \in Symbols
  BY CellMembers, CharAssumption DEF One, Symbols
<1>2. One(Hash) \o One(Hash) = H
  BY <1>1, Pair
<1>3. H \in Seq(Symbols) /\ Len(H) = 2
  BY <1>1
<1> HIDE DEF H
<1>4. U = H \o B
  BY <1>2
<1>5. SubSeq(H \o B, 1, Len(H)) = H /\ Len(H \o B) = Len(H) + Len(B)
  BY <1>3, Parts
<1>6. SubSeq(H, 1, Len(H)) = H
  BY <1>3, SubSeqFull
<1>7. Len(H) <= Len(H \o B)
  <2>1. Len(B) \in Nat /\ Len(H) \in Nat
    BY <1>3
  <2> QED BY <1>5, <2>1
<1>8. IsPrefix(H, H \o B)
  BY <1>5, <1>6, <1>7 DEF IsPrefix
<1> QED BY <1>4, <1>8 DEF H

LEMMA LossIsMarked ==
    ASSUME Valid(log), log.head # Ring, NEW c \in Char \cup {End}, AddChar(c)
    PROVE  ~LossHidden
<1> DEFINE n == Len(Unread)
           m == Len(Unread')
<1>1. c \in Cell /\ Waste \in Nat /\ 2 <= Waste
  BY CellMembers, SizeAssumption
<1>2. n \in Nat /\ n = Len(TextIn(log)) /\ m = Len(TextIn(log'))
  <2>1. TextIn(log) \in Seq(Symbols)
    BY TextInIs DEF Valid
  <2> QED BY <2>1, UnreadIs
<1>3. CASE c # End /\ count = MaxMsg
  <2>1. m + Waste > n
    <3>1. log' = Added(Added(Added(Added(log, c), End), Dollar), Dollar)
      BY <1>3 DEF AddChar
    <3>2. Len(TextIn(log')) + Waste > Len(TextIn(log))
      BY <1>1, <1>3, <3>1, SplitLength
    <3> QED BY <1>2, <3>2
  <2>2. m \in Nat
    <3>1. Valid(log')
      BY AddQueue
    <3>2. TextIn(log') \in Seq(Symbols)
      BY <3>1, TextInIs DEF Valid
    <3> QED BY <1>2, <3>2
  <2> HIDE DEF n, m
  <2>3. ~(m + Waste <= n)
    BY <1>1, <1>2, <2>1, <2>2
  <2> QED BY <2>3 DEF LossHidden, n, m
<1>4. CASE ~(c # End /\ count = MaxMsg)
  <2>1. log' = Added(log, c)
    BY <1>4 DEF AddChar
  <2>2. Len(One(c)) \in Nat
    BY <1>1, OneLength
  <2>3. /\ m \in Nat
        /\ \/ m >= n + Len(One(c))
           \/ \E B \in Seq(Symbols) : TextIn(log') = (One(Hash) \o One(Hash)) \o B
           \/ m + Waste > n + Len(One(c))
    BY <1>1, <1>2, <2>1, StepLength
  <2> HIDE DEF n, m
  <2>4. CASE \E B \in Seq(Symbols) : TextIn(log') = (One(Hash) \o One(Hash)) \o B
    <3>1. IsPrefix(<<Hash, Hash>>, Unread')
      BY <2>4, UnreadIs, MarkComesFirst
    <3> QED BY <3>1 DEF LossHidden
  <2>5. CASE m >= n + Len(One(c)) \/ m + Waste > n + Len(One(c))
    <3>1. ~(m + Waste <= n)
      <4> DEFINE k == Len(One(c))
      <4>1. k \in Nat /\ (m >= n + k \/ m + Waste > n + k)
        BY <2>2, <2>5
      <4> HIDE DEF k
      <4> QED BY <1>1, <1>2, <2>3, <4>1
    <3> QED BY <3>1 DEF LossHidden, n, m
  <2> QED BY <2>3, <2>4, <2>5
<1> QED BY <1>3, <1>4

\* However long the ring is: when addChar() gives up more of the oldest text than
\* it takes to move a line, two '#' stand where it was, unless the reader is in
\* the cell behind the ring.
THEOREM LossIsSeen == Spec => OverrunMarkedInRing
<1>1. Init => Valid(log)
  BY InitQueue
<1>2. Valid(log) /\ [Next]_vars
        => /\ Valid(log)'
           /\ [(\E c \in Char \cup {End} : AddChar(c)) /\ log.head # Ring => ~LossHidden]_vars
  <2> SUFFICES ASSUME Valid(log), [Next]_vars
               PROVE  /\ Valid(log')
                      /\ (\E c \in Char \cup {End} : AddChar(c)) /\ log.head # Ring => ~LossHidden
    BY DEF Valid
  <2>1. \A c \in Char \cup {End} :
           AddChar(c) => Valid(log') /\ (log.head # Ring => ~LossHidden)
    BY AddQueue, LossIsMarked
  <2>2. Loop => Valid(log')
    BY LoopQueue
  <2>3. EnableMqttTrace \/ UNCHANGED vars => Valid(log')
    <3>1. EnableMqttTrace \/ UNCHANGED vars => log' = log
      BY DEF EnableMqttTrace, vars
    <3> QED BY <3>1
  <2> QED BY <2>1, <2>2, <2>3 DEF Next
<1> QED BY <1>1, <1>2, PTL DEF Spec, OverrunMarkedInRing
=============================================================================
