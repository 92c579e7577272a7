----------------------------- MODULE MeshProofs -----------------------------
(* The uplink, for every number of slots and messages: a message that was   *)
(* taken over from a child is kept, or its loss has one of the named causes.*)
EXTENDS Mesh, FiniteSetsExt, FiniteSetTheorems, WellFoundedInduction, TLAPS

Message == Child \cup {House, Own}

\* The types the argument needs.
WireType ==
    /\ outBuf \in [Slot -> Child \cup {House, Empty}]
    /\ wait \in {"idle", "queue", "own", "welcome"}
    /\ link \in BOOLEAN /\ greeted \in BOOLEAN /\ risky \in BOOLEAN
    /\ upward \in Seq(Message)
    /\ downward \in Seq({"ack", "plain", "four"})
    /\ next \in 1..(MaxMsg + 1)

\* A message is waited for only while its slot is in use.
WaitsForOne == wait = "queue" => Used(outBuf) # {}

\* A broken connection carries nothing.
DeadIsEmpty == ~link => ~greeted /\ upward = <<>> /\ downward = <<>>

NoAck == \A i \in DOMAIN downward : downward[i] # "ack"

OneAck == \A i, j \in DOMAIN downward : downward[i] = "ack" /\ downward[j] = "ack" => i = j

\* As long as no answer was late or mistaken: an idle node has no ACK coming;
\* one that waits has its message on the way up, or handled with the ACK on its
\* way down.
Answered ==
    ~risky /\ link =>
       /\ wait = "idle" => greeted /\ upward = <<>> /\ NoAck
       /\ wait = "welcome" => upward = <<>> /\ OneAck /\ (greeted \/ NoAck)
       /\ wait \in {"queue", "own"} =>
             /\ greeted
             /\ \/ /\ Len(upward) = 1 /\ NoAck
                   /\ wait = "queue" => upward[1] = outBuf[First(outBuf)]
                \/ /\ upward = <<>> /\ OneAck
                   /\ wait = "queue" => outBuf[First(outBuf)] \in got \cup {House}

KeptInv ==
    /\ WireType
    /\ WaitsForOne
    /\ DeadIsEmpty
    /\ Answered
    /\ Kept

-----------------------------------------------------------------------------
(* The queue.                                                              *)

\* A set of numbers that is not empty has a least one, and Min is it.
LEMMA MinIsLeast ==
    ASSUME NEW S \in SUBSET Nat, S # {}
    PROVE  Min(S) \in S /\ \A y \in S : Min(S) <= y
<1>1. PICK x \in S : \A y \in S : ~(<<y, x>> \in OpToRel(<, Nat))
  BY NatLessThanWellFounded, WFMin
<1>2. ASSUME NEW y \in S PROVE x <= y
  <2>1. <<y, x>> \in Nat \X Nat /\ ~(y < x)
    BY <1>1 DEF OpToRel
  <2> QED BY <2>1
<1> QED BY <1>2 DEF Min

\* The first slot in use, and the first free one, are such slots.
LEMMA FirstInUse ==
    ASSUME NEW buf, Used(buf) # {}
    PROVE  First(buf) \in Slot /\ buf[First(buf)] # Empty
<1>1. Used(buf) \in SUBSET Nat
  BY MeshAssumption DEF Used, Slot
<1>2. First(buf) \in Used(buf)
  BY <1>1, MinIsLeast DEF First
<1> QED BY <1>2 DEF Used, Free

LEMMA FirstFree ==
    ASSUME NEW buf, Free(buf) # {}
    PROVE  Min(Free(buf)) \in Slot /\ buf[Min(Free(buf))] = Empty
<1>1. Free(buf) \in SUBSET Nat
  BY MeshAssumption DEF Free, Slot
<1>2. Min(Free(buf)) \in Free(buf)
  BY <1>1, MinIsLeast
<1> QED BY <1>2 DEF Free

\* The three kinds of messages and an empty slot are told apart.
LEMMA Distinct ==
    Empty \notin Child /\ House \notin Child /\ Own \notin Child /\ House # Empty
BY MeshAssumption DEF Empty, Child, House, Own

\* Queueing keeps the type and every message; with a free slot it adds one.
LEMMA PutKeeps ==
    ASSUME NEW buf \in [Slot -> Child \cup {House, Empty}], NEW m \in Child \cup {House}
    PROVE  /\ Put(buf, m) \in [Slot -> Child \cup {House, Empty}]
           /\ Queued(buf) \subseteq Queued(Put(buf, m))
           /\ Used(buf) \subseteq Used(Put(buf, m))
           /\ Free(buf) # {} /\ m \in Child => m \in Queued(Put(buf, m))
<1>1. CASE Free(buf) = {}
  BY <1>1 DEF Put
<1>2. CASE Free(buf) # {}
  <2> DEFINE f == Min(Free(buf))
  <2>1. f \in Slot /\ buf[f] = Empty
    BY <1>2, FirstFree
  <2> HIDE DEF f
  <2>2. Put(buf, m) = [buf EXCEPT ![f] = m]
    BY <1>2 DEF Put, f
  <2>3. Put(buf, m) \in [Slot -> Child \cup {House, Empty}]
    BY <2>2
  <2>4. Queued(buf) \subseteq Queued(Put(buf, m))
    BY <2>1, <2>2, Distinct DEF Queued
  <2>5. Used(buf) \subseteq Used(Put(buf, m))
    BY <2>1, <2>2, Distinct DEF Used, Free
  <2>6. m \in Child => m \in Queued(Put(buf, m))
    BY <2>1, <2>2 DEF Queued
  <2> QED BY <2>3, <2>4, <2>5, <2>6
<1> QED BY <1>1, <1>2

-----------------------------------------------------------------------------
(* The inductive invariant.                                                *)

LEMMA KeptInit == Init => KeptInv
<1> SUFFICES ASSUME Init PROVE KeptInv
  OBVIOUS
<1> USE DEF Init
<1>1. WireType
  <2>1. <<>> \in Seq(Message) /\ <<>> \in Seq({"ack", "plain", "four"})
    OBVIOUS
  <2>2. 1 \in 1..(MaxMsg + 1)
    BY MeshAssumption
  <2> QED BY <2>1, <2>2 DEF WireType
<1>2. WaitsForOne /\ DeadIsEmpty /\ Answered
  BY DEF WaitsForOne, DeadIsEmpty, Answered
<1>3. Kept
  BY DEF Kept
<1> QED BY <1>1, <1>2, <1>3 DEF KeptInv

\* A pass sends the first message of the queue with no ACK behind it.
LEMMA PassKeeps == KeptInv /\ Pass => KeptInv'
<1> SUFFICES ASSUME KeptInv, Pass PROVE KeptInv'
  OBVIOUS
<1> USE DEF KeptInv, Pass
<1>1. /\ outBuf' \in [Slot -> Child \cup {House, Empty}]
      /\ Queued(outBuf) \subseteq Queued(outBuf')
  BY PutKeeps DEF WireType
<1>2. Kept'
  BY <1>1 DEF Kept
<1>3. CASE silent = 2
  <2>1. link' = FALSE /\ greeted' = FALSE /\ upward' = <<>> /\ downward' = <<>> /\ wait' = "idle"
    BY <1>3 DEF Lost
  <2>2. <<>> \in Seq(Message) /\ <<>> \in Seq({"ack", "plain", "four"})
    OBVIOUS
  <2>3. WireType'
    BY <1>1, <2>1, <2>2 DEF WireType
  <2> QED BY <1>2, <2>1, <2>3 DEF WaitsForOne, DeadIsEmpty, Answered
<1>4. CASE silent # 2 /\ Used(outBuf') = {}
  BY <1>1, <1>2, <1>4 DEF WireType, WaitsForOne, DeadIsEmpty, Answered, Message, NoAck
<1>5. CASE silent # 2 /\ Used(outBuf') # {}
  <2> DEFINE m == outBuf'[First(outBuf')]
  <2>1. First(outBuf') \in Slot /\ m # Empty
    BY <1>5, FirstInUse
  <2>2. m \in Message
    BY <1>1, <2>1 DEF Message
  <2> HIDE DEF m
  <2>3. upward' = Append(upward, m) /\ wait' = "queue" /\ downward' = <<>>
    BY <1>5 DEF m
  <2>4. WireType'
    BY <1>1, <1>5, <2>2, <2>3 DEF WireType
  <2>5. WaitsForOne' /\ DeadIsEmpty'
    BY <1>5, <2>3 DEF WaitsForOne, DeadIsEmpty
  <2>6. Answered'
    <3> SUFFICES ASSUME ~risky', link' PROVE Answered'
      BY DEF Answered
    <3>1. greeted /\ upward = <<>>
      BY <1>5 DEF Answered
    <3>2. upward' = <<m>>
      BY <2>3, <3>1
    <3> QED BY <1>5, <2>3, <3>1, <3>2 DEF Answered, NoAck, m
  <2> QED BY <1>2, <2>4, <2>5, <2>6
<1> QED BY <1>3, <1>4, <1>5

LEMMA PublishOwnKeeps == KeptInv /\ PublishOwn => KeptInv'
<1> SUFFICES ASSUME KeptInv, PublishOwn PROVE KeptInv'
  OBVIOUS
<1> USE DEF KeptInv, PublishOwn
<1>1. WireType' /\ WaitsForOne' /\ DeadIsEmpty' /\ Kept'
  BY DEF WireType, WaitsForOne, DeadIsEmpty, Kept, Message, ghosts
<1>2. Answered'
  <2> SUFFICES ASSUME ~risky', link' PROVE Answered'
    BY DEF Answered
  <2>1. greeted /\ upward = <<>> /\ NoAck
    BY DEF Answered, ghosts
  <2>2. Len(upward') = 1
    BY <2>1
  <2> QED BY <2>1, <2>2 DEF Answered, NoAck
<1> QED BY <1>1, <1>2

\* A message of a child finds a free slot, or is dropped.
LEMMA OnDataKeeps == KeptInv /\ OnData => KeptInv'
<1> SUFFICES ASSUME KeptInv, OnData PROVE KeptInv'
  OBVIOUS
<1> USE DEF KeptInv, OnData
<1>1. next \in Child /\ next' \in 1..(MaxMsg + 1)
  BY MeshAssumption DEF WireType, Child
<1>2. /\ outBuf' \in [Slot -> Child \cup {House, Empty}]
      /\ Queued(outBuf) \subseteq Queued(outBuf')
      /\ next \in Queued(outBuf') \cup dropped'
  BY <1>1, PutKeeps DEF WireType
<1>3. WireType'
  BY <1>1, <1>2 DEF WireType, wires
<1>4. WaitsForOne' /\ DeadIsEmpty' /\ Answered'
  BY DEF WaitsForOne, DeadIsEmpty, Answered, NoAck, wires
<1>5. Kept'
  <2>1. 1..(next' - 1) = (1..(next - 1)) \cup {next}
    BY MeshAssumption DEF WireType
  <2> QED BY <1>2, <2>1 DEF Kept
<1> QED BY <1>3, <1>4, <1>5

\* The messages behind a connect keep what is queued.
LEMMA WelcomedKeeps ==
    ASSUME outBuf \in [Slot -> Child \cup {House, Empty}], Welcomed
    PROVE  /\ outBuf' \in [Slot -> Child \cup {House, Empty}]
           /\ Queued(outBuf) \subseteq Queued(outBuf')
<1> DEFINE one == Put(outBuf, House)
<1>1. one \in [Slot -> Child \cup {House, Empty}] /\ Queued(outBuf) \subseteq Queued(one)
  BY PutKeeps
<1>2. outBuf' = Put(one, House)
  BY DEF Welcomed
<1> HIDE DEF one
<1> QED BY <1>1, <1>2, PutKeeps

\* What is left when the first byte has been read: fewer bytes, no ACK more.
LEMMA TailDown ==
    ASSUME downward \in Seq({"ack", "plain", "four"}), downward # <<>>,
           downward' = Tail(downward)
    PROVE  /\ downward' \in Seq({"ack", "plain", "four"})
           /\ NoAck => NoAck'
           /\ OneAck => OneAck'
           /\ OneAck /\ Head(downward) = "ack" => NoAck'
           /\ NoAck => Head(downward) # "ack"
<1>1. /\ downward' \in Seq({"ack", "plain", "four"})
      /\ Len(downward') = Len(downward) - 1
      /\ \A i \in 1..Len(downward') : downward'[i] = downward[i + 1]
      /\ Len(downward) \in Nat \ {0}
      /\ Head(downward) = downward[1]
  OBVIOUS
<1>2. DOMAIN downward' = 1..Len(downward') /\ DOMAIN downward = 1..Len(downward)
  BY <1>1
<1>3. \A i \in DOMAIN downward' : i + 1 \in DOMAIN downward /\ i + 1 # 1
  BY <1>1, <1>2
<1>4. 1 \in DOMAIN downward
  BY <1>1, <1>2
<1>5. NoAck => NoAck' /\ Head(downward) # "ack"
  BY <1>1, <1>2, <1>3, <1>4 DEF NoAck
<1>6. ASSUME OneAck PROVE OneAck'
  <2> SUFFICES ASSUME NEW i \in DOMAIN downward', NEW j \in DOMAIN downward',
                      downward'[i] = "ack", downward'[j] = "ack"
               PROVE  i = j
    BY DEF OneAck
  <2>1. downward[i + 1] = "ack" /\ downward[j + 1] = "ack"
    BY <1>1, <1>2
  <2>2. i + 1 = j + 1
    BY <1>3, <1>6, <2>1 DEF OneAck
  <2> QED BY <1>1, <1>2, <2>2
<1>7. ASSUME OneAck, Head(downward) = "ack" PROVE NoAck'
  BY <1>1, <1>2, <1>3, <1>4, <1>7 DEF NoAck, OneAck
<1> QED BY <1>1, <1>5, <1>6, <1>7

\* The end of a wait: an answer that came in time is the one to the message
\* that was sent; of any other the ghosts know.
LEMMA AckedKeeps == KeptInv /\ Acked => KeptInv'
<1> SUFFICES ASSUME KeptInv, Acked PROVE KeptInv'
  OBVIOUS
<1> USE DEF KeptInv
<1>1. /\ downward \in Seq({"ack", "plain", "four"}) /\ downward # <<>>
      /\ downward' = Tail(downward) /\ wait' = "idle"
      /\ UNCHANGED <<link, greeted, upward, next, got, dropped>>
      /\ Head(downward) \in {"ack", "four"}
      /\ risky' = (risky \/ Head(downward) = "four")
      /\ wait \in {"queue", "own", "welcome"}
  BY DEF Acked, WireType
<1>2. /\ downward' \in Seq({"ack", "plain", "four"})
      /\ OneAck /\ Head(downward) = "ack" => NoAck'
      /\ NoAck => Head(downward) # "ack"
  BY <1>1, TailDown
<1>3. link
  BY <1>1 DEF DeadIsEmpty
\* the message has been handled, unless the answer was late or mistaken
<1>4. ~risky' => /\ Answered /\ ~risky /\ Head(downward) = "ack" /\ NoAck'
                 /\ greeted /\ upward = <<>>
                 /\ wait = "queue" => outBuf[First(outBuf)] \in got \cup {House}
  BY <1>1, <1>2, <1>3 DEF Answered
<1>5. Answered'
  BY <1>1, <1>4 DEF Answered
<1>6. DeadIsEmpty' /\ WaitsForOne'
  BY <1>1, <1>3 DEF DeadIsEmpty, WaitsForOne
<1>7. /\ outBuf' \in [Slot -> Child \cup {House, Empty}]
      /\ Queued(outBuf) \subseteq Queued(outBuf') \cup got' \cup doubt'
      /\ doubt \subseteq doubt'
  <2>1. CASE wait = "queue"
    <3> DEFINE i == First(outBuf)
    <3>1. i \in Slot
      BY <2>1, FirstInUse DEF WaitsForOne
    <3>2. /\ outBuf' = [outBuf EXCEPT ![i] = Empty]
          /\ doubt' = IF risky' THEN doubt \cup ({outBuf[i]} \cap Child) ELSE doubt
      BY <2>1 DEF Acked, Freed
    <3>3. ~risky' => outBuf[i] \in got \cup {House}
      BY <1>4, <2>1
    <3> HIDE DEF i
    <3>4. outBuf' \in [Slot -> Child \cup {House, Empty}]
      BY <3>2 DEF WireType
    <3>5. Queued(outBuf) \subseteq Queued(outBuf') \cup {outBuf[i]}
      BY <3>1, <3>2 DEF Queued, WireType
    <3>6. Queued(outBuf) \subseteq Child
      BY DEF Queued
    <3>7. got' = got
      BY <1>1
    <3> QED BY <3>2, <3>3, <3>4, <3>5, <3>6, <3>7, Distinct
  <2>2. CASE wait = "own"
    BY <2>2 DEF Acked, WireType
  <2>3. CASE wait = "welcome"
    BY <2>3, WelcomedKeeps DEF Acked, WireType
  <2> QED BY <1>1, <2>1, <2>2, <2>3
<1>8. WireType'
  BY <1>1, <1>2, <1>7 DEF WireType
<1>9. Kept'
  BY <1>1, <1>7 DEF Kept
<1> QED BY <1>5, <1>6, <1>8, <1>9

LEMMA SkipKeeps == KeptInv /\ Skip => KeptInv'
<1> SUFFICES ASSUME KeptInv, Skip PROVE KeptInv'
  OBVIOUS
<1> USE DEF KeptInv
<1>1. /\ downward \in Seq({"ack", "plain", "four"}) /\ downward # <<>>
      /\ downward' = Tail(downward) /\ wait # "idle"
      /\ UNCHANGED <<outBuf, wait, link, greeted, upward, next, got, dropped, doubt, risky>>
  BY DEF Skip, WireType, node, ghosts
<1>2. /\ downward' \in Seq({"ack", "plain", "four"})
      /\ (NoAck => NoAck') /\ (OneAck => OneAck')
  BY <1>1, TailDown
<1>3. WireType' /\ WaitsForOne' /\ DeadIsEmpty' /\ Kept'
  BY <1>1, <1>2 DEF WireType, WaitsForOne, DeadIsEmpty, Kept
<1>4. Answered'
  BY <1>1, <1>2 DEF Answered
<1> QED BY <1>3, <1>4

LEMMA GiveUpKeeps == KeptInv /\ GiveUp => KeptInv'
<1> SUFFICES ASSUME KeptInv, GiveUp PROVE KeptInv'
  OBVIOUS
<1> USE DEF KeptInv, GiveUp
<1>1. /\ outBuf' \in [Slot -> Child \cup {House, Empty}]
      /\ Queued(outBuf) \subseteq Queued(outBuf')
  BY WelcomedKeeps DEF WireType
<1>2. WireType' /\ Kept'
  BY <1>1 DEF WireType, Kept, wires
<1>3. WaitsForOne' /\ DeadIsEmpty' /\ Answered'
  BY DEF WaitsForOne, DeadIsEmpty, Answered, wires
<1> QED BY <1>2, <1>3

LEMMA ConnectKeeps == KeptInv /\ Connect => KeptInv'
<1> SUFFICES ASSUME KeptInv, Connect PROVE KeptInv'
  OBVIOUS
<1>1. WireType' /\ WaitsForOne' /\ DeadIsEmpty' /\ Kept'
  BY DEF KeptInv, Connect, WireType, WaitsForOne, DeadIsEmpty, Kept
<1>2. Answered'
  BY DEF KeptInv, Connect, DeadIsEmpty, Answered, NoAck, OneAck
<1> QED BY <1>1, <1>2 DEF KeptInv

\* One byte more on its way down.
LEMMA AppendDown ==
    ASSUME NEW byte \in {"ack", "plain", "four"},
           downward \in Seq({"ack", "plain", "four"}),
           downward' = Append(downward, byte)
    PROVE  /\ downward' \in Seq({"ack", "plain", "four"})
           /\ NoAck => OneAck'
           /\ byte # "ack" => (NoAck => NoAck') /\ (OneAck => OneAck')
<1>1. /\ downward' \in Seq({"ack", "plain", "four"})
      /\ DOMAIN downward = 1..Len(downward)
      /\ DOMAIN downward' = 1..(Len(downward) + 1)
      /\ Len(downward) \in Nat
      /\ \A i \in 1..Len(downward) : downward'[i] = downward[i]
      /\ downward'[Len(downward) + 1] = byte
  OBVIOUS
<1>2. ASSUME NEW i \in 1..(Len(downward) + 1), i # Len(downward) + 1
      PROVE  i \in 1..Len(downward)
  BY <1>1, <1>2
<1>3. ASSUME NEW i \in DOMAIN downward', downward'[i] = "ack", i # Len(downward) + 1
      PROVE  i \in DOMAIN downward /\ downward[i] = "ack"
  BY <1>1, <1>2, <1>3
<1>4. NoAck => OneAck'
  BY <1>3 DEF NoAck, OneAck
<1>5. byte # "ack" => (NoAck => NoAck') /\ (OneAck => OneAck')
  BY <1>1, <1>3 DEF NoAck, OneAck
<1> QED BY <1>1, <1>4, <1>5

LEMMA GreetKeeps == KeptInv /\ Greet => KeptInv'
<1> SUFFICES ASSUME KeptInv, Greet PROVE KeptInv'
  OBVIOUS
<1> USE DEF KeptInv
<1>1. /\ link /\ ~greeted /\ greeted' = TRUE
      /\ downward' = Append(downward, "ack")
      /\ UNCHANGED <<outBuf, wait, link, upward, next, got, dropped, doubt, risky>>
  BY DEF Greet, node, ghosts
<1>2. downward' \in Seq({"ack", "plain", "four"}) /\ (NoAck => OneAck')
  BY <1>1, AppendDown DEF WireType
<1>3. WireType' /\ WaitsForOne' /\ DeadIsEmpty' /\ Kept'
  BY <1>1, <1>2 DEF WireType, WaitsForOne, DeadIsEmpty, Kept
<1>4. Answered'
  BY <1>1, <1>2 DEF Answered, WireType
<1> QED BY <1>3, <1>4

\* The parent handles the first message that has come up, and answers.
LEMMA ServeKeeps == KeptInv /\ Serve => KeptInv'
<1> SUFFICES ASSUME KeptInv, Serve PROVE KeptInv'
  OBVIOUS
<1> USE DEF KeptInv
<1>1. /\ greeted /\ upward # <<>> /\ upward \in Seq(Message)
      /\ downward' = Append(downward, "ack")
      /\ UNCHANGED <<outBuf, wait, link, greeted, next, dropped, doubt, risky>>
  BY DEF Serve, node, WireType
<1>2. PICK n \in 1..Len(upward) :
         /\ upward' = SubSeq(upward, n + 1, Len(upward))
         /\ got' = got \cup ({Head(upward)} \cap Child)
  BY DEF Serve
<1>3. /\ upward' \in Seq(Message)
      /\ Len(upward) = 1 => upward' = <<>>
      /\ Head(upward) = upward[1]
  BY <1>1, <1>2
<1>4. downward' \in Seq({"ack", "plain", "four"}) /\ (NoAck => OneAck')
  BY <1>1, AppendDown DEF WireType
<1>5. WireType' /\ WaitsForOne' /\ Kept'
  BY <1>1, <1>2, <1>3, <1>4 DEF WireType, WaitsForOne, Kept
<1>6. DeadIsEmpty'
  BY <1>1 DEF DeadIsEmpty, WireType
<1>7. Answered'
  <2> SUFFICES ASSUME ~risky', link' PROVE Answered'
    BY DEF Answered
  <2>1. /\ wait \in {"queue", "own"} /\ Len(upward) = 1 /\ NoAck
        /\ wait = "queue" => upward[1] = outBuf[First(outBuf)]
    BY <1>1 DEF Answered, WireType
  <2>2. wait = "queue" => outBuf[First(outBuf)] \in Child \cup {House}
    BY FirstInUse DEF WaitsForOne, WireType
  <2>3. wait = "queue" => outBuf[First(outBuf)] \in got' \cup {House}
    BY <1>2, <1>3, <2>1, <2>2
  <2> QED BY <1>1, <1>3, <1>4, <2>1, <2>3 DEF Answered
<1> QED BY <1>5, <1>6, <1>7

LEMMA BroadcastKeeps == KeptInv /\ Broadcast => KeptInv'
<1> SUFFICES ASSUME KeptInv, Broadcast PROVE KeptInv'
  OBVIOUS
<1> USE DEF KeptInv
<1>1. PICK d \in {"plain", "four"} : downward' = Append(downward, d)
  BY DEF Broadcast
<1>2. /\ greeted
      /\ UNCHANGED <<outBuf, wait, link, greeted, upward, next, got, dropped, doubt, risky>>
  BY DEF Broadcast, node, ghosts
<1>3. /\ downward' \in Seq({"ack", "plain", "four"})
      /\ (NoAck => NoAck') /\ (OneAck => OneAck')
  BY <1>1, AppendDown DEF WireType
<1>4. WireType' /\ WaitsForOne' /\ DeadIsEmpty' /\ Kept'
  BY <1>2, <1>3 DEF WireType, WaitsForOne, DeadIsEmpty, Kept
<1>5. Answered'
  BY <1>2, <1>3 DEF Answered
<1> QED BY <1>4, <1>5

LEMMA BreakKeeps == KeptInv /\ Break => KeptInv'
<1> SUFFICES ASSUME KeptInv, Break PROVE KeptInv'
  OBVIOUS
<1>1. <<>> \in Seq(Message) /\ <<>> \in Seq({"ack", "plain", "four"})
  OBVIOUS
<1> QED BY <1>1 DEF KeptInv, Break, Lost, node, WireType, WaitsForOne, DeadIsEmpty,
            Answered, Kept

\* KeptInv is inductive.
LEMMA KeptStep == KeptInv /\ [Next]_vars => KeptInv'
<1> SUFFICES ASSUME KeptInv, [Next]_vars PROVE KeptInv'
  OBVIOUS
<1>1. CASE Tick \/ UNCHANGED vars
  BY <1>1 DEF Tick, vars, node, wires, ghosts, KeptInv, WireType, WaitsForOne, DeadIsEmpty,
     Answered, NoAck, OneAck, Kept
<1> QED BY <1>1, PassKeeps, PublishOwnKeeps, OnDataKeeps, AckedKeeps, SkipKeeps,
           GiveUpKeeps, ConnectKeeps, GreetKeeps, ServeKeeps, BroadcastKeeps,
           BreakKeeps DEF Next

\* What a child has handed over waits, has reached the parent, was refused by a
\* full queue or a broken link, or was confirmed by a late or mistaken answer:
\* stop-and-wait over outBuf loses nothing else, for any number of slots and
\* messages and however often links break.
THEOREM KeptAlways == Spec => []Kept
<1>1. KeptInv => Kept
  BY DEF KeptInv
<1> QED BY <1>1, KeptInit, KeptStep, PTL DEF Spec

-----------------------------------------------------------------------------
(* Once and in order.                                                      *)

Sent == 1..Len(upward)

\* Only messages that there were; no two slots hold the same.
Known ==
    /\ got \subseteq Child
    /\ again \in BOOLEAN /\ twice \in BOOLEAN /\ crowded \in BOOLEAN /\ overtaken \in BOOLEAN
    /\ \A i \in Slot : outBuf[i] \in Child => outBuf[i] < next
    /\ \A k \in Sent : upward[k] \in Child => upward[k] < next
    /\ \A m \in got : m < next
    /\ \A i, j \in Slot : outBuf[i] \in Child /\ outBuf[i] = outBuf[j] => i = j

\* the slot whose message is on its way
InFlight(i) == wait = "queue" /\ i = First(outBuf)

\* Without resending, what waits has not been sent, and what is on its way has
\* not been handled and comes once.
Fresh ==
    /\ \A i \in Slot : outBuf[i] \in Child /\ ~InFlight(i) =>
          outBuf[i] \notin got /\ \A k \in Sent : upward[k] # outBuf[i]
    /\ \A k \in Sent : upward[k] \notin got
    /\ \A k, l \in Sent : upward[k] \in Child /\ upward[k] = upward[l] => k = l

\* As long as no two have waited at a time, what waits is the latest, and what
\* is on its way is in order behind what has been handled.
Ordered ==
    /\ \A i, j \in Slot : outBuf[i] \in Child /\ outBuf[j] \in Child => i = j
    /\ \A i \in Slot : outBuf[i] \in Child =>
          /\ \A m \in got : m <= outBuf[i]
          /\ \A k \in Sent : upward[k] \in Child => upward[k] <= outBuf[i]
    /\ \A k, l \in Sent : upward[k] \in Child /\ upward[l] \in Child /\ k <= l
                            => upward[k] <= upward[l]
    /\ \A k \in Sent, m \in got : upward[k] \in Child => m <= upward[k]

OnceInv ==
    /\ Known
    /\ ~again => Fresh
    /\ ~crowded => Ordered
    /\ OnceInOrder

LEMMA OnceInit == Init => OnceInv
<1> SUFFICES ASSUME Init PROVE OnceInv
  OBVIOUS
<1>1. \A i \in Slot : outBuf[i] \notin Child
  BY Distinct DEF Init
<1>2. Sent = {}
  BY DEF Init, Sent
<1> QED BY <1>1, <1>2 DEF Init, OnceInv, Known, Fresh, Ordered, OnceInOrder

\* Steps that bring nothing new into the queue, the wires and the hands of the
\* parent.
LEMMA CalmStep ==
    ASSUME OnceInv,
           \A i \in Slot : outBuf'[i] \in Child => outBuf'[i] = outBuf[i],
           upward' \in {upward, <<>>},
           UNCHANGED <<got, next, twice, crowded, overtaken>>,
           again' \in BOOLEAN, again => again',
           ~again' => \A i \in Slot : outBuf'[i] \in Child /\ InFlight(i) => InFlight(i)'
    PROVE  OnceInv'
<1>1. \A k \in Sent' : k \in Sent /\ upward'[k] = upward[k]
  BY DEF Sent
<1>2. Known'
  BY <1>1 DEF OnceInv, Known
<1>3. ASSUME ~again' PROVE Fresh'
  BY <1>1, <1>3 DEF OnceInv, Fresh
<1>4. ASSUME ~crowded' PROVE Ordered'
  BY <1>1, <1>4 DEF OnceInv, Ordered, Sent
<1>5. OnceInOrder'
  BY DEF OnceInv, OnceInOrder
<1> QED BY <1>2, <1>3, <1>4, <1>5 DEF OnceInv

\* Sending one message m of the house or of the node, or the first in the queue.
LEMMA SendStep ==
    ASSUME KeptInv, OnceInv, NEW m \in Message,
           \A i \in Slot : outBuf'[i] \in Child => outBuf'[i] = outBuf[i],
           upward' = Append(upward, m),
           wait = "idle",
           m \in Child => /\ wait' = "queue" /\ m = outBuf'[First(outBuf')]
                          /\ First(outBuf') \in Slot,
           UNCHANGED <<got, next, again, twice, crowded, overtaken>>
    PROVE  OnceInv'
<1> DEFINE n == Len(upward)
<1>1. n \in Nat
  BY DEF KeptInv, WireType
<1>2. /\ Sent' = 1..(n + 1) /\ upward'[n + 1] = m
      /\ \A k \in Sent : upward'[k] = upward[k]
  BY DEF KeptInv, WireType, Sent
<1>3. Sent = 1..n
  BY DEF Sent
<1> HIDE DEF n
<1>4. ASSUME NEW k \in Sent'
      PROVE  \/ k \in Sent /\ upward'[k] = upward[k]
             \/ k = n + 1 /\ upward'[k] = m
  <2>1. k \in 1..(n + 1)
    BY <1>2
  <2>2. k = n + 1 \/ k \in 1..n
    BY <1>1, <2>1
  <2> QED BY <1>2, <1>3, <2>2
<1>5. PICK f \in Slot : m \in Child => m = outBuf[f] /\ f = First(outBuf') /\ m = outBuf'[f]
  <2>1. 1 \in Slot
    BY MeshAssumption DEF Slot
  <2> QED BY <2>1
<1>6. Known'
  BY <1>2, <1>4, <1>5 DEF OnceInv, Known
<1>7. ASSUME ~again' PROVE Fresh'
  <2>1. Fresh /\ Known
    BY <1>7 DEF OnceInv
  <2>2. m \notin got
    BY <1>5, <2>1, Distinct DEF Fresh, Known, InFlight, Message
  <2>3. \A k \in Sent : m \in Child => upward[k] # m
    BY <1>5, <2>1 DEF Fresh, InFlight
  <2>4. ASSUME NEW i \in Slot, outBuf'[i] \in Child, ~InFlight(i)'
        PROVE  /\ outBuf[i] = outBuf'[i] /\ outBuf[i] # m
               /\ outBuf[i] \notin got /\ \A k \in Sent : upward[k] # outBuf[i]
    <3>1. outBuf[i] = outBuf'[i]
      BY <2>4
    <3>2. outBuf[i] \notin got /\ \A k \in Sent : upward[k] # outBuf[i]
      BY <2>1, <2>4, <3>1 DEF Fresh, InFlight
    <3>3. outBuf[i] # m
      BY <1>5, <2>1, <2>4, <3>1 DEF Known, InFlight
    <3> QED BY <3>1, <3>2, <3>3
  <2>5. \A k \in Sent' : upward'[k] \notin got'
    BY <1>2, <1>4, <2>1, <2>2 DEF Fresh
  <2>6. \A k, l \in Sent' : upward'[k] \in Child /\ upward'[k] = upward'[l] => k = l
    <3> SUFFICES ASSUME NEW k \in Sent', NEW l \in Sent',
                        upward'[k] \in Child, upward'[k] = upward'[l]
                 PROVE  k = l
      OBVIOUS
    <3>1. CASE k \in Sent /\ l \in Sent
      BY <1>2, <2>1, <3>1 DEF Fresh
    <3>2. CASE k \notin Sent \/ l \notin Sent
      BY <1>4, <2>3, <3>2
    <3> QED BY <3>1, <3>2
  <2>7. \A i \in Slot : outBuf'[i] \in Child /\ ~InFlight(i)' =>
          outBuf'[i] \notin got' /\ \A k \in Sent' : upward'[k] # outBuf'[i]
    BY <1>2, <1>4, <2>4
  <2> QED BY <2>5, <2>6, <2>7 DEF Fresh
<1>8. ASSUME ~crowded' PROVE Ordered'
  <2>1. Ordered /\ Known
    BY <1>8 DEF OnceInv
  <2>2. m \in Child => /\ \A x \in got : x <= m
                       /\ \A k \in Sent : upward[k] \in Child => upward[k] <= m
                       /\ \A i \in Slot : outBuf'[i] \in Child => outBuf'[i] = m
    BY <1>5, <2>1 DEF Ordered
  <2>3. m \in Child => m <= m
    BY MeshAssumption DEF Child
  <2>4. \A k, l \in Sent' : upward'[k] \in Child /\ upward'[l] \in Child /\ k <= l
                            => upward'[k] <= upward'[l]
    <3>1. \A k \in Sent : ~(n + 1 <= k)
      BY <1>1, <1>3
    <3> SUFFICES ASSUME NEW k \in Sent', NEW l \in Sent', k <= l,
                        upward'[k] \in Child, upward'[l] \in Child
                 PROVE  upward'[k] <= upward'[l]
      OBVIOUS
    <3>2. CASE k \in Sent /\ l \in Sent
      BY <1>2, <2>1, <3>2 DEF Ordered
    <3>3. CASE k \in Sent /\ l \notin Sent
      BY <1>4, <2>2, <3>3
    <3>4. CASE k \notin Sent
      BY <1>4, <2>3, <3>1, <3>4
    <3> QED BY <3>2, <3>3, <3>4
  <2>5. \A k \in Sent', x \in got' : upward'[k] \in Child => x <= upward'[k]
    <3> SUFFICES ASSUME NEW k \in Sent', NEW x \in got, upward'[k] \in Child
                 PROVE  x <= upward'[k]
      OBVIOUS
    <3>1. CASE k \in Sent /\ upward'[k] = upward[k]
      BY <2>1, <3>1 DEF Ordered
    <3>2. CASE upward'[k] = m
      BY <2>2, <3>2
    <3> QED BY <1>4, <3>1, <3>2
  <2>6. \A i \in Slot : outBuf'[i] \in Child =>
          /\ \A x \in got' : x <= outBuf'[i]
          /\ \A k \in Sent' : upward'[k] \in Child => upward'[k] <= outBuf'[i]
    <3> SUFFICES ASSUME NEW i \in Slot, outBuf'[i] \in Child
                 PROVE  /\ \A x \in got : x <= outBuf[i]
                        /\ \A k \in Sent' : upward'[k] \in Child => upward'[k] <= outBuf[i]
      OBVIOUS
    <3>1. outBuf[i] \in Child /\ outBuf'[i] = outBuf[i]
      OBVIOUS
    <3>2. \A x \in got : x <= outBuf[i]
      BY <2>1, <3>1 DEF Ordered
    <3>3. ASSUME NEW k \in Sent', upward'[k] \in Child
          PROVE  upward'[k] <= outBuf[i]
      <4>1. CASE k \in Sent /\ upward'[k] = upward[k]
        BY <2>1, <3>1, <3>3, <4>1 DEF Ordered
      <4>2. CASE upward'[k] = m
        BY <2>2, <2>3, <3>1, <3>3, <4>2
      <4> QED BY <1>4, <4>1, <4>2
    <3> QED BY <3>2, <3>3
  <2>7. \A i, j \in Slot : outBuf'[i] \in Child /\ outBuf'[j] \in Child => i = j
    BY <2>1 DEF Ordered
  <2> QED BY <2>4, <2>5, <2>6, <2>7 DEF Ordered
<1>9. OnceInOrder'
  BY DEF OnceInv, OnceInOrder
<1> QED BY <1>6, <1>7, <1>8, <1>9 DEF OnceInv

\* A queue into which one message is put: in one slot that was empty, or not.
LEMMA PutInOneSlot ==
    ASSUME NEW buf \in [Slot -> Child \cup {House, Empty}], NEW m \in Child \cup {House}
    PROVE  \/ Put(buf, m) = buf
           \/ \E f \in Slot : buf[f] = Empty /\ Put(buf, m) = [buf EXCEPT ![f] = m]
BY FirstFree DEF Put

\* A message of the house adds none of a child.
LEMMA PutHouse ==
    ASSUME NEW buf \in [Slot -> Child \cup {House, Empty}]
    PROVE  \A i \in Slot : Put(buf, House)[i] \in Child => Put(buf, House)[i] = buf[i]
<1>1. CASE Put(buf, House) = buf
  BY <1>1
<1>2. ASSUME NEW f \in Slot, Put(buf, House) = [buf EXCEPT ![f] = House]
      PROVE  \A i \in Slot : Put(buf, House)[i] \in Child => Put(buf, House)[i] = buf[i]
  BY <1>2, Distinct
<1> QED BY <1>1, <1>2, PutInOneSlot

LEMMA PassOnce == KeptInv /\ OnceInv /\ Pass => OnceInv'
<1> SUFFICES ASSUME KeptInv, OnceInv, Pass PROVE OnceInv'
  OBVIOUS
<1>1. /\ outBuf' \in [Slot -> Child \cup {House, Empty}]
      /\ \A i \in Slot : outBuf'[i] \in Child => outBuf'[i] = outBuf[i]
  BY PutHouse, PutKeeps DEF Pass, KeptInv, WireType
<1>2. /\ wait = "idle" /\ again \in BOOLEAN
      /\ UNCHANGED <<got, next, again, twice, crowded, overtaken>>
  BY DEF Pass, OnceInv, Known
<1>3. CASE upward' \in {upward, <<>>}
  BY <1>1, <1>2, <1>3, CalmStep DEF InFlight
<1>4. CASE upward' = Append(upward, outBuf'[First(outBuf')]) /\ wait' = "queue"
           /\ Used(outBuf') # {}
  <2> DEFINE m == outBuf'[First(outBuf')]
  <2>1. First(outBuf') \in Slot /\ m # Empty
    BY <1>4, FirstInUse
  <2>2. m \in Message
    BY <1>1, <2>1 DEF Message
  <2> QED BY <1>1, <1>2, <1>4, <2>1, <2>2, SendStep
<1> QED BY <1>3, <1>4 DEF Pass, Lost

LEMMA PublishOwnOnce == KeptInv /\ OnceInv /\ PublishOwn => OnceInv'
<1> SUFFICES ASSUME KeptInv, OnceInv, PublishOwn PROVE OnceInv'
  OBVIOUS
<1>1. Own \in Message /\ Own \notin Child
  BY Distinct DEF Message
<1>2. /\ UNCHANGED outBuf /\ upward' = Append(upward, Own) /\ wait = "idle"
      /\ UNCHANGED <<got, next, again, twice, crowded, overtaken>>
  BY DEF PublishOwn, ghosts
<1> QED BY <1>1, <1>2, SendStep

\* Two messages of children in different slots crowd the queue.
LEMMA TwoCrowd ==
    ASSUME NEW buf, NEW i \in Slot, NEW j \in Slot,
           buf[i] \in Child, buf[j] \in Child, buf[i] # buf[j]
    PROVE  Crowds(buf)
<1>1. IsFiniteSet(Queued(buf))
  <2>1. IsFiniteSet(Child)
    BY MeshAssumption, FS_Interval DEF Child
  <2>2. Queued(buf) \subseteq Child
    BY DEF Queued
  <2> QED BY <2>1, <2>2, FS_Subset
<1>2. {buf[i], buf[j]} \subseteq Queued(buf)
  BY DEF Queued
<1>3. Cardinality({buf[i], buf[j]}) = 2
  <2>1. IsFiniteSet({buf[i]}) /\ Cardinality({buf[i]}) = 1
    BY FS_Singleton
  <2>2. Cardinality({buf[i]} \cup {buf[j]}) = 2
    BY <2>1, FS_AddElement
  <2>3. {buf[i]} \cup {buf[j]} = {buf[i], buf[j]}
    OBVIOUS
  <2> QED BY <2>2, <2>3
<1>4. 2 <= Cardinality(Queued(buf)) /\ Cardinality(Queued(buf)) \in Nat
  BY <1>1, <1>2, <1>3, FS_Subset, FS_CardinalityType
<1> QED BY <1>4 DEF Crowds

\* A new message is later than all before, and the queue knows when it crowds.
LEMMA OnDataOnce == KeptInv /\ OnceInv /\ OnData => OnceInv'
<1> SUFFICES ASSUME KeptInv, OnceInv, OnData PROVE OnceInv'
  OBVIOUS
<1>1. /\ wait = "idle" /\ next \in Child /\ next' = next + 1
      /\ next \in Nat
      /\ crowded' = (crowded \/ Crowds(outBuf'))
      /\ UNCHANGED <<wait, upward, got, again, twice, overtaken>>
  BY MeshAssumption DEF OnData, KeptInv, WireType, Child, wires
<1>2. Known
  BY DEF OnceInv
<1>3. Sent' = Sent
  BY <1>1 DEF Sent
<1>4. CASE outBuf' = outBuf
  <2>1. Known'
    BY <1>1, <1>2, <1>3, <1>4, MeshAssumption DEF Known, Child
  <2> QED BY <1>1, <1>3, <1>4, <2>1 DEF OnceInv, Fresh, Ordered, OnceInOrder, InFlight
<1>5. ASSUME NEW f \in Slot, outBuf[f] = Empty, outBuf' = [outBuf EXCEPT ![f] = next]
      PROVE  OnceInv'
  <2>1. \A i \in Slot : outBuf'[i] = IF i = f THEN next ELSE outBuf[i]
    BY <1>5 DEF KeptInv, WireType
  <2>2. /\ \A i \in Slot : outBuf[i] \in Child => outBuf[i] < next /\ outBuf[i] < next + 1
        /\ \A k \in Sent : upward[k] \in Child => upward[k] < next /\ upward[k] < next + 1
        /\ \A m \in got : m < next /\ m < next + 1
    BY <1>1, <1>2, MeshAssumption DEF Known, Child
  <2>3. next < next + 1 /\ ~(next < next)
    BY <1>1
  <2>4. Known'
    BY <1>1, <1>2, <1>3, <2>1, <2>2, <2>3 DEF Known
  <2>5. ASSUME ~again' PROVE Fresh'
    BY <1>1, <1>3, <2>1, <2>2, <2>3, <2>5 DEF OnceInv, Fresh, InFlight
  <2>6. ASSUME ~crowded' PROVE Ordered'
    <3>1. Ordered
      BY <1>1, <2>6 DEF OnceInv
    <3>2. \A i, j \in Slot : outBuf'[i] \in Child /\ outBuf'[j] \in Child => i = j
      <4>1. ASSUME NEW i \in Slot, outBuf'[i] \in Child, i # f PROVE FALSE
        <5>1. outBuf'[f] = next /\ outBuf'[i] # next
          BY <2>1, <2>2, <2>3, <4>1
        <5> QED BY <1>1, <2>6, <4>1, <5>1, TwoCrowd
      <4> QED BY <4>1
    <3>3. \A x \in Nat : x < next => x <= next
      BY <1>1
    <3>4. \A i \in Slot : outBuf'[i] \in Child =>
            /\ \A m \in got : m <= outBuf'[i]
            /\ \A k \in Sent : upward[k] \in Child => upward[k] <= outBuf'[i]
      BY <1>1, <1>2, <2>1, <2>2, <3>1, <3>3, MeshAssumption DEF Ordered, Known, Child
    <3> QED BY <1>1, <1>3, <3>1, <3>2, <3>4 DEF Ordered
  <2>7. OnceInOrder'
    BY <1>1 DEF OnceInv, Known, OnceInOrder
  <2> QED BY <2>4, <2>5, <2>6, <2>7 DEF OnceInv
<1> QED BY <1>1, <1>4, <1>5, PutInOneSlot DEF OnData, KeptInv, WireType

\* The parent handles the first of what has come and skips the next ones.
LEMMA ServeOnce == KeptInv /\ OnceInv /\ Serve => OnceInv'
<1> SUFFICES ASSUME KeptInv, OnceInv, Serve PROVE OnceInv'
  OBVIOUS
<1>1. /\ upward \in Seq(Message) /\ upward # <<>>
      /\ UNCHANGED <<outBuf, wait, next, again, crowded>>
  BY DEF Serve, node, KeptInv, WireType
<1> DEFINE m == upward[1]
<1>2. PICK n \in 1..Len(upward) :
         /\ upward' = SubSeq(upward, n + 1, Len(upward))
         /\ got' = got \cup ({m} \cap Child)
         /\ twice' = (twice \/ m \in got)
         /\ overtaken' = (overtaken \/ (m \in Child \ got /\ \E l \in got : l > m))
  BY <1>1 DEF Serve
<1>3. m \in Message /\ 1 \in Sent
  BY <1>1 DEF Sent
<1> HIDE DEF m
<1>4. ASSUME NEW k \in Sent'
      PROVE  k + n \in Sent /\ upward'[k] = upward[k + n] /\ k + n # 1
  <2>1. Len(upward) \in Nat /\ n \in Nat /\ n <= Len(upward) /\ n # 0
    BY <1>1
  <2>2. /\ Len(upward') = Len(upward) - n
        /\ \A i \in 1..(Len(upward) - n) : upward'[i] = upward[i + n]
    BY <1>1, <1>2, <2>1
  <2>3. k \in 1..(Len(upward) - n)
    BY <2>2 DEF Sent
  <2> QED BY <2>1, <2>2, <2>3 DEF Sent
<1>5. Known
  BY DEF OnceInv
<1>6. Known'
  BY <1>1, <1>2, <1>3, <1>4, <1>5 DEF Known, m
<1>7. m \in got => m \in Child
  BY <1>5 DEF Known
<1>8. ASSUME ~again' PROVE Fresh'
  <2>1. Fresh
    BY <1>1, <1>8 DEF OnceInv
  <2>2. \A i \in Slot : outBuf[i] \in Child /\ ~InFlight(i) => outBuf[i] # m
    BY <1>3, <2>1 DEF Fresh, m
  <2>3. \A k \in Sent : upward[k] \in Child /\ k # 1 => upward[k] # m
    BY <1>3, <2>1 DEF Fresh, m
  <2>4. \A i \in Slot : outBuf'[i] \in Child /\ ~InFlight(i)' =>
          outBuf'[i] \notin got' /\ \A k \in Sent' : upward'[k] # outBuf'[i]
    BY <1>1, <1>2, <1>4, <2>1, <2>2 DEF Fresh, InFlight
  <2>5. \A k \in Sent' : upward'[k] \notin got'
    BY <1>2, <1>4, <2>1, <2>3 DEF Fresh
  <2>6. ASSUME NEW k \in Sent', NEW l \in Sent', upward'[k] \in Child,
               upward'[k] = upward'[l]
        PROVE  k = l
    <3>1. k + n = l + n
      BY <1>4, <2>1, <2>6 DEF Fresh
    <3> QED BY <1>1, <3>1 DEF Sent
  <2> QED BY <2>4, <2>5, <2>6 DEF Fresh
<1>9. ASSUME ~crowded' PROVE Ordered'
  <2>1. Ordered
    BY <1>1, <1>9 DEF OnceInv
  <2>2. \A i \in Slot : outBuf[i] \in Child => \A x \in got' : x <= outBuf[i]
    BY <1>2, <1>3, <2>1 DEF Ordered, m
  <2>3. ASSUME NEW k \in Sent, upward[k] \in Child
        PROVE  \A x \in got' : x <= upward[k]
    <3>1. 1 <= k
      BY <1>1 DEF Sent
    <3>2. m \in Child => m <= upward[k]
      BY <1>3, <2>1, <2>3, <3>1 DEF Ordered, m
    <3> QED BY <1>2, <2>1, <2>3, <3>2 DEF Ordered
  <2>4. ASSUME NEW k \in Sent', NEW l \in Sent', k <= l,
               upward'[k] \in Child, upward'[l] \in Child
        PROVE  upward'[k] <= upward'[l]
    <3>1. k + n <= l + n
      BY <1>1, <2>4 DEF Sent
    <3> QED BY <1>4, <2>1, <2>4, <3>1 DEF Ordered
  <2>5. \A k \in Sent', x \in got' : upward'[k] \in Child => x <= upward'[k]
    BY <1>4, <2>3
  <2>6. \A i \in Slot : outBuf'[i] \in Child =>
          /\ \A x \in got' : x <= outBuf'[i]
          /\ \A k \in Sent' : upward'[k] \in Child => upward'[k] <= outBuf'[i]
    BY <1>1, <1>4, <2>1, <2>2 DEF Ordered
  <2> QED BY <1>1, <2>1, <2>4, <2>5, <2>6 DEF Ordered
\* a second time needs a resend, an earlier message behind a later one a crowd
<1>10. twice' => again'
  BY <1>1, <1>2, <1>3, <1>7 DEF OnceInv, OnceInOrder, Fresh, m
<1>11. ASSUME overtaken' PROVE crowded'
  <2>1. CASE overtaken
    BY <1>1, <2>1 DEF OnceInv, OnceInOrder
  <2>2. ASSUME m \in Child, NEW l \in got, l > m, ~crowded PROVE FALSE
    <3>1. l <= m
      BY <1>3, <2>2 DEF OnceInv, Ordered, m
    <3>2. l \in Nat /\ m \in Nat
      BY <1>5, <2>2, MeshAssumption DEF Known, Child
    <3> QED BY <2>2, <3>1, <3>2
  <2> QED BY <1>1, <1>2, <1>11, <2>1, <2>2
<1> QED BY <1>1, <1>6, <1>8, <1>9, <1>10, <1>11 DEF OnceInv, OnceInOrder

\* The steps that only end a wait, read bytes or lose the connection.
LEMMA EndOfWaitOnce == KeptInv /\ OnceInv /\ (Acked \/ GiveUp) => OnceInv'
<1> SUFFICES ASSUME KeptInv, OnceInv, Acked \/ GiveUp PROVE OnceInv'
  OBVIOUS
<1>1. /\ wait' = "idle" /\ upward' = upward
      /\ UNCHANGED <<got, next, twice, crowded, overtaken>>
      /\ again' \in BOOLEAN /\ (again => again')
  BY DEF Acked, GiveUp, wires, OnceInv, Known
<1>2. outBuf \in [Slot -> Child \cup {House, Empty}]
  BY DEF KeptInv, WireType
<1>3. CASE wait = "queue" /\ Acked
  <2>1. outBuf' = [outBuf EXCEPT ![First(outBuf)] = Empty]
    BY <1>3 DEF Acked, Freed
  <2>2. First(outBuf) \in Slot
    BY <1>3, FirstInUse DEF KeptInv, WaitsForOne
  <2>3. \A i \in Slot : outBuf'[i] \in Child => outBuf'[i] = outBuf[i] /\ ~InFlight(i)
    BY <1>2, <2>1, <2>2, Distinct DEF InFlight
  <2> QED BY <1>1, <2>3, CalmStep
<1>4. CASE Welcomed /\ wait # "queue"
  <2> DEFINE one == Put(outBuf, House)
  <2>1. /\ one \in [Slot -> Child \cup {House, Empty}]
        /\ \A i \in Slot : one[i] \in Child => one[i] = outBuf[i]
    BY <1>2, PutKeeps, PutHouse
  <2>2. outBuf' = Put(one, House)
    BY <1>4 DEF Welcomed
  <2> HIDE DEF one
  <2>3. \A i \in Slot : outBuf'[i] \in Child => outBuf'[i] = one[i]
    BY <2>1, <2>2, PutHouse
  <2>4. \A i \in Slot : outBuf'[i] \in Child => outBuf'[i] = outBuf[i]
    BY <2>1, <2>3
  <2> QED BY <1>1, <1>4, <2>4, CalmStep DEF InFlight
<1>5. CASE outBuf' = outBuf /\ (wait = "queue" => again')
  BY <1>1, <1>5, CalmStep DEF InFlight
<1> QED BY <1>3, <1>4, <1>5 DEF Acked, GiveUp

LEMMA BreakOnce == KeptInv /\ OnceInv /\ Break => OnceInv'
<1> SUFFICES ASSUME KeptInv, OnceInv, Break PROVE OnceInv'
  OBVIOUS
<1>1. /\ UNCHANGED <<outBuf, wait, got, next, twice, crowded, overtaken>> /\ upward' = <<>>
      /\ again' = (again \/ wait # "idle")
  BY DEF Break, Lost, node
<1> QED BY <1>1, CalmStep DEF InFlight, OnceInv, Known

LEMMA OnceStep == KeptInv /\ OnceInv /\ [Next]_vars => OnceInv'
<1> SUFFICES ASSUME KeptInv, OnceInv, [Next]_vars PROVE OnceInv'
  OBVIOUS
<1>1. CASE Connect
  BY <1>1, CalmStep DEF Connect, InFlight, OnceInv, Known
<1>2. CASE Skip \/ Greet \/ Broadcast \/ Tick \/ UNCHANGED vars
  <2>1. UNCHANGED <<outBuf, wait, upward, got, next, again, twice, crowded, overtaken>>
    BY <1>2 DEF Skip, Greet, Broadcast, Tick, vars, node, wires, ghosts
  <2> QED BY <2>1, CalmStep DEF InFlight, OnceInv, Known
<1> QED BY <1>1, <1>2, PassOnce, PublishOwnOnce, OnDataOnce, ServeOnce, EndOfWaitOnce,
           BreakOnce DEF Next

\* Without resending, no message is handled twice; and only where two messages
\* of children waited at a time can a later one overtake an earlier: the lowest
\* slot first is a queue of one.
THEOREM OnceInOrderAlways == Spec => []OnceInOrder
<1>1. OnceInv => OnceInOrder
  BY DEF OnceInv
<1>2. Init => KeptInv /\ OnceInv
  BY KeptInit, OnceInit
<1>3. KeptInv /\ OnceInv /\ [Next]_vars => (KeptInv /\ OnceInv)'
  BY KeptStep, OnceStep
<1> QED BY <1>1, <1>2, <1>3, PTL DEF Spec

-----------------------------------------------------------------------------
(* Types.                                                                  *)

\* What the type invariant says beyond KeptInv.
BoundType ==
    /\ silent \in 0..2
    /\ Len(upward) <= Wire
    /\ got \subseteq Child /\ dropped \subseteq Child /\ doubt \subseteq Child
    /\ {risky, again, twice, crowded, overtaken} \subseteq BOOLEAN
    /\ trouble \in 0..MaxTrouble

LEMMA BoundStep == KeptInv /\ BoundType /\ [Next]_vars => BoundType'
<1> SUFFICES ASSUME KeptInv, BoundType, [Next]_vars PROVE BoundType'
  OBVIOUS
<1> USE MeshAssumption DEF BoundType
<1>1. /\ upward \in Seq(Message) /\ next \in 1..(MaxMsg + 1) /\ link \in BOOLEAN
      /\ Len(<<>>) = 0
  BY DEF KeptInv, WireType
<1>2. CASE Pass
  <2>1. Len(upward') <= Wire
    <3> DEFINE m == outBuf'[First(outBuf')]
    <3>1. \/ upward' = upward \/ upward' = <<>>
          \/ Len(upward) < Wire /\ upward' = Append(upward, m)
      BY <1>2 DEF Pass, Lost
    <3> HIDE DEF m
    <3>2. upward' = Append(upward, m) => Len(upward') = Len(upward) + 1
      BY <1>1
    <3>3. Len(upward) \in Nat
      BY <1>1
    <3> QED BY <1>1, <3>1, <3>2, <3>3
  <2> QED BY <1>2, <2>1 DEF Pass
<1>3. CASE PublishOwn
  BY <1>1, <1>3 DEF PublishOwn, ghosts
<1>4. CASE OnData
  BY <1>1, <1>4 DEF OnData, wires, Child
<1>5. CASE Acked
  <2>1. risky' \in BOOLEAN /\ doubt' \subseteq Child
    BY <1>5 DEF Acked
  <2> QED BY <1>5, <2>1 DEF Acked
<1>6. CASE GiveUp
  <2>1. trouble' \in 0..MaxTrouble
    BY <1>1, <1>6 DEF GiveUp
  <2>2. again' \in BOOLEAN /\ risky' \in BOOLEAN
    BY <1>6 DEF GiveUp
  <2> QED BY <1>6, <2>1, <2>2 DEF GiveUp, wires
<1>7. CASE Serve
  <2>1. Len(upward') <= Wire
    BY <1>1, <1>7 DEF Serve
  <2>2. /\ got' \subseteq Child /\ twice' \in BOOLEAN /\ overtaken' \in BOOLEAN
    BY <1>7 DEF Serve
  <2> QED BY <1>7, <2>1, <2>2 DEF Serve, node
<1>8. CASE Break
  BY <1>1, <1>8 DEF Break, Lost, node
<1>9. CASE Tick
  BY <1>9 DEF Tick, wires, ghosts
<1>10. CASE Skip \/ Connect \/ Greet \/ Broadcast \/ UNCHANGED vars
  BY <1>10 DEF Skip, Connect, Greet, Broadcast, vars, node, wires, ghosts
<1> QED BY <1>2, <1>3, <1>4, <1>5, <1>6, <1>7, <1>8, <1>9, <1>10 DEF Next

\* The queue never grows beyond its slots nor a receive buffer beyond its size,
\* and who waits for the ACK of the queue has something in it.
THEOREM TypeCorrect == Spec => []TypeOK
<1>1. Init => BoundType
  <2>1. Len(<<>>) = 0
    OBVIOUS
  <2>2. 0 <= Wire /\ 0 \in 0..MaxTrouble
    BY MeshAssumption
  <2> SUFFICES ASSUME Init PROVE BoundType
    OBVIOUS
  <2>3. Len(upward) <= Wire
    BY <2>1, <2>2 DEF Init
  <2>4. {risky, again, twice, crowded, overtaken} \subseteq BOOLEAN
    BY DEF Init
  <2> QED BY <2>2, <2>3, <2>4 DEF Init, BoundType
<1>2. KeptInv /\ BoundType => TypeOK
  BY DEF KeptInv, WireType, WaitsForOne, DeadIsEmpty, BoundType, TypeOK, Message
<1> QED BY <1>1, <1>2, KeptInit, KeptStep, BoundStep, PTL DEF Spec
=============================================================================
