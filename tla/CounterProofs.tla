--------------------------- MODULE CounterProofs ---------------------------
(* The pulse counter, for every ghost time, every count to start with and   *)
(* every number of pulses, restarts and broken links.                       *)
EXTENDS Counter, Integers, SequenceTheorems, TLAPS

\* What may be on its way to the broker while the total is t.
Upward(t) == {Sub, Unsub} \cup {Report(n) : n \in 0..t}

\* The positions of the reports in the queue q.
Reports(q) == {i \in 1..Len(q) : q[i].kind = "publish"}

-----------------------------------------------------------------------------
(* The messages and the queues.                                            *)

\* A message is one of the three kinds, told apart by its kind.
LEMMA Kinds ==
    ASSUME NEW t \in Nat, NEW m \in Upward(t)
    PROVE  /\ m = Sub <=> m.kind = "subscribe"
           /\ m = Unsub <=> m.kind = "unsubscribe"
           /\ m.kind \in {"subscribe", "unsubscribe", "publish"}
           /\ m.kind = "publish" => m.count \in 0..t /\ m = Report(m.count)
<1>1. CASE m = Sub
  BY <1>1 DEF Sub, Unsub
<1>2. CASE m = Unsub
  BY <1>2 DEF Sub, Unsub
<1>3. CASE \E n \in 0..t : m = Report(n)
  <2>1. PICK n \in 0..t : m = Report(n)
    BY <1>3
  <2>2. m.kind = "publish" /\ m.count = n
    BY <2>1 DEF Report
  <2>3. Sub.kind = "subscribe" /\ Unsub.kind = "unsubscribe"
    BY DEF Sub, Unsub
  <2>4. m # Sub /\ m # Unsub
    BY <2>2, <2>3
  <2> QED BY <2>1, <2>2, <2>4
<1> QED BY <1>1, <1>2, <1>3 DEF Upward

LEMMA KindOf ==
    /\ Sub.kind = "subscribe" /\ Unsub.kind = "unsubscribe" /\ Sub # Unsub
    /\ \A n : Report(n).kind = "publish" /\ Report(n).count = n
    /\ \A t \in Nat : Sub \in Upward(t) /\ Unsub \in Upward(t)
    /\ \A t \in Nat : \A n \in 0..t : Report(n) \in Upward(t)
<1>1. Sub.kind = "subscribe" /\ Unsub.kind = "unsubscribe"
  BY DEF Sub, Unsub
<1>2. \A n : Report(n).kind = "publish" /\ Report(n).count = n
  BY DEF Report
<1> QED BY <1>1, <1>2 DEF Upward

\* A publish puts the report behind the queue, and an unsubscription for every
\* answer that arrives in it.
LEMMA PublishQueue ==
    ASSUME NEW t \in Nat, NEW q \in Seq(Upward(t)), NEW n \in 0..t,
           NEW got \in Seq(Nat)
    PROVE  LET r == q \o (<<Report(n)>> \o Thanks(got))
           IN  /\ r \in Seq(Upward(t))
               /\ Len(r) = Len(q) + 1 + Len(got)
               /\ \A i \in 1..Len(q) : r[i] = q[i]
               /\ r[Len(q) + 1] = Report(n)
               /\ \A i \in (Len(q) + 2)..Len(r) : r[i] = Unsub
<1>1. Len(got) \in Nat /\ DOMAIN got = 1..Len(got) /\ Len(q) \in Nat
  OBVIOUS
<1>2. PICK S : S = Upward(t)
  OBVIOUS
<1>3. PICK thanks : thanks = Thanks(got)
  OBVIOUS
<1>4. PICK one : one = <<Report(n)>>
  OBVIOUS
<1>5. /\ thanks \in Seq(S) /\ Len(thanks) = Len(got)
      /\ \A i \in 1..Len(got) : thanks[i] = Unsub
  <2>1. thanks = [i \in 1..Len(got) |-> Unsub]
    BY <1>1, <1>3 DEF Thanks
  <2>2. Unsub \in S
    BY <1>2, KindOf
  <2> QED BY <1>1, <2>1, <2>2
<1>6. one \in Seq(S) /\ Len(one) = 1 /\ one[1] = Report(n)
  BY <1>2, <1>4, KindOf
<1>7. PICK tail : tail = one \o thanks
  OBVIOUS
<1>8. /\ tail \in Seq(S) /\ Len(tail) = 1 + Len(got)
      /\ \A i \in 1..(1 + Len(got)) :
            tail[i] = IF i <= 1 THEN one[i] ELSE thanks[i - 1]
  <2>1. /\ tail \in Seq(S) /\ Len(tail) = Len(one) + Len(thanks)
        /\ \A i \in 1..(Len(one) + Len(thanks)) :
              tail[i] = IF i <= Len(one) THEN one[i] ELSE thanks[i - Len(one)]
    BY <1>5, <1>6, <1>7, ConcatProperties, ZenonT(30)
  <2>2. Len(one) = 1 /\ Len(thanks) = Len(got)
    BY <1>5, <1>6
  <2> QED BY <2>1, <2>2
<1>9. tail[1] = Report(n) /\ \A i \in 2..Len(tail) : tail[i] = Unsub
  <2>1. \A i \in 2..Len(tail) : i - 1 \in 1..Len(got) /\ i \in 1..(1 + Len(got)) /\ ~(i <= 1)
    BY <1>1, <1>8
  <2>2. 1 \in 1..(1 + Len(got)) /\ 1 <= 1
    BY <1>1
  <2>3. tail[1] = one[1]
    BY <1>8, <2>2
  <2>4. \A i \in 2..Len(tail) : tail[i] = Unsub
    BY <1>5, <1>8, <2>1
  <2> QED BY <1>6, <2>3, <2>4
<1>10. PICK r : r = q \o tail
  OBVIOUS
<1>11. /\ r \in Seq(S) /\ Len(r) = Len(q) + Len(tail)
       /\ \A i \in 1..(Len(q) + Len(tail)) :
             r[i] = IF i <= Len(q) THEN q[i] ELSE tail[i - Len(q)]
  BY <1>2, <1>8, <1>10, ConcatProperties
<1>12. Len(r) = Len(q) + 1 + Len(got)
  BY <1>1, <1>8, <1>11
<1>13. \A i \in 1..Len(q) : r[i] = q[i]
  BY <1>1, <1>8, <1>11
<1>14. r[Len(q) + 1] = Report(n)
  <2>1. /\ Len(q) + 1 \in 1..(Len(q) + Len(tail)) /\ ~(Len(q) + 1 <= Len(q))
        /\ Len(q) + 1 - Len(q) = 1
    BY <1>1, <1>8
  <2> QED BY <1>9, <1>11, <2>1
<1>15. ASSUME NEW i \in (Len(q) + 2)..Len(r)
       PROVE  r[i] = Unsub
  <2>1. /\ i \in 1..(Len(q) + Len(tail)) /\ ~(i <= Len(q))
        /\ i - Len(q) \in 2..Len(tail)
    BY <1>1, <1>8, <1>11
  <2> QED BY <1>9, <1>11, <2>1
<1> QED BY <1>2, <1>3, <1>4, <1>7, <1>10, <1>11, <1>12, <1>13, <1>14, <1>15

\* A queue of a smaller total is one of a greater.
LEMMA QueueGrows ==
    ASSUME NEW t \in Nat
    PROVE  /\ Seq(Upward(t)) \subseteq Seq(Upward(t + 1))
           /\ Seq(0..t) \subseteq Seq(0..(t + 1))
<1>1. Upward(t) \subseteq Upward(t + 1)
  BY DEF Upward
<1>2. 0..t \subseteq 0..(t + 1)
  OBVIOUS
<1> QED BY <1>1, <1>2, SeqMonotonic

-----------------------------------------------------------------------------
(* Type correctness.                                                       *)

\* What bounds the total: a pulse takes the level from high, or from garbage,
\* to low; to come back takes an edge or a restart.
Spare(t, l, p, e, f) ==
    \E start \in Starts :
        t + (IF l # Low \/ p = High THEN 1 ELSE 0) <= start + e + f + 1

\* The inductive invariant: TypeOK, with the queues as sequences, and the
\* reason why the total is bounded.
Typed ==
    /\ pin \in {Low, High} /\ last \in {Low, High} /\ level \in Byte
    /\ stable \in 0..(Ghost + 1)
    /\ total \in Nat /\ value \in 0..total /\ retained \in 0..total
    /\ up \in Seq(Upward(total)) /\ down \in Seq(0..total)
    /\ Spare(total, level, pin, edges, faults)
    /\ link \in {"down", "up", "broken"}
    /\ outdated \in BOOLEAN /\ subscribed \in BOOLEAN
    /\ excused \in BOOLEAN /\ blind \in BOOLEAN
    /\ edges \in 0..MaxEdges /\ faults \in 0..MaxFaults

LEMMA TypedGivesTypeOK == Typed => TypeOK
<1> SUFFICES ASSUME Typed
             PROVE  TypeOK
  OBVIOUS
<1>1. \A n \in {value, retained} \cup ToSet(down) : n \in 0..total
  <2>1. \A i \in DOMAIN down : down[i] \in 0..total
    BY DEF Typed
  <2> QED BY <2>1 DEF ToSet, Typed
<1>2. \A i \in DOMAIN up : up[i] \in {Sub, Unsub} \cup {Report(n) : n \in 0..total}
  <2>1. \A i \in DOMAIN up : up[i] \in Upward(total)
    BY DEF Typed
  <2> QED BY <2>1 DEF Upward
<1>3. \E start \in Starts : total <= start + MaxEdges + MaxFaults + 1
  <2>1. PICK start \in Starts :
           total + (IF level # Low \/ pin = High THEN 1 ELSE 0)
             <= start + edges + faults + 1
    BY DEF Typed, Spare
  <2>2. start \in Nat
    BY CounterAssumption
  <2> QED BY <2>1, <2>2, CounterAssumption DEF Typed
<1> QED BY <1>1, <1>2, <1>3 DEF Typed, TypeOK

LEMMA TypedInit == Init => Typed
<1> SUFFICES ASSUME Init
             PROVE  Typed
  OBVIOUS
<1>1. retained \in Nat /\ total = retained
  BY CounterAssumption DEF Init
<1>2. up \in Seq(Upward(total)) /\ down \in Seq(0..total)
  BY DEF Init
<1>3. total + (IF level # Low \/ pin = High THEN 1 ELSE 0) <= total + edges + faults + 1
  BY <1>1 DEF Init, High
<1>4. /\ pin \in {Low, High} /\ last \in {Low, High} /\ level \in Byte
      /\ stable \in 0..(Ghost + 1) /\ edges \in 0..MaxEdges /\ faults \in 0..MaxFaults
  BY CounterAssumption DEF Init
<1>5. /\ total \in Nat /\ value \in 0..total /\ retained \in 0..total
  BY <1>1 DEF Init
<1>6. Spare(total, level, pin, edges, faults)
  BY <1>3 DEF Init, Spare
<1> QED BY <1>2, <1>4, <1>5, <1>6 DEF Init, Typed

\* Edges and restarts leave room for the pulses.
LEMMA SpareStep ==
    ASSUME NEW t \in Nat, NEW l, NEW p \in {Low, High}, NEW e \in Nat, NEW f \in Nat,
           Spare(t, l, p, e, f)
    PROVE  /\ \A q : Spare(t, l, q, e + 1, f)
           /\ \A k : Spare(t, k, p, e, f + 1)
           /\ Spare(t, p, p, e, f)
           /\ l # Low => Spare(t + 1, Low, Low, e, f)
<1>1. PICK start \in Starts :
         t + (IF l # Low \/ p = High THEN 1 ELSE 0) <= start + e + f + 1
  BY DEF Spare
<1>2. start \in Nat
  BY CounterAssumption
<1>3. ASSUME NEW q PROVE Spare(t, l, q, e + 1, f)
  BY <1>1, <1>2 DEF Spare
<1>4. ASSUME NEW k PROVE Spare(t, k, p, e, f + 1)
  BY <1>1, <1>2 DEF Spare
<1>5. Spare(t, p, p, e, f)
  BY <1>1, <1>2 DEF Spare, Low, High
<1>6. ASSUME l # Low PROVE Spare(t + 1, Low, Low, e, f)
  BY <1>1, <1>2, <1>6 DEF Spare, Low, High
<1> QED BY <1>3, <1>4, <1>5, <1>6

\* The queues after one of the unit's or the broker's steps.
LEMMA ReceiveQueues ==
    ASSUME Typed, Receive
    PROVE  /\ down[1] \in 0..total /\ value' = down[1]
           /\ up' \in Seq(Upward(total)) /\ Len(up') = Len(up) + 1
           /\ \A i \in 1..Len(up) : up'[i] = up[i]
           /\ up'[Len(up) + 1] = Unsub
           /\ down' \in Seq(0..total) /\ Len(down') = Len(down) - 1
           /\ \A i \in 1..Len(down') : down'[i] = down[i + 1]
<1>1. Unsub \in Upward(total)
  BY KindOf DEF Typed
<1>2. up \in Seq(Upward(total)) /\ down \in Seq(0..total) /\ down # <<>>
  BY DEF Typed, Receive
<1>3. up' = Append(up, Unsub) /\ down' = Tail(down) /\ value' = Head(down)
  BY DEF Receive
<1>4. /\ up' \in Seq(Upward(total)) /\ Len(up') = Len(up) + 1
      /\ \A i \in 1..Len(up) : up'[i] = up[i]
      /\ up'[Len(up) + 1] = Unsub
  BY <1>1, <1>2, <1>3, AppendProperties
<1>5. /\ down' \in Seq(0..total) /\ Len(down') = Len(down) - 1
      /\ \A i \in 1..Len(down') : down'[i] = down[i + 1]
  BY <1>2, <1>3, HeadTailProperties
<1>6. Head(down) = down[1] /\ Head(down) \in 0..total
  <2>1. down \in Seq(0..total) /\ down # <<>>
    BY <1>2
  <2>2. Head(down) \in 0..total
    BY <2>1, HeadTailProperties
  <2>3. Head(down) = down[1]
    BY <2>1
  <2> QED BY <2>2, <2>3
<1> QED BY <1>3, <1>4, <1>5, <1>6

\* A publish sends its report, and an unsubscription for each answer it takes
\* over, unless the link swallows them.
LEMMA PublishQueues ==
    ASSUME Typed, Publish
    PROVE  /\ value' = value \/ \E i \in 1..Len(down) : value' = down[i]
           /\ down' \in Seq(0..total)
           /\ down = <<>> => value' = value /\ down' = <<>>
           /\ \A i \in 1..Len(down') : \E j \in 1..Len(down) : down'[i] = down[j]
           /\ link # "up" => up' = <<>>
           /\ link = "up" =>
                 /\ up' \in Seq(Upward(total)) /\ Len(up') >= Len(up) + 1
                 /\ \A i \in 1..Len(up) : up'[i] = up[i]
                 /\ up'[Len(up) + 1] = Report(value)
                 /\ \A i \in (Len(up) + 2)..Len(up') : up'[i] = Unsub
<1>1. /\ total \in Nat /\ value \in 0..total
      /\ up \in Seq(Upward(total)) /\ down \in Seq(0..total)
      /\ Len(down) \in Nat
  BY DEF Typed
<1>2. PICK n \in 0..Len(down) :
         /\ value' = After(SubSeq(down, 1, n))
         /\ up' = Sent(<<Report(value)>> \o Thanks(SubSeq(down, 1, n)))
         /\ down' = SubSeq(down, n + 1, Len(down))
  BY DEF Publish
<1>3. PICK got : got = SubSeq(down, 1, n)
  OBVIOUS
<1>4. /\ got \in Seq(0..total) /\ Len(got) = n
      /\ \A i \in 1..n : got[i] = down[i]
  <2>1. \A i \in 1..n : down[i] \in 0..total
    BY <1>1
  <2>2. /\ got \in Seq(0..total) /\ Len(got) = IF 1 <= n THEN n - 1 + 1 ELSE 0
        /\ \A i \in 1..(n - 1 + 1) : got[i] = down[1 + i - 1]
    BY <1>1, <1>3, <2>1, SubSeqProperties
  <2> QED BY <1>1, <2>2
<1>5. /\ down' \in Seq(0..total)
      /\ Len(down') = Len(down) - n
      /\ \A i \in 1..Len(down') : down'[i] = down[n + i]
  <2>1. \A i \in (n + 1)..Len(down) : down[i] \in 0..total
    BY <1>1
  <2>2. /\ down' \in Seq(0..total)
        /\ Len(down') = IF n + 1 <= Len(down) THEN Len(down) - (n + 1) + 1 ELSE 0
        /\ \A i \in 1..(Len(down) - (n + 1) + 1) : down'[i] = down[n + 1 + i - 1]
    BY <1>1, <1>2, <2>1, SubSeqProperties
  <2> QED BY <1>1, <2>2
<1>6. value' = value \/ \E i \in 1..Len(down) : value' = down[i]
  <2>1. CASE got = <<>>
    BY <1>2, <1>3, <2>1 DEF After
  <2>2. CASE got # <<>>
    <3>1. n \in 1..n /\ n \in 1..Len(down)
      BY <1>1, <1>4, <2>2
    <3>2. value' = got[n]
      BY <1>2, <1>3, <1>4, <2>2 DEF After, Last
    <3> QED BY <1>4, <3>1, <3>2
  <2> QED BY <2>1, <2>2
<1>7. down = <<>> => value' = value /\ down' = <<>>
  <2> SUFFICES ASSUME down = <<>> PROVE value' = value /\ down' = <<>>
    OBVIOUS
  <2>1. Len(down) = 0
    OBVIOUS
  <2> QED BY <1>1, <1>5, <1>6, <2>1
<1>8. \A i \in 1..Len(down') : \E j \in 1..Len(down) : down'[i] = down[j]
  <2>1. \A i \in 1..Len(down') : n + i \in 1..Len(down)
    BY <1>1, <1>5
  <2> QED BY <1>5, <2>1
<1>9. link # "up" => up' = <<>>
  BY <1>2 DEF Sent
<1>10. link = "up" =>
          /\ up' \in Seq(Upward(total)) /\ Len(up') >= Len(up) + 1
          /\ \A i \in 1..Len(up) : up'[i] = up[i]
          /\ up'[Len(up) + 1] = Report(value)
          /\ \A i \in (Len(up) + 2)..Len(up') : up'[i] = Unsub
  <2> SUFFICES ASSUME link = "up"
               PROVE  /\ up' \in Seq(Upward(total)) /\ Len(up') >= Len(up) + 1
                      /\ \A i \in 1..Len(up) : up'[i] = up[i]
                      /\ up'[Len(up) + 1] = Report(value)
                      /\ \A i \in (Len(up) + 2)..Len(up') : up'[i] = Unsub
    OBVIOUS
  <2>1. up' = up \o (<<Report(value)>> \o Thanks(got))
    BY <1>2, <1>3 DEF Sent
  <2>2. got \in Seq(Nat)
    BY <1>1, <1>4, SeqMonotonic
  <2>3. /\ up' \in Seq(Upward(total)) /\ Len(up') = Len(up) + 1 + Len(got)
        /\ \A i \in 1..Len(up) : up'[i] = up[i]
        /\ up'[Len(up) + 1] = Report(value)
        /\ \A i \in (Len(up) + 2)..Len(up') : up'[i] = Unsub
    BY <1>1, <2>1, <2>2, PublishQueue
  <2>4. Len(up') >= Len(up) + 1
    BY <1>1, <1>4, <2>3
  <2> QED BY <2>3, <2>4
<1> QED BY <1>5, <1>6, <1>7, <1>8, <1>9, <1>10

\* The broker takes the first message off, and answers with what it holds or
\* is told.
LEMMA BrokerQueues ==
    ASSUME Typed, Broker
    PROVE  /\ up[1] \in Upward(total) /\ Len(up) >= 1
           /\ up' \in Seq(Upward(total)) /\ Len(up') = Len(up) - 1
           /\ \A i \in 1..Len(up') : up'[i] = up[i + 1]
           /\ \/ /\ up[1] = Sub /\ subscribed' = TRUE /\ retained' = retained
                 /\ down' = IF retained = None THEN down ELSE Append(down, retained)
              \/ /\ up[1] = Unsub /\ subscribed' = FALSE /\ retained' = retained
                 /\ down' = down
              \/ /\ up[1].kind = "publish" /\ up[1].count \in 0..total
                 /\ subscribed' = subscribed /\ retained' = up[1].count
                 /\ down' = IF subscribed THEN Append(down, up[1].count) ELSE down
<1>1. total \in Nat /\ up \in Seq(Upward(total)) /\ up # <<>> /\ up' = Tail(up)
  BY DEF Typed, Broker
<1>2. /\ Head(up) = up[1] /\ Head(up) \in Upward(total) /\ Len(up) >= 1
      /\ up' \in Seq(Upward(total)) /\ Len(up') = Len(up) - 1
      /\ \A i \in 1..Len(up') : up'[i] = up[i + 1]
  BY <1>1, HeadTailProperties, LenProperties, EmptySeq
<1>3. up[1].kind = "publish" => up[1].count \in 0..total
  BY <1>1, <1>2, Kinds
<1> QED BY <1>2, <1>3 DEF Broker

\* Every step keeps every type.
LEMMA TypedStep == Typed /\ [Next]_vars => Typed'
<1> SUFFICES ASSUME Typed, [Next]_vars
             PROVE  Typed'
  OBVIOUS
<1> USE CounterAssumption
<1>1. /\ pin \in {Low, High} /\ last \in {Low, High} /\ level \in Byte
      /\ stable \in 0..(Ghost + 1)
      /\ total \in Nat /\ value \in 0..total /\ retained \in 0..total
      /\ up \in Seq(Upward(total)) /\ down \in Seq(0..total)
      /\ Spare(total, level, pin, edges, faults)
      /\ link \in {"down", "up", "broken"}
      /\ edges \in 0..MaxEdges /\ faults \in 0..MaxFaults
  BY DEF Typed
<1>2. /\ \A q : Spare(total, level, q, edges + 1, faults)
      /\ \A k : Spare(total, k, pin, edges, faults + 1)
      /\ Spare(total, pin, pin, edges, faults)
      /\ level # Low => Spare(total + 1, Low, Low, edges, faults)
  <2>1. edges \in Nat /\ faults \in Nat
    BY <1>1
  <2>2. total \in Nat /\ pin \in {Low, High} /\ Spare(total, level, pin, edges, faults)
    BY <1>1
  <2>3. \A q : Spare(total, level, q, edges + 1, faults)
    BY <2>1, <2>2, SpareStep
  <2>4. \A k : Spare(total, k, pin, edges, faults + 1)
    BY <2>1, <2>2, SpareStep
  <2>5. Spare(total, pin, pin, edges, faults)
    BY <2>1, <2>2, SpareStep
  <2>6. level # Low => Spare(total + 1, Low, Low, edges, faults)
    BY <2>1, <2>2, SpareStep
  <2> QED BY <2>3, <2>4, <2>5, <2>6
<1> DEFINE Empty == up' \in Seq(Upward(total')) /\ down' \in Seq(0..total')
<1>0. up' = <<>> /\ down' = <<>> => Empty
  BY EmptySeq
<1>3. CASE Loop
  <2>1. /\ last' = pin /\ stable' \in 0..(Ghost + 1)
        /\ level' = IF stable' > Ghost THEN pin ELSE level
        /\ UNCHANGED <<pin, link, up, down, broker, blind, bounds>>
    BY <1>1, <1>3 DEF Loop, Settled
  <2>2. level' \in Byte /\ pin \in Byte
    BY <1>1, <2>1 DEF Byte
  <2>3. CASE Counts
    <3>1. total' = total + 1 /\ value' = value + 1 /\ outdated' = TRUE
      BY <1>3, <2>3 DEF Loop
    <3>2. excused' \in BOOLEAN
      BY <1>3, <2>3 DEF Loop, Typed
    <3>3. level' = Low /\ pin' = Low /\ level # Low
      BY <2>1, <2>3 DEF Counts
    <3>4. Spare(total', level', pin', edges', faults')
      BY <1>2, <2>1, <3>1, <3>3 DEF bounds
    <3>5. up' \in Seq(Upward(total')) /\ down' \in Seq(0..total')
      BY <1>1, <2>1, <3>1, QueueGrows
    <3>6. total' \in Nat /\ value' \in 0..total' /\ retained' \in 0..total'
      BY <1>1, <2>1, <3>1 DEF broker
    <3> QED BY <1>1, <2>1, <2>2, <3>1, <3>2, <3>4, <3>5, <3>6
        DEF Typed, broker, bounds
  <2>4. CASE ~Counts
    <3>1. UNCHANGED <<value, outdated, total, excused>>
      BY <1>3, <2>4 DEF Loop
    <3>2. Spare(total', level', pin', edges', faults')
      BY <1>1, <1>2, <2>1, <3>1 DEF bounds
    <3> QED BY <1>1, <2>1, <2>2, <3>1, <3>2 DEF Typed, broker, bounds
  <2> QED BY <2>3, <2>4
<1>4. CASE Receive
  <2>1. outdated' \in BOOLEAN
    BY <1>4 DEF Receive, Typed
  <2>2. UNCHANGED <<pin, last, level, stable, link, broker, total, excused, blind, bounds>>
    BY <1>4 DEF Receive
  <2> QED BY <1>4, <2>1, <2>2, ReceiveQueues DEF Typed, broker, bounds
<1>5. CASE Publish
  <2>1. /\ outdated' = FALSE /\ blind' \in BOOLEAN
        /\ UNCHANGED <<pin, last, level, stable, link, broker, total, excused, bounds>>
    BY <1>5 DEF Publish
  <2>2. value' \in 0..total
    BY <1>1, <1>5, PublishQueues
  <2>3. up' \in Seq(Upward(total)) /\ down' \in Seq(0..total)
    <3>1. CASE link = "up"
      BY <1>5, <3>1, PublishQueues
    <3>2. CASE link # "up"
      BY <1>5, <3>2, PublishQueues, EmptySeq
    <3> QED BY <3>1, <3>2
  <2> QED BY <1>1, <2>1, <2>2, <2>3 DEF Typed, broker, bounds
<1>6. CASE PublishFails
  <2>1. /\ link' = "down" /\ up' = <<>> /\ down' = <<>> /\ subscribed' = FALSE
        /\ faults' = faults + 1 /\ faults < MaxFaults
        /\ UNCHANGED <<unit, total, excused, blind, edges>>
    BY <1>6 DEF PublishFails
  <2>2. retained' \in 0..total
    <3>1. \A i \in {j \in DOMAIN up : up[j].kind = "publish"} : up[i].count \in 0..total
      BY <1>1, Kinds
    <3> QED BY <1>1, <1>6, <3>1 DEF PublishFails
  <2>3. Spare(total, level, pin, edges, faults + 1) /\ faults + 1 \in 0..MaxFaults
    BY <1>1, <1>2, <2>1
  <2> QED BY <1>0, <1>1, <2>1, <2>2, <2>3 DEF Typed, unit
<1>7. CASE Reconnect
  <2>1. <<Sub>> \in Seq(Upward(total))
    BY <1>1, KindOf
  <2>2. excused' \in BOOLEAN /\ blind' \in BOOLEAN
    BY <1>7 DEF Reconnect, Typed
  <2>3. /\ link' = "up" /\ up' = <<Sub>> /\ down' = <<>> /\ subscribed' = FALSE
        /\ UNCHANGED <<unit, retained, total, bounds>>
    BY <1>7 DEF Reconnect
  <2>4. <<>> \in Seq(0..total)
    BY EmptySeq
  <2> QED BY <1>1, <2>1, <2>2, <2>3, <2>4 DEF Typed, unit, bounds
<1>8. CASE Restart
  <2>1. /\ faults' = faults + 1 /\ faults < MaxFaults
        /\ UNCHANGED <<pin, retained, total, excused, blind, edges>>
        /\ last' \in {Low, High} /\ level' \in Byte /\ stable' \in 0..(Ghost + 1)
        /\ value' = 0 /\ outdated' = FALSE
        /\ link' = "down" /\ up' = <<>> /\ down' = <<>> /\ subscribed' = FALSE
    BY <1>8 DEF Restart, Fresh
  <2>2. Spare(total, level', pin, edges, faults + 1) /\ faults + 1 \in 0..MaxFaults
    BY <1>1, <1>2, <2>1
  <2>3. value' \in 0..total
    BY <1>1, <2>1
  <2> QED BY <1>0, <1>1, <2>1, <2>2, <2>3 DEF Typed
<1>9. CASE Broker
  <2>1. UNCHANGED <<unit, link, total, excused, blind, bounds>>
    BY <1>9 DEF Broker
  <2>2. subscribed' \in BOOLEAN /\ retained' \in 0..total
    BY <1>1, <1>9, BrokerQueues DEF Typed
  <2>3. down' \in Seq(0..total)
    <3>1. \A n \in 0..total : Append(down, n) \in Seq(0..total)
      BY <1>1, AppendProperties
    <3> QED BY <1>1, <1>9, <3>1, BrokerQueues
  <2>4. up' \in Seq(Upward(total))
    BY <1>9, BrokerQueues
  <2> QED BY <2>1, <2>2, <2>3, <2>4 DEF Typed, unit, bounds
<1>10. CASE Break
  <2>1. /\ link' = "broken" /\ up' = <<>> /\ down' = <<>> /\ subscribed' = FALSE
        /\ faults' = faults + 1 /\ faults < MaxFaults
        /\ UNCHANGED <<unit, retained, total, excused, edges>>
    BY <1>10 DEF Break
  <2>2. blind' \in BOOLEAN
    BY <1>10 DEF Break, Typed
  <2>3. Spare(total, level, pin, edges, faults + 1) /\ faults + 1 \in 0..MaxFaults
    BY <1>1, <1>2, <2>1
  <2> QED BY <1>0, <1>1, <2>1, <2>2, <2>3 DEF Typed, unit
<1>11. CASE Notice
  BY <1>11 DEF Notice, Typed, unit, broker, bounds
<1>12. CASE Pin
  <2>1. pin' \in {Low, High}
    BY <1>1, <1>12 DEF Pin, Low, High
  <2>2. Spare(total, level, pin', edges + 1, faults) /\ edges' \in 0..MaxEdges
    BY <1>1, <1>2, <1>12 DEF Pin
  <2> QED BY <1>12, <2>1, <2>2 DEF Pin, Typed, broker
<1>13. CASE Tick
  <2>1. stable' \in 0..(Ghost + 1)
    BY <1>1, <1>13 DEF Tick
  <2> QED BY <1>13, <2>1 DEF Tick, Typed, broker, bounds
<1>14. CASE UNCHANGED vars
  BY <1>14 DEF vars, Typed, unit, broker, bounds
<1> QED BY <1>3, <1>4, <1>5, <1>6, <1>7, <1>8, <1>9, <1>10, <1>11, <1>12, <1>13, <1>14
    DEF Next

\* Nothing counts beyond the pulses there were, and the pulses there were are
\* bounded by the edges of the pin and the restarts, for all queues.
THEOREM TypeCorrect == Spec => []TypeOK
<1>1. Typed /\ [Next]_vars => Typed'
  BY TypedStep
<1> QED BY <1>1, TypedInit, TypedGivesTypeOK, PTL DEF Spec

-----------------------------------------------------------------------------
(* The count is kept.                                                      *)

\* The unit asked for the count, and the broker has not read it yet.
Asked == Contains(up, Sub)

\* Whatever is on its way to the unit is the total.
AnswersTrue == \A i \in 1..Len(down) : down[i] = total

\* So is every report that will come back to the unit.
EchoesTrue == subscribed \/ Asked => \A i \in Reports(up) : up[i].count = total

\* The question goes first; until it is read nothing else comes from the broker,
\* which holds the total.
AskedFirst ==
    Asked => /\ up[1] = Sub /\ \A i \in 2..Len(up) : up[i] # Sub
             /\ retained = total /\ down = <<>> /\ ~subscribed

\* A unit that does not know the count will be answered.
Informed == value # total => down # <<>> \/ Asked

\* The last report tells the total, or a further one will follow.
LastTrue ==
    ~outdated =>
        /\ Reports(up) = {} => retained = total
        /\ \A i \in Reports(up) :
              up[i].count = total \/ \E j \in Reports(up) : i < j

\* Reports do not go back.
Rising ==
    /\ \A i \in Reports(up) : retained <= up[i].count
    /\ \A i, j \in Reports(up) : i <= j => up[i].count <= up[j].count

Connected ==
    /\ AnswersTrue /\ EchoesTrue /\ AskedFirst /\ Informed /\ LastTrue /\ Rising
    /\ outdated => value = total

\* A broken link carries nothing.
DeadIsEmpty == link # "up" => up = <<>> /\ down = <<>> /\ ~subscribed

\* The inductive invariant: CountKept also while messages are on their way.
\* Without a connection there is little to keep: pulses that are counted then
\* make the total differ from what the broker holds, and the next connect is
\* excused.
KeptInv ==
    /\ Typed
    /\ DeadIsEmpty
    /\ ~excused => /\ link = "up" => Connected
                   /\ link # "up" /\ retained = total /\ outdated => value = total

\* The elementary facts that every step needs.
LEMMA KeptTypes ==
    ASSUME Typed
    PROVE  /\ total \in Nat /\ value \in 0..total /\ retained \in 0..total
           /\ Len(up) \in Nat /\ Len(down) \in Nat
           /\ DOMAIN up = 1..Len(up)
           /\ down = <<>> <=> Len(down) = 0
           /\ up = <<>> <=> Len(up) = 0
           /\ Reports(up) \subseteq 1..Len(up)
           /\ \A i \in 1..Len(up) : up[i] \in Upward(total)
           /\ \A i \in Reports(up) : up[i].count \in 0..total /\ up[i] # Sub /\ up[i] # Unsub
<1>1. /\ total \in Nat /\ value \in 0..total /\ retained \in 0..total
      /\ up \in Seq(Upward(total)) /\ down \in Seq(0..total)
  BY DEF Typed
<1>2. /\ Len(up) \in Nat /\ Len(down) \in Nat /\ DOMAIN up = 1..Len(up)
      /\ down = <<>> <=> Len(down) = 0
      /\ up = <<>> <=> Len(up) = 0
  BY <1>1
<1>3. Reports(up) \subseteq 1..Len(up)
  BY DEF Reports
<1>4. \A i \in 1..Len(up) : up[i] \in Upward(total)
  BY <1>1
<1>5. ASSUME NEW i \in Reports(up)
      PROVE  up[i].count \in 0..total /\ up[i] # Sub /\ up[i] # Unsub
  <2>1. up[i] \in Upward(total) /\ up[i].kind = "publish"
    BY <1>4, <1>5 DEF Reports
  <2> QED BY <1>1, <2>1, Kinds, KindOf
<1> QED BY <1>1, <1>2, <1>3, <1>4, <1>5

\* While no answer is due the unit knows the count, and no report of an older
\* count comes back.
LEMMA NotDue ==
    ASSUME KeptInv, ~excused, ~Due
    PROVE  /\ down = <<>> /\ ~Asked
           /\ link = "up" => value = total
           /\ subscribed => Reports(up) = {}
<1>1. Typed
  BY DEF KeptInv
<1>2. down = <<>>
  BY DEF Due
<1>3. ~Asked
  <2> SUFFICES ASSUME Asked PROVE FALSE
    OBVIOUS
  <2>1. PICK i \in 1..Len(up) : up[i] = Sub
    BY DEF Asked, Contains
  <2>2. i \in DOMAIN up /\ up[i] # Unsub
    BY <1>1, <2>1, KeptTypes, KindOf
  <2> QED BY <2>2 DEF Due, Asked
<1>4. link = "up" => value = total
  BY <1>2, <1>3 DEF KeptInv, Connected, Informed
<1>5. ASSUME subscribed, NEW i \in Reports(up)
      PROVE  FALSE
  <2>1. i \in DOMAIN up /\ up[i] # Unsub
    BY <1>1, <1>5, KeptTypes
  <2> QED BY <1>5, <2>1 DEF Due
<1> QED BY <1>2, <1>3, <1>4, <1>5

\* A pulse that is counted and not excused: the unit knew the count, and knows
\* the new one; it has to be reported.
LEMMA LoopKeeps ==
    ASSUME KeptInv, Typed', Loop
    PROVE  KeptInv'
<1>1. Typed /\ UNCHANGED <<pin, link, up, down, subscribed, retained, blind, bounds>>
  BY DEF KeptInv, Loop, broker
<1>2. DeadIsEmpty'
  BY <1>1 DEF KeptInv, DeadIsEmpty
<1>3. CASE ~Counts
  <2>1. UNCHANGED <<value, outdated, total, excused>>
    BY <1>3 DEF Loop
  <2> QED BY <1>1, <1>2, <2>1
      DEF KeptInv, Connected, AnswersTrue, EchoesTrue, AskedFirst, Informed, LastTrue,
          Rising, Asked
<1>4. CASE Counts
  <2>1. /\ value' = value + 1 /\ outdated' = TRUE /\ total' = total + 1
        /\ excused' = (excused \/ Due)
    BY <1>4 DEF Loop
  <2> SUFFICES ASSUME ~excused'
               PROVE  /\ link' = "up" => Connected'
                      /\ link' # "up" /\ retained' = total' /\ outdated' => value' = total'
    BY <1>2 DEF KeptInv
  <2>2. ~excused /\ ~Due
    BY <2>1
  <2>3. /\ down = <<>> /\ ~Asked
        /\ link = "up" => value = total
        /\ subscribed => Reports(up) = {}
    BY <2>2, NotDue
  <2>4. CASE link = "up"
    <3>1. AnswersTrue'
      BY <1>1, <2>3, KeptTypes DEF AnswersTrue
    <3>2. EchoesTrue' /\ AskedFirst'
      BY <1>1, <2>3 DEF EchoesTrue, AskedFirst, Asked
    <3>3. Informed' /\ value' = total'
      BY <2>1, <2>3, <2>4 DEF Informed
    <3>4. LastTrue'
      BY <2>1 DEF LastTrue
    <3>5. Rising'
      BY <1>1, <2>2, <2>4 DEF KeptInv, Connected, Rising
    <3> QED BY <1>1, <2>4, <3>1, <3>2, <3>3, <3>4, <3>5 DEF Connected
  <2>5. CASE link # "up"
    <3>1. retained' # total'
      BY <1>1, <2>1, KeptTypes
    <3> QED BY <1>1, <2>5, <3>1
  <2> QED BY <2>4, <2>5
<1> QED BY <1>3, <1>4

\* An answer tells the unit the total.
LEMMA ReceiveKeeps ==
    ASSUME KeptInv, Typed', Receive
    PROVE  KeptInv'
<1>1. /\ Typed /\ link = "up" /\ link' = "up" /\ down # <<>>
      /\ outdated' = (outdated \/ value' # value)
      /\ UNCHANGED <<subscribed, retained, total, excused>>
  BY DEF KeptInv, Receive, broker
<1> SUFFICES ASSUME ~excused
             PROVE  Connected'
  BY <1>1 DEF KeptInv, DeadIsEmpty
<1>2. Connected
  BY <1>1 DEF KeptInv
<1>3. /\ value' = down[1]
      /\ Len(up') = Len(up) + 1
      /\ \A i \in 1..Len(up) : up'[i] = up[i]
      /\ up'[Len(up) + 1] = Unsub
      /\ Len(down') = Len(down) - 1
      /\ \A i \in 1..Len(down') : down'[i] = down[i + 1]
  BY <1>1, ReceiveQueues
<1>4. ~Asked
  BY <1>1, <1>2 DEF Connected, AskedFirst
<1>5. ~Asked'
  BY <1>1, <1>3, <1>4, KeptTypes, KindOf DEF Asked, Contains
<1>6. /\ Reports(up)' = Reports(up)
      /\ \A i \in Reports(up) : up'[i] = up[i]
  <2>1. \A i \in 1..Len(up') : i \in 1..Len(up) \/ i = Len(up) + 1
    BY <1>1, <1>3, KeptTypes
  <2>2. Len(up) + 1 \notin Reports(up) /\ Len(up) + 1 \notin Reports(up)'
    BY <1>1, <1>3, KeptTypes, KindOf DEF Reports
  <2> QED BY <1>1, <1>3, <2>1, <2>2, KeptTypes DEF Reports
<1>7. value' = total
  BY <1>1, <1>2, <1>3, KeptTypes DEF Connected, AnswersTrue
<1>8. AnswersTrue'
  BY <1>1, <1>2, <1>3, KeptTypes DEF Connected, AnswersTrue
<1>9. EchoesTrue' /\ AskedFirst' /\ Informed'
  BY <1>1, <1>2, <1>5, <1>6, <1>7 DEF Connected, EchoesTrue, AskedFirst, Informed
<1>10. LastTrue'
  BY <1>1, <1>2, <1>6 DEF Connected, LastTrue
<1>11. Rising'
  BY <1>1, <1>2, <1>6 DEF Connected, Rising
<1> QED BY <1>1, <1>7, <1>8, <1>9, <1>10, <1>11 DEF Connected

\* A report tells the total, since a unit with something to report knows it;
\* the answers that are taken over inside the publish do not change that.
LEMMA PublishKeeps ==
    ASSUME KeptInv, Typed', Publish
    PROVE  KeptInv'
<1>1. /\ Typed /\ outdated /\ outdated' = FALSE /\ link' = link
      /\ UNCHANGED <<subscribed, retained, total, excused>>
  BY DEF KeptInv, Publish, broker
<1>2. CASE link # "up"
  BY <1>1, <1>2, PublishQueues DEF KeptInv, DeadIsEmpty
<1>3. CASE link = "up"
  <2> SUFFICES ASSUME ~excused
               PROVE  Connected'
    BY <1>1, <1>3 DEF KeptInv, DeadIsEmpty
  <2>1. Connected /\ value = total
    BY <1>1, <1>3 DEF KeptInv, Connected
  <2>2. /\ value' = value \/ \E i \in 1..Len(down) : value' = down[i]
        /\ down = <<>> => value' = value /\ down' = <<>>
        /\ \A i \in 1..Len(down') : \E j \in 1..Len(down) : down'[i] = down[j]
        /\ Len(up') >= Len(up) + 1 /\ Len(up') \in Nat
        /\ \A i \in 1..Len(up) : up'[i] = up[i]
        /\ up'[Len(up) + 1] = Report(value)
        /\ \A i \in (Len(up) + 2)..Len(up') : up'[i] = Unsub
    BY <1>1, <1>3, PublishQueues, KeptTypes DEF Typed
  <2>3. value' = total
    BY <2>1, <2>2 DEF Connected, AnswersTrue
  <2>4. AnswersTrue'
    BY <1>1, <2>1, <2>2 DEF Connected, AnswersTrue
  <2> DEFINE new == Len(up) + 1
  <2>5. /\ Len(up) \in Nat /\ new \in 1..Len(up')
        /\ \A i \in 1..Len(up') : i \in 1..Len(up) \/ i = new \/ i \in (Len(up) + 2)..Len(up')
    BY <1>1, <2>2, KeptTypes
  <2>6. /\ up'[new].kind = "publish" /\ up'[new].count = total /\ up'[new] # Sub
        /\ \A i \in (Len(up) + 2)..Len(up') : up'[i].kind # "publish" /\ up'[i] # Sub
    BY <2>1, <2>2, KindOf
  <2>7. /\ Reports(up)' = Reports(up) \cup {new}
        /\ \A i \in Reports(up) : up'[i] = up[i] /\ i < new
    <3>1. \A i \in 1..Len(up) : i \in 1..Len(up') /\ i < new
      BY <2>2, <2>5
    <3> HIDE DEF new
    <3> QED BY <2>2, <2>5, <2>6, <3>1 DEF Reports
  <2>8. Asked' => Asked
    <3> HIDE DEF new
    <3> QED BY <2>2, <2>5, <2>6 DEF Asked, Contains
  <2>9. EchoesTrue'
    BY <1>1, <2>1, <2>6, <2>7, <2>8 DEF Connected, EchoesTrue
  <2>10. AskedFirst'
    <3> SUFFICES ASSUME Asked'
                 PROVE  /\ up'[1] = Sub /\ \A i \in 2..Len(up') : up'[i] # Sub
                        /\ retained' = total' /\ down' = <<>> /\ ~subscribed'
      BY DEF AskedFirst
    <3>1. /\ up[1] = Sub /\ \A i \in 2..Len(up) : up[i] # Sub
          /\ retained = total /\ down = <<>> /\ ~subscribed
      BY <2>1, <2>8 DEF Connected, AskedFirst
    <3>2. 1 \in 1..Len(up)
      <4>1. PICK i \in 1..Len(up) : up[i] = Sub
        BY <2>8 DEF Asked, Contains
      <4> QED BY <2>5, <4>1
    <3>3. \A i \in 2..Len(up') : up'[i] # Sub
      <4>1. \A i \in 2..Len(up') : i \in 2..Len(up) \/ i = new \/ i \in (Len(up) + 2)..Len(up')
        BY <2>2, <2>5
      <4>2. \A i \in 2..Len(up) : up'[i] = up[i]
        BY <2>2, <2>5
      <4> HIDE DEF new
      <4> QED BY <2>6, <3>1, <4>1, <4>2
    <3> QED BY <1>1, <2>2, <3>1, <3>2, <3>3
  <2>11. Informed' /\ (outdated' => value' = total')
    BY <1>1, <2>3 DEF Informed
  <2> HIDE DEF new
  <2>12. LastTrue'
    BY <1>1, <2>6, <2>7 DEF LastTrue
  <2>13. Rising'
    <3>1. \A i \in Reports(up) : up[i].count <= total
      BY <1>1, KeptTypes
    <3>2. retained <= total
      BY <1>1, KeptTypes
    <3>3. new \in Nat /\ \A i \in Reports(up) : i \in Nat /\ ~(new <= i)
      BY <1>1, <2>5, <2>7, KeptTypes
    <3>4. \A i, j \in Reports(up)' : i <= j => up'[i].count <= up'[j].count
      <4> SUFFICES ASSUME NEW i \in Reports(up)', NEW j \in Reports(up)', i <= j
                   PROVE  up'[i].count <= up'[j].count
        OBVIOUS
      <4>1. total \in Nat
        BY <1>1, KeptTypes
      <4>2. CASE i \in Reports(up) /\ j \in Reports(up)
        BY <2>1, <2>7, <4>2 DEF Connected, Rising
      <4>3. CASE j = new
        BY <2>6, <2>7, <3>1, <4>1, <4>3
      <4> QED BY <2>7, <3>3, <4>2, <4>3
    <3> QED BY <1>1, <2>1, <2>6, <2>7, <3>2, <3>4 DEF Connected, Rising
  <2> QED BY <1>1, <1>3, <2>4, <2>9, <2>10, <2>11, <2>12, <2>13 DEF Connected
<1> QED BY <1>2, <1>3

\* The broker answers the question with the total, stops with the subscription,
\* or takes a report over, echoing it while the unit listens.
LEMMA BrokerKeeps ==
    ASSUME KeptInv, Typed', Broker
    PROVE  KeptInv'
<1>1. /\ Typed /\ link = "up" /\ link' = "up"
      /\ UNCHANGED <<value, outdated, total, excused>>
  BY DEF KeptInv, Broker, unit
<1> SUFFICES ASSUME ~excused
             PROVE  Connected'
  BY <1>1 DEF KeptInv, DeadIsEmpty
<1>2. Connected
  BY <1>1 DEF KeptInv
<1>3. /\ up[1] \in Upward(total) /\ Len(up) \in Nat /\ 1 \in 1..Len(up)
      /\ Len(up') = Len(up) - 1
      /\ \A i \in 1..Len(up') : up'[i] = up[i + 1]
  BY <1>1, BrokerQueues, KeptTypes
<1>4. ~Asked'
  <2> SUFFICES ASSUME NEW i \in 1..Len(up'), up'[i] = Sub
               PROVE  FALSE
    BY DEF Asked, Contains
  <2>1. i + 1 \in 1..Len(up) /\ i + 1 \in 2..Len(up) /\ up[i + 1] = Sub
    BY <1>3
  <2>2. Asked
    BY <2>1 DEF Asked, Contains
  <2> QED BY <1>2, <2>1, <2>2 DEF Connected, AskedFirst
<1>5. /\ \A i \in Reports(up)' : i + 1 \in Reports(up) /\ up'[i] = up[i + 1] /\ i \in Nat
      /\ \A i \in Reports(up) : i \in Nat /\ (i = 1 \/ i - 1 \in Reports(up)')
  BY <1>3 DEF Reports
<1>6. outdated' => value' = total'
  BY <1>1, <1>2 DEF Connected
<1>7. /\ \A i, j \in Reports(up)' : i <= j => up'[i].count <= up'[j].count
  BY <1>2, <1>5 DEF Connected, Rising
<1>8. total \in Nat /\ value \in 0..total /\ retained \in 0..total /\ down \in Seq(0..total)
  BY <1>1 DEF Typed
<1>9. ASSUME NEW n \in 0..total, down' = Append(down, n), n = total
      PROVE  AnswersTrue' /\ down' # <<>>
  <2>1. /\ Len(down') = Len(down) + 1 /\ Len(down) \in Nat
        /\ \A i \in 1..Len(down) : down'[i] = down[i]
        /\ down'[Len(down) + 1] = n
        /\ down' # <<>>
    BY <1>8, <1>9, AppendProperties
  <2>2. \A i \in 1..Len(down') : i \in 1..Len(down) \/ i = Len(down) + 1
    BY <2>1
  <2> QED BY <1>1, <1>2, <1>9, <2>1, <2>2 DEF Connected, AnswersTrue
<1>10. CASE up[1] = Sub
  <2>1. /\ subscribed' = TRUE /\ retained' = retained
        /\ down' = IF retained = None THEN down ELSE Append(down, retained)
    BY <1>1, <1>10, BrokerQueues, KindOf
  <2>2. Asked /\ retained = total /\ down = <<>>
    BY <1>2, <1>3, <1>10 DEF Connected, AskedFirst, Asked, Contains
  <2>3. AnswersTrue' /\ (retained # None => down' # <<>>)
    BY <1>1, <1>2, <1>8, <1>9, <2>1, <2>2 DEF Connected, AnswersTrue
  <2>4. Informed'
    BY <1>1, <1>8, <2>2, <2>3 DEF Informed, None
  <2>5. EchoesTrue'
    BY <1>1, <1>2, <1>5, <2>2 DEF Connected, EchoesTrue
  <2>6. 1 \notin Reports(up)
    BY <1>10, KindOf DEF Reports
  <2>7. LastTrue'
    <3>1. Reports(up)' = {} => Reports(up) = {}
      BY <1>5, <2>6
    <3>2. ASSUME ~outdated, NEW i \in Reports(up)'
          PROVE  up'[i].count = total \/ \E j \in Reports(up)' : i < j
      BY <1>2, <1>5, <2>6, <3>2 DEF Connected, LastTrue
    <3> QED BY <1>1, <1>2, <2>1, <3>1, <3>2 DEF Connected, LastTrue
  <2>8. Rising'
    BY <1>2, <1>5, <1>7, <2>1 DEF Connected, Rising
  <2> QED BY <1>4, <1>6, <2>3, <2>4, <2>5, <2>7, <2>8 DEF Connected, AskedFirst
<1>11. CASE up[1] = Unsub
  <2>1. subscribed' = FALSE /\ retained' = retained /\ down' = down
    BY <1>1, <1>11, BrokerQueues, KindOf
  <2>2. 1 \notin Reports(up) /\ ~Asked
    BY <1>2, <1>11, KindOf DEF Reports, Connected, AskedFirst
  <2>3. AnswersTrue' /\ Informed'
    BY <1>1, <1>2, <2>1, <2>2 DEF Connected, AnswersTrue, Informed
  <2>4. EchoesTrue'
    BY <1>4, <2>1 DEF EchoesTrue
  <2>5. LastTrue'
    <3>1. Reports(up)' = {} => Reports(up) = {}
      BY <1>5, <2>2
    <3>2. ASSUME ~outdated, NEW i \in Reports(up)'
          PROVE  up'[i].count = total \/ \E j \in Reports(up)' : i < j
      BY <1>2, <1>5, <2>2, <3>2 DEF Connected, LastTrue
    <3> QED BY <1>1, <1>2, <2>1, <3>1, <3>2 DEF Connected, LastTrue
  <2>6. Rising'
    BY <1>2, <1>5, <1>7, <2>1 DEF Connected, Rising
  <2> QED BY <1>4, <1>6, <2>3, <2>4, <2>5, <2>6 DEF Connected, AskedFirst
<1>12. CASE up[1].kind = "publish"
  <2>1. /\ up[1].count \in 0..total
        /\ subscribed' = subscribed /\ retained' = up[1].count
        /\ down' = IF subscribed THEN Append(down, up[1].count) ELSE down
    BY <1>1, <1>12, BrokerQueues, KindOf
  <2>2. 1 \in Reports(up) /\ ~Asked
    BY <1>2, <1>3, <1>12, KindOf DEF Reports, Connected, AskedFirst
  <2>3. subscribed => up[1].count = total
    BY <1>2, <2>2 DEF Connected, EchoesTrue
  <2>4. AnswersTrue' /\ Informed'
    <3>1. CASE subscribed
      BY <1>9, <2>1, <2>3, <3>1 DEF Informed
    <3>2. CASE ~subscribed
      BY <1>1, <1>2, <2>1, <2>2, <3>2 DEF Connected, AnswersTrue, Informed
    <3> QED BY <3>1, <3>2
  <2>5. EchoesTrue'
    BY <1>1, <1>2, <1>4, <1>5, <2>1 DEF Connected, EchoesTrue
  <2>6. LastTrue'
    <3>1. ASSUME ~outdated, Reports(up)' = {}
          PROVE  retained' = total
      BY <1>2, <1>5, <2>1, <2>2, <3>1 DEF Connected, LastTrue
    <3>2. ASSUME ~outdated, NEW i \in Reports(up)'
          PROVE  up'[i].count = total \/ \E j \in Reports(up)' : i < j
      BY <1>2, <1>5, <3>2 DEF Connected, LastTrue
    <3> QED BY <1>1, <3>1, <3>2 DEF LastTrue
  <2>7. Rising'
    <3>1. \A i \in Reports(up)' : up[1].count <= up'[i].count
      BY <1>2, <1>5, <2>2 DEF Connected, Rising
    <3> QED BY <1>7, <2>1, <3>1 DEF Rising
  <2> QED BY <1>4, <1>6, <2>4, <2>5, <2>6, <2>7 DEF Connected, AskedFirst
<1> QED BY <1>1, <1>8, <1>10, <1>11, <1>12, BrokerQueues

\* A connect is excused unless the broker holds the total; then the unit has
\* nothing wrong to report, and asks.
LEMMA ReconnectKeeps ==
    ASSUME KeptInv, Typed', Reconnect
    PROVE  KeptInv'
<1>1. /\ Typed /\ link # "up" /\ link' = "up"
      /\ up' = <<Sub>> /\ down' = <<>> /\ subscribed' = FALSE
      /\ excused' = (excused \/ retained # total)
      /\ UNCHANGED <<value, outdated, retained, total>>
  BY DEF KeptInv, Reconnect, unit
<1> SUFFICES ASSUME ~excused'
             PROVE  Connected'
  BY <1>1 DEF KeptInv, DeadIsEmpty
<1>2. ~excused /\ retained = total /\ (outdated => value = total)
  BY <1>1 DEF KeptInv
<1>3. /\ Len(up') = 1 /\ up'[1] = Sub /\ Len(down') = 0
      /\ \A i \in 1..Len(up') : i = 1
      /\ \A i \in 2..Len(up') : FALSE
  BY <1>1
<1>4. Reports(up)' = {}
  BY <1>3, KindOf DEF Reports
<1>5. Asked'
  BY <1>3 DEF Asked, Contains
<1>6. AnswersTrue' /\ EchoesTrue' /\ Informed' /\ LastTrue' /\ Rising'
  BY <1>1, <1>2, <1>3, <1>4, <1>5
  DEF AnswersTrue, EchoesTrue, Informed, LastTrue, Rising
<1>7. AskedFirst'
  BY <1>1, <1>2, <1>3 DEF AskedFirst
<1> QED BY <1>1, <1>2, <1>6, <1>7 DEF Connected

\* A link that is lost leaves a unit that has nothing wrong to report.
LEMMA LostKeeps ==
    ASSUME KeptInv, Typed', PublishFails \/ Break \/ Restart \/ Notice
    PROVE  KeptInv'
<1>1. /\ link' # "up" /\ up' = <<>> /\ down' = <<>> /\ ~subscribed'
      /\ total' = total /\ excused' = excused
  BY DEF KeptInv, DeadIsEmpty, PublishFails, Break, Restart, Fresh, Notice, unit, broker
<1>2. outdated' => /\ outdated /\ value' = value
                   /\ link = "up" \/ retained' = retained
  BY DEF PublishFails, Break, Restart, Fresh, Notice, unit, broker
<1>3. ASSUME ~excused, retained' = total, outdated'
      PROVE  value' = total
  BY <1>2, <1>3 DEF KeptInv, Connected
<1> QED BY <1>1, <1>3 DEF KeptInv, DeadIsEmpty

\* Every step keeps the invariant.
LEMMA KeptStep == KeptInv /\ [Next]_vars => KeptInv'
<1> SUFFICES ASSUME KeptInv, [Next]_vars
             PROVE  KeptInv'
  OBVIOUS
<1>1. Typed'
  BY TypedStep DEF KeptInv
<1>2. CASE Pin \/ Tick \/ UNCHANGED vars
  <2>1. UNCHANGED <<value, outdated, link, up, down, subscribed, retained, total, excused>>
    BY <1>2 DEF Pin, Tick, vars, unit, broker
  <2> QED BY <1>1, <2>1
      DEF KeptInv, DeadIsEmpty, Connected, AnswersTrue, EchoesTrue, AskedFirst, Informed,
          LastTrue, Rising, Asked
<1> QED BY <1>1, <1>2, LoopKeeps, ReceiveKeeps, PublishKeeps, BrokerKeeps,
           ReconnectKeeps, LostKeeps DEF Next

LEMMA KeptStart == Init => KeptInv
BY TypedInit DEF Init, KeptInv, DeadIsEmpty

\* Through any number of restarts and broken links unit and broker come back to
\* the whole count, unless a pulse had to get lost.
THEOREM CountIsKept == Spec => []CountKept
<1>1. KeptInv => CountKept
  <2> SUFFICES ASSUME KeptInv, Quiet, ~excused
               PROVE  value = total /\ retained = total
    BY DEF CountKept
  <2>1. Connected /\ up = <<>> /\ down = <<>> /\ ~outdated
    BY DEF KeptInv, Quiet
  <2>2. ~Asked /\ Reports(up) = {}
    BY <2>1 DEF Asked, Contains, Reports
  <2> QED BY <2>1, <2>2 DEF Connected, Informed, LastTrue
<1>2. KeptInv /\ [Next]_vars => KeptInv'
  BY KeptStep
<1> QED BY <1>1, <1>2, KeptStart, PTL DEF Spec

\* The retained count never goes back, unless a pulse had to get lost: neither
\* with a report that arrives, nor with one that may have arrived.
THEOREM CountNeverGoesBack == Spec => NeverBack
<1>1. ASSUME KeptInv, [Next]_vars, ~excused'
      PROVE  retained' >= retained
  <2>1. Typed /\ ~excused
    <3>1. CASE Loop
      BY <1>1, <3>1 DEF KeptInv, Loop
    <3>2. CASE Reconnect
      BY <1>1, <3>2 DEF KeptInv, Reconnect
    <3>3. CASE UNCHANGED excused
      BY <1>1, <3>3 DEF KeptInv
    <3> QED BY <1>1, <3>1, <3>2, <3>3
        DEF Next, Receive, Publish, PublishFails, Restart, Broker, Break, Notice, Pin,
            Tick, vars
  <2>2. total \in Nat /\ value \in 0..total /\ retained \in 0..total
    BY <2>1, KeptTypes
  <2>3. CASE retained' = retained
    BY <2>2, <2>3
  <2>4. CASE Broker /\ retained' # retained
    <3>1. link = "up" /\ 1 \in 1..Len(up) /\ up[1].kind = "publish" /\ retained' = up[1].count
      BY <2>1, <2>4, BrokerQueues, KeptTypes DEF Broker
    <3>2. 1 \in Reports(up)
      BY <3>1 DEF Reports
    <3> QED BY <1>1, <2>1, <2>2, <3>1, <3>2, KeptTypes DEF KeptInv, Connected, Rising
  <2>5. CASE PublishFails
    <3>1. Connected /\ value = total
      BY <1>1, <2>1, <2>5 DEF PublishFails, KeptInv, Connected
    <3>2. \A i \in {j \in DOMAIN up : up[j].kind = "publish"} : retained <= up[i].count
      BY <2>1, <3>1, KeptTypes DEF Connected, Rising, Reports
    <3>3. \A i \in {j \in DOMAIN up : up[j].kind = "publish"} : up[i].count \in Nat
      BY <2>1, KeptTypes DEF Reports
    <3> QED BY <2>2, <2>5, <3>1, <3>2, <3>3 DEF PublishFails
  <2> QED BY <1>1, <2>3, <2>4, <2>5
      DEF Next, Loop, Receive, Publish, Reconnect, Restart, Break, Notice, Pin, Tick,
          vars, broker
<1>2. KeptInv /\ [Next]_vars => [retained' >= retained \/ excused']_vars
  BY <1>1
<1>3. KeptInv /\ [Next]_vars => KeptInv'
  BY KeptStep
<1> QED BY <1>2, <1>3, KeptStart, PTL DEF Spec, NeverBack
=============================================================================
