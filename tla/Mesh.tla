-------------------------------- MODULE Mesh --------------------------------
(***************************************************************************)
(* The uplink of a mesh node (src/src/connection_relay.cpp): the messages  *)
(* of its children wait in outBuf, its own are sent at once, and each is   *)
(* sent and waited for, up to five seconds, until a byte comes back that   *)
(* looks like an ACK.  The parent reads all there is, acknowledges once    *)
(* and handles what comes first.                                           *)
(***************************************************************************)
EXTENDS Naturals, Sequences, FiniteSets, FiniteSetsExt

CONSTANTS
    Slots,       \* MAX_MSG_QUEUE
    MaxMsg,      \* bound: messages of the children
    Wire,        \* bound: messages in a receive buffer
    MaxTrouble   \* bound: broken links, late answers and long silences

ASSUME MeshAssumption ==
    /\ Slots \in Nat \ {0} /\ MaxMsg \in Nat /\ Wire \in Nat \ {0} /\ MaxTrouble \in Nat

Slot == 1..Slots
Child == 1..MaxMsg      \* the messages of the children, in their order
House == MaxMsg + 1     \* a ping, a loop check or a routing message
Own == MaxMsg + 2       \* a report or a subscription of the node itself
Empty == 0

VARIABLES
    outBuf,     \* [Slot -> Child \cup {House, Empty}]
    wait,       \* "idle", or what send_up() waits for: "queue", "own", "welcome"
    silent,     \* since espLastcomm: 0, 1 for half of COMM_TIMEOUT, 2 for all of it
    link,       \* the connection to the parent, a BOOLEAN
    greeted,    \* onClient() of the parent has run
    upward,     \* what the parent has not yet read
    downward,   \* what the node has not yet read: "ack", "plain", or "four", a
                \* message with a byte that is MSG_TYPE_ACK
    next,       \* the next message of the children
    got,        \* those the parent has handled
    dropped,    \* those refused by a full queue, or without a connection
    risky,      \* an answer was late or mistaken on this connection
    doubt,      \* those whose ACK came then
    again,      \* a message was sent without an ACK
    twice,      \* a message was handled twice
    crowded,    \* two messages of children have waited at a time
    overtaken,  \* a message was handled after a later one
    trouble

node == <<outBuf, wait, silent>>
wires == <<link, greeted, upward, downward>>
ghosts == <<got, dropped, risky, doubt, again, twice, crowded, overtaken>>
vars == <<node, wires, next, ghosts, trouble>>

-----------------------------------------------------------------------------
(* The queue.                                                              *)

Free(buf) == {i \in Slot : buf[i] = Empty}
Used(buf) == Slot \ Free(buf)
Queued(buf) == {m \in Child : \E i \in Slot : buf[i] = m}

\* Slip: the search runs one slot too far.
PutBeyond(buf, m) ==
    IF Free(buf) = {} THEN [i \in 1..(Slots + 1) |-> IF i <= Slots THEN buf[i] ELSE m]
    ELSE [buf EXCEPT ![Min(Free(buf))] = m]

\* enqueue_up(): the first free slot, or none.
Put(buf, m) == IF Free(buf) = {} THEN buf ELSE [buf EXCEPT ![Min(Free(buf))] = m]

\* dequeue_up() sends from the first slot in use.
First(buf) == Min(Used(buf))

\* Slip: what was sent stays in its slot.
Unfreed(buf, i) == buf

Freed(buf, i) == [buf EXCEPT ![i] = Empty]

Crowds(buf) == Cardinality(Queued(buf)) > 1

-----------------------------------------------------------------------------
(* The node.                                                               *)

Lost == /\ link' = FALSE /\ greeted' = FALSE /\ upward' = <<>> /\ downward' = <<>>

\* receive_loop() up to the wait in dequeue_up(): it handles or skips all that
\* came down, adds a ping and gives up a silent parent.
Pass ==
    /\ wait = "idle" /\ link
    /\ outBuf' = IF silent > 0 THEN Put(outBuf, House) ELSE outBuf
    /\ IF silent = 2
       THEN Lost /\ UNCHANGED wait
       ELSE /\ downward' = <<>>
            /\ IF Used(outBuf') = {}
               THEN UNCHANGED <<wait, upward>>
               ELSE /\ Len(upward) < Wire
                    /\ upward' = Append(upward, outBuf'[First(outBuf')])
                    /\ wait' = "queue"
            /\ UNCHANGED <<link, greeted>>
    /\ UNCHANGED <<silent, next, got, dropped, risky, doubt, again, twice, crowded,
                   overtaken, trouble>>

\* publish() or subscribe() of the node itself; it repeats what failed.
PublishOwn ==
    /\ wait = "idle" /\ link
    /\ Len(upward) < Wire
    /\ upward' = Append(upward, Own)
    /\ wait' = "own"
    /\ UNCHANGED <<outBuf, silent, link, greeted, downward, next, ghosts, trouble>>

\* onData(): the child has its ACK before the connection and the queue are
\* looked at. Both may have gone since the main loop asked for the connection.
OnData ==
    /\ wait = "idle" /\ next <= MaxMsg
    /\ outBuf' = IF link THEN Put(outBuf, next) ELSE outBuf
    /\ dropped' = IF ~link \/ Free(outBuf) = {} THEN dropped \cup {next} ELSE dropped
    /\ crowded' = (crowded \/ Crowds(outBuf'))
    /\ next' = next + 1
    /\ UNCHANGED <<wait, silent, wires, got, risky, doubt, again, twice, overtaken, trouble>>

\* The messages that follow a connect, whether the server said welcome or not.
Welcomed == outBuf' = Put(Put(outBuf, House), House)

\* A byte that looks like an ACK ends the wait, whatever it belongs to.
Acked ==
    /\ wait # "idle" /\ downward # <<>> /\ Head(downward) \in {"ack", "four"}
    /\ downward' = Tail(downward)
    /\ silent' = 0 /\ wait' = "idle"
    /\ risky' = (risky \/ Head(downward) = "four")
    /\ \/ /\ wait = "queue"
          /\ LET i == First(outBuf) IN
             /\ outBuf' = Freed(outBuf, i)
             /\ doubt' = IF risky' THEN doubt \cup ({outBuf[i]} \cap Child) ELSE doubt
       \/ /\ wait = "own"
          /\ UNCHANGED <<outBuf, doubt>>
       \/ /\ wait = "welcome" /\ Welcomed
          /\ UNCHANGED doubt
    /\ UNCHANGED <<link, greeted, upward, next, got, dropped, again, twice, crowded, overtaken,
                   trouble>>

\* Slip: any other byte ends the wait as well.
SkipEnds ==
    /\ wait # "idle" /\ downward # <<>> /\ Head(downward) = "plain"
    /\ downward' = Tail(downward)
    /\ wait' = "idle"
    /\ UNCHANGED <<outBuf, silent, link, greeted, upward, next, ghosts, trouble>>

\* Any other byte that comes while it waits is read and gone.
Skip ==
    /\ wait # "idle" /\ downward # <<>> /\ Head(downward) = "plain"
    /\ downward' = Tail(downward)
    /\ UNCHANGED <<node, link, greeted, upward, next, ghosts, trouble>>

\* Slip: the slot is freed whether the ACK came or not.
GiveUpForgets ==
    /\ wait # "idle" /\ downward = <<>>
    /\ link => trouble < MaxTrouble
    /\ trouble' = IF link THEN trouble + 1 ELSE trouble
    /\ wait' = "idle" /\ risky' = TRUE /\ again' = TRUE
    /\ outBuf' = IF wait = "queue" THEN [outBuf EXCEPT ![First(outBuf)] = Empty] ELSE outBuf
    /\ UNCHANGED <<silent, wires, next, got, dropped, doubt, twice, crowded, overtaken>>

\* Five seconds without an ACK: what was sent is kept and sent again. A missing
\* welcome makes no difference.
GiveUp ==
    /\ wait # "idle" /\ downward = <<>>
    /\ link => trouble < MaxTrouble
    /\ trouble' = IF link THEN trouble + 1 ELSE trouble
    /\ wait' = "idle" /\ risky' = TRUE
    /\ IF wait = "welcome"
       THEN Welcomed /\ UNCHANGED again
       ELSE again' = TRUE /\ UNCHANGED outBuf
    /\ UNCHANGED <<silent, wires, next, got, dropped, doubt, twice, crowded, overtaken>>

\* reconnect() and connectServer(), up to the wait for the welcome
Connect ==
    /\ wait = "idle" /\ ~link
    /\ link' = TRUE /\ wait' = "welcome" /\ risky' = FALSE
    /\ UNCHANGED <<outBuf, silent, greeted, upward, downward, next, got, dropped, doubt, again,
                   twice, crowded, overtaken, trouble>>

-----------------------------------------------------------------------------
(* The parent.                                                             *)

\* onClient()
Greet ==
    /\ link /\ ~greeted
    /\ greeted' = TRUE
    /\ downward' = Append(downward, "ack")
    /\ UNCHANGED <<node, link, upward, next, ghosts, trouble>>

\* onData() reads what has arrived, acknowledges once and handles the first.
Serve ==
    /\ greeted /\ upward # <<>>
    /\ \E n \in 1..Len(upward) :
         LET m == Head(upward)
         IN  /\ upward' = SubSeq(upward, n + 1, Len(upward))
             /\ got' = got \cup ({m} \cap Child)
             /\ twice' = (twice \/ m \in got)
             /\ overtaken' = (overtaken \/ (m \in Child \ got /\ \E l \in got : l > m))
    /\ downward' = Append(downward, "ack")
    /\ UNCHANGED <<node, link, greeted, next, dropped, risky, doubt, again, crowded, trouble>>

\* broadcast_publish_down(), one at a time
Broadcast ==
    /\ greeted /\ Len(downward) < Wire
    /\ \A i \in DOMAIN downward : downward[i] = "ack"
    /\ \E d \in {"plain", "four"} : downward' = Append(downward, d)
    /\ UNCHANGED <<node, link, greeted, upward, next, ghosts, trouble>>

Break ==
    /\ link /\ trouble < MaxTrouble
    /\ trouble' = trouble + 1
    /\ Lost
    /\ again' = (again \/ wait # "idle")
    /\ UNCHANGED <<node, next, got, dropped, risky, doubt, twice, crowded, overtaken>>

\* Without an ACK time goes on; with something to say that takes a parent that
\* does not answer.
Tick ==
    /\ silent < 2 /\ silent' = silent + 1
    /\ IF wait = "idle" /\ Used(outBuf) = {}
       THEN UNCHANGED trouble
       ELSE trouble < MaxTrouble /\ trouble' = trouble + 1
    /\ UNCHANGED <<outBuf, wait, wires, next, ghosts>>

-----------------------------------------------------------------------------

Init ==
    /\ outBuf = [i \in Slot |-> Empty]
    /\ wait = "idle" /\ silent = 0
    /\ link = FALSE /\ greeted = FALSE /\ upward = <<>> /\ downward = <<>>
    /\ next = 1
    /\ got = {} /\ dropped = {} /\ doubt = {}
    /\ risky = FALSE /\ again = FALSE /\ twice = FALSE /\ crowded = FALSE /\ overtaken = FALSE
    /\ trouble = 0

Next ==
    \/ Pass
    \/ PublishOwn
    \/ OnData
    \/ Acked
    \/ Skip
    \/ GiveUp
    \/ Connect
    \/ Greet
    \/ Serve
    \/ Broadcast
    \/ Break
    \/ Tick

Spec == Init /\ [][Next]_vars

\* The parent serves its clients, and the main loop of the node comes back to
\* receive_loop() however much the node sends in between.
Fairness ==
    /\ SF_vars(Pass) /\ WF_vars(Acked) /\ WF_vars(Skip) /\ WF_vars(GiveUp) /\ WF_vars(Connect)
    /\ WF_vars(Greet) /\ WF_vars(Serve)

FairSpec == Spec /\ Fairness

-----------------------------------------------------------------------------
(* Properties.                                                             *)

\* Slots, wires and bounds keep their ranges, and who waits for the ACK of the
\* queue has something in it.
TypeOK ==
    /\ outBuf \in [Slot -> Child \cup {House, Empty}]
    /\ wait \in {"idle", "queue", "own", "welcome"}
    /\ wait = "queue" => Used(outBuf) # {}
    /\ silent \in 0..2
    /\ link \in BOOLEAN /\ greeted \in BOOLEAN
    /\ greeted => link
    /\ upward \in Seq(Child \cup {House, Own}) /\ Len(upward) <= Wire
    /\ downward \in Seq({"ack", "plain", "four"})
    /\ next \in 1..(MaxMsg + 1)
    /\ got \subseteq Child /\ dropped \subseteq Child /\ doubt \subseteq Child
    /\ {risky, again, twice, crowded, overtaken} \subseteq BOOLEAN
    /\ trouble \in 0..MaxTrouble

\* A message a child has handed over waits or has reached the parent, whatever
\* links break on the way; it is lost only to a full queue, before a connection
\* that just broke is made again, or when an answer was late, or a byte taken for
\* one, on the connection that carried it.
Kept == (1..(next - 1)) \subseteq Queued(outBuf) \cup got \cup dropped \cup doubt

\* Without resending nothing is handled twice; messages overtake each other only
\* where two of them waited at a time.
OnceInOrder == (twice => again) /\ (overtaken => crowded)

\* What waits is sent in the end, behind whatever broken links and late answers.
Drained == \A m \in Child : m \in Queued(outBuf) ~> m \notin Queued(outBuf)
=============================================================================
