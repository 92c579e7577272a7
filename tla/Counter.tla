------------------------------ MODULE Counter ------------------------------
(***************************************************************************)
(* The pulse counter (src/src/cap_counter.cpp).  The unit keeps no count   *)
(* over a restart: it reports the count as a retained message, subscribes  *)
(* to its own report after every connect, and takes over the first answer. *)
(* Unit and broker talk over two queues, which a broken link empties; the  *)
(* unit may go on for a while without noticing.                            *)
(***************************************************************************)
EXTENDS Naturals, Sequences, SequencesExt, FiniteSets

CONSTANTS
    Ghost,      \* m_ghost, in units of time
    Starts,     \* the counts the broker may hold at first, 0 for none
    MaxEdges,   \* bound: changes of the pin
    MaxFaults   \* bound: restarts and broken links

ASSUME CounterAssumption ==
    /\ Ghost \in Nat /\ MaxEdges \in Nat /\ MaxFaults \in Nat
    /\ Starts \subseteq Nat

Low == 0
High == 1
\* a level, or the garbage of an uninitialised byte
Byte == {Low, High, 2}

\* no retained message
None == 0

VARIABLES
    pin,         \* the level of the input
    last,        \* m_lastButtonState
    level,       \* m_buttonState, which nothing initialises
    stable,      \* time since m_lastDebounceTime, up to Ghost + 1
    value,       \* m_state
    outdated,    \* its mark
    link,        \* "down", "up", or "broken" and not yet noticed
    up, down,    \* the messages on their way to the broker and to the unit
    subscribed,  \* the broker has the subscription
    retained,    \* the report it holds
    total,       \* the pulses seen, with those of former lives
    excused,     \* some of them had to get lost, see Due and Reconnect
    blind,       \* a report had to get lost, see Publish and Break
    edges, faults

unit == <<pin, last, level, stable, value, outdated>>
broker == <<subscribed, retained>>
bounds == <<edges, faults>>
vars == <<unit, link, up, down, broker, total, excused, blind, bounds>>

Sub == [kind |-> "subscribe"]
Unsub == [kind |-> "unsubscribe"]
Report(n) == [kind |-> "publish", count |-> n]

\* a connection that is not up swallows what is written to it
Sent(messages) == IF link = "up" THEN up \o messages ELSE <<>>

\* An answer or an echo of a report is on its way to the unit.
Due ==
    \/ down # <<>>
    \/ /\ subscribed \/ Contains(up, Sub)
       /\ \E i \in DOMAIN up : up[i] # Unsub

-----------------------------------------------------------------------------
(* The unit.                                                               *)

\* Slip: the level is not stored, every pass counts.
LevelForgotten(reading) == level

\* what the pass stores as the level once it has been the same for a while
Settled(reading) == reading

\* A falling edge, debounced.
Counts == stable' > Ghost /\ pin # level /\ pin = Low

Loop ==
    /\ link # "down"
    /\ last' = pin
    /\ stable' = IF pin # last THEN 0 ELSE stable
    /\ level' = IF stable' > Ghost THEN Settled(pin) ELSE level
    /\ IF Counts
       THEN /\ value' = value + 1 /\ outdated' = TRUE
            /\ total' = total + 1
            /\ excused' = (excused \/ Due)
       ELSE UNCHANGED <<value, outdated, total, excused>>
    /\ UNCHANGED <<pin, link, up, down, broker, blind, bounds>>

\* The count after messages, and what is sent for each.
After(messages) == IF messages = <<>> THEN value ELSE Last(messages)
Thanks(messages) == [i \in DOMAIN messages |-> Unsub]

Receive ==
    /\ link = "up" /\ down # <<>>
    /\ value' = Head(down)
    /\ outdated' = (outdated \/ Head(down) # value)
    /\ up' = Append(up, Unsub)
    /\ down' = Tail(down)
    /\ UNCHANGED <<pin, last, level, stable, link, broker, total, excused, blind, bounds>>

\* The client is polled behind the report, still inside publish(): a count that
\* arrives there is taken over, and its mark cleared with that of the report.
Publish ==
    /\ link # "down" /\ outdated
    /\ \E n \in 0..Len(down) :
         LET got == SubSeq(down, 1, n)
         IN  /\ value' = After(got)
             /\ outdated' = FALSE
             /\ up' = Sent(<<Report(value)>> \o Thanks(got))
             /\ down' = SubSeq(down, n + 1, Len(down))
             /\ blind' = (link = "broken" \/ After(got) # value)
    /\ UNCHANGED <<pin, last, level, stable, link, broker, total, excused, bounds>>

\* Slip: the mark is cleared though the report failed.
PublishForgets ==
    /\ link = "up" /\ outdated /\ faults < MaxFaults
    /\ link' = "down" /\ up' = <<>> /\ down' = <<>> /\ subscribed' = FALSE
    /\ outdated' = FALSE
    /\ faults' = faults + 1
    /\ UNCHANGED <<pin, last, level, stable, value, retained, total, excused, blind, edges>>

\* The link breaks in the middle of it and is noticed; what had been written
\* may have arrived.
PublishFails ==
    /\ link = "up" /\ outdated /\ faults < MaxFaults
    /\ link' = "down" /\ up' = <<>> /\ down' = <<>> /\ subscribed' = FALSE
    /\ retained' \in {retained, value} \cup
                     {up[i].count : i \in {j \in DOMAIN up : up[j].kind = "publish"}}
    /\ faults' = faults + 1
    /\ UNCHANGED <<unit, total, excused, blind, edges>>

\* Slip: the count is not asked for.
ConnectOnly ==
    /\ link = "down"
    /\ link' = "up" /\ up' = <<>> /\ down' = <<>> /\ subscribed' = FALSE
    /\ excused' = (excused \/ retained # total)
    /\ blind' = (blind /\ retained = None)
    /\ UNCHANGED <<unit, retained, total, bounds>>

\* reconnect() ends with the subscription. Pulses that the broker was not told
\* of before are lost: its answer replaces the count.
Reconnect ==
    /\ link = "down"
    /\ link' = "up" /\ up' = <<Sub>> /\ down' = <<>> /\ subscribed' = FALSE
    /\ excused' = (excused \/ retained # total)
    /\ blind' = (blind /\ retained = None)
    /\ UNCHANGED <<unit, retained, total, bounds>>

\* A fresh object, by power or by a new configuration.
Fresh ==
    /\ last' = High /\ level' \in Byte /\ stable' = Ghost + 1
    /\ value' = 0 /\ outdated' = FALSE
    /\ link' = "down" /\ up' = <<>> /\ down' = <<>> /\ subscribed' = FALSE

\* Slip: init() leaves the mark of its set(0).
RestartMarked ==
    /\ faults < MaxFaults /\ faults' = faults + 1
    /\ last' = High /\ level' \in Byte /\ stable' = Ghost + 1
    /\ value' = 0 /\ outdated' = TRUE
    /\ link' = "down" /\ up' = <<>> /\ down' = <<>> /\ subscribed' = FALSE
    /\ UNCHANGED <<pin, retained, total, excused, blind, edges>>

Restart ==
    /\ faults < MaxFaults /\ faults' = faults + 1
    /\ Fresh
    /\ UNCHANGED <<pin, retained, total, excused, blind, edges>>

-----------------------------------------------------------------------------
(* The broker, the link, the pin and the clock.                            *)

Broker ==
    /\ link = "up" /\ up # <<>>
    /\ up' = Tail(up)
    /\ LET message == Head(up) IN
       \/ /\ message = Sub
          /\ subscribed' = TRUE
          /\ down' = IF retained = None THEN down ELSE Append(down, retained)
          /\ UNCHANGED retained
       \/ /\ message = Unsub
          /\ subscribed' = FALSE
          /\ UNCHANGED <<down, retained>>
       \/ /\ message.kind = "publish"
          /\ retained' = message.count
          /\ down' = IF subscribed THEN Append(down, message.count) ELSE down
          /\ UNCHANGED subscribed
    /\ UNCHANGED <<unit, link, total, excused, blind, bounds>>

\* Reports on their way get lost with the link.
Break ==
    /\ link = "up" /\ faults < MaxFaults
    /\ link' = "broken" /\ up' = <<>> /\ down' = <<>> /\ subscribed' = FALSE
    /\ blind' = (blind \/ \E i \in DOMAIN up : up[i].kind = "publish")
    /\ faults' = faults + 1
    /\ UNCHANGED <<unit, retained, total, excused, edges>>

Notice ==
    /\ link = "broken"
    /\ link' = "down"
    /\ UNCHANGED <<unit, up, down, broker, total, excused, blind, bounds>>

Pin ==
    /\ edges < MaxEdges /\ edges' = edges + 1
    /\ pin' = High - pin
    /\ UNCHANGED <<last, level, stable, value, outdated, link, up, down, broker, total,
                   excused, blind, faults>>

Tick ==
    /\ stable <= Ghost
    /\ stable' = stable + 1
    /\ UNCHANGED <<pin, last, level, value, outdated, link, up, down, broker, total,
                   excused, blind, bounds>>

-----------------------------------------------------------------------------

Init ==
    /\ pin = High
    /\ last = High /\ level \in Byte /\ stable = Ghost + 1
    /\ value = 0 /\ outdated = FALSE
    /\ link = "down" /\ up = <<>> /\ down = <<>> /\ subscribed = FALSE
    /\ retained \in Starts
    /\ total = retained
    /\ excused = FALSE /\ blind = FALSE
    /\ edges = 0 /\ faults = 0

Next ==
    \/ Loop
    \/ Receive
    \/ Publish
    \/ PublishFails
    \/ Reconnect
    \/ Restart
    \/ Broker
    \/ Break
    \/ Notice
    \/ Pin
    \/ Tick

Spec == Init /\ [][Next]_vars

\* The main loop runs, the connection is looked at and made again, messages
\* arrive.
Fairness ==
    /\ WF_vars(Receive) /\ WF_vars(Publish) /\ WF_vars(Reconnect)
    /\ WF_vars(Broker) /\ WF_vars(Notice)

FairSpec == Spec /\ Fairness

-----------------------------------------------------------------------------
(* Properties.                                                             *)

\* Nothing counts beyond the pulses there were, nor do messages pile up.
TypeOK ==
    /\ pin \in {Low, High} /\ last \in {Low, High} /\ level \in Byte
    /\ stable \in 0..(Ghost + 1)
    /\ \A n \in {value, retained} \cup ToSet(down) :
         n \in 0..total
    /\ \A i \in DOMAIN up : up[i] \in {Sub, Unsub} \cup {Report(n) : n \in 0..total}
    /\ \E start \in Starts : total <= start + MaxEdges + MaxFaults + 1
    /\ link \in {"down", "up", "broken"}
    /\ {outdated, subscribed, excused, blind} \subseteq BOOLEAN
    /\ edges \in 0..MaxEdges /\ faults \in 0..MaxFaults

\* Everything has been said.
Quiet == link = "up" /\ up = <<>> /\ down = <<>> /\ ~outdated

\* Over restarts and broken links unit and broker come back to the whole count,
\* unless a pulse came while an answer was due or was not yet reported before.
CountKept == Quiet /\ ~excused => value = total /\ retained = total

\* The retained count never goes back, unless so excused: no report of a unit
\* that does not know its count overtakes the answer.
NeverBack == [][retained' >= retained \/ excused']_vars

\* In the end the broker shows what the unit counts, unless the report got lost
\* with the link or its mark in a publish.
Reported == <>[](value = retained \/ blind)
=============================================================================
