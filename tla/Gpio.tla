-------------------------------- MODULE Gpio --------------------------------
(***************************************************************************)
(* The GPIO capability (src/src/cap_GPIO.cpp): output pins that switch,    *)
(* pulse and fade on command, input pins that report how long they are     *)
(* held, and the one report per pass of the main loop that tells the       *)
(* broker about all of them.                                               *)
(*                                                                         *)
(* Times are left out: a fade may take any level on its way and end at any *)
(* step, a pulse may end and a hold grow at any pass.                      *)
(***************************************************************************)
EXTENDS Naturals, FiniteSetsExt

CONSTANTS
    Outputs,    \* pins configured as outputs
    Inputs,     \* pins configured as inputs
    Top,        \* get_max(), the highest level
    Longest,    \* the highest count of a held input
    Commands,   \* what may be received
    Nested,     \* those that may be received inside a report
    HalfOpen,   \* the pins for whose reports the broker may be gone without the
                \* socket noticing
    None        \* nothing reported yet

Pins == Outputs \cup Inputs
Levels == 0..Top

Ops == {"on", "off", "level", "brightness", "dimm_on", "dimm_off",
        "mass_on", "mass_off", "toggle", "pulse"}

\* A command names its pins; more than one only in the mass dimming.
Command == [pins : SUBSET Outputs, op : Ops, level : Levels]

ASSUME PinAssumption == Pins \subseteq Nat /\ Outputs \cap Inputs = {}
ASSUME LevelAssumption == Top \in Nat \ {0} /\ Longest \in Nat \ {0}
ASSUME CommandAssumption ==
    /\ Commands \subseteq Command
    /\ Nested \subseteq Commands
ASSUME NetworkAssumption == HalfOpen \subseteq Pins
ASSUME NoneAssumption == None \notin {"ON", "OFF"} \cup Nat

VARIABLES
    out,      \* per output: m_state, m_brightness, the dimmer and the timer
    in,       \* per input: m_state and its timer
    told,     \* the last state and brightness (hold) of each pin at the broker
    missed,   \* reports that never told what their mark stood for: a command
              \* inside changed the output, or a half-open link lost them
    call,     \* the report that is being sent
    phase     \* what the main loop does next: "loop", "publish", or "sent",
              \* where the report is out and its mark not yet cleared

vars == <<out, in, told, missed, call, phase>>

-----------------------------------------------------------------------------
(* class dimmer; set_output() of a pin.                                    *)

DimmTo(o, t) == [o EXCEPT !.target = t, !.fading = TRUE]

\* dimm_to(t, false): no fading
JumpTo(o, t) == [o EXCEPT !.target = t, !.current = t, !.fading = FALSE]

\* the level is kept for the next ON, but not 0 when OFF comes twice
DimmOff(o) ==
    DimmTo([o EXCEPT !.backup = IF o.target # 0 THEN o.target ELSE @], 0)

\* a running fade is not disturbed
DimmOn(o) == IF o.fading THEN o ELSE DimmTo(o, o.backup)

SetBrightness(o, t) ==
    IF o.current # 0 THEN DimmTo(o, t) ELSE [o EXCEPT !.backup = t]

SetOutput(o, t) ==
    [JumpTo(o, t) EXCEPT !.on = (t # 0), !.stateMark = TRUE]

-----------------------------------------------------------------------------
(* receive().                                                              *)

\* What a command does to one of its pins.
Obeyed(o, cmd) ==
    CASE cmd.op = "on" -> SetOutput(o, o.bright)
      [] cmd.op = "off" -> SetOutput(o, 0)
      [] cmd.op = "level" ->
            [SetOutput(o, cmd.level) EXCEPT !.bright = cmd.level,
                                            !.brightMark = TRUE,
                                            !.on = TRUE]
      [] cmd.op = "brightness" ->
            [SetBrightness(o, cmd.level) EXCEPT !.bright = cmd.level,
                                                !.brightMark = TRUE]
      [] cmd.op \in {"dimm_on", "mass_on"} ->
            [DimmOn(o) EXCEPT !.on = TRUE, !.stateMark = TRUE, !.brightMark = TRUE]
      [] cmd.op = "dimm_off" -> [DimmOff(o) EXCEPT !.on = FALSE, !.stateMark = TRUE]
      [] cmd.op = "mass_off" ->
            [DimmOff(o) EXCEPT !.on = FALSE, !.stateMark = TRUE, !.brightMark = TRUE]
      [] cmd.op = "toggle" ->
            IF o.on THEN SetOutput(o, 0)
            ELSE [SetOutput(o, o.bright) EXCEPT !.brightMark = TRUE]
      [] cmd.op = "pulse" -> [SetOutput(o, o.bright) EXCEPT !.pulse = TRUE]

Received(outs, cmd) ==
    [p \in Outputs |-> IF p \in cmd.pins THEN Obeyed(outs[p], cmd) ELSE outs[p]]

Receive ==
    /\ phase = "loop"
    /\ \E cmd \in Commands : out' = Received(out, cmd)
    /\ UNCHANGED <<in, told, missed, call, phase>>

\* Inside a report, where network.publish() polls the client.
ReceiveInside ==
    /\ phase = "sent"
    /\ \E cmd \in Nested :
          /\ out' = Received(out, cmd)
          /\ missed' = IF call.pin \in cmd.pins THEN missed \cup {call} ELSE missed
    /\ UNCHANGED <<in, told, call, phase>>

-----------------------------------------------------------------------------
(* loop().                                                                 *)

\* Slip: the end of a pulse only darkens the pin.
PulseEndUnseen(o) == [JumpTo(o, 0) EXCEPT !.pulse = FALSE]

\* Slip: the timer of a pulse is not reset.
PulseEndAgain(o) == SetOutput(o, 0)

\* an output at the end of its pulse
PulseEnd(o) == [SetOutput(o, 0) EXCEPT !.pulse = FALSE]

Between(a, b) == IF a <= b THEN a..b ELSE b..a

\* Slip: a fade passes its target.
StepPast(o, l) == [o EXCEPT !.current = l + 1]

\* dimmer::loop() with a step that does not end the fade
Step(o, l) == [o EXCEPT !.current = l]

\* an active input: the first pass reports it, the later ones count to v
Held(i, v) ==
    IF i.timing THEN [i EXCEPT !.value = v, !.mark = @ \/ v # i.value]
    ELSE [value |-> 1, timing |-> TRUE, mark |-> TRUE]

\* Slip: a release is not reported when the press is still waiting.
ReleasedQuietly(i) ==
    IF ~i.timing THEN i ELSE [value |-> 0, timing |-> FALSE, mark |-> FALSE]

\* an input that is not active
Released(i) ==
    IF ~i.timing THEN i
    ELSE [value |-> 0, timing |-> FALSE, mark |-> i.mark \/ i.value # 0]

Pulsing == {p \in Outputs : out[p].pulse}
Fading == {p \in Outputs : out[p].fading}

\* One pass over the pins: the pulses in over and the fades in done end, the
\* inputs in pressed are active. A fading pin asks for uninterrupted execution,
\* and nothing is published in this pass.
Loop(over, done, pressed) ==
    /\ phase = "loop"
    /\ LET under == Fading \ (over \cup done) IN
       \E step \in [under -> Levels] :
          /\ \A p \in under : step[p] \in Between(out[p].current, out[p].target)
          /\ out' = [p \in Outputs |->
                        IF p \in over THEN PulseEnd(out[p])
                        ELSE IF p \in done THEN JumpTo(out[p], out[p].target)
                        ELSE IF p \in under THEN Step(out[p], step[p])
                        ELSE out[p]]
    /\ \E count \in [pressed -> 1..Longest] :
          /\ \A p \in pressed : count[p] >= in[p].value
          /\ in' = [p \in Inputs |-> IF p \in pressed THEN Held(in[p], count[p])
                                     ELSE Released(in[p])]
    /\ phase' = IF Fading \subseteq over THEN "publish" ELSE "loop"
    /\ UNCHANGED <<told, missed, call>>

-----------------------------------------------------------------------------
(* publish().                                                              *)

StateMarked == {p \in Outputs : out[p].stateMark} \cup {p \in Inputs : in[p].mark}
BrightMarked == {p \in Outputs : out[p].brightMark}

Switched(on) == IF on THEN "ON" ELSE "OFF"

\* What the broker knows of an output after its state arrived; of an input
\* after both messages of a release, after its ON, or after a hold.
ToldState(p) ==
    IF p \in Outputs THEN [told[p] EXCEPT !.state = Switched(out[p].on)]
    ELSE CASE in[p].value = 0 -> [state |-> "OFF", more |-> 0]
           [] in[p].value = 1 -> [told[p] EXCEPT !.state = "ON"]
           [] OTHER -> [told[p] EXCEPT !.more = in[p].value - 1]

\* and after its brightness arrived
ToldBrightness(p) == [told[p] EXCEPT !.more = out[p].bright]

\* The lowest pin that has anything to report, its state first.
Turn == Min(StateMarked \cup BrightMarked)

Telling == IF Turn \in StateMarked THEN ToldState(Turn) ELSE ToldBrightness(Turn)

Reports == [pin : Pins, part : {"state", "bright"}]
NoCall == [pin |-> None, part |-> None]
Report == [pin |-> Turn, part |-> IF Turn \in StateMarked THEN "state" ELSE "bright"]

\* The report is sent.
Publish ==
    /\ phase = "publish"
    /\ StateMarked \cup BrightMarked # {}
    /\ told' = [told EXCEPT ![Turn] = Telling]
    /\ call' = Report
    /\ missed' = missed \ {call'}
    /\ phase' = "sent"
    /\ UNCHANGED <<out, in>>

\* What the broker may know after a report that was lost.
Heard ==
    IF Turn \in Inputs /\ in[Turn].value = 0
    THEN {told[Turn], [told[Turn] EXCEPT !.state = "OFF"]} ELSE {told[Turn]}

\* The link is half open: network.publish() drops the report, or the second
\* message of a released input, and still finds the socket connected. A link
\* that stays so loses one report after the other and is at last broken, which
\* changes nothing here; the commands inside had already arrived.
PublishLost ==
    /\ phase = "publish"
    /\ StateMarked \cup BrightMarked # {}
    /\ Turn \in HalfOpen
    /\ \E t \in Heard : told' = [told EXCEPT ![Turn] = t]
    /\ call' = Report
    /\ missed' = missed \cup {call'}
    /\ phase' = "sent"
    /\ UNCHANGED <<out, in>>

\* the outputs when the report is out
Unmarked(outs) ==
    IF call.pin \in Inputs THEN outs
    ELSE IF call.part = "state" THEN [outs EXCEPT ![call.pin].stateMark = FALSE]
    ELSE [outs EXCEPT ![call.pin].brightMark = FALSE]

\* The mark is cleared behind it, whatever has been received meanwhile.
PublishReturn ==
    /\ phase = "sent"
    /\ out' = Unmarked(out)
    /\ in' = IF call.pin \in Inputs THEN [in EXCEPT ![call.pin].mark = FALSE] ELSE in
    /\ call' = NoCall
    /\ phase' = "loop"
    /\ UNCHANGED <<told, missed>>

\* Slip: the mark is cleared although the connection broke.
PublishForgets ==
    /\ phase = "publish"
    /\ StateMarked \cup BrightMarked # {}
    /\ out' = IF Turn \in Inputs THEN out
              ELSE IF Turn \in StateMarked THEN [out EXCEPT ![Turn].stateMark = FALSE]
              ELSE [out EXCEPT ![Turn].brightMark = FALSE]
    /\ phase' = "loop"
    /\ UNCHANGED <<in, told, missed, call>>

\* The connection breaks before, after, or between the two messages of a
\* released input: the mark stays. The main loop stands still in reconnect()
\* until the broker is back.
PublishFails ==
    /\ phase = "publish"
    /\ StateMarked \cup BrightMarked # {}
    /\ \E t \in {told[Turn], Telling, [told[Turn] EXCEPT !.state = Telling.state]} :
          told' = [told EXCEPT ![Turn] = t]
    /\ phase' = "loop"
    /\ UNCHANGED <<out, in, missed, call>>

\* It breaks when commands have been received inside the report.
ReturnFails ==
    /\ phase = "sent"
    /\ call' = NoCall
    /\ phase' = "loop"
    /\ UNCHANGED <<out, in, told, missed>>

\* Nothing to report, too early, or another component was faster.
PublishNothing ==
    /\ phase = "publish"
    /\ phase' = "loop"
    /\ UNCHANGED <<out, in, told, missed, call>>

-----------------------------------------------------------------------------

\* After parse(): every pin is off and marked.
Init ==
    /\ out = [p \in Outputs |->
                [on |-> FALSE, bright |-> Top, stateMark |-> TRUE, brightMark |-> TRUE,
                 current |-> 0, target |-> 0, backup |-> Top, fading |-> FALSE,
                 pulse |-> FALSE]]
    /\ in = [p \in Inputs |-> [value |-> 0, timing |-> FALSE, mark |-> TRUE]]
    /\ told = [p \in Pins |-> [state |-> None, more |-> None]]
    /\ missed = {}
    /\ call = NoCall
    /\ phase = "loop"

SomeLoop ==
    \E over \in SUBSET Pulsing, done \in SUBSET Fading, pressed \in SUBSET Inputs :
       Loop(over, done, pressed)

Next ==
    \/ Receive
    \/ SomeLoop
    \/ Publish
    \/ PublishLost
    \/ ReceiveInside
    \/ PublishReturn
    \/ PublishFails
    \/ ReturnFails
    \/ PublishNothing

Spec == Init /\ [][Next]_vars

\* the pulse or the fade of a pin ends
Ends(p) ==
    \E over \in SUBSET Pulsing, done \in SUBSET Fading, pressed \in SUBSET Inputs :
       p \in over \cup done /\ Loop(over, done, pressed)

\* The main loop runs; a pulse is over after some time, and a fade after some
\* steps; other components do not publish before this one for ever.
Fairness ==
    /\ WF_vars(SomeLoop)
    /\ WF_vars(PublishNothing)
    /\ SF_vars(Publish)
    /\ WF_vars(PublishReturn)
    /\ \A p \in Outputs : SF_vars(Ends(p))

FairSpec == Spec /\ Fairness

-----------------------------------------------------------------------------
(* Properties.                                                             *)

Out == [on : BOOLEAN, bright : Levels, stateMark : BOOLEAN, brightMark : BOOLEAN,
        current : Levels, target : Levels, backup : Levels, fading : BOOLEAN,
        pulse : BOOLEAN]
In == [value : 0..Longest, timing : BOOLEAN, mark : BOOLEAN]

\* Levels and hold counts keep their ranges.
TypeOK ==
    /\ out \in [Outputs -> Out]
    /\ in \in [Inputs -> In]
    /\ told \in [Pins -> [state : {"ON", "OFF", None},
                          more : Levels \cup 0..Longest \cup {None}]]
    /\ missed \subseteq Reports
    /\ phase \in {"loop", "publish", "sent"}
    /\ IF phase = "sent" THEN call \in Reports ELSE call = NoCall

\* Whatever is not marked for a report has been reported: commands from the
\* broker, pulses, commands inside the report of another pin, reports that
\* break off. Two kinds of reports are missed and nothing else: one whose own
\* pin a command changed inside it, and one that a half-open link lost; both
\* have their mark cleared (outdated(false) after network.publish) and stay
\* wrong until that part of the pin is reported again.
StateReported ==
    \A p \in Outputs :
       /\ \/ out[p].stateMark
          \/ [pin |-> p, part |-> "state"] \in missed
          \/ told[p].state = Switched(out[p].on)
       /\ \/ out[p].brightMark
          \/ [pin |-> p, part |-> "bright"] \in missed
          \/ told[p].more = out[p].bright

OpsOf(p) == {cmd.op : cmd \in {c \in Commands : p \in c.pins}}

\* A pin that is off is dark once its fade is over, unless its brightness may
\* be changed while it fades out; a pin that is only switched is lit exactly
\* when it is on.
StateIsLight ==
    \A p \in Outputs :
       /\ "brightness" \notin OpsOf(p) /\ ~out[p].on /\ ~out[p].fading
             => out[p].current = 0
       /\ OpsOf(p) \subseteq {"on", "off", "toggle", "pulse"}
             => (out[p].on <=> out[p].current # 0)

\* An input without a mark is at the broker what it is here: released and its
\* hold count back at 0, pressed, or held as long as the broker was told. Both
\* messages of a release are repeated when the connection breaks before or
\* between them; only what a half-open link has lost stays missed.
InputReported ==
    \A p \in Inputs :
       ~in[p].mark /\ [pin |-> p, part |-> "state"] \notin missed =>
          CASE in[p].value = 0 -> told[p] = [state |-> "OFF", more |-> 0]
            [] in[p].value = 1 -> told[p].state = "ON"
            [] OTHER -> told[p].more = in[p].value - 1

Settled ==
    /\ StateMarked \cup BrightMarked = {}
    /\ \A p \in Outputs : ~out[p].fading /\ ~out[p].pulse

\* Nobody sends commands or touches the inputs any more, and the connection
\* holds, noticed or not.
Quiet ==
    /\ <>[][SomeLoop \/ Publish \/ PublishReturn \/ PublishNothing]_vars
    /\ <>[](\A p \in Inputs : ~in[p].timing)

\* Then fades and pulses end and everything is reported, though a fade stops
\* all reports.
EventuallySettled == Quiet => <>[]Settled
=============================================================================
