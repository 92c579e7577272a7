------------------------------- MODULE Light -------------------------------
(***************************************************************************)
(* The light capability of the firmware (src/src/cap_light.cpp) and its    *)
(* reports to the MQTT broker over a direct connection                     *)
(* (connection_relay::publish).                                            *)
(*                                                                         *)
(* The three colour channels are abstracted to one brightness level, as    *)
(* if every command asked for a shade of grey: the code treats the         *)
(* channels alike.  Level MaxLevel stands for 99 and everything above,     *)
(* because send_current_light clamps the index into its brightness table.  *)
(* One loop() of the light is one action; the time a fade takes is         *)
(* abstracted to any number of intermediate steps.                         *)
(***************************************************************************)
EXTENDS Naturals, FiniteSets

CONSTANTS
    MaxLevel,   \* full brightness (99 in the code)
    Ops,        \* the commands the broker may forward to this device
    Modes,      \* what the registered providers support: "pwm", "rgb", "pixel"
    MaxNested,  \* commands the two client.loop() of one publish may deliver
    HalfOpen,   \* TRUE: the broker may vanish without the socket noticing
    Toggles,    \* how a button acts: "never", "offline" or "always"
    Boots,      \* reasons of the reset: "power", "watchdog"
    OldReports  \* what the broker may have retained from an earlier life

Level == 0..MaxLevel
Dark == 0
Wheel == MaxLevel + 1              \* the output while an animation draws

Animations == {"wheel", "simple", "wipe"}
Parameters == {"state", "color", "bright", "anim", "abright"}
Reports == {"state", "color", "bright", "wheel", "simple", "wipe", "abright"}

\* The topics s/light..., by what the providers must support for the light
\* to subscribe to them.
BasicOps == {"on", "off", "onfor"}
PwmLevelOps == {"color", "dimmColor", "bright", "dimmBright",
                "jsonColor", "jsonOtherColor"}
PwmOps == {"dimmOn", "dimmOff", "jsonOn", "jsonOff", "jsonOther", "delay"}
              \cup PwmLevelOps
RgbOps == {"abright", "simpleOn", "simpleOff", "wipeOn", "wipeOff"}
PixelOps == {"wheelOn", "wheelOff"}
LevelOps == PwmLevelOps \cup {"abright"}
\* What Home Assistant sends after discovery: on and off as fades, in words to
\* a dimmable light and as JSON to a coloured one (color_fmt), and levels.
FadeOps == {"dimmOn", "dimmOff", "jsonOn", "jsonOff", "jsonOther", "delay",
            "abright"} \cup PwmLevelOps
AllOps == BasicOps \cup PwmOps \cup RgbOps \cup PixelOps

Subscribed == BasicOps \cup (IF "pwm" \in Modes THEN PwmOps ELSE {})
                       \cup (IF "rgb" \in Modes THEN RgbOps ELSE {})
                       \cup (IF "pixel" \in Modes THEN PixelOps ELSE {})

Told == [state : BOOLEAN, color : Level, bright : Level, wheel : BOOLEAN,
         simple : BOOLEAN, wipe : BOOLEAN, abright : Level]

ASSUME LevelAssumption == MaxLevel \in Nat \ {0}
ASSUME OpsAssumption == Ops \subseteq AllOps
ASSUME ModesAssumption == Modes \subseteq {"pwm", "rgb", "pixel"}
ASSUME NetworkAssumption == MaxNested \in Nat /\ HalfOpen \in BOOLEAN
\* A button publishes its own command to s/light, so its echo must be possible.
ASSUME ToggleAssumption ==
    /\ Toggles \in {"never", "offline", "always"}
    /\ Toggles = "always" => {"on", "off"} \subseteq Ops
ASSUME BootAssumption == Boots \subseteq {"power", "watchdog"}
ASSUME OldReportsAssumption == OldReports \subseteq Told

VARIABLES
    lamp,   \* the members of class light, the output and the outdated flags
    told,   \* the broker's retained copy of each report
    call,   \* the publish in progress: stage, result so far, commands nested
    link    \* the connection: "up", "dead" (half open) or "down"

vars == <<lamp, told, call, link>>

Lamp == [state : BOOLEAN, anim : Animations \cup {"off"}, abright : Level,
         cur : Level, tgt : Level, start : Level, bak : Level,
         dimming : BOOLEAN, onfor : BOOLEAN, out : Level \cup {Wheel},
         dirty : SUBSET Parameters]

Idle == [at |-> "none", ok |-> TRUE, nested |-> 0]
Calls == [at : Reports, ok : BOOLEAN, nested : 0..MaxNested] \cup {Idle}

-----------------------------------------------------------------------------
(* What the member functions do to the light L.                            *)

\* mqtt_parameter::outdated() on every parameter of P
Outdate(L, P) == [L EXCEPT !.dirty = @ \cup P]

\* m_state.set(on): the value changes and is marked for publishing
SetStateParam(L, on) == [Outdate(L, {"state"}) EXCEPT !.state = on]

\* send_current_light(): the level reaches every provider
SendCurrentLight(L) == [L EXCEPT !.out = L.cur]

\* DimmTo(): start a fade from the present level
DimmTo(L, level) ==
    [L EXCEPT !.tgt = level, !.start = L.cur, !.dimming = TRUE]

\* Slip: the light is switched off without m_state.set().
SetAnimationTypeSilently(L, type) ==
    [Outdate(L, {"anim"}) EXCEPT
        !.state = @ /\ type = "off", !.anim = type,
        !.out = IF type = "off" THEN Dark ELSE @]

\* Slip: the type is changed without marking it for publishing.
SetAnimationTypeUnmarked(L, type) ==
    LET taken == IF L.state /\ type # "off"
                 THEN [SetStateParam(L, FALSE) EXCEPT !.bak = L.cur, !.cur = Dark]
                 ELSE L
    IN  [taken EXCEPT !.anim = type, !.out = IF type = "off" THEN Dark ELSE @]

\* setAnimationType(): an animation that starts takes the light over; an
\* animation that ends leaves the providers dark
SetAnimationType(L, type) ==
    LET taken == IF L.state /\ type # "off"
                 THEN [SetStateParam(L, FALSE) EXCEPT !.bak = L.cur, !.cur = Dark]
                 ELSE L
    IN  [Outdate(taken, {"anim"}) EXCEPT
            !.anim = type, !.out = IF type = "off" THEN Dark ELSE @]

\* Slip: a light command leaves the animation running.
KeepAnimation(L) == L

StopAnimation(L) ==
    IF L.anim = "off" THEN L ELSE SetAnimationType(L, "off")

\* switching off, hard: the code repeats these lines in setState, receive,
\* toggle and the auto off of loop
HardOff(L) ==
    SendCurrentLight([SetStateParam(L, FALSE) EXCEPT !.bak = L.tgt, !.cur = Dark])

\* switching on, hard
HardOn(L) ==
    [SendCurrentLight([L EXCEPT !.cur = L.bak]) EXCEPT
        !.state = TRUE, !.dirty = @ \cup {"state", "bright", "color"}]

\* Slip: a lamp that goes on fades to its old target, not to the saved level.
DimmOnToTarget(L) ==
    DimmTo(Outdate(SetStateParam(StopAnimation(L), TRUE), {"bright", "color"}), L.tgt)

\* Slip: the level of the moment is saved instead of the target.
DimmOffSavesCurrent(L) ==
    DimmTo([SetStateParam(StopAnimation(L), FALSE) EXCEPT !.bak = L.cur], Dark)

\* fading out, by command
DimmOff(L) ==
    DimmTo([SetStateParam(StopAnimation(L), FALSE) EXCEPT !.bak = L.tgt], Dark)

\* fading in, by command
DimmOn(L) ==
    DimmTo(Outdate(SetStateParam(StopAnimation(L), TRUE), {"bright", "color"}), L.bak)

\* Slip: a level lights a lamp that is off.
SetLevelAlways(L, level, faded) ==
    LET M == Outdate(StopAnimation(L), {"bright", "color"})
    IN  IF faded THEN DimmTo(M, level)
        ELSE SendCurrentLight([M EXCEPT !.cur = level, !.tgt = level])

\* a brightness or a colour, hard or faded; a light that is off only
\* remembers it
SetLevel(L, level, faded) ==
    LET M == Outdate(StopAnimation(L), {"bright", "color"})
    IN  IF ~L.state THEN [L EXCEPT !.bak = level]
        ELSE IF faded THEN DimmTo(M, level)
        ELSE SendCurrentLight([M EXCEPT !.cur = level, !.tgt = level])

\* one animation topic: ON starts it, OFF stops it, anything else only
\* repeats the report
Animate(L, type, on) ==
    IF on /\ L.anim # type THEN SetAnimationType(L, type)
    ELSE IF ~on /\ L.anim = type THEN SetAnimationType(L, "off")
    ELSE Outdate(L, {"anim"})

\* receive(): every branch disarms the auto off first.  The JSON commands are
\* payloads of the dimm topic; "jsonColor" is state ON with a colour,
\* "jsonOther" a state that is neither ON nor OFF, "jsonOtherColor" that with
\* a colour.  A colour with state OFF is overwritten by the target.
Receive(L0, op, level) ==
    LET L == [L0 EXCEPT !.onfor = FALSE]
        on == IF ~L.state \/ L.anim # "off"
              THEN HardOn(StopAnimation(L)) ELSE Outdate(L, {"state"})
    IN  CASE op = "on" -> on
          [] op = "onfor" -> [on EXCEPT !.onfor = TRUE]
          [] op = "off" -> IF L.state \/ L.anim # "off"
                           THEN HardOff(StopAnimation(L)) ELSE Outdate(L, {"state"})
          [] op = "dimmOn" -> IF ~L.state \/ L.anim # "off"
                              THEN DimmOn(L) ELSE Outdate(L, {"state"})
          [] op = "dimmOff" -> IF L.state \/ L.anim # "off"
                               THEN DimmOff(L) ELSE Outdate(L, {"state"})
          [] op = "jsonOn" -> DimmOn(L)
          [] op = "jsonColor" -> DimmOn([L EXCEPT !.bak = level])
          [] op = "jsonOff" -> DimmOff(L)
          [] op = "jsonOther" -> Outdate(L, {"state"})
          [] op = "jsonOtherColor" -> Outdate([L EXCEPT !.bak = level], {"state"})
          [] op \in {"color", "bright"} -> SetLevel(L, level, FALSE)
          [] op \in {"dimmColor", "dimmBright"} -> SetLevel(L, level, TRUE)
          [] op = "abright" -> IF level = L.abright THEN L
                               ELSE [Outdate(L, {"abright"}) EXCEPT !.abright = level]
          [] op = "wheelOn" -> Animate(L, "wheel", TRUE)
          [] op = "wheelOff" -> Animate(L, "wheel", FALSE)
          [] op = "simpleOn" -> Animate(L, "simple", TRUE)
          [] op = "simpleOff" -> Animate(L, "simple", FALSE)
          [] op = "wipeOn" -> Animate(L, "wipe", TRUE)
          [] op = "wipeOff" -> Animate(L, "wipe", FALSE)
          [] OTHER -> L                         \* "delay": the speed of a fade

\* toggle(): neither an animation nor a fade nor the auto off is stopped
Toggled(L) ==
    IF L.state THEN HardOff(L)
    ELSE SetStateParam(SendCurrentLight([L EXCEPT !.cur = L.bak, !.tgt = L.bak]), TRUE)

\* Slip: the interpolation overshoots its target by one.
BetweenOvershoots(a, b) == IF a <= b THEN a..(b + 1) ELSE b..a

\* the levels map() may return between the start and the target of a fade
Between(a, b) == IF a <= b THEN a..b ELSE b..a

\* what an animation shows on the providers: per pixel all three, a PWM
\* output no wheel, a relay nothing
Drawn(L) == IF \/ "pixel" \in Modes
               \/ "pwm" \in Modes /\ L.anim # "wheel"
            THEN Wheel ELSE L.out

-----------------------------------------------------------------------------
(* Setup: after power up the light goes on, after a watchdog reset the     *)
(* code asks for off; neither is published before the connection exists.   *)

Booted(reason) ==
    LET new == [state |-> FALSE, anim |-> "off", abright |-> MaxLevel,
                cur |-> MaxLevel, tgt |-> MaxLevel, start |-> MaxLevel,
                bak |-> MaxLevel, dimming |-> FALSE, onfor |-> FALSE,
                out |-> Dark, dirty |-> {}]
    IN  IF reason = "power"
        THEN SendCurrentLight(Outdate(SetStateParam(new, TRUE), {"bright"}))
        ELSE SendCurrentLight([new EXCEPT !.cur = Dark])

Init ==
    /\ lamp \in {Booted(reason) : reason \in Boots}
    /\ told \in OldReports
    /\ call = Idle
    /\ link = "up"

-----------------------------------------------------------------------------
(* Commands arrive in network.receive_loop(), between two rounds of loop() *)
(* or, because publish() also polls the socket, inside a publish.          *)

Command(op, level) ==
    /\ link = "up"
    /\ \/ call = Idle /\ UNCHANGED call
       \/ /\ call # Idle
          /\ call.nested < MaxNested
          /\ call' = [call EXCEPT !.nested = @ + 1]
    /\ lamp' = Receive(lamp, op, level)
    /\ UNCHANGED <<told, link>>

\* A button: while offline always, while connected only with its BL option.
Toggle ==
    /\ call = Idle
    /\ Toggles = "always" \/ (Toggles = "offline" /\ link = "down")
    /\ lamp' = Toggled(lamp)
    /\ UNCHANGED <<told, call, link>>

-----------------------------------------------------------------------------
(* loop(): reconnect() does not return before the connection is there, so  *)
(* nothing below happens while the link is down.                           *)

Looping == call = Idle /\ link # "down"

DimStep ==
    /\ Looping
    /\ lamp.dimming
    /\ \E level \in Between(lamp.start, lamp.tgt) :
          lamp' = SendCurrentLight([lamp EXCEPT !.cur = level])
    /\ UNCHANGED <<told, call, link>>

\* Slip: the last step does not clear timer_dimmer_end.
DimEndForgotten ==
    /\ Looping
    /\ lamp.dimming
    /\ lamp' = SendCurrentLight([lamp EXCEPT !.cur = lamp.tgt])
    /\ UNCHANGED <<told, call, link>>

DimEnd ==
    /\ Looping
    /\ lamp.dimming
    /\ lamp' = SendCurrentLight([lamp EXCEPT !.cur = lamp.tgt, !.dimming = FALSE])
    /\ UNCHANGED <<told, call, link>>

\* A fade is not interrupted: the animation waits for its end.
AnimationStep ==
    /\ Looping
    /\ ~lamp.dimming
    /\ lamp.anim # "off"
    /\ lamp' = [lamp EXCEPT !.out = Drawn(lamp)]
    /\ UNCHANGED <<told, call, link>>

AutoOff ==
    /\ Looping
    /\ ~lamp.dimming
    /\ lamp.onfor
    /\ lamp' = [HardOff(lamp) EXCEPT !.onfor = FALSE]
    /\ UNCHANGED <<told, call, link>>

-----------------------------------------------------------------------------
(* publish(): the first outdated parameter is sent; the next one is tried  *)
(* only when that fails.  The animation takes three messages.              *)

Rank == [p \in Parameters |-> CASE p = "state" -> 1 [] p = "color" -> 2
                               [] p = "bright" -> 3 [] p = "anim" -> 4
                               [] OTHER -> 5]

Due(L, after) == {p \in L.dirty : Rank[p] > after}

FirstDue(L, after) ==
    CHOOSE p \in Due(L, after) : \A q \in Due(L, after) : Rank[p] <= Rank[q]

ParameterOf(stage) == IF stage \in Animations THEN "anim" ELSE stage
StageOf(parameter) == IF parameter = "anim" THEN "wheel" ELSE parameter

Value(L, stage) ==
    CASE stage = "state" -> L.state
      [] stage \in {"color", "bright"} -> L.tgt
      [] stage = "abright" -> L.abright
      [] OTHER -> L.anim = stage

\* client.publish(): quality of service 0, gone when nobody listens
Send(stage, ok) ==
    /\ call' = [at |-> stage, ok |-> ok, nested |-> 0]
    /\ told' = IF link = "up" THEN [told EXCEPT ![stage] = Value(lamp, stage)]
               ELSE told

PublishStart ==
    /\ Looping
    /\ ~lamp.dimming
    /\ lamp.dirty # {}
    /\ Send(StageOf(FirstDue(lamp, 0)), TRUE)
    /\ UNCHANGED <<lamp, link>>

\* network.publish() answers whether the socket is still connected.
PublishReturn ==
    LET p == ParameterOf(call.at)
        ok == call.ok /\ link # "down"
    IN  /\ call # Idle
        /\ IF call.at \in {"wheel", "simple"}
           THEN /\ Send(IF call.at = "wheel" THEN "simple" ELSE "wipe", ok)
                /\ UNCHANGED lamp
           ELSE IF ~ok /\ Due(lamp, Rank[p]) # {}
           THEN /\ Send(StageOf(FirstDue(lamp, Rank[p])), TRUE)
                /\ UNCHANGED lamp
           ELSE /\ call' = Idle
                /\ lamp' = IF ok THEN [lamp EXCEPT !.dirty = @ \ {p}] ELSE lamp
                /\ UNCHANGED told
        /\ UNCHANGED link

-----------------------------------------------------------------------------
(* The connection.                                                         *)

Break ==
    /\ \/ link = "up" /\ link' \in {"down"} \cup (IF HalfOpen THEN {"dead"} ELSE {})
       \/ link = "dead" /\ link' = "down"
    /\ UNCHANGED <<lamp, told, call>>

Reconnect ==
    /\ link = "down"
    /\ call = Idle
    /\ link' = "up"
    /\ UNCHANGED <<lamp, told, call>>

Offered == Ops \cap Subscribed

Next ==
    \/ \E op \in Offered, level \in Level :
          (op \in LevelOps \/ level = 0) /\ Command(op, level)
    \/ Toggle
    \/ DimStep
    \/ DimEnd
    \/ AnimationStep
    \/ AutoOff
    \/ PublishStart
    \/ PublishReturn
    \/ Break
    \/ Reconnect

Spec == Init /\ [][Next]_vars

-----------------------------------------------------------------------------
(* Fairness: loop() runs for ever, a fade ends after a bounded number of   *)
(* steps, a publish returns, and reconnect() tries until it succeeds.      *)

Fairness ==
    /\ WF_vars(DimEnd)
    /\ WF_vars(PublishStart)
    /\ WF_vars(PublishReturn)
    /\ WF_vars(Reconnect)

FairSpec == Spec /\ Fairness

-----------------------------------------------------------------------------
(* Properties.                                                             *)

\* Every variable keeps its type; in particular the output never exceeds the
\* brightness table and the queue of publish stages stays well formed.
TypeOK ==
    /\ lamp \in Lamp
    /\ told \in Told
    /\ call \in Calls
    /\ link \in {"up", "dead", "down"}

\* The broker's copy of the state is right whenever nothing is being
\* published and no publish is pending: every way of switching the light
\* marks the state, and clearing the mark never hides a newer value.
StateReported ==
    call = Idle /\ "state" \notin lamp.dirty => told.state = lamp.state

\* The same for the three animation topics, which are sent one by one: the
\* broker never shows two animations, or none while one runs, once the
\* animation parameter is clean.
AnimationReported ==
    call = Idle /\ "anim" \notin lamp.dirty
        => \A a \in Animations : told[a] = (lamp.anim = a)

\* A light that is off, fades nothing and animates nothing is dark: no
\* sequence of commands leaves it burning behind the reported OFF.
OffIsDark ==
    ~lamp.state /\ ~lamp.dimming /\ lamp.anim = "off" => lamp.out = Dark

\* While an animation runs the lamp counts as off (setAnimationType takes the
\* light over, every light command stops the animation); only the button,
\* which does neither, makes the two overlap.
OnlyButtonOverlaps ==
    [][lamp'.state /\ lamp'.anim # "off" =>
          (lamp.state /\ lamp.anim # "off") \/ Toggle]_vars

\* What the code alone does when it is left in peace.
Undisturbed == <>[][DimStep \/ DimEnd \/ AnimationStep \/ AutoOff
                    \/ PublishStart \/ PublishReturn \/ Reconnect]_vars

Settled == lamp.dirty = {} /\ ~lamp.dimming /\ call = Idle /\ link = "up"

\* Once commands, buttons and connection losses stop, every report is
\* delivered, every fade ends and nothing stays outdated: a fade, which keeps
\* the publish routine from running, cannot starve it for ever.
EventuallySettled == Undisturbed => <>[]Settled

-----------------------------------------------------------------------------
(* What the light promises: a dimmable lamp.                               *)

KeptLevel == IF lamp.state THEN lamp.tgt ELSE lamp.bak

Lamps == INSTANCE DimLamp WITH
    on <- lamp.state,
    level <- KeptLevel,
    shown <- lamp.out,
    fading <- lamp.dimming

\* Under the commands Home Assistant sends after discovery, in words or as
\* JSON, the light is a dimmable lamp: a switch keeps the level or sets the
\* one it came with, a fade that is interrupted still ends at what was asked
\* for, and a level set while off lights nothing.  Which levels a lamp gets
\* without a switch is left to OnlyRepeatsLose.
IsDimLamp == Lamps!Spec

Commanded == \E op \in Offered \cap PwmLevelOps, level \in Level :
                Command(op, level) /\ KeptLevel' = level

\* The two JSON commands that the code does not compare with the state it has.
JsonRepeat ==
    \/ lamp.state /\ "jsonOn" \in Offered /\ Command("jsonOn", Dark)
    \/ ~lamp.state /\ "jsonOff" \in Offered /\ Command("jsonOff", Dark)

\* The level of the lamp, shown or remembered, changes only when a command
\* sets one ("remember the current target value to resume to this value"), or
\* is lost to the two JSON commands above: OFF to a lamp that is off saves the
\* darkness it went to. Nothing else loses a level: not a fade interrupted by
\* another, not a level set while off, not a command inside a publish, not the
\* connection.
OnlyRepeatsLose == [][KeptLevel' # KeptLevel => Commanded \/ JsonRepeat]_vars
=============================================================================
