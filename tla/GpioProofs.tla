----------------------------- MODULE GpioProofs -----------------------------
(* The pins, for every set of pins, levels and commands, with any number of *)
(* commands inside every report.                                            *)
EXTENDS Gpio, FiniteSetsExt, WellFoundedInduction, TLAPS

-----------------------------------------------------------------------------
(* What a command does to an output.                                       *)

\* An output that is not fading shows its target.
AtTarget(o) == ~o.fading => o.current = o.target

\* What a step may do to an output: a change of its state or brightness is
\* marked, and no mark is cleared.
Marks(o, new) ==
    /\ o.stateMark \/ new.on # o.on => new.stateMark
    /\ o.brightMark \/ new.bright # o.bright => new.brightMark

\* An output that is off is on its way to dark.
OffToDark(o) == ~o.on => o.target = 0

\* One that is only switched is dark or at its top level, and does not fade.
OnlySwitched(o) ==
    /\ ~o.fading /\ o.bright = Top
    /\ o.on <=> o.current # 0

LEMMA Helpers ==
    ASSUME NEW o \in Out, NEW l \in Levels
    PROVE  /\ DimmTo(o, l) \in Out /\ JumpTo(o, l) \in Out /\ DimmOff(o) \in Out
           /\ DimmOn(o) \in Out /\ SetBrightness(o, l) \in Out /\ SetOutput(o, l) \in Out
<1> USE DEF Out
<1>1. 0 \in Levels
  BY LevelAssumption DEF Levels
<1>2. DimmTo(o, l) \in Out /\ JumpTo(o, l) \in Out
  BY DEF DimmTo, JumpTo
<1>3. DimmOff(o) \in Out /\ DimmOn(o) \in Out
  BY <1>1 DEF DimmOff, DimmOn, DimmTo
<1>4. SetBrightness(o, l) \in Out /\ SetOutput(o, l) \in Out
  BY <1>1, <1>2 DEF SetBrightness, SetOutput, DimmTo, JumpTo
<1> QED BY <1>2, <1>3, <1>4

\* Every command keeps the type, marks what it changes, and leaves an output
\* that does not fade at its target.
LEMMA ObeyedMarks ==
    ASSUME NEW o \in Out, NEW cmd \in Command
    PROVE  /\ Obeyed(o, cmd) \in Out
           /\ Marks(o, Obeyed(o, cmd))
           /\ AtTarget(o) => AtTarget(Obeyed(o, cmd))
<1>1. 0 \in Levels /\ cmd.level \in Levels /\ o.bright \in Levels /\ cmd.op \in Ops
  BY LevelAssumption DEF Levels, Command, Out
<1>2. CASE cmd.op \in {"on", "off", "level", "pulse"}
  BY <1>1, <1>2 DEF Obeyed, SetOutput, JumpTo, Marks, AtTarget, Out
<1>3. CASE cmd.op = "brightness"
  BY <1>1, <1>3 DEF Obeyed, SetBrightness, DimmTo, Marks, AtTarget, Out
<1>4. CASE cmd.op \in {"dimm_on", "mass_on"}
  BY <1>1, <1>4 DEF Obeyed, DimmOn, DimmTo, Marks, AtTarget, Out
<1>5. CASE cmd.op \in {"dimm_off", "mass_off"}
  BY <1>1, <1>5 DEF Obeyed, DimmOff, DimmTo, Marks, AtTarget, Out
<1>6. CASE cmd.op = "toggle"
  BY <1>1, <1>6 DEF Obeyed, SetOutput, JumpTo, Marks, AtTarget, Out
<1> QED BY <1>1, <1>2, <1>3, <1>4, <1>5, <1>6 DEF Ops

LEMMA ObeyedOff ==
    ASSUME NEW o \in Out, NEW cmd \in Command, cmd.op # "brightness", OffToDark(o)
    PROVE  OffToDark(Obeyed(o, cmd))
<1>1. cmd.level \in Levels /\ o.bright \in Levels /\ cmd.op \in Ops
  BY DEF Command, Out
<1>2. CASE cmd.op \in {"on", "off", "level", "pulse", "toggle"}
  BY <1>1, <1>2 DEF Obeyed, SetOutput, JumpTo, OffToDark, Out
<1>3. CASE cmd.op \in {"dimm_on", "mass_on", "dimm_off", "mass_off"}
  BY <1>1, <1>3 DEF Obeyed, DimmOn, DimmOff, DimmTo, OffToDark, Out
<1> QED BY <1>1, <1>2, <1>3 DEF Ops

LEMMA ObeyedSwitch ==
    ASSUME NEW o \in Out, NEW cmd \in Command, OnlySwitched(o),
           cmd.op \in {"on", "off", "toggle", "pulse"}
    PROVE  OnlySwitched(Obeyed(o, cmd))
BY LevelAssumption DEF Obeyed, SetOutput, JumpTo, OnlySwitched, Out

\* The same of all outputs; those the command does not name stay as they are.
LEMMA ReceivedOut ==
    ASSUME NEW outs \in [Outputs -> Out], NEW cmd \in Command
    PROVE  /\ Received(outs, cmd) \in [Outputs -> Out]
           /\ \A p \in Outputs : /\ Marks(outs[p], Received(outs, cmd)[p])
                                 /\ p \notin cmd.pins => Received(outs, cmd)[p] = outs[p]
<1>1. \A p \in Outputs : Received(outs, cmd)[p] =
                            IF p \in cmd.pins THEN Obeyed(outs[p], cmd) ELSE outs[p]
  BY DEF Received
<1>2. ASSUME NEW p \in Outputs
      PROVE  Received(outs, cmd)[p] \in Out /\ Marks(outs[p], Received(outs, cmd)[p])
  <2>1. CASE p \in cmd.pins
    BY <1>1, <2>1, ObeyedMarks
  <2>2. CASE p \notin cmd.pins
    BY <1>1, <2>2 DEF Marks, Out
  <2> QED BY <2>1, <2>2
<1> QED BY <1>1, <1>2 DEF Received

\* What a pass of the main loop does to an output.
LEMMA LoopOut ==
    ASSUME NEW o \in Out, NEW l \in Levels, NEW new,
           \/ new = PulseEnd(o)
           \/ o.fading /\ new = JumpTo(o, o.target)
           \/ o.fading /\ new = Step(o, l)
           \/ new = o
    PROVE  /\ new \in Out
           /\ Marks(o, new)
           /\ AtTarget(o) => AtTarget(new)
           /\ OffToDark(o) => OffToDark(new)
           /\ OnlySwitched(o) => OnlySwitched(new)
<1>1. 0 \in Levels
  BY LevelAssumption DEF Levels
<1>2. CASE new = PulseEnd(o)
  BY <1>1, <1>2 DEF PulseEnd, SetOutput, JumpTo, Out, Marks, AtTarget, OffToDark, OnlySwitched
<1>3. CASE o.fading /\ new = JumpTo(o, o.target)
  BY <1>3 DEF JumpTo, Out, Marks, AtTarget, OffToDark, OnlySwitched
<1>4. CASE o.fading /\ new = Step(o, l)
  BY <1>4 DEF Step, Out, Marks, AtTarget, OffToDark, OnlySwitched
<1>5. CASE new = o
  BY <1>5 DEF Out, Marks
<1> QED BY <1>2, <1>3, <1>4, <1>5

\* A whole pass, pin by pin.
LEMMA LoopPins ==
    ASSUME out \in [Outputs -> Out], in \in [Inputs -> In],
           NEW over, NEW done \in SUBSET Fading, NEW pressed \in SUBSET Inputs,
           Loop(over, done, pressed)
    PROVE  /\ out' \in [Outputs -> Out]
           /\ in' \in [Inputs -> In]
           /\ \A p \in Outputs :
                 /\ Marks(out[p], out'[p])
                 /\ AtTarget(out[p]) => AtTarget(out'[p])
                 /\ OffToDark(out[p]) => OffToDark(out'[p])
                 /\ OnlySwitched(out[p]) => OnlySwitched(out'[p])
           /\ \A p \in Inputs : ~in'[p].mark => ~in[p].mark /\ in'[p].value = in[p].value
<1> DEFINE under == Fading \ (over \cup done)
<1>1. PICK step \in [under -> Levels] :
         out' = [p \in Outputs |->
                        IF p \in over THEN PulseEnd(out[p])
                        ELSE IF p \in done THEN JumpTo(out[p], out[p].target)
                        ELSE IF p \in under THEN Step(out[p], step[p])
                        ELSE out[p]]
  BY DEF Loop
<1>2. ASSUME NEW p \in Outputs
      PROVE  /\ out'[p] \in Out
             /\ Marks(out[p], out'[p])
             /\ AtTarget(out[p]) => AtTarget(out'[p])
             /\ OffToDark(out[p]) => OffToDark(out'[p])
             /\ OnlySwitched(out[p]) => OnlySwitched(out'[p])
  <2>1. out[p] \in Out /\ 0 \in Levels
    BY LevelAssumption DEF Levels
  <2>2. p \in Fading => out[p].fading
    BY DEF Fading
  <2>3. CASE p \in under
    <3>1. step[p] \in Levels
      BY <1>1, <2>3
    <3>2. out'[p] = Step(out[p], step[p]) /\ out[p].fading
      BY <1>1, <2>2, <2>3
    <3> QED BY <2>1, <3>1, <3>2, LoopOut
  <2>4. CASE p \notin under
    <3>1. \/ out'[p] = PulseEnd(out[p])
          \/ out[p].fading /\ out'[p] = JumpTo(out[p], out[p].target)
          \/ out'[p] = out[p]
      BY <1>1, <2>2, <2>4
    <3> QED BY <2>1, <3>1, LoopOut
  <2> QED BY <2>3, <2>4
<1>3. out' \in [Outputs -> Out]
  BY <1>1, <1>2
<1>4. PICK count \in [pressed -> 1..Longest] :
         in' = [p \in Inputs |-> IF p \in pressed THEN Held(in[p], count[p])
                                 ELSE Released(in[p])]
  BY DEF Loop
<1>5. ASSUME NEW p \in Inputs
      PROVE  /\ in'[p] \in In
             /\ ~in'[p].mark => ~in[p].mark /\ in'[p].value = in[p].value
  <2>1. in[p] \in In
    OBVIOUS
  <2>2. CASE p \in pressed
    <3>1. count[p] \in 1..Longest
      BY <1>4, <2>2
    <3>2. in'[p] = Held(in[p], count[p])
      BY <1>4, <2>2
    <3>3. count[p] \in 0..Longest /\ 1 \in 0..Longest
      BY <3>1, LevelAssumption
    <3>4. CASE ~in[p].timing
      BY <2>1, <3>2, <3>3, <3>4 DEF Held, In
    <3>5. CASE in[p].timing
      <4>1. in'[p] = [in[p] EXCEPT !.value = count[p],
                                   !.mark = in[p].mark \/ count[p] # in[p].value]
        BY <3>2, <3>5 DEF Held
      <4>2. in'[p].mark = (in[p].mark \/ count[p] # in[p].value)
        BY <2>1, <4>1 DEF In
      <4>3. in'[p].value = count[p]
        BY <2>1, <4>1 DEF In
      <4>4. in'[p] \in In
        BY <2>1, <3>3, <4>1 DEF In
      <4> QED BY <4>2, <4>3, <4>4
    <3> QED BY <3>4, <3>5
  <2>3. CASE p \notin pressed
    <3>1. in'[p] = Released(in[p])
      BY <1>4, <2>3
    <3> QED BY <2>1, <3>1, LevelAssumption DEF Released, In
  <2> QED BY <2>2, <2>3
<1>6. in' \in [Inputs -> In]
  BY <1>4, <1>5
<1> QED BY <1>2, <1>3, <1>5, <1>6

-----------------------------------------------------------------------------
(* The inductive invariant.                                                *)

StateOf(p) == [pin |-> p, part |-> "state"]
BrightOf(p) == [pin |-> p, part |-> "bright"]

StateTold(p) == told[p].state = Switched(out[p].on)
BrightTold(p) == told[p].more = out[p].bright

\* an input as the broker knows it
InputTold(p) ==
    CASE in[p].value = 0 -> told[p] = [state |-> "OFF", more |-> 0]
      [] in[p].value = 1 -> told[p].state = "ON"
      [] OTHER -> told[p].more = in[p].value - 1

\* A report that is out tells what is the case, unless a command has come since
\* or the report was lost.
CallTelling ==
    phase = "sent" =>
       \/ \E p \in Outputs : call = StateOf(p) /\ (call \in missed \/ StateTold(p))
       \/ \E p \in Outputs : call = BrightOf(p) /\ (call \in missed \/ BrightTold(p))
       \/ \E p \in Inputs : call = StateOf(p) /\ (call \in missed \/ InputTold(p))

LightInv ==
    \A p \in Outputs :
       /\ AtTarget(out[p])
       /\ "brightness" \notin OpsOf(p) => OffToDark(out[p])
       /\ OpsOf(p) \subseteq {"on", "off", "toggle", "pulse"} => OnlySwitched(out[p])

GpioInv ==
    /\ TypeOK
    /\ CallTelling
    /\ StateReported
    /\ InputReported
    /\ LightInv

LEMMA GpioInit == Init => GpioInv
<1> SUFFICES ASSUME Init PROVE GpioInv
  OBVIOUS
<1>1. 0 \in Levels /\ Top \in Levels /\ Top # 0 /\ 0 \in 0..Longest
  BY LevelAssumption DEF Levels
<1>2. TypeOK
  <2>1. out \in [Outputs -> Out] /\ in \in [Inputs -> In]
    BY <1>1 DEF Init, Out, In
  <2>2. told \in [Pins -> [state : {"ON", "OFF", None}, more : Levels \cup 0..Longest \cup {None}]]
    BY DEF Init
  <2> QED BY <2>1, <2>2 DEF Init, TypeOK
<1>3. CallTelling /\ StateReported /\ InputReported
  BY DEF Init, CallTelling, StateReported, InputReported
<1>4. LightInv
  BY <1>1 DEF Init, LightInv, AtTarget, OffToDark, OnlySwitched
<1> QED BY <1>2, <1>3, <1>4 DEF GpioInv

\* A command in Commands keeps the light part.
LEMMA ReceivedLight ==
    ASSUME TypeOK, LightInv, NEW cmd \in Commands, out' = Received(out, cmd)
    PROVE  LightInv'
<1> SUFFICES ASSUME NEW p \in Outputs
             PROVE  /\ AtTarget(out'[p])
                    /\ "brightness" \notin OpsOf(p) => OffToDark(out'[p])
                    /\ OpsOf(p) \subseteq {"on", "off", "toggle", "pulse"}
                          => OnlySwitched(out'[p])
  BY DEF LightInv, OpsOf
<1>1. cmd \in Command /\ out[p] \in Out
  BY CommandAssumption DEF TypeOK
<1>2. CASE p \in cmd.pins
  <2>1. out'[p] = Obeyed(out[p], cmd)
    BY <1>2 DEF Received
  <2>2. cmd.op \in OpsOf(p)
    BY <1>2 DEF OpsOf
  <2>3. AtTarget(out'[p])
    BY <1>1, <2>1, ObeyedMarks DEF LightInv
  <2>4. "brightness" \notin OpsOf(p) => OffToDark(out'[p])
    BY <1>1, <2>1, <2>2, ObeyedOff DEF LightInv
  <2>5. OpsOf(p) \subseteq {"on", "off", "toggle", "pulse"} => OnlySwitched(out'[p])
    BY <1>1, <2>1, <2>2, ObeyedSwitch DEF LightInv
  <2> QED BY <2>3, <2>4, <2>5
<1>3. CASE p \notin cmd.pins
  <2>1. out'[p] = out[p]
    BY <1>3 DEF Received
  <2> QED BY <2>1 DEF LightInv
<1> QED BY <1>2, <1>3

LEMMA ReceiveStep == GpioInv /\ (Receive \/ ReceiveInside) => GpioInv'
<1> SUFFICES ASSUME GpioInv, Receive \/ ReceiveInside PROVE GpioInv'
  OBVIOUS
<1>1. PICK cmd \in Commands :
         /\ out' = Received(out, cmd)
         /\ \/ phase = "loop" /\ missed' = missed
            \/ /\ phase = "sent"
               /\ missed' = IF call.pin \in cmd.pins THEN missed \cup {call} ELSE missed
  BY CommandAssumption DEF Receive, ReceiveInside
<1>2. UNCHANGED <<in, told, call, phase>>
  BY DEF Receive, ReceiveInside
<1>3. TypeOK /\ cmd \in Command
  BY CommandAssumption DEF GpioInv
<1>4. /\ out' \in [Outputs -> Out]
      /\ \A p \in Outputs : Marks(out[p], out'[p]) /\ (p \notin cmd.pins => out'[p] = out[p])
  BY <1>1, <1>3, ReceivedOut DEF TypeOK
<1>5. TypeOK'
  BY <1>1, <1>2, <1>3, <1>4 DEF TypeOK
<1>6. LightInv'
  BY <1>1, <1>3, ReceivedLight DEF GpioInv
<1>7. missed \subseteq missed'
  BY <1>1
<1>8. InputReported'
  BY <1>2, <1>7 DEF GpioInv, InputReported
<1>9. StateReported'
  BY <1>2, <1>4, <1>7 DEF GpioInv, StateReported, Marks
<1>10. CallTelling'
  <2> SUFFICES ASSUME phase = "sent" PROVE CallTelling'
    BY <1>2 DEF CallTelling
  <2>1. ASSUME NEW p \in Outputs, call = StateOf(p), call \in missed \/ StateTold(p)
        PROVE  call \in missed' \/ StateTold(p)'
    BY <1>1, <1>2, <1>4, <2>1 DEF StateOf, StateTold
  <2>2. ASSUME NEW p \in Outputs, call = BrightOf(p), call \in missed \/ BrightTold(p)
        PROVE  call \in missed' \/ BrightTold(p)'
    BY <1>1, <1>2, <1>4, <2>2 DEF BrightOf, BrightTold
  <2>3. \A p \in Inputs : call \in missed \/ InputTold(p)
                            => call \in missed' \/ InputTold(p)'
    BY <1>2, <1>7 DEF InputTold
  <2> QED BY <1>2, <2>1, <2>2, <2>3 DEF GpioInv, CallTelling, StateOf, BrightOf
<1> QED BY <1>5, <1>6, <1>8, <1>9, <1>10 DEF GpioInv

LEMMA LoopStep == GpioInv /\ SomeLoop => GpioInv'
<1> SUFFICES ASSUME GpioInv, SomeLoop PROVE GpioInv'
  OBVIOUS
<1>1. PICK over \in SUBSET Pulsing, done \in SUBSET Fading, pressed \in SUBSET Inputs :
         Loop(over, done, pressed)
  BY DEF SomeLoop
<1>2. TypeOK
  BY DEF GpioInv
<1>3. /\ out' \in [Outputs -> Out]
      /\ in' \in [Inputs -> In]
      /\ \A p \in Outputs :
            /\ Marks(out[p], out'[p])
            /\ AtTarget(out[p]) => AtTarget(out'[p])
            /\ OffToDark(out[p]) => OffToDark(out'[p])
            /\ OnlySwitched(out[p]) => OnlySwitched(out'[p])
      /\ \A p \in Inputs : ~in'[p].mark => ~in[p].mark /\ in'[p].value = in[p].value
  BY <1>1, <1>2, LoopPins DEF TypeOK
<1>4. /\ UNCHANGED <<told, missed, call>> /\ phase = "loop" /\ phase' \in {"loop", "publish"}
  BY <1>1 DEF Loop
<1>5. TypeOK'
  BY <1>2, <1>3, <1>4 DEF TypeOK
<1>6. StateReported'
  BY <1>3, <1>4 DEF GpioInv, StateReported, Marks
<1>7. InputReported'
  BY <1>3, <1>4 DEF GpioInv, InputReported
<1>8. LightInv'
  BY <1>3 DEF GpioInv, LightInv, OpsOf
<1>9. CallTelling'
  BY <1>4 DEF CallTelling
<1> QED BY <1>5, <1>6, <1>7, <1>8, <1>9 DEF GpioInv

-----------------------------------------------------------------------------
(* The reports.                                                            *)

Known == [state : {"ON", "OFF", None}, more : Levels \cup 0..Longest \cup {None}]

\* A set of numbers that is not empty has a least one, and Min is it.
LEMMA MinIsLeast ==
    ASSUME NEW S \in SUBSET Nat, S # {}
    PROVE  Min(S) \in S /\ \A y \in S : Min(S) <= y
<1>1. PICK x \in S : \A y \in S : ~(<<y, x>> \in OpToRel(<, Nat))
  BY NatLessThanWellFounded, WFMin
<1>2. ASSUME NEW y \in S PROVE x <= y
  <2>1. <<y, x>> \in Nat \X Nat /\ ~(y < x)
    BY <1>1 DEF OpToRel
  <2> QED BY <2>1
<1> QED BY <1>2 DEF Min

\* The pin whose turn it is has something to report.
LEMMA TurnMarked ==
    ASSUME StateMarked \cup BrightMarked # {}
    PROVE  /\ Turn \in StateMarked \cup BrightMarked
           /\ Turn \in Pins
           /\ Turn \in Inputs => Turn \notin Outputs /\ Turn \in StateMarked /\ in[Turn].mark
           /\ Turn \in StateMarked /\ Turn \in Outputs => out[Turn].stateMark
           /\ Turn \notin StateMarked => Turn \in Outputs /\ out[Turn].brightMark
<1>1. StateMarked \cup BrightMarked \in SUBSET Nat
  BY PinAssumption DEF StateMarked, BrightMarked, Pins
<1>2. Turn \in StateMarked \cup BrightMarked
  BY <1>1, MinIsLeast DEF Turn
<1> QED BY <1>2, PinAssumption DEF StateMarked, BrightMarked, Pins

\* What the broker is told is the state, the brightness, or the input.
LEMMA TellingIs ==
    ASSUME TypeOK, StateMarked \cup BrightMarked # {}
    PROVE  /\ told[Turn] \in Known /\ Telling \in Known
           /\ Turn \in Outputs /\ Turn \in StateMarked =>
                 Telling = [told[Turn] EXCEPT !.state = Switched(out[Turn].on)]
           /\ Turn \notin StateMarked =>
                 Telling = [told[Turn] EXCEPT !.more = out[Turn].bright]
           /\ Turn \in Inputs =>
                 /\ in[Turn].value = 0 => Telling = [state |-> "OFF", more |-> 0]
                 /\ in[Turn].value = 1 => Telling.state = "ON"
                 /\ in[Turn].value \notin {0, 1} => Telling.more = in[Turn].value - 1
<1>1. /\ Turn \in Pins /\ told[Turn] \in Known
      /\ Turn \in Inputs => Turn \notin Outputs /\ Turn \in StateMarked
      /\ Turn \notin StateMarked => Turn \in Outputs
  BY TurnMarked DEF TypeOK, Known
<1>2. CASE Turn \in Inputs
  <2>1. in[Turn] \in In /\ in[Turn].value \in 0..Longest
    BY <1>2 DEF TypeOK, In
  <2>2. in[Turn].value # 0 => in[Turn].value - 1 \in 0..Longest
    BY <2>1, LevelAssumption
  <2>3. 0 \in 0..Longest
    BY LevelAssumption
  <2>4. Telling = ToldState(Turn)
    BY <1>1, <1>2 DEF Telling
  <2>5. ToldState(Turn) = CASE in[Turn].value = 0 -> [state |-> "OFF", more |-> 0]
                            [] in[Turn].value = 1 -> [told[Turn] EXCEPT !.state = "ON"]
                            [] OTHER -> [told[Turn] EXCEPT !.more = in[Turn].value - 1]
    BY <1>1, <1>2 DEF ToldState
  <2> QED BY <1>1, <1>2, <2>1, <2>2, <2>3, <2>4, <2>5 DEF Known
<1>3. CASE Turn \in Outputs /\ Turn \in StateMarked
  <2>1. Telling = [told[Turn] EXCEPT !.state = Switched(out[Turn].on)]
    BY <1>3 DEF Telling, ToldState
  <2>2. Switched(out[Turn].on) \in {"ON", "OFF"}
    BY DEF Switched
  <2> QED BY <1>1, <1>3, <2>1, <2>2 DEF Known
<1>4. CASE Turn \notin StateMarked
  <2>1. Telling = [told[Turn] EXCEPT !.more = out[Turn].bright]
    BY <1>4 DEF Telling, ToldBrightness
  <2>2. out[Turn].bright \in Levels
    BY <1>1, <1>4 DEF TypeOK, Out
  <2> QED BY <1>1, <1>4, <2>1, <2>2 DEF Known
<1> QED BY <1>1, <1>2, <1>3, <1>4 DEF Pins

\* Whatever part of a report arrives, nothing that is not marked becomes wrong.
LEMMA ToldStep ==
    ASSUME GpioInv, StateMarked \cup BrightMarked # {}, NEW t,
           t \in {told[Turn], Telling, [told[Turn] EXCEPT !.state = Telling.state]},
           told' = [told EXCEPT ![Turn] = t],
           UNCHANGED <<out, in>>,
           \A c \in missed \ missed' : c.pin = Turn /\
              IF c.part = "state" THEN Turn \in StateMarked ELSE Turn \notin StateMarked
    PROVE  /\ told' \in [Pins -> Known]
           /\ StateReported' /\ InputReported'
<1>1. TypeOK /\ StateReported /\ InputReported
  BY DEF GpioInv
<1>2. t \in Known
  BY <1>1, TellingIs DEF Known
<1>3. told \in [Pins -> Known]
  BY <1>1 DEF TypeOK, Known
<1>4. told' \in [Pins -> Known]
  BY <1>2, <1>3
<1>5. \A p \in Pins : told'[p] = IF p = Turn THEN t ELSE told[p]
  BY <1>3
<1>6. InputReported'
  <2> SUFFICES ASSUME NEW p \in Inputs, ~in[p].mark
               PROVE  told'[p] = told[p] /\ (StateOf(p) \in missed => StateOf(p) \in missed')
    BY <1>1 DEF InputReported, StateOf
  <2>1. p # Turn
    BY TurnMarked
  <2> QED BY <1>5, <2>1 DEF Pins, StateOf
<1>7. StateReported'
  <2> SUFFICES ASSUME NEW p \in Outputs
               PROVE  /\ out[p].stateMark \/ StateOf(p) \in missed' \/ StateTold(p)'
                      /\ out[p].brightMark \/ BrightOf(p) \in missed' \/ BrightTold(p)'
    BY DEF StateReported, StateOf, BrightOf, StateTold, BrightTold
  <2>1. /\ out[p].stateMark \/ StateOf(p) \in missed \/ StateTold(p)
        /\ out[p].brightMark \/ BrightOf(p) \in missed \/ BrightTold(p)
    BY <1>1 DEF StateReported, StateOf, BrightOf, StateTold, BrightTold
  <2>2. CASE p # Turn
    <3>1. told'[p] = told[p] /\ out'[p] = out[p]
      BY <1>5, <2>2 DEF Pins
    <3>2. /\ StateOf(p) \in missed => StateOf(p) \in missed'
          /\ BrightOf(p) \in missed => BrightOf(p) \in missed'
      BY <2>2 DEF StateOf, BrightOf
    <3> QED BY <2>1, <3>1, <3>2 DEF StateTold, BrightTold
  <2>3. CASE p = Turn /\ Turn \in StateMarked
    <3>1. out[p].stateMark
      BY <2>3, TurnMarked
    <3>2. t.more = told[p].more
      BY <1>1, <2>3, TellingIs DEF Known
    <3>3. BrightTold(p) => BrightTold(p)'
      BY <1>5, <2>3, <3>2 DEF BrightTold, Pins
    <3>4. BrightOf(p) \in missed => BrightOf(p) \in missed'
      BY <2>3 DEF BrightOf
    <3> QED BY <2>1, <3>1, <3>3, <3>4
  <2>4. CASE p = Turn /\ Turn \notin StateMarked
    <3>1. out[p].brightMark
      BY <2>4, TurnMarked
    <3>2. t.state = told[p].state
      BY <1>1, <2>4, TellingIs DEF Known
    <3>3. StateTold(p) => StateTold(p)'
      BY <1>5, <2>4, <3>2 DEF StateTold, Pins
    <3>4. StateOf(p) \in missed => StateOf(p) \in missed'
      BY <2>4 DEF StateOf
    <3> QED BY <2>1, <3>1, <3>3, <3>4
  <2> QED BY <2>2, <2>3, <2>4
<1> QED BY <1>4, <1>6, <1>7

LEMMA PublishStep == GpioInv /\ Publish => GpioInv'
<1> SUFFICES ASSUME GpioInv, Publish PROVE GpioInv'
  OBVIOUS
<1>1. /\ StateMarked \cup BrightMarked # {}
      /\ told' = [told EXCEPT ![Turn] = Telling]
      /\ call' = Report
      /\ missed' = missed \ {call'}
      /\ phase' = "sent"
      /\ UNCHANGED <<out, in>>
  BY DEF Publish
<1>2. TypeOK
  BY DEF GpioInv
<1>3. \A c \in missed \ missed' : c.pin = Turn /\
         IF c.part = "state" THEN Turn \in StateMarked ELSE Turn \notin StateMarked
  BY <1>1 DEF Report
<1>4. told' \in [Pins -> Known] /\ StateReported' /\ InputReported'
  BY <1>1, <1>3, ToldStep
<1>5. TypeOK'
  <2>1. call' \in Reports
    BY <1>1, TurnMarked DEF Report, Reports
  <2> QED BY <1>1, <1>2, <1>4, <2>1 DEF TypeOK, Known
<1>6. LightInv'
  BY <1>1 DEF GpioInv, LightInv, OpsOf
<1>7. CallTelling'
  <2>1. PICK p \in Pins : p = Turn
    BY <1>1, TurnMarked
  <2>2. told'[p] = Telling /\ told[p] \in Known
    BY <1>1, <1>2, <2>1, TellingIs DEF TypeOK
  <2>3. CASE p \in Inputs
    <3>1. call' = StateOf(p)
      BY <1>1, <2>1, <2>3, TurnMarked DEF Report, StateOf
    <3>2. /\ in[p].value = 0 => told'[p] = [state |-> "OFF", more |-> 0]
          /\ in[p].value = 1 => told'[p].state = "ON"
          /\ in[p].value \notin {0, 1} => told'[p].more = in[p].value - 1
      BY <1>1, <1>2, <2>1, <2>2, <2>3, TellingIs
    <3>3. InputTold(p)'
      BY <1>1, <3>2 DEF InputTold
    <3> QED BY <2>3, <3>1, <3>3 DEF CallTelling
  <2>4. CASE p \in Outputs /\ Turn \in StateMarked
    <3>1. call' = StateOf(p)
      BY <1>1, <2>1, <2>4 DEF Report, StateOf
    <3>2. told'[p] = [told[p] EXCEPT !.state = Switched(out[p].on)]
      BY <1>1, <1>2, <2>1, <2>2, <2>4, TellingIs
    <3>3. StateTold(p)'
      BY <1>1, <2>2, <3>2 DEF StateTold, Known
    <3> QED BY <2>4, <3>1, <3>3 DEF CallTelling
  <2>5. CASE Turn \notin StateMarked
    <3>1. call' = BrightOf(p) /\ p \in Outputs
      BY <1>1, <2>1, <2>5, TurnMarked DEF Report, BrightOf
    <3>2. told'[p] = [told[p] EXCEPT !.more = out[p].bright]
      BY <1>1, <1>2, <2>1, <2>2, <2>5, TellingIs
    <3>3. BrightTold(p)'
      BY <1>1, <2>2, <3>2 DEF BrightTold, Known
    <3> QED BY <3>1, <3>3 DEF CallTelling
  <2> QED BY <2>1, <2>3, <2>4, <2>5 DEF Pins
<1> QED BY <1>4, <1>5, <1>6, <1>7 DEF GpioInv

\* A report that a half-open link loses is missed, and disturbs no other.
LEMMA LostStep == GpioInv /\ PublishLost => GpioInv'
<1> SUFFICES ASSUME GpioInv, PublishLost PROVE GpioInv'
  OBVIOUS
<1>1. /\ StateMarked \cup BrightMarked # {}
      /\ call' = Report /\ missed' = missed \cup {call'} /\ phase' = "sent"
      /\ UNCHANGED <<out, in>>
  BY DEF PublishLost
<1>2. PICK t \in Heard : told' = [told EXCEPT ![Turn] = t]
  BY DEF PublishLost
<1>3. TypeOK
  BY DEF GpioInv
<1>4. t \in {told[Turn], [told[Turn] EXCEPT !.state = Telling.state]}
  BY <1>1, <1>2, <1>3, TellingIs DEF Heard
<1>5. told' \in [Pins -> Known] /\ StateReported' /\ InputReported'
  BY <1>1, <1>2, <1>4, ToldStep
<1>6. Turn \in Pins /\ (Turn \notin StateMarked => Turn \in Outputs)
  BY <1>1, TurnMarked
<1>7. TypeOK'
  <2>1. call' \in Reports
    BY <1>1, <1>6 DEF Report, Reports
  <2> QED BY <1>1, <1>3, <1>5, <2>1 DEF TypeOK, Known
<1>8. LightInv'
  BY <1>1 DEF GpioInv, LightInv, OpsOf
<1>9. CallTelling'
  <2>1. call' \in missed'
    BY <1>1
  <2>2. \/ call' = StateOf(Turn)
        \/ call' = BrightOf(Turn) /\ Turn \in Outputs
    BY <1>1, <1>6 DEF Report, StateOf, BrightOf
  <2>3. PICK p \in Pins : p = Turn
    BY <1>6
  <2>4. CASE call' = StateOf(p) /\ p \in Outputs
    BY <2>1, <2>4 DEF CallTelling
  <2>5. CASE call' = StateOf(p) /\ p \in Inputs
    BY <2>1, <2>5 DEF CallTelling
  <2>6. CASE call' = BrightOf(p) /\ p \in Outputs
    BY <2>1, <2>6 DEF CallTelling
  <2> QED BY <2>2, <2>3, <2>4, <2>5, <2>6 DEF Pins
<1> QED BY <1>5, <1>7, <1>8, <1>9 DEF GpioInv

\* The mark is cleared of what the report told.
LEMMA ReturnStep == GpioInv /\ PublishReturn => GpioInv'
<1> SUFFICES ASSUME GpioInv, PublishReturn PROVE GpioInv'
  OBVIOUS
<1>1. /\ phase = "sent" /\ phase' = "loop" /\ call' = NoCall
      /\ out' = Unmarked(out)
      /\ in' = IF call.pin \in Inputs THEN [in EXCEPT ![call.pin].mark = FALSE] ELSE in
      /\ UNCHANGED <<told, missed>>
  BY DEF PublishReturn
<1>2. TypeOK /\ CallTelling /\ StateReported /\ InputReported /\ LightInv
  BY DEF GpioInv
<1>3. CASE \E p \in Inputs : call = StateOf(p) /\ (call \in missed \/ InputTold(p))
  <2>1. PICK p \in Inputs : call = StateOf(p) /\ (call \in missed \/ InputTold(p))
    BY <1>3
  <2>2. out' = out /\ in' = [in EXCEPT ![p].mark = FALSE]
    BY <1>1, <2>1 DEF StateOf, Unmarked
  <2>3. /\ in' \in [Inputs -> In]
        /\ \A q \in Inputs : in'[q].value = in[q].value /\ (q # p => in'[q] = in[q])
    BY <1>2, <2>2 DEF TypeOK, In
  <2>4. TypeOK'
    BY <1>1, <1>2, <2>2, <2>3 DEF TypeOK
  <2>5. InputReported'
    <3> SUFFICES ASSUME NEW q \in Inputs, ~in'[q].mark, StateOf(q) \notin missed
                 PROVE InputTold(q)
      BY <1>1, <2>3 DEF InputReported, InputTold, StateOf
    <3> QED BY <1>2, <2>1, <2>3 DEF InputReported, InputTold, StateOf
  <2>6. StateReported' /\ LightInv' /\ CallTelling'
    BY <1>1, <1>2, <2>2 DEF StateReported, LightInv, OpsOf, CallTelling
  <2> QED BY <2>4, <2>5, <2>6 DEF GpioInv
<1>4. ASSUME NEW p \in Outputs,
             \/ call = StateOf(p) /\ (call \in missed \/ StateTold(p))
             \/ call = BrightOf(p) /\ (call \in missed \/ BrightTold(p))
      PROVE  GpioInv'
  <2>1. in' = in /\ call.pin = p /\ p \notin Inputs
    BY <1>1, <1>4, PinAssumption DEF StateOf, BrightOf
  <2>2. out[p] \in Out
    BY <1>2 DEF TypeOK
  <2>3. /\ call = StateOf(p) => out' = [out EXCEPT ![p].stateMark = FALSE]
        /\ call = BrightOf(p) => out' = [out EXCEPT ![p].brightMark = FALSE]
    BY <1>1, <2>1 DEF Unmarked, StateOf, BrightOf
  <2>4. /\ out' \in [Outputs -> Out]
        /\ \A q \in Outputs :
              /\ q # p => out'[q] = out[q]
              /\ out'[q].on = out[q].on /\ out'[q].bright = out[q].bright
              /\ out'[q].current = out[q].current /\ out'[q].target = out[q].target
              /\ out'[q].fading = out[q].fading
    <3>1. out' = [out EXCEPT ![p].stateMark = FALSE] \/ out' = [out EXCEPT ![p].brightMark = FALSE]
      BY <1>4, <2>3
    <3>2. PICK new \in Out :
             /\ out' = [out EXCEPT ![p] = new]
             /\ new.on = out[p].on /\ new.bright = out[p].bright
             /\ new.current = out[p].current /\ new.target = out[p].target
             /\ new.fading = out[p].fading
      <4>1. CASE out' = [out EXCEPT ![p].stateMark = FALSE]
        <5> DEFINE new == [out[p] EXCEPT !.stateMark = FALSE]
        <5>1. /\ new \in Out
              /\ new.on = out[p].on /\ new.bright = out[p].bright
              /\ new.current = out[p].current /\ new.target = out[p].target
              /\ new.fading = out[p].fading
          BY <2>2 DEF Out
        <5>2. out' = [out EXCEPT ![p] = new]
          BY <4>1
        <5> HIDE DEF new
        <5> QED BY <5>1, <5>2
      <4>2. CASE out' = [out EXCEPT ![p].brightMark = FALSE]
        <5> DEFINE new == [out[p] EXCEPT !.brightMark = FALSE]
        <5>1. /\ new \in Out
              /\ new.on = out[p].on /\ new.bright = out[p].bright
              /\ new.current = out[p].current /\ new.target = out[p].target
              /\ new.fading = out[p].fading
          BY <2>2 DEF Out
        <5>2. out' = [out EXCEPT ![p] = new]
          BY <4>2
        <5> HIDE DEF new
        <5> QED BY <5>1, <5>2
      <4> QED BY <3>1, <4>1, <4>2
    <3>3. out \in [Outputs -> Out]
      BY <1>2 DEF TypeOK
    <3> QED BY <3>2, <3>3
  <2>5. /\ call = StateOf(p) => out'[p].brightMark = out[p].brightMark
        /\ call = BrightOf(p) => out'[p].stateMark = out[p].stateMark
    BY <2>2, <2>3, <1>2 DEF TypeOK, Out
  <2>6. TypeOK'
    BY <1>1, <1>2, <2>1, <2>4 DEF TypeOK
  <2>7. StateReported'
    <3> SUFFICES ASSUME NEW q \in Outputs
                 PROVE  /\ out'[q].stateMark \/ StateOf(q) \in missed' \/ StateTold(q)'
                        /\ out'[q].brightMark \/ BrightOf(q) \in missed' \/ BrightTold(q)'
      BY DEF StateReported, StateOf, BrightOf, StateTold, BrightTold
    <3>1. /\ out[q].stateMark \/ StateOf(q) \in missed \/ StateTold(q)
          /\ out[q].brightMark \/ BrightOf(q) \in missed \/ BrightTold(q)
      BY <1>2 DEF StateReported, StateOf, BrightOf, StateTold, BrightTold
    <3>2. (StateTold(q) => StateTold(q)') /\ (BrightTold(q) => BrightTold(q)')
      BY <1>1, <2>4 DEF StateTold, BrightTold
    <3>3. CASE q # p
      BY <1>1, <2>4, <3>1, <3>2, <3>3
    <3>4. CASE q = p /\ call = StateOf(p)
      <4>1. StateOf(p) \in missed \/ StateTold(p)
        BY <1>4, <3>4 DEF StateOf, BrightOf
      <4> QED BY <1>1, <2>5, <3>1, <3>2, <3>4, <4>1
    <3>5. CASE q = p /\ call = BrightOf(p)
      <4>1. BrightOf(p) \in missed \/ BrightTold(p)
        BY <1>4, <3>5 DEF StateOf, BrightOf
      <4> QED BY <1>1, <2>5, <3>1, <3>2, <3>5, <4>1
    <3> QED BY <1>4, <3>3, <3>4, <3>5
  <2>8. InputReported' /\ CallTelling'
    BY <1>1, <1>2, <2>1 DEF InputReported, CallTelling
  <2>9. LightInv'
    BY <1>2, <2>4 DEF LightInv, OpsOf, AtTarget, OffToDark, OnlySwitched
  <2> QED BY <2>6, <2>7, <2>8, <2>9 DEF GpioInv
<1> QED BY <1>1, <1>2, <1>3, <1>4 DEF CallTelling

LEMMA FailStep == GpioInv /\ PublishFails => GpioInv'
<1> SUFFICES ASSUME GpioInv, PublishFails PROVE GpioInv'
  OBVIOUS
<1>1. /\ phase = "publish" /\ phase' = "loop" /\ StateMarked \cup BrightMarked # {}
      /\ UNCHANGED <<out, in, missed, call>>
  BY DEF PublishFails
<1>2. PICK t \in {told[Turn], Telling, [told[Turn] EXCEPT !.state = Telling.state]} :
         told' = [told EXCEPT ![Turn] = t]
  BY DEF PublishFails
<1>3. missed \ missed' = {}
  BY <1>1
<1>4. told' \in [Pins -> Known] /\ StateReported' /\ InputReported'
  BY <1>1, <1>2, <1>3, ToldStep
<1>5. TypeOK' /\ LightInv' /\ CallTelling'
  BY <1>1, <1>4 DEF GpioInv, TypeOK, Known, LightInv, OpsOf, CallTelling
<1> QED BY <1>4, <1>5 DEF GpioInv

\* GpioInv is inductive.
LEMMA GpioStep == GpioInv /\ [Next]_vars => GpioInv'
<1> SUFFICES ASSUME GpioInv, [Next]_vars PROVE GpioInv'
  OBVIOUS
<1>1. CASE ReturnFails \/ PublishNothing \/ UNCHANGED vars
  <2>1. /\ UNCHANGED <<out, in, told, missed>>
        /\ \/ call' = NoCall /\ phase' = "loop"
           \/ UNCHANGED <<call, phase>>
    BY <1>1 DEF ReturnFails, PublishNothing, vars, GpioInv, TypeOK
  <2> QED BY <2>1 DEF GpioInv, TypeOK, CallTelling, StateTold, BrightTold, InputTold,
              StateReported, InputReported, LightInv, OpsOf
<1> QED BY <1>1, ReceiveStep, LoopStep, PublishStep, LostStep, ReturnStep, FailStep
        DEF Next

-----------------------------------------------------------------------------

\* Levels stay below Top and hold counts below Longest, whatever commands and
\* passes come.
THEOREM TypeCorrect == Spec => []TypeOK
<1>1. GpioInv => TypeOK
  BY DEF GpioInv
<1> QED BY <1>1, GpioInit, GpioStep, PTL DEF Spec

\* What is not marked is at the broker: with all commands, any number of them
\* inside every report, and a connection that breaks anywhere, a report is
\* missed only where a command changed its own pin inside it or a half-open
\* link lost it.
THEOREM StateIsReported == Spec => []StateReported
<1>1. GpioInv => StateReported
  BY DEF GpioInv
<1> QED BY <1>1, GpioInit, GpioStep, PTL DEF Spec

\* An input that is not marked is at the broker what it is, though its release
\* takes two messages, either of which may fail and be repeated when the input
\* is pressed again; only a message that a half-open link lost is missed.
THEOREM InputIsReported == Spec => []InputReported
<1>1. GpioInv => InputReported
  BY DEF GpioInv
<1> QED BY <1>1, GpioInit, GpioStep, PTL DEF Spec

\* An output that is off ends dark, whatever fades, pulses and switching
\* interrupt each other, unless its brightness may be changed meanwhile.
THEOREM LightFollowsState == Spec => []StateIsLight
<1>1. GpioInv => StateIsLight
  BY LevelAssumption DEF GpioInv, LightInv, StateIsLight, AtTarget, OffToDark, OnlySwitched
<1> QED BY <1>1, GpioInit, GpioStep, PTL DEF Spec
=============================================================================
