---------------------------- MODULE LightProofs ----------------------------
(***************************************************************************)
(* Theorems about the light, for every brightness range, every set of      *)
(* commands and providers, and every number of nested commands that their  *)
(* assumptions allow.                                                      *)
(***************************************************************************)
EXTENDS Light, TLAPS

-----------------------------------------------------------------------------
(* The member functions keep the type of the light.                        *)

\* Marking parameters of the light keeps its type.
LEMMA OutdateType ==
    ASSUME NEW L \in Lamp, NEW P \in SUBSET Parameters
    PROVE  Outdate(L, P) \in Lamp
BY DEF Outdate, Lamp

\* So do the setters and the output.
LEMMA SettersType ==
    ASSUME NEW L \in Lamp
    PROVE  /\ \A b \in BOOLEAN : SetStateParam(L, b) \in Lamp
           /\ SendCurrentLight(L) \in Lamp
           /\ \A level \in Level : DimmTo(L, level) \in Lamp
<1>1. Outdate(L, {"state"}) \in Lamp
  BY OutdateType DEF Parameters
<1>2. \A b \in BOOLEAN : SetStateParam(L, b) \in Lamp
  BY <1>1 DEF SetStateParam, Lamp
<1>3. SendCurrentLight(L) \in Lamp
  BY DEF SendCurrentLight, Lamp
<1>4. \A level \in Level : DimmTo(L, level) \in Lamp
  BY DEF DimmTo, Lamp
<1> QED BY <1>2, <1>3, <1>4

\* Darkness and full brightness are levels.
LEMMA LevelFacts == Dark \in Level /\ MaxLevel \in Level
BY LevelAssumption DEF Dark, Level

\* Starting and stopping an animation keeps the type.
LEMMA AnimationType ==
    ASSUME NEW L \in Lamp
    PROVE  /\ \A a \in Animations \cup {"off"} : SetAnimationType(L, a) \in Lamp
           /\ StopAnimation(L) \in Lamp
<1>1. ASSUME NEW a \in Animations \cup {"off"}
      PROVE  SetAnimationType(L, a) \in Lamp
  <2> DEFINE taken == IF L.state /\ a # "off"
                      THEN [SetStateParam(L, FALSE) EXCEPT !.bak = L.cur, !.cur = Dark]
                      ELSE L
  <2>1. SetStateParam(L, FALSE) \in Lamp
    BY SettersType
  <2>2. taken \in Lamp
    BY <2>1, LevelFacts DEF Lamp
  <2>3. Outdate(taken, {"anim"}) \in Lamp
    BY <2>2, OutdateType DEF Parameters
  <2> HIDE DEF taken
  <2>4. [Outdate(taken, {"anim"}) EXCEPT
            !.anim = a, !.out = IF a = "off" THEN Dark ELSE @] \in Lamp
    BY <2>3, LevelFacts DEF Lamp
  <2> QED BY <2>4 DEF SetAnimationType, taken
<1>2. StopAnimation(L) \in Lamp
  BY <1>1 DEF StopAnimation
<1> QED BY <1>1, <1>2

\* Switching, hard or faded, keeps the type.
LEMMA SwitchType ==
    ASSUME NEW L \in Lamp
    PROVE  /\ HardOff(L) \in Lamp
           /\ HardOn(L) \in Lamp
           /\ DimmOff(L) \in Lamp
           /\ DimmOn(L) \in Lamp
           /\ Toggled(L) \in Lamp
<1>1. HardOff(L) \in Lamp
  <2>1. SetStateParam(L, FALSE) \in Lamp
    BY SettersType
  <2>2. [SetStateParam(L, FALSE) EXCEPT !.bak = L.tgt, !.cur = Dark] \in Lamp
    BY <2>1, LevelFacts DEF Lamp
  <2> QED BY <2>2, SettersType DEF HardOff
<1>2. HardOn(L) \in Lamp
  <2>1. [L EXCEPT !.cur = L.bak] \in Lamp
    BY DEF Lamp
  <2>2. SendCurrentLight([L EXCEPT !.cur = L.bak]) \in Lamp
    BY <2>1, SettersType
  <2> QED BY <2>2 DEF HardOn, Lamp, Parameters
<1>3. DimmOff(L) \in Lamp
  <2>1. SetStateParam(StopAnimation(L), FALSE) \in Lamp
    BY AnimationType, SettersType
  <2>2. [SetStateParam(StopAnimation(L), FALSE) EXCEPT !.bak = L.tgt] \in Lamp
    BY <2>1 DEF Lamp
  <2> QED BY <2>2, SettersType, LevelFacts DEF DimmOff
<1>4. DimmOn(L) \in Lamp
  <2>1. SetStateParam(StopAnimation(L), TRUE) \in Lamp
    BY AnimationType, SettersType
  <2>2. Outdate(SetStateParam(StopAnimation(L), TRUE), {"bright", "color"}) \in Lamp
    BY <2>1, OutdateType DEF Parameters
  <2>3. L.bak \in Level
    BY DEF Lamp
  <2> QED BY <2>2, <2>3, SettersType DEF DimmOn
<1>5. Toggled(L) \in Lamp
  <2>1. [L EXCEPT !.cur = L.bak, !.tgt = L.bak] \in Lamp
    BY DEF Lamp
  <2>2. SendCurrentLight([L EXCEPT !.cur = L.bak, !.tgt = L.bak]) \in Lamp
    BY <2>1, SettersType
  <2> QED BY <2>2, <1>1, SettersType DEF Toggled
<1> QED BY <1>1, <1>2, <1>3, <1>4, <1>5

\* So do levels and animation topics.
LEMMA LevelType ==
    ASSUME NEW L \in Lamp, NEW level \in Level, NEW faded \in BOOLEAN
    PROVE  SetLevel(L, level, faded) \in Lamp
<1> DEFINE M == Outdate(StopAnimation(L), {"bright", "color"})
<1>1. M \in Lamp
  BY AnimationType, OutdateType DEF Parameters
<1>2. [L EXCEPT !.bak = level] \in Lamp
  BY DEF Lamp
<1> HIDE DEF M
<1>3. [M EXCEPT !.cur = level, !.tgt = level] \in Lamp
  BY <1>1 DEF Lamp
<1>4. SendCurrentLight([M EXCEPT !.cur = level, !.tgt = level]) \in Lamp
  BY <1>3, SettersType
<1>5. DimmTo(M, level) \in Lamp
  BY <1>1, SettersType
<1> QED BY <1>2, <1>4, <1>5 DEF SetLevel, M

LEMMA AnimateType ==
    ASSUME NEW L \in Lamp, NEW type \in Animations, NEW on \in BOOLEAN
    PROVE  Animate(L, type, on) \in Lamp
BY AnimationType, OutdateType DEF Animate, Parameters

\* A received command keeps the type, whatever it is.
LEMMA ReceiveType ==
    ASSUME NEW L0 \in Lamp, NEW op \in AllOps, NEW level \in Level
    PROVE  Receive(L0, op, level) \in Lamp
<1> DEFINE L == [L0 EXCEPT !.onfor = FALSE]
           switched == IF ~L.state \/ L.anim # "off"
                       THEN HardOn(StopAnimation(L)) ELSE Outdate(L, {"state"})
<1>1. L \in Lamp
  BY DEF Lamp
<1> HIDE DEF L
<1>2. Outdate(L, {"state"}) \in Lamp
  BY <1>1, OutdateType DEF Parameters
<1>3. switched \in Lamp
  BY <1>1, <1>2, AnimationType, SwitchType
<1>4. [switched EXCEPT !.onfor = TRUE] \in Lamp
  <2> HIDE DEF switched
  <2> QED BY <1>3 DEF Lamp
<1>5. HardOff(StopAnimation(L)) \in Lamp
  BY <1>1, AnimationType, SwitchType
<1>6. DimmOn(L) \in Lamp /\ DimmOff(L) \in Lamp
  BY <1>1, SwitchType
<1>7. /\ DimmOn([L EXCEPT !.bak = level]) \in Lamp
      /\ Outdate([L EXCEPT !.bak = level], {"state"}) \in Lamp
  <2>1. [L EXCEPT !.bak = level] \in Lamp
    BY <1>1 DEF Lamp
  <2> QED BY <2>1, SwitchType, OutdateType DEF Parameters
<1>8. \A f \in BOOLEAN : SetLevel(L, level, f) \in Lamp
  BY <1>1, LevelType
<1>9. [Outdate(L, {"abright"}) EXCEPT !.abright = level] \in Lamp
  <2>1. Outdate(L, {"abright"}) \in Lamp
    BY <1>1, OutdateType DEF Parameters
  <2> QED BY <2>1 DEF Lamp
<1>10. \A a \in Animations, b \in BOOLEAN : Animate(L, a, b) \in Lamp
  BY <1>1, AnimateType
<1> HIDE DEF switched
<1>11. CASE op \in BasicOps
  BY <1>11, <1>1, <1>2, <1>3, <1>4, <1>5 DEF Receive, BasicOps, L, switched
<1>12. CASE op \in PwmOps
  BY <1>12, <1>1, <1>2, <1>6, <1>7, <1>8
  DEF Receive, PwmOps, PwmLevelOps, L
<1>13. CASE op \in RgbOps \cup PixelOps
  BY <1>13, <1>1, <1>9, <1>10 DEF Receive, RgbOps, PixelOps, Animations, L
<1> QED BY <1>11, <1>12, <1>13 DEF AllOps

-----------------------------------------------------------------------------
(* The order in which parameters are published.                            *)

\* When something is due, publish() picks an outdated parameter.
LEMMA FirstDueIsDue ==
    ASSUME NEW L \in Lamp, NEW after \in 0..5, Due(L, after) # {}
    PROVE  /\ FirstDue(L, after) \in Due(L, after)
           /\ FirstDue(L, after) \in L.dirty
           /\ FirstDue(L, after) \in Parameters
           /\ \A q \in Due(L, after) : Rank[FirstDue(L, after)] <= Rank[q]
<1>1. Due(L, after) \subseteq Parameters /\ Due(L, after) \subseteq L.dirty
  BY DEF Due, Lamp
<1>2. /\ Rank["state"] = 1 /\ Rank["color"] = 2 /\ Rank["bright"] = 3
      /\ Rank["anim"] = 4 /\ Rank["abright"] = 5
  BY DEF Rank, Parameters
<1>3. \E p \in Due(L, after) : \A q \in Due(L, after) : Rank[p] <= Rank[q]
  <2> DEFINE D == Due(L, after)
  <2> SUFFICES \E p \in D : \A q \in D : Rank[p] <= Rank[q]
    OBVIOUS
  <2>0. D # {} /\ D \subseteq Parameters
    BY <1>1
  <2> HIDE DEF D
  <2>1. D \subseteq {"state", "color", "bright", "anim", "abright"} /\ D # {}
    BY <2>0 DEF Parameters
  <2>2. CASE "state" \in D
    BY <2>1, <2>2, <1>2
  <2>3. CASE "state" \notin D /\ "color" \in D
    BY <2>1, <2>3, <1>2
  <2>4. CASE "state" \notin D /\ "color" \notin D /\ "bright" \in D
    BY <2>1, <2>4, <1>2
  <2>5. CASE "state" \notin D /\ "color" \notin D /\ "bright" \notin D /\ "anim" \in D
    BY <2>1, <2>5, <1>2
  <2>6. CASE D = {"abright"}
    BY <2>1, <2>6, <1>2
  <2> QED BY <2>1, <2>2, <2>3, <2>4, <2>5, <2>6
<1> QED BY <1>1, <1>3 DEF FirstDue

\* What is sent for a stage has the type the broker expects of it.
LEMMA SendType ==
    ASSUME TypeOK, NEW stage \in Reports, NEW ok \in BOOLEAN, Send(stage, ok)
    PROVE  /\ told' \in Told
           /\ call' \in Calls
<1>1. call' \in Calls
  BY NetworkAssumption DEF Send, Calls
<1>2. lamp \in Lamp /\ told \in Told
  BY DEF TypeOK
<1> SUFFICES told' \in Told
  BY <1>1
<1>3. told' = told \/ told' = [told EXCEPT ![stage] = Value(lamp, stage)]
  BY DEF Send
<1>4. CASE stage = "state"
  BY <1>2, <1>3, <1>4 DEF Value, Told, Lamp
<1>5. CASE stage = "color"
  BY <1>2, <1>3, <1>5 DEF Value, Told, Lamp
<1>6. CASE stage = "bright"
  BY <1>2, <1>3, <1>6 DEF Value, Told, Lamp
<1>7. CASE stage = "wheel"
  BY <1>2, <1>3, <1>7 DEF Value, Told, Lamp
<1>8. CASE stage = "simple"
  BY <1>2, <1>3, <1>8 DEF Value, Told, Lamp
<1>9. CASE stage = "wipe"
  BY <1>2, <1>3, <1>9 DEF Value, Told, Lamp
<1>10. CASE stage = "abright"
  BY <1>2, <1>3, <1>10 DEF Value, Told, Lamp
<1> QED BY <1>4, <1>5, <1>6, <1>7, <1>8, <1>9, <1>10 DEF Reports

-----------------------------------------------------------------------------
(* Type correctness.                                                       *)

\* The light starts well typed after either kind of reset.
LEMMA BootType == \A reason \in Boots : Booted(reason) \in Lamp
<1> DEFINE new == [state |-> FALSE, anim |-> "off", abright |-> MaxLevel,
                   cur |-> MaxLevel, tgt |-> MaxLevel, start |-> MaxLevel,
                   bak |-> MaxLevel, dimming |-> FALSE, onfor |-> FALSE,
                   out |-> Dark, dirty |-> {}]
<1>1. new \in Lamp
  BY LevelFacts DEF Lamp
<1> HIDE DEF new
<1>2. [new EXCEPT !.cur = Dark] \in Lamp
  BY <1>1, LevelFacts DEF Lamp
<1>3. SendCurrentLight([new EXCEPT !.cur = Dark]) \in Lamp
  BY <1>2, SettersType
<1>4. SendCurrentLight(Outdate(SetStateParam(new, TRUE), {"bright"})) \in Lamp
  BY <1>1, SettersType, OutdateType DEF Parameters
<1> QED BY <1>3, <1>4 DEF Booted, new

\* One round of publish() keeps every type.
LEMMA PublishType ==
    ASSUME TypeOK, PublishStart \/ PublishReturn
    PROVE  TypeOK'
<1>1. lamp \in Lamp /\ told \in Told
  BY DEF TypeOK
<1>2. \A p \in Parameters : StageOf(p) \in Reports /\ Rank[p] \in 0..5
  BY DEF Parameters, Reports, StageOf, Rank
<1>3. CASE PublishStart
  <2>1. Due(lamp, 0) = lamp.dirty
    BY <1>1, <1>2 DEF Due, Lamp, Rank, Parameters
  <2>2. FirstDue(lamp, 0) \in Parameters
    BY <1>1, <1>3, <2>1, FirstDueIsDue DEF PublishStart
  <2> DEFINE stage == StageOf(FirstDue(lamp, 0))
  <2>3. stage \in Reports
    BY <2>2, <1>2
  <2>4. Send(stage, TRUE) /\ UNCHANGED <<lamp, link>>
    BY <1>3 DEF PublishStart
  <2> HIDE DEF stage
  <2> QED BY <2>3, <2>4, SendType DEF TypeOK
<1>4. CASE PublishReturn
  <2> DEFINE p == ParameterOf(call.at)
             ok == call.ok /\ link # "down"
  <2>1. call.at \in Reports /\ ok \in BOOLEAN /\ UNCHANGED link
    BY <1>4 DEF PublishReturn, TypeOK, Calls
  <2>2. p \in Parameters
    BY <2>1 DEF ParameterOf, Reports, Parameters, Animations
  <2>3. CASE call.at \in {"wheel", "simple"}
    <3> DEFINE next == IF call.at = "wheel" THEN "simple" ELSE "wipe"
    <3>1. next \in Reports /\ Send(next, ok) /\ UNCHANGED lamp
      BY <1>4, <2>3 DEF PublishReturn, Reports
    <3> HIDE DEF next, ok
    <3> QED BY <3>1, <2>1, SendType DEF TypeOK
  <2>4. CASE call.at \notin {"wheel", "simple"} /\ ~ok /\ Due(lamp, Rank[p]) # {}
    <3> DEFINE next == StageOf(FirstDue(lamp, Rank[p]))
    <3>1. FirstDue(lamp, Rank[p]) \in Parameters
      BY <1>1, <1>2, <2>2, <2>4, FirstDueIsDue
    <3>2. next \in Reports
      BY <3>1, <1>2
    <3>3. Send(next, TRUE) /\ UNCHANGED lamp
      BY <1>4, <2>4 DEF PublishReturn
    <3> HIDE DEF next
    <3> QED BY <3>2, <3>3, <2>1, SendType DEF TypeOK
  <2>5. CASE call.at \notin {"wheel", "simple"} /\ ~(~ok /\ Due(lamp, Rank[p]) # {})
    <3>1. /\ call' = Idle
          /\ lamp' = IF ok THEN [lamp EXCEPT !.dirty = @ \ {p}] ELSE lamp
          /\ UNCHANGED told
      BY <1>4, <2>5 DEF PublishReturn
    <3>2. lamp' \in Lamp
      BY <1>1, <3>1 DEF Lamp
    <3> QED BY <3>1, <3>2, <2>1 DEF TypeOK, Calls
  <2> QED BY <2>3, <2>4, <2>5
<1> QED BY <1>3, <1>4

\* Every step keeps every type: the output stays within the brightness table
\* (plus the animations), through any interleaving of commands and fades.
LEMMA TypeStep == TypeOK /\ [Next]_vars => TypeOK'
<1> SUFFICES ASSUME TypeOK, [Next]_vars
             PROVE  TypeOK'
  OBVIOUS
<1>1. lamp \in Lamp /\ told \in Told
  BY DEF TypeOK
<1>2. ASSUME NEW op \in Offered, NEW level \in Level, Command(op, level)
      PROVE  TypeOK'
  <2>1. lamp' \in Lamp
    BY <1>1, <1>2, ReceiveType, OpsAssumption DEF Command, Offered
  <2>2. call' \in Calls
    <3>1. CASE UNCHANGED call
      BY <3>1 DEF TypeOK
    <3>2. CASE /\ call # Idle /\ call.nested < MaxNested
               /\ call' = [call EXCEPT !.nested = @ + 1]
      BY <3>2, NetworkAssumption DEF TypeOK, Calls
    <3> QED BY <1>2, <3>1, <3>2 DEF Command
  <2> QED BY <1>2, <2>1, <2>2 DEF Command, TypeOK
<1>3. CASE Toggle
  BY <1>1, <1>3, SwitchType DEF Toggle, TypeOK
<1>4. CASE DimStep
  <2>1. PICK level \in Between(lamp.start, lamp.tgt) :
           lamp' = SendCurrentLight([lamp EXCEPT !.cur = level])
    BY <1>4 DEF DimStep
  <2>2. level \in Level
    BY <1>1, <2>1, LevelAssumption DEF Between, Lamp, Level
  <2>3. [lamp EXCEPT !.cur = level] \in Lamp
    BY <1>1, <2>2 DEF Lamp
  <2> QED BY <1>4, <2>1, <2>3, SettersType DEF DimStep, TypeOK
<1>5. CASE DimEnd
  <2>1. [lamp EXCEPT !.cur = lamp.tgt, !.dimming = FALSE] \in Lamp
    BY <1>1 DEF Lamp
  <2> QED BY <1>5, <2>1, SettersType DEF DimEnd, TypeOK
<1>6. CASE AnimationStep
  <2>1. Drawn(lamp) \in Level \cup {Wheel}
    BY <1>1 DEF Drawn, Lamp
  <2>2. [lamp EXCEPT !.out = Drawn(lamp)] \in Lamp
    BY <1>1, <2>1 DEF Lamp
  <2> QED BY <1>6, <2>2 DEF AnimationStep, TypeOK
<1>7. CASE AutoOff
  <2>1. HardOff(lamp) \in Lamp
    BY <1>1, SwitchType
  <2>2. [HardOff(lamp) EXCEPT !.onfor = FALSE] \in Lamp
    BY <2>1 DEF Lamp
  <2> QED BY <1>7, <2>2 DEF AutoOff, TypeOK
<1>8. CASE PublishStart \/ PublishReturn
  BY <1>8, PublishType
<1>9. CASE Break
  BY <1>9 DEF Break, TypeOK
<1>10. CASE Reconnect
  BY <1>10 DEF Reconnect, TypeOK
<1>11. CASE UNCHANGED vars
  BY <1>11 DEF vars, TypeOK
<1> QED BY <1>2, <1>3, <1>4, <1>5, <1>6, <1>7, <1>8, <1>9, <1>10, <1>11 DEF Next

LEMMA TypeInit == Init => TypeOK
BY BootType, OldReportsAssumption DEF Init, TypeOK, Calls

\* The light, its output and the publish routine keep their types for every
\* number of levels, providers and commands.
THEOREM TypeCorrect == Spec => []TypeOK
<1>1. Init => TypeOK
  BY TypeInit
<1>2. TypeOK /\ [Next]_vars => TypeOK'
  BY TypeStep
<1> QED BY <1>1, <1>2, PTL DEF Spec

-----------------------------------------------------------------------------
(* A light driven by fades and levels.                                     *)

\* What one of these commands may do to a light that animates nothing; a new
\* level comes with the command, but for the two repeated JSON commands.
FadeStep(L, R, op, level) ==
    \/ /\ R.state = L.state /\ R.tgt = L.tgt /\ R.bak = L.bak
       /\ R.dimming = L.dimming /\ R.out = L.out
    \/ /\ ~L.state /\ R.state
       /\ R.tgt = L.bak /\ R.dimming /\ R.out = L.out
    \/ /\ L.state /\ ~R.state
       /\ R.bak = L.tgt /\ R.tgt = Dark /\ R.dimming /\ R.out = L.out
    \/ /\ op \in PwmLevelOps /\ ~L.state /\ ~R.state
       /\ R.bak = level /\ R.tgt = L.tgt /\ R.dimming = L.dimming /\ R.out = L.out
    \/ /\ op \in PwmLevelOps /\ ~L.state /\ R.state
       /\ R.tgt = level /\ R.dimming /\ R.out = L.out
    \/ /\ op \in PwmLevelOps /\ L.state /\ R.state
       /\ R.tgt = level /\ R.dimming /\ R.out = L.out
    \/ /\ op \in PwmLevelOps /\ L.state /\ R.state
       /\ R.tgt = level /\ R.out = level /\ R.dimming = L.dimming
    \/ /\ op \in PwmLevelOps /\ L.state /\ R.state
       /\ R.tgt = L.tgt /\ R.out = L.out /\ R.dimming = L.dimming
    \/ /\ op = "jsonOn" /\ L.state /\ R.state
       /\ R.tgt = L.bak /\ R.dimming /\ R.out = L.out
    \/ /\ op = "jsonOff" /\ ~L.state /\ ~R.state
       /\ R.bak = L.tgt /\ R.tgt = Dark /\ R.dimming /\ R.out = L.out

\* Each of these commands does one of those things.
LEMMA ReceiveFade ==
    ASSUME NEW L0 \in Lamp, L0.anim = "off", ~L0.onfor,
           NEW op \in FadeOps, NEW level \in Level
    PROVE  LET R == Receive(L0, op, level)
           IN  R.anim = "off" /\ ~R.onfor /\ FadeStep(L0, R, op, level)
<1> DEFINE L == [L0 EXCEPT !.onfor = FALSE]
           R == Receive(L0, op, level)
<1>1. /\ L \in Lamp /\ L.anim = "off" /\ ~L.onfor
      /\ L.state = L0.state /\ L.tgt = L0.tgt /\ L.bak = L0.bak
      /\ L.dimming = L0.dimming /\ L.out = L0.out
  BY DEF Lamp
<1> HIDE DEF L
<1>2. StopAnimation(L) = L
  BY <1>1 DEF StopAnimation
<1> SUFFICES R.anim = "off" /\ ~R.onfor /\ FadeStep(L, R, op, level)
  BY <1>1 DEF FadeStep
<1>3. /\ DimmOn(L).anim = "off" /\ ~DimmOn(L).onfor
      /\ DimmOn(L).state /\ DimmOn(L).tgt = L.bak
      /\ DimmOn(L).dimming /\ DimmOn(L).out = L.out
  <2>1. DimmOn(L) = DimmTo(Outdate(SetStateParam(L, TRUE), {"bright", "color"}), L.bak)
    BY <1>2 DEF DimmOn
  <2> QED BY <1>1, <2>1 DEF DimmTo, Outdate, SetStateParam, Lamp
<1>4. /\ DimmOff(L).anim = "off" /\ ~DimmOff(L).onfor
      /\ ~DimmOff(L).state /\ DimmOff(L).tgt = Dark /\ DimmOff(L).bak = L.tgt
      /\ DimmOff(L).dimming /\ DimmOff(L).out = L.out
  <2>1. DimmOff(L) = DimmTo([SetStateParam(L, FALSE) EXCEPT !.bak = L.tgt], Dark)
    BY <1>2 DEF DimmOff
  <2> QED BY <1>1, <2>1 DEF DimmTo, Outdate, SetStateParam, Lamp
<1>5. CASE op = "dimmOn"
  <2>1. R = IF ~L.state THEN DimmOn(L) ELSE Outdate(L, {"state"})
    BY <1>1, <1>5 DEF Receive, L
  <2>2. CASE ~L.state
    BY <1>1, <1>3, <2>1, <2>2 DEF FadeStep
  <2>3. CASE L.state
    BY <1>1, <2>1, <2>3 DEF Outdate, FadeStep, Lamp
  <2> QED BY <2>2, <2>3
<1>6. CASE op = "dimmOff"
  <2>1. R = IF L.state THEN DimmOff(L) ELSE Outdate(L, {"state"})
    BY <1>1, <1>6 DEF Receive, L
  <2>2. CASE L.state
    BY <1>1, <1>4, <2>1, <2>2 DEF FadeStep
  <2>3. CASE ~L.state
    BY <1>1, <2>1, <2>3 DEF Outdate, FadeStep, Lamp
  <2> QED BY <2>2, <2>3
<1>7. CASE op = "jsonOn"
  <2>1. R = DimmOn(L)
    BY <1>7 DEF Receive, L
  <2> QED BY <1>1, <1>3, <1>7, <2>1 DEF FadeStep, Lamp
<1>8. CASE op = "jsonOff"
  <2>1. R = DimmOff(L)
    BY <1>8 DEF Receive, L
  <2> QED BY <1>1, <1>4, <1>8, <2>1 DEF FadeStep, Lamp
<1>9. CASE op = "jsonColor"
  <2> DEFINE K == [L EXCEPT !.bak = level]
  <2>1. R = DimmOn(K)
    BY <1>9 DEF Receive, L
  <2>2. /\ K \in Lamp /\ K.anim = "off" /\ ~K.onfor
        /\ K.bak = level /\ K.out = L.out
    BY <1>1 DEF Lamp
  <2> HIDE DEF K
  <2>3. DimmOn(K) = DimmTo(Outdate(SetStateParam(K, TRUE), {"bright", "color"}), level)
    BY <2>2 DEF DimmOn, StopAnimation
  <2>4. /\ R.anim = "off" /\ ~R.onfor /\ R.state /\ R.tgt = level
        /\ R.dimming /\ R.out = L.out
    BY <2>1, <2>2, <2>3 DEF DimmTo, Outdate, SetStateParam, Lamp
  <2>5. op \in PwmLevelOps /\ L.state \in BOOLEAN
    BY <1>1, <1>9 DEF PwmLevelOps, Lamp
  <2> QED BY <2>4, <2>5 DEF FadeStep
<1>10. CASE op = "jsonOtherColor"
  <2>1. R = Outdate([L EXCEPT !.bak = level], {"state"})
    BY <1>10 DEF Receive, L
  <2>2. op \in PwmLevelOps
    BY <1>10 DEF PwmLevelOps
  <2>3. /\ R.anim = "off" /\ ~R.onfor /\ R.state = L.state /\ R.bak = level
        /\ R.tgt = L.tgt /\ R.dimming = L.dimming /\ R.out = L.out
    BY <1>1, <2>1 DEF Outdate, Lamp
  <2> QED BY <1>1, <2>2, <2>3 DEF FadeStep, Lamp
<1>11. CASE op \in {"jsonOther", "delay", "abright"}
  <2>1. R \in {L, Outdate(L, {"state"}),
               [Outdate(L, {"abright"}) EXCEPT !.abright = level]}
    BY <1>11 DEF Receive, L, PwmLevelOps
  <2> QED BY <1>1, <2>1 DEF Outdate, FadeStep, Lamp
<1>12. CASE op \in {"color", "bright", "dimmColor", "dimmBright"}
  <2>1. R \in {SetLevel(L, level, FALSE), SetLevel(L, level, TRUE)}
    BY <1>12 DEF Receive, L
  <2>2. op \in PwmLevelOps
    BY <1>12 DEF PwmLevelOps
  <2>3. /\ SetLevel(L, level, FALSE).anim = "off" /\ ~SetLevel(L, level, FALSE).onfor
        /\ FadeStep(L, SetLevel(L, level, FALSE), op, level)
    BY <1>1, <1>2, <2>2 DEF SetLevel, Outdate, SendCurrentLight, FadeStep, Lamp
  <2>4. /\ SetLevel(L, level, TRUE).anim = "off" /\ ~SetLevel(L, level, TRUE).onfor
        /\ FadeStep(L, SetLevel(L, level, TRUE), op, level)
    BY <1>1, <1>2, <2>2 DEF SetLevel, Outdate, DimmTo, FadeStep, Lamp
  <2> QED BY <2>1, <2>3, <2>4
<1> QED BY <1>5, <1>6, <1>7, <1>8, <1>9, <1>10, <1>11, <1>12
        DEF FadeOps, PwmLevelOps

\* The inductive invariant: OffIsDark alone says nothing of a light that is
\* still fading; the fade of a light that is off must lead to darkness, and a
\* settled light that is on must already show its target.
FadeInv ==
    /\ TypeOK
    /\ lamp.anim = "off" /\ ~lamp.onfor
    /\ ~lamp.state /\ lamp.dimming => lamp.tgt = Dark
    /\ ~lamp.dimming => lamp.out = IF lamp.state THEN lamp.tgt ELSE Dark

\* A publish touches only the marks of the light.
LEMMA PublishKeepsLamp ==
    ASSUME TypeOK, PublishStart \/ PublishReturn
    PROVE  /\ lamp'.state = lamp.state /\ lamp'.anim = lamp.anim
           /\ lamp'.tgt = lamp.tgt /\ lamp'.bak = lamp.bak
           /\ lamp'.out = lamp.out /\ lamp'.dimming = lamp.dimming
           /\ lamp'.onfor = lamp.onfor
<1>1. lamp \in Lamp
  BY DEF TypeOK
<1>2. lamp' = lamp \/ lamp' = [lamp EXCEPT !.dirty = @ \ {ParameterOf(call.at)}]
  BY DEF PublishStart, PublishReturn
<1> QED BY <1>1, <1>2 DEF Lamp

\* Either reset leaves the light settled.
LEMMA FadeInit == Init => FadeInv /\ Lamps!Init
<1> SUFFICES ASSUME Init
             PROVE  FadeInv /\ Lamps!Init
  OBVIOUS
<1>1. TypeOK
  BY TypeInit
<1>2. PICK reason \in Boots : lamp = Booted(reason)
  BY DEF Init
<1>3. /\ lamp.anim = "off" /\ ~lamp.onfor /\ ~lamp.dimming
      /\ lamp.out = IF lamp.state THEN lamp.tgt ELSE Dark
      /\ lamp.tgt = MaxLevel /\ lamp.bak = MaxLevel /\ lamp.state \in BOOLEAN
  BY <1>2 DEF Booted, SendCurrentLight, Outdate, SetStateParam
<1> QED BY <1>1, <1>3 DEF FadeInv, KeptLevel, Lamps!Init, Lamps!Wanted, Dark

\* One step keeps the invariant, is a step of the dimmable lamp or invisible
\* in it, and changes the level only by a command that names one or by a
\* repeated JSON command.
LEMMA FadeNext ==
    ASSUME Ops \subseteq FadeOps, Toggles = "never", FadeInv, [Next]_vars
    PROVE  /\ FadeInv' /\ [Lamps!Next]_(Lamps!vars)
           /\ KeptLevel' # KeptLevel => Commanded \/ JsonRepeat
<1> DEFINE Kept == KeptLevel' # KeptLevel => Commanded \/ JsonRepeat
<1>1. TypeOK' /\ lamp \in Lamp /\ lamp' \in Lamp
  BY TypeStep DEF FadeInv, TypeOK
<1> DEFINE Same == /\ lamp'.state = lamp.state /\ lamp'.anim = lamp.anim
                   /\ lamp'.tgt = lamp.tgt /\ lamp'.bak = lamp.bak
                   /\ lamp'.out = lamp.out /\ lamp'.dimming = lamp.dimming
                   /\ lamp'.onfor = lamp.onfor
<1>2. ASSUME Same PROVE FadeInv' /\ [Lamps!Next]_(Lamps!vars) /\ Kept
  <2>1. KeptLevel' = KeptLevel
    BY <1>2 DEF KeptLevel
  <2> QED BY <1>1, <1>2, <2>1 DEF FadeInv, Lamps!vars
<1>3. ASSUME NEW op \in Offered, NEW level \in Level, Command(op, level),
             op \in LevelOps \/ level = 0
      PROVE  FadeInv' /\ [Lamps!Next]_(Lamps!vars) /\ Kept
  <2>1. /\ lamp'.anim = "off" /\ ~lamp'.onfor
        /\ FadeStep(lamp, lamp', op, level)
    BY <1>1, <1>3, ReceiveFade DEF Command, Offered, FadeInv
  <2>2. FadeInv'
    BY <1>1, <2>1 DEF FadeInv, FadeStep, Dark
  <2>3. \/ UNCHANGED Lamps!vars \/ Lamps!Switch
        \/ Lamps!SwitchOnAt(level) \/ Lamps!SetLevel(level)
        \/ Lamps!SetLevel(lamp.tgt) \/ Lamps!SetLevel(lamp.bak)
    BY <1>1, <2>1 DEF FadeStep, KeptLevel, Lamp, Lamps!vars, Lamps!Switch,
                      Lamps!SwitchOnAt, Lamps!SetLevel
  <2>4. level \in Lamps!Level /\ lamp.tgt \in Lamps!Level /\ lamp.bak \in Lamps!Level
    BY <1>1 DEF Level, Lamps!Level, Lamp
  <2>5. \/ KeptLevel' = KeptLevel
        \/ op \in PwmLevelOps /\ KeptLevel' = level
        \/ op = "jsonOn" /\ lamp.state
        \/ op = "jsonOff" /\ ~lamp.state
    BY <1>1, <2>1 DEF FadeStep, KeptLevel, Lamp
  <2>6. op \in PwmLevelOps /\ KeptLevel' = level => Commanded
    BY <1>3 DEF Commanded
  <2>7. op \in {"jsonOn", "jsonOff"} => level = Dark
    BY <1>3 DEF LevelOps, PwmLevelOps, Dark
  <2>8. Kept
    BY <1>3, <2>5, <2>6, <2>7 DEF JsonRepeat
  <2> QED BY <2>2, <2>3, <2>4, <2>8 DEF Lamps!Next
<1>4. CASE DimStep
  <2>1. /\ lamp.dimming /\ lamp'.dimming /\ lamp'.state = lamp.state
        /\ lamp'.tgt = lamp.tgt /\ lamp'.bak = lamp.bak
        /\ lamp'.anim = lamp.anim /\ lamp'.onfor = lamp.onfor
        /\ lamp'.out = lamp'.cur
    BY <1>1, <1>4 DEF DimStep, SendCurrentLight, Lamp
  <2>2. lamp'.out \in Lamps!Level
    BY <1>1, <2>1 DEF Lamp, Level, Lamps!Level
  <2>3. KeptLevel' = KeptLevel
    BY <2>1 DEF KeptLevel
  <2> QED BY <1>1, <2>1, <2>2, <2>3 DEF FadeInv, Lamps!Next, Lamps!Fade
<1>5. CASE DimEnd
  <2>1. /\ lamp.dimming /\ ~lamp'.dimming /\ lamp'.state = lamp.state
        /\ lamp'.tgt = lamp.tgt /\ lamp'.bak = lamp.bak
        /\ lamp'.anim = lamp.anim /\ lamp'.onfor = lamp.onfor
        /\ lamp'.out = lamp.tgt
    BY <1>1, <1>5 DEF DimEnd, SendCurrentLight, Lamp
  <2>2. FadeInv'
    BY <1>1, <2>1 DEF FadeInv
  <2>3. KeptLevel' = KeptLevel
    BY <2>1 DEF KeptLevel
  <2>4. Lamps!Settle
    BY <1>1, <2>1, <2>3 DEF FadeInv, KeptLevel, Lamps!Settle, Lamps!Wanted, Dark, Lamp
  <2> QED BY <2>2, <2>3, <2>4 DEF Lamps!Next
<1>6. CASE PublishStart \/ PublishReturn
  BY <1>2, <1>6, PublishKeepsLamp DEF FadeInv
<1>7. CASE Break \/ Reconnect \/ UNCHANGED vars
  BY <1>2, <1>7 DEF Break, Reconnect, vars
<1>8. ~Toggle /\ ~AnimationStep /\ ~AutoOff
  BY DEF Toggle, AnimationStep, AutoOff, FadeInv
<1> QED BY <1>3, <1>4, <1>5, <1>6, <1>7, <1>8 DEF Next

\* Under the commands Home Assistant sends after discovery, in words or as
\* JSON, a light that is off and not fading is dark, whatever arrives inside a
\* publish and however the connection fails.
THEOREM OffStaysDark ==
    ASSUME Ops \subseteq FadeOps, Toggles = "never"
    PROVE  Spec => []OffIsDark
<1>1. Init => FadeInv
  BY FadeInit
<1>2. FadeInv /\ [Next]_vars => FadeInv'
  BY FadeNext
<1>3. FadeInv => OffIsDark
  BY DEF FadeInv, OffIsDark
<1> QED BY <1>1, <1>2, <1>3, PTL DEF Spec

\* Under the same commands the light implements the dimmable lamp: a switch
\* keeps the level or sets the one it came with, and every fade ends at what
\* was last asked for.
THEOREM LightIsDimLamp ==
    ASSUME Ops \subseteq FadeOps, Toggles = "never"
    PROVE  Spec => IsDimLamp
<1>1. Init => FadeInv /\ Lamps!Init
  BY FadeInit
<1>2. FadeInv /\ [Next]_vars => FadeInv' /\ [Lamps!Next]_(Lamps!vars)
  BY FadeNext
<1> QED BY <1>1, <1>2, PTL DEF Spec, IsDimLamp, Lamps!Spec

\* Under the same commands no level is lost or made up, except by a JSON ON to
\* a lamp that is on and a JSON OFF to one that is off.
THEOREM LevelsSurvive ==
    ASSUME Ops \subseteq FadeOps, Toggles = "never"
    PROVE  Spec => OnlyRepeatsLose
<1>1. Init => FadeInv
  BY FadeInit
<1>2. FadeInv /\ [Next]_vars => FadeInv'
  BY FadeNext
<1>3. FadeInv /\ [Next]_vars
        => [KeptLevel' # KeptLevel => Commanded \/ JsonRepeat]_vars
  BY FadeNext
<1> QED BY <1>1, <1>2, <1>3, PTL DEF Spec, OnlyRepeatsLose

-----------------------------------------------------------------------------
(* The state report and the animation reports.                             *)

\* L became R without losing a mark of the state or of the animation, and
\* marked whichever of the two it changed.
Marks(L, R) ==
    /\ "state" \in L.dirty \/ R.state # L.state => "state" \in R.dirty
    /\ "anim" \in L.dirty \/ R.anim # L.anim => "anim" \in R.dirty

\* Each member function marks the state and the animation that it changes.
LEMMA HelpersMark ==
    ASSUME NEW L \in Lamp
    PROVE  /\ \A P \in SUBSET Parameters : Marks(L, Outdate(L, P))
           /\ \A b \in BOOLEAN : Marks(L, SetStateParam(L, b))
           /\ \A a \in Animations \cup {"off"} : Marks(L, SetAnimationType(L, a))
           /\ Marks(L, StopAnimation(L))
           /\ Marks(L, HardOff(L))
           /\ Marks(L, HardOn(L))
           /\ Marks(L, Toggled(L))
<1>1. \A P \in SUBSET Parameters : Marks(L, Outdate(L, P))
  BY DEF Marks, Outdate, Lamp
<1>2. \A b \in BOOLEAN : Marks(L, SetStateParam(L, b))
  BY DEF Marks, SetStateParam, Outdate, Lamp
<1>3. \A a \in Animations \cup {"off"} : Marks(L, SetAnimationType(L, a))
  BY DEF Marks, SetAnimationType, SetStateParam, Outdate, Lamp
<1>4. Marks(L, StopAnimation(L))
  BY <1>3 DEF Marks, StopAnimation
<1>5. Marks(L, HardOff(L))
  BY DEF Marks, HardOff, SendCurrentLight, SetStateParam, Outdate, Lamp
<1>6. Marks(L, HardOn(L))
  BY DEF Marks, HardOn, SendCurrentLight, Lamp
<1>7. Marks(L, Toggled(L))
  BY <1>5 DEF Marks, Toggled, SendCurrentLight, SetStateParam, Outdate, Lamp
<1> QED BY <1>1, <1>2, <1>3, <1>4, <1>5, <1>6, <1>7

\* Fades and levels do, too.
LEMMA FadesMark ==
    ASSUME NEW L \in Lamp
    PROVE  /\ Marks(L, DimmOn(L)) /\ Marks(L, DimmOff(L))
           /\ \A level \in Level, f \in BOOLEAN : Marks(L, SetLevel(L, level, f))
           /\ \A a \in Animations, b \in BOOLEAN : Marks(L, Animate(L, a, b))
<1> DEFINE S == StopAnimation(L)
<1>1. S \in Lamp /\ Marks(L, S)
  BY AnimationType, HelpersMark
<1> HIDE DEF S
<1>2. Marks(L, DimmOn(L))
  BY <1>1 DEF Marks, DimmOn, DimmTo, SetStateParam, Outdate, Lamp, S
<1>3. Marks(L, DimmOff(L))
  BY <1>1 DEF Marks, DimmOff, DimmTo, SetStateParam, Outdate, Lamp, S
<1>4. ASSUME NEW level \in Level, NEW f \in BOOLEAN
      PROVE  Marks(L, SetLevel(L, level, f))
  BY <1>1 DEF Marks, SetLevel, DimmTo, SendCurrentLight, Outdate, Lamp, S
<1>5. ASSUME NEW a \in Animations, NEW b \in BOOLEAN
      PROVE  Marks(L, Animate(L, a, b))
  BY HelpersMark DEF Animate, Parameters
<1> QED BY <1>2, <1>3, <1>4, <1>5

\* Whatever is received, a changed state or animation is marked.
LEMMA ReceiveMarks ==
    ASSUME NEW L0 \in Lamp, NEW op \in AllOps, NEW level \in Level
    PROVE  Marks(L0, Receive(L0, op, level))
<1> DEFINE L == [L0 EXCEPT !.onfor = FALSE]
           S == StopAnimation(L)
           R == Receive(L0, op, level)
           switched == IF ~L.state \/ L.anim # "off"
                       THEN HardOn(S) ELSE Outdate(L, {"state"})
<1>1. L \in Lamp /\ L.state = L0.state /\ L.anim = L0.anim /\ L.dirty = L0.dirty
  BY DEF Lamp
<1> HIDE DEF L
<1> SUFFICES Marks(L, R)
  BY <1>1 DEF Marks
<1>2. S \in Lamp /\ Marks(L, S)
  BY <1>1, AnimationType, HelpersMark
<1>3. Marks(L, L) /\ Marks(L, Outdate(L, {"state"}))
  BY <1>1, HelpersMark DEF Marks, Parameters
<1>4. Marks(L, HardOn(S)) /\ Marks(L, HardOff(S))
  BY <1>2, HelpersMark DEF Marks
<1>5. Marks(L, switched) /\ Marks(L, [switched EXCEPT !.onfor = TRUE])
  <2>1. Marks(L, switched)
    BY <1>3, <1>4
  <2>2. switched \in Lamp
    BY <1>1, <1>2, SwitchType, OutdateType DEF Parameters
  <2> HIDE DEF switched
  <2> QED BY <2>1, <2>2 DEF Marks, Lamp
<1>6. Marks(L, DimmOn(L)) /\ Marks(L, DimmOff(L))
  BY <1>1, FadesMark
<1>7. /\ Marks(L, DimmOn([L EXCEPT !.bak = level]))
      /\ Marks(L, Outdate([L EXCEPT !.bak = level], {"state"}))
  <2>1. /\ [L EXCEPT !.bak = level] \in Lamp
        /\ [L EXCEPT !.bak = level].state = L.state
        /\ [L EXCEPT !.bak = level].anim = L.anim
        /\ [L EXCEPT !.bak = level].dirty = L.dirty
    BY <1>1 DEF Lamp
  <2>2. /\ Marks([L EXCEPT !.bak = level], DimmOn([L EXCEPT !.bak = level]))
        /\ Marks([L EXCEPT !.bak = level],
                 Outdate([L EXCEPT !.bak = level], {"state"}))
    BY <2>1, FadesMark, HelpersMark DEF Parameters
  <2> QED BY <2>1, <2>2 DEF Marks
<1>8. \A f \in BOOLEAN : Marks(L, SetLevel(L, level, f))
  BY <1>1, FadesMark
<1>9. Marks(L, [Outdate(L, {"abright"}) EXCEPT !.abright = level])
  BY <1>1 DEF Marks, Outdate, Lamp
<1>10. \A a \in Animations, b \in BOOLEAN : Marks(L, Animate(L, a, b))
  BY <1>1, FadesMark
<1> HIDE DEF switched
<1>11. CASE op \in BasicOps
  BY <1>11, <1>3, <1>4, <1>5 DEF Receive, BasicOps, L, S, switched
<1>12. CASE op \in PwmOps
  BY <1>12, <1>3, <1>6, <1>7, <1>8 DEF Receive, PwmOps, PwmLevelOps, L
<1>13. CASE op \in RgbOps \cup PixelOps
  BY <1>13, <1>3, <1>9, <1>10 DEF Receive, RgbOps, PixelOps, Animations, L
<1> QED BY <1>11, <1>12, <1>13 DEF AllOps

\* The inductive invariant: StateReported also between the start and the
\* return of a publish, and the state that is being published is the state
\* the light has.
StateInv ==
    /\ TypeOK
    /\ link # "dead"
    /\ "state" \notin lamp.dirty \/ call.at = "state" => told.state = lamp.state

\* Another report leaves the broker's state alone; the state itself reaches
\* the broker while the connection is up.
LEMMA SendState ==
    ASSUME TypeOK, NEW stage \in Reports, NEW ok \in BOOLEAN, Send(stage, ok)
    PROVE  /\ call'.at = stage
           /\ stage # "state" => told'.state = told.state
           /\ stage = "state" /\ link = "up" => told'.state = lamp.state
<1>1. call'.at = stage
  BY DEF Send
<1>2. told \in Told
  BY DEF TypeOK
<1>3. told' = told \/ told' = [told EXCEPT ![stage] = Value(lamp, stage)]
  BY DEF Send
<1>4. stage # "state" => told'.state = told.state
  BY <1>2, <1>3 DEF Told
<1>5. stage = "state" /\ link = "up" => told'.state = lamp.state
  BY <1>2 DEF Told, Send, Value
<1> QED BY <1>1, <1>4, <1>5

\* Publishing keeps it: the mark is cleared only after the state was sent.
LEMMA StatePublish ==
    ASSUME StateInv, PublishStart \/ PublishReturn
    PROVE  StateInv'
<1>1. TypeOK /\ TypeOK' /\ lamp \in Lamp /\ told \in Told
  BY PublishType DEF StateInv, TypeOK
<1>2. \A p \in Parameters : /\ StageOf(p) \in Reports /\ Rank[p] \in 1..5
                            /\ p # "state" <=> StageOf(p) # "state"
                            /\ p # "state" <=> Rank[p] > 1
  BY DEF Parameters, Reports, StageOf, Rank
<1>3. CASE PublishStart
  <2> DEFINE stage == StageOf(FirstDue(lamp, 0))
  <2>1. Due(lamp, 0) = lamp.dirty
    BY <1>1, <1>2 DEF Due, Lamp
  <2>2. FirstDue(lamp, 0) \in Parameters
    BY <1>1, <1>3, <2>1, FirstDueIsDue DEF PublishStart
  <2>3. stage \in Reports
    BY <2>2, <1>2
  <2>4. Send(stage, TRUE) /\ UNCHANGED <<lamp, link>>
    BY <1>3 DEF PublishStart
  <2>5. link = "up"
    BY <1>1, <1>3 DEF PublishStart, Looping, StateInv, TypeOK
  <2> HIDE DEF stage
  <2> QED BY <1>1, <2>3, <2>4, <2>5, SendState DEF StateInv
<1>4. CASE PublishReturn
  <2> DEFINE p == ParameterOf(call.at)
             ok == call.ok /\ link # "down"
  <2>1. call.at \in Reports /\ ok \in BOOLEAN /\ UNCHANGED link
    BY <1>1, <1>4 DEF PublishReturn, TypeOK, Calls
  <2>2. p \in Parameters /\ (p = "state" <=> call.at = "state")
    BY <2>1 DEF ParameterOf, Reports, Parameters, Animations
  <2>3. CASE call.at \in {"wheel", "simple"}
    <3> DEFINE next == IF call.at = "wheel" THEN "simple" ELSE "wipe"
    <3>1. next \in Reports /\ next # "state" /\ Send(next, ok) /\ UNCHANGED lamp
      BY <1>4, <2>3 DEF PublishReturn, Reports
    <3> HIDE DEF next, ok
    <3> QED BY <1>1, <3>1, <2>1, SendState DEF StateInv
  <2>4. CASE call.at \notin {"wheel", "simple"} /\ ~ok /\ Due(lamp, Rank[p]) # {}
    <3> DEFINE q == FirstDue(lamp, Rank[p])
               next == StageOf(q)
    <3>1. q \in Parameters /\ q \in Due(lamp, Rank[p])
      BY <1>1, <1>2, <2>2, <2>4, FirstDueIsDue
    <3>2. q # "state"
      BY <1>2, <2>2, <3>1 DEF Due
    <3>3. next \in Reports /\ next # "state"
      BY <1>2, <3>1, <3>2
    <3>4. Send(next, TRUE) /\ UNCHANGED lamp
      BY <1>4, <2>4 DEF PublishReturn
    <3> HIDE DEF next
    <3> QED BY <1>1, <3>3, <3>4, <2>1, SendState DEF StateInv
  <2>5. CASE call.at \notin {"wheel", "simple"} /\ ~(~ok /\ Due(lamp, Rank[p]) # {})
    <3>1. /\ call' = Idle
          /\ lamp' = IF ok THEN [lamp EXCEPT !.dirty = @ \ {p}] ELSE lamp
          /\ UNCHANGED told
      BY <1>4, <2>5 DEF PublishReturn
    <3>2. call'.at # "state"
      BY <3>1 DEF Idle
    <3>3. lamp'.state = lamp.state /\ ("state" \notin lamp'.dirty
             => "state" \notin lamp.dirty \/ call.at = "state")
      BY <1>1, <3>1, <2>2 DEF Lamp
    <3> QED BY <1>1, <3>1, <3>2, <3>3, <2>1 DEF StateInv
  <2> QED BY <2>3, <2>4, <2>5
<1> QED BY <1>3, <1>4

\* Outside publish(), no step touches the broker or the connection, and each
\* marks what it changes.
LEMMA StepMarks ==
    ASSUME MaxNested = 0, TypeOK,
           \/ \E op \in Offered, level \in Level :
                 (op \in LevelOps \/ level = 0) /\ Command(op, level)
           \/ Toggle \/ DimStep \/ DimEnd \/ AnimationStep \/ AutoOff
    PROVE  UNCHANGED <<told, call, link>> /\ call = Idle /\ Marks(lamp, lamp')
<1>1. lamp \in Lamp
  BY DEF TypeOK
<1>2. ASSUME NEW op \in Offered, NEW level \in Level, Command(op, level)
      PROVE  UNCHANGED <<told, call, link>> /\ call = Idle /\ Marks(lamp, lamp')
  <2>1. call = Idle
    BY <1>2 DEF Command, TypeOK, Calls
  <2>2. Marks(lamp, lamp')
    BY <1>1, <1>2, ReceiveMarks, OpsAssumption DEF Command, Offered
  <2>3. UNCHANGED <<told, call, link>>
    BY <1>2, <2>1 DEF Command
  <2> QED BY <2>1, <2>2, <2>3
<1>3. CASE Toggle
  BY <1>1, <1>3, HelpersMark DEF Toggle
<1>4. CASE DimStep
  <2>1. Marks(lamp, lamp')
    BY <1>1, <1>4 DEF DimStep, SendCurrentLight, Marks, Lamp
  <2> QED BY <1>4, <2>1 DEF DimStep, Looping
<1>5. CASE DimEnd
  <2>1. Marks(lamp, lamp')
    BY <1>1, <1>5 DEF DimEnd, SendCurrentLight, Marks, Lamp
  <2> QED BY <1>5, <2>1 DEF DimEnd, Looping
<1>6. CASE AnimationStep
  <2>1. Marks(lamp, lamp')
    BY <1>1, <1>6 DEF AnimationStep, Marks, Lamp
  <2> QED BY <1>6, <2>1 DEF AnimationStep, Looping
<1>7. CASE AutoOff
  <2>1. HardOff(lamp) \in Lamp /\ Marks(lamp, HardOff(lamp))
    BY <1>1, SwitchType, HelpersMark
  <2>2. Marks(lamp, lamp')
    BY <2>1, <1>7 DEF AutoOff, Marks, Lamp
  <2> QED BY <1>7, <2>2 DEF AutoOff, Looping
<1> QED BY <1>2, <1>3, <1>4, <1>5, <1>6, <1>7

\* Every step keeps it, when no command is handled inside a publish and a
\* broken connection is noticed.
LEMMA StateStep ==
    ASSUME MaxNested = 0, HalfOpen = FALSE, StateInv, [Next]_vars
    PROVE  StateInv'
<1>1. TypeOK /\ TypeOK'
  BY TypeStep DEF StateInv, TypeOK
<1>2. call = Idle => call.at # "state"
  BY DEF Idle
<1>3. ASSUME UNCHANGED <<told, call, link>>, call = Idle, Marks(lamp, lamp')
      PROVE  StateInv'
  BY <1>1, <1>2, <1>3 DEF StateInv, Marks
<1>4. CASE (\E op \in Offered, level \in Level :
               (op \in LevelOps \/ level = 0) /\ Command(op, level))
           \/ Toggle \/ DimStep \/ DimEnd \/ AnimationStep \/ AutoOff
  BY <1>1, <1>3, <1>4, StepMarks
<1>5. CASE PublishStart \/ PublishReturn
  BY <1>5, StatePublish
<1>6. CASE Break
  BY <1>1, <1>6 DEF Break, StateInv
<1>7. CASE Reconnect
  BY <1>1, <1>7 DEF Reconnect, StateInv
<1>8. CASE UNCHANGED vars
  BY <1>1, <1>8 DEF vars, StateInv
<1> QED BY <1>4, <1>5, <1>6, <1>7, <1>8 DEF Next

\* After a power up, with commands arriving only between two rounds of the
\* loop and no silent loss, the broker's state is right whenever nothing is
\* left to publish: under every command, button and connection failure.
THEOREM StateIsReported ==
    ASSUME MaxNested = 0, HalfOpen = FALSE, Boots \subseteq {"power"}
    PROVE  Spec => []StateReported
<1>1. Init => StateInv
  <2> SUFFICES ASSUME Init
               PROVE  StateInv
    OBVIOUS
  <2>1. lamp = Booted("power") /\ link = "up"
    BY DEF Init
  <2>2. "state" \in lamp.dirty
    BY <2>1 DEF Booted, SendCurrentLight, Outdate, SetStateParam
  <2> QED BY <2>1, <2>2, TypeInit DEF StateInv, Init, Idle
<1>2. StateInv /\ [Next]_vars => StateInv'
  BY StateStep
<1>3. StateInv => StateReported
  BY DEF StateInv, StateReported
<1> QED BY <1>1, <1>2, <1>3, PTL DEF Spec
-----------------------------------------------------------------------------
(* The animation reports.                                                  *)

\* The stages of the animation report that were sent by the time of stage.
SentBy(stage) ==
    CASE stage = "wheel" -> {"wheel"}
      [] stage = "simple" -> {"wheel", "simple"}
      [] OTHER -> Animations

\* The broker's copy of animation a is right.
Agrees(a) == told[a] = (lamp.anim = a)

\* The inductive invariant: AnimationReported also while another report is
\* published, the mark stays for as long as the three messages take, and
\* those sent so far are right unless one of them was lost.
AnimInv ==
    /\ TypeOK
    /\ link # "dead"
    /\ call.at \notin Animations /\ "anim" \notin lamp.dirty
          => \A a \in Animations : Agrees(a)
    /\ call.at \in Animations
          => /\ "anim" \in lamp.dirty
             /\ call.ok /\ link = "up" => \A a \in SentBy(call.at) : Agrees(a)

\* A message changes the broker's copy of its own topic only, and that copy
\* is right if the connection is up.
LEMMA SendAnimation ==
    ASSUME TypeOK, NEW stage \in Reports, NEW ok \in BOOLEAN, Send(stage, ok),
           UNCHANGED lamp
    PROVE  /\ call'.at = stage /\ call'.ok = ok
           /\ \A a \in Animations \ {stage} : Agrees(a)' <=> Agrees(a)
           /\ stage \in Animations /\ link = "up" => Agrees(stage)'
<1>1. call'.at = stage /\ call'.ok = ok
  BY DEF Send
<1>2. told \in Told
  BY DEF TypeOK
<1>3. told' = told \/ told' = [told EXCEPT ![stage] = Value(lamp, stage)]
  BY DEF Send
<1>4. ASSUME NEW a \in Animations, a # stage
      PROVE  told'[a] = told[a]
  BY <1>2, <1>3, <1>4 DEF Told, Animations
<1>5. ASSUME stage \in Animations, link = "up"
      PROVE  told'[stage] = (lamp.anim = stage)
  <2>1. Value(lamp, stage) = (lamp.anim = stage)
    BY <1>5 DEF Value, Animations
  <2>2. told' = [told EXCEPT ![stage] = Value(lamp, stage)]
    BY <1>5 DEF Send
  <2> QED BY <1>2, <1>5, <2>1, <2>2 DEF Told, Animations
<1> QED BY <1>1, <1>4, <1>5 DEF Agrees

\* A report that starts with the animation sends the wheel first; no other
\* report disturbs the broker's copies.
LEMMA StartAnimation ==
    ASSUME AnimInv, TypeOK', UNCHANGED <<lamp, link>>,
           NEW p \in Parameters, p \in lamp.dirty, Send(StageOf(p), TRUE),
           call.at \in Animations => "anim" \in lamp.dirty /\ p # "anim"
    PROVE  AnimInv'
<1> DEFINE stage == StageOf(p)
<1>1. /\ stage \in Reports
      /\ stage \in Animations => stage = "wheel" /\ p = "anim"
  BY DEF StageOf, Reports, Parameters, Animations
<1>2. Send(stage, TRUE)
  OBVIOUS
<1> HIDE DEF stage
<1>3. /\ call'.at = stage
      /\ \A a \in Animations \ {stage} : Agrees(a)' <=> Agrees(a)
      /\ stage \in Animations /\ link = "up" => Agrees(stage)'
  BY <1>1, <1>2, SendAnimation DEF AnimInv
<1>4. CASE stage \in Animations
  <2>1. SentBy(stage) = {stage}
    BY <1>1, <1>4 DEF SentBy
  <2> QED BY <1>1, <1>3, <1>4, <2>1 DEF AnimInv
<1>5. CASE stage \notin Animations
  BY <1>3, <1>5 DEF AnimInv
<1> QED BY <1>4, <1>5

\* Publishing keeps it: the mark is cleared only after all three messages
\* left over a connection that still stands.
LEMMA AnimationPublish ==
    ASSUME AnimInv, PublishStart \/ PublishReturn
    PROVE  AnimInv'
<1>1. TypeOK /\ TypeOK' /\ lamp \in Lamp /\ told \in Told
  BY PublishType DEF AnimInv, TypeOK
<1>2. \A q \in Parameters : Rank[q] \in 1..5
  BY DEF Parameters, Rank
<1>3. CASE PublishStart
  <2>1. Due(lamp, 0) = lamp.dirty
    BY <1>1, <1>2 DEF Due, Lamp
  <2>2. FirstDue(lamp, 0) \in Parameters /\ FirstDue(lamp, 0) \in lamp.dirty
    BY <1>1, <1>3, <2>1, FirstDueIsDue DEF PublishStart
  <2>3. call.at \notin Animations
    BY <1>3 DEF PublishStart, Looping, Idle, Animations
  <2> QED BY <1>1, <1>3, <2>2, <2>3, StartAnimation DEF PublishStart
<1>4. CASE PublishReturn
  <2> DEFINE p == ParameterOf(call.at)
             ok == call.ok /\ link # "down"
  <2>1. /\ call.at \in Reports /\ ok \in BOOLEAN /\ UNCHANGED link
        /\ ok => call.ok /\ link = "up"
    BY <1>1, <1>4 DEF PublishReturn, AnimInv, TypeOK, Calls
  <2>2. p \in Parameters /\ (p = "anim" <=> call.at \in Animations)
    BY <2>1 DEF ParameterOf, Reports, Parameters, Animations
  <2>3. CASE call.at \in {"wheel", "simple"}
    <3>1. PICK next \in Reports :
             /\ next \in Animations
             /\ Send(next, ok) /\ UNCHANGED lamp
             /\ call.at \in Animations
             /\ SentBy(next) = SentBy(call.at) \cup {next}
      BY <1>4, <2>3 DEF PublishReturn, Reports, Animations, SentBy
    <3>2. SentBy(next) \subseteq Animations
      BY DEF SentBy, Animations
    <3>3. /\ call'.at = next /\ call'.ok = ok
          /\ \A a \in Animations \ {next} : Agrees(a)' <=> Agrees(a)
          /\ link = "up" => Agrees(next)'
      <4> HIDE DEF ok
      <4> QED BY <1>1, <2>1, <3>1, SendAnimation
    <3> HIDE DEF ok
    <3> QED BY <1>1, <2>1, <3>1, <3>2, <3>3 DEF AnimInv
  <2>4. CASE call.at \notin {"wheel", "simple"} /\ ~ok /\ Due(lamp, Rank[p]) # {}
    <3> DEFINE q == FirstDue(lamp, Rank[p])
    <3>1. q \in Parameters /\ q \in Due(lamp, Rank[p]) /\ q \in lamp.dirty
      BY <1>1, <1>2, <2>2, <2>4, FirstDueIsDue
    <3>2. q # p
      BY <1>2, <2>2, <3>1 DEF Due
    <3>3. Send(StageOf(q), TRUE) /\ UNCHANGED lamp
      BY <1>4, <2>4 DEF PublishReturn
    <3>4. call.at \in Animations => "anim" \in lamp.dirty /\ q # "anim"
      BY <2>2, <3>2 DEF AnimInv
    <3> HIDE DEF q
    <3> QED BY <1>1, <2>1, <3>1, <3>3, <3>4, StartAnimation
  <2>5. CASE call.at \notin {"wheel", "simple"} /\ ~(~ok /\ Due(lamp, Rank[p]) # {})
    <3>1. /\ call' = Idle
          /\ lamp' = IF ok THEN [lamp EXCEPT !.dirty = @ \ {p}] ELSE lamp
          /\ UNCHANGED told
      BY <1>4, <2>5 DEF PublishReturn
    <3>2. call'.at \notin Animations
      BY <3>1 DEF Idle, Animations
    <3>3. /\ lamp'.anim = lamp.anim
          /\ lamp'.dirty = IF ok THEN lamp.dirty \ {p} ELSE lamp.dirty
      BY <1>1, <3>1 DEF Lamp
    <3>4. \A a \in Animations : Agrees(a)' <=> Agrees(a)
      BY <3>1, <3>3 DEF Agrees
    <3>5. CASE call.at \in Animations
      <4>1. SentBy(call.at) = Animations
        BY <2>5, <3>5 DEF SentBy, Animations
      <4> QED BY <1>1, <2>1, <3>2, <3>3, <3>4, <3>5, <4>1 DEF AnimInv
    <3>6. CASE call.at \notin Animations
      BY <1>1, <2>1, <2>2, <3>2, <3>3, <3>4, <3>6 DEF AnimInv
    <3> QED BY <3>5, <3>6
  <2> QED BY <2>3, <2>4, <2>5
<1> QED BY <1>3, <1>4

\* Between two publishes every step that changes the animation marks it.
LEMMA AnimationStepKept ==
    ASSUME MaxNested = 0, HalfOpen = FALSE, AnimInv, [Next]_vars
    PROVE  AnimInv'
<1>1. TypeOK /\ TypeOK' /\ lamp \in Lamp
  BY TypeStep DEF AnimInv, TypeOK
<1>2. call = Idle => call.at \notin Animations
  BY DEF Idle, Animations
<1>3. ASSUME UNCHANGED <<told, call, link>>, call = Idle, Marks(lamp, lamp')
      PROVE  AnimInv'
  BY <1>1, <1>2, <1>3 DEF AnimInv, Marks, Agrees
<1>4. CASE (\E op \in Offered, level \in Level :
               (op \in LevelOps \/ level = 0) /\ Command(op, level))
           \/ Toggle \/ DimStep \/ DimEnd \/ AnimationStep \/ AutoOff
  BY <1>1, <1>3, <1>4, StepMarks
<1>5. CASE PublishStart \/ PublishReturn
  BY <1>5, AnimationPublish
<1>6. CASE Break
  BY <1>1, <1>6 DEF Break, AnimInv, Agrees
<1>7. CASE Reconnect
  BY <1>1, <1>2, <1>7 DEF Reconnect, AnimInv, Agrees
<1>8. CASE UNCHANGED vars
  BY <1>1, <1>8 DEF vars, AnimInv, Agrees
<1> QED BY <1>4, <1>5, <1>6, <1>7, <1>8 DEF Next

\* With commands arriving only between two rounds of the loop, no silent loss
\* and a broker that retained no animation from an earlier life, the three
\* animation topics are right whenever no animation is left to publish: after
\* either kind of reset, under every command, button and connection failure.
THEOREM AnimationIsReported ==
    ASSUME MaxNested = 0, HalfOpen = FALSE,
           \A old \in OldReports : \A a \in Animations : ~old[a]
    PROVE  Spec => []AnimationReported
<1>1. Init => AnimInv
  <2> SUFFICES ASSUME Init
               PROVE  AnimInv
    OBVIOUS
  <2>1. PICK reason \in Boots : lamp = Booted(reason)
    BY DEF Init
  <2>2. lamp.anim = "off"
    BY <2>1 DEF Booted, SendCurrentLight, Outdate, SetStateParam
  <2>3. \A a \in Animations : told[a] = FALSE
    BY OldReportsAssumption DEF Init, Told, Animations
  <2>4. \A a \in Animations : Agrees(a)
    BY <2>2, <2>3 DEF Agrees, Animations
  <2>5. call.at \notin Animations
    BY DEF Init, Idle, Animations
  <2> QED BY <2>4, <2>5, TypeInit DEF AnimInv, Init
<1>2. AnimInv /\ [Next]_vars => AnimInv'
  BY AnimationStepKept
<1>3. AnimInv => AnimationReported
  BY DEF AnimInv, AnimationReported, Idle, Animations, Agrees
<1> QED BY <1>1, <1>2, <1>3, PTL DEF Spec

-----------------------------------------------------------------------------
(* The light and the animation, one at a time.                             *)

\* L became R without making a lit lamp and an animation overlap.
Apart(L, R) == R.state /\ R.anim # "off" => L.state /\ L.anim # "off"

\* Taking the light over for an animation, and every way of switching, leave
\* at most one of the two.
LEMMA SwitchApart ==
    ASSUME NEW L \in Lamp
    PROVE  /\ \A a \in Animations \cup {"off"} :
                 LET R == SetAnimationType(L, a)
                 IN  R.anim = a /\ (a # "off" => ~R.state)
           /\ StopAnimation(L).anim = "off"
           /\ ~HardOff(L).state
           /\ HardOn(L).anim = L.anim
           /\ ~DimmOff(L).state
           /\ DimmOn(L).anim = "off"
<1>1. ASSUME NEW a \in Animations \cup {"off"}
      PROVE  LET R == SetAnimationType(L, a)
             IN  R.anim = a /\ (a # "off" => ~R.state)
  BY DEF SetAnimationType, SetStateParam, Outdate, Lamp
<1> DEFINE S == StopAnimation(L)
<1>2. S \in Lamp /\ S.anim = "off"
  BY <1>1, AnimationType DEF StopAnimation
<1>3. ~HardOff(L).state
  BY DEF HardOff, SendCurrentLight, SetStateParam, Outdate, Lamp
<1>4. HardOn(L).anim = L.anim
  BY DEF HardOn, SendCurrentLight, Lamp
<1> HIDE DEF S
<1>5. ~DimmOff(L).state
  BY <1>2 DEF DimmOff, DimmTo, SetStateParam, Outdate, Lamp, S
<1>6. DimmOn(L).anim = "off"
  BY <1>2 DEF DimmOn, DimmTo, SetStateParam, Outdate, Lamp, S
<1> QED BY <1>1, <1>2, <1>3, <1>4, <1>5, <1>6 DEF S

\* A level or an animation topic does, too.
LEMMA LevelApart ==
    ASSUME NEW L \in Lamp
    PROVE  /\ \A level \in Level, f \in BOOLEAN : Apart(L, SetLevel(L, level, f))
           /\ \A a \in Animations, b \in BOOLEAN : Apart(L, Animate(L, a, b))
           /\ \A P \in SUBSET Parameters : Apart(L, Outdate(L, P))
<1>1. \A P \in SUBSET Parameters : Apart(L, Outdate(L, P))
  BY DEF Apart, Outdate, Lamp
<1> DEFINE S == StopAnimation(L)
<1>2. S \in Lamp /\ S.anim = "off"
  BY AnimationType, SwitchApart
<1> HIDE DEF S
<1>3. ASSUME NEW level \in Level, NEW f \in BOOLEAN
      PROVE  Apart(L, SetLevel(L, level, f))
  BY <1>2 DEF Apart, SetLevel, DimmTo, SendCurrentLight, Outdate, Lamp, S
<1>4. ASSUME NEW a \in Animations, NEW b \in BOOLEAN
      PROVE  Apart(L, Animate(L, a, b))
  BY <1>1, SwitchApart DEF Apart, Animate, Parameters
<1> QED BY <1>1, <1>3, <1>4

\* So does every command.
LEMMA ReceiveApart ==
    ASSUME NEW L0 \in Lamp, NEW op \in AllOps, NEW level \in Level
    PROVE  Apart(L0, Receive(L0, op, level))
<1> DEFINE L == [L0 EXCEPT !.onfor = FALSE]
           S == StopAnimation(L)
           R == Receive(L0, op, level)
           switched == IF ~L.state \/ L.anim # "off"
                       THEN HardOn(S) ELSE Outdate(L, {"state"})
<1>1. L \in Lamp /\ L.state = L0.state /\ L.anim = L0.anim
  BY DEF Lamp
<1> HIDE DEF L
<1> SUFFICES Apart(L, R)
  BY <1>1 DEF Apart
<1>2. S \in Lamp /\ S.anim = "off"
  BY <1>1, AnimationType, SwitchApart
<1>3. Apart(L, L) /\ Apart(L, Outdate(L, {"state"}))
  BY <1>1, LevelApart DEF Apart, Parameters
<1>4. Apart(L, HardOn(S)) /\ Apart(L, HardOff(S))
  BY <1>2, SwitchApart DEF Apart
<1>5. Apart(L, switched) /\ Apart(L, [switched EXCEPT !.onfor = TRUE])
  <2>1. Apart(L, switched)
    BY <1>3, <1>4
  <2>2. switched \in Lamp
    BY <1>1, <1>2, SwitchType, OutdateType DEF Parameters
  <2> HIDE DEF switched
  <2> QED BY <2>1, <2>2 DEF Apart, Lamp
<1>6. Apart(L, DimmOn(L)) /\ Apart(L, DimmOff(L))
  BY <1>1, SwitchApart DEF Apart
<1>7. /\ Apart(L, DimmOn([L EXCEPT !.bak = level]))
      /\ Apart(L, Outdate([L EXCEPT !.bak = level], {"state"}))
  <2> DEFINE K == [L EXCEPT !.bak = level]
  <2>1. K \in Lamp /\ K.state = L.state /\ K.anim = L.anim
    BY <1>1 DEF Lamp
  <2> HIDE DEF K
  <2>2. Apart(L, DimmOn(K))
    BY <2>1, SwitchApart DEF Apart
  <2>3. Apart(L, Outdate(K, {"state"}))
    BY <2>1, LevelApart DEF Apart, Parameters
  <2> QED BY <2>2, <2>3 DEF K
<1>8. \A f \in BOOLEAN : Apart(L, SetLevel(L, level, f))
  BY <1>1, LevelApart
<1>9. Apart(L, [Outdate(L, {"abright"}) EXCEPT !.abright = level])
  BY <1>1 DEF Apart, Outdate, Lamp
<1>10. \A a \in Animations, b \in BOOLEAN : Apart(L, Animate(L, a, b))
  BY <1>1, LevelApart
<1> HIDE DEF switched
<1>11. CASE op \in BasicOps
  BY <1>11, <1>3, <1>4, <1>5 DEF Receive, BasicOps, L, S, switched
<1>12. CASE op \in PwmOps
  BY <1>12, <1>3, <1>6, <1>7, <1>8 DEF Receive, PwmOps, PwmLevelOps, L
<1>13. CASE op \in RgbOps \cup PixelOps
  BY <1>13, <1>3, <1>9, <1>10 DEF Receive, RgbOps, PixelOps, Animations, L
<1> QED BY <1>11, <1>12, <1>13 DEF AllOps

\* The overlap begins with a button or not at all, whatever commands arrive
\* and wherever they arrive.
THEOREM OverlapIsTheButtons == Spec => OnlyButtonOverlaps
<1>1. ASSUME TypeOK, [Next]_vars
      PROVE  Apart(lamp, lamp') \/ Toggle
  <2>1. lamp \in Lamp
    BY <1>1 DEF TypeOK
  <2>2. ASSUME NEW op \in Offered, NEW level \in Level, Command(op, level)
        PROVE  Apart(lamp, lamp')
    BY <2>1, <2>2, ReceiveApart, OpsAssumption DEF Command, Offered
  <2>3. CASE DimStep \/ DimEnd \/ AnimationStep
    BY <2>1, <2>3 DEF DimStep, DimEnd, AnimationStep, SendCurrentLight, Apart, Lamp
  <2>4. CASE AutoOff
    <3>1. HardOff(lamp) \in Lamp /\ ~HardOff(lamp).state
      BY <2>1, SwitchType, SwitchApart
    <3> QED BY <2>4, <3>1 DEF AutoOff, Apart, Lamp
  <2>5. CASE PublishStart \/ PublishReturn
    BY <1>1, <2>5, PublishKeepsLamp DEF Apart
  <2>6. CASE Break \/ Reconnect \/ UNCHANGED vars
    BY <2>6 DEF Break, Reconnect, vars, Apart
  <2> QED BY <1>1, <2>2, <2>3, <2>4, <2>5, <2>6 DEF Next
<1>2. TypeOK /\ [Next]_vars
         => [lamp'.state /\ lamp'.anim # "off" =>
                (lamp.state /\ lamp.anim # "off") \/ Toggle]_vars
  BY <1>1 DEF Apart
<1> QED BY <1>2, TypeCorrect, PTL DEF Spec, OnlyButtonOverlaps
=============================================================================
