---------------------------- MODULE ButtonProofs ----------------------------
(* The button, for every choice of the times, holds and limits.            *)
EXTENDS Button, Integers, TLAPS

LOCAL INSTANCE WellFoundedInduction

Members == [active : BOOLEAN, counter : 0..(Wide - 1),
            report : 0..(Wide - 1),
            mark : BOOLEAN, polarity : BOOLEAN,
            down : 0..DownCap, bounce : 0..BounceCap, check : 0..CheckCap]

\* A number modulo a width is below the width.
LEMMA ModBelow ==
    ASSUME NEW a \in Nat, NEW b \in Nat \ {0}
    PROVE  a % b \in 0..(b - 1)
OBVIOUS

\* A whole number of long pushes in a time.
LEMMA DivType ==
    ASSUME NEW a \in Nat, NEW c \in Nat \ {0}
    PROVE  a \div c \in Nat
<1>1. a \div c \in Int /\ a < c * (a \div c) + c
  OBVIOUS
<1> DEFINE x == a \div c
<1>2. x \in Int /\ a < c * x + c
  BY <1>1
<1> HIDE DEF x
<1>3. 0 < c * (x + 1)
  BY <1>2
<1>4. 0 < x + 1
  BY <1>2, <1>3
<1> QED BY <1>2, <1>4 DEF x

\* A set of numbers that is not empty has a least one.
LEMMA LeastExists ==
    ASSUME NEW S \in SUBSET Nat, S # {}
    PROVE  \E x \in S : \A y \in S : x <= y
<1>1. PICK x \in S : \A y \in S : ~(<<y, x>> \in OpToRel(<, Nat))
  BY NatLessThanWellFounded, WFMin
<1>2. ASSUME NEW y \in S PROVE x <= y
  <2>1. <<y, x>> \in Nat \X Nat /\ ~(y < x)
    BY <1>1 DEF OpToRel
  <2> QED BY <2>1
<1> QED BY <1>2

\* A set of numbers up to n that is not empty has a highest one.
LEMMA HighestExists ==
    ASSUME NEW n \in Nat, NEW S \in SUBSET (1..n), S # {}
    PROVE  \E i \in S : \A j \in S : j <= i
<1> DEFINE T == {n - i : i \in S}
<1>1. \A i \in S : i \in Int /\ n - i \in Nat
  OBVIOUS
<1>0. T \in SUBSET Nat /\ T # {}
  BY <1>1
<1>2. PICK m \in T : \A y \in T : m <= y
  BY <1>0, LeastExists
<1>3. PICK i \in S : m = n - i
  BY <1>2
<1>4. ASSUME NEW j \in S PROVE j <= i
  <2>1. n - j \in T
    OBVIOUS
  <2>2. n - i <= n - j
    BY <1>2, <1>3, <2>1
  <2> QED BY <1>1, <2>2
<1> QED BY <1>4

\* The bounds of the timers are numbers above what they bound.
LEMMA Caps ==
    /\ DownCap \in Nat /\ BounceCap \in Nat /\ CheckCap \in Nat
    /\ 0 \in 0..DownCap /\ 0 \in 0..BounceCap /\ 0 \in 0..CheckCap
    /\ Interval - Fast \in 0..CheckCap
    /\ 0 \in Topics /\ Topics \subseteq 0..(Wide - 1) /\ Offset \in 0..(Wide - 1)
    /\ 1 \in 0..(Wide - 1)
    /\ Round \in Nat /\ Holds * Long \in Nat
    /\ Holds * Long + Timeout + Round = DownCap
    /\ 0 < Round
<1>0. Round \in Nat /\ Holds * Long \in Nat /\ 0 < Round
  <2>1. \A a, b \in Nat : a * b \in Nat
    OBVIOUS
  <2>2. \A a, b \in Nat : 0 < a /\ 0 < b => 0 < a * b
    OBVIOUS
  <2> QED BY <2>1, <2>2, TimeAssumption, CountAssumption DEF Round
<1>1. DownCap \in Nat /\ Holds * Long + Timeout + Round = DownCap
  BY <1>0, TimeAssumption DEF DownCap
<1>2. BounceCap \in Nat /\ CheckCap \in Nat /\ Interval - Fast \in 0..CheckCap
  BY TimeAssumption DEF BounceCap, CheckCap
<1>4. 0 \in Topics /\ Topics \subseteq 0..(Wide - 1) /\ Offset \in 0..(Wide - 1)
  BY CountAssumption DEF Topics
<1>5. Limit < Wide /\ Limit \in Nat \ {0} /\ Wide \in Nat
  BY CountAssumption
<1> QED BY <1>0, <1>1, <1>2, <1>4, <1>5

\* A time that goes round stays within its bound, and above every hold.
LEMMA HeldOnType ==
    ASSUME NEW d \in 0..DownCap
    PROVE  /\ HeldOn(d) \in 0..DownCap
           /\ HeldOn(d) = d + 1 \/ Holds * Long <= HeldOn(d)
<1>1. CASE d < DownCap
  BY <1>1, Caps DEF HeldOn
<1>2. CASE d = DownCap
  <2>1. HeldOn(d) = DownCap + 1 - Round
    BY <1>2, Caps DEF HeldOn
  <2> QED BY <2>1, Caps, TimeAssumption
<1> QED BY <1>1, <1>2, Caps

-----------------------------------------------------------------------------
(* What loop() does to the members.                                        *)

LEMMA ConsumedType ==
    ASSUME NEW b \in Members, mode \in [switch : BOOLEAN, ghost : BOOLEAN]
    PROVE  Consumed(b) \in Members
<1>1. Touched(b) \in Members
  BY Caps DEF Touched, Members
<1>2. ASSUME NEW t \in Members PROVE Counted(t) \in Members
  <2>1. (t.counter + 1) % Wide \in 0..(Wide - 1)
    <3>1. t.counter + 1 \in Nat /\ Wide \in Nat \ {0}
      BY CountAssumption DEF Members
    <3> QED BY <3>1, ModBelow
  <2> DEFINE c == IF t.down < Timeout THEN (t.counter + 1) % Wide ELSE 1
             r == IF mode.switch /\ t.polarity THEN Offset ELSE 0
  <2>2. c \in 0..(Wide - 1)
    BY <2>1, Caps
  <2>3. r \in 0..(Wide - 1)
    BY Caps
  <2>4. Counted(t) = [t EXCEPT !.counter = c, !.down = 0, !.check = Interval - Fast,
                               !.report = r, !.mark = TRUE]
    BY DEF Counted
  <2> HIDE DEF c, r
  <2> QED BY <2>2, <2>3, <2>4, Caps DEF Members
<1> QED BY <1>1, <1>2 DEF Consumed

LEMMA CheckedType ==
    ASSUME NEW b \in Members
    PROVE  Checked(b) \in Members /\ Checked(b).polarity = b.polarity
<1>1. StillHeld(b) \in Members /\ StillHeld(b).polarity = b.polarity
  <2> DEFINE new == HeldFor(b) # {} /\ b.report # Longest(HeldFor(b))
             r == IF new THEN Longest(HeldFor(b)) ELSE b.report
             k == b.mark \/ new
  <2>1. r \in 0..(Wide - 1)
    <3>1. ASSUME new PROVE Longest(HeldFor(b)) \in Topics
      <4>1. HeldFor(b) \subseteq 1..Holds /\ HeldFor(b) # {}
        BY <3>1 DEF HeldFor
      <4>2. \E i \in HeldFor(b) : \A j \in HeldFor(b) : j <= i
        BY <4>1, CountAssumption, HighestExists
      <4>3. Longest(HeldFor(b)) \in HeldFor(b)
        BY <4>2 DEF Longest
      <4> QED BY <4>1, <4>3, CountAssumption DEF Topics
    <3> QED BY <3>1, Caps DEF Members
  <2>2. k \in BOOLEAN
    BY DEF Members
  <2>3. StillHeld(b) = [b EXCEPT !.report = r, !.mark = k, !.check = Interval - Fast,
                                 !.bounce = 0]
    BY DEF StillHeld
  <2> HIDE DEF new, r, k
  <2> QED BY <2>1, <2>2, <2>3, Caps DEF Members
<1>2. Released(b) \in Members /\ Released(b).polarity = b.polarity
  <2>1. Lasted(b) \in Nat
    BY DivType, TimeAssumption, CountAssumption, Caps DEF Lasted, Members
  <2>2. Lasted(b) % Wide \in 0..(Wide - 1)
    BY <2>1, ModBelow, CountAssumption
  <2> DEFINE r == Lasted(b) % Wide
  <2>3. Released(b) = [b EXCEPT !.active = FALSE, !.check = 0, !.down = 0, !.mark = TRUE,
                                !.report = r]
    BY DEF Released
  <2> HIDE DEF r
  <2>4. r \in 0..(Wide - 1)
    BY <2>2 DEF r
  <2> QED BY <2>3, <2>4, Caps DEF Members
<1> QED BY <1>1, <1>2, Caps DEF Checked, Members

-----------------------------------------------------------------------------
(* Type correctness, and the prediction of a switch.                       *)

\* A contact of a switch flips the prediction; a count leaves it alone.
LEMMA ConsumedPolarity ==
    ASSUME NEW b \in Members
    PROVE  Consumed(b).polarity =
              IF Contact(b) /\ mode.switch THEN ~b.polarity ELSE b.polarity
<1>2. DOMAIN Touched(b) = DOMAIN b /\ "polarity" \in DOMAIN b
  BY DEF Touched, Members
<1>3. Touched(b).polarity = IF mode.switch THEN ~b.polarity ELSE b.polarity
  BY <1>2 DEF Touched, Members
<1>4. Counted(Touched(b)).polarity = Touched(b).polarity
  BY DEF Counted
<1> QED BY <1>3, <1>4 DEF Consumed, Accepted

LEMMA EndingTopics ==
    ASSUME NEW b
    PROVE  Ending(b) \subseteq Topics
BY DEF Ending

\* What consume_interrupt() preserves, in loop() and in the portal.
LEMMA ConsumeKeeps ==
    ASSUME TypeOK, SwitchPredicted, NEW next \in {"check", "portal", "away"}, Consume(next)
    PROVE  TypeOK' /\ SwitchPredicted'
<1>1. button \in Members /\ mode \in [switch : BOOLEAN, ghost : BOOLEAN]
  BY ModeAssumption DEF TypeOK, Members
<1>2. button' = Consumed(button) /\ button' \in Members
  BY <1>1, ConsumedType DEF Consume
<1>3. cut' \subseteq Topics
  BY EndingTopics DEF Consume, TypeOK
<1>4. TypeOK'
  BY <1>2, <1>3 DEF TypeOK, Members, Consume
<1>5. SwitchPredicted'
  <2> SUFFICES ASSUME mode.switch, mode.ghost PROVE pin # button'.polarity
    BY DEF SwitchPredicted, Consume
  <2>1. button'.polarity = IF Contact(button) THEN ~button.polarity ELSE button.polarity
    BY <1>1, <1>2, ConsumedPolarity
  <2>2. button.polarity \in BOOLEAN /\ pin \in BOOLEAN
    BY DEF TypeOK
  <2>3. CASE flag
    BY <2>1, <2>2, <2>3 DEF Contact, AtPolarity
  <2>4. CASE ~flag
    BY <2>1, <2>4 DEF Contact, SwitchPredicted
  <2> QED BY <2>3, <2>4
<1> QED BY <1>4, <1>5

LEMMA InitHolds == Init => TypeOK /\ SwitchPredicted
<1> SUFFICES ASSUME Init PROVE TypeOK /\ SwitchPredicted
  OBVIOUS
<1>1. mode \in Modes /\ mode \in [switch : BOOLEAN, ghost : BOOLEAN] /\ pin \in BOOLEAN
  BY ModeAssumption DEF Init
<1>2. button \in Members
  <2>1. DownCap \in 0..DownCap /\ BounceCap \in 0..BounceCap /\ CheckCap \in 0..CheckCap
    BY Caps
  <2>2. 0 \in 0..(Wide - 1) /\ 0 \in Topics
    BY Caps, CountAssumption
  <2>3. (IF mode.switch THEN ~pin ELSE TRUE) \in BOOLEAN
    BY <1>1
  <2>4. button = [active |-> FALSE, counter |-> 0, report |-> 0, mark |-> FALSE,
                  polarity |-> IF mode.switch THEN ~pin ELSE TRUE,
                  down |-> DownCap, bounce |-> BounceCap, check |-> CheckCap]
    BY DEF Init
  <2> QED BY <2>1, <2>2, <2>3, <2>4 DEF Members
<1>3. TypeOK
  BY <1>1, <1>2 DEF Init, TypeOK, Members
<1> QED BY <1>1, <1>3 DEF Init, SwitchPredicted

LEMMA NextKeeps == TypeOK /\ SwitchPredicted /\ [Next]_vars => TypeOK' /\ SwitchPredicted'
<1> SUFFICES ASSUME TypeOK, SwitchPredicted, [Next]_vars
             PROVE  TypeOK' /\ SwitchPredicted'
  OBVIOUS
<1>0. button \in Members /\ mode \in Modes
  BY DEF TypeOK, Members
<1>1. CASE Loop
  BY <1>1, ConsumeKeeps DEF Loop
<1>2. CASE Check
  <2>1. button' \in Members /\ button'.polarity = button.polarity
    BY <1>0, <1>2, CheckedType DEF Check
  <2>2. cut' \subseteq Topics /\ wrapped' \subseteq Topics
    BY <1>2, EndingTopics DEF Check, TypeOK
  <2> QED BY <1>2, <2>1, <2>2 DEF Check, TypeOK, Members, SwitchPredicted
<1>3. CASE PortalPass
  BY <1>3, ConsumeKeeps DEF PortalPass
<1>4. CASE PortalEnd
  BY <1>4 DEF PortalEnd, TypeOK, SwitchPredicted
<1>5. CASE Publish
  <2>1. button' \in Members /\ button'.polarity = button.polarity
    BY <1>0, <1>5 DEF Publish, Members
  <2>2. told' \subseteq Topics /\ cut' \subseteq Topics /\ wrapped' \subseteq Topics
    BY <1>5 DEF Publish, Told, TypeOK
  <2> QED BY <1>5, <2>1, <2>2 DEF Publish, TypeOK, Members, SwitchPredicted
<1>6. CASE PublishBreaks
  <2>1. told' \subseteq Topics
    BY <1>6 DEF PublishBreaks, Told, ToldInPart, TypeOK
  <2> QED BY <1>6, <2>1 DEF PublishBreaks, TypeOK, SwitchPredicted
<1>7. CASE Press
  BY <1>7 DEF Press, TypeOK, SwitchPredicted
<1>8. CASE Release
  BY <1>8 DEF Release, TypeOK, SwitchPredicted
<1>9. CASE Bounce
  BY <1>9 DEF Bounce, TypeOK, SwitchPredicted
<1>10. CASE Tick
  <2>1. ASSUME NEW cap \in Nat, NEW t \in 0..cap PROVE Later(t, cap) \in 0..cap
    BY DEF Later
  <2>2. button' \in Members /\ button'.polarity = button.polarity
    BY <1>0, <1>10, <2>1, HeldOnType, Caps DEF Tick, Members
  <2> QED BY <1>10, <2>2 DEF Tick, TypeOK, Members, SwitchPredicted
<1>11. CASE UNCHANGED vars
  BY <1>11 DEF vars, TypeOK, SwitchPredicted, Contact
<1>12. CASE PortalOpens
  BY <1>12 DEF PortalOpens, TypeOK, SwitchPredicted
<1>13. CASE PublishLost
  <2>1. button' \in Members /\ button'.polarity = button.polarity
    BY <1>0, <1>13 DEF PublishLost, Members
  <2>2. told' \subseteq Topics /\ cut' \subseteq Topics
    BY <1>13, EndingTopics DEF PublishLost, ToldInPart, TypeOK
  <2> QED BY <1>13, <2>1, <2>2 DEF PublishLost, TypeOK, Members, SwitchPredicted
<1> QED BY <1>1, <1>2, <1>3, <1>4, <1>5, <1>6, <1>7, <1>8, <1>9, <1>10, <1>11,
          <1>12, <1>13 DEF Next

\* The press counter and the report keep their 8 bits, for holds of any length,
\* and the topics are those of the button (consume_interrupt and loop of
\* cap_button.cpp).
THEOREM TypeCorrect == Spec => []TypeOK
<1> QED BY InitHolds, NextKeeps, PTL DEF Spec

\* A switch with ghost avoidance never predicts the level it has: however
\* often its contacts bounce, its reports are not inverted (m_polarity).
THEOREM SwitchIsPredicted == Spec => []SwitchPredicted
<1> QED BY InitHolds, NextKeeps, PTL DEF Spec

-----------------------------------------------------------------------------
(* What consume_interrupt() and the check change, member by member.        *)

LEMMA TouchedFields ==
    ASSUME NEW b \in Members
    PROVE  /\ Touched(b).bounce = 0
           /\ Touched(b).active = (b.active \/ ~mode.switch)
           /\ Touched(b).polarity = IF mode.switch THEN ~b.polarity ELSE b.polarity
           /\ Touched(b).check = b.check /\ Touched(b).down = b.down
           /\ Touched(b).report = b.report /\ Touched(b).mark = b.mark
BY DEF Touched, Members

LEMMA CountedFields ==
    ASSUME NEW b \in Members
    PROVE  /\ Counted(b).bounce = b.bounce /\ Counted(b).active = b.active
           /\ Counted(b).polarity = b.polarity
           /\ Counted(b).check = Interval - Fast /\ Counted(b).down = 0
           /\ Counted(b).mark = TRUE
           /\ ~mode.switch => Counted(b).report = 0
BY DEF Counted, Members

\* The three outcomes: nothing, a bounce, a press.
LEMMA ConsumedFields ==
    ASSUME NEW b \in Members, mode \in [switch : BOOLEAN, ghost : BOOLEAN]
    PROVE  /\ ~Contact(b) => Consumed(b) = b
           /\ Contact(b) =>
                 /\ Consumed(b).bounce = 0
                 /\ Consumed(b).active = (b.active \/ ~mode.switch)
                 /\ Consumed(b).polarity = IF mode.switch THEN ~b.polarity ELSE b.polarity
           /\ Contact(b) /\ ~Accepted(b) =>
                 /\ Consumed(b).check = b.check /\ Consumed(b).down = b.down
                 /\ Consumed(b).report = b.report /\ Consumed(b).mark = b.mark
           /\ Accepted(b) =>
                 /\ Contact(b)
                 /\ Consumed(b).check = Interval - Fast /\ Consumed(b).down = 0
                 /\ Consumed(b).mark = TRUE
                 /\ ~mode.switch => Consumed(b).report = 0
<1>1. Touched(b) \in Members
  BY Caps DEF Touched, Members
<1>2. ~Contact(b) => Consumed(b) = b /\ ~Accepted(b)
  BY DEF Consumed, Accepted
<1>3. Contact(b) /\ ~Accepted(b) => Consumed(b) = Touched(b)
  BY DEF Consumed
<1>4. Accepted(b) => Contact(b) /\ Consumed(b) = Counted(Touched(b))
  BY DEF Consumed, Accepted
<1>5. CASE ~Contact(b)
  BY <1>2, <1>5
<1>6. CASE Contact(b) /\ ~Accepted(b)
  BY <1>3, <1>6, TouchedFields
<1>7. CASE Accepted(b)
  <2> DEFINE t == Touched(b)
  <2>1. t \in Members /\ t.bounce = 0 /\ t.active = (b.active \/ ~mode.switch)
        /\ t.polarity = IF mode.switch THEN ~b.polarity ELSE b.polarity
    BY <1>1, TouchedFields
  <2>2. Contact(b) /\ Consumed(b) = Counted(t)
    BY <1>4, <1>7
  <2> HIDE DEF t
  <2> QED BY <1>7, <2>1, <2>2, CountedFields
<1> QED BY <1>5, <1>6, <1>7

\* The highest of the holds a button has been held for.
LEMMA LongestHeld ==
    ASSUME NEW b \in Members, HeldFor(b) # {}
    PROVE  /\ Longest(HeldFor(b)) \in 1..Holds
           /\ b.down > Longest(HeldFor(b)) * Long
<1>1. HeldFor(b) \subseteq 1..Holds
  BY DEF HeldFor
<1>2. \E i \in HeldFor(b) : \A j \in HeldFor(b) : j <= i
  BY <1>1, CountAssumption, HighestExists
<1>3. Longest(HeldFor(b)) \in HeldFor(b)
  BY <1>2 DEF Longest
<1> QED BY <1>3 DEF HeldFor

-----------------------------------------------------------------------------
(* Bounces are told from presses by time.  The argument for a push button  *)
(* that is held is the two timers: every check that finds it held sets the *)
(* time since the last contact back, and the next check comes soon; so the *)
(* time stays below the debounce time as long as checks are not missed.    *)

\* The contact is younger than the time since the next check was set, and
\* that check has not been missed.
Polled ==
    /\ button.bounce + (Interval - Fast) <= button.check
    /\ looped => button.check <= Interval

BounceInv ==
    /\ phase \in {"portal", "away"} => late
    /\ mode.switch /\ mode.ghost /\ ~pressed => pin # button.polarity
    /\ ~mode.switch => button.polarity = TRUE
    /\ ~mode.ghost /\ flag /\ ~late /\ ~pressed => button.bounce <= Debounce
    /\ ~mode.switch /\ pin /\ ~late /\ ~pressed => Polled

\* Polled in time, the last contact is within the debounce time.
LEMMA PolledIsBounce ==
    ASSUME TypeOK, Polled
    PROVE  button.bounce <= Debounce
BY TimeAssumption, Caps DEF TypeOK, Polled, CheckCap, BounceCap

LEMMA BounceInit == Init => BounceInv
<1> SUFFICES ASSUME Init PROVE BounceInv
  OBVIOUS
<1>1. mode \in [switch : BOOLEAN, ghost : BOOLEAN] /\ pin \in BOOLEAN
  BY ModeAssumption DEF Init
<1> QED BY <1>1 DEF Init, BounceInv

LEMMA BounceConsume ==
    ASSUME TypeOK, BounceInv, NEW next \in {"check", "portal", "away"}, Consume(next)
    PROVE  BounceInv'
<1> USE DEF BounceInv
<1>1. button \in Members /\ mode \in [switch : BOOLEAN, ghost : BOOLEAN]
  BY ModeAssumption DEF TypeOK, Members
<1>2. /\ button' = Consumed(button) /\ phase' = next /\ ~flag'
      /\ late' = (next \in {"portal", "away"} \/ (late /\ (pin \/ flag \/ button.bounce <= Debounce)))
      /\ pressed' = (pressed /\ ~Accepted(button))
      /\ UNCHANGED <<mode, pin, looped>>
  BY DEF Consume
<1>3. pin \in BOOLEAN /\ button.polarity \in BOOLEAN /\ late \in BOOLEAN
  BY DEF TypeOK
<1>4. mode.switch /\ mode.ghost /\ ~pressed' => pin' # button'.polarity
  BY <1>1, <1>2, <1>3, ConsumedFields DEF Contact, Accepted, AtPolarity
<1>5. ~mode.switch => button'.polarity = TRUE
  BY <1>1, <1>2, <1>3, ConsumedFields
<1>6. ASSUME ~mode.switch, pin, ~late', ~pressed' PROVE Polled'
  <2>1. ~late
    BY <1>2, <1>6
  <2>2. CASE Accepted(button)
    <3>1. button'.bounce = 0 /\ button'.check = Interval - Fast
      BY <1>1, <1>2, <2>2, ConsumedFields
    <3> QED BY <3>1, TimeAssumption DEF Polled
  <2>3. CASE ~Accepted(button)
    <3>1. Polled
      BY <1>2, <1>6, <2>1, <2>3
    <3>2. button'.check = button.check /\ button'.bounce \in {0, button.bounce}
      BY <1>1, <1>2, <2>3, ConsumedFields
    <3> QED BY <1>1, <1>2, <3>1, <3>2, TimeAssumption, Caps DEF Polled, Members
  <2> QED BY <2>2, <2>3
<1> QED BY <1>2, <1>4, <1>5, <1>6

LEMMA BounceStep == TypeOK /\ BounceInv /\ [Next]_vars => BounceInv'
<1> SUFFICES ASSUME TypeOK, BounceInv, [Next]_vars PROVE BounceInv'
  OBVIOUS
<1>0. button \in Members /\ mode \in [switch : BOOLEAN, ghost : BOOLEAN]
  BY ModeAssumption DEF TypeOK, Members
<1> USE DEF BounceInv
<1>1. CASE Loop
  BY <1>1, BounceConsume DEF Loop
<1>2. CASE Check
  <2>1. button' = Checked(button) /\ looped' /\ phase' = "loop"
        /\ UNCHANGED <<mode, pin, flag, late, pressed>>
    BY <1>2 DEF Check
  <2>2. button'.polarity = button.polarity
    BY <1>0, <2>1, CheckedType
  <2>3. button'.bounce \in {0, button.bounce}
    BY <1>0, <2>1 DEF Checked, StillHeld, Released, Members
  <2>4. ~mode.ghost /\ flag' /\ ~late' /\ ~pressed' => button'.bounce <= Debounce
    BY <1>0, <2>1, <2>3, TimeAssumption, Caps DEF Members
  <2>5. ASSUME ~mode.switch, pin, ~late, ~pressed PROVE Polled'
    <3>1. Polled /\ AtPolarity(button)
      BY <2>5 DEF AtPolarity
    <3>2. CASE button.check <= Interval
      <4>1. button' = button
        BY <2>1, <3>2 DEF Checked
      <4> QED BY <3>1, <3>2, <4>1, <2>1 DEF Polled
    <3>3. CASE ~(button.check <= Interval)
      <4>1. button' = StillHeld(button)
        BY <2>1, <2>5, <3>1, <3>3 DEF Checked
      <4>2. button'.bounce = 0 /\ button'.check = Interval - Fast
        BY <1>0, <4>1 DEF StillHeld, Members
      <4> QED BY <4>2, TimeAssumption DEF Polled
    <3> QED BY <3>2, <3>3
  <2> QED BY <2>1, <2>2, <2>4, <2>5
<1>3. CASE PortalPass
  BY <1>3, BounceConsume DEF PortalPass
<1>4. CASE PortalEnd
  BY <1>4 DEF PortalEnd, Polled
<1>5. CASE Publish
  <2>1. button'.bounce = button.bounce /\ button'.check = button.check
        /\ button'.polarity = button.polarity
    BY <1>0, <1>5 DEF Publish, Members
  <2> QED BY <1>5, <2>1 DEF Publish, Polled
<1>6. CASE PublishBreaks
  BY <1>6 DEF PublishBreaks, Polled
<1>7. CASE Press
  BY <1>7 DEF Press
<1>8. CASE Release
  <2>1. CASE mode.switch
    BY <1>8, <2>1 DEF Release
  <2>2. CASE ~mode.switch
    <3>1. ~late /\ ~pressed => button.bounce <= Debounce
      BY <1>8, <2>2, PolledIsBounce DEF Release
    <3> QED BY <1>8, <2>2, <3>1 DEF Release
  <2> QED BY <2>1, <2>2
<1>9. CASE Bounce
  BY <1>9, TimeAssumption DEF Bounce, Polled
<1>10. CASE Tick
  <2>1. button'.polarity = button.polarity
        /\ button'.bounce = Later(button.bounce, BounceCap)
        /\ button'.check = Later(button.check, CheckCap)
    BY <1>0, <1>10 DEF Tick, Members
  <2>2. ~late' => ~late /\ looped /\ ~flag
    BY <1>10 DEF Tick, TypeOK
  <2>3. Polled /\ looped => Polled'
    BY <1>0, <1>10, <2>1, Caps, TimeAssumption DEF Tick, Polled, Later, Members, CheckCap
  <2> QED BY <1>10, <2>1, <2>2, <2>3 DEF Tick
<1>11. CASE UNCHANGED vars
  BY <1>11 DEF vars, Polled
<1>12. CASE PortalOpens
  BY <1>12 DEF PortalOpens
<1>13. CASE PublishLost
  <2>1. button'.bounce = button.bounce /\ button'.check = button.check
        /\ button'.polarity = button.polarity
    BY <1>0, <1>13 DEF PublishLost, Members
  <2> QED BY <1>13, <2>1 DEF PublishLost, Polled
<1> QED BY <1>1, <1>2, <1>3, <1>4, <1>5, <1>6, <1>7, <1>8, <1>9, <1>10, <1>11,
          <1>12, <1>13 DEF Next

LEMMA BounceIsNoPress == TypeOK /\ BounceInv => BouncesIgnored
<1> SUFFICES ASSUME TypeOK, BounceInv, Accepted(button), ~late, ~pressed PROVE FALSE
  BY DEF BouncesIgnored
<1>0. /\ flag /\ (mode.ghost => pin = button.polarity) /\ button.bounce > Debounce
      /\ button.bounce \in Nat /\ Debounce \in Nat
      /\ mode \in [switch : BOOLEAN, ghost : BOOLEAN]
  BY ModeAssumption, TimeAssumption, Caps DEF Accepted, Contact, AtPolarity, TypeOK
<1>1. CASE ~mode.ghost
  BY <1>0, <1>1 DEF BounceInv
<1>2. CASE mode.ghost /\ mode.switch
  BY <1>0, <1>2 DEF BounceInv
<1>3. CASE mode.ghost /\ ~mode.switch
  <2>1. Polled
    BY <1>0, <1>3 DEF BounceInv, TypeOK
  <2> QED BY <1>0, <2>1, PolledIsBounce
<1> QED BY <1>0, <1>1, <1>2, <1>3

\* A button that is polled in time never counts a bounce or a peak as a press,
\* for every choice of the times in which the checks come sooner than the
\* debounce time (BUTTON_DEBOUNCE, BUTTON_FAST_CHECK_INTERVALL).
THEOREM BouncesAreIgnored == Spec => []BouncesIgnored
<1> QED BY InitHolds, NextKeeps, BounceInit, BounceStep, BounceIsNoPress, PTL DEF Spec

-----------------------------------------------------------------------------
(* The topics of a push button that are ON, or will be with the next       *)
(* report, and that no report is going to switch off: only while the       *)
(* button is active, for no longer hold than it will report when released, *)
(* and with a check ahead of the next press.  What is cut or wrapped is    *)
(* not counted.                                                            *)

Due == told \cup (IF button.mark /\ button.report \in Topics THEN {button.report}
                  ELSE {})
Open == Due \ (Ending(button) \cup cut \cup wrapped)

\* The same as the first half of Polled, when the check may be overdue.
InStep == button.check = CheckCap \/ button.bounce + (Interval - Fast) <= button.check

HoldInv ==
    ~mode.switch =>
       /\ pin /\ ~button.active => flag
       /\ Open # {} =>
             /\ button.active \/ (flag /\ ~mode.ghost /\ phase \in {"loop", "away"})
             /\ InStep
             /\ phase = "loop" /\ ~late => Polled
       /\ \A t \in Open : t * Long <= button.down

\* A release whose report fits ends every topic of a hold that is not longer
\* than the press.
LEMMA ReleaseEnds ==
    ASSUME NEW b \in Members, NEW t \in Topics, t * Long <= b.down, Lasted(b) < Wide
    PROVE  t \in Ending(Released(b))
<1> DEFINE q == b.down \div Long
<1>1. /\ q \in Int /\ Long \in Nat \ {0} /\ b.down \in Nat /\ t \in Nat
      /\ b.down < Long * q + Long
  <2>1. /\ Long \in Nat \ {0} /\ b.down \in Nat /\ t \in Nat
    BY TimeAssumption, CountAssumption, Caps DEF Members, Topics
  <2> QED BY <2>1
<1>2. Released(b).mark = TRUE /\ Released(b).report = Offset + q
  <2>1. Lasted(b) = Offset + q
    BY DEF Lasted
  <2>2. Lasted(b) \in Nat
    BY <1>1, <2>1, DivType, CountAssumption
  <2>3. \A x, w \in Nat : x < w => x % w = x
    OBVIOUS
  <2>4. Lasted(b) % Wide = Offset + q
    BY <2>1, <2>2, <2>3, CountAssumption
  <2> QED BY <2>4 DEF Released, Members
<1> HIDE DEF q
<1>3. t * Long < Long * (q + 1)
  <2>1. Long * (q + 1) = Long * q + Long
    BY <1>1
  <2>2. t * Long \in Nat
    BY <1>1
  <2> QED BY <1>1, <2>1, <2>2
<1>4. t <= q
  <2>1. t * Long = Long * t
    BY <1>1
  <2>2. t < q + 1
    BY <1>1, <1>3, <2>1
  <2> QED BY <1>1, <2>2
<1>5. Offset \in Nat
  BY CountAssumption
<1> QED BY <1>1, <1>2, <1>4, <1>5 DEF Ending

\* Nothing ends with a report that switches a topic on.
LEMMA OnEndsNothing ==
    ASSUME NEW b, b.report \in Topics
    PROVE  Ending(b) = {}
<1>1. ASSUME NEW t \in Topics PROVE ~(Offset + t <= b.report)
  BY CountAssumption DEF Topics
<1> QED BY <1>1 DEF Ending

LEMMA HoldInit == Init => HoldInv
<1> SUFFICES ASSUME Init PROVE HoldInv
  OBVIOUS
<1>1. Open = {}
  BY DEF Init, Open, Due
<1> QED BY <1>1 DEF Init, HoldInv

\* A press that comes when it is due leaves nothing open: what was on was ended
\* by the last release, or checks were missed.
LEMMA HoldConsume ==
    ASSUME TypeOK, BounceInv, HoldInv, NEW next \in {"check", "portal", "away"}, Consume(next),
           phase \in {"loop", "portal", "away"}
    PROVE  HoldInv'
<1> SUFFICES ASSUME ~mode.switch PROVE HoldInv'
  BY DEF HoldInv, Consume
<1>1. button \in Members /\ mode \in [switch : BOOLEAN, ghost : BOOLEAN]
  BY ModeAssumption DEF TypeOK, Members
<1>2. /\ button' = Consumed(button) /\ phase' = next /\ ~flag'
      /\ cut' = cut \cup (Ending(button) \ Ending(button'))
                    \cup (IF Accepted(button) /\ late THEN told ELSE {})
      /\ wrapped' = wrapped
      /\ late' = (next \in {"portal", "away"} \/ (late /\ (pin \/ flag \/ button.bounce <= Debounce)))
      /\ UNCHANGED <<mode, pin, told, looped>>
  BY DEF Consume
<1>3. button.polarity = TRUE /\ button.active \in BOOLEAN /\ pin \in BOOLEAN
  BY DEF BounceInv, TypeOK
<1>4. pin' /\ ~button'.active => flag'
  BY <1>1, <1>2, <1>3, ConsumedFields DEF HoldInv, Contact, AtPolarity
<1>5. next \in {"portal", "away"} => late'
  BY <1>2
<1>6. CASE ~Contact(button)
  <2>1. button' = button /\ Open' = Open
    BY <1>1, <1>2, <1>6, ConsumedFields DEF Open, Due, Accepted
  <2>2. ~(flag /\ ~mode.ghost)
    BY <1>6 DEF Contact
  <2> QED BY <1>2, <1>4, <1>5, <2>1, <2>2 DEF HoldInv, InStep
<1>7. CASE Contact(button) /\ ~Accepted(button)
  <2>1. /\ button'.bounce = 0 /\ button'.active = TRUE
        /\ button'.check = button.check /\ button'.down = button.down
        /\ button'.report = button.report /\ button'.mark = button.mark
    BY <1>1, <1>2, <1>7, ConsumedFields
  <2>2. Open' = Open
    BY <1>2, <1>7, <2>1 DEF Open, Due, Ending
  <2>3. InStep => InStep'
    BY <1>1, <2>1, TimeAssumption, Caps DEF InStep, Members
  <2> QED BY <1>2, <1>5, <2>1, <2>2, <2>3 DEF HoldInv
<1>8. CASE Accepted(button)
  <2>1. /\ button'.bounce = 0 /\ button'.active = TRUE
        /\ button'.check = Interval - Fast /\ button'.down = 0
        /\ button'.report = 0 /\ button'.mark = TRUE
    BY <1>1, <1>2, <1>8, ConsumedFields
  <2>2. ASSUME NEW t \in told PROVE t \in cut' \cup wrapped'
    <3>1. CASE late
      BY <1>2, <1>8, <3>1
    <3>2. CASE ~late
      <4>1. phase = "loop"
        BY <3>2 DEF BounceInv
      <4>2. Open = {}
        <5>1. button.bounce > Debounce
          BY <1>8 DEF Accepted
        <5>2. Open # {} => button.bounce <= Debounce
          BY <3>2, <4>1, PolledIsBounce DEF HoldInv
        <5> QED BY <1>1, <5>1, <5>2, TimeAssumption, Caps DEF Members
      <4>3. t \in Ending(button) \cup cut \cup wrapped
        BY <4>2 DEF Open, Due
      <4>4. Ending(button') = {}
        BY <2>1, Caps, OnEndsNothing
      <4> QED BY <1>2, <4>3, <4>4
    <3> QED BY <3>1, <3>2
  <2>3. Open' \subseteq {0}
    BY <1>2, <2>1, <2>2 DEF Open, Due
  <2>4. 0 * Long <= button'.down
    BY <2>1, TimeAssumption
  <2>5. InStep'
    BY <2>1, TimeAssumption DEF InStep
  <2> QED BY <1>2, <1>5, <2>1, <2>3, <2>4, <2>5 DEF HoldInv
<1> QED BY <1>6, <1>7, <1>8

\* A check that finds the button held may open a topic, one that finds it
\* released ends them all.
LEMMA HoldCheck ==
    ASSUME TypeOK, BounceInv, HoldInv, Check
    PROVE  HoldInv'
<1> SUFFICES ASSUME ~mode.switch PROVE HoldInv'
  BY DEF HoldInv, Check
<1>1. button \in Members /\ button.polarity = TRUE /\ button.active \in BOOLEAN
      /\ pin \in BOOLEAN /\ phase = "check"
  BY DEF TypeOK, Members, BounceInv, Check
<1>2. /\ button' = Checked(button) /\ looped' /\ phase' = "loop"
      /\ cut' = cut \cup (Ending(button) \ Ending(button'))
                    \cup (IF mode.ghost /\ flag /\ ~button.active
                          THEN {button'.report} \cap Topics ELSE {})
      /\ ~(button.active /\ ~button'.active) => wrapped' = wrapped
      /\ button.active /\ ~button'.active /\ Lasted(button) < Wide => wrapped' = wrapped
      /\ button.active /\ ~button'.active /\ Lasted(button) >= Wide =>
            wrapped' = (told \cup wrapped \cup ({button'.report} \cap Topics))
                          \ Ending(button')
      /\ UNCHANGED <<mode, pin, flag, told, late>>
  <2>1. Lasted(button) \in Nat /\ Wide \in Nat
    BY <1>1, DivType, TimeAssumption, CountAssumption, Caps DEF Lasted, Members
  <2> QED BY <2>1 DEF Check
<1>3. Open # {} => button.active /\ InStep
  BY <1>1 DEF HoldInv
<1>4. CASE button.check <= Interval
  <2>1. button' = button /\ Open' \subseteq Open
    <3>1. button' = button
      BY <1>2, <1>4 DEF Checked
    <3> QED BY <1>2, <3>1 DEF Open, Due
  <2>2. InStep => Polled'
    BY <1>1, <1>2, <1>4, <2>1, TimeAssumption DEF InStep, Polled, CheckCap
  <2> QED BY <1>2, <1>3, <2>1, <2>2 DEF HoldInv, InStep
<1>5. CASE ~(button.check <= Interval) /\ pin
  <2>1. button' = StillHeld(button)
    BY <1>1, <1>2, <1>5 DEF Checked, AtPolarity
  <2> DEFINE new == HeldFor(button) # {} /\ button.report # Longest(HeldFor(button))
  <2>2. /\ button'.active = button.active /\ button'.down = button.down
        /\ button'.bounce = 0 /\ button'.check = Interval - Fast
        /\ new => button'.report = Longest(HeldFor(button)) /\ button'.mark = TRUE
        /\ ~new => button'.report = button.report /\ button'.mark = button.mark
    BY <1>1, <2>1 DEF StillHeld, Members
  <2>3. InStep' /\ Polled' /\ wrapped' = wrapped
    BY <1>2, <2>2, TimeAssumption DEF InStep, Polled
  <2>4. ASSUME NEW t \in Open'
        PROVE  t \in Open \/ (/\ t = button'.report /\ t * Long <= button.down
                              /\ t \in Topics)
    <3>1. CASE t \in Open
      BY <3>1
    <3>2. CASE t \notin Open
      <4>1. CASE new
        <5>1. button'.report \in 1..Holds /\ button.down > button'.report * Long
          BY <1>1, <2>2, <4>1, LongestHeld
        <5>2. button'.report \in Topics
          BY <5>1, CountAssumption DEF Topics
        <5>3. Ending(button') = {}
          BY <5>2, OnEndsNothing
        <5>4. t \notin cut /\ t \notin Ending(button) /\ t \notin wrapped
          BY <1>2, <2>3, <5>3 DEF Open
        <5>5. t = button'.report
          BY <1>2, <3>2, <5>4 DEF Open, Due
        <5>6. button'.report * Long \in Nat /\ button.down \in Nat
          BY <1>1, <5>1, TimeAssumption, Caps DEF Members
        <5> QED BY <5>1, <5>2, <5>5, <5>6
      <4>2. CASE ~new
        <5>1. Ending(button') = Ending(button) /\ Due' = Due
          BY <1>2, <2>2, <4>2 DEF Ending, Due
        <5> QED BY <1>2, <2>3, <3>2, <5>1 DEF Open
      <4> QED BY <4>1, <4>2
    <3> QED BY <3>1, <3>2
  <2>5. Open' # {} => button.active \/ (flag /\ ~mode.ghost)
    <3>1. ASSUME ~button.active, NEW t \in Open' PROVE flag /\ ~mode.ghost
      <4>1. Open = {} /\ flag
        BY <1>3, <1>5, <3>1 DEF HoldInv
      <4>2. t = button'.report /\ t \in Topics
        BY <2>4, <4>1
      <4>3. mode.ghost => t \in cut'
        BY <1>2, <3>1, <4>1, <4>2
      <4> QED BY <4>1, <4>3 DEF Open
    <3> QED BY <1>1, <3>1
  <2>6. \A t \in Open' : t * Long <= button'.down
    BY <2>2, <2>4 DEF HoldInv
  <2>7. pin' /\ ~button'.active => flag'
    BY <1>2, <2>2 DEF HoldInv
  <2> QED BY <1>2, <2>2, <2>3, <2>5, <2>6, <2>7 DEF HoldInv
<1>6. CASE ~(button.check <= Interval) /\ ~pin
  <2>1. CASE button.active
    <3>1. button' = Released(button)
      BY <1>1, <1>2, <1>6, <2>1 DEF Checked, AtPolarity
    <3>2. button'.active = FALSE /\ button'.mark = TRUE
          /\ button'.report = Lasted(button) % Wide
      BY <1>1, <3>1 DEF Released, Members
    <3>3. Lasted(button) \in Nat /\ Wide \in Nat /\ Offset <= Lasted(button)
      <4> DEFINE q == button.down \div Long
      <4>1. q \in Nat /\ Lasted(button) = Offset + q
        BY <1>1, DivType, TimeAssumption, Caps DEF Lasted, Members
      <4> HIDE DEF q
      <4> QED BY <4>1, CountAssumption
    <3>4. CASE Lasted(button) >= Wide
      <4>1. wrapped' = (told \cup wrapped \cup ({button'.report} \cap Topics))
                          \ Ending(button')
        BY <1>2, <2>1, <3>2, <3>4
      <4>2. Open' = {}
        BY <1>2, <4>1 DEF Open, Due
      <4> QED BY <1>2, <1>6, <4>2 DEF HoldInv
    <3>5. CASE Lasted(button) < Wide
      <4>1. wrapped' = wrapped
        BY <1>2, <2>1, <3>2, <3>5
      <4>2. button'.report \notin Topics
        <5>1. \A x, w \in Nat : x < w => x % w = x
          OBVIOUS
        <5>2. button'.report = Lasted(button)
          BY <3>2, <3>3, <3>5, <5>1
        <5> QED BY <3>3, <5>2, CountAssumption DEF Topics
      <4>3. ASSUME NEW t \in told PROVE t \in Ending(button') \cup cut' \cup wrapped'
        <5>1. CASE t \in Open
          <6>1. t \in Topics
            BY DEF TypeOK
          <6> QED BY <1>1, <3>1, <3>5, <5>1, <6>1, ReleaseEnds DEF HoldInv
        <5>2. CASE t \notin Open
          <6>1. t \in Ending(button) \cup cut \cup wrapped
            BY <5>2 DEF Open, Due
          <6> QED BY <1>2, <4>1, <6>1
        <5> QED BY <5>1, <5>2
      <4>4. Open' = {}
        BY <1>2, <4>2, <4>3 DEF Open, Due
      <4> QED BY <1>2, <1>6, <4>4 DEF HoldInv
    <3> QED BY <3>3, <3>4, <3>5
  <2>2. CASE ~button.active
    <3>1. button' = [button EXCEPT !.check = 0]
      BY <1>1, <1>2, <1>6, <2>2 DEF Checked, AtPolarity
    <3>2. button'.report = button.report /\ button'.mark = button.mark
      BY <1>1, <3>1 DEF Members
    <3>3. Open' \subseteq Open
      BY <1>2, <2>2, <3>2 DEF Open, Due, Ending
    <3> QED BY <1>2, <1>3, <1>6, <2>2, <3>3 DEF HoldInv
  <2> QED BY <1>1, <2>1, <2>2
<1> QED BY <1>4, <1>5, <1>6

LEMMA HoldStep == TypeOK /\ BounceInv /\ HoldInv /\ [Next]_vars => HoldInv'
<1> SUFFICES ASSUME TypeOK, BounceInv, HoldInv, [Next]_vars PROVE HoldInv'
  OBVIOUS
<1>0. button \in Members
  BY DEF TypeOK, Members
<1>1. CASE Loop
  BY <1>1, HoldConsume DEF Loop
<1>2. CASE Check
  BY <1>2, HoldCheck
<1>3. CASE PortalPass
  BY <1>3, HoldConsume DEF PortalPass
<1>4. CASE PortalEnd
  <2>1. Open' = Open
    BY <1>4 DEF PortalEnd, Open, Due, Ending
  <2>2. late' /\ button' = button
    BY <1>4 DEF PortalEnd, BounceInv
  <2> QED BY <1>4, <2>1, <2>2 DEF PortalEnd, HoldInv, InStep
<1>5. CASE Publish
  <2>1. /\ button'.mark = FALSE /\ button'.active = button.active
        /\ button'.bounce = button.bounce /\ button'.check = button.check
        /\ button'.down = button.down
    BY <1>0, <1>5 DEF Publish, Members
  <2>2. /\ Due' = told' /\ Ending(button') = {} /\ told' = Told
        /\ cut' = cut \ Ending(button) /\ wrapped' = wrapped \ Ending(button)
    BY <1>5, <2>1 DEF Publish, Due, Ending
  <2>3. Open' \subseteq Open
    <3>1. CASE button.report \in Topics
      <4>1. Ending(button) = {}
        BY <3>1, OnEndsNothing
      <4> QED BY <1>5, <2>2, <3>1, <4>1 DEF Publish, Open, Due, Told
    <3>2. CASE button.report \notin Topics
      BY <2>2, <3>2 DEF Open, Due, Told
    <3> QED BY <3>1, <3>2
  <2> QED BY <1>5, <2>1, <2>3 DEF Publish, HoldInv, InStep, Polled
<1>6. CASE PublishBreaks
  <2>1. told' \subseteq Due
    BY <1>6 DEF PublishBreaks, Told, ToldInPart, Due
  <2>2. Open' \subseteq Open
    BY <1>6, <2>1 DEF PublishBreaks, Open, Due
  <2> QED BY <1>6, <2>2 DEF PublishBreaks, HoldInv, InStep, Polled
<1>7. CASE Press
  <2>1. Open' = Open
    BY <1>7 DEF Press, Open, Due, Ending
  <2> QED BY <1>7, <2>1 DEF Press, HoldInv, InStep, Polled
<1>8. CASE Release
  <2>1. Open' = Open
    BY <1>8 DEF Release, Open, Due, Ending
  <2> QED BY <1>8, <2>1 DEF Release, HoldInv, InStep, Polled
<1>9. CASE Bounce
  <2>1. Open' = Open
    BY <1>9 DEF Bounce, Open, Due, Ending
  <2> QED BY <1>9, <2>1 DEF Bounce, HoldInv, InStep, Polled
<1>10. CASE Tick
  <2>1. /\ button'.mark = button.mark /\ button'.active = button.active
        /\ button'.report = button.report
        /\ button'.bounce = Later(button.bounce, BounceCap)
        /\ button'.check = Later(button.check, CheckCap)
        /\ button'.down = HeldOn(button.down)
    BY <1>0, <1>10 DEF Tick, Members
  <2>2. Open' = Open
    BY <1>10, <2>1 DEF Tick, Open, Due, Ending
  <2>3. InStep => InStep'
    BY <1>0, <2>1, Caps, TimeAssumption DEF InStep, Later, Members
  <2>4. ~late' => ~late /\ looped
    BY <1>10 DEF Tick, TypeOK
  <2>5. Polled /\ looped => Polled'
    BY <1>0, <1>10, <2>1, Caps, TimeAssumption DEF Tick, Polled, Later, Members, CheckCap
  <2>6. ASSUME NEW t \in Topics, t * Long <= button.down PROVE t * Long <= button'.down
    <3>1. t * Long \in Nat /\ t * Long <= Holds * Long
      <4>1. \A a, b, c \in Nat : a <= b => a * c \in Nat /\ a * c <= b * c
        OBVIOUS
      <4> QED BY <4>1, TimeAssumption, CountAssumption DEF Topics
    <3>2. button.down \in 0..DownCap
      BY <1>0 DEF Members
    <3>3. /\ HeldOn(button.down) \in 0..DownCap
          /\ HeldOn(button.down) = button.down + 1 \/ Holds * Long <= HeldOn(button.down)
      BY <3>2, HeldOnType
    <3> QED BY <2>1, <2>6, <3>1, <3>2, <3>3, Caps
  <2>7. Open \subseteq Topics
    BY DEF Open, Due, TypeOK
  <2> QED BY <1>10, <2>1, <2>2, <2>3, <2>4, <2>5, <2>6, <2>7 DEF Tick, HoldInv
<1>11. CASE UNCHANGED vars
  <2>1. Open' = Open
    BY <1>11 DEF vars, Open, Due, Ending
  <2> QED BY <1>11, <2>1 DEF vars, HoldInv, InStep, Polled
<1>12. CASE PortalOpens
  <2>1. Open' = Open
    BY <1>12 DEF PortalOpens, Open, Due, Ending
  <2> QED BY <1>12, <2>1 DEF PortalOpens, HoldInv, InStep
<1>13. CASE PublishLost
  <2>1. /\ button'.mark = FALSE /\ button'.active = button.active
        /\ button'.bounce = button.bounce /\ button'.check = button.check
        /\ button'.down = button.down
    BY <1>0, <1>13 DEF PublishLost, Members
  <2>2. /\ Due' = told' /\ Ending(button') = {} /\ told' \subseteq told
        /\ wrapped' = wrapped
        /\ cut' = (cut \ Ending(button)) \cup (Ending(button) \cap told')
    BY <1>13, <2>1 DEF PublishLost, ToldInPart, Due, Ending
  <2>3. Open' \subseteq Open
    BY <2>2 DEF Open, Due
  <2> QED BY <1>13, <2>1, <2>3 DEF PublishLost, HoldInv, InStep, Polled
<1> QED BY <1>1, <1>2, <1>3, <1>4, <1>5, <1>6, <1>7, <1>8, <1>9, <1>10, <1>11,
          <1>12, <1>13 DEF Next

\* However reports overwrite each other, and at whatever point they break off,
\* a push button that is released and reported leaves none of its hold topics
\* ON but those of a release that was overwritten or lost on a half-open link,
\* or whose report did not fit in 8 bits, for every choice of times and holds
\* (loop and publish of cap_button.cpp).
THEOREM AllHoldsEnd == Spec => []HoldsEnd
<1>1. HoldInv => HoldsEnd
  BY DEF HoldInv, HoldsEnd, Open, Due
<1> QED BY InitHolds, NextKeeps, BounceInit, BounceStep, HoldInit, HoldStep, <1>1, PTL DEF Spec
=============================================================================
