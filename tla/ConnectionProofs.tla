------------------------- MODULE ConnectionProofs --------------------------
(* When the device gives up retrying, for every choice of the windows, the *)
(* clocks and the caps: neither early nor late, as long as no clock has    *)
(* wrapped.                                                                *)
EXTENDS Connection, TLAPS

-----------------------------------------------------------------------------
(* Arithmetic of the two moduli.                                           *)

LEMMA ModRange == ASSUME NEW n \in Nat \ {0}, NEW x \in Int PROVE x % n \in 0..(n - 1)
  BY SMT
LEMMA ModSmall == ASSUME NEW n \in Nat \ {0}, NEW x \in 0..(n - 1) PROVE x % n = x
  BY SMT
LEMMA ModNegative ==
  ASSUME NEW n \in Nat \ {0}, NEW d \in 1..(n - 1) PROVE (-d) % n = n - d
  BY SMT
LEMMA ModLess ==
  ASSUME NEW n \in Nat \ {0}, NEW m \in Nat, NEW d \in 0..(m % n)
  PROVE  (m - d) % n = (m % n) - d
  BY SMT
LEMMA DivType == ASSUME NEW n \in Nat \ {0}, NEW x \in Nat PROVE x \div n \in Nat
  BY SMT
LEMMA DivLarge ==
  ASSUME NEW n \in Nat \ {0}, NEW x \in Nat, NEW k \in Nat, x >= n * k
  PROVE  x \div n >= k
  BY SMT

\* The window is always between its two limits.
LEMMA WindowRange ==
  ASSUME NEW c \in Nat PROVE Window(c) \in MinReconnect..MaxReconnect
<1>1. c \div Weight \in Nat
  BY DivType, WindowAssumption
<1> QED BY <1>1, WindowAssumption DEF Window, Higher, Lower

\* A long connection earns the full window.
LEMMA WindowFull ==
  ASSUME NEW c \in Nat, c >= Weight * (MaxReconnect - MinReconnect)
  PROVE  Window(c) = MaxReconnect
<1>1. MaxReconnect - MinReconnect \in Nat
  BY WindowAssumption
<1>2. c \div Weight \in Nat /\ c \div Weight >= MaxReconnect - MinReconnect
  BY <1>1, DivType, DivLarge, WindowAssumption
<1> QED BY <1>1, <1>2, WindowAssumption DEF Window, Higher, Lower

\* Capping the history does not change the window.
LEMMA WindowCapped ==
  ASSUME NEW c \in Nat PROVE Window(Lower(c, Cap)) = Window(c)
<1>1. CASE c < Cap
  BY <1>1 DEF Lower
<1>2. CASE ~(c < Cap)
  <2>1. Weight * (MaxReconnect - MinReconnect) \in Nat
    BY WindowAssumption
  <2>2. Lower(c, Cap) = Cap /\ c >= Cap
    BY <1>2, CapAssumption DEF Lower
  <2>3. /\ c >= Weight * (MaxReconnect - MinReconnect)
        /\ Cap >= Weight * (MaxReconnect - MinReconnect)
    BY <2>1, <2>2, CapAssumption
  <2> QED BY <2>2, <2>3, WindowFull, CapAssumption
<1> QED BY <1>1, <1>2

LEMMA ElapsedType ==
  ASSUME NEW from \in Nat, NEW to \in Nat PROVE Elapsed(from, to) \in Nat
<1>1. ClockMod \in Nat \ {0} /\ ShortMod \in Nat \ {0} /\ to - from \in Int
  BY ClockAssumption, RoundAssumption, WindowAssumption
<1> DEFINE d == (to - from) % ClockMod
<1>2. d \in Int
  BY <1>1, ModRange
<1>3. d % ShortMod \in Nat
  <2> HIDE DEF d
  <2> QED BY <1>1, <1>2, ModRange
<1> QED BY <1>3 DEF Elapsed

\* Two young timers in order: the difference is the time that has passed.
LEMMA ElapsedForward ==
  ASSUME NEW from \in Nat, NEW to \in Nat, from <= to, to < ShortMod
  PROVE  Elapsed(from, to) = to - from
<1>1. /\ to - from \in 0..(ClockMod - 1)
      /\ to - from \in 0..(ShortMod - 1)
      /\ ClockMod \in Nat \ {0} /\ ShortMod \in Nat \ {0}
  BY ClockAssumption, RoundAssumption
<1> QED BY <1>1, ModSmall DEF Elapsed

\* Two near timers in the wrong order look like a long connection.
LEMMA ElapsedBackward ==
  ASSUME NEW from \in Nat, NEW to \in Nat, to < from, from - to <= MaxReconnect
  PROVE  /\ Elapsed(from, to) \in Nat
         /\ Elapsed(from, to) >= Weight * (MaxReconnect - MinReconnect)
<1> DEFINE d == from - to
<1>1. /\ ClockMod \in Nat \ {0} /\ ShortMod \in Nat \ {0}
      /\ d \in 1..(ClockMod - 1)
  BY ClockAssumption, RoundAssumption, WindowAssumption
<1>2. Weight * (MaxReconnect - MinReconnect) \in Nat
  BY WindowAssumption
<1>3. ClockMod % ShortMod \in Nat
  BY <1>1, ModRange
<1>4. d \in 0..(ClockMod % ShortMod)
  BY <1>1, <1>2, <1>3, ClockAssumption, WindowAssumption
<1>5. (to - from) % ClockMod = ClockMod - d
  <2>1. to - from = -d
    OBVIOUS
  <2>2. (-d) % ClockMod = ClockMod - d
    BY <1>1, ModNegative
  <2> QED BY <2>1, <2>2
<1>6. (ClockMod - d) % ShortMod = (ClockMod % ShortMod) - d
  BY <1>1, <1>4, ModLess
<1>7. Elapsed(from, to) = (ClockMod % ShortMod) - d
  BY <1>5, <1>6 DEF Elapsed
<1> QED BY <1>1, <1>2, <1>3, <1>4, <1>7, ClockAssumption, WindowAssumption

-----------------------------------------------------------------------------
(* Types.                                                                  *)

LEMMA TypeInit == Init => TypeOK
BY ClockAssumption, CapAssumption, RoundAssumption, WindowAssumption
   DEF Init, Boot, TypeOK, Clock, Modes

LEMMA TypeReset == ASSUME TypeOK, Reset, programmed' \in BOOLEAN PROVE TypeOK'
BY ClockAssumption, CapAssumption, RoundAssumption, WindowAssumption
   DEF Reset, TypeOK, Clock, Modes

LEMMA OpenType ==
  ASSUME TypeOK, NEW kind \in Portals, Open(kind)
  PROVE  mode' \in Modes /\ deadline' \in Clock
<1>1. ClockMod \in Nat \ {0} /\ now + ApTime \in Int
  BY ClockAssumption, RoundAssumption DEF TypeOK, Clock
<1>2. (now + ApTime) % ClockMod \in Clock
  BY <1>1, ModRange DEF Clock
<1> QED BY <1>2 DEF Open, Modes

LEMMA TypeStep == TypeOK /\ [Next]_vars => TypeOK'
<1> SUFFICES ASSUME TypeOK, [Next]_vars PROVE TypeOK'
  OBVIOUS
<1> USE ClockAssumption, CapAssumption, RoundAssumption, WindowAssumption
<1>1. CASE PowerCycle
  BY <1>1, TypeReset DEF PowerCycle, TypeOK
<1>2. CASE NetChange
  BY <1>2 DEF NetChange, TypeOK, clocks
<1>3. CASE Pass
  <2>1. now' \in Clock
    <3>1. ClockMod \in Nat \ {0} /\ now + 1 \in Int
      BY DEF TypeOK, Clock
    <3> QED BY <3>1, <1>3, ModRange DEF Pass, Clock
  <2>2. since' \in 0..Cap /\ span' \in 0..Cap /\ age' \in 0..ShortMod
    BY <1>3 DEF Pass, TypeOK, Lower
  <2>3. round' \in 0..MaxRound
    BY <1>3 DEF Pass, TypeOK
  <2> QED BY <1>3, <2>1, <2>2, <2>3 DEF Pass, TypeOK, clocks, world
<1>4. CASE Drop
  BY <1>4 DEF Drop, Begin, TypeOK, world, Modes
<1>5. CASE Connect
  BY <1>5 DEF Connect, TypeOK, world, Modes
<1>6. CASE Fail
  BY <1>6, OpenType DEF Fail, NextRound, TypeOK, world, Portals
<1>7. CASE Flap
  BY <1>7, OpenType DEF Flap, TypeOK, world, Portals
<1>8. CASE OpenUnset
  BY <1>8, OpenType DEF OpenUnset, TypeOK, world, Portals
<1>9. CASE OpenByCommand
  BY <1>9, OpenType DEF OpenByCommand, TypeOK, world, Portals
<1>10. CASE Close
  BY <1>10 DEF Close, ClosePortal, Begin, TypeOK, world, Modes
<1>11. CASE Save
  BY <1>11, TypeReset DEF Save, TypeOK
<1>12. CASE SaveUnreachable
  BY <1>12 DEF SaveUnreachable, clocks, TypeOK
<1>13. CASE UNCHANGED vars
  BY <1>13 DEF vars, clocks, world, TypeOK
<1> QED BY <1>1, <1>2, <1>3, <1>4, <1>5, <1>6, <1>7, <1>8, <1>9, <1>10,
           <1>11, <1>12, <1>13 DEF Next

\* Every variable keeps its type, in particular the timers their range.
THEOREM TypeCorrect == Spec => []TypeOK
<1> QED BY TypeInit, TypeStep, PTL DEF Spec
-----------------------------------------------------------------------------
(* The inductive invariant.  As long as no clock has wrapped, since and    *)
(* span are what the two timers say, with one exception: a connection that *)
(* is lost inside its round leaves stop behind start, by at most one       *)
(* window, and relationship_timeout then grants the full window.           *)

Young == age < ShortMod

ConnectedInv ==
    mode \in {"running", "setup"} => stop < start /\ span = Lower(now - start, Cap)

SinceInv ==
    /\ mode \in {"trying", "unset"} => since = Lower(now - stop, Cap)
    /\ mode = "trying" => stop + round <= now
    /\ mode = "unset" => stop < deadline

SpanInv ==
    mode \in {"trying", "unset"} =>
        \/ start <= stop /\ span = Lower(stop - start, Cap)
        \/ stop < start /\ start - stop <= MaxReconnect

RoundInv ==
    start <= stop =>
        /\ mode = "trying" =>
              since <= Window(span) + (IF round = 0 THEN 0 ELSE ApTime + round)
        /\ mode = "unset" =>
              /\ round = 0
              /\ now <= deadline
              /\ since + (deadline - now) <= Window(span) + ApTime

YoungInv ==
    Young => /\ now = age
             /\ start <= now /\ stop <= now
             /\ ConnectedInv /\ SinceInv /\ SpanInv /\ RoundInv
             /\ GivesUpLate

Inv == TypeOK /\ YoungInv
LEMMA LowerType == ASSUME NEW a \in Nat PROVE Lower(a, Cap) \in 0..Cap
  BY CapAssumption DEF Lower

\* The test of a failed round: it is right when the timers are in order, and
\* compares with the full window when they are not.
LEMMA FailStep ==
  ASSUME Inv, Young, mode = "trying"
  PROVE  /\ Timeout => since > Window(span)
         /\ ~Timeout /\ start <= stop => since <= Window(span)
<1> USE ClockAssumption, CapAssumption, RoundAssumption, WindowAssumption
<1>1. /\ now \in Nat /\ start \in Nat /\ stop \in Nat /\ span \in Nat
      /\ start <= now /\ stop <= now /\ now < ShortMod
      /\ since = Lower(now - stop, Cap)
  BY DEF Inv, TypeOK, YoungInv, Young, SinceInv, Clock
<1>2. Elapsed(stop, now) = now - stop
  BY <1>1, ElapsedForward
<1>3. Window(span) \in MinReconnect..MaxReconnect
  BY <1>1, WindowRange
<1>4. CASE start <= stop
  <2>1. span = Lower(stop - start, Cap) /\ stop - start \in Nat
    BY <1>1, <1>4 DEF Inv, YoungInv, SpanInv
  <2>2. Elapsed(start, stop) = stop - start
    BY <1>1, <1>4, ElapsedForward
  <2>3. Window(Elapsed(start, stop)) = Window(span)
    BY <2>1, <2>2, WindowCapped
  <2>4. Timeout <=> now - stop > Window(span)
    BY <1>2, <2>3 DEF Timeout
  <2> QED BY <1>1, <1>3, <2>4 DEF Lower
<1>5. CASE ~(start <= stop)
  <2>1. stop < start /\ start - stop <= MaxReconnect
    BY <1>1, <1>5 DEF Inv, YoungInv, SpanInv
  <2>2. Window(Elapsed(start, stop)) = MaxReconnect
    BY <1>1, <2>1, ElapsedBackward, WindowFull
  <2>3. Timeout <=> now - stop > MaxReconnect
    BY <1>2, <2>2 DEF Timeout
  <2> QED BY <1>1, <1>3, <1>5, <2>3 DEF Lower
<1> QED BY <1>4, <1>5

\* The test of a round whose connection is lost again: start is now.
LEMMA FlapStep ==
  ASSUME Inv, Young, mode = "trying", round > 0
  PROVE  /\ stop < now
         /\ Elapsed(stop, now) > Window(Elapsed(now, stop)) => since > Window(span)
         /\ ~(Elapsed(stop, now) > Window(Elapsed(now, stop))) => now - stop <= MaxReconnect
<1> USE ClockAssumption, CapAssumption, RoundAssumption, WindowAssumption
<1>1. /\ now \in Nat /\ stop \in Nat /\ span \in Nat /\ round \in Nat
      /\ stop + round <= now /\ now < ShortMod
      /\ since = Lower(now - stop, Cap)
  BY DEF Inv, TypeOK, YoungInv, Young, SinceInv, Clock
<1>2. stop < now /\ Elapsed(stop, now) = now - stop
  BY <1>1, ElapsedForward
<1>3. Window(span) \in MinReconnect..MaxReconnect
  BY <1>1, WindowRange
<1>4. CASE now - stop <= MaxReconnect
  <2>1. Window(Elapsed(now, stop)) = MaxReconnect
    BY <1>1, <1>2, <1>4, ElapsedBackward, WindowFull
  <2> QED BY <1>1, <1>2, <1>4, <2>1
<1>5. CASE ~(now - stop <= MaxReconnect)
  <2>1. Elapsed(now, stop) \in Nat
    BY <1>1, ElapsedType
  <2>2. Window(Elapsed(now, stop)) \in MinReconnect..MaxReconnect
    BY <2>1, WindowRange
  <2> QED BY <1>1, <1>2, <1>3, <1>5, <2>2 DEF Lower
<1> QED BY <1>4, <1>5

\* While the device is young no deadline wraps.
LEMMA OpenDeadline ==
  ASSUME Inv, Young, NEW kind, Open(kind)
  PROVE  now < deadline' /\ deadline' = now + ApTime
<1> USE ClockAssumption, CapAssumption, RoundAssumption, WindowAssumption
<1>1. now \in Nat /\ now < ShortMod
  BY DEF Inv, TypeOK, YoungInv, Young, Clock
<1>2. ClockMod \in Nat \ {0} /\ now + ApTime \in 0..(ClockMod - 1)
  BY <1>1
<1>3. deadline' = now + ApTime
  BY <1>2, ModSmall DEF Open
<1> QED BY <1>1, <1>3
LEMMA InvInit == Init => Inv
<1> SUFFICES ASSUME Init PROVE YoungInv
  BY TypeInit DEF Inv
<1>1. Window(span) \in MinReconnect..MaxReconnect /\ since = 0 /\ round = 0
  BY WindowRange DEF Init, Boot
<1> QED BY <1>1, CapAssumption, WindowAssumption
        DEF Init, Boot, YoungInv, ConnectedInv, SinceInv, SpanInv, RoundInv,
            GivesUpLate, Lower

\* A reset starts from the same values.
LEMMA InvReset == ASSUME TypeOK', Reset PROVE Inv'
<1>1. Window(span') \in MinReconnect..MaxReconnect
  <2>1. span' \in Nat
    BY DEF Reset
  <2> QED BY <2>1, WindowRange
<1> QED BY <1>1, CapAssumption, WindowAssumption
        DEF Reset, Inv, YoungInv, ConnectedInv, SinceInv, SpanInv, RoundInv,
            GivesUpLate, Lower

\* A second passes.
LEMMA InvPass == ASSUME Inv, TypeOK', Pass PROVE Inv'
<1> USE ClockAssumption, CapAssumption, RoundAssumption, WindowAssumption
<1> SUFFICES ASSUME Young' PROVE YoungInv'
  BY DEF Inv, YoungInv
<1>1. /\ now \in Nat /\ start \in Nat /\ stop \in Nat /\ age \in 0..ShortMod
      /\ since \in Nat /\ span \in Nat /\ round \in Nat
  BY DEF Inv, TypeOK, Clock
<1>2. age + 1 < ShortMod /\ age' = age + 1
  BY <1>1 DEF Young, Pass, Lower
<1>3. now = age /\ start <= now /\ stop <= now
  BY <1>1, <1>2 DEF Inv, YoungInv, Young
<1>4. now' = now + 1
  <2>1. ClockMod \in Nat \ {0} /\ now + 1 \in 0..(ClockMod - 1)
    BY <1>1, <1>2, <1>3
  <2> QED BY <2>1, ModSmall DEF Pass
<1>5. ConnectedInv'
  BY <1>1, <1>2, <1>3, <1>4
     DEF Inv, YoungInv, Young, ConnectedInv, Pass, Lower, clocks
<1>6. SinceInv'
  BY <1>1, <1>2, <1>3, <1>4
     DEF Inv, YoungInv, Young, SinceInv, Pass, Lower, clocks, world, Portals
<1>7. SpanInv'
  BY <1>1, <1>2, <1>3 DEF Inv, YoungInv, Young, SpanInv, Pass, clocks
<1>8. RoundInv'
  <2> SUFFICES ASSUME start <= stop PROVE RoundInv'
    BY DEF RoundInv, Pass, clocks
  <2>1. /\ mode = "trying" =>
              since <= Window(span) + (IF round = 0 THEN 0 ELSE ApTime + round)
        /\ mode = "unset" =>
              round = 0 /\ since + (deadline - now) <= Window(span) + ApTime
    BY <1>1, <1>2 DEF Inv, YoungInv, Young, RoundInv
  <2>2. Window(span) \in Nat /\ deadline \in Nat
    BY <1>1, WindowRange DEF Inv, TypeOK, Clock
  <2>3. mode' = mode /\ deadline' = deadline
    BY DEF Pass, clocks
  <2>4. CASE mode = "trying"
    <3>1. /\ span' = span /\ round' = round + 1 /\ round' # 0
          /\ since' \in Nat /\ since' <= since + 1
      BY <1>1, <2>4 DEF Pass, Lower
    <3>2. since' <= Window(span) + (ApTime + (round + 1))
      BY <1>1, <2>1, <2>2, <2>4, <3>1
    <3> QED BY <2>3, <2>4, <3>1, <3>2 DEF RoundInv
  <2>5. CASE mode = "unset"
    <3>1. /\ span' = span /\ round' = round /\ now < deadline
          /\ since' \in Nat /\ since' <= since + 1
      BY <1>1, <2>5 DEF Pass, Lower, Portals
    <3>2. since' + (deadline - (now + 1)) <= Window(span) + ApTime
      BY <1>1, <2>1, <2>2, <2>5, <3>1
    <3> QED BY <1>1, <1>4, <2>1, <2>2, <2>3, <2>5, <3>1, <3>2 DEF RoundInv
  <2> QED BY <2>3, <2>4, <2>5 DEF RoundInv
<1>9. GivesUpLate'
  BY <1>1, <1>2 DEF Inv, YoungInv, Young, GivesUpLate, Pass
<1> QED BY <1>1, <1>2, <1>3, <1>4, <1>5, <1>6, <1>7, <1>8, <1>9
        DEF YoungInv, Pass, clocks
LEMMA InvStep == Inv /\ [Next]_vars => Inv'
<1> SUFFICES ASSUME Inv, [Next]_vars PROVE Inv'
  OBVIOUS
<1> USE ClockAssumption, CapAssumption, RoundAssumption, WindowAssumption
<1>t. TypeOK'
  BY TypeStep DEF Inv
<1>n. /\ now \in Nat /\ start \in Nat /\ stop \in Nat
      /\ since \in Nat /\ span \in Nat /\ round \in Nat
      /\ Window(span) \in Nat
  BY WindowRange DEF Inv, TypeOK, Clock
<1>1. CASE PowerCycle
  BY <1>1, <1>t, InvReset DEF PowerCycle
<1>2. CASE NetChange
  BY <1>2, <1>t DEF NetChange, clocks, Inv, YoungInv, Young, ConnectedInv,
                    SinceInv, SpanInv, RoundInv, GivesUpLate
<1>3. CASE Pass
  BY <1>3, <1>t, InvPass
<1>4. CASE Drop
  <2> SUFFICES ASSUME Young PROVE YoungInv'
    BY <1>4, <1>t DEF Inv, YoungInv, Young, Drop
  <2> QED BY <1>4, <1>n DEF Drop, Begin, world, Inv, YoungInv, Young,
             ConnectedInv, SinceInv, SpanInv, RoundInv, GivesUpLate, Lower
<1>5. CASE Connect
  <2> SUFFICES ASSUME Young PROVE YoungInv'
    BY <1>5, <1>t DEF Inv, YoungInv, Young, Connect
  <2> QED BY <1>5, <1>n DEF Connect, world, Inv, YoungInv, Young,
             ConnectedInv, SinceInv, SpanInv, RoundInv, GivesUpLate, Lower
<1>6. CASE Fail
  <2> SUFFICES ASSUME Young PROVE YoungInv'
    BY <1>6, <1>t DEF Inv, YoungInv, Young, Fail
  <2>1. /\ Timeout => since > Window(span)
        /\ ~Timeout /\ start <= stop => since <= Window(span)
    BY <1>6, FailStep DEF Fail
  <2>2. CASE Timeout
    BY <1>6, <1>n, <2>1, <2>2
       DEF Fail, NextRound, Open, world, Inv, YoungInv, Young,
           ConnectedInv, SinceInv, SpanInv, RoundInv, GivesUpLate
  <2>3. CASE ~Timeout
    BY <1>6, <1>n, <2>1, <2>3
       DEF Fail, NextRound, world, Inv, YoungInv, Young,
           ConnectedInv, SinceInv, SpanInv, RoundInv, GivesUpLate
  <2> QED BY <2>2, <2>3
<1>7. CASE Flap
  <2> SUFFICES ASSUME Young PROVE YoungInv'
    BY <1>7, <1>t DEF Inv, YoungInv, Young, Flap
  <2> DEFINE late == Elapsed(stop, now) > Window(Elapsed(now, stop))
  <2>1. /\ stop < now
        /\ late => since > Window(span)
        /\ ~late => now - stop <= MaxReconnect
    BY <1>7, FlapStep DEF Flap
  <2>2. CASE late
    BY <1>7, <1>n, <2>1, <2>2
       DEF Flap, Open, world, Inv, YoungInv, Young,
           ConnectedInv, SinceInv, SpanInv, RoundInv, GivesUpLate
  <2>3. CASE ~late
    BY <1>7, <1>n, <2>1, <2>3
       DEF Flap, world, Inv, YoungInv, Young,
           ConnectedInv, SinceInv, SpanInv, RoundInv, GivesUpLate
  <2> QED BY <2>2, <2>3
<1>8. CASE OpenUnset
  <2> SUFFICES ASSUME Young PROVE YoungInv'
    BY <1>8, <1>t DEF Inv, YoungInv, Young, OpenUnset
  <2>1. now < deadline' /\ deadline' = now + ApTime /\ deadline' \in Nat
    BY <1>8, <1>t, OpenDeadline DEF OpenUnset, TypeOK, Clock
  <2> QED BY <1>8, <1>n, <2>1 DEF OpenUnset, Open, world, Inv, YoungInv, Young,
             ConnectedInv, SinceInv, SpanInv, RoundInv, GivesUpLate
<1>9. CASE OpenByCommand
  <2> SUFFICES ASSUME Young PROVE YoungInv'
    BY <1>9, <1>t DEF Inv, YoungInv, Young, OpenByCommand
  <2> QED BY <1>9, <1>n DEF OpenByCommand, Open, world, Inv, YoungInv, Young,
             ConnectedInv, SinceInv, SpanInv, RoundInv, GivesUpLate
<1>10. CASE Close
  <2> SUFFICES ASSUME Young PROVE YoungInv'
    BY <1>10, <1>t DEF Inv, YoungInv, Young, Close
  <2>1. deadline \in Nat /\ Window(0) \in Nat
    BY WindowRange DEF Inv, TypeOK, Clock
  <2>2. CASE mode = "portal"
    BY <1>10, <1>n, <2>1, <2>2
       DEF Close, ClosePortal, world, Inv, YoungInv, Young,
           ConnectedInv, SinceInv, SpanInv, RoundInv, GivesUpLate, Lower
  <2>3. CASE mode = "setup"
    BY <1>10, <1>n, <2>1, <2>3
       DEF Close, Begin, world, Inv, YoungInv, Young,
           ConnectedInv, SinceInv, SpanInv, RoundInv, GivesUpLate, Lower
  <2>4. CASE mode = "unset"
    BY <1>10, <1>n, <2>1, <2>4
       DEF Close, world, Inv, YoungInv, Young,
           ConnectedInv, SinceInv, SpanInv, RoundInv, GivesUpLate
  <2> QED BY <1>10, <2>2, <2>3, <2>4 DEF Close
<1>11. CASE Save
  BY <1>11, <1>t, InvReset DEF Save
<1>12. CASE SaveUnreachable
  BY <1>12, <1>t DEF SaveUnreachable, clocks, Inv, YoungInv, Young,
                     ConnectedInv, SinceInv, SpanInv, RoundInv, GivesUpLate
<1>13. CASE UNCHANGED vars
  BY <1>13, <1>t DEF vars, clocks, world, Inv, YoungInv, Young, ConnectedInv,
                     SinceInv, SpanInv, RoundInv, GivesUpLate
<1> QED BY <1>1, <1>2, <1>3, <1>4, <1>5, <1>6, <1>7, <1>8, <1>9, <1>10,
           <1>11, <1>12, <1>13 DEF Next

\* No device gives up before it has retried longer than the time its last
\* connection earns it, until a clock wraps 18 hours after the reset.
THEOREM NotTooEarly == Spec => []GivesUpLateWhileYoung
<1>1. Inv => GivesUpLateWhileYoung
  BY DEF Inv, YoungInv, Young, GivesUpLateWhileYoung
<1> QED BY <1>1, InvInit, InvStep, PTL DEF Spec

\* Nor does it go on retrying for more than one round, and the portal it may
\* begin with, after that time.
THEOREM NotTooLate == Spec => []GivesUpSoonWhileYoung
<1>1. Inv => GivesUpSoonWhileYoung
  <2> SUFFICES ASSUME Inv, mode = "trying", start <= stop, Young
               PROVE  since <= Window(span) + ApTime + MaxRound
    BY DEF GivesUpSoonWhileYoung, Young
  <2>1. since <= Window(span) + (IF round = 0 THEN 0 ELSE ApTime + round)
    BY DEF Inv, YoungInv, RoundInv
  <2>2. /\ Window(span) \in Nat /\ since \in Nat
        /\ round \in Nat /\ round <= MaxRound
    <3>1. span \in Nat /\ since \in Nat /\ round \in Nat /\ round <= MaxRound
      BY CapAssumption, RoundAssumption DEF Inv, TypeOK
    <3> QED BY <3>1, WindowRange, WindowAssumption
  <2> QED BY <2>1, <2>2, RoundAssumption
<1> QED BY <1>1, InvInit, InvStep, PTL DEF Spec
=============================================================================
