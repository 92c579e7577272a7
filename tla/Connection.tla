----------------------------- MODULE Connection ----------------------------
(***************************************************************************)
(* How the firmware keeps its connection (src/src/main.cpp: reconnect and  *)
(* relationship_timeout, with connection_relay and the portal of           *)
(* WiFiManager): it retries for a while that grows with the time it was    *)
(* connected before, then opens the configuration portal, then retries.    *)
(*                                                                         *)
(* The unit of time is one second.  millis() wraps at ClockMod (2^32 ms,   *)
(* 4294967 s), the two uint16_t of relationship_timeout at ShortMod        *)
(* (65536 s).  since, span and age are histories: they never wrap, they    *)
(* are only capped.                                                        *)
(***************************************************************************)
EXTENDS Integers, FiniteSetsExt

CONSTANTS
    MinReconnect,  \* MIN_RECONNECT_TIME
    MaxReconnect,  \* MAX_RECONNECT_TIME
    Weight,        \* CALC_RECONNECT_WEIGHT
    ApTime,        \* MAX_AP_TIME
    MaxRound,      \* the longest round of the loop in reconnect
    ClockMod, ShortMod,
    Cap            \* bound of since and span

ASSUME WindowAssumption ==
    /\ MinReconnect \in Nat /\ MaxReconnect \in Nat
    /\ MinReconnect <= MaxReconnect
    /\ Weight \in Nat \ {0}
ASSUME RoundAssumption == MaxRound \in Nat \ {0} /\ ApTime \in Nat \ {0}
\* The code's constants are far below its clocks, and 2^32 ms is far from a
\* multiple of 2^16 s: the difference of two near timers in the wrong order
\* comes out as a long connection, 35127 s and a little less.
ASSUME ClockAssumption ==
    /\ ShortMod \in Nat /\ ClockMod \in Nat
    /\ MaxReconnect + MaxRound + 1 < ShortMod
    /\ ShortMod + ApTime <= ClockMod
    /\ ClockMod % ShortMod >=
          Weight * (MaxReconnect - MinReconnect) + MaxReconnect
ASSUME CapAssumption ==
    /\ Cap \in Nat
    /\ MaxReconnect + ApTime + MaxRound < Cap
    /\ Weight * (MaxReconnect - MinReconnect) < Cap

VARIABLES
    now,         \* millis()
    start, stop, \* timer_connected_start, timer_connected_stop
    mode,        \* what runs: loop, the loop of reconnect, or a portal
    round,       \* how long the present round of reconnect takes already
    deadline,    \* _configPortalStart + _configPortalTimeout
    net,         \* is the broker in reach
    programmed,  \* are there WiFi credentials in the EEPROM
    since,       \* history: seconds without a connection
    span,        \* history: seconds the last connection lasted
    age          \* history: seconds since the last reset

clocks == <<start, stop, deadline>>
world == <<net, programmed>>
vars == <<now, clocks, mode, round, world, since, span, age>>

\* "portal" after a timeout, "setup" by command, "unset" for want of
\* credentials
Portals == {"portal", "setup", "unset"}
Modes == {"running", "trying"} \cup Portals
Clock == 0..(ClockMod - 1)

-----------------------------------------------------------------------------
(* relationship_timeout().                                                 *)

\* Slip: the smaller and the larger are swapped.
LowerSwapped(a, b) == IF a < b THEN b ELSE a

Lower(a, b) == IF a < b THEN a ELSE b
Higher(a, b) == IF a < b THEN b ELSE a

\* uint32_t difference, in seconds, cut to uint16_t
Elapsed(from, to) == ((to - from) % ClockMod) % ShortMod

\* time_max_reconnect for a connection of this length
Window(connected) ==
    Higher(MinReconnect,
           Lower(MinReconnect + connected \div Weight, MaxReconnect))

Timeout == Elapsed(stop, now) > Window(Elapsed(start, stop))

-----------------------------------------------------------------------------
Boot ==
    /\ now = 0 /\ start = 0 /\ stop = 0 /\ deadline = 0
    /\ mode = "trying"
    /\ round = 0
    /\ since = 0 /\ span = 0 /\ age = 0

Init ==
    /\ Boot
    /\ net \in BOOLEAN
    /\ programmed \in BOOLEAN

Reset ==
    /\ now' = 0 /\ start' = 0 /\ stop' = 0 /\ deadline' = 0
    /\ mode' = "trying"
    /\ round' = 0
    /\ since' = 0 /\ span' = 0 /\ age' = 0
    /\ UNCHANGED net

PowerCycle == Reset /\ UNCHANGED programmed

NetChange ==
    /\ net' = ~net
    /\ UNCHANGED <<now, clocks, mode, round, programmed, since, span, age>>

\* A round that has no credentials opens its portal before any time passes;
\* an open portal polls its deadline all the time.
Pass ==
    /\ mode = "trying" => round < MaxRound /\ (programmed \/ round > 0)
    /\ mode \in Portals => now < deadline
    /\ now' = (now + 1) % ClockMod
    /\ age' = Lower(age + 1, ShortMod)
    /\ round' = IF mode = "trying" THEN round + 1 ELSE round
    /\ since' = IF mode \in {"trying", "unset"} THEN Lower(since + 1, Cap) ELSE since
    /\ span' = IF mode \in {"running", "setup"} THEN Lower(span + 1, Cap) ELSE span
    /\ UNCHANGED <<clocks, mode, world>>

-----------------------------------------------------------------------------
(* loop(): the connection is lost, reconnect() begins.                     *)

\* Slip: the end of the connection is not noted.
BeginKeeping ==
    /\ mode' = "trying"
    /\ round' = 0
    /\ since' = 0
    /\ UNCHANGED stop

Begin ==
    /\ mode' = "trying"
    /\ round' = 0
    /\ since' = 0
    /\ stop' = IF stop < start THEN now ELSE stop

Drop ==
    /\ mode = "running"
    /\ Begin
    /\ UNCHANGED <<now, start, deadline, world, span, age>>

-----------------------------------------------------------------------------
(* One round of reconnect(), which takes some time.                        *)

\* connectServer() succeeds and the connection lasts to the end of the round.
Connect ==
    /\ mode = "trying"
    /\ round > 0
    /\ net
    /\ start' = now
    /\ mode' = "running"
    /\ span' = 0
    /\ UNCHANGED <<now, stop, round, deadline, world, since, age>>

\* Slip: the deadline is computed in more bits than the clock has.
OpenUnwrapped(kind) ==
    /\ mode' = kind
    /\ deadline' = now + ApTime

\* A portal and its deadline.
Open(kind) ==
    /\ mode' = kind
    /\ deadline' = (now + ApTime) % ClockMod

\* Slip: the portal is never opened.
NextRoundForever == round' = 0 /\ UNCHANGED <<mode, deadline>>

NextRound ==
    IF Timeout THEN Open("portal") /\ UNCHANGED round
    ELSE round' = 0 /\ UNCHANGED <<mode, deadline>>

Fail ==
    /\ mode = "trying"
    /\ round > 0
    /\ ~net
    /\ NextRound
    /\ UNCHANGED <<now, start, stop, world, since, span, age>>

\* connectServer() succeeds, and the connection is lost before the round
\* ends: timer_connected_start moves, timer_connected_stop does not, and the
\* test sees the new value.
Flap ==
    /\ mode = "trying"
    /\ round > 0
    /\ net
    /\ start' = now
    /\ IF Elapsed(stop, now) > Window(Elapsed(now, stop))
       THEN Open("portal") /\ UNCHANGED round
       ELSE round' = 0 /\ UNCHANGED <<mode, deadline>>
    /\ UNCHANGED <<now, stop, world, since, span, age>>

-----------------------------------------------------------------------------
(* The portals.                                                            *)

OpenUnset ==
    /\ mode = "trying"
    /\ ~programmed
    /\ round = 0
    /\ Open("unset")
    /\ UNCHANGED <<now, start, stop, round, world, since, span, age>>

\* callback(): ON on s/setup
OpenByCommand ==
    /\ mode = "running"
    /\ Open("setup")
    /\ UNCHANGED <<now, start, stop, round, world, since, span, age>>

\* Slip: the timers are not reset after the portal.
ClosePortalKeeping ==
    /\ mode' = "trying"
    /\ round' = 0
    /\ UNCHANGED <<since, span, start, stop>>

\* After the timeout portal both timers start anew.
ClosePortal ==
    /\ mode' = "trying"
    /\ round' = 0
    /\ start' = now
    /\ stop' = now
    /\ since' = 0
    /\ span' = 0

\* Slip: only the portal after a timeout is left.
CloseAfterTimeoutOnly ==
    /\ mode = "portal"
    /\ ~(now < deadline)
    /\ ClosePortal
    /\ UNCHANGED <<now, deadline, world, age>>

Close ==
    /\ mode \in Portals
    /\ ~(now < deadline)
    /\ \/ mode = "portal" /\ ClosePortal
       \/ mode = "setup" /\ Begin /\ UNCHANGED <<start, span>>
       \/ /\ mode = "unset"
          /\ mode' = "trying"
          /\ round' = 1
          /\ UNCHANGED <<start, stop, since, span>>
    /\ UNCHANGED <<now, deadline, world, age>>

\* Somebody saves: the EEPROM is written and the device restarts.
Save ==
    /\ mode \in Portals
    /\ Reset
    /\ programmed' = TRUE

\* Somebody saves over the serial line, but the new network does not answer:
\* the portal stays open.
SaveUnreachable ==
    /\ mode \in Portals
    /\ programmed' = TRUE
    /\ UNCHANGED <<now, clocks, mode, round, net, since, span, age>>

Next ==
    \/ PowerCycle \/ NetChange \/ Pass \/ Drop
    \/ Connect \/ Fail \/ Flap
    \/ OpenUnset \/ OpenByCommand \/ Close \/ Save \/ SaveUnreachable

Spec == Init /\ [][Next]_vars

\* Time passes, a round ends one way or another, and a portal polls its
\* deadline.  Nothing is assumed of the network or the power.
Fairness ==
    /\ WF_vars(Pass)
    /\ WF_vars(Connect \/ Fail \/ Flap)
    /\ WF_vars(OpenUnset)
    /\ WF_vars(Close)

FairSpec == Spec /\ Fairness

-----------------------------------------------------------------------------
(* Properties.                                                             *)

\* Every variable keeps its type.
TypeOK ==
    /\ now \in Clock /\ start \in Clock /\ stop \in Clock /\ deadline \in Clock
    /\ mode \in Modes
    /\ round \in 0..MaxRound
    /\ net \in BOOLEAN /\ programmed \in BOOLEAN
    /\ since \in 0..Cap /\ span \in 0..Cap
    /\ age \in 0..ShortMod

\* A device that gives up retrying has retried longer than a connection as
\* long as its last one earns it, whatever the connection did in between.
GivesUpLate == mode = "portal" => since > Window(span)

\* The same in the first 18 hours after a reset, before a clock wraps.
GivesUpLateWhileYoung == age < ShortMod => GivesUpLate

\* Nor does it retry much longer: in the same time, while no half finished
\* connection has disturbed the timers, at most for one more round and the
\* portal for missing credentials that it may begin with.
GivesUpSoonWhileYoung ==
    mode = "trying" /\ start <= stop /\ age < ShortMod
        => since <= Window(span) + ApTime + MaxRound

Powered == <>[][~PowerCycle]_vars

\* Retrying ends, in a connection or in a portal, also across the wraps and
\* however the network comes and goes.
TryingEnds == Powered => (mode = "trying" ~> mode # "trying")

\* Every portal closes by itself, also across the wraps.
PortalsClose == mode \in Portals ~> mode \notin Portals

\* With credentials, once the broker stays in reach and the connection is not
\* disturbed any more, the device is connected for good.
StaysConnected ==
    /\ <>[](net /\ programmed)
    /\ <>[][~Drop /\ ~Flap /\ ~OpenByCommand /\ ~PowerCycle /\ ~Save]_vars
    => <>[](mode = "running")
=============================================================================
