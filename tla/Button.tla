------------------------------- MODULE Button -------------------------------
(***************************************************************************)
(* The button (src/src/cap_button.cpp): a push button, or a switch, whose  *)
(* interrupt sets a flag that the main loop, or the loop of the            *)
(* configuration portal, consumes.  Bounces are told from presses by time, *)
(* how long a push button is held is read by checks in between, and one    *)
(* report at a time waits for the publish routine.                         *)
(*                                                                         *)
(* Time advances in units.  An elapsed time is kept up to the largest value *)
(* that anything is compared with; the time a button is held, which is     *)
(* reported in 8 bits, then goes round by the time of one wrap.            *)
(***************************************************************************)
EXTENDS Naturals, FiniteSets

CONSTANTS
    Modes,      \* the configurations looked at
    Debounce,   \* BUTTON_DEBOUNCE
    Interval,   \* BUTTON_CHECK_INTERVALL
    Fast,       \* BUTTON_FAST_CHECK_INTERVALL
    Long,       \* BUTTON_LONG_PUSH
    Timeout,    \* BUTTON_TIMEOUT
    Holds,      \* the longest hold with a topic, 3
    Offset,     \* BUTTON_RELEASE_OFFSET
    Limit,      \* presses that start the portal, 20
    Wide        \* the range of m_counter and of m_state, 256

\* A hold this much longer is reported in the same way.
Round == Wide * Long

\* the bounds of the three timers
DownCap == Holds * Long + Timeout + Round
BounceCap == Debounce + 1
CheckCap == Interval + 1

\* the topics button, button1s, button2s and button3s
Topics == 0..Holds

\* A switch or a push button (m_mode_toggle_switch), with m_ghost_avoidance or
\* without.
ASSUME ModeAssumption == Modes \subseteq [switch : BOOLEAN, ghost : BOOLEAN]
ASSUME TimeAssumption ==
    /\ Debounce \in Nat /\ Interval \in Nat /\ Fast \in Nat /\ Timeout \in Nat
    /\ Long \in Nat \ {0}
    /\ Fast < Debounce /\ Debounce < Long
    /\ Fast < Interval /\ Long <= Interval
ASSUME CountAssumption ==
    /\ Holds \in Nat /\ Offset \in Nat /\ Limit \in Nat \ {0} /\ Wide \in Nat
    /\ Holds < Offset
    /\ Offset + Holds < Wide /\ Limit < Wide

VARIABLES
    mode,      \* the configuration, which stays
    pin,       \* the level of the pin, TRUE where a push button is pressed
    flag,      \* m_interrupt_ready
    button,    \* the other members
    phase,     \* "loop" outside of loop(), "check" inside, "portal" in a portal
               \* that loop() opened, "away" in one that something else opened
    told,      \* the topics that are ON at the broker
    looped,    \* loop() has run in this unit of time
    late,      \* checks were missed, since the pin last came to rest
    pressed,   \* a press or a change that has not been counted
    cut,       \* topics whose OFF was overwritten before it was sent, or lost on a
               \* half-open link, or miscounted
    wrapped    \* topics that a hold too long for 8 bits left ON, or switched ON

vars == <<mode, pin, flag, button, phase, told, looped, late, pressed, cut, wrapped>>

-----------------------------------------------------------------------------
(* consume_interrupt().                                                    *)

\* digitalRead(m_pin) == m_polarity
AtPolarity(b) == pin = b.polarity

\* a contact, or a peak that is gone when the pin is read again
Contact(b) == flag /\ (mode.ghost => AtPolarity(b))

\* Slip: bounces count as presses.
AcceptedAny(b) == Contact(b)

\* a contact that is no bounce
Accepted(b) == Contact(b) /\ b.bounce > Debounce

\* Slip: the switch predicts its next level only when it reports.
TouchedSometimes(b) ==
    [b EXCEPT !.bounce = 0,
              !.active = @ \/ ~mode.switch,
              !.polarity = IF mode.switch /\ b.bounce > Debounce THEN ~@ ELSE @]

\* what every contact does
Touched(b) ==
    [b EXCEPT !.bounce = 0,
              !.active = @ \/ ~mode.switch,
              !.polarity = IF mode.switch THEN ~@ ELSE @]

\* Slip: the counter is taken as wider than it is.
CountedWide(b) ==
    [b EXCEPT !.counter = IF b.down < Timeout THEN @ + 1 ELSE 1,
              !.down = 0, !.check = Interval - Fast, !.mark = TRUE,
              !.report = IF mode.switch /\ b.polarity THEN Offset ELSE 0]

\* What a press does in addition; presses in a row are counted in 8 bits. The
\* next check of the pin comes soon.
Counted(b) ==
    [b EXCEPT !.counter = IF b.down < Timeout THEN (@ + 1) % Wide ELSE 1,
              !.down = 0,
              !.check = Interval - Fast,
              !.report = IF mode.switch /\ b.polarity THEN Offset ELSE 0,
              !.mark = TRUE]

Consumed(b) ==
    IF ~Contact(b) THEN b
    ELSE IF Accepted(b) THEN Counted(Touched(b))
    ELSE Touched(b)

-----------------------------------------------------------------------------
(* loop().                                                                 *)

PortalDue(b) == b.counter >= Limit /\ b.down > Timeout

HeldFor(b) == {i \in 1..Holds : b.down > i * Long}

Longest(set) == CHOOSE i \in set : \A j \in set : j <= i

\* a check that finds the button held: the next comes soon, and what happens
\* until then is a bounce
StillHeld(b) ==
    LET new == HeldFor(b) # {} /\ b.report # Longest(HeldFor(b))
    IN  [b EXCEPT !.report = IF new THEN Longest(HeldFor(b)) ELSE @,
                  !.mark = @ \/ new,
                  !.check = Interval - Fast,
                  !.bounce = 0]

\* the report of a release, before it is stored in 8 bits
Lasted(b) == Offset + b.down \div Long

\* a check that finds it released
Released(b) ==
    [b EXCEPT !.active = FALSE, !.check = 0, !.down = 0, !.mark = TRUE,
              !.report = Lasted(b) % Wide]

Checked(b) ==
    IF mode.switch \/ b.check <= Interval THEN b
    ELSE IF AtPolarity(b) THEN StillHeld(b)
    ELSE IF b.active THEN Released(b)
    ELSE [b EXCEPT !.check = 0]

\* The topics a waiting report will switch off.
Ending(b) == IF b.mark THEN {t \in Topics : Offset + t <= b.report} ELSE {}

\* consume_interrupt(); next is the phase behind it.
Consume(next) ==
    LET new == Consumed(button)
    IN  /\ button' = new
        /\ phase' = next
        /\ flag' = FALSE
        /\ late' = (next \in {"portal", "away"} \/ (late /\ (pin \/ flag \/ button.bounce <= Debounce)))
        /\ pressed' = (pressed /\ ~Accepted(button))
        /\ cut' = cut \cup (Ending(button) \ Ending(new))
                      \cup (IF Accepted(button) /\ late THEN told ELSE {})
        /\ UNCHANGED <<mode, pin, told, looped, wrapped>>

Loop ==
    /\ phase = "loop"
    /\ Consume(IF PortalDue(Consumed(button)) THEN "portal" ELSE "check")

\* The pin is read behind the flag; it may have changed in between, and a hold
\* is then reported of a press that is not yet consumed.
Check ==
    /\ phase = "check"
    /\ phase' = "loop"
    /\ looped' = TRUE
    /\ button' = Checked(button)
    /\ cut' = cut \cup (Ending(button) \ Ending(button'))
                  \cup (IF mode.ghost /\ flag /\ ~button.active THEN {button'.report} \cap Topics
                        ELSE {})
    /\ wrapped' = IF button.active /\ ~button'.active /\ Lasted(button) >= Wide
                  THEN (told \cup wrapped \cup ({button'.report} \cap Topics))
                          \ Ending(button')
                  ELSE wrapped
    /\ UNCHANGED <<mode, pin, flag, told, late, pressed>>

\* The connection does not come back, or a setup command arrives.
PortalOpens ==
    /\ phase = "loop"
    /\ phase' = "away"
    /\ late' = TRUE
    /\ UNCHANGED <<mode, pin, flag, button, told, looped, pressed, cut, wrapped>>

\* The loop of the portal only consumes the flag.
PortalPass ==
    /\ phase \in {"portal", "away"}
    /\ Consume(phase)

\* The portal times out, and what opened it goes on behind it.
PortalEnd ==
    /\ phase \in {"portal", "away"}
    /\ phase' = IF phase = "portal" THEN "check" ELSE "loop"
    /\ UNCHANGED <<mode, pin, flag, button, told, looped, late, pressed, cut, wrapped>>

-----------------------------------------------------------------------------
(* publish().                                                              *)

\* What the broker is told by the report; one between the topics and the
\* releases is a release of a negative time, which switches nothing off.
Told == IF button.report \in Topics THEN told \cup {button.report}
        ELSE told \ Ending(button)

\* Of a release the longest holds have been switched off.
ToldInPart == {told} \cup {told \ {t \in Ending(button) : t >= least} : least \in Topics}

\* Slip: a report that broke off is not repeated.
PublishOnce ==
    /\ phase = "loop"
    /\ button.mark
    /\ told' \in ToldInPart
    /\ button' = [button EXCEPT !.mark = FALSE]
    /\ UNCHANGED <<mode, pin, flag, phase, looped, late, pressed, cut, wrapped>>

Publish ==
    /\ phase = "loop"
    /\ button.mark
    /\ told' = Told
    /\ button' = [button EXCEPT !.mark = FALSE]
    /\ cut' = cut \ Ending(button)
    /\ wrapped' = wrapped \ Ending(button)
    /\ UNCHANGED <<mode, pin, flag, phase, looped, late, pressed>>

\* The connection breaks in the middle; everything will be sent again.
PublishBreaks ==
    /\ phase = "loop"
    /\ button.mark
    /\ told' \in {Told} \cup ToldInPart
    /\ UNCHANGED <<mode, pin, flag, button, phase, looped, late, pressed, cut, wrapped>>

\* The link is half-open: publish() only asks whether it still seems connected,
\* and what was lost is not sent again.
PublishLost ==
    /\ phase = "loop"
    /\ button.mark
    /\ told' \in ToldInPart
    /\ button' = [button EXCEPT !.mark = FALSE]
    /\ cut' = (cut \ Ending(button)) \cup (Ending(button) \cap told')
    /\ UNCHANGED <<mode, pin, flag, phase, looped, late, pressed, wrapped>>

-----------------------------------------------------------------------------
(* The finger and the clock.                                               *)

\* A push button interrupts on one edge, a switch on both.
Press ==
    /\ ~pin
    /\ pin' = TRUE /\ flag' = TRUE /\ pressed' = TRUE
    /\ UNCHANGED <<mode, button, phase, told, looped, late, cut, wrapped>>

\* The contact may bounce when it opens.
Release ==
    /\ pin
    /\ pin' = FALSE
    /\ IF mode.switch THEN flag' = TRUE /\ pressed' = TRUE
       ELSE flag' \in {flag, TRUE} /\ UNCHANGED pressed
    /\ UNCHANGED <<mode, button, phase, told, looped, late, cut, wrapped>>

\* Bounces follow a change at once; peaks come at any time, but only where
\* ghost avoidance is configured against them.
Bounce ==
    /\ button.bounce = 0 \/ mode.ghost
    /\ flag' = TRUE
    /\ UNCHANGED <<mode, pin, button, phase, told, looped, late, pressed, cut, wrapped>>

Later(t, cap) == IF t < cap THEN t + 1 ELSE t

HeldOn(t) == IF t < DownCap THEN t + 1 ELSE t + 1 - Round

Tick ==
    /\ phase # "check"
    /\ button' = [button EXCEPT !.down = HeldOn(@),
                              !.bounce = Later(@, BounceCap),
                              !.check = Later(@, CheckCap)]
    /\ looped' = FALSE
    /\ late' = (late \/ ~looped \/ flag)
    /\ UNCHANGED <<mode, pin, flag, phase, told, pressed, cut, wrapped>>

-----------------------------------------------------------------------------

\* After init(), long after the last contact, with a push button that was not
\* held meanwhile; a switch starts with the
\* opposite of its level as the prediction.
Init ==
    /\ mode \in Modes
    /\ pin \in (IF mode.switch THEN BOOLEAN ELSE {FALSE})
    /\ flag = FALSE
    /\ button = [active |-> FALSE, counter |-> 0, report |-> 0, mark |-> FALSE,
                 polarity |-> IF mode.switch THEN ~pin ELSE TRUE,
                 down |-> DownCap, bounce |-> BounceCap, check |-> CheckCap]
    /\ phase = "loop"
    /\ told = {}
    /\ looped = FALSE
    /\ late = FALSE
    /\ pressed = FALSE
    /\ cut = {}
    /\ wrapped = {}

Next ==
    \/ Loop
    \/ Check
    \/ PortalOpens
    \/ PortalPass
    \/ PortalEnd
    \/ Publish
    \/ PublishBreaks
    \/ PublishLost
    \/ Press
    \/ Release
    \/ Bounce
    \/ Tick

Spec == Init /\ [][Next]_vars

-----------------------------------------------------------------------------
(* Properties.                                                             *)

\* The counter and the report keep their width, also where they wrap.
TypeOK ==
    /\ mode \in Modes
    /\ pin \in BOOLEAN /\ flag \in BOOLEAN
    /\ button \in [active : BOOLEAN, counter : 0..(Wide - 1),
                   report : 0..(Wide - 1),
                   mark : BOOLEAN, polarity : BOOLEAN,
                   down : 0..DownCap, bounce : 0..BounceCap, check : 0..CheckCap]
    /\ phase \in {"loop", "check", "portal", "away"}
    /\ told \subseteq Topics /\ cut \subseteq Topics /\ wrapped \subseteq Topics
    /\ looped \in BOOLEAN /\ late \in BOOLEAN /\ pressed \in BOOLEAN

\* A button that is polled in time never counts more presses than there were:
\* bounces, also those of a release after a long hold, and peaks are no press.
BouncesIgnored == Accepted(button) /\ ~late => pressed

\* Once a push button is released, checked and reported, none of its hold
\* topics is left ON, though reports overwrite each other and break off.  Some
\* are left by a release that was overwritten before it could be sent, or lost
\* on a half-open link, and by a hold whose report does not fit in 8 bits.
HoldsEnd ==
    ~mode.switch /\ ~button.active /\ ~flag
        => told \subseteq Ending(button) \cup cut \cup wrapped

\* With ghost avoidance a switch always waits for the level it does not have,
\* however its contacts bounce: a report is never inverted.
SwitchPredicted == mode.switch /\ mode.ghost /\ ~flag => pin # button.polarity
=============================================================================
