------------------------------ MODULE DimLamp ------------------------------
(***************************************************************************)
(* What a user expects of a dimmable lamp (Readme, "light/dimm" and        *)
(* "light/brightness"): it is on or off, it has a level that it shows when *)
(* on, a change may take a fade, and switching does not change the level   *)
(* unless the command names another one.                                   *)
(***************************************************************************)
EXTENDS Naturals

CONSTANT MaxLevel

Level == 0..MaxLevel

VARIABLES on, level, shown, fading

vars == <<on, level, shown, fading>>

Wanted == IF on THEN level ELSE 0

Init ==
    /\ on \in BOOLEAN
    /\ level = MaxLevel
    /\ fading = FALSE
    /\ shown = Wanted

\* On or off, by a fade; the level survives.
Switch ==
    /\ on' = ~on
    /\ fading' = TRUE
    /\ UNCHANGED <<level, shown>>

\* On, by a fade, at a level that comes with the command.
SwitchOnAt(l) ==
    /\ ~on /\ on' = TRUE
    /\ level' = l
    /\ fading' = TRUE
    /\ UNCHANGED shown

\* A new level: only remembered while the lamp is off, which may fade to
\* darkness once more, else at once or by a fade.  A fade that already runs
\* goes on, now towards the new level.
SetLevel(l) ==
    /\ level' = l
    /\ UNCHANGED on
    /\ \/ ~on /\ fading' \in {fading, TRUE} /\ UNCHANGED shown
       \/ on /\ fading' = TRUE /\ UNCHANGED shown
       \/ on /\ shown' = l /\ UNCHANGED fading

Fade ==
    /\ fading
    /\ shown' \in Level
    /\ UNCHANGED <<on, level, fading>>

Settle ==
    /\ fading
    /\ fading' = FALSE
    /\ shown' = Wanted
    /\ UNCHANGED <<on, level>>

Next == Switch \/ (\E l \in Level : SwitchOnAt(l) \/ SetLevel(l)) \/ Fade \/ Settle

Spec == Init /\ [][Next]_vars

\* A lamp that fades nothing shows exactly what was asked for.
ShowsWanted == ~fading => shown = Wanted
=============================================================================
