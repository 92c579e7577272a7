---------------------------- MODULE MCLightDimm ----------------------------
(* A PWM light driven as Home Assistant drives it after discovery: fades    *)
(* for on and off in words and as JSON, with and without a colour, hard and *)
(* faded levels, and commands that arrive inside a publish.                 *)
EXTENDS Light

MCModes == {"pwm", "rgb"}
MCOldReports ==
    {[state |-> s, color |-> MaxLevel, bright |-> MaxLevel, wheel |-> FALSE,
      simple |-> FALSE, wipe |-> FALSE, abright |-> MaxLevel] : s \in BOOLEAN}
MCBoots == {"power", "watchdog"}
=============================================================================
