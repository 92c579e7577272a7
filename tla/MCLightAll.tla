---------------------------- MODULE MCLightAll -----------------------------
(* A pixel strip under every command and a button, with the connection      *)
(* breaking between and inside publishes.                                   *)
EXTENDS Light

MCOps == AllOps \ {"dimmBright", "bright", "delay", "jsonOther",
                    "jsonOtherColor", "abright"}
MCModes == {"pwm", "rgb", "pixel"}
MCOldReports ==
    {[state |-> FALSE, color |-> MaxLevel, bright |-> MaxLevel, wheel |-> FALSE,
      simple |-> FALSE, wipe |-> FALSE, abright |-> MaxLevel]}
MCBoots == {"power"}
=============================================================================
