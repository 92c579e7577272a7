------------------------------- MODULE MCGpio -------------------------------
(* Pin 4 is dimmed and set to a level; pin 5 is pulsed; pin 12 is an input.  *)
(* A pulse may begin inside a report, its own as well, and the reports of    *)
(* pins 5 and 12 may meet a half-open link.                                  *)
EXTENDS Gpio

Cmd(p, op) == [pins |-> {p}, op |-> op, level |-> 0]
Set(p, op, l) == [pins |-> {p}, op |-> op, level |-> l]

MCCommands ==
    {Cmd(4, "dimm_on"), Cmd(4, "mass_off"), Set(4, "level", 1),
     Cmd(5, "pulse")}
MCNested == {Cmd(5, "pulse")}
=============================================================================
