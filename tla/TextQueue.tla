----------------------------- MODULE TextQueue -----------------------------
(***************************************************************************)
(* What a trace over MQTT promises (src/src/logging.cpp, the comments on   *)
(* head and tail in addChar): what was logged is sent, in its order, and   *)
(* only its oldest part may be missing.                                    *)
(***************************************************************************)
EXTENDS Naturals, Sequences

CONSTANTS
    Char,    \* the characters of the log, without the marks
    Lost,    \* what replaces lost text, "##" in the code
    Split    \* what is inserted where a long message is split, "$$"

VARIABLES pending, sent

vars == <<pending, sent>>

Init == pending = <<>> /\ sent = <<>>

SuffixFrom(s, k) == SubSeq(s, k, Len(s))

\* One more character, if it is text at all; when room is made for it, the
\* beginning is lost, noticed or not. What is lost may be an empty line.
Log ==
    \E text \in {<<>>} \cup {<<c>> : c \in Char} \cup {<<c>> \o Split : c \in Char},
       mark \in {<<>>, Lost} :
       \E k \in 1..(Len(pending) + Len(text) + 1) :
          /\ pending' = mark \o SuffixFrom(pending \o text, k)
          /\ UNCHANGED sent

\* The oldest text is sent, and is pending no longer.
Send ==
    \E k \in 0..Len(pending) :
       /\ sent' = SubSeq(pending, 1, k)
       /\ pending' = SuffixFrom(pending, k + 1)

Next == Log \/ Send

Spec == Init /\ [][Next]_vars
=============================================================================
