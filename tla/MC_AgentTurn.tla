----------------------------- MODULE MC_AgentTurn -----------------------------
(* Small instances of AgentTurn for TLC. *)
EXTENDS AgentTurn, TLC

CONSTANTS s1, s2, k1, k2

OneSteer == {s1}
TwoSteers == {s1, s2}
NoSteers == {}
BadSteer == {s2}
OneCall == {k1}
TwoCalls == {k1, k2}
NoExcess == {0}
Under == {0 - 2}
Over == {1}
UnderOrOver == Under \cup Over
Portable == {FALSE}
Native == {TRUE}
Either == BOOLEAN

=============================================================================
