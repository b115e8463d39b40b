---------------------------- MODULE MC_TaskControl ----------------------------
(* Small instances of TaskControl for TLC. *)
EXTENDS TaskControl, TLC

CONSTANTS a1, a2, s1, s2, c1

TwoAgents == {a1, a2}
TwoSteerers == {s1, s2}

OneEarly == {s1}
OneCanceller == {c1}

=============================================================================
