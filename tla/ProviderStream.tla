--------------------------- MODULE ProviderStream ---------------------------
(***************************************************************************)
(* What a provider promises to whoever polls one of its rounds             *)
(* (kodkod-core/src/provider.rs): provisional text, then at most one       *)
(* terminal event, whose message is the text shown so far when text was    *)
(* shown at all, and nothing afterwards.                                   *)
(***************************************************************************)
EXTENDS Integers, Sequences

VARIABLES
    shown,              \* the text deltas yielded, in order
    message,            \* the text of the completed message
    outcome             \* "open" until the terminal event

vars == <<shown, message, outcome>>

Init == shown = <<>> /\ message = <<>> /\ outcome = "open"

TextDelta ==
    /\ outcome = "open"
    /\ Len(shown') = Len(shown) + 1 /\ SubSeq(shown', 1, Len(shown)) = shown
    /\ UNCHANGED <<message, outcome>>

Completed ==
    /\ outcome = "open" /\ outcome' = "completed"
    /\ shown = <<>> \/ message' = shown
    /\ UNCHANGED shown

(* An error, or the consumer lets go of the stream.                        *)
Stopped ==
    /\ outcome = "open" /\ outcome' \in {"failed", "dropped"}
    /\ UNCHANGED <<shown, message>>

Next == TextDelta \/ Completed \/ Stopped
Spec == Init /\ [][Next]_vars
=============================================================================
