--------------------------- MODULE RequestAttempt ---------------------------
(***************************************************************************)
(* What the observer of an adapter is promised about every physical        *)
(* request (kodkod-core/src/request_diagnostics.rs): it starts, may see    *)
(* its headers, and is reported over exactly once, in the very step in     *)
(* which its caller learns how it ended, with what its caller learns.      *)
(***************************************************************************)
EXTENDS Sequences

Failures == {"Transport", "HttpStatus", "ProviderResponse", "Protocol", "Incomplete"}

Started == [event |-> "Started"]
Headers == [event |-> "Headers"]
Finished(failure) == [event |-> "Finished", failure |-> failure]
Abandoned == [event |-> "Abandoned"]

VARIABLES
    reported,           \* what was observed of the latest request
    outcome             \* what its caller got: "pending", "none" of the
                        \* failures, one of them, or it was "dropped"

vars == <<reported, outcome>>

Init == reported = <<>> /\ outcome = "dropped"

Start ==
    /\ outcome # "pending"
    /\ reported' = <<Started>> /\ outcome' = "pending"

SeeHeaders ==
    /\ outcome = "pending" /\ reported = <<Started>>
    /\ reported' = Append(reported, Headers) /\ UNCHANGED outcome

Finish(failure) ==
    /\ outcome = "pending"
    /\ reported' = Append(reported, Finished(failure)) /\ outcome' = failure

(* The observing future or stream was dropped before a terminal event.     *)
Abandon ==
    /\ outcome = "pending"
    /\ reported' = Append(reported, Abandoned) /\ outcome' = "dropped"

(* The caller turns to something else.                                     *)
Forget == outcome # "pending" /\ reported' = <<>> /\ outcome' = "dropped"

Next ==
    \/ Start \/ SeeHeaders \/ (\E f \in Failures \cup {"none"} : Finish(f)) \/ Abandon
    \/ Forget
Spec == Init /\ [][Next]_vars
=============================================================================
