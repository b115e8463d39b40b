--------------------------- MODULE SteeringMailbox ---------------------------
(***************************************************************************)
(* What a TaskControl promises the threads that steer a turn, with no      *)
(* trace of its mutex, its atomics or its two wake-up events: one FIFO of  *)
(* accepted corrections, handed over in batches while the turn has not     *)
(* been cancelled, and empty for good once the turn has completed.         *)
(* TaskControl.tla, the detailed module, implements this one.              *)
(***************************************************************************)
EXTENDS Sequences, Functions

CONSTANT Message        \* the corrections; each is offered once

VARIABLES
    phase,              \* "fresh" | "open" | "closed" | "cancelled"
    queue,              \* accepted, not yet handed to the turn
    delivered,          \* handed to the turn, oldest first
    refused,            \* returned to their callers
    finished            \* the turn has closed itself as completed

mailboxVars == <<phase, queue, delivered, refused, finished>>

Offered == Range(queue) \cup Range(delivered) \cup refused

Init ==
    /\ phase = "fresh"
    /\ queue = <<>>
    /\ delivered = <<>>
    /\ refused = {}
    /\ finished = FALSE

Start ==
    /\ phase = "fresh"
    /\ phase' = "open"
    /\ UNCHANGED <<queue, delivered, refused, finished>>

\* A correction may be accepted before the turn starts (queue_steer).
Accept(m) ==
    /\ m \notin Offered
    /\ phase \in {"fresh", "open"}
    /\ queue' = Append(queue, m)
    /\ UNCHANGED <<phase, delivered, refused, finished>>

Refuse(m) ==
    /\ m \notin Offered
    /\ phase # "open"
    /\ refused' = refused \cup {m}
    /\ UNCHANGED <<phase, queue, delivered, finished>>

Take ==
    /\ phase \in {"open", "closed"}
    /\ delivered' = delivered \o queue
    /\ queue' = <<>>
    /\ UNCHANGED <<phase, refused, finished>>

Close ==
    /\ phase \in {"fresh", "open"}
    /\ phase' = "closed"
    /\ UNCHANGED <<queue, delivered, refused, finished>>

Cancel ==
    /\ phase # "cancelled"
    /\ phase' = "cancelled"
    /\ UNCHANGED <<queue, delivered, refused, finished>>

Finish ==
    /\ queue = <<>>
    /\ finished' = TRUE
    /\ phase' = IF phase = "cancelled" THEN "cancelled" ELSE "closed"
    /\ UNCHANGED <<queue, delivered, refused>>

Next ==
    \/ Start \/ Take \/ Close \/ Cancel \/ Finish
    \/ \E m \in Message : Accept(m) \/ Refuse(m)

Spec == Init /\ [][Next]_mailboxVars
=============================================================================
