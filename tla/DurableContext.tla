--------------------------- MODULE DurableContext ---------------------------
(***************************************************************************)
(* kodkod-core/src/context.rs and the entry points of agent.rs that use    *)
(* it: an active context that outlives its turns, the checkpoints a turn   *)
(* yields, a host that stores them beside its transcript, and restarts.    *)
(*                                                                         *)
(* The host is the one the documentation describes: it appends every       *)
(* accepted message to its transcript, and polls again only once both are  *)
(* stored.  It may store them in one write or in two, in either order, may *)
(* fail to store, and may crash at any point.                              *)
(*                                                                         *)
(* A cursor is the sequence of the messages that were hashed: SHA-256 is   *)
(* taken to tell different sequences apart.  The system prompt, which is   *)
(* the host's and is set again on every restore, is left out.  What a turn *)
(* does between two updates is AgentTurn's subject, what a summary keeps   *)
(* is Compaction's.                                                        *)
(***************************************************************************)
EXTENDS Integers, Sequences

CONSTANTS
    Texts,              \* what a user may say
    Identities,         \* provider, model, endpoint and account together
    Compared,           \* what validate_context compares of them, by kind of state
    Ways,               \* what the adapter's compaction makes of a continuation
    MaxMessages         \* bound: messages of the transcript

\* A continuation holds the state of rounds, or a window that a native
\* compaction made, with the rounds after it.
Kinds == {"round", "window"}

\* Nothing is compared by default, the model by the Google adapter, the model
\* and the request profile by the Responses adapter, which of a window compares
\* the endpoint too.  None compares the account.
ASSUME BoundsAssumption ==
    /\ MaxMessages \in Nat
    /\ Ways \subseteq {"window", "portable", "rebased"}
    /\ \A kind \in Kinds : DOMAIN Compared[kind] = Identities

User(t) == [role |-> "user", text |-> t]
Assistant == [role |-> "assistant"]
Result == [role |-> "result"]
Message == {User(t) : t \in Texts} \cup {Assistant, Result}

Parts == {"transcript", "checkpoint"}        \* what the host stores

\* Active messages are those of the transcript, and three kinds that are not.
Note == [role |-> "context"]
Foreign == [role |-> "foreign"]
Summary(n) == [role |-> "summary", upTo |-> n]     \* written when n were told

VARIABLES
    transcript,         \* host: the original transcript
    toSave,             \* host: what it has yet to store before it polls
    disk,               \* host: what survives a crash
    alive,              \* there is an AgentContext
    ctx,                \* it
    turn,               \* where its task is
    model,              \* the identity its requests go to
    strayed             \* history: the stored pair was set apart by the host

durable == <<transcript, toSave, disk, alive, ctx, turn, model, strayed>>

-----------------------------------------------------------------------------
(* Contexts and checkpoints.  `told` is what the active messages tell of,  *)
(* in order, summaries and verbatim messages together; `covers` are the    *)
(* active messages the continuation stands for, `made` what it consists of *)
(* and which identities made it.                                           *)

NoContext == [told |-> <<>>, messages |-> <<>>, covers |-> <<>>, made |-> {},
              cursor |-> <<>>, binding |-> "none", managed |-> FALSE]

\* context_from_history
FromHistory(identity) == [told |-> transcript, messages |-> transcript, covers |-> <<>>,
                made |-> {}, cursor |-> transcript, binding |-> identity,
                managed |-> TRUE]

Push(c, message) ==
    [c EXCEPT !.told = Append(@, message), !.messages = Append(@, message),
              !.cursor = Append(@, message)]

Made(kind, identity) == [kind |-> kind, by |-> identity]

\* A completed round's continuation adds its own state to what is there, and
\* stands for all there is, the reply too.
Replied(c, message) ==
    [Push(c, message) EXCEPT !.covers = Append(c.messages, message),
                             !.made = @ \cup {Made("round", model)}]

\* The oldest k messages give way to a summary.  Native maintenance returns a
\* window that stands for the new messages, portable maintenance no state; the
\* Google adapter rebases what it has on the new messages.
\* An operator named X_Y is X with the mistake Y; nothing here uses it.
Compacted_KeepsContinuation(c, k, way, identity) ==
    [c EXCEPT !.messages = <<Summary(Len(c.told))>> \o SubSeq(@, k + 1, Len(@))]
Compacted(c, k, way, identity) ==
    LET messages == <<Summary(Len(c.told))>>
                      \o SubSeq(c.messages, k + 1, Len(c.messages))
    IN  [c EXCEPT !.messages = messages,
                  !.covers = IF way = "portable" THEN <<>> ELSE messages,
                  !.made = CASE way = "portable" -> {}
                             [] way = "window" -> {Made("window", identity)}
                             [] way = "rebased" -> @]

\* validate_context: an identity is sent what was made by one like it, in what
\* the adapter compares.
Validates(c, identity) ==
    \A m \in c.made : Compared[m.kind][m.by] = Compared[m.kind][identity]

Suffix(c) == SubSeq(transcript, Len(c.cursor) + 1, Len(transcript))

Restorable_AnyPrefix(c, identity) ==
    /\ c.binding = identity
    /\ Len(c.cursor) <= Len(transcript)
    /\ Validates(c, identity)
Restorable(c, identity) ==
    /\ c.binding = identity
    /\ Len(c.cursor) <= Len(transcript)
    /\ SubSeq(transcript, 1, Len(c.cursor)) = c.cursor
    /\ Validates(c, identity)

Restored_FromZero(c) ==
    [c EXCEPT !.told = transcript, !.messages = @ \o Suffix(c),
              !.cursor = @ \o transcript, !.managed = TRUE]
Restored(c) ==
    [c EXCEPT !.told = @ \o Suffix(c), !.messages = @ \o Suffix(c),
              !.cursor = @ \o Suffix(c), !.managed = TRUE]

-----------------------------------------------------------------------------
DurableInit ==
    /\ transcript = <<>> /\ toSave = {} /\ strayed = FALSE
    /\ disk = [transcript |-> <<>>, checkpointed |-> FALSE, checkpoint |-> NoContext]
    /\ alive = FALSE /\ ctx = NoContext /\ turn = "none" /\ model = "none"

Between == turn = "none" /\ toSave = {}
Fits(n) == Len(transcript) + n <= MaxMessages

(* context_from_history, the explicit rebase.                              *)
Seed(identity) ==
    /\ Between
    /\ alive' = TRUE /\ ctx' = FromHistory(identity)
    /\ UNCHANGED <<transcript, toSave, disk, turn, model, strayed>>

(* restore_context; when it refuses, the host is left with Seed.           *)
Restore(identity) ==
    /\ Between /\ ~alive /\ disk.checkpointed
    /\ Restorable(disk.checkpoint, identity)
    /\ alive' = TRUE /\ ctx' = Restored(disk.checkpoint)
    /\ UNCHANGED <<transcript, toSave, disk, turn, model, strayed>>

(* append_system_context.  Bound: one at a time among the active messages. *)
AppendSystemContext ==
    /\ Between /\ alive
    /\ \A i \in DOMAIN ctx.messages : ctx.messages[i] # Note
    /\ ctx' = [ctx EXCEPT !.messages = Append(@, Note)]
    /\ UNCHANGED <<transcript, toSave, disk, alive, turn, model, strayed>>

(* run_turn_in: a turn on another conversation advances the continuation.  *)
LegacyTurn(identity) ==
    /\ Between /\ alive
    /\ ctx' = [ctx EXCEPT !.covers = <<Foreign>>, !.made = @ \cup {Made("round", identity)},
                          !.managed = FALSE]
    /\ UNCHANGED <<transcript, toSave, disk, alive, turn, model, strayed>>

(* run_turn_context.  Refused, it changes nothing; otherwise the message   *)
(* is the context's and the host's from the call on.                       *)
Prompt(t, identity) ==
    /\ Between /\ alive /\ Fits(1)
    /\ ctx.managed /\ Validates(ctx, identity)
    /\ ctx' = Push(ctx, User(t))
    /\ transcript' = Append(transcript, User(t))
    /\ turn' = "round" /\ model' = identity
    /\ UNCHANGED <<toSave, disk, alive, strayed>>

(* compact_context, between turns.                                         *)
Drops(k) == k \in 2..Len(ctx.messages)
CompactIdle(k, way, identity) ==
    /\ Between /\ alive /\ ctx.managed /\ Validates(ctx, identity) /\ Drops(k)
    /\ ctx' = Compacted(ctx, k, way, identity)
    /\ UNCHANGED <<transcript, toSave, disk, alive, turn, model, strayed>>

-----------------------------------------------------------------------------
(* One poll of the task, up to the update it yields.                       *)

\* update: the events that carry a checkpoint for the host to store.
Carries_NoReply(event) == event \in {"Steered", "ToolFinished", "Compacted"}
Carries(event) == event \in {"Steered", "AssistantReply", "ToolFinished", "Compacted"}
Yield(event) ==
    toSave' = IF Carries(event) THEN Parts ELSE {}

Polled(at) == turn = at /\ toSave = {}

Steered(t) ==
    /\ Polled("round") /\ Fits(1)
    /\ ctx' = Push(ctx, User(t))
    /\ transcript' = Append(transcript, User(t))
    /\ Yield("Steered")
    /\ UNCHANGED <<disk, alive, turn, model, strayed>>

(* A reply with calls, or without: then the turn ends unless a steer came. *)
AssistantReply ==
    /\ Polled("round") /\ Fits(1)
    /\ ctx' = Replied(ctx, Assistant)
    /\ transcript' = Append(transcript, Assistant)
    /\ turn' \in {"dispatch", "round", "ending"}
    /\ Yield("AssistantReply")
    /\ UNCHANGED <<disk, alive, model, strayed>>

Dispatch ==
    /\ Polled("dispatch") /\ turn' = "tools"
    /\ UNCHANGED <<transcript, toSave, disk, alive, ctx, model, strayed>>

ToolFinished ==
    /\ Polled("tools") /\ Fits(1)
    /\ ctx' = Push(ctx, Result)
    /\ transcript' = Append(transcript, Result)
    /\ turn' = "round"
    /\ Yield("ToolFinished")
    /\ UNCHANGED <<disk, alive, model, strayed>>

CompactInTurn(k, way) ==
    /\ Polled("round") /\ Drops(k)
    /\ ctx' = Compacted(ctx, k, way, model)
    /\ Yield("Compacted")
    /\ UNCHANGED <<transcript, disk, alive, turn, model, strayed>>

(* Completed; or an error, a cancellation or a dropped task, at any await  *)
(* and after any update, stored or not.                                    *)
TurnEnds ==
    /\ turn # "none" /\ turn' = "none" /\ model' = "none" /\ toSave' = {}
    /\ UNCHANGED <<transcript, disk, alive, ctx, strayed>>

-----------------------------------------------------------------------------
(* The host's store.                                                       *)

(* AgentContext::checkpoint, to store it between turns.                    *)
Export ==
    /\ Between /\ alive /\ ctx.managed
    /\ toSave' = Parts
    /\ UNCHANGED <<transcript, disk, alive, ctx, turn, model, strayed>>

Save(parts) ==
    /\ parts \subseteq toSave /\ parts # {}
    /\ disk' = [transcript |->
                    IF "transcript" \in parts THEN transcript ELSE disk.transcript,
                checkpointed |-> disk.checkpointed \/ "checkpoint" \in parts,
                checkpoint |-> IF "checkpoint" \in parts THEN ctx ELSE disk.checkpoint]
    /\ toSave' = toSave \ parts
    /\ strayed' = IF toSave' = {} THEN FALSE ELSE strayed \/ "checkpoint" \in parts
    /\ UNCHANGED <<transcript, alive, ctx, turn, model>>

Crash ==
    /\ transcript' = disk.transcript
    /\ alive' = FALSE /\ ctx' = NoContext /\ turn' = "none" /\ model' = "none"
    /\ toSave' = {}
    /\ UNCHANGED <<disk, strayed>>

(* The stored history grows, or is edited, while there is no context.      *)
(* Bound: it is edited once between two complete saves.                    *)
AppendHistory(t) ==
    /\ Between /\ ~alive /\ Fits(1)
    /\ transcript' = Append(transcript, User(t))
    /\ disk' = [disk EXCEPT !.transcript = transcript']
    /\ UNCHANGED <<toSave, alive, ctx, turn, model, strayed>>

EditHistory(i, t) ==
    /\ Between /\ ~alive /\ ~strayed
    /\ transcript' \in {[transcript EXCEPT ![i] = User(t)],
                        SubSeq(transcript, 1, i - 1)}
    /\ disk' = [disk EXCEPT !.transcript = transcript']
    /\ strayed' = TRUE
    /\ UNCHANGED <<toSave, alive, ctx, turn, model>>

DurableNext ==
    \/ AppendSystemContext
    \/ \E identity \in Identities :
          Seed(identity) \/ Restore(identity) \/ LegacyTurn(identity)
    \/ \E t \in Texts, identity \in Identities : Prompt(t, identity)
    \/ \E t \in Texts : Steered(t) \/ AppendHistory(t)
    \/ \E k \in 2..Len(ctx.messages), way \in Ways :
          \/ \E identity \in Identities : CompactIdle(k, way, identity)
          \/ CompactInTurn(k, way)
    \/ AssistantReply \/ Dispatch \/ ToolFinished \/ TurnEnds \/ Export \/ Crash
    \/ \E parts \in SUBSET Parts : Save(parts)
    \/ \E i \in DOMAIN transcript, t \in Texts : EditHistory(i, t)

DurableSpec == DurableInit /\ [][DurableNext]_durable

-----------------------------------------------------------------------------
(* What makes it correct.                                                  *)

\* covers is the beginning of messages.
Begins(covers, messages) ==
    /\ Len(covers) <= Len(messages)
    /\ \A i \in 1..Len(covers) : covers[i] = messages[i]

(* A context that may be used tells the model of the host's transcript,    *)
(* all of it, in order and nothing else, and its cursor names just that    *)
(* transcript: across compactions, crashes, partial saves, edits and       *)
(* restores (context.rs:49, agent.rs:334).                                 *)
TellsTranscript ==
    alive /\ ctx.managed =>
        ctx.told = transcript /\ ctx.cursor = transcript

(* A continuation that is sent stands for the first of the messages it is  *)
(* sent with, and all of its state, whichever rounds and compactions it    *)
(* comes from, agrees with the identity it is sent to in what the adapter  *)
(* compares (provider.rs:97): at every round of a turn, although only the  *)
(* start of a turn, a restore and compact_context look.                    *)
ContinuationFits ==
    /\ alive /\ ctx.managed => Begins(ctx.covers, ctx.messages)
    /\ turn # "none" => ctx.managed /\ Validates(ctx, model)
    /\ disk.checkpointed => Begins(disk.checkpoint.covers, disk.checkpoint.messages)

(* A tool runs only when the reply that called it, and the context that    *)
(* holds the reply, are both stored (agent.rs:374-375).                    *)
DispatchIsStored ==
    [][turn # "tools" /\ turn' = "tools"
         => disk.transcript = transcript /\ disk.checkpointed /\ disk.checkpoint = ctx]_durable

(* A stored checkpoint can be restored against the stored transcript as    *)
(* long as the host has not itself set the two apart, by editing the       *)
(* history or by storing the checkpoint before the transcript.             *)
SavedRestores ==
    disk.checkpointed /\ ~strayed => Begins(disk.checkpoint.cursor, disk.transcript)

Turns == {"none", "round", "dispatch", "tools", "ending"}
Active == Message \cup {Note, Foreign} \cup [role : {"summary"}, upTo : Nat]
Context == [told : Seq(Message), messages : Seq(Active), covers : Seq(Active),
            made : SUBSET [kind : Kinds, by : Identities], cursor : Seq(Message),
            binding : Identities \cup {"none"}, managed : BOOLEAN]

DurableTypeOK ==
    /\ turn \in Turns /\ model \in Identities \cup {"none"}
    /\ turn # "none" => model \in Identities
    /\ toSave \subseteq Parts
    /\ alive \in BOOLEAN /\ strayed \in BOOLEAN
    /\ transcript \in Seq(Message) /\ ctx \in Context
    /\ disk \in [transcript : Seq(Message), checkpointed : BOOLEAN, checkpoint : Context]

\* Without a context there is nothing the store lacks; while something is to
\* be stored, or a tool to be started, every part is stored or about to be.
StoredOrPending ==
    /\ ~alive => transcript = disk.transcript
    /\ turn = "dispatch" \/ toSave # {} =>
          /\ "transcript" \notin toSave => disk.transcript = transcript
          /\ "checkpoint" \notin toSave => disk.checkpointed /\ disk.checkpoint = ctx

(* The inductive invariant: a context in use is one that may be stored,    *)
(* what was stored told of its own cursor, and that cursor is a beginning  *)
(* of the transcript in memory too.                                        *)
DurableInvariant ==
    /\ DurableTypeOK
    /\ TellsTranscript /\ ContinuationFits /\ StoredOrPending
    /\ turn # "none" \/ toSave # {} => alive /\ ctx.managed
    /\ disk.checkpointed => disk.checkpoint.told = disk.checkpoint.cursor
    /\ disk.checkpointed /\ ~strayed =>
          /\ Begins(disk.checkpoint.cursor, disk.transcript)
          /\ Begins(disk.checkpoint.cursor, transcript)
=============================================================================
