--------------------------- MODULE ResponseOutput ---------------------------
(***************************************************************************)
(* kodkod-openai/src/responses.rs: how the events of one streamed response *)
(* become preview text, output items and an assistant message.             *)
(*                                                                         *)
(* An item is [type, id, call, parts]: `parts` are the texts of a          *)
(* message's content, each a sequence of letters, `call` the identifier of *)
(* a function call.  Indices start at 1.  An item that lacks a field the   *)
(* code insists on, or names a foreign namespace, is of the type "unknown".*)
(* Byte limits are left out; a limit on items is not.                      *)
(***************************************************************************)
EXTENDS Integers, Sequences, FiniteSets, SequencesExt

CONSTANT MaxItems                            \* MAX_OUTPUT_ITEMS

ASSUME MaxItemsAssumption == MaxItems \in Nat \ {0}

NoId == "none"
Break == "break"                             \* a blank line between two parts

-----------------------------------------------------------------------------
(* Events.  "other" stands for every kind the adapter passes over.         *)

Delta(i, j, letter) == [kind |-> "delta", part |-> <<i, j>>, text |-> <<letter>>]
Done(i, item) == [kind |-> "done", index |-> i, item |-> item]
Completed(output) == [kind |-> "completed", output |-> output]
Other(kind) == [kind |-> kind]

\* A service that tells everything in order: the text of each part, each item
\* when it is done, and the whole again, or nothing, when it is complete.
DeltasOf(i, item) ==
    FlattenSeq([j \in DOMAIN item.parts |->
                   [n \in DOMAIN item.parts[j] |-> Delta(i, j, item.parts[j][n])]])
Streamed(output, last) ==
    FlattenSeq([i \in DOMAIN output |-> DeltasOf(i, output[i]) \o <<Done(i, output[i])>>])
      \o <<Completed(last)>>
Told(output) == {Streamed(output, output), Streamed(output, <<>>), <<Completed(output)>>}

\* The same with one thing wrong: an event too many, an item that is told twice
\* or never, or text without the index of its part.
Troubled(wire) ==
    {InsertAt(wire, k, Other(kind)) :
        k \in DOMAIN wire, kind \in {"failed", "incomplete", "malformed", "other"}}
    \cup {InsertAt(wire, k, wire[k]) : k \in {n \in DOMAIN wire : wire[n].kind = "done"}}
    \cup {RemoveAt(wire, k) : k \in {n \in DOMAIN wire : wire[n].kind = "done"}}
    \cup {[n \in DOMAIN wire |->
             IF wire[n].kind = "delta" THEN [wire[n] EXCEPT !.part = <<>>] ELSE wire[n]]}

-----------------------------------------------------------------------------
(* The preview: only a new part starts a paragraph (separate_text_part).   *)
(* `previous` is the part of the last indexed delta, <<>> before the first.*)
(* An operator named X_Y is X with the mistake Y; nothing here uses it.    *)

Preview(delta, previous) ==
    IF delta.part # <<>> /\ previous \notin {<<>>, delta.part}
    THEN <<Break>> \o delta.text
    ELSE delta.text
PartAfter(delta, previous) == IF delta.part = <<>> THEN previous ELSE delta.part

-----------------------------------------------------------------------------
(* OutputAccumulator: the items told so far, by index.                     *)

NoItems == <<>>

Insertable(items, done) ==
    /\ done.index <= MaxItems
    /\ done.index \notin DOMAIN items
    /\ done.item.id # NoId => \A i \in DOMAIN items : items[i].id # done.item.id

Inserted(items, done) ==
    [i \in DOMAIN items \cup {done.index} |->
        IF i = done.index THEN done.item ELSE items[i]]

SameItem(streamed, final) ==
    /\ streamed.type = final.type /\ streamed.id = final.id
    /\ streamed.type = "function_call" => streamed.call = final.call

\* validate_final
Agrees(items, output) ==
    \A i \in DOMAIN items : i \in DOMAIN output /\ SameItem(items[i], output[i])

\* take_ordered: the indices must be contiguous.
Assembled_Gaps(items) ==
    LET indices == SetToSortSeq(DOMAIN items, <)
    IN  {[n \in DOMAIN indices |-> items[indices[n]]]}
Assembled(items) ==
    IF DOMAIN items = 1 .. Cardinality(DOMAIN items)
    THEN {[n \in 1 .. Cardinality(DOMAIN items) |-> items[n]]}
    ELSE {}

\* validate_output_window, of an output that is to be replayed.
Bounded(output) == Len(output) \in 1 .. MaxItems

\* The completed event's output, or, when it names none, what was streamed:
\* a set of at most one output.
FinalOutput(items, output) ==
    IF output = <<>> /\ DOMAIN items # {} THEN Assembled(items)
    ELSE IF Agrees(items, output) THEN {output} ELSE {}

-----------------------------------------------------------------------------
(* parse_output_with_profile                                               *)

Joined(parts) ==
    FoldLeft(LAMBDA text, part :
                 IF part = <<>> THEN text
                 ELSE IF text = <<>> THEN part ELSE text \o <<Break>> \o part,
             <<>>, parts)

Texts(output) == FlattenSeq([i \in DOMAIN output |-> output[i].parts])
Calls(output) ==
    LET calling == SelectSeq(output, LAMBDA item : item.type = "function_call")
    IN  [n \in DOMAIN calling |-> calling[n].call]

Known(output) ==
    /\ output # <<>>
    /\ \A i \in DOMAIN output :
          output[i].type \in {"message", "function_call", "reasoning"}

\* The text and the calls of the message; a response with neither is empty.
Parsed(output) ==
    [role |-> "assistant", content |-> Joined(Texts(output)), calls |-> Calls(output)]
Answers(message) == message.content # <<>> \/ message.calls # <<>>
=============================================================================
