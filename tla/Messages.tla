------------------------------ MODULE Messages ------------------------------
(***************************************************************************)
(* kodkod-core/src: message.rs and tool/: the messages of a conversation,  *)
(* and the tools that answer calls.  The provider adapters are operators   *)
(* over these messages.                                                    *)
(*                                                                         *)
(* Text is a sequence of letters.  A document keeps its type and whether   *)
(* its bytes are text; an option is a sequence of at most one.  The checks *)
(* of names and types that a document is constructed with are left out:    *)
(* every one here passed them.                                             *)
(***************************************************************************)
EXTENDS Selection, SequencesExt, FiniteSetsExt

IsSequence(s) == s \in Seq(ToSet(s))

Pdf == "application/pdf"
PlainText == "text/plain"
Document(mime, utf8) == [mime |-> mime, utf8 |-> utf8]
Image(bytes) == [image |-> bytes]

User(content, images, documents) ==
    [role |-> "user", content |-> content, images |-> images, documents |-> documents]

System(content) == [role |-> "system", content |-> content]

Call(id, name, input) == [id |-> id, name |-> name, input |-> input]
Assistant(content, calls, reasoning) ==
    [role |-> "assistant", content |-> content, calls |-> calls, reasoning |-> reasoning]

\* `outcome` is "success" or the error; only a success has images.
Result(call, outcome, images) ==
    [role |-> "tool", call |-> call, outcome |-> outcome, images |-> images]

\* Conversation::without_images, which the agent sends to a model without vision.
WithoutImages(messages) ==
    [i \in DOMAIN messages |-> IF messages[i].role \in {"user", "tool"}
                               THEN [messages[i] EXCEPT !.images = <<>>] ELSE messages[i]]

Has(messages, role) == {i \in DOMAIN messages : messages[i].role = role}
Systems(messages) ==
    LET systems == Select(messages, Has(messages, "system"))
    IN  [n \in DOMAIN systems |-> systems[n].content]
Documents(messages) ==
    UNION {ToSet(messages[i].documents) : i \in Has(messages, "user")}

-----------------------------------------------------------------------------
(* tool/executor.rs: the tools a model is told of, and what becomes of a   *)
(* call, be it of a tool that is not there or that the model may not use.  *)

Tool(name, vision, computer, images) ==
    [name |-> name, vision |-> vision, computer |-> computer, images |-> images]

Permitted(tool, vision, computer) ==
    (tool.vision => vision) /\ (tool.computer => computer)

SpecsFor(tools, vision, computer) ==
    {tool.name : tool \in {t \in tools : Permitted(t, vision, computer)}}

\* The tool itself may fail.
Executed(tools, call, vision, computer) ==
    LET named == {t \in tools : t.name = call.name}
    IN  IF named = {} THEN {Result(call.id, "unknown tool", <<>>)}
        ELSE UNION {IF Permitted(t, vision, computer)
                    THEN {Result(call.id, "success", t.images), Result(call.id, "failed", <<>>)}
                    ELSE {Result(call.id, "refused", <<>>)} : t \in named}

-----------------------------------------------------------------------------
(* Grouping, common to the adapters.                                       *)

\* Where a run of tool results begins, and how it reads.
StartsResults(messages, i) ==
    /\ i \in Has(messages, "tool")
    /\ i = 1 \/ messages[i - 1].role # "tool"
ResultsFrom(messages, i) ==
    LET others == {j \in i .. Len(messages) : messages[j].role # "tool"}
    IN  SubSeq(messages, i, IF others = {} THEN Len(messages) ELSE Min(others) - 1)

\* JSON that came in pieces: one object, from its brace to its brace.
IsObject(json) ==
    /\ Len(json) > 1
    /\ \A i \in DOMAIN json : (json[i] = "{" <=> i = 1) /\ (json[i] = "}" <=> i = Len(json))
=============================================================================
