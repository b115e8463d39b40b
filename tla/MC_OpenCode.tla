----------------------------- MODULE MC_OpenCode -----------------------------
(* Small instances of OpenCode for TLC. *)
EXTENDS OpenCode

Model(id, protocol, vision, reasoning) ==
    [id |-> id, service |-> "zen", protocol |-> protocol, vision |-> vision,
     pdf |-> TRUE, reasoning |-> reasoning]
Claude == Model("m1", "Messages", TRUE, TRUE)
Blind == Model("m2", "Messages", FALSE, TRUE)
Chatty == Model("c1", "ChatCompletions", TRUE, TRUE)
Gemini == Model("g1", "GenerateContent", TRUE, TRUE)
Gpt == Model("r1", "Responses", TRUE, TRUE)
SomeModels == {Claude, Blind, Chatty, Gemini, Gpt}

Screen == Tool("f", FALSE, FALSE, <<Image("screen")>>)
Eyes == Tool("g", TRUE, FALSE, <<>>)
SomeTools == {Screen, Eyes}

SomeSayings ==
    {User(<<"u">>, <<Image("photo")>>, <<>>), User(<<>>, <<>>, <<Document(Pdf, FALSE)>>)}

Json == <<"{", "1", "}">>

\* Signed thoughts and two calls, one of them without input; two texts.  The model
\* without vision thinks where nobody can read it, and calls for a picture.
MessagesOutputs(m) ==
    IF ~m.vision
    THEN {<<A!Attached("redacted_thinking", m.id), A!ToolUse("y", "g", Json)>>}
    ELSE {<<A!Thinking(<<"t">>, <<m.id>>), A!ToolUse("x", "f", Json),
       A!ToolUse("y", "g", A!NoInput)>>,
     <<A!Thinking(<<"t">>, <<m.id>>), A!Text(<<"a", "b">>), A!Text(<<"c">>)>>}
\* A thought and two calls; an older service's call; a text.
ChatOutputs ==
    {Assistant(<<>>, <<Call("x", "g", C!NoArguments), Call("y", "f", Json)>>, << <<"t">> >>),
     Assistant(<<>>, <<Call(C!LegacyId, "f", Json)>>, <<>>),
     Assistant(<<"a", "b">>, <<>>, <<>>)}
\* A signed call with an id and one without; a thought, a text and a bare signature;
\* two calls of one tool without ids; two with the empty id.
Unnamed(fields) == G!FunctionCall(<<>>, "f", fields)
GoogleOutputs(m) ==
    {<<G!Signed(G!FunctionCall(<<"x">>, "f", <<"p", "q">>), m.id),
       G!Signed(G!FunctionCall(<<>>, "g", <<"p">>), m.id)>>,
     <<G!Thought(<<"t">>), G!Text(<<"a">>), G!Text(<<"b">>), G!Signed(G!Bare, m.id)>>,
     <<G!Signed(Unnamed(<<"p">>), m.id), Unnamed(<<"q">>)>>,
     <<G!FunctionCall(<<"">>, "g", <<"p">>), G!FunctionCall(<<"">>, "g", <<"q">>)>>}
\* Reasoning and two calls; reasoning and a message of two parts.
ResponsesOutputs(m) ==
    {<<R!Reasoning("r", m.id), R!FunctionCall("i", "x", "f", Json),
       R!FunctionCall("j", "y", "g", Json)>>,
     <<R!Reasoning("r", m.id), R!Message("m", << <<"a", "b">>, <<"c">> >>)>>}
SomeOutputs(m) ==
    CASE m.protocol = "Messages" -> MessagesOutputs(m)
      [] m.protocol = "ChatCompletions" -> ChatOutputs
      [] m.protocol = "GenerateContent" -> GoogleOutputs(m)
      [] m.protocol = "Responses" -> ResponsesOutputs(m)

OnlyGemini == {Gemini}
OnePhoto == {User(<<"u">>, <<Image("photo")>>, <<>>)}
=============================================================================
