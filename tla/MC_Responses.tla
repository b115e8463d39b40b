---------------------------- MODULE MC_Responses ----------------------------
(* Small instances of Responses for TLC. *)
EXTENDS Responses

Item(type, id, call, parts) == [type |-> type, id |-> id, call |-> call, parts |-> parts]
Message(id, parts) == Item("message", id, "none", parts)
Call1 == Item("function_call", "f1", "k", <<>>)
Reasoning(id) == Item("reasoning", id, "none", <<>>)

\* One part; reasoning, then parts of two messages, one empty; a call; nothing but
\* reasoning; more items than are remembered.
SomeOutputs ==
    {<<Message("m1", << <<"a">> >>)>>,
     <<Reasoning("r1"), Message("m1", << <<"a", "b">>, <<>> >>), Message("m2", << <<"c">> >>)>>,
     <<Call1>>,
     <<Reasoning("r1")>>,
     <<Reasoning("r1"), Reasoning("r2"), Call1, Message(NoId, << <<"a">> >>)>>}

Route(model, endpoint, native) ==
    [model |-> model, profile |-> "plan", endpoint |-> endpoint, native |-> native]
\* Another endpoint, and another model without the native operation.
SomeRoutes == {Route("g1", "e1", TRUE), Route("g1", "e2", TRUE), Route("g2", "e1", FALSE)}
=============================================================================
