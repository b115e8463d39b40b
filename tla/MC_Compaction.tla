---------------------------- MODULE MC_Compaction ----------------------------
(* Compaction on small instances: the messages that can be appended.       *)
EXTENDS Compaction

Letter(kind, calls, answers, image, size) ==
    [kind |-> kind, calls |-> calls, answers |-> answers, image |-> image, size |-> size]

User == Letter("user", <<>>, "none", FALSE, 1)
Steer == Letter("steer", <<>>, "none", FALSE, 1)
System == Letter("system", <<>>, "none", FALSE, 1)
Text == Letter("assistant", <<>>, "none", FALSE, 2)
Calls(ids) == Letter("assistant", ids, "none", FALSE, 1)
Result(id, image) == Letter("result", <<>>, id, image, 1)

(* Every kind of message, parallel calls, orphans, a screenshot.            *)
Everything ==
    {User, Steer, System, Text, Calls(<<"a">>), Calls(<<"a", "b">>),
     Result("a", FALSE), Result("a", TRUE), Result("b", TRUE)}

NoLimits == {NoLimit}
ImageLimits == {NoLimit, 1}
NoBudget == NoLimit
=============================================================================
