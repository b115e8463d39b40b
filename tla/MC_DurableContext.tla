------------------------- MODULE MC_DurableContext -------------------------
(* Two identities of one model: accounts of a gateway, at endpoints of     *)
(* their own or at the same.  They are interchangeable.                    *)
EXTENDS DurableContext, TLC

CONSTANTS i1, i2

TwoIdentities == {i1, i2}
Interchangeable == Permutations(TwoIdentities)

SameModel == [identity \in TwoIdentities |-> "model"]
EndpointOfWindows == [round |-> SameModel, window |-> [identity \in TwoIdentities |-> identity]]
Responses == {"window", "portable"}
=============================================================================
