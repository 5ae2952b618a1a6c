------------------------------- MODULE MCLcap -------------------------------
(***************************************************************************)
(* Instances of Lcap for TLC: clients that are all tools, or all programs, *)
(* are interchangeable.                                                    *)
(***************************************************************************)
EXTENDS LcapInv, TLC

CONSTANTS c1, c2, c3

NoClient   == {}
OneClient  == {c1}
TwoClients == {c1, c2}
ThreeClients == {c1, c2, c3}
TheThird   == {c3}
FirstAndThird == {c1, c3}

ClientSymmetry == Permutations(TwoClients)

Everything == FaultKinds \ {"reuse"}
NoFaults   == {}
SendFails  == {"send"}
Survivable == {"oom", "llapi"}

ValidOps   == OpKinds \ {"BAD"}
=============================================================================
