------------------------------ MODULE MCReader ------------------------------
(***************************************************************************)
(* Instances of Reader for TLC: clients are interchangeable.               *)
(***************************************************************************)
EXTENDS ReaderInv, TLC

CONSTANTS c1, c2

OneClient  == {c1}
TwoClients == {c1, c2}

ClientSymmetry == Permutations(TwoClients)

Everything == FaultKinds \ {"reuse"}
NoFaults   == {}
OnlyReuse  == {"reuse"}

AllOps     == OpKinds
ValidOps   == OpKinds \ {"BAD"}
=============================================================================
