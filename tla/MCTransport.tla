----------------------------- MODULE MCTransport -----------------------------
(***************************************************************************)
(* Instances of Transport for TLC.                                         *)
(***************************************************************************)
EXTENDS TransportInv, TLC

CONSTANTS c1, c2, c3, m1, m2

TwoClients == {c1, c2}
ThreeClients == {c1, c2, c3}
TwoReaders == {m1, m2}
AllFaults  == {"oom", "send"}
=============================================================================
