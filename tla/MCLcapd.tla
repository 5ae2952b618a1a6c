------------------------------- MODULE MCLcapd -------------------------------
(***************************************************************************)
(* Instances of Lcapd for TLC: command lines, and the files of up to three *)
(* lines that bring every statement, repeated, misplaced or incomplete.    *)
(***************************************************************************)
EXTENDS LcapdInv, TLC

MCNumeral == ("0" :> 0) @@ ("2" :> 2) @@ ("8" :> 8)

MCCmdLines == {<<>>, <<"v", "v", "v", "c", "v", "v", "o">>, <<"v", "?">>, <<"h">>}

MCLeftover == {"junk"}

Mdt0 == Line("mdtdevice", "mdt0")
Mdt1 == Line("mdtdevice", "mdt1")

OneLiners ==
  {Line("note", "text"), Line("other", "x"), [Mdt0 EXCEPT !.indented = TRUE],
   Mdt0, Line("mdtdevice", NoArg), Line("clreader", "cl1"),
   Line("logtype", "syslog"), Line("logtype", "nowhere"),
   Line("batch_records", "8"), Line("batch_records", "2"), Line("max_buckets", "0"),
   Line("max_buckets", "huge"), Line("workers", "0"), Line("workers", "2")}

\* A sample file, one with too many MDTs, and every pair of lines.
MCFiles ==
  {<<Mdt0, Mdt1, Line("clreader", "cl1")>>, <<Mdt0, Mdt1, Line("mdtdevice", "mdt2")>>}
    \cup SeqOf(OneLiners, 2)

TwoMdts == {<<Mdt0, Mdt1>>}

AllFaults == LcapdFaultKinds
LlapiFails == {"llapi"}
JustStart == {<<"c">>}
=============================================================================
