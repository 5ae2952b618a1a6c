------------------------------ MODULE LcapdInv ------------------------------
(***************************************************************************)
(* The inductive invariant behind the safety properties of Lcapd.  It is   *)
(* checked by TLC and proved in LcapdProofs and ConfigProofs.              *)
(***************************************************************************)
EXTENDS Lcapd

\* The main thread, from the end of lcap_cfg_init() to the end of lcapd_serve().
Configured == {"sigthread", "init", "bind", "alloc", "start", "pause", "poll", "recv",
               "leave", "release"}

\* What main() has done so far: it starts the readers one after the other.
Phases ==
  /\ main \in Configured => parsing = "accepted"
  /\ main \in {"config", "sigthread", "init", "bind", "alloc"} => Started = {}
  /\ main = "start" => \E k \in 0 .. mdtcount : Started = 1 .. k
  /\ main \in {"pause", "poll", "recv"} => Started = 1 .. mdtcount
  /\ main \in {"start", "pause", "poll", "recv"} => info = "set"
  /\ main \in {"bind", "alloc", "start", "pause", "poll", "recv"} => log.open

\* What a reader has told the broker and the broker has not read yet, or has.
Registration(i) ==
  \/ rdr[i] \in {"none", "created"} /\ link[i] = <<>> /\ ~cc_rcid[i]
  \/ rdr[i] \in {"up", "failing", "stopped"} /\ link[i] \in {<<>>, <<"ok">>}
  \/ rdr[i] = "failed" /\ link[i] \in {<<"error">>, <<"ok", "error">>}
  \/ rdr[i] = "failed" /\ link[i] = <<>> /\ ~cc_rcid[i]

\* One of the first n lines with a statement is the last.
HasLast(stmt, n) ==
  Given(stmt, n) # {} => \E m \in Given(stmt, n) : \A i \in Given(stmt, n) : i <= m

\* lcap_parse_config_file() keeps, from one line to the next, the configuration
\* that the lines read so far stand for, and none of them was one to refuse; errno
\* is set by a number out of range, or by the call that ends the reading.
ReadSoFar ==
  Complete =>
    /\ parsing # "released" =>
         /\ Readable(nread) /\ Means(config, nread) /\ HasLast("workers", nread)
         /\ parsing # "failed" => (errno <=> ~InRange(nread))
    /\ parsing = "accepted" => nread = Len(file) /\ ~errno
    /\ parsing = "refused" => ~WellFormed
    /\ parsing = "failed" => LcapdFaults \cap {"oom", "io"} # {}

\* The types, what lcap_ctx_init() has done where main() is, and what reader_main()
\* and broker_handle_signal() have told each other about every reader.
LcapdIInv == LcapdTypeOK /\ Phases /\ \A i \in Index : Registration(i)
=============================================================================
