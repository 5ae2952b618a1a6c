------------------------------ MODULE LcapInv -------------------------------
(***************************************************************************)
(* The inductive invariant behind the safety properties of Lcap, for       *)
(* clients that all go through lcapd (Direct = {}) and without fault       *)
(* "reuse".  It is checked by TLC and proved in LcapProofs.                *)
(***************************************************************************)
EXTENDS Lcap, ReaderInv

\* A client has one message under way: a request to the broker, then to the
\* reader, then an answer.  A client that was killed leaves it there.
OneMessage(c) ==
  /\ up[c] # "none" => req[c] = "none" /\ rep[c] = Idle
  /\ req[c] # "none" => rep[c] = Pending
  /\ at[c] \in {"out", "idle"} =>
       up[c] = "none" /\ req[c] = "none" /\ rep[c] = Idle
  /\ at[c] \in Calls => up[c] \in {"none", at[c]} /\ req[c] \in {"none", at[c]}

\* A batch on its way to a client is the one the reader thinks it processes.
BatchUnderWay(c) ==
  IF rep[c].op = "ENQUEUE"
  THEN /\ at[c] \in {"DEQUEUE", "done"}
       /\ rep[c].ret = "ok" /\ rep[c].recs = lent[c]
  ELSE rep[c].recs = {}

\* A client makes no call but FINI, and no tool ends, with records of a batch
\* left.  They are part of what was lent, and come after those returned.
BatchUsedUp(c) ==
  /\ at[c] \notin {"idle", "FINI"} => left[c] = {}
  /\ c \in Tools /\ (at[c] = "FINI" \/ turn[c] = "fini") => left[c] = {}
  /\ c \in re_peers => left[c] \subseteq lent[c]
  /\ \A r \in left[c] : cur[c] < r

\* After an error a program goes on, and may clear a batch it never got; a tool
\* does not.
Trusted(c) == c \in Tools \/ Faults \cap {"oom", "send"} = {}

\* What was lent to the client and is not left to return was returned, up to
\* the current record or to one that was asked for.
Settled(c) ==
  \A r \in lent[c] \ left[c] : r \in returned /\ (r <= asked \/ r <= cur[c])

\* The client waits for a batch that the reader may still refuse to lend.
Refusable(c) ==
  \/ up[c] # "none"
  \/ req[c] # "none"
  \/ rep[c].op = "ACK" /\ (rep[c].ret = "eof" \/ c \notin Tools)

\* Where a client that may be trusted has settled its last batch; when a CLEAR
\* is under way the tool has asked for all of it.
Settlement(c) ==
  Trusted(c) =>
    /\ at[c] \notin {"DEQUEUE", "done"} => Settled(c)
    /\ at[c] = "DEQUEUE" /\ Refusable(c) => Settled(c)
    /\ "CLEAR" \in {at[c], up[c], req[c]} =>
         \A r \in lent[c] : r \in returned /\ (c \in Tools => r <= asked)

ClientOK(c) ==
  /\ OneMessage(c)
  /\ BatchUnderWay(c)
  /\ BatchUsedUp(c)
  /\ Settlement(c)

\* What some client acknowledged was returned and asked for.
Acknowledged ==
  /\ (\A c \in Clients : Trusted(c)) => acked \subseteq returned
  /\ Clients \subseteq Tools => AckedAsked

ClientInv == (\A c \in Clients : ClientOK(c)) /\ Acknowledged

\* With the types and the invariant of the reader: whatever the reader, the broker
\* and the other clients do, what px_changelog_recv() returned and what it has
\* left to return account for the batch that reader_handle_dequeue() lent.
LInv == LcapTypeOK /\ IInv /\ ClientInv
=============================================================================
