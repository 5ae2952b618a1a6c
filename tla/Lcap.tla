-------------------------------- MODULE Lcap --------------------------------
(***************************************************************************)
(* Clients, broker and reader together.                                    *)
(*                                                                         *)
(* A client is a process linked with the client library.  It is either the *)
(* lcap tool (src/src/tools/lcap.c), which receives, prints and clears one *)
(* record after the other until the end, or any program that uses the      *)
(* library.  It goes through lcapd (src/src/client/px_client.c) or, with   *)
(* LCAP_CL_DIRECT, to Lustre beside it (src/src/client/lu_client.c), under *)
(* the changelog user that lcapd clears for: the tool knows of one only.   *)
(* The broker (src/src/lcapd/broker.c) keeps nothing about a request: it   *)
(* forwards requests to the reader and answers to the clients.             *)
(*                                                                         *)
(* A client talks over a ZMQ_REQ socket: one request at a time.  When it   *)
(* reconnects to a new lcapd the broker knows it by a new identity.        *)
(***************************************************************************)
EXTENDS Reader, FiniteSetsExt

CONSTANTS
  Tools,  \* the clients that run the lcap tool
  Direct  \* the clients that bypass lcapd

\* The requests that the client library makes.
Calls == {"START", "DEQUEUE", "CLEAR", "FINI"}

ASSUME ToolsAssumption ==
  /\ Tools \subseteq Clients
  /\ Direct \subseteq Clients
  /\ Calls \subseteq Ops

VARIABLES
  at,       \* where each client is: in no call, or waiting for an answer
  turn,     \* the call the lcap tool makes next
  left,     \* records received in a batch and not returned yet
  cur,      \* the record lcap_changelog_recv() returned last
  up,       \* request on its way to the broker
  returned, \* history: records that were returned to some application
  asked     \* history: highest record some application asked to clear

client  == <<at, turn, left, cur, up, returned, asked>>
allVars == <<vars, client>>

LcapTypeOK ==
  /\ TypeOK
  /\ at \in [Clients -> {"out", "idle", "done"} \cup Calls]
  /\ turn \in [Clients -> {"recv", "clear", "fini"}]
  /\ left \in [Clients -> SUBSET Records]
  /\ cur \in [Clients -> 0 .. MaxRec]
  /\ up \in [Clients -> Calls \cup {"none"}]
  /\ returned \subseteq Records
  /\ asked \in 0 .. MaxRec

LcapInit ==
  /\ Init
  /\ at = [c \in Clients |-> "out"]
  /\ turn = [c \in Clients |-> "recv"]
  /\ left = [c \in Clients |-> {}]
  /\ cur = [c \in Clients |-> 0]
  /\ up = [c \in Clients |-> "none"]
  /\ returned = {}
  /\ asked = 0

Upd(f, c, v) == [f EXCEPT ![c] = v]

\* A program may make any call once started, the tool makes them in turn.
InTurn(c, call) == at[c] = "idle" /\ (c \in Tools => turn[c] = call)

-----------------------------------------------------------------------------
(***************************************************************************)
(* The client library and the lcap tool.                                   *)
(***************************************************************************)

\* px_rpc_send(), and the wait for the answer that follows.
px_rpc_send(c, op) ==
  /\ up' = Upd(up, c, op)
  /\ at' = Upd(at, c, op)

\* An error is returned: the tool stops there, without a FINI.
Failed(c) == at' = Upd(at, c, IF c \in Tools THEN "done" ELSE "idle")

\* An allocation or zmq_send() fails before anything is sent.
CallFails(c) ==
  /\ Faults \cap {"oom", "send"} # {}
  /\ Failed(c)
  /\ UNCHANGED <<vars, turn, left, cur, up, returned>>

px_changelog_start(c) ==
  /\ at[c] = "out"
  /\ px_rpc_send(c, "START")
  /\ UNCHANGED <<vars, turn, left, cur, returned, asked>>

\* lcap_changelog_start() fails before anything is sent: there is no context.
start_fails(c) ==
  /\ at[c] = "out"
  /\ Faults \cap {"oom", "send"} # {}
  /\ at' = Upd(at, c, "done")
  /\ UNCHANGED <<vars, turn, left, cur, up, returned, asked>>

\* A record goes to the application.
Return(c, batch) ==
  /\ left' = Upd(left, c, batch \ {Min(batch)})
  /\ cur' = Upd(cur, c, Min(batch))
  /\ returned' = returned \cup {Min(batch)}
  /\ turn' = Upd(turn, c, "clear")

\* px_changelog_recv(), with records of the last batch left.
recv_cached(c) ==
  /\ InTurn(c, "recv")
  /\ left[c] # {}
  /\ Return(c, left[c])
  /\ UNCHANGED <<vars, at, up, asked>>

\* px_dequeue_records() asks for a batch.
px_dequeue_records(c) ==
  /\ InTurn(c, "recv")
  /\ left[c] = {}
  /\ \/ px_rpc_send(c, "DEQUEUE") /\ UNCHANGED <<vars, turn, left, cur, returned>>
     \/ CallFails(c)
  /\ UNCHANGED asked

\* The receive buffer cannot be allocated once the request is sent: nobody
\* will read the answer, and the ZMQ_REQ socket refuses to send before that.
dequeue_no_buffer(c) ==
  /\ InTurn(c, "recv")
  /\ left[c] = {}
  /\ "oom" \in Faults
  /\ up' = Upd(up, c, "DEQUEUE")
  /\ at' = Upd(at, c, "done")
  /\ UNCHANGED <<vars, turn, left, cur, returned, asked>>

\* The batch is acknowledged before it is used up.
px_changelog_clear_bug(c, endrec) ==
  /\ InTurn(c, "clear")
  /\ IF c \in Tools THEN endrec = cur[c] ELSE endrec <= cur[c]
  /\ asked' = Max({asked, endrec})
  /\ px_rpc_send(c, "CLEAR")
  /\ UNCHANGED <<vars, turn, left, cur, returned>>

\* px_changelog_clear(): nothing is sent until the batch is used up, and then
\* the whole batch is acknowledged, whatever endrec is.  A program clears up to
\* some record it has received, the tool up to the one it received last.
px_changelog_clear(c, endrec) ==
  /\ InTurn(c, "clear")
  /\ IF c \in Tools THEN endrec = cur[c] ELSE endrec <= cur[c]
  /\ asked' = Max({asked, endrec})
  /\ \/ /\ left[c] # {}
        /\ turn' = Upd(turn, c, "recv")
        /\ UNCHANGED <<vars, at, left, cur, up, returned>>
     \/ /\ left[c] = {}
        /\ px_rpc_send(c, "CLEAR")
        /\ UNCHANGED <<vars, turn, left, cur, returned>>
     \/ left[c] = {} /\ CallFails(c)

px_changelog_fini(c) ==
  /\ InTurn(c, "fini")
  /\ \/ px_rpc_send(c, "FINI") /\ UNCHANGED <<vars, turn, left, cur, returned>>
     \/ CallFails(c)
  /\ UNCHANGED asked

\* The process is killed; what it sent stays on its way.
client_dies(c) ==
  /\ "signal" \in Faults
  /\ at[c] # "done"
  /\ at' = Upd(at, c, "done")
  /\ left' = Upd(left, c, {})
  /\ UNCHANGED <<vars, turn, cur, up, returned, asked>>

\* broker_client_send() has passed an answer of the reader on, whose identity frame
\* is the client's; an answer is one frame here, see Transport for others.
\* cl_rep_recv() reads it, and px_changelog_start() with zmq_recv().
TakeAnswer(c, call) ==
  /\ at[c] = call
  /\ rep[c].op \in {"ACK", "ENQUEUE"}
  /\ rep' = Upd(rep, c, Idle)
  /\ UNCHANGED <<lustre, thread, cache, peers, req, acked, up, asked>>

\* px_changelog_start() looks at no opcode: the reader has only acks for START.
start_returns(c) ==
  /\ TakeAnswer(c, "START")
  /\ at' = Upd(at, c, IF rep[c].ret = "ok" THEN "idle" ELSE "done")
  /\ UNCHANGED <<turn, left, cur, returned>>

\* px_dequeue_records() got a batch, and room for it.
recv_returns(c) ==
  /\ TakeAnswer(c, "DEQUEUE")
  /\ rep[c].recs # {}
  /\ at' = Upd(at, c, "idle")
  /\ Return(c, rep[c].recs)

\* An error, a batch too short to hold a record, or no memory for its index.
recv_error_returns(c) ==
  /\ TakeAnswer(c, "DEQUEUE")
  /\ rep[c].ret = "error" \/ (rep[c].op = "ENQUEUE"
                              /\ (rep[c].recs = {} \/ "oom" \in Faults))
  /\ Failed(c)
  /\ UNCHANGED <<turn, left, cur, returned>>

\* The end: the tool leaves its loop.
recv_eof_returns(c) ==
  /\ TakeAnswer(c, "DEQUEUE")
  /\ rep[c].ret = "eof"
  /\ at' = Upd(at, c, "idle")
  /\ turn' = Upd(turn, c, "fini")
  /\ UNCHANGED <<left, cur, returned>>

clear_returns(c) ==
  /\ TakeAnswer(c, "CLEAR")
  /\ \/ rep[c].ret = "ok" /\ at' = Upd(at, c, "idle")
     \/ rep[c].ret # "ok" /\ Failed(c)
  /\ turn' = Upd(turn, c, "recv")
  /\ UNCHANGED <<left, cur, returned>>

\* The context is destroyed, unless the FINI failed.
fini_returns(c) ==
  /\ TakeAnswer(c, "FINI")
  /\ \/ rep[c].ret = "ok" /\ at' = Upd(at, c, "done") /\ left' = Upd(left, c, {})
     \/ rep[c].ret # "ok" /\ Failed(c) /\ UNCHANGED left
  /\ UNCHANGED <<turn, cur, returned>>

-----------------------------------------------------------------------------
(***************************************************************************)
(* The direct channel: calls of the Lustre API, which return at once.      *)
(***************************************************************************)

lu_changelog_start(c) ==
  /\ at[c] = "out"
  /\ \/ at' = Upd(at, c, "idle")
     \/ "llapi" \in Faults /\ at' = Upd(at, c, "done")
  /\ UNCHANGED <<vars, turn, left, cur, up, returned, asked>>

\* The stream of a direct client begins at the first record that was not
\* cleared.  Records cleared since then are left out, unless they were on
\* their way.
NextDirect(c) ==
  {Max({cur[c], purged}) + 1} \cup IF cur[c] > 0 THEN {cur[c] + 1} ELSE {}

lu_changelog_recv(c) ==
  /\ InTurn(c, "recv")
  /\ \E r \in NextDirect(c) :
       /\ r <= produced
       /\ cur' = Upd(cur, c, r)
       /\ returned' = returned \cup {r}
  /\ turn' = Upd(turn, c, "clear")
  /\ UNCHANGED <<vars, at, left, up, asked>>

\* The end of the stream, or an error.
lu_recv_ends(c) ==
  /\ InTurn(c, "recv")
  /\ \/ /\ \E r \in NextDirect(c) : r > produced
        /\ turn' = Upd(turn, c, "fini")
        /\ UNCHANGED at
     \/ "llapi" \in Faults /\ Failed(c) /\ UNCHANGED turn
  /\ UNCHANGED <<vars, left, cur, up, returned, asked>>

\* The next record is cleared too.
lu_changelog_clear_bug(c, endrec) ==
  /\ InTurn(c, "clear")
  /\ endrec = cur[c]
  /\ asked' = Max({asked, endrec})
  /\ purged' = Max({purged, IF endrec < produced THEN endrec + 1 ELSE endrec})
  /\ turn' = Upd(turn, c, "recv")
  /\ UNCHANGED <<produced, thread, cache, peers, wire, acked, at, left, cur, up,
                 returned>>

\* The records are gone for lcapd too, whether it has read them or not.
lu_changelog_clear(c, endrec) ==
  /\ InTurn(c, "clear")
  /\ IF c \in Tools THEN endrec = cur[c] ELSE endrec <= cur[c]
  /\ asked' = Max({asked, endrec})
  /\ \/ /\ purged' = Max({purged, endrec})
        /\ turn' = Upd(turn, c, "recv")
        /\ UNCHANGED <<produced, thread, cache, peers, wire, acked, at>>
     \/ "llapi" \in Faults /\ Failed(c) /\ UNCHANGED <<vars, turn>>
  /\ UNCHANGED <<left, cur, up, returned>>

lu_changelog_fini(c) ==
  /\ InTurn(c, "fini")
  /\ at' = Upd(at, c, "done")
  /\ UNCHANGED <<vars, turn, left, cur, up, returned, asked>>

\* The stream that lcapd reads leaves out what a direct client has cleared.
stream_skips ==
  /\ pc = "recv"
  /\ re_clpriv <= purged
  /\ re_clpriv' = purged + 1
  /\ UNCHANGED <<lustre, pc, TerminateSig, batch_count, cache, peers, wire,
                 acked, client>>

-----------------------------------------------------------------------------
(***************************************************************************)
(* The broker.                                                             *)
(***************************************************************************)

\* A request is forwarded, and met by the reader when it looks at its socket.
broker_reader_send(c) ==
  /\ up[c] # "none"
  /\ Request(c, up[c])
  /\ up' = Upd(up, c, "none")
  /\ UNCHANGED <<at, turn, left, cur, returned, asked>>

\* zmq_send() fails: lcapd_process_request() answers, or fails to.
broker_send_fails(c) ==
  /\ up[c] # "none"
  /\ "send" \in Faults
  /\ up' = Upd(up, c, "none")
  /\ rep' \in {rep, Upd(rep, c, Ack("error"))}
  /\ UNCHANGED <<lustre, thread, cache, peers, req, acked, at, turn, left, cur,
                 returned, asked>>

\* A ZMQ_ROUTER drops what is for an unknown identity: the reader is gone.
\* What waits in a queue of lcapd is lost with it too.  (The broker does not
\* serve before the readers had the time to connect.)
reader_unreachable(c) ==
  /\ up[c] # "none"
  /\ pc = "down"
  /\ up' = Upd(up, c, "none")
  /\ UNCHANGED <<vars, at, turn, left, cur, returned, asked>>

\* broker_client_send() fails: the error goes to the reader, which ignores it.
reply_lost(c) ==
  /\ rep[c].op \in {"ACK", "ENQUEUE"}
  /\ "send" \in Faults
  /\ rep' = Upd(rep, c, Idle)
  /\ UNCHANGED <<lustre, thread, cache, peers, req, acked, client>>

-----------------------------------------------------------------------------

\* cl_ops_proxy and cl_ops_null; lcap_changelog_start() chooses.
ProxyCall(c) ==
  \/ px_changelog_start(c)
  \/ recv_cached(c)
  \/ px_dequeue_records(c)
  \/ dequeue_no_buffer(c)
  \/ \E endrec \in Records : px_changelog_clear(c, endrec)
  \/ px_changelog_fini(c)

DirectCall(c) ==
  \/ lu_changelog_start(c)
  \/ lu_changelog_recv(c)
  \/ lu_recv_ends(c)
  \/ \E endrec \in Records : lu_changelog_clear(c, endrec)
  \/ lu_changelog_fini(c)

ClientCall(c) ==
  \/ c \notin Direct /\ ProxyCall(c)
  \/ c \in Direct /\ DirectCall(c)
  \/ start_fails(c)

ClientReturn(c) ==
  \/ start_returns(c)
  \/ recv_returns(c)
  \/ recv_error_returns(c)
  \/ recv_eof_returns(c)
  \/ clear_returns(c)
  \/ fini_returns(c)

ReaderStep ==
  /\ reader_main \/ Restart \/ lcap_sigterm \/ Produce \/ Tick
  /\ UNCHANGED client

LcapNext ==
  \/ ReaderStep
  \/ stream_skips
  \/ \E c \in Clients :
       \/ ClientCall(c)
       \/ ClientReturn(c)
       \/ client_dies(c)
       \/ broker_reader_send(c)
       \/ broker_send_fails(c)
       \/ reader_unreachable(c)
       \/ reply_lost(c)

LcapSpec == LcapInit /\ [][LcapNext]_allVars

\* As in Reader.  A request reaches the reader, which looks at its socket
\* again and again, and an answer reaches the client, which waits for it.
LcapFairness ==
  /\ WF_allVars(ReaderStep /\ (changelog_reader_init \/ Fill \/ serve_done))
  /\ \A c \in Clients :
       /\ WF_allVars(ReaderStep /\ Handle(c))
       /\ SF_allVars(broker_reader_send(c))
       /\ WF_allVars(ClientReturn(c))

LcapLiveSpec == LcapSpec /\ LcapFairness

-----------------------------------------------------------------------------
(***************************************************************************)
(* Properties.                                                             *)
(***************************************************************************)

\* End to end at least once: a record that reader_handle_clear() took out of
\* the changelog was returned by px_changelog_recv() to an application.
PurgedReturned == (1 .. purged) \subseteq returned

\* What the client library still has to return is part of the batch that the
\* reader thinks this client is processing.
BatchIsLent ==
  \A c \in Clients : c \in re_peers => left[c] \subseteq lent[c]

\* "endrec  Maximum record ID to acknowledge": reader_handle_clear()
\* acknowledges no record past the highest one an application asked for.
AckedAsked == acked \subseteq 1 .. asked

\* lcapd keeps up with the changelog: changelog_reader_serve() lets the thread
\* go back to changelog_reader_enqueue(), so that a record that was written is
\* read, unless the cache holds as many records as it may, or the thread ends.
CacheIsFull == re_srec - 1 - purged >= Capacity
RecordsRead ==
  \A r \in Records :
    produced >= r ~> r < re_srec \/ r <= purged \/ CacheIsFull \/ pc \notin Running

\* No call hangs while the reader's thread lives: a request that is on its
\* way reaches the reader, is answered, and the answer finds its way back.
InFlight(c) == at[c] \in Calls /\ (up[c] # "none" \/ rep[c] # Idle)
CallsReturn ==
  \A c \in Clients :
    InFlight(c) /\ pc \in Running ~> at[c] \notin Calls \/ pc \notin Running
=============================================================================
