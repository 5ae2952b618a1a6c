------------------------------ MODULE Transport ------------------------------
(***************************************************************************)
(* How requests and answers travel: the frames that px_rpc_send()          *)
(* (src/src/client/px_client.c) and peer_rpc_send() (src/src/lcapd/        *)
(* rpc_utils.c) write, what lcapnet_req_update() (src/src/lcapnet/         *)
(* lcap_net.c) makes of them, and how the broker (src/src/lcapd/broker.c)  *)
(* turns one into the other.                                               *)
(*                                                                         *)
(* ZMQ delivers a message whole, once its last frame was sent.  When a     *)
(* send fails after some frames, these stay in the socket, and the frames  *)
(* sent next go on with the same message.  A ROUTER socket takes the first *)
(* frame of a message for the peer to send the others to, and puts the     *)
(* identity of the sender in front of what it receives.                    *)
(***************************************************************************)
EXTENDS Integers, Sequences, FiniteSets, SequencesExt

CONSTANTS
  Clients,    \* identities of the clients
  Readers,    \* identities of the readers: the names of their MDTs
  MaxReq,     \* bound: requests of a client
  MaxFaults,  \* bound: failures
  NetFaults   \* what may fail: "oom" in reassembling, "send"

Broker == "broker"

ASSUME TransportAssumption ==
  /\ Clients \cap Readers = {}
  /\ Broker \notin Clients \cup Readers
  /\ MaxReq \in Nat /\ MaxFaults \in Nat
  /\ NetFaults \subseteq {"oom", "send"}

VARIABLES
  mdt,      \* the MDT that each client names
  waiting,  \* clients in zmq_recv()
  count,    \* requests that each client made
  net,      \* the sockets, see NetInit
  rest,     \* frames of a message that a receiver gave up on
  calls,    \* history: the requests that readers handled for each client
  got,      \* history: what each client read last
  nfaults   \* failures so far

transportVars == <<mdt, waiting, count, net, rest, calls, got, nfaults>>

Peers  == Clients \cup Readers

\* Frames.  The body of an RPC is one frame; `who' is the client that made the
\* request, or the peer that the answer is for, and `n' the request's number.
Frame(kind, who, n) == [kind |-> kind, who |-> who, n |-> n]
Empty    == Frame("empty", Broker, 0)
Id(p)    == Frame("id", p, 0)
Rpc(c)   == Frame("request", c, count[c] + 1)
Ack(p)   == Frame("ack", p, 0)
IsBody(f) == f.kind \in {"request", "answer", "ack", "signal"}

\* Messages on their way to the broker and from it, and the frames that each
\* socket has of a message that was not finished.  Every reader has announced
\* itself, see changelog_reader_signal().
NetInit ==
  [up   |-> [p \in Peers |->
               IF p \in Readers
               THEN <<<<Id(p), Empty, Id(p), Frame("signal", p, 0)>>>> ELSE <<>>],
   down |-> [p \in Peers |-> <<>>],
   part |-> [s \in Peers \cup {Broker} |-> <<>>]]

TransportInit ==
  /\ mdt \in [Clients -> Readers]
  /\ waiting = {}
  /\ count = [c \in Clients |-> 0]
  /\ net = NetInit
  /\ rest = [s \in Readers \cup {Broker} |-> <<>>]
  /\ calls = [p \in Peers |-> <<>>]
  /\ got = [c \in Clients |-> <<>>]
  /\ nfaults = 0

-----------------------------------------------------------------------------
(***************************************************************************)
(* Sockets.                                                                *)
(***************************************************************************)

\* What a finished message becomes: the ROUTER drops one for nobody it knows,
\* the REQ socket of a client puts a delimiter in front.
Deliver(nt, sock, msg) ==
  IF sock = Broker
  THEN LET to == Head(msg)
       IN IF to.kind = "id" THEN [nt EXCEPT !.down[to.who] = Append(@, Tail(msg))]
          ELSE nt
  ELSE [nt EXCEPT !.up[sock] =
          Append(@, <<Id(sock)>> \o (IF sock \in Clients THEN <<Empty>> ELSE <<>>) \o msg)]

\* The state of the sockets after k of the frames were taken.
AfterSend(nt, sock, frames, k) ==
  LET msg == nt.part[sock] \o SubSeq(frames, 1, k)
  IN IF k < Len(frames) THEN [nt EXCEPT !.part[sock] = msg]
     ELSE [Deliver(nt, sock, msg) EXCEPT !.part[sock] = <<>>]

\* zmq_send() may fail at any frame.
Sends(nt, sock, frames, failed) ==
  {[ok |-> k = Len(frames), net |-> AfterSend(nt, sock, frames, k)] :
     k \in IF "send" \in NetFaults /\ failed < MaxFaults
           THEN 0 .. Len(frames) ELSE {Len(frames)}}

\* peer_rpc_send(); src is empty, or the one identity to put in front.
peer_rpc_send(src, dst, msg) ==
  (IF src = <<>> THEN <<>> ELSE src \o <<Empty>>) \o <<dst, Empty, msg>>

\* Nothing is sent after a failure.
SendOrAck_bug(nt, sock, frames, ackTo) ==
  \E sent \in Sends(nt, sock, frames, nfaults) :
    /\ net' = sent.net
    /\ nfaults' = nfaults + IF sent.ok THEN 0 ELSE 1

\* A handler's message, and the ack_retcode() of its caller when it could not
\* be sent.
SendOrAck(nt, sock, frames, ackTo) ==
  \E first \in Sends(nt, sock, frames, nfaults) :
    \/ first.ok /\ net' = first.net /\ nfaults' = nfaults
    \/ /\ ~first.ok
       /\ \E second \in Sends(first.net, sock,
                              peer_rpc_send(<<>>, ackTo, Ack(ackTo.who)), nfaults + 1) :
            /\ net' = second.net
            /\ nfaults' = nfaults + IF second.ok THEN 1 ELSE 2

JustAck(nt, sock, ackTo) ==
  \E sent \in Sends(nt, sock, peer_rpc_send(<<>>, ackTo, Ack(ackTo.who)), nfaults) :
    /\ net' = sent.net
    /\ nfaults' = nfaults + IF sent.ok THEN 0 ELSE 1

\* lcapnet_req_update(), frame by frame: delimiters are ignored, the first one
\* or two others are identities, the ones after these are the body.
Told(frames) == {i \in DOMAIN frames : frames[i] # Empty}
Later(pos)   == {i \in pos : \E j \in pos : j < i}

\* The broker takes two identities, a reader only that of the client.
Body(sock, frames) ==
  IF sock = Broker THEN Later(Later(Told(frames))) ELSE Later(Told(frames))

\* The body is one frame that is no identity; else its opcode is out of range.
Valid(frames, body) == \E i \in body : body = {i} /\ IsBody(frames[i])

\* The next message of a socket, or what was left of the last one.
Incoming(sock) ==
  CASE rest[sock] # <<>> -> {[frames |-> rest[sock], net |-> net]}
    [] rest[sock] = <<>> /\ sock = Broker ->
         {[frames |-> Head(net.up[p]), net |-> [net EXCEPT !.up[p] = Tail(@)]] :
            p \in {q \in Peers : net.up[q] # <<>>}}
    [] OTHER ->
         IF net.down[sock] = <<>> THEN {}
         ELSE {[frames |-> Head(net.down[sock]),
                net |-> [net EXCEPT !.down[sock] = Tail(@)]]}

Read(sock) == rest' = [rest EXCEPT ![sock] = <<>>]

\* An identity or the body cannot be stored: the frames after it are left.
recv_no_memory(sock) ==
  /\ "oom" \in NetFaults
  /\ nfaults < MaxFaults
  /\ \E msg \in Incoming(sock) :
       \E j \in 1 .. Len(msg.frames) :
         /\ msg.frames[j] # Empty
         /\ rest' = [rest EXCEPT ![sock] = SubSeq(msg.frames, j + 1, Len(msg.frames))]
         /\ net' = msg.net
  /\ nfaults' = nfaults + 1
  /\ UNCHANGED <<mdt, waiting, count, calls, got>>

\* The message stays to be read again.
recv_no_body_bug(sock) ==
  /\ \E msg \in Incoming(sock) :
       /\ Body(sock, msg.frames) = {}
       /\ net' = msg.net
       /\ rest' = [rest EXCEPT ![sock] = msg.frames]
  /\ UNCHANGED <<mdt, waiting, count, calls, got, nfaults>>

\* lcap_rpc_recv_once() has no body to give to a handler.
recv_no_body(sock) ==
  /\ \E msg \in Incoming(sock) :
       /\ Body(sock, msg.frames) = {}
       /\ net' = msg.net
  /\ Read(sock)
  /\ UNCHANGED <<mdt, waiting, count, calls, got, nfaults>>

-----------------------------------------------------------------------------
(***************************************************************************)
(* The broker and the readers.                                             *)
(***************************************************************************)

\* The identities are taken for each other.
broker_reader_send_bug(remote, forward, body) == peer_rpc_send(<<forward>>, forward, body)

\* broker_reader_send() and broker_client_send(): the frames to send on.
broker_reader_send(remote, forward, body) == peer_rpc_send(<<forward>>, remote, body)
broker_client_send(remote, forward, body) == peer_rpc_send(<<>>, forward, body)

\* lcapd_process_request().  A SIGNAL is for the broker itself.
lcapd_process_request ==
  /\ \E msg \in Incoming(Broker) :
       LET body    == Body(Broker, msg.frames)
           remote  == msg.frames[Min(Told(msg.frames))]
           forward == msg.frames[Min(Later(Told(msg.frames)))]
           rpc     == msg.frames[Min(body)]
       IN  /\ body # {}
           /\ \/ /\ Valid(msg.frames, body) /\ rpc.kind = "request"
                 /\ SendOrAck(msg.net, Broker,
                              broker_reader_send(remote, forward, rpc), remote)
              \/ /\ Valid(msg.frames, body) /\ rpc.kind \in {"answer", "ack"}
                 /\ SendOrAck(msg.net, Broker,
                              broker_client_send(remote, forward, rpc), remote)
              \/ /\ Valid(msg.frames, body) /\ rpc.kind = "signal"
                 /\ net' = msg.net /\ UNCHANGED nfaults
              \/ ~Valid(msg.frames, body) /\ JustAck(msg.net, Broker, remote)
  /\ Read(Broker)
  /\ UNCHANGED <<mdt, waiting, count, calls, got>>

\* changelog_reader_rpc_hdl(): a handler runs for the client at `forward' and
\* answers, see module Reader.
reader_handles(m) ==
  /\ \E msg \in Incoming(m) :
       LET body    == Body(m, msg.frames)
           forward == msg.frames[Min(Told(msg.frames))]
           rpc     == msg.frames[Min(body)]
       IN  /\ Valid(msg.frames, body) /\ rpc.kind = "request"
           /\ calls' = [calls EXCEPT ![forward.who] =
                          Append(@, [at |-> m, rpc |-> rpc])]
           /\ SendOrAck(msg.net, m,
                        peer_rpc_send(<<>>, forward,
                                      Frame("answer", forward.who, rpc.n)), forward)
  /\ Read(m)
  /\ UNCHANGED <<mdt, waiting, count, got>>

\* No handler: the opcode is invalid or not for readers.
reader_refuses(m) ==
  /\ \E msg \in Incoming(m) :
       LET body    == Body(m, msg.frames)
           forward == msg.frames[Min(Told(msg.frames))]
           rpc     == msg.frames[Min(body)]
       IN  /\ body # {}
           /\ ~(Valid(msg.frames, body) /\ rpc.kind = "request")
           /\ JustAck(msg.net, m, forward)
  /\ Read(m)
  /\ UNCHANGED <<mdt, waiting, count, calls, got>>

-----------------------------------------------------------------------------
(***************************************************************************)
(* Clients.                                                                *)
(***************************************************************************)

\* px_rpc_send().  The REQ socket forgets answers that nobody waited for.
px_rpc_send(c) ==
  /\ c \notin waiting
  /\ count[c] < MaxReq
  /\ \E sent \in Sends(net, c, <<Id(mdt[c]), Rpc(c)>>, nfaults) :
       /\ sent.ok
       /\ net' = [sent.net EXCEPT !.down[c] = <<>>]
  /\ count' = [count EXCEPT ![c] = @ + 1]
  /\ waiting' = waiting \cup {c}
  /\ got' = [got EXCEPT ![c] = <<>>]
  /\ UNCHANGED <<mdt, rest, calls, nfaults>>

\* It fails, and the client stops, as the lcap tool does on any error.
send_fails(c) ==
  /\ c \notin waiting
  /\ count[c] < MaxReq
  /\ \E sent \in Sends(net, c, <<Id(mdt[c]), Rpc(c)>>, nfaults) :
       /\ ~sent.ok
       /\ net' = sent.net
  /\ count' = [count EXCEPT ![c] = MaxReq]
  /\ got' = [got EXCEPT ![c] = <<>>]
  /\ nfaults' = nfaults + 1
  /\ UNCHANGED <<mdt, waiting, rest, calls>>

\* zmq_recv() has a message for a client, whose REQ socket lets it read the frames
\* after the delimiter, and none of a message that comes later.
zmq_recv(c) ==
  /\ c \in waiting
  /\ net.down[c] # <<>>
  /\ Head(Head(net.down[c])) = Empty
  /\ net' = [net EXCEPT !.down[c] = Tail(@)]
  /\ waiting' = waiting \ {c}
  /\ UNCHANGED <<mdt, rest, calls, nfaults>>

\* Frames of several messages, after the delimiter.
Glued(msg) == Len(msg) > 2

\* The client goes on, or makes no more requests: zmq_send() fails with EFSM on a
\* REQ socket while frames of the last answer are unread.
GoesOn(c, n) == count' = [count EXCEPT ![c] = n]

\* px_changelog_start(): the answer to START, the first request, is the first
\* frame, whatever it is and whatever comes after it.
px_changelog_start(c) ==
  /\ count[c] = 1
  /\ zmq_recv(c)
  /\ got' = [got EXCEPT ![c] = SubSeq(Head(net.down[c]), 1, 2)]
  /\ GoesOn(c, IF Glued(Head(net.down[c])) THEN MaxReq ELSE count[c])

\* Each frame is written over the one before.
cl_rep_recv_bug(c) ==
  /\ count[c] # 1
  /\ zmq_recv(c)
  /\ got' = [got EXCEPT ![c] = <<Last(Head(net.down[c]))>>]
  /\ GoesOn(c, count[c])

\* cl_rep_recv(), for the other requests: the frames are put together in one
\* buffer.  That of px_dequeue_records() has room for all; cl_ack_retcode() fails
\* with EOVERFLOW, maybe before it has read the last.
cl_rep_recv(c) ==
  /\ count[c] # 1
  /\ zmq_recv(c)
  /\ got' = [got EXCEPT ![c] = Head(net.down[c])]
  /\ \E n \in {count[c]} \cup (IF Glued(Head(net.down[c])) THEN {MaxReq} ELSE {}) :
       GoesOn(c, n)

\* A ZMQ_REQ socket skips a message that does not begin with a delimiter.
req_skips(c) ==
  /\ net.down[c] # <<>>
  /\ Head(Head(net.down[c])) # Empty
  /\ net' = [net EXCEPT !.down[c] = Tail(@)]
  /\ UNCHANGED <<mdt, waiting, count, rest, calls, got, nfaults>>

-----------------------------------------------------------------------------

Receive(sock) ==
  \/ recv_no_body(sock)
  \/ sock = Broker /\ lcapd_process_request
  \/ sock # Broker /\ (reader_handles(sock) \/ reader_refuses(sock))

TransportNext ==
  \/ \E c \in Clients : 
       \/ px_rpc_send(c) \/ send_fails(c)
       \/ px_changelog_start(c) \/ cl_rep_recv(c) \/ req_skips(c)
  \/ \E sock \in Readers \cup {Broker} : Receive(sock) \/ recv_no_memory(sock)

TransportSpec == TransportInit /\ [][TransportNext]_transportVars

\* The broker and the readers read their sockets, a client that waits too.
TransportFairness ==
  /\ \A sock \in Readers \cup {Broker} : WF_transportVars(Receive(sock))
  /\ \A c \in Clients : WF_transportVars(px_changelog_start(c) \/ cl_rep_recv(c) \/ req_skips(c))

TransportLiveSpec == TransportSpec /\ TransportFairness

-----------------------------------------------------------------------------
(***************************************************************************)
(* Properties.                                                             *)
(***************************************************************************)

\* A handler runs only for a request that the client made, at the reader that
\* the client named, in the order of the requests and once, after any number of
\* failures of lcapnet_req_update(), any number of peer_rpc_send(), or one of
\* each.  (With three, of both kinds, the frames that the first two left can
\* make one request out of another one's envelope: see README.)
HandledAsSent ==
  \A c \in Peers :
    \A i \in DOMAIN calls[c] :
      /\ c \in Clients /\ calls[c][i].at = mdt[c]
      /\ calls[c][i].rpc.who = c
      /\ \A j \in 1 .. i - 1 : calls[c][j].rpc.n < calls[c][i].rpc.n

\* What a client takes for an answer, one frame that it read, is the answer to its
\* last request, or an error for it: no client gets the answer of another one, or
\* an old one.  There is one exception, only after a failure: px_changelog_start()
\* checks neither the opcode nor ZMQ_RCVMORE, and takes the identity of a peer for
\* an ack when this is the first of several frames glued together (the name of an
\* MDT is long enough to be accepted, that of a client is not).  Such a client
\* makes no other request.  (cl_rep_recv() refuses frames glued together.)
AnswersOwn ==
  \A c \in Clients : \A i \in DOMAIN got[c] :
    Told(got[c]) = {i} =>
      \/ got[c][i] \in {Ack(c), Frame("answer", c, count[c])}
      \/ got[c][i].kind = "id" /\ nfaults > 0 /\ count[c] = MaxReq

\* The clients that wait for nothing: neither their request nor an answer is
\* on its way.
Travels(c, msgs) ==
  \E i \in DOMAIN msgs : \E j \in DOMAIN msgs[i] :
    msgs[i][j].who = c /\ IsBody(msgs[i][j])
Stuck ==
  {c \in waiting : ~ \E p \in Peers : Travels(c, net.up[p]) \/ Travels(c, net.down[p])}

\* A failure in reassembling or in sending costs at most one call: the error
\* path of lcapd_process_request() and of changelog_reader_rpc_hdl() finishes
\* the message that was begun, so that no other one is damaged.
FaultCostsOneCall == Cardinality(Stuck) <= nfaults

\* A request is answered, unless it was lost to a failure.
RequestAnswered ==
  \A c \in Clients : c \in waiting ~> c \notin waiting \/ c \in Stuck
=============================================================================
