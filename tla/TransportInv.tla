---------------------------- MODULE TransportInv ----------------------------
(***************************************************************************)
(* The inductive invariant of Transport, for failures of one kind: of      *)
(* zmq_send(), or of the allocations in lcapnet_req_update().              *)
(***************************************************************************)
EXTENDS Transport

\* Failures of both kinds can meet in one message, see README.
OneKind == ~({"oom", "send"} \subseteq NetFaults)

Sockets   == Readers \cup {Broker}
FrameType == [kind : {"empty", "id", "request", "answer", "ack", "signal"},
              who : Peers \cup {Broker}, n : Nat]
Message   == Seq(FrameType)
Envelope  == {Empty} \cup {Id(p) : p \in Peers}
NetType   == [up : [Peers -> Seq(Message)], down : [Peers -> Seq(Message)],
              part : [Peers \cup {Broker} -> Message]]
CallType  == [at : Readers, rpc : FrameType]

TransportTypeOK ==
  /\ mdt \in [Clients -> Readers]
  /\ waiting \subseteq Clients
  /\ count \in [Clients -> 0 .. MaxReq]
  /\ net \in NetType
  /\ rest \in [Sockets -> Message]
  /\ calls \in [Peers -> Seq(CallType)]
  /\ got \in [Clients -> Message]

-----------------------------------------------------------------------------
(***************************************************************************)
(* What a message may look like, for the numbers cnt of the requests and   *)
(* the calls cl that readers handled.                                      *)
(***************************************************************************)

Request(cnt, c) == Frame("request", c, cnt[c])
Fresh(cnt, cl, c) == \A i \in DOMAIN cl[c] : cl[c][i].rpc.n < cnt[c]
Answers(cnt, p) == {Ack(p)} \cup {Frame("answer", c, cnt[c]) : c \in {p} \cap Clients}

\* The message on its way to the broker: a request, an announcement, an answer,
\* or frames of several.
UpOK(cnt, cl, p, msg) ==
  \/ /\ p \in Clients /\ Fresh(cnt, cl, p)
     /\ msg = <<Id(p), Empty, Id(mdt[p]), Request(cnt, p)>>
  \/ p \in Readers /\ msg = <<Id(p), Empty, Id(p), Frame("signal", p, 0)>>
  \/ /\ p \in Readers
     /\ \E q \in Peers : \E b \in Answers(cnt, q) : msg = <<Id(p), Id(q), Empty, b>>
  \/ /\ p \in Readers /\ "send" \in NetFaults
     /\ Len(msg) >= 5
     /\ msg[1] = Id(p) /\ msg[2] # Empty
     /\ msg[Len(msg) - 2] # Empty /\ msg[Len(msg)] # Empty

\* The message on its way from the broker.
DownOK(cnt, cl, p, msg) ==
  \/ \E c \in Clients :
       /\ p = mdt[c] /\ Fresh(cnt, cl, c)
       /\ msg = <<Empty, Id(c), Empty, Request(cnt, c)>>
  \/ \E b \in Answers(cnt, p) : msg = <<Empty, b>>
  \/ /\ "send" \in NetFaults
     /\ Len(msg) >= 3
     /\ \A i \in 1 .. Len(msg) - 1 : msg[i] \in Envelope
     /\ IsBody(msg[Len(msg)]) /\ msg[Len(msg) - 2] # Empty
     /\ msg[Len(msg)].kind = "request" => Len(msg) >= 5 /\ msg[Len(msg) - 4] # Empty

\* A message that was begun: envelopes, the first one an identity.
PartOK(msg) ==
  /\ \A i \in DOMAIN msg : msg[i] \in Envelope
  /\ msg # <<>> => "send" \in NetFaults /\ msg[1] # Empty

Forms(nt, cnt, cl) ==
  /\ \A p \in Peers : \A i \in DOMAIN nt.up[p] : UpOK(cnt, cl, p, nt.up[p][i])
  /\ \A p \in Peers : \A i \in DOMAIN nt.down[p] : DownOK(cnt, cl, p, nt.down[p][i])
  /\ \A s \in Sockets : PartOK(nt.part[s])

-----------------------------------------------------------------------------
(***************************************************************************)
(* Where the clients are named.                                            *)
(***************************************************************************)

Box == ({"up", "down"} \X Peers) \cup ({"part"} \X Sockets)
Contents(nt) ==
  [b \in Box |-> IF b[1] = "up" THEN nt.up[b[2]]
                 ELSE IF b[1] = "down" THEN nt.down[b[2]] ELSE <<nt.part[b[2]]>>]

\* The clients that a message of p is about.
Named(p, msg) == Clients \cap ({p} \cup {msg[i].who : i \in DOMAIN msg})

\* No client is named by two messages, and only those that wait are.
Apart(q) ==
  \A b1, b2 \in Box : \A i \in DOMAIN q[b1], j \in DOMAIN q[b2] :
    b1 # b2 \/ i # j => Named(b1[2], q[b1][i]) \cap Named(b2[2], q[b2][j]) = {}
Within(q, set) == \A b \in Box : \A i \in DOMAIN q[b] : Named(b[2], q[b][i]) \subseteq set

-----------------------------------------------------------------------------

\* A client stops when it could not send.
Stopped ==
  \A c \in Clients :
    net.part[c] # <<>> => c \notin waiting /\ count[c] = MaxReq

\* Frames that were left by a receiver are no body.
RestOK ==
  /\ "oom" \notin NetFaults => \A s \in Sockets : rest[s] = <<>>
  /\ \A m \in Readers : \A i, j \in Told(rest[m]) : i = j
  /\ \A i, j, k \in Told(rest[Broker]) : ~(i < j /\ j < k)

\* The requests of a client were handled in order.
CallsOK ==
  /\ \A m \in Readers : calls[m] = <<>>
  /\ \A c \in Clients : \A i \in DOMAIN calls[c] :
       /\ calls[c][i].at = mdt[c]
       /\ calls[c][i].rpc.who = c /\ calls[c][i].rpc.n <= count[c]
       /\ \A j \in 1 .. i - 1 : calls[c][j].rpc.n < calls[c][i].rpc.n

\* What a client that made n requests read, but for the failure it takes: see
\* AnswersOwn.
Owned(c, n, frames) ==
  \A i \in DOMAIN frames :
    Told(frames) = {i} =>
      \/ frames[i] \in {Ack(c), Frame("answer", c, n)}
      \/ frames[i].kind = "id" /\ n = MaxReq
GotOK == \A c \in Clients : Owned(c, count[c], got[c])

TransportIInv ==
  /\ TransportTypeOK
  /\ Forms(net, count, calls)
  /\ Apart(Contents(net))
  /\ Within(Contents(net), waiting)
  /\ Stopped
  /\ RestOK
  /\ CallsOK
  /\ GotOK

-----------------------------------------------------------------------------
(***************************************************************************)
(* What failures cost.                                                     *)
(***************************************************************************)

\* A message that carries the request or the answer of c, and nothing else.
UpCarries(msg, c) == Len(msg) = 4 /\ msg[4].who = c
DownCarries(msg, c) ==
  \/ Len(msg) = 2 /\ msg[2].who = c
  \/ Len(msg) = 4 /\ msg[4].kind = "request" /\ msg[4].who = c

Carried(nt) ==
  {c \in Clients : \E p \in Peers :
     \/ \E i \in DOMAIN nt.up[p] : UpCarries(nt.up[p][i], c)
     \/ \E i \in DOMAIN nt.down[p] : DownCarries(nt.down[p][i], c)}

\* The sockets of the broker and of the readers with a message that was begun:
\* it will damage the next one.
Open(nt) == {s \in Sockets : nt.part[s] # <<>>}

\* Each failure of zmq_send() or in lcapnet_req_update() pays for one client whose
\* call is lost, or for one message that peer_rpc_send() has begun and that will
\* be glued to the next one: what is lost, and what will be, never exceeds the
\* number of failures.  With TransportIInv it is inductive.
LossesPaid == Cardinality(waiting \ Carried(net)) + Cardinality(Open(net)) <= nfaults
=============================================================================
