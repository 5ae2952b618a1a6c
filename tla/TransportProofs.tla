-------------------------- MODULE TransportProofs --------------------------
(***************************************************************************)
(* Proofs about Transport, for any clients and readers, any number of      *)
(* requests, and any number of failures of one kind.                       *)
(***************************************************************************)
EXTENDS TransportInv, SequenceTheorems, WellFoundedInduction, TLAPS

\* The broker is no peer, and no peer is both a client and a reader.
LEMMA PeersApart ==
  /\ Broker \notin Peers
  /\ \A m \in Readers : m \notin Clients /\ m # Broker
  /\ \A s \in Sockets : s \notin Clients
  BY TransportAssumption DEF TransportAssumption, Peers, Sockets

\* What the frames hold.
LEMMA FrameFacts ==
  /\ \A p \in Peers : Id(p) \in FrameType /\ Ack(p) \in FrameType
                      /\ Id(p).who = p /\ Id(p).kind = "id" /\ Id(p) # Empty
                      /\ Ack(p).who = p /\ Ack(p).kind = "ack" /\ Ack(p) # Empty
  /\ Empty \in FrameType /\ Empty.who = Broker /\ Empty.kind = "empty"
  /\ \A k \in {"request", "answer", "signal"} : \A p \in Peers : \A n \in Nat :
       /\ Frame(k, p, n) \in FrameType /\ Frame(k, p, n) # Empty
       /\ Frame(k, p, n).kind = k /\ Frame(k, p, n).who = p /\ Frame(k, p, n).n = n
  BY DEF Id, Ack, Empty, Frame, FrameType

\* An identity is that of one peer.
LEMMA IdOfOne == \A p, q \in Peers : Id(p) = Id(q) => p = q
  BY DEF Id, Frame

\* An answer is a body for its peer.
LEMMA AnswerFacts ==
  ASSUME NEW cnt \in [Clients -> 0 .. MaxReq], NEW p \in Peers, NEW b \in Answers(cnt, p)
  PROVE  b \in FrameType /\ b # Empty /\ b.who = p /\ b.kind \in {"answer", "ack"}
  <1>1. CASE b = Ack(p)
    BY <1>1, FrameFacts
  <1>2. CASE p \in Clients /\ b = Frame("answer", p, cnt[p])
    <2>1. cnt[p] \in Nat
      BY <1>2, TransportAssumption DEF TransportAssumption
    <2> QED
      BY <1>2, <2>1, FrameFacts
  <1> QED
    BY <1>1, <1>2 DEF Answers

\* A request is a body for its client.
LEMMA RequestFacts ==
  ASSUME NEW cnt \in [Clients -> 0 .. MaxReq], NEW c \in Clients
  PROVE  /\ Request(cnt, c) \in FrameType /\ Request(cnt, c) # Empty
         /\ Request(cnt, c).kind = "request" /\ Request(cnt, c).who = c
         /\ Request(cnt, c).n = cnt[c]
  BY FrameFacts, TransportAssumption DEF TransportAssumption, Request, Peers

\* The least of a set of natural numbers.
LEMMA MinIs ==
  ASSUME NEW S, S \subseteq Nat, NEW i \in S, \A j \in S : i <= j
  PROVE  Min(S) = i
  <1>1. Min(S) = CHOOSE x \in S : \A y \in S : x <= y
    BY Zenon DEF Min
  <1>2. Min(S) \in S /\ \A y \in S : Min(S) <= y
    BY <1>1, Zenon
  <1>3. Min(S) \in Nat /\ i \in Nat /\ Min(S) <= i /\ i <= Min(S)
    BY <1>2
  <1> HIDE DEF Min
  <1> QED
    BY <1>3

\* That of one number.
LEMMA MinOne ==
  ASSUME NEW i \in Nat
  PROVE  Min({i}) = i
  <1>1. PICK S : S = {i}
    OBVIOUS
  <1>2. S \subseteq Nat /\ i \in S /\ \A j \in S : i <= j
    BY <1>1
  <1>3. Min(S) = i
    BY <1>2, MinIs
  <1> QED
    BY <1>1, <1>3

\* There is one.
LEMMA MinIn ==
  ASSUME NEW S, S \subseteq Nat, S # {}
  PROVE  Min(S) \in S /\ \A j \in S : Min(S) <= j
  <1> DEFINE R == OpToRel(<, Nat)
  <1>1. IsWellFoundedOn(R, Nat)
    BY NatLessThanWellFounded
  <1> HIDE DEF R
  <1>2. PICK x \in S : \A y \in S : ~ (<<y, x>> \in R)
    BY <1>1, WFMin
  <1>3. \A m, n \in Nat : m < n => <<m, n>> \in R
    BY DEF R, OpToRel
  <1>4. ASSUME NEW y \in S PROVE x <= y
    <2>1. x \in Nat /\ y \in Nat
      OBVIOUS
    <2>2. ~ (y < x)
      BY <1>2, <1>3, <2>1
    <2> QED
      BY <2>1, <2>2
  <1> QED
    BY <1>4, MinIs

-----------------------------------------------------------------------------
(***************************************************************************)
(* What lcapnet_req_update() makes of a message.                           *)
(***************************************************************************)

\* A request at the broker.
LEMMA ReadRequest ==
  ASSUME NEW f1, NEW f3, NEW f4, f1 # Empty, f3 # Empty, f4 # Empty,
         NEW msg, msg = <<f1, Empty, f3, f4>>
  PROVE  /\ Told(msg) = {1, 3, 4} /\ Later(Told(msg)) = {3, 4}
         /\ Body(Broker, msg) = {4}
         /\ Min(Told(msg)) = 1 /\ Min(Later(Told(msg))) = 3 /\ Min(Body(Broker, msg)) = 4
  <1>1. Told(msg) = {1, 3, 4}
    BY DEF Told
  <1>2. Later({1, 3, 4}) = {3, 4} /\ Later({3, 4}) = {4}
    BY DEF Later
  <1>3. Body(Broker, msg) = {4}
    BY <1>1, <1>2 DEF Body
  <1>4. Min({1, 3, 4}) = 1 /\ Min({3, 4}) = 3 /\ Min({4}) = 4
    BY MinIs
  <1> QED
    BY <1>1, <1>2, <1>3, <1>4

\* An answer at the broker.
LEMMA ReadAnswer ==
  ASSUME NEW f1, NEW f2, NEW f4, f1 # Empty, f2 # Empty, f4 # Empty,
         NEW msg, msg = <<f1, f2, Empty, f4>>
  PROVE  /\ Told(msg) = {1, 2, 4} /\ Later(Told(msg)) = {2, 4}
         /\ Body(Broker, msg) = {4}
         /\ Min(Told(msg)) = 1 /\ Min(Later(Told(msg))) = 2 /\ Min(Body(Broker, msg)) = 4
  <1>1. Told(msg) = {1, 2, 4}
    BY DEF Told
  <1>2. Later({1, 2, 4}) = {2, 4} /\ Later({2, 4}) = {4}
    BY DEF Later
  <1>3. Body(Broker, msg) = {4}
    BY <1>1, <1>2 DEF Body
  <1>4. Min({1, 2, 4}) = 1 /\ Min({2, 4}) = 2 /\ Min({4}) = 4
    BY MinIs
  <1> QED
    BY <1>1, <1>2, <1>3, <1>4

\* A request at a reader.
LEMMA ReadForwarded ==
  ASSUME NEW m \in Readers, NEW f2, NEW f4, f2 # Empty, f4 # Empty,
         NEW msg, msg = <<Empty, f2, Empty, f4>>
  PROVE  /\ Told(msg) = {2, 4} /\ Body(m, msg) = {4}
         /\ Min(Told(msg)) = 2 /\ Min(Body(m, msg)) = 4
  <1>1. Told(msg) = {2, 4}
    BY DEF Told
  <1>2. Later({2, 4}) = {4}
    BY DEF Later
  <1>3. Body(m, msg) = {4}
    BY <1>1, <1>2, PeersApart DEF Body
  <1>4. Min({2, 4}) = 2 /\ Min({4}) = 4
    BY MinIs
  <1> QED
    BY <1>1, <1>2, <1>3, <1>4

\* An answer at a peer.
LEMMA ReadReply ==
  ASSUME NEW b, b # Empty, NEW msg, msg = <<Empty, b>>
  PROVE  /\ Told(msg) = {2} /\ \A m \in Readers : Body(m, msg) = {}
  <1>1. Told(msg) = {2}
    BY DEF Told
  <1>2. Later({2}) = {}
    BY DEF Later
  <1> QED
    BY <1>1, <1>2, PeersApart DEF Body

\* Positions of frames are natural numbers.
LEMMA ToldType ==
  ASSUME NEW msg \in Message
  PROVE  /\ Told(msg) \subseteq Nat /\ Told(msg) \subseteq 1 .. Len(msg)
         /\ Later(Told(msg)) \subseteq Told(msg)
         /\ \A s : Body(s, msg) \subseteq Told(msg)
  BY DEF Told, Later, Body, Message

\* Frames of several messages at the broker are refused, and the error goes to
\* the reader that sent them.
LEMMA ReadGluedUp ==
  ASSUME NEW msg \in Message, Len(msg) >= 5, msg[1] # Empty, msg[2] # Empty,
         msg[Len(msg) - 2] # Empty, msg[Len(msg)] # Empty
  PROVE  /\ Body(Broker, msg) # {} /\ ~Valid(msg, Body(Broker, msg))
         /\ Min(Told(msg)) = 1
  <1> DEFINE n == Len(msg)
  <1>1. n \in Nat /\ DOMAIN msg = 1 .. n
    BY DEF Message
  <1>2. {1, 2, n - 2, n} \subseteq Told(msg)
    BY <1>1 DEF Told
  <1>3. {2, n - 2, n} \subseteq Later(Told(msg))
    BY <1>1, <1>2 DEF Later
  <1>4. {n - 2, n} \subseteq Body(Broker, msg)
    BY <1>1, <1>3 DEF Later, Body
  <1>5. ~Valid(msg, Body(Broker, msg))
    BY <1>1, <1>4 DEF Valid
  <1>6. Min(Told(msg)) = 1
    BY <1>2, ToldType, MinIs
  <1> QED
    BY <1>4, <1>5, <1>6

\* At a reader they are refused as well, and the error goes to some identity in
\* them.
LEMMA ReadGluedDown ==
  ASSUME NEW m \in Readers, NEW msg \in Message, Len(msg) >= 3,
         \A i \in 1 .. Len(msg) - 1 : msg[i] \in Envelope,
         IsBody(msg[Len(msg)]), msg[Len(msg) - 2] # Empty,
         msg[Len(msg)].kind = "request" => Len(msg) >= 5 /\ msg[Len(msg) - 4] # Empty
  PROVE  /\ Body(m, msg) # {}
         /\ ~(Valid(msg, Body(m, msg)) /\ msg[Min(Body(m, msg))].kind = "request")
         /\ \E q \in Peers : \E i \in DOMAIN msg : msg[i] = Id(q) /\ i = Min(Told(msg))
  <1> DEFINE n == Len(msg)
  <1>1. n \in Nat /\ DOMAIN msg = 1 .. n
    BY DEF Message
  <1>2. {n - 2, n} \subseteq Told(msg)
    BY <1>1, FrameFacts DEF Told, IsBody
  <1>3. n \in Later(Told(msg)) /\ Body(m, msg) = Later(Told(msg))
    BY <1>1, <1>2, PeersApart DEF Later, Body
  <1>4. ASSUME Valid(msg, Body(m, msg)), msg[Min(Body(m, msg))].kind = "request"
        PROVE  FALSE
    <2>1. Body(m, msg) = {n}
      BY <1>3, <1>4 DEF Valid
    <2>2. Min({n}) = n
      BY <1>1, MinOne
    <2>3. n - 4 \in Told(msg) /\ n >= 5
      BY <1>1, <1>4, <2>1, <2>2 DEF Told
    <2>4. n - 2 \in Later(Told(msg))
      BY <1>1, <1>2, <2>3 DEF Later
    <2> QED
      BY <1>1, <1>3, <2>1, <2>4
  <1>5. \E q \in Peers : \E i \in DOMAIN msg : msg[i] = Id(q) /\ i = Min(Told(msg))
    <2> DEFINE k == Min(Told(msg))
    <2>1. k \in Told(msg) /\ k <= n - 2
      BY <1>2, ToldType, MinIn
    <2> HIDE DEF k
    <2>2. k \in 1 .. n - 1 /\ msg[k] # Empty
      BY <1>1, <2>1 DEF Told
    <2>3. PICK q \in Peers : msg[k] = Id(q)
      BY <2>2 DEF Envelope
    <2> QED
      BY <1>1, <2>2, <2>3 DEF k
  <1> QED
    BY <1>3, <1>4, <1>5

\* A client finds no RPC in them.
LEMMA ReadGluedReply ==
  ASSUME NEW msg \in Message, Len(msg) >= 3,
         IsBody(msg[Len(msg)]), msg[Len(msg) - 2] # Empty
  PROVE  \A i : Told(msg) # {i}
  <1>1. Len(msg) \in Nat /\ DOMAIN msg = 1 .. Len(msg)
    BY DEF Message
  <1>2. {Len(msg) - 2, Len(msg)} \subseteq Told(msg)
    BY <1>1, FrameFacts DEF Told, IsBody
  <1> QED
    BY <1>1, <1>2

\* What a receiver left is no body.
LEMMA ReadRest ==
  ASSUME RestOK, TransportTypeOK, NEW s \in Sockets
  PROVE  Body(s, rest[s]) = {}
  <1>1. rest[s] \in Message
    BY DEF TransportTypeOK
  <1>2. CASE s = Broker
    BY <1>1, <1>2, ToldType DEF RestOK, Body, Later
  <1>3. CASE s \in Readers /\ s # Broker
    BY <1>1, <1>3, ToldType DEF RestOK, Body, Later
  <1> QED
    BY <1>2, <1>3 DEF Sockets

\* The positions of a suffix are those after it in the message.
LEMMA SuffixTold ==
  ASSUME NEW msg \in Message, NEW j \in 1 .. Len(msg)
  PROVE  /\ SubSeq(msg, j + 1, Len(msg)) \in Message
         /\ \A i \in Told(SubSeq(msg, j + 1, Len(msg))) : i \in Nat /\ i >= 1 /\ i + j \in Told(msg)
  <1> DEFINE n == Len(msg)
             r == SubSeq(msg, j + 1, n)
  <1>1. /\ n \in Nat /\ j \in 1 .. n /\ DOMAIN msg = 1 .. n
        /\ \A i \in 1 .. n : msg[i] \in FrameType
    BY ElementOfSeq DEF Message
  <1>2. /\ r \in Message
        /\ Len(r) = IF j + 1 <= n THEN n - (j + 1) + 1 ELSE 0
        /\ \A i \in 1 .. n - (j + 1) + 1 : r[i] = msg[j + 1 + i - 1]
    BY <1>1, SubSeqProperties DEF Message
  <1> HIDE DEF n, r
  <1>3. DOMAIN r = 1 .. Len(r)
    BY <1>2 DEF Message
  <1>4. ASSUME NEW i \in Told(r) PROVE i \in Nat /\ i >= 1 /\ i + j \in Told(msg)
    <2>1. i \in 1 .. Len(r) /\ r[i] # Empty
      BY <1>3 DEF Told
    <2>2. i \in Nat /\ i >= 1 /\ i <= n - (j + 1) + 1
      BY <1>1, <1>2, <2>1
    <2>3. r[i] = msg[j + 1 + i - 1] /\ j + 1 + i - 1 = i + j
      BY <1>1, <1>2, <2>2
    <2>4. i + j \in 1 .. n
      BY <1>1, <2>2
    <2> QED
      BY <1>1, <2>1, <2>2, <2>3, <2>4 DEF Told
  <1> QED
    BY <1>2, <1>4 DEF n, r

-----------------------------------------------------------------------------
(***************************************************************************)
(* Where the clients are named: taking a message, going on with one that   *)
(* was begun, and finishing it.                                            *)
(***************************************************************************)

Avoids(q, set) ==
  \A b \in Box : \A i \in DOMAIN q[b] : Named(b[2], q[b][i]) \cap set = {}
With(q, b, v) == [q EXCEPT ![b] = v]
AvoidsBut(q, b0, set) ==
  \A b \in Box \ {b0} : \A i \in DOMAIN q[b] : Named(b[2], q[b][i]) \cap set = {}

\* The first message of a box is taken.
LEMMA BoxTake ==
  ASSUME NEW q \in [Box -> Seq(Message)], Apart(q), NEW b0 \in Box, q[b0] # <<>>,
         NEW set, Within(q, set)
  PROVE  /\ With(q, b0, Tail(q[b0])) \in [Box -> Seq(Message)]
         /\ Apart(With(q, b0, Tail(q[b0]))) /\ Within(With(q, b0, Tail(q[b0])), set)
         /\ Avoids(With(q, b0, Tail(q[b0])), Named(b0[2], Head(q[b0])))
         /\ Named(b0[2], Head(q[b0])) \subseteq set
  <1>z. PICK q2 : q2 = With(q, b0, Tail(q[b0]))
    OBVIOUS
  <1> USE <1>z DEF With
  <1>1. /\ Tail(q[b0]) \in Seq(Message)
        /\ Len(Tail(q[b0])) = Len(q[b0]) - 1
        /\ \A i \in 1 .. Len(Tail(q[b0])) : Tail(q[b0])[i] = q[b0][i + 1]
        /\ Head(q[b0]) = q[b0][1] /\ Len(q[b0]) \in Nat /\ Len(q[b0]) >= 1
    BY HeadTailProperties, LenProperties, EmptySeq
  <1>2. q2 \in [Box -> Seq(Message)]
    BY <1>1
  <1>3. \A b \in Box : DOMAIN q[b] = 1 .. Len(q[b]) /\ DOMAIN q2[b] = 1 .. Len(q2[b])
                        /\ Len(q[b]) \in Nat /\ Len(q2[b]) \in Nat
    BY <1>2, LenProperties
  <1>4. /\ \A b \in Box \ {b0} : q2[b] = q[b]
        /\ q2[b0] = Tail(q[b0])
    OBVIOUS
  <1>5. \A i \in DOMAIN q2[b0] : i + 1 \in DOMAIN q[b0] /\ i + 1 # 1 /\ i \in Nat
                                 /\ q2[b0][i] = q[b0][i + 1]
    BY <1>1, <1>3, <1>4
  <1>6. 1 \in DOMAIN q[b0]
    BY <1>1, <1>3
  <1>7. Apart(q2)
    <2> SUFFICES ASSUME NEW b1 \in Box, NEW b2 \in Box, NEW i \in DOMAIN q2[b1],
                        NEW j \in DOMAIN q2[b2], b1 # b2 \/ i # j
                 PROVE  Named(b1[2], q2[b1][i]) \cap Named(b2[2], q2[b2][j]) = {}
      BY DEF Apart
    <2>1. PICK k \in DOMAIN q[b1] : /\ q2[b1][i] = q[b1][k]
                                    /\ k = IF b1 = b0 THEN i + 1 ELSE i
      BY <1>4, <1>5
    <2>2. PICK l \in DOMAIN q[b2] : /\ q2[b2][j] = q[b2][l]
                                    /\ l = IF b2 = b0 THEN j + 1 ELSE j
      BY <1>4, <1>5
    <2>3. b1 # b2 \/ k # l
      BY <1>5, <2>1, <2>2
    <2>4. Named(b1[2], q[b1][k]) \cap Named(b2[2], q[b2][l]) = {}
      BY <2>3 DEF Apart
    <2> QED
      BY <2>1, <2>2, <2>4
  <1>8. Within(q2, set)
    BY <1>4, <1>5 DEF Within
  <1>9. Avoids(q2, Named(b0[2], Head(q[b0])))
    <2> SUFFICES ASSUME NEW b \in Box, NEW i \in DOMAIN q2[b]
                 PROVE  Named(b[2], q2[b][i]) \cap Named(b0[2], q[b0][1]) = {}
      BY <1>1 DEF Avoids
    <2>1. PICK k \in DOMAIN q[b] : q2[b][i] = q[b][k] /\ (b = b0 => k # 1)
      BY <1>4, <1>5
    <2>2. Named(b[2], q[b][k]) \cap Named(b0[2], q[b0][1]) = {}
      BY <1>6, <2>1 DEF Apart
    <2> QED
      BY <2>1, <2>2
  <1>10. Named(b0[2], Head(q[b0])) \subseteq set
    BY <1>1, <1>6 DEF Within
  <1> QED
    BY <1>2, <1>7, <1>8, <1>9, <1>10

\* The frames of a message that was begun are replaced.
LEMMA BoxFill ==
  ASSUME NEW q \in [Box -> Seq(Message)], Apart(q), NEW b0 \in Box,
         NEW msg \in Message, NEW set, Within(q, set), NEW H, H \subseteq set,
         AvoidsBut(q, b0, H), Named(b0[2], msg) \subseteq H
  PROVE  /\ With(q, b0, <<msg>>) \in [Box -> Seq(Message)]
         /\ Apart(With(q, b0, <<msg>>)) /\ Within(With(q, b0, <<msg>>), set) /\ AvoidsBut(With(q, b0, <<msg>>), b0, H)
         /\ Named(b0[2], msg) = {} => Avoids(With(q, b0, <<msg>>), H)
  <1>z. PICK q2 : q2 = With(q, b0, <<msg>>)
    OBVIOUS
  <1> USE <1>z DEF With
  <1>1. q2 \in [Box -> Seq(Message)]
    OBVIOUS
  <1>2. /\ \A b \in Box \ {b0} : q2[b] = q[b]
        /\ q2[b0] = <<msg>> /\ DOMAIN q2[b0] = {1} /\ q2[b0][1] = msg
    OBVIOUS
  <1>3. Apart(q2)
    <2> SUFFICES ASSUME NEW b1 \in Box, NEW b2 \in Box, NEW i \in DOMAIN q2[b1],
                        NEW j \in DOMAIN q2[b2], b1 # b2 \/ i # j
                 PROVE  Named(b1[2], q2[b1][i]) \cap Named(b2[2], q2[b2][j]) = {}
      BY DEF Apart
    <2>1. CASE b1 = b0 /\ b2 = b0
      BY <1>2, <2>1
    <2>2. CASE b1 = b0 /\ b2 # b0
      BY <1>2, <2>2 DEF AvoidsBut
    <2>3. CASE b1 # b0 /\ b2 = b0
      BY <1>2, <2>3 DEF AvoidsBut
    <2>4. CASE b1 # b0 /\ b2 # b0
      BY <1>2, <2>4 DEF Apart
    <2> QED
      BY <2>1, <2>2, <2>3, <2>4
  <1>4. Within(q2, set)
    BY <1>2 DEF Within
  <1>5. AvoidsBut(q2, b0, H)
    BY <1>2 DEF AvoidsBut
  <1>6. Named(b0[2], msg) = {} => Avoids(q2, H)
    BY <1>2, <1>5 DEF Avoids, AvoidsBut
  <1> QED
    BY <1>1, <1>3, <1>4, <1>5, <1>6

\* A message is put at the end of a box.
LEMMA BoxPut ==
  ASSUME NEW q \in [Box -> Seq(Message)], Apart(q), NEW b0 \in Box,
         NEW msg \in Message, NEW set, Within(q, set), Named(b0[2], msg) \subseteq set,
         Avoids(q, Named(b0[2], msg))
  PROVE  /\ With(q, b0, Append(q[b0], msg)) \in [Box -> Seq(Message)]
         /\ Apart(With(q, b0, Append(q[b0], msg))) /\ Within(With(q, b0, Append(q[b0], msg)), set)
  <1>z. PICK q2 : q2 = With(q, b0, Append(q[b0], msg))
    OBVIOUS
  <1> USE <1>z DEF With
  <1>1. /\ q2[b0] = Append(q[b0], msg)
        /\ \A b \in Box \ {b0} : q2[b] = q[b]
    OBVIOUS
  <1>2. /\ q2[b0] \in Seq(Message) /\ Len(q2[b0]) = Len(q[b0]) + 1
        /\ \A i \in 1 .. Len(q[b0]) : q2[b0][i] = q[b0][i]
        /\ q2[b0][Len(q[b0]) + 1] = msg /\ Len(q[b0]) \in Nat
    BY <1>1, AppendProperties, LenProperties
  <1>3. q2 \in [Box -> Seq(Message)]
    BY <1>1, <1>2
  <1>4. /\ DOMAIN q2[b0] = 1 .. Len(q[b0]) + 1
        /\ DOMAIN q[b0] = 1 .. Len(q[b0])
    BY <1>2, LenProperties
  <1>5. \A i \in DOMAIN q2[b0] : \/ i \in DOMAIN q[b0] /\ q2[b0][i] = q[b0][i]
                                 \/ i = Len(q[b0]) + 1 /\ q2[b0][i] = msg
    BY <1>2, <1>4
  <1>6. Apart(q2)
    <2> SUFFICES ASSUME NEW b1 \in Box, NEW b2 \in Box, NEW i \in DOMAIN q2[b1],
                        NEW j \in DOMAIN q2[b2], b1 # b2 \/ i # j
                 PROVE  Named(b1[2], q2[b1][i]) \cap Named(b2[2], q2[b2][j]) = {}
      BY DEF Apart
    <2>1. \/ i \in DOMAIN q[b1] /\ q2[b1][i] = q[b1][i]
          \/ b1 = b0 /\ i = Len(q[b0]) + 1 /\ q2[b1][i] = msg
      BY <1>1, <1>5
    <2>2. \/ j \in DOMAIN q[b2] /\ q2[b2][j] = q[b2][j]
          \/ b2 = b0 /\ j = Len(q[b0]) + 1 /\ q2[b2][j] = msg
      BY <1>1, <1>5
    <2> QED
      BY <2>1, <2>2 DEF Apart, Avoids
  <1>7. Within(q2, set)
    BY <1>1, <1>5 DEF Within
  <1> QED
    BY <1>3, <1>6, <1>7

-----------------------------------------------------------------------------
(***************************************************************************)
(* What is sent.                                                           *)
(***************************************************************************)

\* What peer_rpc_send() is given: an answer, or, in the broker, a request.  The
\* clients in it are among those of the message that is being handled.
IsAnswer(cnt, frames, set) ==
  \E q \in Peers : \E b \in Answers(cnt, q) :
    frames = <<Id(q), Empty, b>> /\ {q} \cap Clients \subseteq set
IsRequest(cnt, cl, frames, set) ==
  \E c \in Clients :
    /\ frames = <<Id(mdt[c]), Empty, Id(c), Empty, Request(cnt, c)>>
    /\ c \in set /\ Fresh(cnt, cl, c)
Sendable(cnt, cl, s, frames, set) ==
  \/ IsAnswer(cnt, frames, set)
  \/ s = Broker /\ IsRequest(cnt, cl, frames, set)

\* Their frames.
LEMMA SendableFrames ==
  ASSUME mdt \in [Clients -> Readers], NEW cnt \in [Clients -> 0 .. MaxReq], NEW cl,
         NEW s \in Sockets, NEW set, NEW frames, Sendable(cnt, cl, s, frames, set)
  PROVE  /\ frames \in Message /\ Len(frames) \in {3, 5}
         /\ frames[1] # Empty
         /\ \A i \in 1 .. Len(frames) - 1 : frames[i] \in Envelope
         /\ IsBody(frames[Len(frames)]) /\ frames[Len(frames)] # Empty
         /\ frames[Len(frames) - 2] # Empty
         /\ frames[Len(frames)].kind = "request" => Len(frames) = 5
         /\ \A i \in 1 .. Len(frames) : frames[i].who \in Clients => frames[i].who \in set
  <1>1. CASE IsAnswer(cnt, frames, set)
    <2>0. PICK q \in Peers : \E b \in Answers(cnt, q) :
                 frames = <<Id(q), Empty, b>> /\ {q} \cap Clients \subseteq set
      BY <1>1 DEF IsAnswer
    <2>1. PICK b \in Answers(cnt, q) :
                 frames = <<Id(q), Empty, b>> /\ {q} \cap Clients \subseteq set
      BY <2>0
    <2>2. b \in FrameType /\ b # Empty /\ b.who = q /\ b.kind \in {"answer", "ack"}
      BY AnswerFacts
    <2>3. frames \in Message /\ Len(frames) = 3
      BY <2>1, <2>2, FrameFacts DEF Message
    <2>4. frames[1] = Id(q) /\ frames[2] = Empty /\ frames[3] = b
      BY <2>1
    <2>5. \A i \in 1 .. 2 : frames[i] \in Envelope
      BY <2>4 DEF Envelope
    <2>6. \A i \in 1 .. 3 : frames[i].who \in Clients => frames[i].who \in set
      BY <2>1, <2>2, <2>4, FrameFacts, PeersApart DEF Peers
    <2> QED
      BY <2>2, <2>3, <2>4, <2>5, <2>6, FrameFacts DEF IsBody
  <1>2. CASE IsRequest(cnt, cl, frames, set)
    <2>1. PICK c \in Clients :
                 frames = <<Id(mdt[c]), Empty, Id(c), Empty, Request(cnt, c)>> /\ c \in set
      BY <1>2 DEF IsRequest
    <2>2. mdt[c] \in Readers /\ mdt[c] \in Peers /\ c \in Peers
      BY DEF Peers
    <2>3. frames \in Message /\ Len(frames) = 5
      BY <2>1, <2>2, FrameFacts, RequestFacts DEF Message
    <2>4. /\ frames[1] = Id(mdt[c]) /\ frames[2] = Empty /\ frames[3] = Id(c)
          /\ frames[4] = Empty /\ frames[5] = Request(cnt, c)
      BY <2>1
    <2>5. \A i \in 1 .. 4 : frames[i] \in Envelope
      BY <2>2, <2>4 DEF Envelope
    <2>6. \A i \in 1 .. 5 : frames[i].who \in Clients => frames[i].who \in set
      <3>1. frames[1].who = mdt[c] /\ frames[2].who = Broker /\ frames[3].who = c
        BY <2>2, <2>4, FrameFacts
      <3>2. frames[4].who = Broker /\ frames[5].who = c
        BY <2>2, <2>4, FrameFacts, RequestFacts
      <3>3. mdt[c] \notin Clients /\ Broker \notin Clients
        BY <2>2, PeersApart DEF Peers
      <3>4. \A i \in 1 .. 5 : i \in {1, 2, 3, 4, 5}
        OBVIOUS
      <3> QED
        BY <2>1, <3>1, <3>2, <3>3, <3>4
    <2> QED
      BY <2>2, <2>3, <2>4, <2>5, <2>6, FrameFacts, RequestFacts DEF IsBody
  <1> QED
    BY <1>1, <1>2 DEF Sendable

\* A message without its first frame.
LEMMA TailOfTuple ==
  /\ \A a, b, c : Tail(<<a, b, c>>) = <<b, c>>
  /\ \A a, b, c, d, e : Tail(<<a, b, c, d, e>>) = <<b, c, d, e>>
  OBVIOUS

\* An identity in front of a message.
LEMMA OneAndThree ==
  ASSUME NEW a, NEW b, NEW c, NEW d
  PROVE  <<a>> \o <<b, c, d>> = <<a, b, c, d>>
  <1> DEFINE S == {a, b, c, d}
             r == <<a>> \o <<b, c, d>>
             t == <<a, b, c, d>>
  <1>1. /\ <<a>> \in Seq(S) /\ <<b, c, d>> \in Seq(S) /\ t \in Seq(S)
        /\ Len(<<a>>) = 1 /\ Len(<<b, c, d>>) = 3 /\ Len(t) = 4
    OBVIOUS
  <1>2. /\ r \in Seq(S) /\ Len(r) = 1 + 3
        /\ \A i \in 1 .. 1 + 3 : r[i] = IF i <= 1 THEN <<a>>[i] ELSE <<b, c, d>>[i - 1]
    BY <1>1, ConcatProperties
  <1> HIDE DEF r
  <1>3. r[1] = t[1] /\ r[2] = t[2] /\ r[3] = t[3] /\ r[4] = t[4]
    BY <1>2
  <1>4. Len(r) = Len(t) /\ \A i \in 1 .. Len(r) : r[i] = t[i]
    BY <1>1, <1>2, <1>3
  <1> HIDE DEF t, S
  <1>5. r = t
    BY <1>1, <1>2, <1>4, SeqEqual
  <1> QED
    BY <1>5 DEF r, t

\* The frames that were sent follow those of the message that was begun.
Joined(part, frames, k) == part \o SubSeq(frames, 1, k)
LEMMA Glue ==
  ASSUME NEW part \in Message, NEW frames \in Message, NEW k \in 0 .. Len(frames)
  PROVE  /\ Joined(part, frames, k) \in Message
         /\ Len(Joined(part, frames, k)) = Len(part) + k
         /\ \A i \in 1 .. Len(part) : Joined(part, frames, k)[i] = part[i]
         /\ \A i \in 1 .. k : Joined(part, frames, k)[Len(part) + i] = frames[i]
         /\ part = <<>> /\ k = Len(frames) => Joined(part, frames, k) = frames
  <1> DEFINE sub == SubSeq(frames, 1, k)
             msg == Joined(part, frames, k)
  <1>1. Len(frames) \in Nat /\ Len(part) \in Nat /\ k \in Nat
    BY DEF Message
  <1>2. \A i \in 1 .. k : frames[i] \in FrameType
    BY <1>1, ElementOfSeq DEF Message
  <1>3. /\ sub \in Message /\ Len(sub) = k
        /\ \A i \in 1 .. k : sub[i] = frames[i]
    <2>1. /\ sub \in Message
          /\ Len(sub) = IF 1 <= k THEN k - 1 + 1 ELSE 0
          /\ \A i \in 1 .. k - 1 + 1 : sub[i] = frames[1 + i - 1]
      BY <1>1, <1>2, SubSeqProperties DEF Message
    <2>2. \A i \in 1 .. k : i \in 1 .. k - 1 + 1 /\ 1 + i - 1 = i
      BY <1>1
    <2> HIDE DEF sub
    <2>3. Len(sub) = k
      BY <1>1, <2>1
    <2>4. \A i \in 1 .. k : sub[i] = frames[i]
      BY <2>1, <2>2, Zenon
    <2> QED
      BY <2>1, <2>3, <2>4
  <1> HIDE DEF sub
  <1>4. /\ msg \in Message /\ Len(msg) = Len(part) + k
        /\ \A i \in 1 .. Len(part) + k :
             msg[i] = IF i <= Len(part) THEN part[i] ELSE sub[i - Len(part)]
    BY <1>3, ConcatProperties DEF Message, Joined, sub
  <1> HIDE DEF msg
  <1>5. \A i \in 1 .. Len(part) : msg[i] = part[i]
    BY <1>1, <1>4
  <1>6. ASSUME NEW i \in 1 .. k PROVE msg[Len(part) + i] = frames[i]
    <2>1. Len(part) + i \in 1 .. Len(part) + k /\ ~(Len(part) + i <= Len(part))
          /\ Len(part) + i - Len(part) = i
      BY <1>1
    <2> QED
      BY <1>3, <1>4, <2>1
  <1>7. ASSUME part = <<>>, k = Len(frames) PROVE msg = frames
    BY <1>7, SubSeqFull, ConcatEmptySeq DEF Message, Joined, msg
  <1> QED
    BY <1>4, <1>5, <1>6, <1>7 DEF msg

\* The clients in it are those of its parts.
LEMMA GlueNamed ==
  ASSUME NEW part \in Message, NEW frames \in Message, NEW k \in 0 .. Len(frames),
         NEW msg, msg = Joined(part, frames, k),
         NEW s \in Sockets, NEW set, Named(s, part) \subseteq set,
         \A i \in 1 .. Len(frames) : frames[i].who \in Clients => frames[i].who \in set
  PROVE  /\ \A i \in 1 .. Len(msg) : msg[i].who \in Clients => msg[i].who \in set
         /\ Named(s, msg) \subseteq set
  <1>1. Len(frames) \in Nat /\ Len(part) \in Nat /\ k \in Nat /\ DOMAIN part = 1 .. Len(part)
    BY DEF Message
  <1>0. /\ msg \in Message /\ Len(msg) = Len(part) + k
        /\ \A i \in 1 .. Len(part) : msg[i] = part[i]
        /\ \A i \in 1 .. k : msg[Len(part) + i] = frames[i]
    BY Glue
  <1>2. ASSUME NEW i \in 1 .. Len(msg), msg[i].who \in Clients PROVE msg[i].who \in set
    <2>1. CASE i <= Len(part)
      <3>1. i \in 1 .. Len(part) /\ i \in DOMAIN part
        BY <1>1, <2>1
      <3>2. msg[i] = part[i]
        BY <1>0, <3>1
      <3> QED
        BY <1>2, <3>1, <3>2 DEF Named
    <2>2. CASE ~(i <= Len(part))
      <3>1. i - Len(part) \in 1 .. k /\ i - Len(part) \in 1 .. Len(frames)
            /\ Len(part) + (i - Len(part)) = i
        BY <1>0, <1>1, <2>2
      <3>2. msg[i] = frames[i - Len(part)]
        BY <1>0, <3>1
      <3> QED
        BY <1>2, <3>1, <3>2
    <2> QED
      BY <2>1, <2>2
  <1>3. DOMAIN msg = 1 .. Len(msg)
    BY <1>0 DEF Message
  <1> QED
    BY <1>2, <1>3, PeersApart DEF Named

\* The broker finishes a message: what its receiver gets.
LEMMA DownFinished ==
  ASSUME mdt \in [Clients -> Readers], NEW cnt \in [Clients -> 0 .. MaxReq], NEW cl,
         NEW set, NEW frames, Sendable(cnt, cl, Broker, frames, set),
         NEW part \in Message, PartOK(part), Named(Broker, part) \subseteq set,
         NEW msg, msg = Joined(part, frames, Len(frames))
  PROVE  /\ msg # <<>> /\ Tail(msg) \in Message
         /\ \E to \in Peers : /\ Head(msg) = Id(to)
                              /\ DownOK(cnt, cl, to, Tail(msg))
                              /\ Named(to, Tail(msg)) \subseteq set
  <1> DEFINE F == Len(frames)
             P == Len(part)
             t == Tail(msg)
  <1>1. Broker \in Sockets
    BY DEF Sockets
  <1>2. /\ frames \in Message /\ F \in {3, 5}
        /\ frames[1] # Empty
        /\ \A i \in 1 .. F - 1 : frames[i] \in Envelope
        /\ IsBody(frames[F]) /\ frames[F] # Empty
        /\ frames[F - 2] # Empty
        /\ frames[F].kind = "request" => F = 5
        /\ \A i \in 1 .. F : frames[i].who \in Clients => frames[i].who \in set
    BY <1>1, SendableFrames
  <1>3. /\ P \in Nat /\ DOMAIN part = 1 .. P /\ F \in 0 .. F
    BY <1>2 DEF Message
  <1>4. /\ msg \in Message /\ Len(msg) = P + F
        /\ \A i \in 1 .. P : msg[i] = part[i]
        /\ \A i \in 1 .. F : msg[P + i] = frames[i]
        /\ part = <<>> => msg = frames
    BY <1>2, <1>3, Glue
  <1>5. \A i \in 1 .. Len(msg) : msg[i].who \in Clients => msg[i].who \in set
    BY <1>1, <1>2, <1>3, GlueNamed
  <1>6. /\ msg # <<>> /\ t \in Message /\ Len(t) = Len(msg) - 1
        /\ \A i \in 1 .. Len(t) : t[i] = msg[i + 1]
        /\ Head(msg) = msg[1]
    <2>1. Len(msg) \in Nat /\ Len(msg) # 0
      BY <1>2, <1>3, <1>4
    <2>2. msg # <<>>
      BY <2>1, EmptySeq
    <2> QED
      BY <1>4, <2>2, HeadTailProperties DEF Message
  <1> HIDE DEF F, P, t
  <1>7. PICK to \in Peers : msg[1] = Id(to)
    <2>1. CASE P = 0
      <3>1. 1 \in 1 .. F - 1 /\ 1 \in 1 .. F /\ P + 1 = 1
        BY <1>2, <2>1
      <3> QED
        BY <1>2, <1>4, <3>1 DEF Envelope
    <2>2. CASE P > 0
      <3>1. part # <<>> /\ 1 \in 1 .. P
        BY <1>3, <2>2 DEF P
      <3>2. part[1] \in Envelope /\ part[1] # Empty
        BY <1>3, <3>1 DEF PartOK
      <3> QED
        BY <1>4, <3>1, <3>2 DEF Envelope
    <2>3. P = 0 \/ P > 0
      BY <1>3
    <2> QED
      BY <2>1, <2>2, <2>3, Zenon
  <1>8. Named(to, t) \subseteq set
    <2>1. to \in Clients => to \in set
      <3>1. 1 \in 1 .. Len(msg) /\ msg[1].who = to
        BY <1>2, <1>3, <1>4, <1>7, FrameFacts
      <3> QED
        BY <1>5, <3>1
    <2>2. DOMAIN t = 1 .. Len(t) /\ \A i \in 1 .. Len(t) : i + 1 \in 1 .. Len(msg)
      BY <1>2, <1>3, <1>4, <1>6 DEF Message
    <2>3. \A i \in 1 .. Len(t) : t[i].who \in Clients => t[i].who \in set
      BY <1>5, <1>6, <2>2
    <2> QED
      BY <2>1, <2>2, <2>3 DEF Named
  <1>9. DownOK(cnt, cl, to, t)
    <2>1. CASE part = <<>>
      <3>1. msg = frames
        BY <1>4, <2>1
      <3>2. CASE IsAnswer(cnt, frames, set)
        <4>1. PICK q \in Peers : \E b \in Answers(cnt, q) : frames = <<Id(q), Empty, b>>
          BY <3>2 DEF IsAnswer
        <4>2. PICK b \in Answers(cnt, q) : frames = <<Id(q), Empty, b>>
          BY <4>1
        <4>3. t = <<Empty, b>> /\ to = q
          <5>1. t = <<Empty, b>> /\ msg[1] = Id(q)
            <6>1. t = Tail(<<Id(q), Empty, b>>)
              BY <3>1, <4>2 DEF t
            <6> QED
              BY <3>1, <4>2, <6>1, TailOfTuple
          <5> QED
            BY <1>7, <5>1, IdOfOne
        <4> QED
          BY <4>3 DEF DownOK
      <3>3. CASE IsRequest(cnt, cl, frames, set)
        <4>1. PICK c \in Clients :
                /\ frames = <<Id(mdt[c]), Empty, Id(c), Empty, Request(cnt, c)>>
                /\ Fresh(cnt, cl, c)
          BY <3>3 DEF IsRequest
        <4>2. t = <<Empty, Id(c), Empty, Request(cnt, c)>>
          <5>1. t = Tail(<<Id(mdt[c]), Empty, Id(c), Empty, Request(cnt, c)>>)
            BY <3>1, <4>1 DEF t
          <5> QED
            BY <5>1, TailOfTuple
        <4>3. to = mdt[c]
          <5>1. msg[1] = Id(mdt[c]) /\ mdt[c] \in Peers
            BY <3>1, <4>1 DEF Peers
          <5> QED
            BY <1>7, <5>1, IdOfOne
        <4> QED
          BY <4>1, <4>2, <4>3 DEF DownOK
      <3> QED
        BY <3>2, <3>3 DEF Sendable
    <2>2. CASE part # <<>>
      <3>1. P >= 1 /\ "send" \in NetFaults
        BY <1>3, <2>2, EmptySeq DEF PartOK, P, Message
      <3>2. Len(t) = P + F - 1 /\ Len(t) >= 3 /\ Len(t) \in Nat
        BY <1>2, <1>3, <1>4, <1>6, <3>1
      <3>3. ASSUME NEW i \in 1 .. Len(t) - 1 PROVE t[i] \in Envelope
        <4>1. t[i] = msg[i + 1]
          BY <1>6, <3>2
        <4>2. CASE i + 1 <= P
          BY <1>3, <1>4, <4>1, <4>2 DEF PartOK
        <4>3. CASE ~(i + 1 <= P)
          <5>1. i + 1 - P \in 1 .. F - 1 /\ i + 1 - P \in 1 .. F /\ P + (i + 1 - P) = i + 1
            <6>1. F \in Nat /\ P \in Nat /\ i \in Nat /\ i >= 1 /\ i <= P + F - 2
              BY <1>2, <1>3, <3>2
            <6> QED
              BY <4>3, <6>1
          <5>2. msg[i + 1] = frames[i + 1 - P] /\ frames[i + 1 - P] \in Envelope
            BY <1>2, <1>4, <5>1
          <5> QED
            BY <4>1, <5>2
        <4> QED
          BY <4>2, <4>3
      <3>4. t[Len(t)] = frames[F]
        BY <1>2, <1>3, <1>4, <1>6, <3>1, <3>2
      <3>5. t[Len(t) - 2] = frames[F - 2]
        <4>1. Len(t) - 2 \in 1 .. Len(t) /\ Len(t) - 2 + 1 = P + (F - 2) /\ F - 2 \in 1 .. F
          BY <1>2, <1>3, <3>1, <3>2
        <4> QED
          BY <1>4, <1>6, <4>1
      <3>6. F = 5 => Len(t) >= 5 /\ t[Len(t) - 4] = frames[1]
        <4> SUFFICES ASSUME F = 5 PROVE Len(t) >= 5 /\ t[Len(t) - 4] = frames[1]
          OBVIOUS
        <4>1. Len(t) >= 5 /\ Len(t) - 4 \in 1 .. Len(t) /\ Len(t) - 4 + 1 = P + 1 /\ 1 \in 1 .. F
          BY <1>3, <3>1, <3>2
        <4>2. t[Len(t) - 4] = msg[P + 1] /\ msg[P + 1] = frames[1]
          BY <1>4, <1>6, <4>1
        <4> QED
          BY <4>1, <4>2
      <3>7. frames[1] # Empty
        BY <1>2, FrameFacts
      <3> QED
        BY <1>2, <3>1, <3>2, <3>3, <3>4, <3>5, <3>6, <3>7 DEF DownOK
    <2> QED
      BY <2>1, <2>2
  <1> QED
    BY <1>6, <1>7, <1>8, <1>9 DEF t

\* A reader finishes a message: what the broker gets.
WithId(p, msg) == <<Id(p)>> \o msg
LEMMA UpFinished ==
  ASSUME mdt \in [Clients -> Readers], NEW cnt \in [Clients -> 0 .. MaxReq], NEW cl,
         NEW m \in Readers, NEW set, NEW frames, Sendable(cnt, cl, m, frames, set),
         NEW part \in Message, PartOK(part), Named(m, part) \subseteq set
  PROVE  /\ WithId(m, Joined(part, frames, Len(frames))) \in Message
         /\ UpOK(cnt, cl, m, WithId(m, Joined(part, frames, Len(frames))))
         /\ Named(m, WithId(m, Joined(part, frames, Len(frames)))) \subseteq set
  <1> DEFINE P == Len(part)
             msg == Joined(part, frames, Len(frames))
  <1>0. PICK up : up = WithId(m, msg)
    OBVIOUS
  <1>1. m \in Sockets /\ m \in Peers /\ m # Broker /\ m \notin Clients
    BY PeersApart DEF Sockets, Peers
  <1>2. IsAnswer(cnt, frames, set)
    BY <1>1 DEF Sendable
  <1>3. PICK q \in Peers : \E b \in Answers(cnt, q) : frames = <<Id(q), Empty, b>>
    BY <1>2 DEF IsAnswer
  <1>4. PICK b \in Answers(cnt, q) : frames = <<Id(q), Empty, b>>
    BY <1>3
  <1>5. frames \in Message /\ Len(frames) = 3 /\ frames[1] = Id(q) /\ frames[3] = b
        /\ frames[1] # Empty /\ frames[3] # Empty
        /\ \A i \in 1 .. Len(frames) : frames[i].who \in Clients => frames[i].who \in set
    <2>1. /\ frames \in Message
          /\ \A i \in 1 .. Len(frames) : frames[i].who \in Clients => frames[i].who \in set
      BY <1>1, SendableFrames
    <2>2. Len(frames) = 3 /\ frames[1] = Id(q) /\ frames[3] = b
      BY <1>4
    <2>3. b # Empty /\ Id(q) # Empty
      BY AnswerFacts, FrameFacts
    <2> QED
      BY <2>1, <2>2, <2>3
  <1>6. P \in Nat /\ Len(frames) \in 0 .. Len(frames)
    BY <1>5 DEF Message
  <1>7. /\ msg \in Message /\ Len(msg) = P + 3
        /\ \A i \in 1 .. P : msg[i] = part[i]
        /\ \A i \in 1 .. 3 : msg[P + i] = frames[i]
        /\ part = <<>> => msg = frames
    <2>1. /\ msg \in Message /\ Len(msg) = P + Len(frames)
          /\ \A i \in 1 .. P : msg[i] = part[i]
          /\ \A i \in 1 .. Len(frames) : msg[P + i] = frames[i]
          /\ part = <<>> => msg = frames
      BY <1>5, <1>6, Glue
    <2> QED
      BY <1>5, <2>1
  <1>8. \A i \in 1 .. Len(msg) : msg[i].who \in Clients => msg[i].who \in set
    BY <1>1, <1>5, <1>6, GlueNamed
  <1> HIDE DEF msg, P
  <1>9. <<Id(m)>> \in Message /\ Len(<<Id(m)>>) = 1 /\ <<Id(m)>>[1] = Id(m)
    BY <1>1, FrameFacts DEF Message
  <1>10. /\ up \in Message /\ Len(up) = P + 4 /\ up[1] = Id(m)
         /\ \A i \in 1 .. P + 3 : up[i + 1] = msg[i]
    <2>1. /\ up \in Message /\ Len(up) = 1 + (P + 3)
          /\ \A i \in 1 .. 1 + (P + 3) :
               up[i] = IF i <= 1 THEN <<Id(m)>>[i] ELSE msg[i - 1]
      BY <1>0, <1>7, <1>9, ConcatProperties DEF Message, WithId, msg
    <2>2. \A i \in 1 .. P + 3 : i + 1 \in 1 .. 1 + (P + 3) /\ ~(i + 1 <= 1) /\ i + 1 - 1 = i
      BY <1>6
    <2>3. \A i \in 1 .. P + 3 : up[i + 1] = msg[i]
      BY <2>1, <2>2
    <2>4. 1 \in 1 .. 1 + (P + 3) /\ 1 <= 1 /\ 1 + (P + 3) = P + 4
      BY <1>6
    <2> QED
      BY <1>9, <2>1, <2>3, <2>4
  <1>11. Named(m, up) \subseteq set
    <2>1. DOMAIN up = 1 .. P + 4
      BY <1>10 DEF Message
    <2>2. ASSUME NEW i \in 1 .. P + 4, up[i].who \in Clients PROVE up[i].who \in set
      <3>1. CASE i = 1
        BY <1>1, <1>10, <2>2, <3>1, FrameFacts
      <3>2. CASE i # 1
        <4>1. i - 1 \in 1 .. P + 3 /\ i - 1 + 1 = i
          BY <1>6, <3>2
        <4>2. up[i] = msg[i - 1]
          BY <1>10, <4>1
        <4> QED
          BY <1>7, <1>8, <2>2, <4>1, <4>2
      <3> QED
        BY <3>1, <3>2
    <2> QED
      BY <1>1, <2>1, <2>2 DEF Named
  <1>12. UpOK(cnt, cl, m, up)
    <2>1. CASE part = <<>>
      <3>1. up = <<Id(m)>> \o <<Id(q), Empty, b>>
        BY <1>0, <1>4, <1>7, <2>1 DEF WithId, msg
      <3>2. up = <<Id(m), Id(q), Empty, b>>
        BY <3>1, OneAndThree
      <3> QED
        BY <3>2 DEF UpOK
    <2>2. CASE part # <<>>
      <3>1. P >= 1 /\ "send" \in NetFaults /\ part[1] # Empty
        BY <2>2, EmptySeq DEF PartOK, P, Message
      <3>2. up[2] = part[1]
        <4>1. 1 \in 1 .. P /\ 1 \in 1 .. P + 3 /\ 1 + 1 = 2
          BY <1>6, <3>1
        <4> QED
          BY <1>7, <1>10, <4>1
      <3>3. up[Len(up) - 2] = frames[1]
        <4>1. P + 1 \in 1 .. P + 3 /\ Len(up) - 2 = P + 1 + 1 /\ 1 \in 1 .. 3
          BY <1>6, <1>10
        <4> QED
          BY <1>7, <1>10, <4>1
      <3>4. up[Len(up)] = frames[3]
        <4>1. P + 3 \in 1 .. P + 3 /\ Len(up) = P + 3 + 1 /\ 3 \in 1 .. 3
          BY <1>6, <1>10
        <4> QED
          BY <1>7, <1>10, <4>1
      <3>5. Len(up) >= 5
        BY <1>6, <1>10, <3>1
      <3> QED
        BY <1>5, <1>10, <3>1, <3>2, <3>3, <3>4, <3>5 DEF UpOK
    <2> QED
      BY <2>1, <2>2
  <1> QED
    BY <1>0, <1>10, <1>11, <1>12 DEF msg

\* A message that is not finished.
LEMMA PartGrows ==
  ASSUME mdt \in [Clients -> Readers], NEW cnt \in [Clients -> 0 .. MaxReq], NEW cl,
         NEW s \in Sockets, NEW set, NEW frames, Sendable(cnt, cl, s, frames, set),
         NEW part \in Message, PartOK(part), Named(s, part) \subseteq set,
         NEW k \in 0 .. Len(frames), k < Len(frames), "send" \in NetFaults
  PROVE  /\ Joined(part, frames, k) \in Message
         /\ PartOK(Joined(part, frames, k))
         /\ Named(s, Joined(part, frames, k)) \subseteq set
  <1> DEFINE P == Len(part)
             msg == Joined(part, frames, k)
  <1>1. /\ frames \in Message /\ Len(frames) \in Nat
        /\ frames[1] # Empty
        /\ \A i \in 1 .. Len(frames) - 1 : frames[i] \in Envelope
        /\ \A i \in 1 .. Len(frames) : frames[i].who \in Clients => frames[i].who \in set
    <2>1. frames \in Message /\ Len(frames) \in {3, 5} /\ frames[1] # Empty
      BY SendableFrames
    <2>2. \A i \in 1 .. Len(frames) - 1 : frames[i] \in Envelope
      BY SendableFrames
    <2>3. \A i \in 1 .. Len(frames) : frames[i].who \in Clients => frames[i].who \in set
      BY SendableFrames
    <2> QED
      BY <2>1, <2>2, <2>3
  <1>2. P \in Nat /\ DOMAIN part = 1 .. P /\ k \in Nat
    BY DEF Message
  <1>3. /\ msg \in Message /\ Len(msg) = P + k
        /\ \A i \in 1 .. P : msg[i] = part[i]
        /\ \A i \in 1 .. k : msg[P + i] = frames[i]
    BY <1>1, Glue
  <1>4. Named(s, msg) \subseteq set
    BY <1>1, GlueNamed
  <1> HIDE DEF msg, P
  <1>5. DOMAIN msg = 1 .. P + k
    BY <1>3 DEF Message
  <1>6. ASSUME NEW i \in 1 .. P + k PROVE msg[i] \in Envelope
    <2>1. CASE i <= P
      <3>1. i \in 1 .. P /\ i \in DOMAIN part
        BY <1>2, <2>1
      <3> QED
        BY <1>3, <3>1 DEF PartOK
    <2>2. CASE ~(i <= P)
      <3>1. i - P \in 1 .. k /\ i - P \in 1 .. Len(frames) - 1 /\ P + (i - P) = i
        BY <1>1, <1>2, <2>2
      <3> QED
        BY <1>1, <1>3, <3>1
    <2> QED
      BY <2>1, <2>2
  <1>7. ASSUME msg # <<>> PROVE msg[1] # Empty
    <2>1. P + k >= 1
      BY <1>2, <1>3, <1>7, EmptySeq DEF Message
    <2>2. CASE P = 0
      <3>1. 1 \in 1 .. k /\ P + 1 = 1
        BY <1>2, <2>1, <2>2
      <3> QED
        BY <1>1, <1>3, <3>1
    <2>3. CASE P # 0
      <3>1. 1 \in 1 .. P /\ part # <<>>
        BY <1>2, <2>3 DEF P
      <3> QED
        BY <1>3, <3>1 DEF PartOK
    <2> QED
      BY <2>2, <2>3
  <1>8. PartOK(msg)
    BY <1>5, <1>6, <1>7 DEF PartOK
  <1> QED
    BY <1>3, <1>4, <1>8 DEF msg

-----------------------------------------------------------------------------
(***************************************************************************)
(* Steps of the sockets.                                                   *)
(***************************************************************************)

GoodNet(nt, cnt, cl, set) ==
  /\ nt \in NetType
  /\ Forms(nt, cnt, cl)
  /\ Apart(Contents(nt))
  /\ Within(Contents(nt), set)

\* The clients of a message that s handles are named nowhere else but in what s
\* has begun to send.
Held(nt, s, set) ==
  /\ AvoidsBut(Contents(nt), <<"part", s>>, set)
  /\ Named(s, nt.part[s]) \subseteq set

\* What clients have begun to send.
SameParts(nt, nt2) == \A c \in Clients : nt2.part[c] = nt.part[c]

\* The boxes of the sockets.
LEMMA ContentsAt ==
  ASSUME NEW nt \in NetType
  PROVE  /\ Contents(nt) \in [Box -> Seq(Message)]
         /\ \A p \in Peers : /\ <<"up", p>> \in Box /\ <<"down", p>> \in Box
                             /\ Contents(nt)[<<"up", p>>] = nt.up[p]
                             /\ Contents(nt)[<<"down", p>>] = nt.down[p]
         /\ \A s \in Sockets : /\ <<"part", s>> \in Box
                               /\ Contents(nt)[<<"part", s>>] = <<nt.part[s]>>
  <1>1. \A s \in Sockets : s \in Peers \cup {Broker}
    BY DEF Sockets, Peers
  <1>2. /\ nt.up \in [Peers -> Seq(Message)] /\ nt.down \in [Peers -> Seq(Message)]
        /\ nt.part \in [Peers \cup {Broker} -> Message]
    BY DEF NetType
  <1>3. \A s \in Sockets : nt.part[s] \in Message /\ <<nt.part[s]>> \in Seq(Message)
    BY <1>1, <1>2
  <1>4. \A p \in Peers : <<"up", p>> \in Box /\ <<"down", p>> \in Box
    BY DEF Box
  <1>5. \A s \in Sockets : <<"part", s>> \in Box
    BY DEF Box
  <1>6. ASSUME NEW b \in Box
        PROVE  \/ b[1] = "up" /\ b[2] \in Peers
               \/ b[1] = "down" /\ b[2] \in Peers
               \/ b[1] = "part" /\ b[2] \in Sockets
    BY DEF Box
  <1>7. Contents(nt) \in [Box -> Seq(Message)]
    BY <1>2, <1>3, <1>6 DEF Contents
  <1>8. \A p \in Peers : /\ Contents(nt)[<<"up", p>>] = nt.up[p]
                        /\ Contents(nt)[<<"down", p>>] = nt.down[p]
    BY <1>4 DEF Contents
  <1>9. \A s \in Sockets : Contents(nt)[<<"part", s>>] = <<nt.part[s]>>
    BY <1>5 DEF Contents
  <1> QED
    BY <1>4, <1>5, <1>7, <1>8, <1>9

\* How they change.
SetUp(nt, p, v)     == [nt EXCEPT !.up[p] = v]
SetDown(nt, p, v)   == [nt EXCEPT !.down[p] = v]
SetPart(nt, s, msg) == [nt EXCEPT !.part[s] = msg]

LEMMA ContentsUp ==
  ASSUME NEW nt \in NetType, NEW p \in Peers, NEW v \in Seq(Message)
  PROVE  /\ SetUp(nt, p, v) \in NetType /\ SetUp(nt, p, v).part = nt.part /\ SetUp(nt, p, v).down = nt.down
         /\ SetUp(nt, p, v).up = [nt.up EXCEPT ![p] = v]
         /\ Contents(SetUp(nt, p, v)) = With(Contents(nt), <<"up", p>>, v)
  <1>z. PICK nt2 : nt2 = SetUp(nt, p, v)
    OBVIOUS
  <1> USE <1>z DEF With, SetUp, SetDown, SetPart
  <1>1. /\ nt2 \in NetType /\ nt2.part = nt.part /\ nt2.down = nt.down
        /\ nt2.up = [nt.up EXCEPT ![p] = v]
    BY DEF NetType
  <1>2. nt2.up[p] = v /\ \A r \in Peers \ {p} : nt2.up[r] = nt.up[r]
    BY <1>1 DEF NetType
  <1>3. ASSUME NEW b \in Box
        PROVE  \/ b = <<"up", b[2]>> /\ b[1] = "up" /\ b[2] \in Peers
               \/ b[1] # "up" /\ b # <<"up", p>>
    BY DEF Box
  <1>4. \A b \in Box : Contents(nt2)[b] =
                         IF b = <<"up", p>> THEN v ELSE Contents(nt)[b]
    BY <1>1, <1>2, <1>3 DEF Contents
  <1>5. Contents(nt) \in [Box -> Seq(Message)] /\ Contents(nt2) \in [Box -> Seq(Message)]
    BY <1>1, ContentsAt
  <1> QED
    BY <1>1, <1>4, <1>5

LEMMA ContentsDown ==
  ASSUME NEW nt \in NetType, NEW p \in Peers, NEW v \in Seq(Message)
  PROVE  /\ SetDown(nt, p, v) \in NetType /\ SetDown(nt, p, v).part = nt.part /\ SetDown(nt, p, v).up = nt.up
         /\ SetDown(nt, p, v).down = [nt.down EXCEPT ![p] = v]
         /\ Contents(SetDown(nt, p, v)) = With(Contents(nt), <<"down", p>>, v)
  <1>z. PICK nt2 : nt2 = SetDown(nt, p, v)
    OBVIOUS
  <1> USE <1>z DEF With, SetUp, SetDown, SetPart
  <1>1. /\ nt2 \in NetType /\ nt2.part = nt.part /\ nt2.up = nt.up
        /\ nt2.down = [nt.down EXCEPT ![p] = v]
    BY DEF NetType
  <1>2. nt2.down[p] = v /\ \A r \in Peers \ {p} : nt2.down[r] = nt.down[r]
    BY <1>1 DEF NetType
  <1>3. ASSUME NEW b \in Box
        PROVE  \/ b = <<"down", b[2]>> /\ b[1] = "down" /\ b[2] \in Peers
               \/ b[1] # "down" /\ b # <<"down", p>>
    BY DEF Box
  <1>4. \A b \in Box : Contents(nt2)[b] =
                         IF b = <<"down", p>> THEN v ELSE Contents(nt)[b]
    BY <1>1, <1>2, <1>3 DEF Contents
  <1>5. Contents(nt) \in [Box -> Seq(Message)] /\ Contents(nt2) \in [Box -> Seq(Message)]
    BY <1>1, ContentsAt
  <1> QED
    BY <1>1, <1>4, <1>5

LEMMA ContentsPart ==
  ASSUME NEW nt \in NetType, NEW s \in Sockets \cup Clients, NEW msg \in Message
  PROVE  /\ SetPart(nt, s, msg) \in NetType /\ SetPart(nt, s, msg).up = nt.up /\ SetPart(nt, s, msg).down = nt.down
         /\ SetPart(nt, s, msg).part = [nt.part EXCEPT ![s] = msg]
         /\ s \in Sockets => Contents(SetPart(nt, s, msg)) = With(Contents(nt), <<"part", s>>, <<msg>>)
         /\ s \in Clients => Contents(SetPart(nt, s, msg)) = Contents(nt)
  <1>z. PICK nt2 : nt2 = SetPart(nt, s, msg)
    OBVIOUS
  <1> USE <1>z DEF With, SetUp, SetDown, SetPart
  <1>0. s \in Peers \cup {Broker}
    BY DEF Sockets, Peers
  <1>1. /\ nt2 \in NetType /\ nt2.up = nt.up /\ nt2.down = nt.down
        /\ nt2.part = [nt.part EXCEPT ![s] = msg]
    BY <1>0 DEF NetType
  <1>2. nt2.part[s] = msg /\ \A r \in (Peers \cup {Broker}) \ {s} : nt2.part[r] = nt.part[r]
    BY <1>0, <1>1 DEF NetType
  <1>3. ASSUME NEW b \in Box
        PROVE  \/ b = <<"part", b[2]>> /\ b[1] = "part" /\ b[2] \in Sockets
               \/ b[1] \in {"up", "down"} /\ b # <<"part", s>>
    BY DEF Box
  <1>4. \A r \in Sockets : r \in Peers \cup {Broker} /\ r \notin Clients
    BY PeersApart DEF Sockets, Peers
  <1>5. Contents(nt) \in [Box -> Seq(Message)] /\ Contents(nt2) \in [Box -> Seq(Message)]
    BY <1>1, ContentsAt
  <1>6. ASSUME s \in Sockets
        PROVE  Contents(nt2) = With(Contents(nt), <<"part", s>>, <<msg>>)
    <2>1. \A b \in Box : Contents(nt2)[b] =
                          IF b = <<"part", s>> THEN <<msg>> ELSE Contents(nt)[b]
      BY <1>1, <1>2, <1>3, <1>4 DEF Contents
    <2> QED
      BY <1>5, <2>1
  <1>7. ASSUME s \in Clients
        PROVE  Contents(nt2) = Contents(nt)
    <2>1. \A b \in Box : Contents(nt2)[b] = Contents(nt)[b]
      BY <1>1, <1>2, <1>3, <1>4, <1>7 DEF Contents
    <2>2. \A f, g \in [Box -> Seq(Message)] : (\A b \in Box : f[b] = g[b]) => f = g
      OBVIOUS
    <2> QED
      BY <1>5, <2>1, <2>2, Zenon
  <1> QED
    BY <1>1, <1>6, <1>7

\* Some frames are sent and the message is not finished.
LEMMA SendSome ==
  ASSUME mdt \in [Clients -> Readers], NEW cnt \in [Clients -> 0 .. MaxReq], NEW cl,
         NEW set, NEW nt, GoodNet(nt, cnt, cl, set),
         NEW s \in Sockets, NEW H, H \subseteq set, Held(nt, s, H),
         NEW frames, Sendable(cnt, cl, s, frames, H),
         NEW k \in 0 .. Len(frames), k < Len(frames), "send" \in NetFaults,
         NEW nt2, nt2 = AfterSend(nt, s, frames, k)
  PROVE  GoodNet(nt2, cnt, cl, set) /\ Held(nt2, s, H) /\ SameParts(nt, nt2)
  <1> DEFINE msg == Joined(nt.part[s], frames, k)
  <1>1. nt \in NetType /\ s \in Peers \cup {Broker} /\ nt.part[s] \in Message
    BY DEF GoodNet, NetType, Sockets, Peers
  <1>2. PartOK(nt.part[s]) /\ Named(s, nt.part[s]) \subseteq H
    BY DEF GoodNet, Forms, Held
  <1>3. msg \in Message /\ PartOK(msg) /\ Named(s, msg) \subseteq H
    BY <1>1, <1>2, PartGrows
  <1>4. nt2 = SetPart(nt, s, msg)
    BY DEF AfterSend, Joined, SetPart
  <1> HIDE DEF msg
  <1>5. /\ nt2 \in NetType /\ nt2.up = nt.up /\ nt2.down = nt.down
        /\ nt2.part = [nt.part EXCEPT ![s] = msg]
        /\ Contents(nt2) = With(Contents(nt), <<"part", s>>, <<msg>>)
    BY <1>1, <1>3, <1>4, ContentsPart
  <1>6. nt2.part[s] = msg /\ \A r \in Sockets \ {s} : nt2.part[r] = nt.part[r]
    BY <1>1, <1>5 DEF NetType, Sockets, Peers
  <1>7. Forms(nt2, cnt, cl)
    BY <1>3, <1>5, <1>6 DEF GoodNet, Forms
  <1>8. /\ Contents(nt) \in [Box -> Seq(Message)] /\ <<"part", s>> \in Box
        /\ Apart(Contents(nt)) /\ Within(Contents(nt), set)
        /\ AvoidsBut(Contents(nt), <<"part", s>>, H)
    BY <1>1, ContentsAt DEF GoodNet, Held
  <1>9. Named(<<"part", s>>[2], msg) \subseteq H
    BY <1>3
  <1>10. /\ Apart(Contents(nt2)) /\ Within(Contents(nt2), set)
         /\ AvoidsBut(Contents(nt2), <<"part", s>>, H)
    <2>1. PICK b0 \in Box : b0 = <<"part", s>>
      BY <1>8
    <2>2. /\ Apart(With(Contents(nt), b0, <<msg>>))
          /\ Within(With(Contents(nt), b0, <<msg>>), set)
          /\ AvoidsBut(With(Contents(nt), b0, <<msg>>), b0, H)
      BY <1>3, <1>8, <1>9, <2>1, BoxFill
    <2> QED
      BY <1>5, <2>1, <2>2
  <1>11. SameParts(nt, nt2)
    BY <1>1, <1>5, PeersApart DEF SameParts, NetType, Peers
  <1> QED
    BY <1>3, <1>5, <1>6, <1>7, <1>10, <1>11 DEF GoodNet, Held

\* The part of a message that is finished is reset.
LEMMA PartReset ==
  ASSUME NEW cnt, NEW cl, NEW set, NEW nt, GoodNet(nt, cnt, cl, set),
         NEW s \in Sockets, NEW H, H \subseteq set, Held(nt, s, H),
         NEW nt1, nt1 = SetPart(nt, s, <<>>)
  PROVE  /\ GoodNet(nt1, cnt, cl, set) /\ Avoids(Contents(nt1), H)
         /\ nt1.up = nt.up /\ nt1.down = nt.down
         /\ nt1.part = [nt.part EXCEPT ![s] = <<>>]
  <1>1. nt \in NetType /\ s \in Peers \cup {Broker} /\ <<>> \in Message
    BY DEF GoodNet, NetType, Sockets, Peers, Message
  <1>2. /\ nt1 \in NetType /\ nt1.up = nt.up /\ nt1.down = nt.down
        /\ nt1.part = [nt.part EXCEPT ![s] = <<>>]
        /\ Contents(nt1) = With(Contents(nt), <<"part", s>>, << <<>> >>)
    BY <1>1, ContentsPart
  <1>3. nt1.part[s] = <<>> /\ \A r \in Sockets \ {s} : nt1.part[r] = nt.part[r]
    BY <1>1, <1>2 DEF NetType, Sockets, Peers
  <1>4. PartOK(<<>>)
    BY DEF PartOK
  <1>5. Forms(nt1, cnt, cl)
    BY <1>2, <1>3, <1>4 DEF GoodNet, Forms
  <1>6. /\ Contents(nt) \in [Box -> Seq(Message)] /\ <<"part", s>> \in Box
        /\ Apart(Contents(nt)) /\ Within(Contents(nt), set)
        /\ AvoidsBut(Contents(nt), <<"part", s>>, H)
    BY <1>1, ContentsAt DEF GoodNet, Held
  <1>7. Named(<<"part", s>>[2], <<>>) = {} /\ Named(<<"part", s>>[2], <<>>) \subseteq H
    BY PeersApart DEF Named
  <1>8. /\ Apart(Contents(nt1)) /\ Within(Contents(nt1), set)
        /\ Avoids(Contents(nt1), H)
    BY <1>1, <1>2, <1>6, <1>7, BoxFill
  <1> QED
    BY <1>2, <1>5, <1>8 DEF GoodNet

\* A message arrives at the broker, or at a peer.
LEMMA PutUp ==
  ASSUME NEW cnt, NEW cl, NEW set, NEW nt, GoodNet(nt, cnt, cl, set),
         NEW p \in Peers, NEW msg \in Message, UpOK(cnt, cl, p, msg),
         Named(p, msg) \subseteq set, Avoids(Contents(nt), Named(p, msg)),
         NEW nt2, nt2 = SetUp(nt, p, Append(nt.up[p], msg))
  PROVE  GoodNet(nt2, cnt, cl, set)
  <1>1. nt \in NetType /\ nt.up[p] \in Seq(Message)
    BY DEF GoodNet, NetType
  <1>2. Append(nt.up[p], msg) \in Seq(Message)
    BY <1>1, AppendProperties
  <1>3. /\ nt2 \in NetType /\ nt2.part = nt.part /\ nt2.down = nt.down
        /\ nt2.up = [nt.up EXCEPT ![p] = Append(nt.up[p], msg)]
        /\ Contents(nt2) = With(Contents(nt), <<"up", p>>, Append(nt.up[p], msg))
    BY <1>1, <1>2, ContentsUp
  <1>4. /\ Contents(nt) \in [Box -> Seq(Message)] /\ <<"up", p>> \in Box
        /\ Contents(nt)[<<"up", p>>] = nt.up[p] /\ <<"up", p>>[2] = p
        /\ Apart(Contents(nt)) /\ Within(Contents(nt), set)
    BY <1>1, ContentsAt DEF GoodNet
  <1>5. Contents(nt2) = With(Contents(nt), <<"up", p>>, Append(Contents(nt)[<<"up", p>>], msg))
    BY <1>3, <1>4
  <1>6. Apart(Contents(nt2)) /\ Within(Contents(nt2), set)
    <2>1. Named(<<"up", p>>[2], msg) \subseteq set /\ Avoids(Contents(nt), Named(<<"up", p>>[2], msg))
      BY <1>4
    <2> QED
      BY <1>4, <1>5, <2>1, BoxPut
  <1>7. nt2.up[p] = Append(nt.up[p], msg) /\ \A r \in Peers \ {p} : nt2.up[r] = nt.up[r]
    BY <1>1, <1>2, <1>3 DEF NetType
  <1>8. \A i \in DOMAIN nt2.up[p] : nt2.up[p][i] = msg \/ (i \in DOMAIN nt.up[p] /\ nt2.up[p][i] = nt.up[p][i])
    BY <1>1, <1>7, AppendProperties, LenProperties
  <1>9. Forms(nt2, cnt, cl)
    BY <1>3, <1>7, <1>8 DEF GoodNet, Forms
  <1> QED
    BY <1>3, <1>6, <1>9 DEF GoodNet

LEMMA PutDown ==
  ASSUME NEW cnt, NEW cl, NEW set, NEW nt, GoodNet(nt, cnt, cl, set),
         NEW p \in Peers, NEW msg \in Message, DownOK(cnt, cl, p, msg),
         Named(p, msg) \subseteq set, Avoids(Contents(nt), Named(p, msg)),
         NEW nt2, nt2 = SetDown(nt, p, Append(nt.down[p], msg))
  PROVE  GoodNet(nt2, cnt, cl, set)
  <1>1. nt \in NetType /\ nt.down[p] \in Seq(Message)
    BY DEF GoodNet, NetType
  <1>2. Append(nt.down[p], msg) \in Seq(Message)
    BY <1>1, AppendProperties
  <1>3. /\ nt2 \in NetType /\ nt2.part = nt.part /\ nt2.up = nt.up
        /\ nt2.down = [nt.down EXCEPT ![p] = Append(nt.down[p], msg)]
        /\ Contents(nt2) = With(Contents(nt), <<"down", p>>, Append(nt.down[p], msg))
    BY <1>1, <1>2, ContentsDown
  <1>4. /\ Contents(nt) \in [Box -> Seq(Message)] /\ <<"down", p>> \in Box
        /\ Contents(nt)[<<"down", p>>] = nt.down[p] /\ <<"down", p>>[2] = p
        /\ Apart(Contents(nt)) /\ Within(Contents(nt), set)
    BY <1>1, ContentsAt DEF GoodNet
  <1>5. Contents(nt2) = With(Contents(nt), <<"down", p>>, Append(Contents(nt)[<<"down", p>>], msg))
    BY <1>3, <1>4
  <1>6. Apart(Contents(nt2)) /\ Within(Contents(nt2), set)
    <2>1. Named(<<"down", p>>[2], msg) \subseteq set /\ Avoids(Contents(nt), Named(<<"down", p>>[2], msg))
      BY <1>4
    <2> QED
      BY <1>4, <1>5, <2>1, BoxPut
  <1>7. nt2.down[p] = Append(nt.down[p], msg) /\ \A r \in Peers \ {p} : nt2.down[r] = nt.down[r]
    BY <1>1, <1>2, <1>3 DEF NetType
  <1>8. \A i \in DOMAIN nt2.down[p] : nt2.down[p][i] = msg \/ (i \in DOMAIN nt.down[p] /\ nt2.down[p][i] = nt.down[p][i])
    BY <1>1, <1>7, AppendProperties, LenProperties
  <1>9. Forms(nt2, cnt, cl)
    BY <1>3, <1>7, <1>8 DEF GoodNet, Forms
  <1> QED
    BY <1>3, <1>6, <1>9 DEF GoodNet

\* The message is finished.
LEMMA SendAll ==
  ASSUME mdt \in [Clients -> Readers], NEW cnt \in [Clients -> 0 .. MaxReq], NEW cl,
         NEW set, NEW nt, GoodNet(nt, cnt, cl, set),
         NEW s \in Sockets, NEW H, H \subseteq set, Held(nt, s, H),
         NEW frames, Sendable(cnt, cl, s, frames, H),
         NEW nt2, nt2 = AfterSend(nt, s, frames, Len(frames))
  PROVE  GoodNet(nt2, cnt, cl, set) /\ SameParts(nt, nt2)
  <1> DEFINE msg == Joined(nt.part[s], frames, Len(frames))
  <1>1. nt \in NetType /\ s \in Peers \cup {Broker} /\ nt.part[s] \in Message
    BY DEF GoodNet, NetType, Sockets, Peers
  <1>2. PartOK(nt.part[s]) /\ Named(s, nt.part[s]) \subseteq H
    BY DEF GoodNet, Forms, Held
  <1>a. PICK nt1 : nt1 = SetPart(nt, s, <<>>)
    OBVIOUS
  <1>3. /\ GoodNet(nt1, cnt, cl, set) /\ Avoids(Contents(nt1), H)
        /\ nt1.up = nt.up /\ nt1.down = nt.down
        /\ nt1.part = [nt.part EXCEPT ![s] = <<>>]
    BY <1>a, PartReset
  <1>4. Len(frames) \in Nat
    BY SendableFrames DEF Message
  <1>5. nt2 = [Deliver(nt, s, msg) EXCEPT !.part[s] = <<>>]
    BY <1>4 DEF AfterSend, Joined
  <1> HIDE DEF msg
  <1>6. SameParts(nt, nt1)
    BY <1>1, <1>3, PeersApart DEF SameParts, NetType, Peers
  <1>7. CASE s = Broker
    <2>1. /\ Tail(msg) \in Message
          /\ \E to \in Peers : /\ Head(msg) = Id(to)
                               /\ DownOK(cnt, cl, to, Tail(msg))
                               /\ Named(to, Tail(msg)) \subseteq H
      BY <1>1, <1>2, <1>7, DownFinished DEF msg
    <2>2. PICK to \in Peers : /\ Head(msg) = Id(to)
                              /\ DownOK(cnt, cl, to, Tail(msg))
                              /\ Named(to, Tail(msg)) \subseteq H
      BY <2>1
    <2>3. Head(msg).kind = "id" /\ Head(msg).who = to
      BY <2>2, FrameFacts
    <2>4. Deliver(nt, s, msg) = [nt EXCEPT !.down[to] = Append(@, Tail(msg))]
      BY <1>7, <2>3 DEF Deliver
    <2>5. nt2 = SetDown(nt1, to, Append(nt1.down[to], Tail(msg)))
      BY <1>1, <1>5, <1>a, <2>4 DEF SetDown, SetPart, NetType
    <2>6. Avoids(Contents(nt1), Named(to, Tail(msg))) /\ Named(to, Tail(msg)) \subseteq set
      BY <1>3, <2>2 DEF Avoids
    <2>7. GoodNet(nt2, cnt, cl, set)
      BY <1>3, <2>1, <2>2, <2>5, <2>6, PutDown
    <2>8. nt2.part = nt1.part
      BY <1>3, <2>5 DEF SetDown, GoodNet, NetType
    <2> QED
      BY <1>6, <2>7, <2>8 DEF SameParts
  <1>8. CASE s \in Readers
    <2>a. PICK up : up = WithId(s, msg)
      OBVIOUS
    <2>1. s \in Peers /\ s \notin Clients /\ s # Broker
      BY <1>8, PeersApart DEF Peers
    <2>2. up \in Message /\ UpOK(cnt, cl, s, up) /\ Named(s, up) \subseteq H
      <3>1. PICK part \in Message : part = nt.part[s]
        BY <1>1
      <3>2. PartOK(part) /\ Named(s, part) \subseteq H
        BY <1>2, <3>1
      <3>3. up = WithId(s, Joined(part, frames, Len(frames)))
        BY <2>a, <3>1 DEF msg
      <3> QED
        BY <1>8, <3>2, <3>3, UpFinished
    <2>3. <<Id(s)>> \o <<>> = <<Id(s)>>
      BY <2>1, FrameFacts, ConcatEmptySeq
    <2>4. Deliver(nt, s, msg) = [nt EXCEPT !.up[s] = Append(@, up)]
      BY <2>1, <2>3, <2>a DEF Deliver, WithId
    <2>5. nt2 = SetUp(nt1, s, Append(nt1.up[s], up))
      BY <1>1, <1>5, <1>a, <2>1, <2>4 DEF SetUp, SetPart, NetType
    <2>6. Avoids(Contents(nt1), Named(s, up)) /\ Named(s, up) \subseteq set
      BY <1>3, <2>2 DEF Avoids
    <2>7. GoodNet(nt2, cnt, cl, set)
      BY <1>3, <2>1, <2>2, <2>5, <2>6, PutUp
    <2>8. nt2.part = nt1.part
      BY <1>3, <2>5 DEF SetUp, GoodNet, NetType
    <2> QED
      BY <1>6, <2>7, <2>8 DEF SameParts
  <1> QED
    BY <1>7, <1>8 DEF Sockets

\* A message is taken from a socket.
LEMMA TakeUp ==
  ASSUME NEW cnt, NEW cl, NEW set, NEW nt, GoodNet(nt, cnt, cl, set),
         NEW p \in Peers, nt.up[p] # <<>>,
         NEW nt2, nt2 = SetUp(nt, p, Tail(nt.up[p]))
  PROVE  /\ GoodNet(nt2, cnt, cl, set) /\ SameParts(nt, nt2)
         /\ Head(nt.up[p]) \in Message /\ UpOK(cnt, cl, p, Head(nt.up[p]))
         /\ Named(p, Head(nt.up[p])) \subseteq set
         /\ Avoids(Contents(nt2), Named(p, Head(nt.up[p])))
  <1>1. nt \in NetType /\ nt.up[p] \in Seq(Message)
    BY DEF GoodNet, NetType
  <1>2. /\ Tail(nt.up[p]) \in Seq(Message) /\ Head(nt.up[p]) \in Message
        /\ Len(Tail(nt.up[p])) = Len(nt.up[p]) - 1
        /\ \A i \in 1 .. Len(Tail(nt.up[p])) : Tail(nt.up[p])[i] = nt.up[p][i + 1]
        /\ Head(nt.up[p]) = nt.up[p][1]
    BY <1>1, HeadTailProperties
  <1>3. /\ nt2 \in NetType /\ nt2.part = nt.part /\ nt2.down = nt.down
        /\ nt2.up = [nt.up EXCEPT ![p] = Tail(nt.up[p])]
        /\ Contents(nt2) = With(Contents(nt), <<"up", p>>, Tail(nt.up[p]))
    BY <1>1, <1>2, ContentsUp
  <1>4. /\ Contents(nt) \in [Box -> Seq(Message)] /\ <<"up", p>> \in Box
        /\ Contents(nt)[<<"up", p>>] = nt.up[p]
        /\ Apart(Contents(nt)) /\ Within(Contents(nt), set)
    BY <1>1, ContentsAt DEF GoodNet
  <1>5. PICK b0 \in Box : b0 = <<"up", p>>
    BY <1>4
  <1>6. b0[2] = p /\ Contents(nt)[b0] = nt.up[p] /\ Contents(nt)[b0] # <<>>
        /\ Contents(nt2) = With(Contents(nt), b0, Tail(Contents(nt)[b0]))
    BY <1>3, <1>4, <1>5
  <1>7. /\ Apart(Contents(nt2)) /\ Within(Contents(nt2), set)
        /\ Avoids(Contents(nt2), Named(b0[2], Head(Contents(nt)[b0])))
        /\ Named(b0[2], Head(Contents(nt)[b0])) \subseteq set
    BY <1>4, <1>6, BoxTake
  <1>8. nt2.up[p] = Tail(nt.up[p]) /\ \A r \in Peers \ {p} : nt2.up[r] = nt.up[r]
    BY <1>1, <1>3 DEF NetType
  <1>9. Len(nt.up[p]) \in Nat /\ Len(nt.up[p]) >= 1 /\ DOMAIN nt.up[p] = 1 .. Len(nt.up[p])
    BY <1>1, EmptySeq, LenProperties
  <1>10. \A i \in DOMAIN nt2.up[p] : i + 1 \in DOMAIN nt.up[p] /\ nt2.up[p][i] = nt.up[p][i + 1]
    <2>1. DOMAIN Tail(nt.up[p]) = 1 .. Len(nt.up[p]) - 1
      BY <1>2, LenProperties
    <2> SUFFICES ASSUME NEW i \in 1 .. Len(nt.up[p]) - 1
                 PROVE  i + 1 \in 1 .. Len(nt.up[p]) /\ Tail(nt.up[p])[i] = nt.up[p][i + 1]
      BY <1>8, <1>9, <2>1
    <2>2. i \in 1 .. Len(Tail(nt.up[p]))
      BY <1>2
    <2> QED
      BY <1>2, <1>9, <2>2
  <1>11. Forms(nt2, cnt, cl) /\ UpOK(cnt, cl, p, Head(nt.up[p]))
    <2>1. \A r \in Peers : \A i \in DOMAIN nt2.up[r] : UpOK(cnt, cl, r, nt2.up[r][i])
      BY <1>8, <1>10 DEF GoodNet, Forms
    <2>2. UpOK(cnt, cl, p, Head(nt.up[p]))
      BY <1>2, <1>9 DEF GoodNet, Forms
    <2> QED
      BY <1>3, <2>1, <2>2 DEF GoodNet, Forms
  <1> QED
    BY <1>2, <1>3, <1>6, <1>7, <1>11 DEF GoodNet, SameParts

LEMMA TakeDown ==
  ASSUME NEW cnt, NEW cl, NEW set, NEW nt, GoodNet(nt, cnt, cl, set),
         NEW p \in Peers, nt.down[p] # <<>>,
         NEW nt2, nt2 = SetDown(nt, p, Tail(nt.down[p]))
  PROVE  /\ GoodNet(nt2, cnt, cl, set) /\ SameParts(nt, nt2)
         /\ Head(nt.down[p]) \in Message /\ DownOK(cnt, cl, p, Head(nt.down[p]))
         /\ Named(p, Head(nt.down[p])) \subseteq set
         /\ Avoids(Contents(nt2), Named(p, Head(nt.down[p])))
  <1>1. nt \in NetType /\ nt.down[p] \in Seq(Message)
    BY DEF GoodNet, NetType
  <1>2. /\ Tail(nt.down[p]) \in Seq(Message) /\ Head(nt.down[p]) \in Message
        /\ Len(Tail(nt.down[p])) = Len(nt.down[p]) - 1
        /\ \A i \in 1 .. Len(Tail(nt.down[p])) : Tail(nt.down[p])[i] = nt.down[p][i + 1]
        /\ Head(nt.down[p]) = nt.down[p][1]
    BY <1>1, HeadTailProperties
  <1>3. /\ nt2 \in NetType /\ nt2.part = nt.part /\ nt2.up = nt.up
        /\ nt2.down = [nt.down EXCEPT ![p] = Tail(nt.down[p])]
        /\ Contents(nt2) = With(Contents(nt), <<"down", p>>, Tail(nt.down[p]))
    BY <1>1, <1>2, ContentsDown
  <1>4. /\ Contents(nt) \in [Box -> Seq(Message)] /\ <<"down", p>> \in Box
        /\ Contents(nt)[<<"down", p>>] = nt.down[p]
        /\ Apart(Contents(nt)) /\ Within(Contents(nt), set)
    BY <1>1, ContentsAt DEF GoodNet
  <1>5. PICK b0 \in Box : b0 = <<"down", p>>
    BY <1>4
  <1>6. b0[2] = p /\ Contents(nt)[b0] = nt.down[p] /\ Contents(nt)[b0] # <<>>
        /\ Contents(nt2) = With(Contents(nt), b0, Tail(Contents(nt)[b0]))
    BY <1>3, <1>4, <1>5
  <1>7. /\ Apart(Contents(nt2)) /\ Within(Contents(nt2), set)
        /\ Avoids(Contents(nt2), Named(b0[2], Head(Contents(nt)[b0])))
        /\ Named(b0[2], Head(Contents(nt)[b0])) \subseteq set
    BY <1>4, <1>6, BoxTake
  <1>8. nt2.down[p] = Tail(nt.down[p]) /\ \A r \in Peers \ {p} : nt2.down[r] = nt.down[r]
    BY <1>1, <1>3 DEF NetType
  <1>9. Len(nt.down[p]) \in Nat /\ Len(nt.down[p]) >= 1 /\ DOMAIN nt.down[p] = 1 .. Len(nt.down[p])
    BY <1>1, EmptySeq, LenProperties
  <1>10. \A i \in DOMAIN nt2.down[p] : i + 1 \in DOMAIN nt.down[p] /\ nt2.down[p][i] = nt.down[p][i + 1]
    <2>1. DOMAIN Tail(nt.down[p]) = 1 .. Len(nt.down[p]) - 1
      BY <1>2, LenProperties
    <2> SUFFICES ASSUME NEW i \in 1 .. Len(nt.down[p]) - 1
                 PROVE  i + 1 \in 1 .. Len(nt.down[p]) /\ Tail(nt.down[p])[i] = nt.down[p][i + 1]
      BY <1>8, <1>9, <2>1
    <2>2. i \in 1 .. Len(Tail(nt.down[p]))
      BY <1>2
    <2> QED
      BY <1>2, <1>9, <2>2
  <1>11. Forms(nt2, cnt, cl) /\ DownOK(cnt, cl, p, Head(nt.down[p]))
    <2>1. \A r \in Peers : \A i \in DOMAIN nt2.down[r] : DownOK(cnt, cl, r, nt2.down[r][i])
      BY <1>8, <1>10 DEF GoodNet, Forms
    <2>2. DownOK(cnt, cl, p, Head(nt.down[p]))
      BY <1>2, <1>9 DEF GoodNet, Forms
    <2> QED
      BY <1>3, <2>1, <2>2 DEF GoodNet, Forms
  <1> QED
    BY <1>2, <1>3, <1>6, <1>7, <1>11 DEF GoodNet, SameParts

-----------------------------------------------------------------------------
(***************************************************************************)
(* The handlers' messages.                                                 *)
(***************************************************************************)

\* Whatever zmq_send() does with a message, the sockets stay in order.
LEMMA SendsGood ==
  ASSUME mdt \in [Clients -> Readers], NEW cnt \in [Clients -> 0 .. MaxReq], NEW cl,
         NEW set, NEW nt, GoodNet(nt, cnt, cl, set),
         NEW s \in Sockets, NEW H, H \subseteq set, Held(nt, s, H),
         NEW frames, Sendable(cnt, cl, s, frames, H),
         NEW failed, NEW sent \in Sends(nt, s, frames, failed)
  PROVE  /\ GoodNet(sent.net, cnt, cl, set) /\ SameParts(nt, sent.net)
         /\ ~sent.ok => Held(sent.net, s, H)
  <1>1. frames \in Message /\ Len(frames) \in Nat
    <2>1. frames \in Message /\ Len(frames) \in {3, 5}
      BY SendableFrames
    <2> QED
      BY <2>1
  <1>2. PICK k \in 0 .. Len(frames) :
          /\ sent = [ok |-> k = Len(frames), net |-> AfterSend(nt, s, frames, k)]
          /\ k < Len(frames) => "send" \in NetFaults
    <2>1. PICK k \in IF "send" \in NetFaults /\ failed < MaxFaults
                     THEN 0 .. Len(frames) ELSE {Len(frames)} :
            sent = [ok |-> k = Len(frames), net |-> AfterSend(nt, s, frames, k)]
      BY Zenon DEF Sends
    <2>2. k \in 0 .. Len(frames) /\ (k < Len(frames) => "send" \in NetFaults)
      BY <1>1, <2>1
    <2> QED
      BY <2>1, <2>2, Zenon
  <1>3. sent.net = AfterSend(nt, s, frames, k) /\ (sent.ok <=> k = Len(frames))
    BY <1>2
  <1>4. CASE k < Len(frames)
    BY <1>2, <1>3, <1>4, SendSome
  <1>5. CASE k = Len(frames)
    BY <1>3, <1>5, SendAll
  <1> QED
    BY <1>1, <1>4, <1>5

\* The frames of ack_retcode().
LEMMA AckFrames ==
  ASSUME NEW p \in Peers
  PROVE  peer_rpc_send(<<>>, Id(p), Ack(Id(p).who)) = <<Id(p), Empty, Ack(p)>>
  <1>1. Id(p).who = p /\ <<Id(p), Empty, Ack(p)>> \in Message
    BY FrameFacts DEF Message
  <1> QED
    BY <1>1, ConcatEmptySeq DEF peer_rpc_send, Message

LEMMA AckSendable ==
  ASSUME NEW cnt, NEW cl, NEW s, NEW p \in Peers, NEW set, {p} \cap Clients \subseteq set
  PROVE  Sendable(cnt, cl, s, peer_rpc_send(<<>>, Id(p), Ack(Id(p).who)), set)
  BY AckFrames DEF Sendable, IsAnswer, Answers

LEMMA SendableMore ==
  ASSUME NEW cnt, NEW cl, NEW s, NEW frames, NEW N, Sendable(cnt, cl, s, frames, N),
         NEW H, N \subseteq H
  PROVE  Sendable(cnt, cl, s, frames, H)
  BY DEF Sendable, IsAnswer, IsRequest

\* Once a message is read, its clients and those of the message that the
\* receiver began are named nowhere else.
LEMMA HeldNow ==
  ASSUME NEW cnt, NEW cl, NEW set, NEW nt, GoodNet(nt, cnt, cl, set),
         NEW s \in Sockets, NEW N, N \subseteq set, Avoids(Contents(nt), N),
         NEW H, H = N \cup Named(s, nt.part[s])
  PROVE  H \subseteq set /\ Held(nt, s, H)
  <1>1. nt \in NetType /\ Apart(Contents(nt)) /\ Within(Contents(nt), set)
    BY DEF GoodNet
  <1>2. PICK b0 \in Box : b0 = <<"part", s>> /\ Contents(nt)[b0] = <<nt.part[s]>>
    BY <1>1, ContentsAt
  <1>3. b0[2] = s /\ 1 \in DOMAIN Contents(nt)[b0] /\ Contents(nt)[b0][1] = nt.part[s]
    BY <1>2
  <1>4. Named(s, nt.part[s]) \subseteq set
    BY <1>1, <1>3 DEF Within
  <1>5. ASSUME NEW b \in Box \ {b0}, NEW i \in DOMAIN Contents(nt)[b]
        PROVE  Named(b[2], Contents(nt)[b][i]) \cap H = {}
    <2>1. Named(b[2], Contents(nt)[b][i]) \cap Named(b0[2], Contents(nt)[b0][1]) = {}
      BY <1>1, <1>3, <1>5 DEF Apart
    <2>2. Named(b[2], Contents(nt)[b][i]) \cap N = {}
      BY <1>5 DEF Avoids
    <2> QED
      BY <1>3, <2>1, <2>2
  <1>6. AvoidsBut(Contents(nt), b0, H)
    BY <1>5 DEF AvoidsBut
  <1> QED
    BY <1>2, <1>4, <1>6 DEF Held

\* ack_retcode() for a message whose clients are N.
LEMMA JustAckGood ==
  ASSUME mdt \in [Clients -> Readers], NEW cnt \in [Clients -> 0 .. MaxReq], NEW cl,
         NEW set, NEW nt, GoodNet(nt, cnt, cl, set),
         NEW s \in Sockets, NEW N, N \subseteq set, Avoids(Contents(nt), N),
         NEW to \in Peers, {to} \cap Clients \subseteq N, JustAck(nt, s, Id(to))
  PROVE  GoodNet(net', cnt, cl, set) /\ SameParts(nt, net')
  <1>1. PICK H : H = N \cup Named(s, nt.part[s])
    OBVIOUS
  <1>2. H \subseteq set /\ Held(nt, s, H)
    BY <1>1, HeldNow
  <1>3. PICK ack : ack = peer_rpc_send(<<>>, Id(to), Ack(Id(to).who))
    OBVIOUS
  <1>4. Sendable(cnt, cl, s, ack, H)
    BY <1>1, <1>3, AckSendable
  <1>5. PICK sent \in Sends(nt, s, ack, nfaults) : net' = sent.net
    BY <1>3 DEF JustAck
  <1> QED
    BY <1>2, <1>4, <1>5, SendsGood

\* A handler's message, and the ack_retcode() when it fails.
LEMMA SendOrAckGood ==
  ASSUME mdt \in [Clients -> Readers], NEW cnt \in [Clients -> 0 .. MaxReq], NEW cl,
         NEW set, NEW nt, GoodNet(nt, cnt, cl, set),
         NEW s \in Sockets, NEW N, N \subseteq set, Avoids(Contents(nt), N),
         NEW frames, Sendable(cnt, cl, s, frames, N),
         NEW to \in Peers, {to} \cap Clients \subseteq N, SendOrAck(nt, s, frames, Id(to))
  PROVE  GoodNet(net', cnt, cl, set) /\ SameParts(nt, net')
  <1>1. PICK H : H = N \cup Named(s, nt.part[s])
    OBVIOUS
  <1>2. H \subseteq set /\ Held(nt, s, H)
    BY <1>1, HeldNow
  <1>3. PICK ack : ack = peer_rpc_send(<<>>, Id(to), Ack(Id(to).who))
    OBVIOUS
  <1>4. Sendable(cnt, cl, s, ack, H) /\ Sendable(cnt, cl, s, frames, H)
    <2>1. N \subseteq H
      BY <1>1
    <2> QED
      BY <1>3, <2>1, AckSendable, SendableMore
  <1>5. PICK first \in Sends(nt, s, frames, nfaults) :
          \/ first.ok /\ net' = first.net
          \/ /\ ~first.ok
             /\ \E second \in Sends(first.net, s, ack, nfaults + 1) : net' = second.net
    BY <1>3 DEF SendOrAck
  <1>6. /\ GoodNet(first.net, cnt, cl, set) /\ SameParts(nt, first.net)
        /\ ~first.ok => Held(first.net, s, H)
    BY <1>2, <1>4, SendsGood
  <1>7. CASE first.ok /\ net' = first.net
    BY <1>6, <1>7
  <1>8. CASE ~first.ok /\ \E second \in Sends(first.net, s, ack, nfaults + 1) : net' = second.net
    <2>1. PICK second \in Sends(first.net, s, ack, nfaults + 1) : net' = second.net
      BY <1>8
    <2>2. PICK nt1 : nt1 = first.net
      OBVIOUS
    <2>3. GoodNet(nt1, cnt, cl, set) /\ Held(nt1, s, H) /\ second \in Sends(nt1, s, ack, nfaults + 1)
      BY <1>6, <1>8, <2>1, <2>2
    <2>4. GoodNet(second.net, cnt, cl, set) /\ SameParts(nt1, second.net)
      BY <1>2, <1>4, <2>3, SendsGood
    <2> QED
      BY <1>6, <2>1, <2>2, <2>4 DEF SameParts
  <1> QED
    BY <1>5, <1>7, <1>8

-----------------------------------------------------------------------------
(***************************************************************************)
(* What the forms of messages depend on.                                   *)
(***************************************************************************)

\* The messages that do not name a client are the same for any number of its
\* requests and calls.
LEMMA UpStable ==
  ASSUME NEW cnt \in [Clients -> 0 .. MaxReq], NEW cl, NEW c \in Clients,
         NEW p \in Peers, NEW msg, UpOK(cnt, cl, p, msg), c \notin Named(p, msg),
         NEW cnt2, NEW cl2,
         \A d \in Clients \ {c} : cnt2[d] = cnt[d] /\ cl2[d] = cl[d]
  PROVE  UpOK(cnt2, cl2, p, msg)
  <1>1. CASE /\ p \in Clients /\ Fresh(cnt, cl, p)
             /\ msg = <<Id(p), Empty, Id(mdt[p]), Request(cnt, p)>>
    <2>1. p # c
      BY <1>1 DEF Named
    <2>2. Fresh(cnt2, cl2, p) /\ Request(cnt2, p) = Request(cnt, p)
      BY <1>1, <2>1 DEF Fresh, Request
    <2> QED
      BY <1>1, <2>2 DEF UpOK
  <1>2. CASE /\ p \in Readers
             /\ \E q \in Peers : \E b \in Answers(cnt, q) : msg = <<Id(p), Id(q), Empty, b>>
    <2>1. PICK q \in Peers : \E b \in Answers(cnt, q) : msg = <<Id(p), Id(q), Empty, b>>
      BY <1>2
    <2>2. PICK b \in Answers(cnt, q) : msg = <<Id(p), Id(q), Empty, b>>
      BY <2>1
    <2>3. q # c
      <3>1. 2 \in DOMAIN msg /\ msg[2].who = q
        BY <2>2, FrameFacts
      <3> QED
        BY <3>1 DEF Named
    <2>4. Answers(cnt2, q) = Answers(cnt, q)
      BY <2>3 DEF Answers
    <2> QED
      BY <1>2, <2>2, <2>4 DEF UpOK
  <1> QED
    BY <1>1, <1>2 DEF UpOK

LEMMA DownStable ==
  ASSUME NEW cnt \in [Clients -> 0 .. MaxReq], NEW cl, NEW c \in Clients,
         NEW p \in Peers, NEW msg, DownOK(cnt, cl, p, msg), c \notin Named(p, msg),
         NEW cnt2, NEW cl2,
         \A d \in Clients \ {c} : cnt2[d] = cnt[d] /\ cl2[d] = cl[d]
  PROVE  DownOK(cnt2, cl2, p, msg)
  <1>1. CASE \E d \in Clients : /\ p = mdt[d] /\ Fresh(cnt, cl, d)
                                /\ msg = <<Empty, Id(d), Empty, Request(cnt, d)>>
    <2>1. PICK d \in Clients : /\ p = mdt[d] /\ Fresh(cnt, cl, d)
                               /\ msg = <<Empty, Id(d), Empty, Request(cnt, d)>>
      BY <1>1
    <2>2. d # c
      <3>1. 2 \in DOMAIN msg /\ msg[2].who = d
        BY <2>1, FrameFacts DEF Peers
      <3> QED
        BY <3>1 DEF Named
    <2>3. Fresh(cnt2, cl2, d) /\ Request(cnt2, d) = Request(cnt, d)
      BY <2>1, <2>2 DEF Fresh, Request
    <2> QED
      BY <2>1, <2>3 DEF DownOK
  <1>2. CASE \E b \in Answers(cnt, p) : msg = <<Empty, b>>
    <2>1. p # c
      BY DEF Named
    <2>2. Answers(cnt2, p) = Answers(cnt, p)
      BY <2>1 DEF Answers
    <2> QED
      BY <1>2, <2>2 DEF DownOK
  <1> QED
    BY <1>1, <1>2 DEF DownOK

LEMMA FormsStable ==
  ASSUME NEW cnt \in [Clients -> 0 .. MaxReq], NEW cl, NEW c \in Clients,
         NEW set, NEW nt, GoodNet(nt, cnt, cl, set), Avoids(Contents(nt), {c}),
         NEW cnt2, NEW cl2,
         \A d \in Clients \ {c} : cnt2[d] = cnt[d] /\ cl2[d] = cl[d]
  PROVE  GoodNet(nt, cnt2, cl2, set)
  <1>1. nt \in NetType /\ Forms(nt, cnt, cl)
    BY DEF GoodNet
  <1>2. ASSUME NEW p \in Peers, NEW i \in DOMAIN nt.up[p]
        PROVE  UpOK(cnt2, cl2, p, nt.up[p][i])
    <2>1. PICK b0 \in Box : b0[2] = p /\ Contents(nt)[b0] = nt.up[p]
      BY <1>1, ContentsAt
    <2>2. c \notin Named(p, nt.up[p][i])
      BY <1>2, <2>1 DEF Avoids
    <2>3. UpOK(cnt, cl, p, nt.up[p][i])
      BY <1>1, <1>2 DEF Forms
    <2> QED
      BY <2>2, <2>3, UpStable
  <1>3. ASSUME NEW p \in Peers, NEW i \in DOMAIN nt.down[p]
        PROVE  DownOK(cnt2, cl2, p, nt.down[p][i])
    <2>1. PICK b0 \in Box : b0[2] = p /\ Contents(nt)[b0] = nt.down[p]
      BY <1>1, ContentsAt
    <2>2. c \notin Named(p, nt.down[p][i])
      BY <1>3, <2>1 DEF Avoids
    <2>3. DownOK(cnt, cl, p, nt.down[p][i])
      BY <1>1, <1>3 DEF Forms
    <2> QED
      BY <2>2, <2>3, DownStable
  <1>4. Forms(nt, cnt2, cl2)
    BY <1>1, <1>2, <1>3 DEF Forms
  <1> QED
    BY <1>4 DEF GoodNet

-----------------------------------------------------------------------------
(***************************************************************************)
(* Steps.                                                                  *)
(***************************************************************************)

LEMMA InvNet ==
  ASSUME TransportIInv
  PROVE  GoodNet(net, count, calls, waiting)
  BY DEF TransportIInv, TransportTypeOK, GoodNet

\* No step changes the MDT of a client, on which the forms depend.
LEMMA SameForms ==
  ASSUME mdt' = mdt, Forms(net', count', calls')
  PROVE  Forms(net, count, calls)'
  BY DEF Forms, UpOK, DownOK

\* The steps of the broker and of the readers.
LEMMA ServerStep ==
  ASSUME TransportIInv, UNCHANGED <<mdt, waiting, count, got>>,
         GoodNet(net', count, calls', waiting), SameParts(net, net'),
         rest' \in [Sockets -> Message], RestOK',
         calls' \in [Peers -> Seq(CallType)], CallsOK'
  PROVE  TransportIInv'
  <1>1. Forms(net, count, calls)'
    BY SameForms DEF GoodNet
  <1>2. TransportTypeOK'
    BY DEF TransportIInv, TransportTypeOK, GoodNet
  <1>3. Apart(Contents(net))' /\ Within(Contents(net), waiting)'
    BY DEF GoodNet
  <1>4. Stopped'
    BY DEF TransportIInv, Stopped, SameParts
  <1>5. GotOK'
    BY DEF TransportIInv, GotOK
  <1> QED
    BY <1>1, <1>2, <1>3, <1>4, <1>5 DEF TransportIInv

\* The steps that handle no request.
LEMMA SameCalls ==
  ASSUME TransportIInv, UNCHANGED <<mdt, waiting, count, calls, got>>,
         GoodNet(net', count, calls, waiting), SameParts(net, net'),
         rest' \in [Sockets -> Message], RestOK'
  PROVE  TransportIInv'
  <1>1. calls' \in [Peers -> Seq(CallType)] /\ CallsOK'
    BY DEF TransportIInv, TransportTypeOK, CallsOK
  <1>2. GoodNet(net', count, calls', waiting)
    OBVIOUS
  <1> QED
    BY <1>1, <1>2, ServerStep

\* A receiver has read all of what was left.
LEMMA ReadKeeps ==
  ASSUME TransportIInv, NEW s \in Sockets, Read(s)
  PROVE  rest' \in [Sockets -> Message] /\ RestOK'
  <1>1. rest \in [Sockets -> Message] /\ RestOK
    BY DEF TransportIInv, TransportTypeOK
  <1>2. <<>> \in Message /\ Told(<<>>) = {}
    BY DEF Message, Told
  <1>3. rest' \in [Sockets -> Message]
    BY <1>1, <1>2 DEF Read
  <1>4. \A r \in Sockets : rest'[r] = rest[r] \/ rest'[r] = <<>>
    BY <1>1 DEF Read
  <1>5. \A r \in Sockets : Told(rest'[r]) \subseteq Told(rest[r])
    BY <1>2, <1>4
  <1>6. Broker \in Sockets /\ \A m \in Readers : m \in Sockets
    BY DEF Sockets
  <1>7. "oom" \notin NetFaults => \A r \in Sockets : rest'[r] = <<>>
    BY <1>1, <1>4 DEF RestOK
  <1>8. \A m \in Readers : \A i, j \in Told(rest'[m]) : i = j
    BY <1>1, <1>5, <1>6 DEF RestOK
  <1>9. \A i, j, k \in Told(rest'[Broker]) : ~(i < j /\ j < k)
    BY <1>1, <1>5, <1>6 DEF RestOK
  <1>10. RestOK'
    BY <1>7, <1>8, <1>9 DEF RestOK, Told
  <1> QED
    BY <1>3, <1>10

\* What the broker reads.
LEMMA BrokerReads ==
  ASSUME TransportIInv, NEW msg \in Incoming(Broker)
  PROVE  /\ GoodNet(msg.net, count, calls, waiting) /\ SameParts(net, msg.net)
         /\ msg.frames \in Message
         /\ \/ rest[Broker] # <<>> /\ msg.frames = rest[Broker]
            \/ \E p \in Peers :
                 /\ UpOK(count, calls, p, msg.frames)
                 /\ Named(p, msg.frames) \subseteq waiting
                 /\ Avoids(Contents(msg.net), Named(p, msg.frames))
  <1>1. GoodNet(net, count, calls, waiting) /\ net \in NetType
    BY InvNet DEF GoodNet
  <1>2. Broker \in Sockets /\ rest \in [Sockets -> Message]
    BY DEF Sockets, TransportIInv, TransportTypeOK
  <1>3. CASE rest[Broker] # <<>>
    <2>1. msg = [frames |-> rest[Broker], net |-> net]
      BY <1>3 DEF Incoming
    <2> QED
      BY <1>1, <1>2, <1>3, <2>1 DEF SameParts
  <1>4. CASE rest[Broker] = <<>>
    <2>1. PICK p \in Peers : /\ net.up[p] # <<>>
                             /\ msg = [frames |-> Head(net.up[p]),
                                       net |-> [net EXCEPT !.up[p] = Tail(@)]]
      BY <1>4, Zenon DEF Incoming
    <2>2. msg.frames = Head(net.up[p]) /\ msg.net = SetUp(net, p, Tail(net.up[p]))
      BY <1>1, <2>1 DEF SetUp, NetType
    <2>3. /\ GoodNet(msg.net, count, calls, waiting) /\ SameParts(net, msg.net)
          /\ msg.frames \in Message /\ UpOK(count, calls, p, msg.frames)
          /\ Named(p, msg.frames) \subseteq waiting
          /\ Avoids(Contents(msg.net), Named(p, msg.frames))
      BY <1>1, <2>1, <2>2, TakeUp
    <2> QED
      BY <2>3
  <1> QED
    BY <1>3, <1>4

\* What a reader reads.
LEMMA ReaderReads ==
  ASSUME TransportIInv, NEW m \in Readers, NEW msg \in Incoming(m)
  PROVE  /\ GoodNet(msg.net, count, calls, waiting) /\ SameParts(net, msg.net)
         /\ msg.frames \in Message
         /\ \/ rest[m] # <<>> /\ msg.frames = rest[m]
            \/ /\ DownOK(count, calls, m, msg.frames)
               /\ Named(m, msg.frames) \subseteq waiting
               /\ Avoids(Contents(msg.net), Named(m, msg.frames))
  <1>1. GoodNet(net, count, calls, waiting) /\ net \in NetType
    BY InvNet DEF GoodNet
  <1>2. m \in Sockets /\ m \in Peers /\ m # Broker /\ rest \in [Sockets -> Message]
    BY PeersApart DEF Sockets, Peers, TransportIInv, TransportTypeOK
  <1>3. CASE rest[m] # <<>>
    <2>1. msg = [frames |-> rest[m], net |-> net]
      BY <1>3 DEF Incoming
    <2> QED
      BY <1>1, <1>2, <1>3, <2>1 DEF SameParts
  <1>4. CASE rest[m] = <<>>
    <2>1. /\ net.down[m] # <<>>
          /\ msg = [frames |-> Head(net.down[m]), net |-> [net EXCEPT !.down[m] = Tail(@)]]
      BY <1>2, <1>4 DEF Incoming
    <2>2. msg.frames = Head(net.down[m]) /\ msg.net = SetDown(net, m, Tail(net.down[m]))
      BY <1>1, <2>1 DEF SetDown, NetType
    <2> QED
      BY <1>1, <1>2, <2>1, <2>2, TakeDown
  <1> QED
    BY <1>3, <1>4

-----------------------------------------------------------------------------
(***************************************************************************)
(* The broker.                                                             *)
(***************************************************************************)

\* Frames put one after another.
LEMMA OneAndOne ==
  ASSUME NEW a, NEW b
  PROVE  <<a>> \o <<b>> = <<a, b>>
  <1> DEFINE S == {a, b}
             r == <<a>> \o <<b>>
             t == <<a, b>>
  <1>1. /\ <<a>> \in Seq(S) /\ <<b>> \in Seq(S) /\ t \in Seq(S)
        /\ Len(<<a>>) = 1 /\ Len(<<b>>) = 1 /\ Len(t) = 2
    OBVIOUS
  <1>2. /\ r \in Seq(S) /\ Len(r) = 1 + 1
        /\ \A i \in 1 .. 1 + 1 : r[i] = IF i <= 1 THEN <<a>>[i] ELSE <<b>>[i - 1]
    BY <1>1, ConcatProperties
  <1> HIDE DEF r
  <1>3. r[1] = t[1] /\ r[2] = t[2]
    BY <1>2
  <1>4. Len(r) = Len(t) /\ \A i \in 1 .. Len(r) : r[i] = t[i]
    BY <1>1, <1>2, <1>3
  <1> HIDE DEF t, S
  <1>5. r = t
    BY <1>1, <1>2, <1>4, SeqEqual
  <1> QED
    BY <1>5 DEF r, t

\* The request of a client, with what its REQ socket adds.
LEMMA TwoAndTwo ==
  ASSUME NEW a, NEW b, NEW c, NEW d
  PROVE  <<a, b>> \o <<c, d>> = <<a, b, c, d>>
  <1> DEFINE S == {a, b, c, d}
             r == <<a, b>> \o <<c, d>>
             t == <<a, b, c, d>>
  <1>1. /\ <<a, b>> \in Seq(S) /\ <<c, d>> \in Seq(S) /\ t \in Seq(S)
        /\ Len(<<a, b>>) = 2 /\ Len(<<c, d>>) = 2 /\ Len(t) = 4
    OBVIOUS
  <1>2. /\ r \in Seq(S) /\ Len(r) = 2 + 2
        /\ \A i \in 1 .. 2 + 2 : r[i] = IF i <= 2 THEN <<a, b>>[i] ELSE <<c, d>>[i - 2]
    BY <1>1, ConcatProperties
  <1> HIDE DEF r
  <1>3. r[1] = t[1] /\ r[2] = t[2] /\ r[3] = t[3] /\ r[4] = t[4]
    BY <1>2
  <1>4. Len(r) = Len(t) /\ \A i \in 1 .. Len(r) : r[i] = t[i]
    BY <1>1, <1>2, <1>3
  <1> HIDE DEF t, S
  <1>5. r = t
    BY <1>1, <1>2, <1>4, SeqEqual
  <1> QED
    BY <1>5 DEF r, t

\* The request that the broker sends on.
LEMMA TwoAndThree ==
  ASSUME NEW a, NEW b, NEW c, NEW d, NEW e
  PROVE  <<a, b>> \o <<c, d, e>> = <<a, b, c, d, e>>
  <1> DEFINE S == {a, b, c, d, e}
             r == <<a, b>> \o <<c, d, e>>
             t == <<a, b, c, d, e>>
  <1>1. /\ <<a, b>> \in Seq(S) /\ <<c, d, e>> \in Seq(S) /\ t \in Seq(S)
        /\ Len(<<a, b>>) = 2 /\ Len(<<c, d, e>>) = 3 /\ Len(t) = 5
    OBVIOUS
  <1>2. /\ r \in Seq(S) /\ Len(r) = 2 + 3
        /\ \A i \in 1 .. 2 + 3 : r[i] = IF i <= 2 THEN <<a, b>>[i] ELSE <<c, d, e>>[i - 2]
    BY <1>1, ConcatProperties
  <1> HIDE DEF r
  <1>3. r[1] = t[1] /\ r[2] = t[2] /\ r[3] = t[3] /\ r[4] = t[4] /\ r[5] = t[5]
    BY <1>2
  <1>4. Len(r) = Len(t) /\ \A i \in 1 .. Len(r) : r[i] = t[i]
    BY <1>1, <1>2, <1>3
  <1> HIDE DEF t, S
  <1>5. r = t
    BY <1>1, <1>2, <1>4, SeqEqual
  <1> QED
    BY <1>5 DEF r, t

LEMMA ForwardFrames ==
  ASSUME NEW p, NEW q, NEW b
  PROVE  broker_reader_send(p, q, b) = <<q, Empty, p, Empty, b>>
  <1>1. <<q>> # <<>>
    OBVIOUS
  <1>2. <<q>> \o <<Empty>> = <<q, Empty>>
    BY OneAndOne
  <1>3. <<q, Empty>> \o <<p, Empty, b>> = <<q, Empty, p, Empty, b>>
    BY TwoAndThree
  <1> QED
    BY <1>1, <1>2, <1>3 DEF broker_reader_send, peer_rpc_send

LEMMA AnswerFrames ==
  ASSUME NEW q, NEW b
  PROVE  peer_rpc_send(<<>>, q, b) = <<q, Empty, b>>
  <1>1. <<q, Empty, b>> \in Seq({q, Empty, b})
    OBVIOUS
  <1> QED
    BY <1>1, ConcatEmptySeq DEF peer_rpc_send

LEMMA NoBodyKeeps ==
  ASSUME TransportIInv, NEW s \in Sockets, recv_no_body(s)
  PROVE  TransportIInv'
  <1>1. PICK msg \in Incoming(s) : net' = msg.net
    BY DEF recv_no_body
  <1>2. GoodNet(net', count, calls, waiting) /\ SameParts(net, net')
    <2>1. CASE s = Broker
      BY <1>1, <2>1, BrokerReads
    <2>2. CASE s \in Readers
      BY <1>1, <2>2, ReaderReads
    <2> QED
      BY <2>1, <2>2 DEF Sockets
  <1>3. rest' \in [Sockets -> Message] /\ RestOK'
    BY ReadKeeps DEF recv_no_body
  <1> QED
    BY <1>2, <1>3, SameCalls DEF recv_no_body

\* The frame that the broker answers to is the identity of the sender.
LEMMA SenderFirst ==
  ASSUME TransportIInv, NEW p \in Peers, NEW msg \in Message, UpOK(count, calls, p, msg)
  PROVE  msg[Min(Told(msg))] = Id(p)
  <1>1. /\ mdt \in [Clients -> Readers] /\ count \in [Clients -> 0 .. MaxReq]
        /\ Id(p) # Empty
    BY FrameFacts DEF TransportIInv, TransportTypeOK
  <1>2. CASE p \in Clients /\ msg = <<Id(p), Empty, Id(mdt[p]), Request(count, p)>>
    <2>1. Id(mdt[p]) # Empty /\ Request(count, p) # Empty
      BY <1>1, <1>2, FrameFacts, RequestFacts DEF Peers
    <2>2. Min(Told(msg)) = 1
      BY <1>1, <1>2, <2>1, ReadRequest
    <2> QED
      BY <1>2, <2>2
  <1>3. CASE p \in Readers /\ msg = <<Id(p), Empty, Id(p), Frame("signal", p, 0)>>
    <2>1. Frame("signal", p, 0) # Empty
      BY FrameFacts
    <2>2. Min(Told(msg)) = 1
      BY <1>1, <1>3, <2>1, ReadRequest
    <2> QED
      BY <1>3, <2>2
  <1>4. CASE \E q \in Peers : \E b \in Answers(count, q) : msg = <<Id(p), Id(q), Empty, b>>
    <2>1. PICK q \in Peers : \E b \in Answers(count, q) : msg = <<Id(p), Id(q), Empty, b>>
      BY <1>4
    <2>2. PICK b \in Answers(count, q) : msg = <<Id(p), Id(q), Empty, b>>
      BY <2>1
    <2>3. Id(q) # Empty /\ b # Empty
      BY <1>1, FrameFacts, AnswerFacts
    <2>4. Min(Told(msg)) = 1
      BY <1>1, <2>2, <2>3, ReadAnswer
    <2> QED
      BY <2>2, <2>4
  <1>5. CASE /\ Len(msg) >= 5 /\ msg[1] = Id(p) /\ msg[2] # Empty
             /\ msg[Len(msg) - 2] # Empty /\ msg[Len(msg)] # Empty
    <2>1. Min(Told(msg)) = 1
      BY <1>1, <1>5, ReadGluedUp
    <2> QED
      BY <1>5, <2>1
  <1> QED
    BY <1>2, <1>3, <1>4, <1>5 DEF UpOK

\* Only the request of a client is taken for one.
LEMMA RequestFound ==
  ASSUME TransportIInv, NEW p \in Peers, NEW msg \in Message, UpOK(count, calls, p, msg),
         Valid(msg, Body(Broker, msg)), msg[Min(Body(Broker, msg))].kind = "request"
  PROVE  /\ p \in Clients /\ Fresh(count, calls, p)
         /\ msg[Min(Later(Told(msg)))] = Id(mdt[p])
         /\ msg[Min(Body(Broker, msg))] = Request(count, p)
  <1>1. /\ mdt \in [Clients -> Readers] /\ count \in [Clients -> 0 .. MaxReq]
        /\ Id(p) # Empty
    BY FrameFacts DEF TransportIInv, TransportTypeOK
  <1>2. CASE /\ p \in Clients /\ Fresh(count, calls, p)
             /\ msg = <<Id(p), Empty, Id(mdt[p]), Request(count, p)>>
    <2>1. Id(mdt[p]) # Empty /\ Request(count, p) # Empty
      BY <1>1, <1>2, FrameFacts, RequestFacts DEF Peers
    <2>2. Min(Later(Told(msg))) = 3 /\ Min(Body(Broker, msg)) = 4
      BY <1>1, <1>2, <2>1, ReadRequest
    <2> QED
      BY <1>2, <2>2
  <1>3. CASE p \in Readers /\ msg = <<Id(p), Empty, Id(p), Frame("signal", p, 0)>>
    <2>1. Frame("signal", p, 0) # Empty /\ Frame("signal", p, 0).kind = "signal"
      BY FrameFacts
    <2>2. Min(Body(Broker, msg)) = 4
      BY <1>1, <1>3, <2>1, ReadRequest
    <2> QED
      BY <1>3, <2>1, <2>2
  <1>4. CASE \E q \in Peers : \E b \in Answers(count, q) : msg = <<Id(p), Id(q), Empty, b>>
    <2>1. PICK q \in Peers : \E b \in Answers(count, q) : msg = <<Id(p), Id(q), Empty, b>>
      BY <1>4
    <2>2. PICK b \in Answers(count, q) : msg = <<Id(p), Id(q), Empty, b>>
      BY <2>1
    <2>3. Id(q) # Empty /\ b # Empty /\ b.kind \in {"answer", "ack"}
      BY <1>1, FrameFacts, AnswerFacts
    <2>4. Min(Body(Broker, msg)) = 4
      BY <1>1, <2>2, <2>3, ReadAnswer
    <2> QED
      BY <2>2, <2>3, <2>4
  <1>5. CASE /\ Len(msg) >= 5 /\ msg[1] = Id(p) /\ msg[2] # Empty
             /\ msg[Len(msg) - 2] # Empty /\ msg[Len(msg)] # Empty
    BY <1>1, <1>5, ReadGluedUp
  <1> QED
    BY <1>2, <1>3, <1>4, <1>5 DEF UpOK

\* Only the answer of a reader is taken for one.
LEMMA AnswerFound ==
  ASSUME TransportIInv, NEW p \in Peers, NEW msg \in Message, UpOK(count, calls, p, msg),
         Valid(msg, Body(Broker, msg)), msg[Min(Body(Broker, msg))].kind \in {"answer", "ack"}
  PROVE  \E q \in Peers : /\ msg[Min(Later(Told(msg)))] = Id(q)
                          /\ msg[Min(Body(Broker, msg))] \in Answers(count, q)
                          /\ {q} \cap Clients \subseteq Named(p, msg)
  <1>1. /\ mdt \in [Clients -> Readers] /\ count \in [Clients -> 0 .. MaxReq]
        /\ Id(p) # Empty
    BY FrameFacts DEF TransportIInv, TransportTypeOK
  <1>2. CASE /\ p \in Clients
             /\ msg = <<Id(p), Empty, Id(mdt[p]), Request(count, p)>>
    <2>1. Id(mdt[p]) # Empty /\ Request(count, p) # Empty /\ Request(count, p).kind = "request"
      BY <1>1, <1>2, FrameFacts, RequestFacts DEF Peers
    <2>2. Min(Body(Broker, msg)) = 4
      BY <1>1, <1>2, <2>1, ReadRequest
    <2> QED
      BY <1>2, <2>1, <2>2
  <1>3. CASE p \in Readers /\ msg = <<Id(p), Empty, Id(p), Frame("signal", p, 0)>>
    <2>1. Frame("signal", p, 0) # Empty /\ Frame("signal", p, 0).kind = "signal"
      BY FrameFacts
    <2>2. Min(Body(Broker, msg)) = 4
      BY <1>1, <1>3, <2>1, ReadRequest
    <2> QED
      BY <1>3, <2>1, <2>2
  <1>4. CASE \E q \in Peers : \E b \in Answers(count, q) : msg = <<Id(p), Id(q), Empty, b>>
    <2>1. PICK q \in Peers : \E b \in Answers(count, q) : msg = <<Id(p), Id(q), Empty, b>>
      BY <1>4
    <2>2. PICK b \in Answers(count, q) : msg = <<Id(p), Id(q), Empty, b>>
      BY <2>1
    <2>3. Id(q) # Empty /\ b # Empty /\ Id(q).who = q
      BY <1>1, FrameFacts, AnswerFacts
    <2>4. Min(Body(Broker, msg)) = 4 /\ Min(Later(Told(msg))) = 2
      BY <1>1, <2>2, <2>3, ReadAnswer
    <2>5. 2 \in DOMAIN msg /\ msg[2] = Id(q) /\ msg[4] = b
      BY <2>2
    <2> QED
      BY <2>3, <2>4, <2>5 DEF Named
  <1>5. CASE /\ Len(msg) >= 5 /\ msg[1] = Id(p) /\ msg[2] # Empty
             /\ msg[Len(msg) - 2] # Empty /\ msg[Len(msg)] # Empty
    BY <1>1, <1>5, ReadGluedUp
  <1> QED
    BY <1>2, <1>3, <1>4, <1>5 DEF UpOK

LEMMA BrokerKeeps ==
  ASSUME TransportIInv, lcapd_process_request
  PROVE  TransportIInv'
  <1>1. PICK msg \in Incoming(Broker) :
          LET body    == Body(Broker, msg.frames)
              remote  == msg.frames[Min(Told(msg.frames))]
              forward == msg.frames[Min(Later(Told(msg.frames)))]
              rpc     == msg.frames[Min(body)]
          IN  /\ body # {}
              /\ \/ /\ Valid(msg.frames, body) /\ rpc.kind = "request"
                    /\ SendOrAck(msg.net, Broker,
                                 broker_reader_send(remote, forward, rpc), remote)
                 \/ /\ Valid(msg.frames, body) /\ rpc.kind \in {"answer", "ack"}
                    /\ SendOrAck(msg.net, Broker,
                                 broker_client_send(remote, forward, rpc), remote)
                 \/ /\ Valid(msg.frames, body) /\ rpc.kind = "signal"
                    /\ net' = msg.net
                 \/ ~Valid(msg.frames, body) /\ JustAck(msg.net, Broker, remote)
    BY DEF lcapd_process_request
  <1>2. PICK nt, frames : nt = msg.net /\ frames = msg.frames
    OBVIOUS
  <1> DEFINE forward == frames[Min(Later(Told(frames)))]
             rpc     == frames[Min(Body(Broker, frames))]
             remote  == frames[Min(Told(frames))]
  <1>3. Broker \in Sockets
    BY DEF Sockets
  <1>4. PICK p \in Peers : /\ UpOK(count, calls, p, frames)
                           /\ Named(p, frames) \subseteq waiting
                           /\ Avoids(Contents(nt), Named(p, frames))
    <2>1. Body(Broker, rest[Broker]) = {}
      BY <1>3, ReadRest DEF TransportIInv
    <2> QED
      BY <1>1, <1>2, <2>1, BrokerReads
  <1>5. GoodNet(nt, count, calls, waiting) /\ SameParts(net, nt) /\ frames \in Message
    BY <1>2, BrokerReads
  <1>6. remote = Id(p) /\ {p} \cap Clients \subseteq Named(p, frames)
    BY <1>4, <1>5, SenderFirst DEF Named
  <1>7. mdt \in [Clients -> Readers] /\ count \in [Clients -> 0 .. MaxReq]
    BY DEF TransportIInv, TransportTypeOK
  <1>8. GoodNet(net', count, calls, waiting) /\ SameParts(nt, net')
    <2>1. CASE /\ Valid(frames, Body(Broker, frames)) /\ rpc.kind = "request"
               /\ SendOrAck(nt, Broker, broker_reader_send(remote, forward, rpc), remote)
      <3>1. p \in Clients /\ Fresh(count, calls, p) /\ forward = Id(mdt[p]) /\ rpc = Request(count, p)
        BY <1>4, <1>5, <2>1, RequestFound
      <3>2. PICK out : out = broker_reader_send(remote, forward, rpc)
        OBVIOUS
      <3>3. out = <<Id(mdt[p]), Empty, Id(p), Empty, Request(count, p)>>
        BY <1>6, <3>1, <3>2, ForwardFrames
      <3>4. Sendable(count, calls, Broker, out, Named(p, frames))
        BY <1>6, <3>1, <3>3 DEF Sendable, IsRequest
      <3>5. SendOrAck(nt, Broker, out, Id(p))
        BY <1>6, <2>1, <3>2
      <3> HIDE DEF forward, rpc, remote
      <3> QED
        BY <1>3, <1>4, <1>5, <1>6, <1>7, <3>4, <3>5, SendOrAckGood
    <2>2. CASE /\ Valid(frames, Body(Broker, frames)) /\ rpc.kind \in {"answer", "ack"}
               /\ SendOrAck(nt, Broker, broker_client_send(remote, forward, rpc), remote)
      <3>1. PICK q \in Peers : /\ forward = Id(q) /\ rpc \in Answers(count, q)
                               /\ {q} \cap Clients \subseteq Named(p, frames)
        BY <1>4, <1>5, <2>2, AnswerFound
      <3>2. PICK out : out = broker_client_send(remote, forward, rpc)
        OBVIOUS
      <3>3. out = <<Id(q), Empty, rpc>>
        BY <3>1, <3>2, AnswerFrames DEF broker_client_send
      <3>4. Sendable(count, calls, Broker, out, Named(p, frames))
        BY <3>1, <3>3 DEF Sendable, IsAnswer
      <3>5. SendOrAck(nt, Broker, out, Id(p))
        BY <1>6, <2>2, <3>2
      <3> HIDE DEF forward, rpc, remote
      <3> QED
        BY <1>3, <1>4, <1>5, <1>6, <1>7, <3>4, <3>5, SendOrAckGood
    <2>3. CASE net' = nt
      BY <1>5, <2>3 DEF SameParts
    <2>4. CASE JustAck(nt, Broker, remote)
      <3>1. JustAck(nt, Broker, Id(p))
        BY <1>6, <2>4
      <3> HIDE DEF forward, rpc, remote
      <3> QED
        BY <1>3, <1>4, <1>5, <1>6, <1>7, <3>1, JustAckGood
    <2> QED
      BY <1>1, <1>2, <2>1, <2>2, <2>3, <2>4
  <1>9. SameParts(net, net')
    BY <1>5, <1>8 DEF SameParts
  <1>10. rest' \in [Sockets -> Message] /\ RestOK'
    BY <1>3, ReadKeeps DEF lcapd_process_request
  <1> QED
    BY <1>8, <1>9, <1>10, SameCalls DEF lcapd_process_request

-----------------------------------------------------------------------------
(***************************************************************************)
(* The readers.                                                            *)
(***************************************************************************)

\* A reader handles only the request of a client that named it.
LEMMA HandledFound ==
  ASSUME TransportIInv, NEW m \in Readers, NEW msg \in Message,
         DownOK(count, calls, m, msg), Valid(msg, Body(m, msg)),
         msg[Min(Body(m, msg))].kind = "request"
  PROVE  \E c \in Clients : /\ m = mdt[c] /\ Fresh(count, calls, c)
                            /\ msg[Min(Told(msg))] = Id(c)
                            /\ msg[Min(Body(m, msg))] = Request(count, c)
                            /\ c \in Named(m, msg)
  <1>1. count \in [Clients -> 0 .. MaxReq]
    BY DEF TransportIInv, TransportTypeOK
  <1>2. CASE \E c \in Clients : /\ m = mdt[c] /\ Fresh(count, calls, c)
                                /\ msg = <<Empty, Id(c), Empty, Request(count, c)>>
    <2>1. PICK c \in Clients : /\ m = mdt[c] /\ Fresh(count, calls, c)
                               /\ msg = <<Empty, Id(c), Empty, Request(count, c)>>
      BY <1>2
    <2>2. Id(c) # Empty /\ Request(count, c) # Empty /\ Id(c).who = c
      BY <1>1, FrameFacts, RequestFacts DEF Peers
    <2>3. Min(Told(msg)) = 2 /\ Min(Body(m, msg)) = 4
      BY <2>1, <2>2, ReadForwarded
    <2>4. 2 \in DOMAIN msg /\ msg[2] = Id(c) /\ msg[4] = Request(count, c)
      BY <2>1
    <2> QED
      BY <2>1, <2>2, <2>3, <2>4 DEF Named
  <1>3. CASE \E b \in Answers(count, m) : msg = <<Empty, b>>
    <2>1. PICK b \in Answers(count, m) : msg = <<Empty, b>>
      BY <1>3
    <2>2. b # Empty
      BY <1>1, AnswerFacts DEF Peers
    <2> QED
      BY <2>1, <2>2, ReadReply DEF Valid
  <1>4. CASE /\ Len(msg) >= 3
             /\ \A i \in 1 .. Len(msg) - 1 : msg[i] \in Envelope
             /\ IsBody(msg[Len(msg)]) /\ msg[Len(msg) - 2] # Empty
             /\ msg[Len(msg)].kind = "request" => Len(msg) >= 5 /\ msg[Len(msg) - 4] # Empty
    BY <1>4, ReadGluedDown
  <1> QED
    BY <1>2, <1>3, <1>4 DEF DownOK

\* What it refuses is answered to a peer that the message names.
LEMMA RefusedFound ==
  ASSUME TransportIInv, NEW m \in Readers, NEW msg \in Message,
         DownOK(count, calls, m, msg), Body(m, msg) # {}
  PROVE  \E q \in Peers : /\ msg[Min(Told(msg))] = Id(q)
                          /\ {q} \cap Clients \subseteq Named(m, msg)
  <1>1. count \in [Clients -> 0 .. MaxReq]
    BY DEF TransportIInv, TransportTypeOK
  <1>2. CASE \E c \in Clients : msg = <<Empty, Id(c), Empty, Request(count, c)>>
    <2>1. PICK c \in Clients : msg = <<Empty, Id(c), Empty, Request(count, c)>>
      BY <1>2
    <2>2. Id(c) # Empty /\ Request(count, c) # Empty /\ Id(c).who = c /\ c \in Peers
      BY <1>1, FrameFacts, RequestFacts DEF Peers
    <2>3. Min(Told(msg)) = 2
      BY <2>1, <2>2, ReadForwarded
    <2>4. 2 \in DOMAIN msg /\ msg[2] = Id(c)
      BY <2>1
    <2> QED
      BY <2>2, <2>3, <2>4 DEF Named
  <1>3. CASE \E b \in Answers(count, m) : msg = <<Empty, b>>
    <2>1. PICK b \in Answers(count, m) : msg = <<Empty, b>>
      BY <1>3
    <2>2. b # Empty
      BY <1>1, AnswerFacts DEF Peers
    <2> QED
      BY <2>1, <2>2, ReadReply
  <1>4. CASE /\ Len(msg) >= 3
             /\ \A i \in 1 .. Len(msg) - 1 : msg[i] \in Envelope
             /\ IsBody(msg[Len(msg)]) /\ msg[Len(msg) - 2] # Empty
             /\ msg[Len(msg)].kind = "request" => Len(msg) >= 5 /\ msg[Len(msg) - 4] # Empty
    <2>1. PICK q \in Peers : \E i \in DOMAIN msg : msg[i] = Id(q) /\ i = Min(Told(msg))
      BY <1>4, ReadGluedDown
    <2>2. PICK i \in DOMAIN msg : msg[i] = Id(q) /\ i = Min(Told(msg))
      BY <2>1
    <2>3. msg[i].who = q
      BY <2>2, FrameFacts
    <2> QED
      BY <2>2, <2>3 DEF Named
  <1> QED
    BY <1>2, <1>3, <1>4 DEF DownOK

LEMMA RefusesKeeps ==
  ASSUME TransportIInv, NEW m \in Readers, reader_refuses(m)
  PROVE  TransportIInv'
  <1>1. PICK msg \in Incoming(m) : /\ Body(m, msg.frames) # {}
                                   /\ JustAck(msg.net, m, msg.frames[Min(Told(msg.frames))])
    BY DEF reader_refuses
  <1>2. PICK nt, frames : nt = msg.net /\ frames = msg.frames
    OBVIOUS
  <1>3. m \in Sockets
    BY DEF Sockets
  <1>4. /\ DownOK(count, calls, m, frames)
        /\ Named(m, frames) \subseteq waiting /\ Avoids(Contents(nt), Named(m, frames))
    <2>1. Body(m, rest[m]) = {}
      BY <1>3, ReadRest DEF TransportIInv
    <2> QED
      BY <1>1, <1>2, <2>1, ReaderReads
  <1>5. GoodNet(nt, count, calls, waiting) /\ SameParts(net, nt) /\ frames \in Message
    BY <1>2, ReaderReads
  <1>6. mdt \in [Clients -> Readers] /\ count \in [Clients -> 0 .. MaxReq]
    BY DEF TransportIInv, TransportTypeOK
  <1>7. PICK q \in Peers : /\ frames[Min(Told(frames))] = Id(q)
                           /\ {q} \cap Clients \subseteq Named(m, frames)
    BY <1>1, <1>2, <1>4, <1>5, RefusedFound
  <1>8. JustAck(nt, m, Id(q))
    BY <1>1, <1>2, <1>7
  <1>9. GoodNet(net', count, calls, waiting) /\ SameParts(nt, net')
    BY <1>3, <1>4, <1>5, <1>6, <1>7, <1>8, JustAckGood
  <1>10. SameParts(net, net')
    BY <1>5, <1>9 DEF SameParts
  <1>11. rest' \in [Sockets -> Message] /\ RestOK'
    BY <1>3, ReadKeeps DEF reader_refuses
  <1> QED
    BY <1>9, <1>10, <1>11, SameCalls DEF reader_refuses

\* A handler's call comes after the ones before.
LEMMA CallAppended ==
  ASSUME TransportIInv, NEW c \in Clients, Fresh(count, calls, c), mdt' = mdt, count' = count,
         calls' = [calls EXCEPT ![c] = Append(@, [at |-> mdt[c], rpc |-> Request(count, c)])]
  PROVE  calls' \in [Peers -> Seq(CallType)] /\ CallsOK'
  <1>1. /\ mdt \in [Clients -> Readers] /\ count \in [Clients -> 0 .. MaxReq]
        /\ calls \in [Peers -> Seq(CallType)] /\ CallsOK /\ c \in Peers
    BY DEF TransportIInv, TransportTypeOK, Peers
  <1>2. PICK call \in CallType : call = [at |-> mdt[c], rpc |-> Request(count, c)]
    BY <1>1, RequestFacts DEF CallType
  <1>3. call.at = mdt[c] /\ call.rpc.who = c /\ call.rpc.n = count[c] /\ count[c] \in Nat
    BY <1>1, <1>2, RequestFacts, TransportAssumption DEF TransportAssumption
  <1>4. /\ calls' = [calls EXCEPT ![c] = Append(calls[c], call)]
        /\ calls'[c] = Append(calls[c], call)
        /\ \A q \in Peers \ {c} : calls'[q] = calls[q]
    BY <1>1, <1>2
  <1>5. /\ Append(calls[c], call) \in Seq(CallType) /\ Len(calls[c]) \in Nat
        /\ DOMAIN calls[c] = 1 .. Len(calls[c])
        /\ DOMAIN Append(calls[c], call) = 1 .. Len(calls[c]) + 1
        /\ \A i \in 1 .. Len(calls[c]) : Append(calls[c], call)[i] = calls[c][i]
        /\ Append(calls[c], call)[Len(calls[c]) + 1] = call
    BY <1>1, AppendProperties, LenProperties
  <1>6. calls' \in [Peers -> Seq(CallType)]
    BY <1>1, <1>4, <1>5
  <1>7. ASSUME NEW i \in DOMAIN calls'[c]
        PROVE  /\ calls'[c][i].at = mdt[c]
               /\ calls'[c][i].rpc.who = c /\ calls'[c][i].rpc.n <= count[c]
               /\ \A j \in 1 .. i - 1 : calls'[c][j].rpc.n < calls'[c][i].rpc.n
    <2>1. CASE i \in 1 .. Len(calls[c])
      <3>1. /\ calls'[c][i] = calls[c][i]
            /\ \A j \in 1 .. i - 1 : j \in 1 .. Len(calls[c]) /\ calls'[c][j] = calls[c][j]
        BY <1>4, <1>5, <2>1
      <3>2. /\ calls[c][i].at = mdt[c]
            /\ calls[c][i].rpc.who = c /\ calls[c][i].rpc.n <= count[c]
            /\ \A j \in 1 .. i - 1 : calls[c][j].rpc.n < calls[c][i].rpc.n
        BY <1>1, <1>5, <2>1 DEF CallsOK
      <3>3. \A j \in 1 .. i - 1 : calls'[c][j].rpc.n < calls'[c][i].rpc.n
        BY <3>1, <3>2
      <3> QED
        BY <3>1, <3>2, <3>3
    <2>2. CASE i = Len(calls[c]) + 1
      <3>1. calls'[c][i] = call
        BY <1>4, <1>5, <2>2
      <3>2. \A j \in 1 .. i - 1 : j \in DOMAIN calls[c] /\ calls'[c][j] = calls[c][j]
        BY <1>4, <1>5, <2>2
      <3>3. \A j \in 1 .. i - 1 : calls'[c][j].rpc.n < count[c]
        BY <3>2 DEF Fresh
      <3> QED
        BY <1>3, <3>1, <3>3
    <2> QED
      BY <1>4, <1>5, <1>7, <2>1, <2>2
  <1>8. ASSUME NEW d \in Clients, d # c PROVE calls'[d] = calls[d]
    BY <1>4, <1>8 DEF Peers
  <1>9. \A m \in Readers : calls'[m] = <<>>
    BY <1>1, <1>4, PeersApart DEF CallsOK, Peers
  <1>10. CallsOK'
    <2>1. ASSUME NEW d \in Clients, NEW i \in DOMAIN calls'[d]
          PROVE  /\ calls'[d][i].at = mdt[d]
                 /\ calls'[d][i].rpc.who = d /\ calls'[d][i].rpc.n <= count[d]
                 /\ \A j \in 1 .. i - 1 : calls'[d][j].rpc.n < calls'[d][i].rpc.n
      <3>1. CASE d = c
        BY <1>7, <2>1, <3>1
      <3>2. CASE d # c
        BY <1>1, <1>8, <2>1, <3>2 DEF CallsOK
      <3> QED
        BY <3>1, <3>2
    <2> QED
      BY <1>9, <2>1 DEF CallsOK
  <1> QED
    BY <1>6, <1>10

LEMMA HandlesKeeps ==
  ASSUME TransportIInv, NEW m \in Readers, reader_handles(m)
  PROVE  TransportIInv'
  <1>1. PICK msg \in Incoming(m) :
          LET body    == Body(m, msg.frames)
              forward == msg.frames[Min(Told(msg.frames))]
              rpc     == msg.frames[Min(body)]
          IN  /\ Valid(msg.frames, body) /\ rpc.kind = "request"
              /\ calls' = [calls EXCEPT ![forward.who] = Append(@, [at |-> m, rpc |-> rpc])]
              /\ SendOrAck(msg.net, m,
                           peer_rpc_send(<<>>, forward,
                                         Frame("answer", forward.who, rpc.n)), forward)
    BY DEF reader_handles
  <1>2. PICK nt, frames : nt = msg.net /\ frames = msg.frames
    OBVIOUS
  <1>3. m \in Sockets
    BY DEF Sockets
  <1>4. /\ DownOK(count, calls, m, frames)
        /\ Named(m, frames) \subseteq waiting /\ Avoids(Contents(nt), Named(m, frames))
    <2>1. Body(m, rest[m]) = {}
      BY <1>3, ReadRest DEF TransportIInv
    <2>2. Body(m, frames) # {}
      BY <1>1, <1>2 DEF Valid
    <2> QED
      BY <1>2, <2>1, <2>2, ReaderReads
  <1>5. GoodNet(nt, count, calls, waiting) /\ SameParts(net, nt) /\ frames \in Message
    BY <1>2, ReaderReads
  <1>6. /\ mdt \in [Clients -> Readers] /\ count \in [Clients -> 0 .. MaxReq]
        /\ calls \in [Peers -> Seq(CallType)]
    BY DEF TransportIInv, TransportTypeOK
  <1>7. PICK c \in Clients : /\ m = mdt[c] /\ Fresh(count, calls, c)
                             /\ frames[Min(Told(frames))] = Id(c)
                             /\ frames[Min(Body(m, frames))] = Request(count, c)
                             /\ c \in Named(m, frames)
    BY <1>1, <1>2, <1>4, <1>5, HandledFound
  <1>8. c \in Peers /\ Id(c).who = c /\ Request(count, c).n = count[c]
    <2>1. c \in Peers /\ Id(c).who = c
      BY FrameFacts DEF Peers
    <2>2. Request(count, c).n = count[c]
      BY <1>6, RequestFacts
    <2> QED
      BY <2>1, <2>2
  <1>9. calls' = [calls EXCEPT ![c] = Append(@, [at |-> mdt[c], rpc |-> Request(count, c)])]
    BY <1>1, <1>2, <1>7, <1>8
  <1>10. calls' \in [Peers -> Seq(CallType)] /\ CallsOK'
    BY <1>7, <1>9, CallAppended DEF reader_handles
  <1>11. PICK cl : cl = calls'
    OBVIOUS
  <1>12. GoodNet(nt, count, cl, waiting)
    <2>1. \A d \in Clients \ {c} : cl[d] = calls[d]
      BY <1>6, <1>9, <1>11 DEF Peers
    <2>2. Avoids(Contents(nt), {c})
      BY <1>4, <1>7 DEF Avoids
    <2> QED
      BY <1>5, <1>6, <2>1, <2>2, FormsStable
  <1>13. PICK out : out = peer_rpc_send(<<>>, Id(c), Frame("answer", c, count[c]))
    OBVIOUS
  <1>14. out = <<Id(c), Empty, Frame("answer", c, count[c])>>
    BY <1>13, AnswerFrames
  <1>15. Sendable(count, cl, m, out, Named(m, frames))
    BY <1>7, <1>8, <1>14 DEF Sendable, IsAnswer, Answers
  <1>16. SendOrAck(nt, m, out, Id(c))
    BY <1>1, <1>2, <1>7, <1>8, <1>13
  <1>17. {c} \cap Clients \subseteq Named(m, frames)
    BY <1>7
  <1>18. GoodNet(net', count, cl, waiting) /\ SameParts(nt, net')
    BY <1>3, <1>4, <1>6, <1>8, <1>12, <1>15, <1>16, <1>17, SendOrAckGood
  <1>19. GoodNet(net', count, calls', waiting) /\ SameParts(net, net')
    BY <1>5, <1>11, <1>18 DEF SameParts
  <1>20. rest' \in [Sockets -> Message] /\ RestOK'
    BY <1>3, ReadKeeps DEF reader_handles
  <1> QED
    BY <1>10, <1>19, <1>20, ServerStep DEF reader_handles

-----------------------------------------------------------------------------
(***************************************************************************)
(* A message that a receiver gives up on.                                  *)
(***************************************************************************)

\* What is left of it has no body: neither for the broker, which needs three
\* frames that are no delimiters, nor for a reader, which needs two.
LEMMA NoMemoryKeeps ==
  ASSUME OneKind, TransportIInv, NEW s \in Sockets, recv_no_memory(s)
  PROVE  TransportIInv'
  <1>1. PICK msg \in Incoming(s) :
          \E j \in 1 .. Len(msg.frames) :
            /\ msg.frames[j] # Empty
            /\ rest' = [rest EXCEPT ![s] = SubSeq(msg.frames, j + 1, Len(msg.frames))]
            /\ net' = msg.net
    BY DEF recv_no_memory
  <1>2. PICK frames : frames = msg.frames
    OBVIOUS
  <1>3. PICK j \in 1 .. Len(frames) :
          /\ frames[j] # Empty
          /\ rest' = [rest EXCEPT ![s] = SubSeq(frames, j + 1, Len(frames))]
          /\ net' = msg.net
    BY <1>1, <1>2
  <1>4. "oom" \in NetFaults /\ "send" \notin NetFaults
    BY DEF recv_no_memory, OneKind
  <1>5. /\ GoodNet(net', count, calls, waiting) /\ SameParts(net, net')
        /\ frames \in Message
    <2>1. CASE s = Broker
      BY <1>2, <1>3, <2>1, BrokerReads
    <2>2. CASE s \in Readers
      BY <1>2, <1>3, <2>2, ReaderReads
    <2> QED
      BY <2>1, <2>2 DEF Sockets
  <1>6. PICK left : left = SubSeq(frames, j + 1, Len(frames))
    OBVIOUS
  <1>7. left \in Message /\ \A i \in Told(left) : i \in Nat /\ i >= 1 /\ i + j \in Told(frames)
    BY <1>5, <1>6, SuffixTold
  <1>8. Len(frames) \in Nat /\ j \in Nat /\ j >= 1 /\ j \in Told(frames)
    BY <1>3, <1>5 DEF Message, Told
  <1>9. /\ rest \in [Sockets -> Message] /\ RestOK /\ count \in [Clients -> 0 .. MaxReq]
        /\ mdt \in [Clients -> Readers]
    BY DEF TransportIInv, TransportTypeOK
  <1>10. /\ rest' \in [Sockets -> Message] /\ rest'[s] = left
         /\ \A r \in Sockets \ {s} : rest'[r] = rest[r]
    BY <1>3, <1>6, <1>7, <1>9
  <1>11. ASSUME s \in Readers, NEW i \in Told(left), NEW k \in Told(left) PROVE i = k
    <2>1. CASE frames = rest[s]
      <3>1. i + j = k + j
        BY <1>7, <1>9, <1>11, <2>1 DEF RestOK
      <3> QED
        BY <1>7, <1>8, <1>11, <3>1
    <2>2. CASE DownOK(count, calls, s, frames)
      <3>1. Told(frames) \subseteq {2, 4}
        <4>1. CASE \E c \in Clients : frames = <<Empty, Id(c), Empty, Request(count, c)>>
          <5>1. PICK c \in Clients : frames = <<Empty, Id(c), Empty, Request(count, c)>>
            BY <4>1
          <5>2. Id(c) # Empty /\ Request(count, c) # Empty
            <6>1. Id(c) # Empty
              BY FrameFacts DEF Peers
            <6>2. Request(count, c) # Empty
              BY <1>9, RequestFacts
            <6> QED
              BY <6>1, <6>2
          <5> QED
            BY <1>11, <5>1, <5>2, ReadForwarded
        <4>2. CASE \E b \in Answers(count, s) : frames = <<Empty, b>>
          <5>1. PICK b \in Answers(count, s) : frames = <<Empty, b>>
            BY <4>2
          <5>2. b # Empty
            BY <1>9, <1>11, AnswerFacts DEF Peers
          <5> QED
            BY <5>1, <5>2, ReadReply
        <4> QED
          BY <1>4, <2>2, <4>1, <4>2 DEF DownOK
      <3>2. j >= 2 /\ i + j \in {2, 4} /\ k + j \in {2, 4}
        BY <1>7, <1>8, <1>11, <3>1
      <3> QED
        BY <1>7, <1>8, <1>11, <3>2
    <2> QED
      BY <1>2, <1>11, <2>1, <2>2, ReaderReads
  <1>12. ASSUME s = Broker, NEW i \in Told(left), NEW k \in Told(left), NEW l \in Told(left),
                i < k, k < l
         PROVE  FALSE
    <2>0. /\ i \in Nat /\ k \in Nat /\ l \in Nat /\ i >= 1 /\ k >= 1 /\ l >= 1
          /\ i + j \in Told(frames) /\ k + j \in Told(frames) /\ l + j \in Told(frames)
      BY <1>7, <1>12
    <2>1. CASE frames = rest[s]
      <3>1. ~(i + j < k + j /\ k + j < l + j)
        BY <1>9, <1>12, <2>0, <2>1 DEF RestOK
      <3> QED
        BY <1>8, <1>12, <2>0, <3>1
    <2>2. CASE \E p \in Peers : UpOK(count, calls, p, frames)
      <3>1. Told(frames) \subseteq {1, 2, 3, 4} /\ ({1, 3, 4} = Told(frames) \/ {1, 2, 4} = Told(frames))
        <4>0. PICK p \in Peers : UpOK(count, calls, p, frames)
          BY <2>2
        <4>1. CASE p \in Clients /\ frames = <<Id(p), Empty, Id(mdt[p]), Request(count, p)>>
          <5>1. Id(p) # Empty /\ Id(mdt[p]) # Empty /\ Request(count, p) # Empty
            <6>1. p \in Peers /\ mdt[p] \in Peers
              BY <1>9, <4>1 DEF Peers
            <6>2. Id(p) # Empty /\ Id(mdt[p]) # Empty
              BY <6>1, FrameFacts
            <6>3. Request(count, p) # Empty
              BY <1>9, <4>1, RequestFacts
            <6> QED
              BY <6>2, <6>3
          <5>2. Told(frames) = {1, 3, 4}
            BY <4>1, <5>1, ReadRequest
          <5> QED
            BY <5>2
        <4>2. CASE p \in Readers /\ frames = <<Id(p), Empty, Id(p), Frame("signal", p, 0)>>
          <5>1. Id(p) # Empty /\ Frame("signal", p, 0) # Empty
            BY FrameFacts
          <5>2. Told(frames) = {1, 3, 4}
            BY <4>2, <5>1, ReadRequest
          <5> QED
            BY <5>2
        <4>3. CASE \E q \in Peers : \E b \in Answers(count, q) : frames = <<Id(p), Id(q), Empty, b>>
          <5>1. PICK q \in Peers : \E b \in Answers(count, q) : frames = <<Id(p), Id(q), Empty, b>>
            BY <4>3
          <5>2. PICK b \in Answers(count, q) : frames = <<Id(p), Id(q), Empty, b>>
            BY <5>1
          <5>3. Id(p) # Empty /\ Id(q) # Empty /\ b # Empty
            <6>1. Id(p) # Empty /\ Id(q) # Empty
              BY FrameFacts
            <6>2. b # Empty
              BY <1>9, AnswerFacts
            <6> QED
              BY <6>1, <6>2
          <5>4. Told(frames) = {1, 2, 4}
            BY <5>2, <5>3, ReadAnswer
          <5> QED
            BY <5>4
        <4> QED
          BY <1>4, <4>0, <4>1, <4>2, <4>3 DEF UpOK
      <3>2. CASE Told(frames) = {1, 3, 4}
        BY <1>8, <1>12, <2>0, <3>2
      <3>3. CASE Told(frames) = {1, 2, 4}
        BY <1>8, <1>12, <2>0, <3>3
      <3> QED
        BY <3>1, <3>2, <3>3
    <2> QED
      BY <1>2, <1>12, <2>1, <2>2, BrokerReads
  <1>13. RestOK'
    <2>1. Broker \in Sockets /\ \A m \in Readers : m \in Sockets
      BY DEF Sockets
    <2>2. \A m \in Readers : \A i, k \in Told(rest'[m]) : i = k
      <3>1. SUFFICES ASSUME NEW m \in Readers, NEW i \in Told(rest'[m]), NEW k \in Told(rest'[m])
                     PROVE  i = k
        OBVIOUS
      <3>2. CASE m = s
        BY <1>10, <1>11, <3>2
      <3>3. CASE m # s
        BY <1>9, <1>10, <2>1, <3>3 DEF RestOK
      <3> QED
        BY <3>2, <3>3
    <2>3. \A i, k, l \in Told(rest'[Broker]) : ~(i < k /\ k < l)
      <3>1. CASE Broker = s
        BY <1>10, <1>12, <3>1
      <3>2. CASE Broker # s
        BY <1>9, <1>10, <2>1, <3>2 DEF RestOK
      <3> QED
        BY <3>1, <3>2
    <2> QED
      BY <1>4, <2>2, <2>3 DEF RestOK, Told
  <1> QED
    BY <1>5, <1>10, <1>13, SameCalls DEF recv_no_memory

-----------------------------------------------------------------------------
(***************************************************************************)
(* The clients.                                                            *)
(***************************************************************************)

\* The calls were handled as the clients made them, whatever else happens.
LEMMA CallsKept ==
  ASSUME TransportIInv, mdt' = mdt, calls' = calls, count' \in [Clients -> 0 .. MaxReq],
         \A c \in Clients : count[c] <= count'[c]
  PROVE  CallsOK'
  <1>1. /\ CallsOK /\ count \in [Clients -> 0 .. MaxReq]
        /\ calls \in [Peers -> Seq(CallType)]
    BY DEF TransportIInv, TransportTypeOK
  <1>2. ASSUME NEW c \in Clients, NEW i \in DOMAIN calls[c]
        PROVE  calls[c][i].rpc.n <= count'[c]
    <2>1. calls[c] \in Seq(CallType)
      BY <1>1 DEF Peers
    <2>2. calls[c][i] \in CallType
      BY <1>2, <2>1
    <2>3. calls[c][i].rpc.n \in Nat
      BY <2>2 DEF CallType, FrameType
    <2>4. calls[c][i].rpc.n <= count[c]
      BY <1>1, <1>2 DEF CallsOK
    <2>5. count[c] \in Nat /\ count'[c] \in Nat /\ count[c] <= count'[c]
      BY <1>1, TransportAssumption DEF TransportAssumption
    <2> QED
      BY <2>3, <2>4, <2>5
  <1>3. \A m \in Readers : calls[m] = <<>>
    BY <1>1 DEF CallsOK
  <1>4. ASSUME NEW c \in Clients, NEW i \in DOMAIN calls[c]
        PROVE  /\ calls[c][i].at = mdt[c] /\ calls[c][i].rpc.who = c
               /\ \A j \in 1 .. i - 1 : calls[c][j].rpc.n < calls[c][i].rpc.n
    BY <1>1, <1>4 DEF CallsOK
  <1> QED
    BY <1>2, <1>3, <1>4 DEF CallsOK

\* A client that does not wait is named by no message.
LEMMA NotNamed ==
  ASSUME TransportIInv, NEW c \in Clients, c \notin waiting
  PROVE  Avoids(Contents(net), {c}) /\ net.down[c] = <<>>
  <1>1. Avoids(Contents(net), {c})
    BY DEF TransportIInv, Within, Avoids
  <1>2. net \in NetType /\ c \in Peers
    BY DEF TransportIInv, TransportTypeOK, Peers
  <1>3. net.down[c] \in Seq(Message)
    BY <1>2 DEF NetType
  <1>4. PICK b0 \in Box : b0[2] = c /\ Contents(net)[b0] = net.down[c]
    BY <1>2, ContentsAt
  <1>5. ASSUME net.down[c] # <<>> PROVE FALSE
    <2>1. 1 \in DOMAIN net.down[c]
      BY <1>3, <1>5, EmptySeq, LenProperties
    <2>2. c \in Named(c, net.down[c][1])
      BY DEF Named
    <2> QED
      BY <1>1, <1>4, <2>1, <2>2 DEF Avoids
  <1> QED
    BY <1>1, <1>5

\* What the other clients got before stays an answer to their last requests.
LEMMA OwnKept ==
  ASSUME TransportIInv, NEW c \in Clients, NEW frames \in Message,
         got' = [got EXCEPT ![c] = frames], Owned(c, count'[c], frames),
         \A d \in Clients \ {c} : count'[d] = count[d]
  PROVE  got' \in [Clients -> Message] /\ GotOK'
  <1>1. GotOK /\ got \in [Clients -> Message]
    BY DEF TransportIInv, TransportTypeOK
  <1>2. /\ got' \in [Clients -> Message] /\ got'[c] = frames
        /\ \A d \in Clients \ {c} : got'[d] = got[d]
    BY <1>1
  <1>3. ASSUME NEW d \in Clients
        PROVE  Owned(d, count'[d], got'[d])
    <2>1. CASE d = c
      BY <1>2, <2>1
    <2>2. CASE d # c
      <3>1. got'[d] = got[d] /\ count'[d] = count[d]
        BY <1>2, <2>2
      <3> QED
        BY <1>1, <3>1 DEF GotOK
    <2> QED
      BY <2>1, <2>2
  <1>4. GotOK'
    BY <1>3 DEF GotOK, Owned
  <1> QED
    BY <1>2, <1>4

\* A client that read nothing since its last request.
LEMMA NothingRead ==
  ASSUME NEW c, NEW n
  PROVE  <<>> \in Message /\ Owned(c, n, <<>>)
  BY DEF Message, Owned

\* The frames of a request, with what the REQ socket adds.
LEMMA RequestSent ==
  ASSUME NEW nt \in NetType, NEW c \in Clients, nt.part[c] = <<>>, NEW i, NEW r,
         i \in FrameType, r \in FrameType, NEW nt2, nt2 = AfterSend(nt, c, <<i, r>>, 2)
  PROVE  nt2 = SetUp(nt, c, Append(nt.up[c], <<Id(c), Empty, i, r>>))
  <1>1. c \in Peers /\ c # Broker
    BY PeersApart DEF Peers
  <1>2. <<i, r>> \in Message /\ Len(<<i, r>>) = 2
    BY DEF Message
  <1>3. nt.part[c] \o SubSeq(<<i, r>>, 1, 2) = <<i, r>>
    <2>1. <<>> \in Message /\ 2 \in 0 .. Len(<<i, r>>)
      BY <1>2 DEF Message
    <2>2. Joined(<<>>, <<i, r>>, 2) = <<i, r>>
      BY <1>2, <2>1, Glue
    <2> QED
      BY <2>2 DEF Joined
  <1>4. <<Id(c)>> \o <<Empty>> = <<Id(c), Empty>>
    BY OneAndOne
  <1>5. <<Id(c), Empty>> \o <<i, r>> = <<Id(c), Empty, i, r>>
    BY TwoAndTwo
  <1>6. PICK msgs : msgs = Append(nt.up[c], <<Id(c), Empty, i, r>>)
    OBVIOUS
  <1>7. msgs \in Seq(Message)
    <2>1. <<Id(c), Empty, i, r>> \in Message /\ nt.up[c] \in Seq(Message)
      BY <1>1, FrameFacts DEF Message, NetType
    <2> QED
      BY <1>6, <2>1, AppendProperties
  <1>8. Deliver(nt, c, <<i, r>>) = SetUp(nt, c, msgs)
    BY <1>1, <1>4, <1>5, <1>6 DEF Deliver, SetUp, NetType
  <1>9. nt2 = SetPart(SetUp(nt, c, msgs), c, <<>>)
    <2>1. ~(2 < Len(<<i, r>>))
      BY <1>2
    <2> QED
      BY <1>3, <1>8, <2>1 DEF AfterSend, SetPart
  <1>10. SetUp(nt, c, msgs) \in NetType /\ SetUp(nt, c, msgs).part = nt.part
    BY <1>1, <1>7, ContentsUp
  <1>11. SetPart(SetUp(nt, c, msgs), c, <<>>) = SetUp(nt, c, msgs)
    <2>1. PICK nt1 : nt1 = SetUp(nt, c, msgs)
      OBVIOUS
    <2>2. nt1 \in NetType /\ nt1.part[c] = <<>>
      BY <1>10, <2>1
    <2>3. nt1.part = [nt1.part EXCEPT ![c] = <<>>]
      BY <1>1, <2>2 DEF NetType
    <2>4. SetPart(nt1, c, <<>>) = nt1
      BY <1>1, <2>2, <2>3 DEF SetPart, NetType
    <2> QED
      BY <2>1, <2>4
  <1> QED
    BY <1>6, <1>9, <1>11

\* The steps of a client.
LEMMA ClientStep ==
  ASSUME TransportIInv, UNCHANGED <<mdt, rest, calls>>,
         count' \in [Clients -> 0 .. MaxReq], \A c \in Clients : count[c] <= count'[c],
         waiting' \subseteq Clients, GoodNet(net', count', calls, waiting'), Stopped',
         got' \in [Clients -> Message], GotOK'
  PROVE  TransportIInv'
  <1>1. Forms(net', count', calls')
    BY DEF GoodNet
  <1>2. Forms(net, count, calls)'
    BY <1>1, SameForms
  <1>3. TransportTypeOK'
    BY DEF TransportIInv, TransportTypeOK, GoodNet
  <1>4. Apart(Contents(net))' /\ Within(Contents(net), waiting)'
    BY DEF GoodNet
  <1>5. RestOK'
    BY DEF TransportIInv, RestOK
  <1>6. CallsOK'
    BY CallsKept
  <1> QED
    BY <1>2, <1>3, <1>4, <1>5, <1>6 DEF TransportIInv

\* More clients may wait.
LEMMA MoreWait ==
  ASSUME NEW cnt, NEW cl, NEW nt, NEW set, GoodNet(nt, cnt, cl, set),
         NEW more, set \subseteq more
  PROVE  GoodNet(nt, cnt, cl, more)
  BY DEF GoodNet, Within

\* px_rpc_send() adds one message to those on their way to the broker.
LEMMA RequestNet ==
  ASSUME TransportIInv, NEW c \in Clients, px_rpc_send(c),
         NEW msg, msg = <<Id(c), Empty, Id(mdt[c]), Rpc(c)>>,
         NEW nt1, nt1 = SetUp(net, c, Append(net.up[c], msg))
  PROVE  msg \in Message /\ nt1 \in NetType /\ nt1.part = net.part /\ net' = nt1
  <1>1. /\ mdt \in [Clients -> Readers] /\ count \in [Clients -> 0 .. MaxReq]
        /\ net \in NetType /\ Stopped
    BY DEF TransportIInv, TransportTypeOK
  <1>2. /\ c \notin waiting /\ count[c] < MaxReq /\ c \in Peers /\ count[c] \in Nat
        /\ mdt[c] \in Peers
    BY <1>1, TransportAssumption DEF px_rpc_send, Peers, TransportAssumption
  <1>5. net.part[c] = <<>>
    BY <1>1, <1>2, TransportAssumption DEF Stopped, TransportAssumption
  <1>6. net.down[c] = <<>>
    BY <1>2, NotNamed
  <1>7. PICK i, r : i = Id(mdt[c]) /\ r = Rpc(c)
    OBVIOUS
  <1>8. i \in FrameType /\ r \in FrameType /\ i.who = mdt[c] /\ r.who = c
    <2>1. count[c] + 1 \in Nat
      BY <1>2
    <2> QED
      BY <1>2, <1>7, <2>1, FrameFacts DEF Rpc
  <1>9. PICK sent \in Sends(net, c, <<i, r>>, nfaults) :
          sent.ok /\ net' = [sent.net EXCEPT !.down[c] = <<>>]
    BY <1>7 DEF px_rpc_send
  <1>10. sent.net = AfterSend(net, c, <<i, r>>, 2)
    <2>1. Len(<<i, r>>) = 2
      OBVIOUS
    <2>2. PICK k : sent = [ok |-> k = Len(<<i, r>>), net |-> AfterSend(net, c, <<i, r>>, k)]
      BY Zenon DEF Sends
    <2>3. k = 2
      BY <1>9, <2>1, <2>2
    <2> QED
      BY <2>2, <2>3
  <1>11. msg = <<Id(c), Empty, i, r>>
    BY <1>7
  <1>12. sent.net = nt1
    BY <1>1, <1>5, <1>8, <1>10, <1>11, RequestSent
  <1>13. /\ msg \in Message /\ Append(net.up[c], msg) \in Seq(Message)
    <2>1. msg \in Message /\ net.up[c] \in Seq(Message)
      BY <1>1, <1>2, <1>8, <1>11, FrameFacts DEF Message, NetType
    <2> QED
      BY <2>1, AppendProperties
  <1>14. nt1 \in NetType /\ nt1.part = net.part /\ nt1.down = net.down
    BY <1>1, <1>2, <1>11, <1>13, ContentsUp
  <1>15. net' = nt1
    <2>1. nt1.down = [nt1.down EXCEPT ![c] = <<>>]
      BY <1>2, <1>6, <1>14 DEF NetType
    <2>2. [nt1 EXCEPT !.down[c] = <<>>] = nt1
      BY <1>2, <1>14, <2>1 DEF NetType
    <2> QED
      BY <1>9, <1>12, <2>2
  <1> QED
    BY <1>13, <1>14, <1>15

LEMMA RequestKeeps ==
  ASSUME TransportIInv, NEW c \in Clients, px_rpc_send(c)
  PROVE  TransportIInv'
  <1>1. /\ mdt \in [Clients -> Readers] /\ count \in [Clients -> 0 .. MaxReq]
        /\ waiting \subseteq Clients /\ net \in NetType /\ MaxReq \in Nat
        /\ GoodNet(net, count, calls, waiting) /\ Stopped /\ CallsOK
        /\ calls \in [Peers -> Seq(CallType)]
    BY InvNet, TransportAssumption DEF TransportIInv, TransportTypeOK, TransportAssumption
  <1>2. /\ c \notin waiting /\ count[c] < MaxReq /\ c \in Peers /\ count[c] \in Nat
        /\ mdt[c] \in Peers
    BY <1>1 DEF px_rpc_send, Peers
  <1>3. /\ count' = [count EXCEPT ![c] = count[c] + 1]
        /\ waiting' = waiting \cup {c} /\ got' = [got EXCEPT ![c] = <<>>]
        /\ UNCHANGED <<mdt, rest, calls, nfaults>>
    BY DEF px_rpc_send
  <1>4. /\ count' \in [Clients -> 0 .. MaxReq] /\ count'[c] = count[c] + 1
        /\ \A d \in Clients \ {c} : count'[d] = count[d]
        /\ \A d \in Clients : count[d] <= count'[d]
    <2>1. count[c] + 1 \in 0 .. MaxReq
      BY <1>1, <1>2
    <2>2. \A d \in Clients : count[d] \in Nat
      BY <1>1
    <2> QED
      BY <1>1, <1>2, <1>3, <2>1, <2>2
  <1>5. net.part[c] = <<>>
    BY <1>1, <1>2 DEF Stopped
  <1>6. Avoids(Contents(net), {c}) /\ net.down[c] = <<>>
    BY <1>2, NotNamed
  <1>7. PICK i, r : i = Id(mdt[c]) /\ r = Rpc(c)
    OBVIOUS
  <1>8. i \in FrameType /\ r \in FrameType /\ i.who = mdt[c] /\ r.who = c
    <2>1. count[c] + 1 \in Nat
      BY <1>2
    <2> QED
      BY <1>2, <1>7, <2>1, FrameFacts DEF Rpc
  <1>11. PICK msg : msg = <<Id(c), Empty, Id(mdt[c]), Rpc(c)>>
    OBVIOUS
  <1>12. PICK nt1 : nt1 = SetUp(net, c, Append(net.up[c], msg))
    OBVIOUS
  <1>13. msg \in Message /\ nt1 \in NetType /\ nt1.part = net.part /\ net' = nt1
    BY <1>11, <1>12, RequestNet
  <1>16. GoodNet(net, count', calls, waiting')
    <2>1. PICK cnt : cnt = count'
      OBVIOUS
    <2>2. \A d \in Clients \ {c} : cnt[d] = count[d] /\ calls[d] = calls[d]
      BY <1>4, <2>1
    <2>3. GoodNet(net, cnt, calls, waiting)
      BY <1>1, <1>6, <2>2, FormsStable
    <2> QED
      BY <1>3, <2>1, <2>3, MoreWait
  <1>17. UpOK(count', calls, c, msg)
    <2>1. Fresh(count', calls, c)
      <3>1. ASSUME NEW k \in DOMAIN calls[c] PROVE calls[c][k].rpc.n < count'[c]
        <4>1. calls[c][k].rpc.n <= count[c]
          BY <1>1, <3>1 DEF CallsOK
        <4>2. calls[c][k] \in CallType
          BY <1>1, <1>2, <3>1
        <4>3. calls[c][k].rpc.n \in Nat
          BY <4>2 DEF CallType, FrameType
        <4> QED
          BY <1>2, <1>4, <4>1, <4>3
      <3> QED
        BY <3>1 DEF Fresh
    <2>2. r = Request(count', c)
      BY <1>4, <1>7 DEF Rpc, Request
    <2> QED
      BY <1>7, <1>11, <2>1, <2>2 DEF UpOK
  <1>18. Named(c, msg) = {c}
    <2>1. mdt[c] \notin Clients /\ Broker \notin Clients
      BY <1>1, PeersApart DEF Peers
    <2>2. DOMAIN msg = 1 .. 4 /\ msg[1].who = c /\ msg[2].who = Broker /\ msg[3].who = mdt[c] /\ msg[4].who = c
      BY <1>2, <1>7, <1>8, <1>11, FrameFacts
    <2>3. \A k \in 1 .. 4 : k = 1 \/ k = 2 \/ k = 3 \/ k = 4
      OBVIOUS
    <2>4. \A k \in 1 .. 4 : msg[k].who \in Clients => msg[k].who = c
      BY <2>1, <2>2, <2>3
    <2> QED
      BY <2>2, <2>4 DEF Named
  <1>19. GoodNet(net', count', calls, waiting')
    <2>1. PICK cnt, more : cnt = count' /\ more = waiting'
      OBVIOUS
    <2>2. GoodNet(net, cnt, calls, more) /\ UpOK(cnt, calls, c, msg)
      BY <1>16, <1>17, <2>1
    <2>3. Named(c, msg) \subseteq more /\ Avoids(Contents(net), Named(c, msg))
      BY <1>3, <1>6, <1>18, <2>1
    <2>4. GoodNet(nt1, cnt, calls, more)
      BY <1>2, <1>12, <1>13, <2>2, <2>3, PutUp
    <2> QED
      BY <1>13, <2>1, <2>4
  <1>20. Stopped'
    BY <1>1, <1>3, <1>4, <1>5, <1>13 DEF Stopped
  <1>21. got' \in [Clients -> Message] /\ GotOK'
    BY <1>3, <1>4, NothingRead, OwnKept
  <1> QED
    BY <1>1, <1>3, <1>4, <1>19, <1>20, <1>21, ClientStep

\* A send that fails leaves frames in the client's own socket.
LEMMA StoppedNet ==
  ASSUME TransportIInv, NEW c \in Clients, send_fails(c)
  PROVE  \E msg \in Message :
           /\ net' \in NetType /\ net'.up = net.up /\ net'.down = net.down
           /\ net'.part = [net.part EXCEPT ![c] = msg] /\ Contents(net') = Contents(net)
  <1>1. /\ mdt \in [Clients -> Readers] /\ count \in [Clients -> 0 .. MaxReq]
        /\ net \in NetType
    BY DEF TransportIInv, TransportTypeOK
  <1>2. c \in Peers /\ count[c] \in Nat /\ mdt[c] \in Peers
    BY <1>1, TransportAssumption DEF Peers, TransportAssumption
  <1>6. PICK frames : frames = <<Id(mdt[c]), Rpc(c)>>
    OBVIOUS
  <1>7. frames \in Message /\ Len(frames) = 2
    <2>1. count[c] + 1 \in Nat
      BY <1>2
    <2>2. Id(mdt[c]) \in FrameType /\ Rpc(c) \in FrameType
      BY <1>2, <2>1, FrameFacts DEF Rpc
    <2> QED
      BY <1>6, <2>2 DEF Message
  <1>8. PICK sent \in Sends(net, c, frames, nfaults) : ~sent.ok /\ net' = sent.net
    BY <1>6 DEF send_fails
  <1>9. PICK k \in 0 .. 2 : k # 2 /\ net' = AfterSend(net, c, frames, k)
    <2>1. PICK k \in IF "send" \in NetFaults /\ nfaults < MaxFaults
                     THEN 0 .. Len(frames) ELSE {Len(frames)} :
            sent = [ok |-> k = Len(frames), net |-> AfterSend(net, c, frames, k)]
      BY <1>8, Zenon DEF Sends
    <2>2. k \in 0 .. 2
      BY <1>7, <2>1
    <2>3. k # 2 /\ net' = AfterSend(net, c, frames, k)
      BY <1>7, <1>8, <2>1
    <2> QED
      BY <2>2, <2>3
  <1>10. PICK msg : msg = Joined(net.part[c], frames, k)
    OBVIOUS
  <1>11. net' = SetPart(net, c, msg)
    BY <1>7, <1>9, <1>10 DEF AfterSend, SetPart, Joined
  <1>12. msg \in Message
    <2>1. net.part[c] \in Message /\ k \in 0 .. Len(frames)
      BY <1>1, <1>2, <1>7 DEF NetType
    <2> QED
      BY <1>7, <1>10, <2>1, Glue
  <1>13. /\ net' \in NetType /\ net'.up = net.up /\ net'.down = net.down
         /\ net'.part = [net.part EXCEPT ![c] = msg] /\ Contents(net') = Contents(net)
    <2>1. c \in Sockets \cup Clients
      OBVIOUS
    <2>2. /\ SetPart(net, c, msg) \in NetType /\ SetPart(net, c, msg).up = net.up
          /\ SetPart(net, c, msg).down = net.down
          /\ SetPart(net, c, msg).part = [net.part EXCEPT ![c] = msg]
          /\ Contents(SetPart(net, c, msg)) = Contents(net)
      BY <1>1, <1>12, <2>1, ContentsPart
    <2> QED
      BY <1>11, <2>2
  <1> QED
    BY <1>12, <1>13

LEMMA SendFailsKeeps ==
  ASSUME TransportIInv, NEW c \in Clients, send_fails(c)
  PROVE  TransportIInv'
  <1>1. /\ mdt \in [Clients -> Readers] /\ count \in [Clients -> 0 .. MaxReq]
        /\ waiting \subseteq Clients /\ net \in NetType /\ MaxReq \in Nat
        /\ GoodNet(net, count, calls, waiting) /\ Stopped
    BY InvNet, TransportAssumption DEF TransportIInv, TransportTypeOK, TransportAssumption
  <1>2. /\ c \notin waiting /\ count[c] < MaxReq /\ c \in Peers /\ count[c] \in Nat
        /\ mdt[c] \in Peers
    BY <1>1 DEF send_fails, Peers
  <1>3. /\ count' = [count EXCEPT ![c] = MaxReq] /\ got' = [got EXCEPT ![c] = <<>>]
        /\ UNCHANGED <<mdt, waiting, rest, calls>>
    BY DEF send_fails
  <1>4. /\ count' \in [Clients -> 0 .. MaxReq] /\ count'[c] = MaxReq
        /\ \A d \in Clients \ {c} : count'[d] = count[d]
        /\ \A d \in Clients : count[d] <= count'[d]
    BY <1>1, <1>2, <1>3
  <1>5. Avoids(Contents(net), {c})
    BY <1>2, NotNamed
  <1>13. PICK msg \in Message :
           /\ net' \in NetType /\ net'.up = net.up /\ net'.down = net.down
           /\ net'.part = [net.part EXCEPT ![c] = msg] /\ Contents(net') = Contents(net)
    BY StoppedNet
  <1>14. GoodNet(net, count', calls, waiting')
    <2>1. PICK cnt : cnt = count'
      OBVIOUS
    <2>2. \A d \in Clients \ {c} : cnt[d] = count[d] /\ calls[d] = calls[d]
      BY <1>4, <2>1
    <2>3. GoodNet(net, cnt, calls, waiting)
      BY <1>1, <1>5, <2>2, FormsStable
    <2> QED
      BY <1>3, <2>1, <2>3
  <1>15. \A s \in (Peers \cup {Broker}) \ {c} : net'.part[s] = net.part[s]
    BY <1>1, <1>13 DEF NetType
  <1>16. Forms(net', count', calls)
    <2>1. \A s \in Sockets : net'.part[s] = net.part[s]
      BY <1>15, PeersApart DEF Sockets, Peers
    <2> QED
      BY <1>13, <1>14, <2>1 DEF GoodNet, Forms
  <1>17. GoodNet(net', count', calls, waiting')
    BY <1>13, <1>14, <1>16 DEF GoodNet
  <1>18. Stopped'
    <2>1. \A d \in Clients \ {c} : net'.part[d] = net.part[d]
      BY <1>15 DEF Peers
    <2> QED
      BY <1>1, <1>2, <1>3, <1>4, <2>1 DEF Stopped
  <1>19. got' \in [Clients -> Message] /\ GotOK'
    BY <1>3, <1>4, NothingRead, OwnKept
  <1> QED
    BY <1>1, <1>3, <1>4, <1>17, <1>18, <1>19, ClientStep

\* The messages for a client: an answer, or frames glued together.
LEMMA ReplyForms ==
  ASSUME TransportIInv, NEW c \in Clients, NEW msg \in Message,
         DownOK(count, calls, c, msg)
  PROVE  \/ \E b \in Answers(count, c) : msg = <<Empty, b>> /\ ~Glued(msg)
         \/ /\ Len(msg) >= 3 /\ IsBody(msg[Len(msg)]) /\ msg[Len(msg) - 2] # Empty
            /\ \A i \in 1 .. Len(msg) - 1 : msg[i] \in Envelope
            /\ Glued(msg)
  <1>1. mdt \in [Clients -> Readers]
    BY DEF TransportIInv, TransportTypeOK
  <1>2. \A d \in Clients : c # mdt[d]
    BY <1>1, PeersApart
  <1>3. CASE \E b \in Answers(count, c) : msg = <<Empty, b>>
    BY <1>3 DEF Glued
  <1>4. CASE /\ Len(msg) >= 3 /\ IsBody(msg[Len(msg)]) /\ msg[Len(msg) - 2] # Empty
             /\ \A i \in 1 .. Len(msg) - 1 : msg[i] \in Envelope
    <2>1. Len(msg) > 2
      BY <1>4 DEF Message
    <2> QED
      BY <1>4, <2>1 DEF Glued
  <1> QED
    BY <1>2, <1>3, <1>4 DEF DownOK

\* An answer by itself is the client's own.
LEMMA ReplyOwned ==
  ASSUME TransportIInv, NEW c \in Clients, NEW b \in Answers(count, c),
         NEW msg, msg = <<Empty, b>>
  PROVE  Owned(c, count[c], msg)
  <1>1. count \in [Clients -> 0 .. MaxReq] /\ c \in Peers
    BY DEF TransportIInv, TransportTypeOK, Peers
  <1>2. Told(msg) = {2} /\ msg[2] = b
    BY <1>1, AnswerFacts, ReadReply
  <1>3. b \in {Ack(c), Frame("answer", c, count[c])}
    BY DEF Answers
  <1> QED
    BY <1>2, <1>3 DEF Owned

\* What cl_rep_recv() takes for an answer.
LEMMA WholeOwned ==
  ASSUME TransportIInv, NEW c \in Clients, NEW msg \in Message,
         DownOK(count, calls, c, msg), NEW n, n = count[c] \/ Glued(msg)
  PROVE  Owned(c, n, msg)
  <1>1. CASE \E b \in Answers(count, c) : msg = <<Empty, b>> /\ ~Glued(msg)
    BY <1>1, ReplyOwned
  <1>2. CASE Len(msg) >= 3 /\ IsBody(msg[Len(msg)]) /\ msg[Len(msg) - 2] # Empty
    BY <1>2, ReadGluedReply DEF Owned
  <1> QED
    BY <1>1, <1>2, ReplyForms

\* What px_changelog_start() takes for one: of frames glued together, the first.
LEMMA FirstOwned ==
  ASSUME TransportIInv, NEW c \in Clients, NEW msg \in Message,
         DownOK(count, calls, c, msg), msg[1] = Empty,
         NEW n, n = IF Glued(msg) THEN MaxReq ELSE count[c]
  PROVE  SubSeq(msg, 1, 2) \in Message /\ Owned(c, n, SubSeq(msg, 1, 2))
  <1>1. CASE \E b \in Answers(count, c) : msg = <<Empty, b>> /\ ~Glued(msg)
    <2>1. PICK b \in Answers(count, c) : msg = <<Empty, b>> /\ ~Glued(msg)
      BY <1>1
    <2>2. /\ SubSeq(msg, 1, 2) \in Seq(FrameType) /\ Len(SubSeq(msg, 1, 2)) = Len(msg)
          /\ \A i \in 1 .. Len(msg) : SubSeq(msg, 1, 2)[i] = msg[i]
      BY <2>1 DEF Message
    <2>3. SubSeq(msg, 1, 2) = msg
      BY <2>2, SeqEqual DEF Message
    <2> QED
      BY <2>1, <2>3, ReplyOwned
  <1>2. CASE Len(msg) >= 3 /\ Glued(msg) /\ \A i \in 1 .. Len(msg) - 1 : msg[i] \in Envelope
    <2>1. PICK frames : frames = SubSeq(msg, 1, 2)
      OBVIOUS
    <2>2. /\ frames \in Message /\ DOMAIN frames = {1, 2}
          /\ frames[1] = Empty /\ frames[2] = msg[2]
      BY <1>2, <2>1 DEF Message
    <2>3. msg[2] \in Envelope
      BY <1>2 DEF Message
    <2>4. ASSUME NEW i \in DOMAIN frames, Told(frames) = {i}
          PROVE  frames[i].kind = "id"
      <3>1. frames[i] # Empty
        BY <2>4 DEF Told
      <3>2. i = 2
        BY <2>2, <3>1
      <3> QED
        BY <2>2, <2>3, <3>1, <3>2, FrameFacts DEF Envelope
    <2> QED
      BY <1>2, <2>1, <2>2, <2>4 DEF Owned
  <1> QED
    BY <1>1, <1>2, ReplyForms

\* An answer is taken from the client's socket.
LEMMA ReadingKeeps ==
  ASSUME TransportIInv, NEW c \in Clients, zmq_recv(c), NEW n \in {count[c], MaxReq},
         GoesOn(c, n), NEW frames \in Message, got' = [got EXCEPT ![c] = frames],
         Owned(c, n, frames)
  PROVE  TransportIInv'
  <1>1. /\ count \in [Clients -> 0 .. MaxReq] /\ waiting \subseteq Clients
        /\ net \in NetType /\ MaxReq \in Nat
        /\ GoodNet(net, count, calls, waiting) /\ Stopped /\ c \in Peers
    BY InvNet, TransportAssumption
    DEF TransportIInv, TransportTypeOK, Peers, TransportAssumption
  <1>2. /\ net.down[c] # <<>> /\ net' = [net EXCEPT !.down[c] = Tail(@)]
        /\ waiting' = waiting \ {c} /\ count' = [count EXCEPT ![c] = n]
        /\ UNCHANGED <<mdt, rest, calls, nfaults>>
    BY DEF zmq_recv, GoesOn
  <1>3. net' = SetDown(net, c, Tail(net.down[c]))
    BY <1>1, <1>2 DEF SetDown, NetType
  <1>4. PICK nt2 : nt2 = net'
    OBVIOUS
  <1>5. /\ GoodNet(nt2, count, calls, waiting) /\ SameParts(net, nt2)
        /\ Avoids(Contents(nt2), {c})
    <2>1. PICK msg : msg = Head(net.down[c])
      OBVIOUS
    <2>2. nt2 = SetDown(net, c, Tail(net.down[c]))
      BY <1>3, <1>4
    <2>3. /\ GoodNet(nt2, count, calls, waiting) /\ SameParts(net, nt2)
          /\ Avoids(Contents(nt2), Named(c, msg))
      BY <1>1, <1>2, <2>1, <2>2, TakeDown
    <2>4. c \in Named(c, msg)
      BY DEF Named
    <2> QED
      BY <2>3, <2>4 DEF Avoids
  <1>6. /\ count' \in [Clients -> 0 .. MaxReq] /\ count'[c] = n
        /\ \A d \in Clients \ {c} : count'[d] = count[d]
        /\ \A d \in Clients : count[d] <= count'[d]
    BY <1>1, <1>2
  <1>7. GoodNet(net', count', calls, waiting')
    <2>1. PICK cnt : cnt = count'
      OBVIOUS
    <2>2. \A d \in Clients \ {c} : cnt[d] = count[d] /\ calls[d] = calls[d]
      BY <1>6, <2>1
    <2>3. GoodNet(nt2, cnt, calls, waiting)
      BY <1>1, <1>5, <2>2, FormsStable
    <2>4. Within(Contents(nt2), waiting \ {c})
      BY <1>5 DEF GoodNet, Within, Avoids
    <2>5. GoodNet(nt2, cnt, calls, waiting \ {c})
      BY <2>3, <2>4 DEF GoodNet
    <2> QED
      BY <1>2, <1>4, <2>1, <2>5
  <1>8. Stopped'
    BY <1>1, <1>2, <1>4, <1>5, <1>6 DEF Stopped, SameParts
  <1>9. got' \in [Clients -> Message] /\ GotOK'
    BY <1>6, OwnKept
  <1>10. waiting' \subseteq Clients
    BY <1>1, <1>2
  <1> QED
    BY <1>2, <1>6, <1>7, <1>8, <1>9, <1>10, ClientStep

\* The message that a client reads.
LEMMA ReadingTakes ==
  ASSUME TransportIInv, NEW c \in Clients, zmq_recv(c)
  PROVE  /\ Head(net.down[c]) \in Message /\ DownOK(count, calls, c, Head(net.down[c]))
         /\ Head(net.down[c])[1] = Empty
  <1>1. GoodNet(net, count, calls, waiting) /\ c \in Peers
    BY InvNet DEF Peers
  <1>2. net.down[c] # <<>> /\ Head(Head(net.down[c])) = Empty
    BY DEF zmq_recv
  <1>3. PICK nt2 : nt2 = SetDown(net, c, Tail(net.down[c]))
    OBVIOUS
  <1>4. Head(net.down[c]) \in Message /\ DownOK(count, calls, c, Head(net.down[c]))
    BY <1>1, <1>2, <1>3, TakeDown
  <1> QED
    BY <1>2, <1>4

LEMMA ReplyKeeps ==
  ASSUME TransportIInv, NEW c \in Clients, cl_rep_recv(c)
  PROVE  TransportIInv'
  <1>1. zmq_recv(c) /\ got' = [got EXCEPT ![c] = Head(net.down[c])]
    BY DEF cl_rep_recv
  <1>2. PICK msg : msg = Head(net.down[c])
    OBVIOUS
  <1>3. PICK n : GoesOn(c, n) /\ (n = count[c] \/ (n = MaxReq /\ Glued(msg)))
    BY <1>2 DEF cl_rep_recv
  <1>4. msg \in Message /\ DownOK(count, calls, c, msg)
    BY <1>1, <1>2, ReadingTakes
  <1>5. Owned(c, n, msg)
    BY <1>3, <1>4, WholeOwned
  <1> QED
    BY <1>1, <1>2, <1>3, <1>4, <1>5, ReadingKeeps

LEMMA StartKeeps ==
  ASSUME TransportIInv, NEW c \in Clients, px_changelog_start(c)
  PROVE  TransportIInv'
  <1>1. zmq_recv(c) /\ got' = [got EXCEPT ![c] = SubSeq(Head(net.down[c]), 1, 2)]
    BY DEF px_changelog_start
  <1>2. PICK msg : msg = Head(net.down[c])
    OBVIOUS
  <1>3. PICK n : n = IF Glued(msg) THEN MaxReq ELSE count[c]
    OBVIOUS
  <1>4. GoesOn(c, n)
    BY <1>2, <1>3 DEF px_changelog_start
  <1>5. msg \in Message /\ DownOK(count, calls, c, msg) /\ msg[1] = Empty
    BY <1>1, <1>2, ReadingTakes
  <1>6. PICK frames : frames = SubSeq(msg, 1, 2)
    OBVIOUS
  <1>7. frames \in Message /\ Owned(c, n, frames)
    BY <1>3, <1>5, <1>6, FirstOwned
  <1>8. got' = [got EXCEPT ![c] = frames] /\ n \in {count[c], MaxReq}
    BY <1>1, <1>2, <1>3, <1>6
  <1> QED
    BY <1>1, <1>4, <1>7, <1>8, ReadingKeeps

LEMMA SkipKeeps ==
  ASSUME TransportIInv, NEW c \in Clients, req_skips(c)
  PROVE  TransportIInv'
  <1>1. net \in NetType /\ GoodNet(net, count, calls, waiting) /\ c \in Peers
    BY InvNet DEF TransportIInv, TransportTypeOK, Peers
  <1>2. /\ net.down[c] # <<>> /\ net' = [net EXCEPT !.down[c] = Tail(@)]
        /\ UNCHANGED <<mdt, waiting, count, rest, calls, got, nfaults>>
    BY DEF req_skips
  <1>3. net' = SetDown(net, c, Tail(net.down[c]))
    BY <1>1, <1>2 DEF SetDown, NetType
  <1>4. GoodNet(net', count, calls, waiting) /\ SameParts(net, net')
    BY <1>1, <1>2, <1>3, TakeDown
  <1>5. rest' \in [Sockets -> Message] /\ RestOK'
    BY <1>2 DEF TransportIInv, TransportTypeOK, RestOK
  <1> QED
    BY <1>2, <1>4, <1>5, SameCalls

-----------------------------------------------------------------------------
(***************************************************************************)
(* Theorems.                                                               *)
(***************************************************************************)

LEMMA TransportStarts ==
  ASSUME TransportInit
  PROVE  TransportIInv
  <1>1. <<>> \in Message /\ <<>> \in Seq(Message) /\ <<>> \in Seq(CallType) /\ Told(<<>>) = {}
    BY DEF Message, Told
  <1>2. \A p \in Peers : /\ <<Id(p), Empty, Id(p), Frame("signal", p, 0)>> \in Message
                         /\ Id(p).who = p /\ Frame("signal", p, 0).who = p
    BY FrameFacts DEF Message
  <1>3. /\ net.up = [p \in Peers |->
                       IF p \in Readers
                       THEN <<<<Id(p), Empty, Id(p), Frame("signal", p, 0)>>>> ELSE <<>>]
        /\ net.down = [p \in Peers |-> <<>>]
        /\ net.part = [s \in Peers \cup {Broker} |-> <<>>]
    BY DEF TransportInit, NetInit
  <1>4. net \in NetType
    <2>1. \A p \in Peers : net.up[p] \in Seq(Message)
      BY <1>1, <1>2, <1>3
    <2> QED
      BY <1>1, <1>3, <2>1 DEF TransportInit, NetInit, NetType
  <1>5. TransportTypeOK
    <2>1. count \in [Clients -> 0 .. MaxReq]
      BY TransportAssumption DEF TransportInit, TransportAssumption
    <2> QED
      BY <1>1, <1>4, <2>1 DEF TransportInit, TransportTypeOK, Sockets
  <1>6. Forms(net, count, calls)
    <2>1. ASSUME NEW p \in Peers, NEW i \in DOMAIN net.up[p]
          PROVE  UpOK(count, calls, p, net.up[p][i])
      <3>1. p \in Readers
        BY <1>3, <2>1
      <3>2. net.up[p] = <<<<Id(p), Empty, Id(p), Frame("signal", p, 0)>>>>
        BY <1>3, <3>1
      <3>3. net.up[p][i] = <<Id(p), Empty, Id(p), Frame("signal", p, 0)>>
        BY <2>1, <3>2
      <3> QED
        BY <3>1, <3>3 DEF UpOK
    <2>2. \A p \in Peers : \A i \in DOMAIN net.down[p] : DownOK(count, calls, p, net.down[p][i])
      BY <1>3
    <2>3. \A s \in Sockets : PartOK(net.part[s])
      BY <1>3 DEF PartOK, Sockets, Peers
    <2> QED
      BY <2>1, <2>2, <2>3 DEF Forms
  <1>7. ASSUME NEW b \in Box, NEW i \in DOMAIN Contents(net)[b]
        PROVE  Named(b[2], Contents(net)[b][i]) = {}
    <2>1. CASE b \in {"up"} \X Peers
      <3>1. PICK p \in Peers : b = <<"up", p>>
        BY <2>1
      <3>2. Contents(net)[b] = net.up[p] /\ b[2] = p
        BY <1>4, <3>1, ContentsAt
      <3>3. p \in Readers /\ p \notin Clients
        BY <1>3, <1>7, <3>2, PeersApart
      <3>4. Contents(net)[b][i] = <<Id(p), Empty, Id(p), Frame("signal", p, 0)>>
        BY <1>3, <1>7, <3>2, <3>3
      <3>5. PICK msg : msg = <<Id(p), Empty, Id(p), Frame("signal", p, 0)>>
        OBVIOUS
      <3>6. DOMAIN msg = 1 .. 4 /\ msg[1].who = p /\ msg[2].who = Broker /\ msg[3].who = p /\ msg[4].who = p
        BY <1>2, <3>5, FrameFacts
      <3>7. \A k \in 1 .. 4 : k = 1 \/ k = 2 \/ k = 3 \/ k = 4
        OBVIOUS
      <3>8. \A k \in DOMAIN msg : msg[k].who \notin Clients
        BY <3>3, <3>6, <3>7, PeersApart DEF Peers
      <3> QED
        BY <3>2, <3>3, <3>4, <3>5, <3>8 DEF Named
    <2>2. CASE b \in {"down"} \X Peers
      <3>1. PICK p \in Peers : b = <<"down", p>>
        BY <2>2
      <3>2. Contents(net)[b] = <<>>
        BY <1>3, <1>4, <3>1, ContentsAt
      <3> QED
        BY <1>7, <3>2
    <2>3. CASE b \in {"part"} \X Sockets
      <3>1. PICK s \in Sockets : b = <<"part", s>>
        BY <2>3
      <3>2. Contents(net)[b] = <<<<>>>> /\ b[2] = s
        BY <1>3, <1>4, <3>1, ContentsAt DEF Sockets, Peers
      <3>3. Contents(net)[b][i] = <<>>
        BY <1>7, <3>2
      <3> QED
        BY <3>2, <3>3, PeersApart DEF Named
    <2> QED
      BY <2>1, <2>2, <2>3 DEF Box
  <1>8. Apart(Contents(net)) /\ Within(Contents(net), waiting)
    BY <1>7 DEF Apart, Within
  <1>9. Stopped
    BY <1>3 DEF Stopped, Peers
  <1>10. RestOK
    BY <1>1 DEF TransportInit, RestOK, Sockets
  <1>11. CallsOK
    BY DEF TransportInit, CallsOK, Peers
  <1>12. GotOK
    BY NothingRead DEF TransportInit, GotOK
  <1> QED
    BY <1>5, <1>6, <1>8, <1>9, <1>10, <1>11, <1>12 DEF TransportIInv

\* With failures of one kind, of zmq_send() or in lcapnet_req_update(), messages
\* keep their forms whatever the other steps are: every client is named by at
\* most one message, while it waits.
THEOREM TransportInvariance ==
  ASSUME OneKind
  PROVE  TransportSpec => []TransportIInv
  <1>1. TransportInit => TransportIInv
    BY TransportStarts
  <1>2. TransportIInv /\ [TransportNext]_transportVars => TransportIInv'
    <2> SUFFICES ASSUME TransportIInv, [TransportNext]_transportVars
                 PROVE  TransportIInv'
      OBVIOUS
    <2>1. CASE UNCHANGED transportVars
      <3>1. UNCHANGED <<mdt, waiting, count, net, rest, calls, got>>
        BY <2>1 DEF transportVars
      <3>2. GoodNet(net', count, calls, waiting) /\ SameParts(net, net')
        BY <3>1, InvNet DEF SameParts
      <3>3. rest' \in [Sockets -> Message] /\ RestOK'
        BY <3>1 DEF TransportIInv, TransportTypeOK, RestOK
      <3> QED
        BY <3>1, <3>2, <3>3, SameCalls
    <2>2. ASSUME NEW c \in Clients,
                 \/ px_rpc_send(c) \/ send_fails(c)
                 \/ px_changelog_start(c) \/ cl_rep_recv(c) \/ req_skips(c)
          PROVE  TransportIInv'
      BY <2>2, RequestKeeps, SendFailsKeeps, StartKeeps, ReplyKeeps, SkipKeeps
    <2>3. ASSUME NEW s \in Readers \cup {Broker}, Receive(s)
          PROVE  TransportIInv'
      <3>1. CASE recv_no_body(s)
        BY <3>1, NoBodyKeeps DEF Sockets
      <3>2. CASE lcapd_process_request
        BY <3>2, BrokerKeeps
      <3>3. CASE s # Broker /\ (reader_handles(s) \/ reader_refuses(s))
        BY <3>3, HandlesKeeps, RefusesKeeps
      <3> QED
        BY <2>3, <3>1, <3>2, <3>3 DEF Receive
    <2>4. ASSUME NEW s \in Readers \cup {Broker}, recv_no_memory(s)
          PROVE  TransportIInv'
      BY <2>4, NoMemoryKeeps DEF Sockets
    <2> QED
      BY <2>1, <2>2, <2>3, <2>4 DEF TransportNext
  <1> QED
    BY <1>1, <1>2, PTL DEF TransportSpec

\* With failures of one kind, however many, the readers' handlers run for the
\* requests of the clients that named them, in order and once.
THEOREM HandledInTurn ==
  ASSUME OneKind
  PROVE  TransportSpec => []HandledAsSent
  <1>1. TransportIInv => HandledAsSent
    <2> SUFFICES ASSUME TransportIInv, NEW c \in Peers, NEW i \in DOMAIN calls[c]
                 PROVE  /\ c \in Clients /\ calls[c][i].at = mdt[c]
                        /\ calls[c][i].rpc.who = c
                        /\ \A j \in 1 .. i - 1 : calls[c][j].rpc.n < calls[c][i].rpc.n
      BY DEF HandledAsSent
    <2>1. c \in Clients
      <3>1. ASSUME c \in Readers PROVE FALSE
        <4>1. calls[c] = <<>>
          BY <3>1 DEF TransportIInv, CallsOK
        <4> QED
          BY <4>1
      <3> QED
        BY <3>1 DEF Peers
    <2> QED
      BY <2>1 DEF TransportIInv, CallsOK
  <1> QED
    BY <1>1, TransportInvariance, PTL
=============================================================================
