----------------------------- MODULE CostProofs -----------------------------
(***************************************************************************)
(* What failures of one kind cost in Transport: at most one call each; and *)
(* what clients take for answers, which failures can spoil.                *)
(***************************************************************************)
EXTENDS TransportProofs, FiniteSetTheorems

\* Sets that lose or gain a member.
LEMMA CardinalitySub ==
  ASSUME NEW S, IsFiniteSet(S), NEW T, T \subseteq S
  PROVE  IsFiniteSet(T) /\ Cardinality(T) \in Nat /\ Cardinality(T) <= Cardinality(S)
  <1>1. T \in SUBSET S
    OBVIOUS
  <1>2. IsFiniteSet(T) /\ Cardinality(T) <= Cardinality(S)
    BY <1>1, FS_Subset
  <1> QED
    BY <1>2, FS_CardinalityType

\* One member more, or none.
LEMMA CardinalityAdd ==
  ASSUME NEW S, IsFiniteSet(S), NEW x, NEW T, T \subseteq S \cup {x}
  PROVE  IsFiniteSet(T) /\ Cardinality(T) \in Nat /\ Cardinality(T) <= Cardinality(S) + 1
  <1>1. PICK U : U = S \cup {x}
    OBVIOUS
  <1>2. IsFiniteSet(U) /\ Cardinality(U) = IF x \in S THEN Cardinality(S) ELSE Cardinality(S) + 1
    BY <1>1, FS_AddElement
  <1>3. IsFiniteSet(T) /\ Cardinality(T) \in Nat /\ Cardinality(T) <= Cardinality(U)
    BY <1>1, <1>2, CardinalitySub
  <1>4. Cardinality(S) \in Nat
    BY FS_CardinalityType
  <1> QED
    BY <1>2, <1>3, <1>4

\* One member less.
LEMMA CardinalityLess ==
  ASSUME NEW S, IsFiniteSet(S), NEW x \in S, NEW T, T \subseteq S \ {x}
  PROVE  IsFiniteSet(T) /\ Cardinality(T) \in Nat /\ Cardinality(T) + 1 <= Cardinality(S)
  <1>1. PICK U : U = S \ {x}
    OBVIOUS
  <1>2. IsFiniteSet(U) /\ Cardinality(U) = Cardinality(S) - 1
    BY <1>1, FS_RemoveElement
  <1>3. IsFiniteSet(T) /\ Cardinality(T) \in Nat /\ Cardinality(T) <= Cardinality(U)
    BY <1>1, <1>2, CardinalitySub
  <1>4. Cardinality(S) \in Nat
    BY FS_CardinalityType
  <1> QED
    BY <1>2, <1>3, <1>4

-----------------------------------------------------------------------------
(***************************************************************************)
(* What a step may cost.                                                   *)
(***************************************************************************)

CostInv ==
  /\ nfaults \in Nat
  /\ IsFiniteSet(waiting)
  /\ IsFiniteSet(Open(net))
  /\ LossesPaid

\* From the losses L, the open sockets O and n failures, to L2, O2 and n2: the
\* call of c is lost, the socket s is left open, and failures pay for both; or
\* the message that s had begun takes the call of c with it.
Paid(L, O, n, L2, O2, n2, c, s) ==
  \/ L2 \subseteq L /\ O2 \subseteq O /\ n <= n2
  \/ L2 \subseteq L \cup {c} /\ O2 \subseteq O /\ n + 1 <= n2
  \/ L2 \subseteq L /\ O2 \subseteq O \cup {s} /\ n + 1 <= n2
  \/ L2 \subseteq L \cup {c} /\ O2 \subseteq O \cup {s} /\ n + 2 <= n2
  \/ L2 \subseteq L \cup {c} /\ s \in O /\ O2 \subseteq O \ {s} /\ n <= n2

LEMMA PaidBound ==
  ASSUME NEW L, NEW O, IsFiniteSet(L), IsFiniteSet(O), NEW n \in Nat, NEW n2 \in Nat,
         Cardinality(L) + Cardinality(O) <= n,
         NEW L2, NEW O2, NEW c, NEW s, Paid(L, O, n, L2, O2, n2, c, s)
  PROVE  IsFiniteSet(O2) /\ Cardinality(L2) + Cardinality(O2) <= n2
  <1>1. Cardinality(L) \in Nat /\ Cardinality(O) \in Nat
    BY FS_CardinalityType
  <1>2. CASE L2 \subseteq L /\ O2 \subseteq O /\ n <= n2
    <2>1. Cardinality(L2) \in Nat /\ Cardinality(L2) <= Cardinality(L)
      BY <1>2, CardinalitySub
    <2>2. /\ IsFiniteSet(O2) /\ Cardinality(O2) \in Nat /\ Cardinality(O2) <= Cardinality(O)
      BY <1>2, CardinalitySub
    <2> QED
      BY <1>1, <1>2, <2>1, <2>2
  <1>3. CASE L2 \subseteq L \cup {c} /\ O2 \subseteq O /\ n + 1 <= n2
    <2>1. Cardinality(L2) \in Nat /\ Cardinality(L2) <= Cardinality(L) + 1
      BY <1>3, CardinalityAdd
    <2>2. IsFiniteSet(O2) /\ Cardinality(O2) \in Nat /\ Cardinality(O2) <= Cardinality(O)
      BY <1>3, CardinalitySub
    <2> QED
      BY <1>1, <1>3, <2>1, <2>2
  <1>4. CASE L2 \subseteq L /\ O2 \subseteq O \cup {s} /\ n + 1 <= n2
    <2>1. Cardinality(L2) \in Nat /\ Cardinality(L2) <= Cardinality(L)
      BY <1>4, CardinalitySub
    <2>2. IsFiniteSet(O2) /\ Cardinality(O2) \in Nat /\ Cardinality(O2) <= Cardinality(O) + 1
      BY <1>4, CardinalityAdd
    <2> QED
      BY <1>1, <1>4, <2>1, <2>2
  <1>5. CASE L2 \subseteq L \cup {c} /\ O2 \subseteq O \cup {s} /\ n + 2 <= n2
    <2>1. Cardinality(L2) \in Nat /\ Cardinality(L2) <= Cardinality(L) + 1
      BY <1>5, CardinalityAdd
    <2>2. IsFiniteSet(O2) /\ Cardinality(O2) \in Nat /\ Cardinality(O2) <= Cardinality(O) + 1
      BY <1>5, CardinalityAdd
    <2> QED
      BY <1>1, <1>5, <2>1, <2>2
  <1>6. CASE L2 \subseteq L \cup {c} /\ s \in O /\ O2 \subseteq O \ {s} /\ n <= n2
    <2>1. Cardinality(L2) \in Nat /\ Cardinality(L2) <= Cardinality(L) + 1
      BY <1>6, CardinalityAdd
    <2>2. IsFiniteSet(O2) /\ Cardinality(O2) \in Nat /\ Cardinality(O2) + 1 <= Cardinality(O)
      BY <1>6, CardinalityLess
    <2> QED
      BY <1>1, <1>6, <2>1, <2>2
  <1> QED
    BY <1>2, <1>3, <1>4, <1>5, <1>6 DEF Paid

\* The same for a step.
LEMMA PaidStep ==
  ASSUME CostInv, nfaults' \in Nat, IsFiniteSet(waiting'), NEW c, NEW s,
         Paid(waiting \ Carried(net), Open(net), nfaults,
              waiting' \ Carried(net'), Open(net'), nfaults', c, s)
  PROVE  CostInv'
  <1>1. PICK L, O, L2, O2 : /\ L = waiting \ Carried(net) /\ O = Open(net)
                            /\ L2 = waiting' \ Carried(net') /\ O2 = Open(net')
    OBVIOUS
  <1>2. PICK n, n2 : n = nfaults /\ n2 = nfaults'
    OBVIOUS
  <1>3. /\ n \in Nat /\ n2 \in Nat /\ IsFiniteSet(waiting) /\ IsFiniteSet(O)
        /\ Cardinality(L) + Cardinality(O) <= n
    BY <1>1, <1>2 DEF CostInv, LossesPaid
  <1>4. IsFiniteSet(L)
    BY <1>1, <1>3, CardinalitySub
  <1>5. Paid(L, O, n, L2, O2, n2, c, s)
    BY <1>1, <1>2
  <1>6. IsFiniteSet(O2) /\ Cardinality(L2) + Cardinality(O2) <= n2
    BY <1>3, <1>4, <1>5, PaidBound
  <1> QED
    BY <1>1, <1>2, <1>6 DEF CostInv, LossesPaid

-----------------------------------------------------------------------------
(***************************************************************************)
(* The messages that carry a call.                                         *)
(***************************************************************************)

\* Where messages are only added, no call is lost.
Longer(nt, nt2) ==
  \A p \in Peers :
    /\ \A i \in DOMAIN nt.up[p] : i \in DOMAIN nt2.up[p] /\ nt2.up[p][i] = nt.up[p][i]
    /\ \A i \in DOMAIN nt.down[p] :
         i \in DOMAIN nt2.down[p] /\ nt2.down[p][i] = nt.down[p][i]

LEMMA CarriedGrows ==
  ASSUME NEW nt, NEW nt2, Longer(nt, nt2)
  PROVE  Carried(nt) \subseteq Carried(nt2)
  <1> SUFFICES ASSUME NEW c \in Carried(nt) PROVE c \in Carried(nt2)
    OBVIOUS
  <1>1. c \in Clients
    BY DEF Carried
  <1>2. PICK p \in Peers : \/ \E i \in DOMAIN nt.up[p] : UpCarries(nt.up[p][i], c)
                           \/ \E i \in DOMAIN nt.down[p] : DownCarries(nt.down[p][i], c)
    BY Zenon DEF Carried
  <1>3. CASE \E i \in DOMAIN nt.up[p] : UpCarries(nt.up[p][i], c)
    <2>1. \E i \in DOMAIN nt2.up[p] : UpCarries(nt2.up[p][i], c)
      BY <1>3, Zenon DEF Longer
    <2> QED
      BY <1>1, <2>1, Zenon DEF Carried
  <1>4. CASE \E i \in DOMAIN nt.down[p] : DownCarries(nt.down[p][i], c)
    <2>1. \E i \in DOMAIN nt2.down[p] : DownCarries(nt2.down[p][i], c)
      BY <1>4, Zenon DEF Longer
    <2> QED
      BY <1>1, <2>1, Zenon DEF Carried
  <1> QED
    BY <1>2, <1>3, <1>4

\* A message is taken: no call is lost but the one that it carries.
LEMMA CarriedTakeUp ==
  ASSUME NEW nt \in NetType, NEW p \in Peers, nt.up[p] # <<>>,
         NEW nt2, nt2 = SetUp(nt, p, Tail(nt.up[p])), NEW c \in Carried(nt)
  PROVE  c \in Carried(nt2) \/ UpCarries(Head(nt.up[p]), c)
  <1>1. nt.up[p] \in Seq(Message)
    BY DEF NetType
  <1>2. PICK q : q = nt.up[p]
    OBVIOUS
  <1>3. /\ Tail(q) \in Seq(Message) /\ Len(Tail(q)) = Len(q) - 1 /\ Len(q) \in Nat
        /\ \A i \in 1 .. Len(Tail(q)) : Tail(q)[i] = q[i + 1]
        /\ DOMAIN q = 1 .. Len(q) /\ DOMAIN Tail(q) = 1 .. Len(Tail(q))
    BY <1>1, <1>2, HeadTailProperties
  <1>4. /\ nt2.part = nt.part /\ nt2.down = nt.down
        /\ nt2.up = [nt.up EXCEPT ![p] = Tail(q)]
    BY <1>2, <1>3, ContentsUp
  <1>5. nt2.up[p] = Tail(q) /\ \A r \in Peers \ {p} : nt2.up[r] = nt.up[r]
    BY <1>4 DEF NetType
  <1>6. c \in Clients
    BY DEF Carried
  <1>7. PICK r \in Peers : \/ \E i \in DOMAIN nt.up[r] : UpCarries(nt.up[r][i], c)
                           \/ \E i \in DOMAIN nt.down[r] : DownCarries(nt.down[r][i], c)
    BY Zenon DEF Carried
  <1>8. CASE \E i \in DOMAIN nt.down[r] : DownCarries(nt.down[r][i], c)
    BY <1>4, <1>6, <1>8, Zenon DEF Carried
  <1>9. CASE r # p /\ \E i \in DOMAIN nt.up[r] : UpCarries(nt.up[r][i], c)
    <2>1. \E i \in DOMAIN nt2.up[r] : UpCarries(nt2.up[r][i], c)
      BY <1>5, <1>9
    <2> QED
      BY <1>4, <1>6, <2>1, Zenon DEF Carried
  <1>10. CASE r = p /\ \E i \in DOMAIN nt.up[r] : UpCarries(nt.up[r][i], c)
    <2>1. PICK i \in DOMAIN q : UpCarries(q[i], c)
      BY <1>2, <1>10
    <2>2. CASE i = 1
      <3>1. Head(q) = q[1]
        BY <1>1, <1>2
      <3> QED
        BY <1>2, <1>4, <2>1, <2>2, <3>1
    <2>3. CASE i # 1
      <3>1. i - 1 \in DOMAIN Tail(q) /\ Tail(q)[i - 1] = q[i]
        BY <1>3, <2>1, <2>3
      <3>2. \E j \in DOMAIN nt2.up[p] : UpCarries(nt2.up[p][j], c)
        BY <1>5, <2>1, <3>1
      <3> QED
        BY <1>4, <1>6, <3>2, Zenon DEF Carried
    <2> QED
      BY <2>2, <2>3
  <1> QED
    BY <1>7, <1>8, <1>9, <1>10

\* The same for a message to a reader or a client.
LEMMA CarriedTakeDown ==
  ASSUME NEW nt \in NetType, NEW p \in Peers, nt.down[p] # <<>>,
         NEW nt2, nt2 = SetDown(nt, p, Tail(nt.down[p])), NEW c \in Carried(nt)
  PROVE  c \in Carried(nt2) \/ DownCarries(Head(nt.down[p]), c)
  <1>1. nt.down[p] \in Seq(Message)
    BY DEF NetType
  <1>2. PICK q : q = nt.down[p]
    OBVIOUS
  <1>3. /\ Tail(q) \in Seq(Message) /\ Len(Tail(q)) = Len(q) - 1 /\ Len(q) \in Nat
        /\ \A i \in 1 .. Len(Tail(q)) : Tail(q)[i] = q[i + 1]
        /\ DOMAIN q = 1 .. Len(q) /\ DOMAIN Tail(q) = 1 .. Len(Tail(q))
    BY <1>1, <1>2, HeadTailProperties
  <1>4. /\ nt2.part = nt.part /\ nt2.up = nt.up
        /\ nt2.down = [nt.down EXCEPT ![p] = Tail(q)]
    BY <1>2, <1>3, ContentsDown
  <1>5. nt2.down[p] = Tail(q) /\ \A r \in Peers \ {p} : nt2.down[r] = nt.down[r]
    BY <1>4 DEF NetType
  <1>6. c \in Clients
    BY DEF Carried
  <1>7. PICK r \in Peers : \/ \E i \in DOMAIN nt.up[r] : UpCarries(nt.up[r][i], c)
                           \/ \E i \in DOMAIN nt.down[r] : DownCarries(nt.down[r][i], c)
    BY Zenon DEF Carried
  <1>8. CASE \E i \in DOMAIN nt.up[r] : UpCarries(nt.up[r][i], c)
    BY <1>4, <1>6, <1>8, Zenon DEF Carried
  <1>9. CASE r # p /\ \E i \in DOMAIN nt.down[r] : DownCarries(nt.down[r][i], c)
    <2>1. \E i \in DOMAIN nt2.down[r] : DownCarries(nt2.down[r][i], c)
      BY <1>5, <1>9
    <2> QED
      BY <1>4, <1>6, <2>1, Zenon DEF Carried
  <1>10. CASE r = p /\ \E i \in DOMAIN nt.down[r] : DownCarries(nt.down[r][i], c)
    <2>1. PICK i \in DOMAIN q : DownCarries(q[i], c)
      BY <1>2, <1>10
    <2>2. CASE i = 1
      <3>1. Head(q) = q[1]
        BY <1>1, <1>2
      <3> QED
        BY <1>2, <1>4, <2>1, <2>2, <3>1
    <2>3. CASE i # 1
      <3>1. i - 1 \in DOMAIN Tail(q) /\ Tail(q)[i - 1] = q[i]
        BY <1>3, <2>1, <2>3
      <3>2. \E j \in DOMAIN nt2.down[p] : DownCarries(nt2.down[p][j], c)
        BY <1>5, <2>1, <3>1
      <3> QED
        BY <1>4, <1>6, <3>2, Zenon DEF Carried
    <2> QED
      BY <2>2, <2>3
  <1> QED
    BY <1>7, <1>8, <1>9, <1>10

\* What the broker and a reader read.
LEMMA BrokerTakes ==
  ASSUME TransportIInv, NEW msg \in Incoming(Broker)
  PROVE  /\ msg.net.part = net.part
         /\ \A c \in Carried(net) : \/ c \in Carried(msg.net)
                                    \/ rest[Broker] = <<>> /\ UpCarries(msg.frames, c)
  <1>1. net \in NetType
    BY DEF TransportIInv, TransportTypeOK
  <1>2. CASE rest[Broker] # <<>>
    <2>1. msg = [frames |-> rest[Broker], net |-> net]
      BY <1>2 DEF Incoming
    <2>2. msg.net = net
      BY <2>1
    <2> QED
      BY <2>2
  <1>3. CASE rest[Broker] = <<>>
    <2>1. PICK p \in Peers : /\ net.up[p] # <<>>
                             /\ msg = [frames |-> Head(net.up[p]),
                                       net |-> [net EXCEPT !.up[p] = Tail(@)]]
      BY <1>3, Zenon DEF Incoming
    <2>2. msg.frames = Head(net.up[p]) /\ msg.net = SetUp(net, p, Tail(net.up[p]))
      BY <1>1, <2>1 DEF SetUp, NetType
    <2>3. Tail(net.up[p]) \in Seq(Message)
      BY <1>1, <2>1, HeadTailProperties DEF NetType
    <2>4. msg.net.part = net.part
      <3>1. PICK v \in Seq(Message) : v = Tail(net.up[p])
        BY <2>3
      <3>2. SetUp(net, p, v).part = net.part
        BY <1>1, ContentsUp
      <3> QED
        BY <2>2, <3>1, <3>2
    <2>5. PICK nt2, fr : nt2 = msg.net /\ fr = msg.frames
      OBVIOUS
    <2>6. nt2 = SetUp(net, p, Tail(net.up[p])) /\ fr = Head(net.up[p])
      BY <2>2, <2>5
    <2>7. \A c \in Carried(net) : c \in Carried(nt2) \/ UpCarries(fr, c)
      BY <1>1, <2>1, <2>6, CarriedTakeUp
    <2> QED
      BY <1>3, <2>4, <2>5, <2>7
  <1> QED
    BY <1>2, <1>3

\* What changelog_reader_rpc_hdl() takes is the head of its queue, or part of it.
LEMMA ReaderTakes ==
  ASSUME TransportIInv, NEW m \in Readers, NEW msg \in Incoming(m)
  PROVE  /\ msg.net.part = net.part
         /\ \A c \in Carried(net) : \/ c \in Carried(msg.net)
                                    \/ rest[m] = <<>> /\ DownCarries(msg.frames, c)
  <1>1. net \in NetType /\ m \in Peers /\ m # Broker
    BY PeersApart DEF TransportIInv, TransportTypeOK, Peers
  <1>2. CASE rest[m] # <<>>
    <2>1. msg = [frames |-> rest[m], net |-> net]
      BY <1>2 DEF Incoming
    <2>2. msg.net = net
      BY <2>1
    <2> QED
      BY <2>2
  <1>3. CASE rest[m] = <<>>
    <2>1. /\ net.down[m] # <<>>
          /\ msg = [frames |-> Head(net.down[m]), net |-> [net EXCEPT !.down[m] = Tail(@)]]
      BY <1>1, <1>3 DEF Incoming
    <2>2. msg.frames = Head(net.down[m]) /\ msg.net = SetDown(net, m, Tail(net.down[m]))
      BY <1>1, <2>1 DEF SetDown, NetType
    <2>3. Tail(net.down[m]) \in Seq(Message)
      BY <1>1, <2>1, HeadTailProperties DEF NetType
    <2>4. msg.net.part = net.part
      <3>1. PICK v \in Seq(Message) : v = Tail(net.down[m])
        BY <2>3
      <3>2. SetDown(net, m, v).part = net.part
        BY <1>1, ContentsDown
      <3> QED
        BY <2>2, <3>1, <3>2
    <2>5. PICK nt2, fr : nt2 = msg.net /\ fr = msg.frames
      OBVIOUS
    <2>6. nt2 = SetDown(net, m, Tail(net.down[m])) /\ fr = Head(net.down[m])
      BY <2>2, <2>5
    <2>7. \A c \in Carried(net) : c \in Carried(nt2) \/ DownCarries(fr, c)
      BY <1>1, <2>1, <2>6, CarriedTakeDown
    <2> QED
      BY <1>3, <2>4, <2>5, <2>7
  <1> QED
    BY <1>2, <1>3

\* A message is added.
LEMMA CarriedPutUp ==
  ASSUME NEW nt \in NetType, NEW p \in Peers, NEW msg \in Message,
         NEW nt2, nt2 = SetUp(nt, p, Append(nt.up[p], msg))
  PROVE  /\ Carried(nt) \subseteq Carried(nt2) /\ nt2.part = nt.part
         /\ \A c \in Clients : UpCarries(msg, c) => c \in Carried(nt2)
  <1>1. nt.up[p] \in Seq(Message)
    BY DEF NetType
  <1>2. PICK q : q = nt.up[p]
    OBVIOUS
  <1>3. /\ Append(q, msg) \in Seq(Message) /\ Len(Append(q, msg)) = Len(q) + 1
        /\ Len(q) \in Nat /\ Append(q, msg)[Len(q) + 1] = msg
        /\ \A i \in 1 .. Len(q) : Append(q, msg)[i] = q[i]
        /\ DOMAIN q = 1 .. Len(q) /\ DOMAIN Append(q, msg) = 1 .. Len(q) + 1
    <2>1. q \in Seq(Message) /\ Len(q) \in Nat /\ DOMAIN q = 1 .. Len(q)
      BY <1>1, <1>2
    <2>2. /\ Append(q, msg) \in Seq(Message) /\ Len(Append(q, msg)) = Len(q) + 1
          /\ Append(q, msg)[Len(q) + 1] = msg
          /\ \A i \in 1 .. Len(q) : Append(q, msg)[i] = q[i]
      BY <2>1, AppendProperties
    <2> QED
      BY <2>1, <2>2
  <1>4. /\ nt2.part = nt.part /\ nt2.down = nt.down
        /\ nt2.up = [nt.up EXCEPT ![p] = Append(q, msg)]
    <2>1. PICK v \in Seq(Message) : v = Append(q, msg)
      BY <1>3
    <2>2. PICK nt3 : nt3 = SetUp(nt, p, v)
      OBVIOUS
    <2>3. nt3.part = nt.part /\ nt3.down = nt.down /\ nt3.up = [nt.up EXCEPT ![p] = v]
      BY <2>2, ContentsUp
    <2>4. nt3 = nt2
      BY <1>2, <2>1, <2>2
    <2> QED
      BY <2>1, <2>3, <2>4, Zenon
  <1>5. nt2.up[p] = Append(q, msg) /\ \A r \in Peers \ {p} : nt2.up[r] = nt.up[r]
    BY <1>4 DEF NetType
  <1>6. \A r \in Peers : \A i \in DOMAIN nt.up[r] :
          i \in DOMAIN nt2.up[r] /\ nt2.up[r][i] = nt.up[r][i]
    <2> TAKE r \in Peers
    <2> TAKE i \in DOMAIN nt.up[r]
    <2>1. CASE r = p
      BY <1>2, <1>3, <1>5, <2>1
    <2>2. CASE r # p
      BY <1>5, <2>2
    <2> QED
      BY <2>1, <2>2
  <1>7. Carried(nt) \subseteq Carried(nt2)
    <2>1. Longer(nt, nt2)
      BY <1>4, <1>6 DEF Longer
    <2> QED
      BY <2>1, CarriedGrows
  <1>8. Len(q) + 1 \in DOMAIN nt2.up[p] /\ nt2.up[p][Len(q) + 1] = msg
    BY <1>3, <1>5
  <1>9. \A c \in Clients : UpCarries(msg, c) => c \in Carried(nt2)
    BY <1>8, Zenon DEF Carried
  <1> QED
    BY <1>4, <1>7, <1>9

\* The same for a message that goes down.
LEMMA CarriedPutDown ==
  ASSUME NEW nt \in NetType, NEW p \in Peers, NEW msg \in Message,
         NEW nt2, nt2 = SetDown(nt, p, Append(nt.down[p], msg))
  PROVE  /\ Carried(nt) \subseteq Carried(nt2) /\ nt2.part = nt.part
         /\ \A c \in Clients : DownCarries(msg, c) => c \in Carried(nt2)
  <1>1. nt.down[p] \in Seq(Message)
    BY DEF NetType
  <1>2. PICK q : q = nt.down[p]
    OBVIOUS
  <1>3. /\ Append(q, msg) \in Seq(Message) /\ Len(Append(q, msg)) = Len(q) + 1
        /\ Len(q) \in Nat /\ Append(q, msg)[Len(q) + 1] = msg
        /\ \A i \in 1 .. Len(q) : Append(q, msg)[i] = q[i]
        /\ DOMAIN q = 1 .. Len(q) /\ DOMAIN Append(q, msg) = 1 .. Len(q) + 1
    <2>1. q \in Seq(Message) /\ Len(q) \in Nat /\ DOMAIN q = 1 .. Len(q)
      BY <1>1, <1>2
    <2>2. /\ Append(q, msg) \in Seq(Message) /\ Len(Append(q, msg)) = Len(q) + 1
          /\ Append(q, msg)[Len(q) + 1] = msg
          /\ \A i \in 1 .. Len(q) : Append(q, msg)[i] = q[i]
      BY <2>1, AppendProperties
    <2> QED
      BY <2>1, <2>2
  <1>4. /\ nt2.part = nt.part /\ nt2.up = nt.up
        /\ nt2.down = [nt.down EXCEPT ![p] = Append(q, msg)]
    <2>1. PICK v \in Seq(Message) : v = Append(q, msg)
      BY <1>3
    <2>2. PICK nt3 : nt3 = SetDown(nt, p, v)
      OBVIOUS
    <2>3. nt3.part = nt.part /\ nt3.up = nt.up /\ nt3.down = [nt.down EXCEPT ![p] = v]
      BY <2>2, ContentsDown
    <2>4. nt3 = nt2
      BY <1>2, <2>1, <2>2
    <2> QED
      BY <2>1, <2>3, <2>4, Zenon
  <1>5. nt2.down[p] = Append(q, msg) /\ \A r \in Peers \ {p} : nt2.down[r] = nt.down[r]
    BY <1>4 DEF NetType
  <1>6. \A r \in Peers : \A i \in DOMAIN nt.down[r] :
          i \in DOMAIN nt2.down[r] /\ nt2.down[r][i] = nt.down[r][i]
    <2> TAKE r \in Peers
    <2> TAKE i \in DOMAIN nt.down[r]
    <2>1. CASE r = p
      BY <1>2, <1>3, <1>5, <2>1
    <2>2. CASE r # p
      BY <1>5, <2>2
    <2> QED
      BY <2>1, <2>2
  <1>7. Carried(nt) \subseteq Carried(nt2)
    <2>1. Longer(nt, nt2)
      BY <1>4, <1>6 DEF Longer
    <2> QED
      BY <2>1, CarriedGrows
  <1>8. Len(q) + 1 \in DOMAIN nt2.down[p] /\ nt2.down[p][Len(q) + 1] = msg
    BY <1>3, <1>5
  <1>9. \A c \in Clients : DownCarries(msg, c) => c \in Carried(nt2)
    BY <1>8, Zenon DEF Carried
  <1> QED
    BY <1>4, <1>7, <1>9

-----------------------------------------------------------------------------
(***************************************************************************)
(* What a send costs.                                                      *)
(***************************************************************************)

\* The client that the frames are about, when they are a message of their own.
About(frames) == frames[Len(frames)].who

\* A send that stops leaves its socket open.
LEMMA SomeSent ==
  ASSUME NEW nt \in NetType, NEW s \in Sockets, NEW frames \in Message,
         NEW k \in 0 .. Len(frames), k < Len(frames),
         NEW nt2, nt2 = AfterSend(nt, s, frames, k)
  PROVE  Carried(nt) \subseteq Carried(nt2) /\ Open(nt2) \subseteq Open(nt) \cup {s}
  <1>1. PICK msg : msg = Joined(nt.part[s], frames, k)
    OBVIOUS
  <1>2. s \in Peers \cup {Broker} /\ nt.part[s] \in Message
    BY DEF NetType, Sockets, Peers
  <1>3. msg \in Message
    BY <1>1, <1>2, Glue
  <1>4. nt2 = SetPart(nt, s, msg)
    BY <1>1 DEF AfterSend, Joined, SetPart
  <1>5. /\ nt2.up = nt.up /\ nt2.down = nt.down
        /\ nt2.part = [nt.part EXCEPT ![s] = msg]
    <2>1. PICK r \in Sockets \cup Clients : r = s
      OBVIOUS
    <2>2. PICK nt3 : nt3 = SetPart(nt, r, msg)
      OBVIOUS
    <2>3. nt3.up = nt.up /\ nt3.down = nt.down /\ nt3.part = [nt.part EXCEPT ![r] = msg]
      BY <1>3, <2>2, ContentsPart
    <2> QED
      BY <1>4, <2>1, <2>2, <2>3
  <1>6. Longer(nt, nt2)
    BY <1>5 DEF Longer
  <1>7. \A r \in Sockets \ {s} : nt2.part[r] = nt.part[r]
    BY <1>2, <1>5 DEF NetType, Sockets, Peers
  <1> QED
    BY <1>6, <1>7, CarriedGrows DEF Open

\* A send that is finished closes it, and when it was closed before, the message
\* carries its call.
LEMMA AllSent ==
  ASSUME mdt \in [Clients -> Readers], NEW cnt \in [Clients -> 0 .. MaxReq], NEW cl,
         NEW nt \in NetType, NEW s \in Sockets, PartOK(nt.part[s]),
         NEW H, Named(s, nt.part[s]) \subseteq H,
         NEW frames, Sendable(cnt, cl, s, frames, H),
         NEW nt2, nt2 = AfterSend(nt, s, frames, Len(frames))
  PROVE  /\ Carried(nt) \subseteq Carried(nt2)
         /\ Open(nt2) \subseteq Open(nt) \ {s}
         /\ nt.part[s] = <<>> /\ About(frames) \in Clients => About(frames) \in Carried(nt2)
  <1>1. s \in Peers \cup {Broker} /\ nt.part[s] \in Message
    BY DEF NetType, Sockets, Peers
  <1>2. PICK msg : msg = Joined(nt.part[s], frames, Len(frames))
    OBVIOUS
  <1>3. PICK nt1 : nt1 = SetPart(nt, s, <<>>)
    OBVIOUS
  <1>4. /\ nt1 \in NetType /\ nt1.up = nt.up /\ nt1.down = nt.down
        /\ nt1.part = [nt.part EXCEPT ![s] = <<>>]
    <2>1. PICK r \in Sockets \cup Clients : r = s
      OBVIOUS
    <2>2. PICK e \in Message : e = <<>>
      <3>1. <<>> \in Message
        BY DEF Message
      <3> QED
        BY <3>1
    <2>3. PICK nt3 : nt3 = SetPart(nt, r, e)
      OBVIOUS
    <2>4. /\ nt3 \in NetType /\ nt3.up = nt.up /\ nt3.down = nt.down
          /\ nt3.part = [nt.part EXCEPT ![r] = e]
      <3>1. SetPart(nt, r, e) \in NetType
        BY ContentsPart
      <3>2. SetPart(nt, r, e).up = nt.up /\ SetPart(nt, r, e).down = nt.down
        BY ContentsPart
      <3>3. SetPart(nt, r, e).part = [nt.part EXCEPT ![r] = e]
        BY ContentsPart
      <3> QED
        BY <2>3, <3>1, <3>2, <3>3
    <2> QED
      BY <1>3, <2>1, <2>2, <2>3, <2>4
  <1>5. frames \in Message /\ Len(frames) \in Nat
    <2>1. frames \in Message /\ Len(frames) \in {3, 5}
      BY SendableFrames
    <2> QED
      BY <2>1
  <1>6. nt2 = [Deliver(nt, s, msg) EXCEPT !.part[s] = <<>>]
    BY <1>2, <1>5 DEF AfterSend, Joined
  <1>7. nt.part[s] = <<>> => msg = frames
    <2>1. Len(frames) \in 0 .. Len(frames)
      BY <1>5
    <2> QED
      BY <1>1, <1>2, <1>5, <2>1, Glue
  <1>8. Carried(nt) = Carried(nt1)
    BY <1>4, Zenon DEF Carried
  <1>9. Open(nt1) \subseteq Open(nt) \ {s}
    BY <1>1, <1>4 DEF Open, NetType, Sockets, Peers
  <1>10. CASE s = Broker
    <2>1. /\ Tail(msg) \in Message
          /\ \E to \in Peers : Head(msg) = Id(to)
      BY <1>1, <1>2, <1>10, DownFinished
    <2>2. PICK to \in Peers : Head(msg) = Id(to)
      BY <2>1
    <2>3. Head(msg).kind = "id" /\ Head(msg).who = to
      BY <2>2, FrameFacts
    <2>4. Deliver(nt, s, msg) = [nt EXCEPT !.down[to] = Append(@, Tail(msg))]
      BY <1>10, <2>3 DEF Deliver
    <2>5. nt2 = SetDown(nt1, to, Append(nt1.down[to], Tail(msg)))
      BY <1>1, <1>3, <1>6, <2>4 DEF SetDown, SetPart, NetType
    <2>6. PICK out \in Message : out = Tail(msg)
      BY <2>1
    <2>7. /\ Carried(nt1) \subseteq Carried(nt2) /\ nt2.part = nt1.part
          /\ \A c \in Clients : DownCarries(out, c) => c \in Carried(nt2)
      BY <1>4, <2>5, <2>6, CarriedPutDown
    <2>8. nt.part[s] = <<>> => DownCarries(out, About(frames))
      <3> SUFFICES ASSUME nt.part[s] = <<>> PROVE DownCarries(out, About(frames))
        OBVIOUS
      <3>1. out = Tail(frames)
        BY <1>7, <2>6
      <3>2. CASE IsAnswer(cnt, frames, H)
        <4>1. PICK q, b : frames = <<Id(q), Empty, b>>
          BY <3>2 DEF IsAnswer
        <4>2. out = <<Empty, b>>
          BY <3>1, <4>1, TailOfTuple
        <4> QED
          BY <4>1, <4>2 DEF DownCarries, About
      <3>3. CASE IsRequest(cnt, cl, frames, H)
        <4>1. PICK c \in Clients :
                frames = <<Id(mdt[c]), Empty, Id(c), Empty, Request(cnt, c)>>
          BY <3>3 DEF IsRequest
        <4>2. out = <<Empty, Id(c), Empty, Request(cnt, c)>>
          BY <3>1, <4>1, TailOfTuple
        <4>3. Request(cnt, c).kind = "request"
          BY RequestFacts
        <4> QED
          BY <4>1, <4>2, <4>3 DEF DownCarries, About
      <3> QED
        BY <3>2, <3>3 DEF Sendable
    <2> QED
      BY <1>8, <1>9, <2>7, <2>8 DEF Open
  <1>11. CASE s \in Readers
    <2>1. s \in Peers /\ s \notin Clients /\ s # Broker
      BY <1>11, PeersApart DEF Peers
    <2>2. PICK up \in Message : up = WithId(s, msg)
      <3>1. PICK part \in Message : part = nt.part[s]
        BY <1>1
      <3>2. PartOK(part) /\ Named(s, part) \subseteq H
        BY <3>1
      <3>3. WithId(s, Joined(part, frames, Len(frames))) \in Message
        BY <1>11, <3>2, UpFinished
      <3> QED
        BY <1>2, <3>1, <3>3
    <2>3. <<Id(s)>> \o <<>> = <<Id(s)>>
      BY <2>1, FrameFacts, ConcatEmptySeq
    <2>4. Deliver(nt, s, msg) = [nt EXCEPT !.up[s] = Append(@, up)]
      BY <2>1, <2>2, <2>3 DEF Deliver, WithId
    <2>5. nt2 = SetUp(nt1, s, Append(nt1.up[s], up))
      BY <1>1, <1>3, <1>6, <2>1, <2>4 DEF SetUp, SetPart, NetType
    <2>6. /\ Carried(nt1) \subseteq Carried(nt2) /\ nt2.part = nt1.part
          /\ \A c \in Clients : UpCarries(up, c) => c \in Carried(nt2)
      BY <1>4, <2>1, <2>5, CarriedPutUp
    <2>7. nt.part[s] = <<>> => UpCarries(up, About(frames))
      <3> SUFFICES ASSUME nt.part[s] = <<>> PROVE UpCarries(up, About(frames))
        OBVIOUS
      <3>1. PICK q, b : frames = <<Id(q), Empty, b>>
        BY <2>1 DEF Sendable, IsAnswer
      <3>2. up = <<Id(s), Id(q), Empty, b>>
        BY <1>7, <2>2, <3>1, OneAndThree DEF WithId
      <3> QED
        BY <3>1, <3>2 DEF UpCarries, About
    <2> QED
      BY <1>8, <1>9, <2>6, <2>7 DEF Open
  <1> QED
    BY <1>10, <1>11 DEF Sockets

\* What a sequence of zmq_send() costs, finished or not.
LEMMA SendsCost ==
  ASSUME mdt \in [Clients -> Readers], NEW cnt \in [Clients -> 0 .. MaxReq], NEW cl,
         NEW set, NEW nt, GoodNet(nt, cnt, cl, set),
         NEW s \in Sockets, NEW H, H \subseteq set, Held(nt, s, H),
         NEW frames, Sendable(cnt, cl, s, frames, H),
         NEW failed, NEW sent \in Sends(nt, s, frames, failed)
  PROVE  /\ Carried(nt) \subseteq Carried(sent.net)
         /\ Open(sent.net) \subseteq Open(nt) \cup {s}
         /\ sent.ok => Open(sent.net) \subseteq Open(nt) \ {s}
         /\ sent.ok /\ s \notin Open(nt) /\ About(frames) \in Clients
              => About(frames) \in Carried(sent.net)
  <1>1. frames \in Message /\ Len(frames) \in Nat
    <2>1. frames \in Message /\ Len(frames) \in {3, 5}
      BY SendableFrames
    <2> QED
      BY <2>1
  <1>2. /\ nt \in NetType /\ PartOK(nt.part[s]) /\ Named(s, nt.part[s]) \subseteq H
    BY DEF GoodNet, Forms, Held
  <1>3. PICK k \in 0 .. Len(frames) :
          sent = [ok |-> k = Len(frames), net |-> AfterSend(nt, s, frames, k)]
    <2>1. PICK k \in IF "send" \in NetFaults /\ failed < MaxFaults
                     THEN 0 .. Len(frames) ELSE {Len(frames)} :
            sent = [ok |-> k = Len(frames), net |-> AfterSend(nt, s, frames, k)]
      BY Zenon DEF Sends
    <2>2. k \in 0 .. Len(frames)
      BY <1>1, <2>1
    <2> QED
      BY <2>1, <2>2, Zenon
  <1>4. PICK nt2 : nt2 = AfterSend(nt, s, frames, k)
    OBVIOUS
  <1>5. sent.net = nt2 /\ (sent.ok <=> k = Len(frames))
    BY <1>3, <1>4
  <1>6. CASE k < Len(frames)
    <2>1. Carried(nt) \subseteq Carried(nt2) /\ Open(nt2) \subseteq Open(nt) \cup {s}
      BY <1>1, <1>2, <1>4, <1>6, SomeSent
    <2> QED
      BY <1>1, <1>5, <1>6, <2>1
  <1>7. CASE k = Len(frames)
    <2>1. /\ Carried(nt) \subseteq Carried(nt2) /\ Open(nt2) \subseteq Open(nt) \ {s}
          /\ nt.part[s] = <<>> /\ About(frames) \in Clients => About(frames) \in Carried(nt2)
      BY <1>2, <1>4, <1>7, AllSent
    <2>2. s \notin Open(nt) => nt.part[s] = <<>>
      BY DEF Open
    <2> QED
      BY <1>5, <2>1, <2>2
  <1> QED
    BY <1>1, <1>6, <1>7

\* What ack_retcode() costs: one failure for the message that it may begin.
LEMMA JustAckCost ==
  ASSUME mdt \in [Clients -> Readers], NEW cnt \in [Clients -> 0 .. MaxReq], NEW cl,
         NEW set, NEW nt, GoodNet(nt, cnt, cl, set), nfaults \in Nat,
         NEW s \in Sockets, NEW N, N \subseteq set, Avoids(Contents(nt), N),
         NEW to \in Peers, {to} \cap Clients \subseteq N, JustAck(nt, s, Id(to))
  PROVE  /\ Carried(nt) \subseteq Carried(net') /\ nfaults' \in Nat
         /\ \/ Open(net') \subseteq Open(nt) /\ nfaults <= nfaults'
            \/ Open(net') \subseteq Open(nt) \cup {s} /\ nfaults + 1 <= nfaults'
  <1>1. PICK H : H = N \cup Named(s, nt.part[s])
    OBVIOUS
  <1>2. H \subseteq set /\ Held(nt, s, H)
    <2>1. GoodNet(nt, cnt, cl, set) /\ N \subseteq set /\ Avoids(Contents(nt), N)
      OBVIOUS
    <2> QED
      BY <1>1, <2>1, HeldNow, SMTT(30)
  <1>3. PICK ack : ack = peer_rpc_send(<<>>, Id(to), Ack(Id(to).who))
    OBVIOUS
  <1>4. Sendable(cnt, cl, s, ack, H)
    BY <1>1, <1>3, AckSendable
  <1>5. PICK sent \in Sends(nt, s, ack, nfaults) :
          net' = sent.net /\ nfaults' = nfaults + IF sent.ok THEN 0 ELSE 1
    BY <1>3 DEF JustAck
  <1>6. /\ Carried(nt) \subseteq Carried(sent.net)
        /\ Open(sent.net) \subseteq Open(nt) \cup {s}
        /\ sent.ok => Open(sent.net) \subseteq Open(nt) \ {s}
    BY <1>2, <1>4, SendsCost
  <1> QED
    BY <1>5, <1>6

\* What a handler's message and the ack_retcode() after it cost, when c is the
\* client that the message is about.
LEMMA SendOrAckCost ==
  ASSUME mdt \in [Clients -> Readers], NEW cnt \in [Clients -> 0 .. MaxReq], NEW cl,
         NEW set, NEW nt, GoodNet(nt, cnt, cl, set), nfaults \in Nat,
         NEW s \in Sockets, NEW N, N \subseteq set, Avoids(Contents(nt), N),
         NEW frames, Sendable(cnt, cl, s, frames, N),
         NEW to \in Peers, {to} \cap Clients \subseteq N, SendOrAck(nt, s, frames, Id(to))
  PROVE  /\ Carried(nt) \subseteq Carried(net') /\ nfaults' \in Nat
         /\ \/ /\ About(frames) \in Clients => About(frames) \in Carried(net')
               /\ Open(net') \subseteq Open(nt) /\ nfaults <= nfaults'
            \/ s \in Open(nt) /\ Open(net') \subseteq Open(nt) \ {s} /\ nfaults <= nfaults'
            \/ Open(net') \subseteq Open(nt) /\ nfaults + 1 <= nfaults'
            \/ Open(net') \subseteq Open(nt) \cup {s} /\ nfaults + 2 <= nfaults'
  <1>1. PICK H : H = N \cup Named(s, nt.part[s])
    OBVIOUS
  <1>2. H \subseteq set /\ Held(nt, s, H)
    BY <1>1, HeldNow
  <1>3. PICK ack : ack = peer_rpc_send(<<>>, Id(to), Ack(Id(to).who))
    OBVIOUS
  <1>4. Sendable(cnt, cl, s, ack, H) /\ Sendable(cnt, cl, s, frames, H)
    <2>1. N \subseteq H
      BY <1>1
    <2> QED
      BY <1>3, <2>1, AckSendable, SendableMore
  <1>5. PICK first \in Sends(nt, s, frames, nfaults) :
          \/ first.ok /\ net' = first.net /\ nfaults' = nfaults
          \/ /\ ~first.ok
             /\ \E second \in Sends(first.net, s, ack, nfaults + 1) :
                  net' = second.net /\ nfaults' = nfaults + IF second.ok THEN 1 ELSE 2
    BY <1>3 DEF SendOrAck
  <1>6. PICK nt1 : nt1 = first.net
    OBVIOUS
  <1>7. /\ Carried(nt) \subseteq Carried(nt1)
        /\ Open(nt1) \subseteq Open(nt) \cup {s}
        /\ first.ok => Open(nt1) \subseteq Open(nt) \ {s}
        /\ first.ok /\ s \notin Open(nt) /\ About(frames) \in Clients
             => About(frames) \in Carried(nt1)
    BY <1>2, <1>4, <1>6, SendsCost
  <1>8. CASE first.ok /\ net' = first.net /\ nfaults' = nfaults
    BY <1>6, <1>7, <1>8
  <1>9. CASE /\ ~first.ok
             /\ \E second \in Sends(first.net, s, ack, nfaults + 1) :
                  net' = second.net /\ nfaults' = nfaults + IF second.ok THEN 1 ELSE 2
    <2>1. PICK second \in Sends(nt1, s, ack, nfaults + 1) :
                 net' = second.net /\ nfaults' = nfaults + IF second.ok THEN 1 ELSE 2
      BY <1>6, <1>9
    <2>2. GoodNet(nt1, cnt, cl, set) /\ Held(nt1, s, H)
      BY <1>2, <1>4, <1>6, <1>9, SendsGood
    <2>3. /\ Carried(nt1) \subseteq Carried(second.net)
          /\ Open(second.net) \subseteq Open(nt1) \cup {s}
          /\ second.ok => Open(second.net) \subseteq Open(nt1) \ {s}
      BY <1>2, <1>4, <2>2, SendsCost
    <2> QED
      BY <1>7, <2>1, <2>3
  <1> QED
    BY <1>5, <1>8, <1>9

-----------------------------------------------------------------------------
(***************************************************************************)
(* The steps.                                                              *)
(***************************************************************************)

\* A message that carried the call of c, or none, was taken, and nothing sent.
LEMMA TakenCost ==
  ASSUME CostInv, waiting' = waiting, NEW c, nfaults' \in Nat, nfaults <= nfaults',
         net'.part = net.part,
         \/ Carried(net) \subseteq Carried(net')
         \/ Carried(net) \subseteq Carried(net') \cup {c} /\ nfaults + 1 <= nfaults'
  PROVE  CostInv'
  <1>1. Open(net') = Open(net)
    BY DEF Open
  <1>2. IsFiniteSet(waiting')
    BY DEF CostInv
  <1>3. Paid(waiting \ Carried(net), Open(net), nfaults,
             waiting' \ Carried(net'), Open(net'), nfaults', c, c)
    BY <1>1 DEF Paid
  <1> QED
    BY <1>2, <1>3, PaidStep

\* A message that carried no call was taken, and an error was sent.
LEMMA RefusedCost ==
  ASSUME CostInv, waiting' = waiting, nfaults' \in Nat, NEW s, NEW nt,
         nt.part = net.part, Carried(net) \subseteq Carried(nt),
         Carried(nt) \subseteq Carried(net'),
         \/ Open(net') \subseteq Open(nt) /\ nfaults <= nfaults'
         \/ Open(net') \subseteq Open(nt) \cup {s} /\ nfaults + 1 <= nfaults'
  PROVE  CostInv'
  <1>1. Open(nt) = Open(net)
    BY DEF Open
  <1>2. IsFiniteSet(waiting')
    BY DEF CostInv
  <1>3. Paid(waiting \ Carried(net), Open(net), nfaults,
             waiting' \ Carried(net'), Open(net'), nfaults', s, s)
    BY <1>1 DEF Paid
  <1> QED
    BY <1>2, <1>3, PaidStep

\* A message that carried the call of c was taken, and another one for c sent.
LEMMA HandledCost ==
  ASSUME CostInv, waiting' = waiting, waiting \subseteq Clients, nfaults' \in Nat,
         NEW s, NEW c, NEW nt, nt.part = net.part, Carried(net) \subseteq Carried(nt) \cup {c},
         Carried(nt) \subseteq Carried(net'),
         \/ /\ c \in Clients => c \in Carried(net')
            /\ Open(net') \subseteq Open(nt) /\ nfaults <= nfaults'
         \/ s \in Open(nt) /\ Open(net') \subseteq Open(nt) \ {s} /\ nfaults <= nfaults'
         \/ Open(net') \subseteq Open(nt) /\ nfaults + 1 <= nfaults'
         \/ Open(net') \subseteq Open(nt) \cup {s} /\ nfaults + 2 <= nfaults'
  PROVE  CostInv'
  <1>1. Open(nt) = Open(net)
    BY DEF Open
  <1>2. IsFiniteSet(waiting')
    BY DEF CostInv
  <1>3. waiting' \ Carried(net') \subseteq (waiting \ Carried(net)) \cup {c}
    OBVIOUS
  <1>4. (c \in Clients => c \in Carried(net')) =>
          waiting' \ Carried(net') \subseteq waiting \ Carried(net)
    OBVIOUS
  <1>5. Paid(waiting \ Carried(net), Open(net), nfaults,
             waiting' \ Carried(net'), Open(net'), nfaults', c, s)
    BY <1>1, <1>3, <1>4 DEF Paid
  <1> QED
    BY <1>2, <1>5, PaidStep

\* The calls that messages carry, by their forms.
LEMMA UpCarried ==
  ASSUME TransportIInv, NEW p \in Peers, NEW msg \in Message, UpOK(count, calls, p, msg),
         NEW c \in Clients, UpCarries(msg, c)
  PROVE  \/ /\ p = c /\ msg = <<Id(p), Empty, Id(mdt[p]), Request(count, p)>>
         \/ \E b \in Answers(count, c) : msg = <<Id(p), Id(c), Empty, b>>
  <1>1. count \in [Clients -> 0 .. MaxReq] /\ c \in Peers
    BY DEF TransportIInv, TransportTypeOK, Peers
  <1>2. Len(msg) = 4 /\ msg[4].who = c
    BY DEF UpCarries
  <1>3. CASE p \in Clients /\ msg = <<Id(p), Empty, Id(mdt[p]), Request(count, p)>>
    <2>1. Request(count, p).who = p
      BY <1>1, <1>3, RequestFacts
    <2>2. msg[4] = Request(count, p)
      BY <1>3
    <2> QED
      BY <1>2, <1>3, <2>1, <2>2
  <1>4. CASE p \in Readers /\ msg = <<Id(p), Empty, Id(p), Frame("signal", p, 0)>>
    <2>1. msg[4] = Frame("signal", p, 0)
      BY <1>4
    <2>2. Frame("signal", p, 0).who = p
      BY DEF Frame
    <2> QED
      BY <1>2, <1>4, <2>1, <2>2, PeersApart
  <1>5. CASE \E q \in Peers : \E b \in Answers(count, q) : msg = <<Id(p), Id(q), Empty, b>>
    <2>1. PICK q \in Peers : \E b \in Answers(count, q) : msg = <<Id(p), Id(q), Empty, b>>
      BY <1>5
    <2>2. PICK b \in Answers(count, q) : msg = <<Id(p), Id(q), Empty, b>>
      BY <2>1
    <2>3. b.who = q
      BY <1>1, AnswerFacts
    <2>4. msg[4] = b
      BY <2>2
    <2>5. q = c
      BY <1>2, <2>3, <2>4
    <2> QED
      BY <2>2, <2>5
  <1>6. ~(Len(msg) >= 5)
    BY <1>2
  <1> QED
    BY <1>3, <1>4, <1>5, <1>6 DEF UpOK

\* The same for the messages that go down.
LEMMA DownCarried ==
  ASSUME TransportIInv, NEW p \in Peers, NEW msg \in Message, DownOK(count, calls, p, msg),
         NEW c \in Clients, DownCarries(msg, c)
  PROVE  \/ p = mdt[c] /\ msg = <<Empty, Id(c), Empty, Request(count, c)>>
         \/ p = c /\ \E b \in Answers(count, c) : msg = <<Empty, b>>
  <1>1. count \in [Clients -> 0 .. MaxReq]
    BY DEF TransportIInv, TransportTypeOK
  <1>2. CASE \E d \in Clients : /\ p = mdt[d] /\ Fresh(count, calls, d)
                                /\ msg = <<Empty, Id(d), Empty, Request(count, d)>>
    <2>1. PICK d \in Clients : /\ p = mdt[d]
                               /\ msg = <<Empty, Id(d), Empty, Request(count, d)>>
      BY <1>2
    <2>2. Request(count, d).who = d
      BY <1>1, RequestFacts
    <2>3. Len(msg) = 4 /\ msg[4] = Request(count, d)
      BY <2>1
    <2>4. d = c
      BY <2>2, <2>3 DEF DownCarries
    <2> QED
      BY <2>1, <2>4
  <1>3. CASE \E b \in Answers(count, p) : msg = <<Empty, b>>
    <2>1. PICK b \in Answers(count, p) : msg = <<Empty, b>>
      BY <1>3
    <2>2. b.who = p
      BY <1>1, AnswerFacts
    <2>3. Len(msg) = 2 /\ msg[2] = b
      BY <2>1
    <2>4. p = c
      BY <2>2, <2>3 DEF DownCarries
    <2> QED
      BY <2>1, <2>4
  <1>4. CASE /\ Len(msg) >= 3
             /\ msg[Len(msg)].kind = "request" => Len(msg) >= 5 /\ msg[Len(msg) - 4] # Empty
    <2>1. Len(msg) # 2
      BY <1>4
    <2>2. Len(msg) = 4 => msg[4].kind # "request"
      BY <1>4
    <2> QED
      BY <2>1, <2>2 DEF DownCarries
  <1> QED
    BY <1>2, <1>3, <1>4 DEF DownOK

\* The broker and the readers find the body of a message that carries a call.
LEMMA UpBody ==
  ASSUME TransportIInv, NEW p \in Peers, NEW msg \in Message, UpOK(count, calls, p, msg),
         NEW c \in Clients, UpCarries(msg, c)
  PROVE  /\ Valid(msg, Body(Broker, msg)) /\ Body(Broker, msg) # {}
         /\ msg[Min(Body(Broker, msg))].who = c
         /\ msg[Min(Body(Broker, msg))].kind \in {"request", "answer", "ack"}
  <1>1. /\ count \in [Clients -> 0 .. MaxReq] /\ mdt \in [Clients -> Readers] /\ c \in Peers
    BY DEF TransportIInv, TransportTypeOK, Peers
  <1>2. CASE p = c /\ msg = <<Id(p), Empty, Id(mdt[p]), Request(count, p)>>
    <2>1. Id(p) # Empty /\ Id(mdt[p]) # Empty
      <3>1. mdt[p] \in Peers
        BY <1>1, <1>2 DEF Peers
      <3> QED
        BY <3>1, FrameFacts
    <2>2. /\ Request(count, p) # Empty /\ Request(count, p).kind = "request"
          /\ Request(count, p).who = p
      BY <1>1, <1>2, RequestFacts
    <2>3. Body(Broker, msg) = {4} /\ Min(Body(Broker, msg)) = 4
      BY <1>2, <2>1, <2>2, ReadRequest
    <2>4. msg[4] = Request(count, p)
      BY <1>2
    <2> QED
      BY <1>2, <2>2, <2>3, <2>4 DEF Valid, IsBody
  <1>3. CASE \E b \in Answers(count, c) : msg = <<Id(p), Id(c), Empty, b>>
    <2>1. PICK b \in Answers(count, c) : msg = <<Id(p), Id(c), Empty, b>>
      BY <1>3
    <2>2. b # Empty /\ b.who = c /\ b.kind \in {"answer", "ack"}
      BY <1>1, AnswerFacts
    <2>3. Id(p) # Empty /\ Id(c) # Empty
      BY <1>1, FrameFacts
    <2>4. Body(Broker, msg) = {4} /\ Min(Body(Broker, msg)) = 4
      BY <2>1, <2>2, <2>3, ReadAnswer
    <2>5. msg[4] = b
      BY <2>1
    <2> QED
      BY <2>2, <2>4, <2>5 DEF Valid, IsBody
  <1> QED
    BY <1>2, <1>3, UpCarried

\* The same for a reader.
LEMMA DownBody ==
  ASSUME TransportIInv, NEW m \in Readers, NEW msg \in Message, DownOK(count, calls, m, msg),
         NEW c \in Clients, DownCarries(msg, c)
  PROVE  /\ Valid(msg, Body(m, msg)) /\ Body(m, msg) # {}
         /\ msg[Min(Body(m, msg))].who = c /\ msg[Min(Body(m, msg))].kind = "request"
  <1>1. count \in [Clients -> 0 .. MaxReq] /\ m \in Peers /\ m # c
    BY PeersApart DEF TransportIInv, TransportTypeOK, Peers
  <1>2. msg = <<Empty, Id(c), Empty, Request(count, c)>>
    BY <1>1, DownCarried
  <1>3. Id(c) # Empty
    BY FrameFacts DEF Peers
  <1>4. /\ Request(count, c) # Empty /\ Request(count, c).kind = "request"
        /\ Request(count, c).who = c
    BY <1>1, RequestFacts
  <1>5. Body(m, msg) = {4} /\ Min(Body(m, msg)) = 4
    BY <1>2, <1>3, <1>4, ReadForwarded
  <1>6. msg[4] = Request(count, c)
    BY <1>2
  <1> QED
    BY <1>4, <1>5, <1>6 DEF Valid, IsBody

\* What a message took with it, when it was read.
LEMMA BrokerLoses ==
  ASSUME TransportIInv, NEW msg \in Incoming(Broker),
         NEW c \in Carried(net), c \notin Carried(msg.net)
  PROVE  /\ Valid(msg.frames, Body(Broker, msg.frames)) /\ Body(Broker, msg.frames) # {}
         /\ msg.frames[Min(Body(Broker, msg.frames))].who = c
         /\ msg.frames[Min(Body(Broker, msg.frames))].kind \in {"request", "answer", "ack"}
  <1>1. rest[Broker] = <<>> /\ UpCarries(msg.frames, c)
    BY BrokerTakes
  <1>2. c \in Clients
    BY DEF Carried
  <1>3. PICK p \in Peers : UpOK(count, calls, p, msg.frames)
    BY <1>1, BrokerReads
  <1>4. PICK frames \in Message : frames = msg.frames
    BY BrokerReads
  <1>5. /\ Valid(frames, Body(Broker, frames)) /\ Body(Broker, frames) # {}
        /\ frames[Min(Body(Broker, frames))].who = c
        /\ frames[Min(Body(Broker, frames))].kind \in {"request", "answer", "ack"}
    BY <1>1, <1>2, <1>3, <1>4, UpBody
  <1> QED
    BY <1>4, <1>5

\* The same for a reader.
LEMMA ReaderLoses ==
  ASSUME TransportIInv, NEW m \in Readers, NEW msg \in Incoming(m),
         NEW c \in Carried(net), c \notin Carried(msg.net)
  PROVE  /\ Valid(msg.frames, Body(m, msg.frames)) /\ Body(m, msg.frames) # {}
         /\ msg.frames[Min(Body(m, msg.frames))].who = c
         /\ msg.frames[Min(Body(m, msg.frames))].kind = "request"
  <1>1. rest[m] = <<>> /\ DownCarries(msg.frames, c)
    BY ReaderTakes
  <1>2. c \in Clients
    BY DEF Carried
  <1>3. DownOK(count, calls, m, msg.frames)
    BY <1>1, ReaderReads
  <1>4. PICK frames \in Message : frames = msg.frames
    BY ReaderReads
  <1>5. /\ Valid(frames, Body(m, frames)) /\ Body(m, frames) # {}
        /\ frames[Min(Body(m, frames))].who = c
        /\ frames[Min(Body(m, frames))].kind = "request"
    BY <1>1, <1>2, <1>3, <1>4, DownBody
  <1> QED
    BY <1>4, <1>5

\* A message without a body carries no call.
LEMMA NoBodyCost ==
  ASSUME TransportIInv, CostInv, NEW s \in Sockets, recv_no_body(s)
  PROVE  CostInv'
  <1>1. PICK msg \in Incoming(s) : Body(s, msg.frames) = {} /\ net' = msg.net
    BY DEF recv_no_body
  <1>2. waiting' = waiting /\ nfaults' = nfaults /\ nfaults \in Nat
    BY DEF recv_no_body, CostInv
  <1>3. Carried(net) \subseteq Carried(net') /\ net'.part = net.part
    <2>1. CASE s = Broker
      BY <1>1, <2>1, BrokerTakes, BrokerLoses
    <2>2. CASE s \in Readers
      BY <1>1, <2>2, ReaderTakes, ReaderLoses
    <2> QED
      BY <2>1, <2>2 DEF Sockets
  <1>4. nfaults' \in Nat /\ nfaults <= nfaults'
    BY <1>2
  <1> QED
    BY <1>2, <1>3, <1>4, TakenCost

\* A message that a receiver gives up on carried at most one call.
LEMMA NoMemoryCost ==
  ASSUME TransportIInv, CostInv, NEW s \in Sockets, recv_no_memory(s)
  PROVE  CostInv'
  <1>1. PICK msg \in Incoming(s) : net' = msg.net
    BY DEF recv_no_memory
  <1>2. waiting' = waiting /\ nfaults' = nfaults + 1 /\ nfaults \in Nat
    BY DEF recv_no_memory, CostInv
  <1>3. PICK c : Carried(net) \subseteq Carried(net') \cup {c}
    <2>1. PICK c : c = msg.frames[Min(Body(s, msg.frames))].who
      OBVIOUS
    <2>2. CASE s = Broker
      BY <1>1, <2>1, <2>2, BrokerLoses
    <2>3. CASE s \in Readers
      BY <1>1, <2>1, <2>3, ReaderLoses
    <2> QED
      BY <2>2, <2>3 DEF Sockets
  <1>4. net'.part = net.part
    <2>1. CASE s = Broker
      BY <1>1, <2>1, BrokerTakes
    <2>2. CASE s \in Readers
      BY <1>1, <2>2, ReaderTakes
    <2> QED
      BY <2>1, <2>2 DEF Sockets
  <1>5. nfaults' \in Nat /\ nfaults <= nfaults' /\ nfaults + 1 <= nfaults'
    BY <1>2
  <1> QED
    BY <1>2, <1>3, <1>4, <1>5, TakenCost

\* Each step of lcapd_process_request() pays for what it loses.
LEMMA BrokerCost ==
  ASSUME TransportIInv, CostInv, lcapd_process_request
  PROVE  CostInv'
  <1>1. PICK msg \in Incoming(Broker) :
          LET body    == Body(Broker, msg.frames)
              remote  == msg.frames[Min(Told(msg.frames))]
              forward == msg.frames[Min(Later(Told(msg.frames)))]
              rpc     == msg.frames[Min(body)]
          IN  /\ body # {}
              /\ \/ /\ Valid(msg.frames, body) /\ rpc.kind = "request"
                    /\ SendOrAck(msg.net, Broker,
                                 broker_reader_send(remote, forward, rpc), remote)
                 \/ /\ Valid(msg.frames, body) /\ rpc.kind \in {"answer", "ack"}
                    /\ SendOrAck(msg.net, Broker,
                                 broker_client_send(remote, forward, rpc), remote)
                 \/ /\ Valid(msg.frames, body) /\ rpc.kind = "signal"
                    /\ net' = msg.net /\ UNCHANGED nfaults
                 \/ ~Valid(msg.frames, body) /\ JustAck(msg.net, Broker, remote)
    BY DEF lcapd_process_request
  <1>2. PICK nt, frames : nt = msg.net /\ frames = msg.frames
    OBVIOUS
  <1> DEFINE forward == frames[Min(Later(Told(frames)))]
             rpc     == frames[Min(Body(Broker, frames))]
             remote  == frames[Min(Told(frames))]
  <1>3. Broker \in Sockets
    BY DEF Sockets
  <1>4. PICK p \in Peers : /\ UpOK(count, calls, p, frames)
                           /\ Named(p, frames) \subseteq waiting
                           /\ Avoids(Contents(nt), Named(p, frames))
    <2>1. Body(Broker, rest[Broker]) = {}
      BY <1>3, ReadRest DEF TransportIInv
    <2> QED
      BY <1>1, <1>2, <2>1, BrokerReads
  <1>5. GoodNet(nt, count, calls, waiting) /\ frames \in Message
    BY <1>2, BrokerReads
  <1>6. remote = Id(p) /\ {p} \cap Clients \subseteq Named(p, frames)
    BY <1>4, <1>5, SenderFirst DEF Named
  <1>7. /\ mdt \in [Clients -> Readers] /\ count \in [Clients -> 0 .. MaxReq]
        /\ waiting \subseteq Clients /\ nfaults \in Nat /\ waiting' = waiting
    BY DEF TransportIInv, TransportTypeOK, CostInv, lcapd_process_request
  <1>8. nt.part = net.part
    BY <1>2, BrokerTakes
  <1>9. /\ Carried(net) \subseteq Carried(nt) \cup {rpc.who}
        /\ ~(Valid(frames, Body(Broker, frames)) /\ rpc.kind \in {"request", "answer", "ack"})
             => Carried(net) \subseteq Carried(nt)
    BY <1>2, BrokerLoses
  <1>10. CASE /\ Valid(frames, Body(Broker, frames)) /\ rpc.kind = "request"
              /\ SendOrAck(nt, Broker, broker_reader_send(remote, forward, rpc), remote)
    <2>1. p \in Clients /\ Fresh(count, calls, p) /\ forward = Id(mdt[p]) /\ rpc = Request(count, p)
      BY <1>4, <1>5, <1>10, RequestFound
    <2>2. PICK out : out = broker_reader_send(remote, forward, rpc)
      OBVIOUS
    <2>3. out = <<Id(mdt[p]), Empty, Id(p), Empty, Request(count, p)>>
      BY <1>6, <2>1, <2>2, ForwardFrames
    <2>4. Sendable(count, calls, Broker, out, Named(p, frames))
      BY <1>6, <2>1, <2>3 DEF Sendable, IsRequest
    <2>5. SendOrAck(nt, Broker, out, Id(p))
      BY <1>6, <1>10, <2>2
    <2>6. About(out) = rpc.who
      BY <2>1, <2>3 DEF About
    <2>7. Carried(net) \subseteq Carried(nt) \cup {About(out)}
      BY <1>9, <2>6
    <2> HIDE DEF forward, rpc, remote
    <2>8. /\ Carried(nt) \subseteq Carried(net') /\ nfaults' \in Nat
          /\ \/ /\ About(out) \in Clients => About(out) \in Carried(net')
                /\ Open(net') \subseteq Open(nt) /\ nfaults <= nfaults'
             \/ /\ Broker \in Open(nt) /\ Open(net') \subseteq Open(nt) \ {Broker}
                /\ nfaults <= nfaults'
             \/ Open(net') \subseteq Open(nt) /\ nfaults + 1 <= nfaults'
             \/ Open(net') \subseteq Open(nt) \cup {Broker} /\ nfaults + 2 <= nfaults'
      BY <1>3, <1>4, <1>5, <1>6, <1>7, <2>4, <2>5, SendOrAckCost
    <2> QED
      BY <1>7, <1>8, <2>7, <2>8, HandledCost
  <1>11. CASE /\ Valid(frames, Body(Broker, frames)) /\ rpc.kind \in {"answer", "ack"}
              /\ SendOrAck(nt, Broker, broker_client_send(remote, forward, rpc), remote)
    <2>1. PICK q \in Peers : /\ forward = Id(q) /\ rpc \in Answers(count, q)
                             /\ {q} \cap Clients \subseteq Named(p, frames)
      BY <1>4, <1>5, <1>11, AnswerFound
    <2>2. PICK out : out = broker_client_send(remote, forward, rpc)
      OBVIOUS
    <2>3. out = <<Id(q), Empty, rpc>>
      BY <2>1, <2>2, AnswerFrames DEF broker_client_send
    <2>4. Sendable(count, calls, Broker, out, Named(p, frames))
      BY <2>1, <2>3 DEF Sendable, IsAnswer
    <2>5. SendOrAck(nt, Broker, out, Id(p))
      BY <1>6, <1>11, <2>2
    <2>6. About(out) = rpc.who
      BY <2>3 DEF About
    <2>7. Carried(net) \subseteq Carried(nt) \cup {About(out)}
      BY <1>9, <2>6
    <2> HIDE DEF forward, rpc, remote
    <2>8. /\ Carried(nt) \subseteq Carried(net') /\ nfaults' \in Nat
          /\ \/ /\ About(out) \in Clients => About(out) \in Carried(net')
                /\ Open(net') \subseteq Open(nt) /\ nfaults <= nfaults'
             \/ /\ Broker \in Open(nt) /\ Open(net') \subseteq Open(nt) \ {Broker}
                /\ nfaults <= nfaults'
             \/ Open(net') \subseteq Open(nt) /\ nfaults + 1 <= nfaults'
             \/ Open(net') \subseteq Open(nt) \cup {Broker} /\ nfaults + 2 <= nfaults'
      BY <1>3, <1>4, <1>5, <1>6, <1>7, <2>4, <2>5, SendOrAckCost
    <2> QED
      BY <1>7, <1>8, <2>7, <2>8, HandledCost
  <1>12. CASE rpc.kind = "signal" /\ net' = nt /\ nfaults' = nfaults
    <2>1. Carried(net) \subseteq Carried(net') /\ net'.part = net.part
      BY <1>8, <1>9, <1>12
    <2>2. nfaults' \in Nat /\ nfaults <= nfaults'
      BY <1>7, <1>12
    <2> HIDE DEF forward, rpc, remote
    <2> QED
      BY <1>7, <2>1, <2>2, TakenCost
  <1>13. CASE ~Valid(frames, Body(Broker, frames)) /\ JustAck(nt, Broker, remote)
    <2>1. JustAck(nt, Broker, Id(p))
      BY <1>6, <1>13
    <2>2. Carried(net) \subseteq Carried(nt)
      BY <1>9, <1>13
    <2> HIDE DEF forward, rpc, remote
    <2>3. /\ Carried(nt) \subseteq Carried(net') /\ nfaults' \in Nat
          /\ \/ Open(net') \subseteq Open(nt) /\ nfaults <= nfaults'
             \/ Open(net') \subseteq Open(nt) \cup {Broker} /\ nfaults + 1 <= nfaults'
      BY <1>3, <1>4, <1>5, <1>6, <1>7, <2>1, JustAckCost
    <2> QED
      BY <1>7, <1>8, <2>2, <2>3, RefusedCost
  <1> QED
    BY <1>1, <1>2, <1>10, <1>11, <1>12, <1>13

\* A reader that refuses a message pays for what it loses.
LEMMA RefusesCost ==
  ASSUME TransportIInv, CostInv, NEW m \in Readers, reader_refuses(m)
  PROVE  CostInv'
  <1>1. PICK msg \in Incoming(m) :
          /\ Body(m, msg.frames) # {}
          /\ ~(/\ Valid(msg.frames, Body(m, msg.frames))
               /\ msg.frames[Min(Body(m, msg.frames))].kind = "request")
          /\ JustAck(msg.net, m, msg.frames[Min(Told(msg.frames))])
    BY DEF reader_refuses
  <1>2. PICK nt, frames : nt = msg.net /\ frames = msg.frames
    OBVIOUS
  <1>3. m \in Sockets
    BY DEF Sockets
  <1>4. /\ DownOK(count, calls, m, frames)
        /\ Named(m, frames) \subseteq waiting /\ Avoids(Contents(nt), Named(m, frames))
    <2>1. Body(m, rest[m]) = {}
      BY <1>3, ReadRest DEF TransportIInv
    <2> QED
      BY <1>1, <1>2, <2>1, ReaderReads
  <1>5. GoodNet(nt, count, calls, waiting) /\ frames \in Message
    BY <1>2, ReaderReads
  <1>6. /\ mdt \in [Clients -> Readers] /\ count \in [Clients -> 0 .. MaxReq]
        /\ nfaults \in Nat /\ waiting' = waiting
    BY DEF TransportIInv, TransportTypeOK, CostInv, reader_refuses
  <1>7. PICK q \in Peers : /\ frames[Min(Told(frames))] = Id(q)
                           /\ {q} \cap Clients \subseteq Named(m, frames)
    BY <1>1, <1>2, <1>4, <1>5, RefusedFound
  <1>8. JustAck(nt, m, Id(q))
    BY <1>1, <1>2, <1>7
  <1>9. /\ Carried(nt) \subseteq Carried(net') /\ nfaults' \in Nat
        /\ \/ Open(net') \subseteq Open(nt) /\ nfaults <= nfaults'
           \/ Open(net') \subseteq Open(nt) \cup {m} /\ nfaults + 1 <= nfaults'
    BY <1>3, <1>4, <1>5, <1>6, <1>7, <1>8, JustAckCost
  <1>10. nt.part = net.part /\ Carried(net) \subseteq Carried(nt)
    BY <1>1, <1>2, ReaderTakes, ReaderLoses
  <1> QED
    BY <1>6, <1>9, <1>10, RefusedCost

\* A reader that handles a request pays for what it loses.
LEMMA HandlesCost ==
  ASSUME TransportIInv, CostInv, NEW m \in Readers, reader_handles(m)
  PROVE  CostInv'
  <1>1. PICK msg \in Incoming(m) :
          LET body    == Body(m, msg.frames)
              forward == msg.frames[Min(Told(msg.frames))]
              rpc     == msg.frames[Min(body)]
          IN  /\ Valid(msg.frames, body) /\ rpc.kind = "request"
              /\ SendOrAck(msg.net, m,
                           peer_rpc_send(<<>>, forward,
                                         Frame("answer", forward.who, rpc.n)), forward)
    BY DEF reader_handles
  <1>2. PICK nt, frames : nt = msg.net /\ frames = msg.frames
    OBVIOUS
  <1>3. m \in Sockets
    BY DEF Sockets
  <1>4. /\ DownOK(count, calls, m, frames)
        /\ Named(m, frames) \subseteq waiting /\ Avoids(Contents(nt), Named(m, frames))
    <2>1. Body(m, rest[m]) = {}
      BY <1>3, ReadRest DEF TransportIInv
    <2>2. Body(m, frames) # {}
      BY <1>1, <1>2 DEF Valid
    <2> QED
      BY <1>2, <2>1, <2>2, ReaderReads
  <1>5. GoodNet(nt, count, calls, waiting) /\ frames \in Message
    BY <1>2, ReaderReads
  <1>6. /\ mdt \in [Clients -> Readers] /\ count \in [Clients -> 0 .. MaxReq]
        /\ waiting \subseteq Clients /\ nfaults \in Nat /\ waiting' = waiting
    BY DEF TransportIInv, TransportTypeOK, CostInv, reader_handles
  <1>7. PICK c \in Clients : /\ frames[Min(Told(frames))] = Id(c)
                             /\ frames[Min(Body(m, frames))] = Request(count, c)
                             /\ c \in Named(m, frames)
    BY <1>1, <1>2, <1>4, <1>5, HandledFound
  <1>8. c \in Peers /\ Id(c).who = c
    BY FrameFacts DEF Peers
  <1>9. Request(count, c).n = count[c] /\ Request(count, c).who = c
    BY <1>6, RequestFacts
  <1>10. PICK out : out = peer_rpc_send(<<>>, Id(c), Frame("answer", c, count[c]))
    OBVIOUS
  <1>11. out = <<Id(c), Empty, Frame("answer", c, count[c])>>
    BY <1>10, AnswerFrames
  <1>12. Sendable(count, calls, m, out, Named(m, frames))
    BY <1>7, <1>8, <1>11 DEF Sendable, IsAnswer, Answers
  <1>13. SendOrAck(nt, m, out, Id(c))
    BY <1>1, <1>2, <1>7, <1>8, <1>9, <1>10
  <1>14. {c} \cap Clients \subseteq Named(m, frames)
    BY <1>7
  <1>15. About(out) = c
    BY <1>11 DEF About, Frame
  <1>16. /\ Carried(nt) \subseteq Carried(net') /\ nfaults' \in Nat
         /\ \/ /\ About(out) \in Clients => About(out) \in Carried(net')
               /\ Open(net') \subseteq Open(nt) /\ nfaults <= nfaults'
            \/ m \in Open(nt) /\ Open(net') \subseteq Open(nt) \ {m} /\ nfaults <= nfaults'
            \/ Open(net') \subseteq Open(nt) /\ nfaults + 1 <= nfaults'
            \/ Open(net') \subseteq Open(nt) \cup {m} /\ nfaults + 2 <= nfaults'
    BY <1>3, <1>4, <1>5, <1>6, <1>8, <1>12, <1>13, <1>14, SendOrAckCost
  <1>17. nt.part = net.part /\ Carried(net) \subseteq Carried(nt) \cup {About(out)}
    BY <1>2, <1>7, <1>9, <1>15, ReaderTakes, ReaderLoses
  <1> QED
    BY <1>6, <1>16, <1>17, HandledCost

\* A request that was sent carries its call.
LEMMA RequestCost ==
  ASSUME TransportIInv, CostInv, NEW c \in Clients, px_rpc_send(c)
  PROVE  CostInv'
  <1>1. waiting' = waiting \cup {c} /\ nfaults' = nfaults /\ nfaults \in Nat
    BY DEF px_rpc_send, CostInv
  <1>2. PICK msg : msg = <<Id(c), Empty, Id(mdt[c]), Rpc(c)>>
    OBVIOUS
  <1>3. PICK nt1 : nt1 = SetUp(net, c, Append(net.up[c], msg))
    OBVIOUS
  <1>4. msg \in Message /\ net' = nt1
    BY <1>2, <1>3, RequestNet
  <1>5. net \in NetType /\ c \in Peers
    BY DEF TransportIInv, TransportTypeOK, Peers
  <1>6. /\ Carried(net) \subseteq Carried(nt1) /\ nt1.part = net.part
        /\ UpCarries(msg, c) => c \in Carried(nt1)
    BY <1>3, <1>4, <1>5, CarriedPutUp
  <1>7. UpCarries(msg, c)
    BY <1>2 DEF UpCarries, Rpc, Frame
  <1>8. Open(net') = Open(net)
    BY <1>4, <1>6 DEF Open
  <1>9. waiting' \ Carried(net') \subseteq waiting \ Carried(net)
    BY <1>1, <1>4, <1>6, <1>7
  <1>10. nfaults' \in Nat /\ nfaults <= nfaults'
    BY <1>1
  <1>11. IsFiniteSet(waiting')
    <2>1. IsFiniteSet(waiting)
      BY DEF CostInv
    <2> QED
      BY <1>1, <2>1, FS_AddElement
  <1>12. Paid(waiting \ Carried(net), Open(net), nfaults,
              waiting' \ Carried(net'), Open(net'), nfaults', c, c)
    BY <1>8, <1>9, <1>10 DEF Paid
  <1> QED
    BY <1>10, <1>11, <1>12, PaidStep

\* One that was not sent is no call: the client does not wait.
LEMMA SendFailsCost ==
  ASSUME TransportIInv, CostInv, NEW c \in Clients, send_fails(c)
  PROVE  CostInv'
  <1>1. waiting' = waiting /\ nfaults' = nfaults + 1 /\ nfaults \in Nat
    BY DEF send_fails, CostInv
  <1>2. net \in NetType
    BY DEF TransportIInv, TransportTypeOK
  <1>3. PICK msg \in Message :
          /\ net'.up = net.up /\ net'.down = net.down
          /\ net'.part = [net.part EXCEPT ![c] = msg]
    BY StoppedNet
  <1>4. Carried(net') = Carried(net)
    BY <1>3, Zenon DEF Carried
  <1>5. \A s \in Sockets : s # c /\ net'.part[s] = net.part[s]
    BY <1>2, <1>3, PeersApart DEF NetType, Sockets, Peers
  <1>6. Open(net') = Open(net)
    BY <1>5 DEF Open
  <1>7. nfaults' \in Nat /\ nfaults <= nfaults'
    BY <1>1
  <1>8. IsFiniteSet(waiting')
    BY <1>1 DEF CostInv
  <1>9. Paid(waiting \ Carried(net), Open(net), nfaults,
             waiting' \ Carried(net'), Open(net'), nfaults', c, c)
    BY <1>1, <1>4, <1>6, <1>7 DEF Paid
  <1> QED
    BY <1>7, <1>8, <1>9, PaidStep

\* What a client takes from its socket carries no call but its own.
LEMMA ClientTakes ==
  ASSUME TransportIInv, NEW c \in Clients, net.down[c] # <<>>,
         net' = [net EXCEPT !.down[c] = Tail(@)]
  PROVE  /\ net'.part = net.part
         /\ \A d \in Carried(net) : \/ d \in Carried(net')
                                    \/ d = c /\ Head(Head(net.down[c])) = Empty
  <1>1. /\ net \in NetType /\ GoodNet(net, count, calls, waiting) /\ c \in Peers
        /\ mdt \in [Clients -> Readers]
    BY InvNet DEF TransportIInv, TransportTypeOK, Peers
  <1>2. PICK nt2 : nt2 = net'
    OBVIOUS
  <1>3. nt2 = SetDown(net, c, Tail(net.down[c]))
    BY <1>1, <1>2 DEF SetDown, NetType
  <1>4. PICK msg : msg = Head(net.down[c])
    OBVIOUS
  <1>5. msg \in Message /\ DownOK(count, calls, c, msg)
    BY <1>1, <1>3, <1>4, TakeDown
  <1>6. nt2.part = net.part
    <2>1. Tail(net.down[c]) \in Seq(Message)
      BY <1>1, HeadTailProperties DEF NetType
    <2>2. PICK v \in Seq(Message) : v = Tail(net.down[c])
      BY <2>1
    <2>3. SetDown(net, c, v).part = net.part
      BY <1>1, ContentsDown
    <2> QED
      BY <1>3, <2>2, <2>3
  <1>7. ASSUME NEW d \in Carried(net), d \notin Carried(nt2)
        PROVE  d = c /\ Head(msg) = Empty
    <2>1. DownCarries(msg, d)
      BY <1>1, <1>3, <1>4, <1>7, CarriedTakeDown
    <2>2. d \in Clients
      BY <1>7 DEF Carried
    <2>3. c # mdt[d]
      BY <1>1, <2>2, PeersApart
    <2>4. c = d /\ \E b \in Answers(count, d) : msg = <<Empty, b>>
      BY <1>1, <1>5, <2>1, <2>2, <2>3, DownCarried
    <2> QED
      BY <2>4
  <1> QED
    BY <1>2, <1>4, <1>6, <1>7

\* An answer that a client takes ends its call: nothing is lost.
LEMMA ReadingCost ==
  ASSUME TransportIInv, CostInv, NEW c \in Clients, zmq_recv(c)
  PROVE  CostInv'
  <1>1. /\ net.down[c] # <<>> /\ net' = [net EXCEPT !.down[c] = Tail(@)]
        /\ waiting' = waiting \ {c} /\ nfaults' = nfaults /\ nfaults \in Nat
        /\ IsFiniteSet(waiting)
    BY DEF zmq_recv, CostInv
  <1>2. net'.part = net.part /\ \A d \in Carried(net) : d \in Carried(net') \/ d = c
    BY <1>1, ClientTakes
  <1>3. Open(net') = Open(net)
    BY <1>2 DEF Open
  <1>4. waiting' \ Carried(net') \subseteq waiting \ Carried(net)
    BY <1>1, <1>2
  <1>5. nfaults' \in Nat /\ nfaults <= nfaults'
    BY <1>1
  <1>6. IsFiniteSet(waiting')
    BY <1>1, FS_RemoveElement
  <1>7. Paid(waiting \ Carried(net), Open(net), nfaults,
             waiting' \ Carried(net'), Open(net'), nfaults', c, c)
    BY <1>3, <1>4, <1>5 DEF Paid
  <1> QED
    BY <1>5, <1>6, <1>7, PaidStep

\* What a ZMQ_REQ socket skips carries no call that is waited for.
LEMMA SkipCost ==
  ASSUME TransportIInv, CostInv, NEW c \in Clients, req_skips(c)
  PROVE  CostInv'
  <1>1. /\ net.down[c] # <<>> /\ net' = [net EXCEPT !.down[c] = Tail(@)]
        /\ Head(Head(net.down[c])) # Empty
        /\ waiting' = waiting /\ nfaults' = nfaults /\ nfaults \in Nat
    BY DEF req_skips, CostInv
  <1>2. net'.part = net.part /\ Carried(net) \subseteq Carried(net')
    BY <1>1, ClientTakes
  <1>3. nfaults' \in Nat /\ nfaults <= nfaults'
    BY <1>1
  <1> QED
    BY <1>1, <1>2, <1>3, TakenCost

-----------------------------------------------------------------------------
(***************************************************************************)
(* What a client takes for an answer.                                      *)
(***************************************************************************)

\* Only after a failure is an identity taken for an answer.
IdsPaid ==
  \A c \in Clients : \A i \in DOMAIN got[c] :
    Told(got[c]) = {i} /\ got[c][i].kind = "id" => nfaults > 0

\* The clients whose call is carried are among those that messages name.
LEMMA CarriedNamed ==
  ASSUME NEW nt \in NetType, NEW set, Within(Contents(nt), set)
  PROVE  Carried(nt) \subseteq set
  <1> SUFFICES ASSUME NEW c \in Carried(nt) PROVE c \in set
    OBVIOUS
  <1>1. c \in Clients
    BY DEF Carried
  <1>2. PICK p \in Peers : \/ \E i \in DOMAIN nt.up[p] : UpCarries(nt.up[p][i], c)
                           \/ \E i \in DOMAIN nt.down[p] : DownCarries(nt.down[p][i], c)
    BY Zenon DEF Carried
  <1>3. PICK b \in Box : \E i \in DOMAIN Contents(nt)[b] :
          UpCarries(Contents(nt)[b][i], c) \/ DownCarries(Contents(nt)[b][i], c)
    BY <1>2, ContentsAt
  <1>4. PICK i \in DOMAIN Contents(nt)[b] :
          UpCarries(Contents(nt)[b][i], c) \/ DownCarries(Contents(nt)[b][i], c)
    BY <1>3
  <1>5. PICK msg : msg = Contents(nt)[b][i]
    OBVIOUS
  <1>6. msg \in Message
    BY <1>5, ContentsAt
  <1>7. \E j \in DOMAIN msg : msg[j].who = c
    BY <1>4, <1>5, <1>6 DEF UpCarries, DownCarries, Message
  <1>8. c \in Named(b[2], msg)
    BY <1>1, <1>7 DEF Named
  <1> QED
    BY <1>5, <1>8 DEF Within

\* A client that reads frames glued together lost its call to a failure before.
LEMMA GluedPaid ==
  ASSUME TransportIInv, TransportIInv', CostInv, NEW c \in Clients, zmq_recv(c),
         Glued(Head(net.down[c]))
  PROVE  nfaults > 0
  <1>1. /\ c \in waiting /\ net.down[c] # <<>> /\ net' = [net EXCEPT !.down[c] = Tail(@)]
        /\ waiting' = waiting \ {c}
    BY DEF zmq_recv
  <1>2. net \in NetType /\ c \in Peers /\ mdt \in [Clients -> Readers]
    BY DEF TransportIInv, TransportTypeOK, Peers
  <1>3. c \notin Carried(net')
    <2>1. net' \in NetType /\ Within(Contents(net'), waiting')
      BY DEF TransportIInv, TransportTypeOK
    <2>2. PICK nt2 \in NetType : nt2 = net' /\ Within(Contents(nt2), waiting')
      BY <2>1
    <2>3. Carried(nt2) \subseteq waiting'
      BY <2>2, CarriedNamed
    <2> QED
      BY <1>1, <2>2, <2>3
  <1>4. PICK msg : msg = Head(net.down[c])
    OBVIOUS
  <1>5. msg \in Message /\ DownOK(count, calls, c, msg)
    BY <1>4, ReadingTakes
  <1>6. ASSUME c \in Carried(net) PROVE FALSE
    <2>1. net' = SetDown(net, c, Tail(net.down[c]))
      BY <1>1, <1>2 DEF SetDown, NetType
    <2>2. PICK nt2 : nt2 = SetDown(net, c, Tail(net.down[c]))
      OBVIOUS
    <2>3. DownCarries(msg, c)
      BY <1>1, <1>2, <1>3, <1>4, <1>6, <2>1, <2>2, CarriedTakeDown
    <2>4. c # mdt[c]
      BY <1>2, PeersApart
    <2>5. \E b \in Answers(count, c) : msg = <<Empty, b>>
      BY <1>2, <1>5, <2>3, <2>4, DownCarried
    <2>6. Len(msg) = 2
      BY <2>5
    <2>7. Glued(msg)
      BY <1>4
    <2>8. 2 > 2
      BY <2>6, <2>7, Zenon DEF Glued
    <2> QED
      BY <2>8
  <1>7. PICK L, O : L = waiting \ Carried(net) /\ O = Open(net)
    OBVIOUS
  <1>8. /\ nfaults \in Nat /\ IsFiniteSet(waiting) /\ IsFiniteSet(O)
        /\ Cardinality(L) + Cardinality(O) <= nfaults
    BY <1>7 DEF CostInv, LossesPaid
  <1>9. IsFiniteSet(L) /\ c \in L
    BY <1>1, <1>6, <1>7, <1>8, CardinalitySub
  <1>10. {} \subseteq L \ {c}
    OBVIOUS
  <1>11. Cardinality(L) \in Nat /\ Cardinality(O) \in Nat /\ Cardinality({}) = 0
    BY <1>8, <1>9, FS_CardinalityType, FS_EmptySet
  <1>12. Cardinality({}) + 1 <= Cardinality(L)
    BY <1>9, <1>10, CardinalityLess
  <1> QED
    BY <1>8, <1>11, <1>12

\* An answer by itself holds no identity.
LEMMA PlainRead ==
  ASSUME TransportIInv, NEW c \in Clients, NEW msg \in Message,
         DownOK(count, calls, c, msg), ~Glued(msg),
         NEW frames, frames = msg \/ frames = SubSeq(msg, 1, 2), NEW i \in DOMAIN frames
  PROVE  frames[i].kind # "id"
  <1>1. count \in [Clients -> 0 .. MaxReq] /\ c \in Peers
    BY DEF TransportIInv, TransportTypeOK, Peers
  <1>2. PICK b \in Answers(count, c) : msg = <<Empty, b>>
    BY ReplyForms
  <1>3. b.kind \in {"answer", "ack"} /\ Empty.kind = "empty"
    BY <1>1, AnswerFacts, FrameFacts
  <1>4. i \in {1, 2} /\ frames[i] = msg[i] /\ msg[1] = Empty /\ msg[2] = b
    BY <1>2
  <1>5. CASE i = 1
    BY <1>3, <1>4, <1>5
  <1>6. CASE i = 2
    BY <1>3, <1>4, <1>6
  <1> QED
    BY <1>4, <1>5, <1>6

\* Failures are never taken back.
LEMMA FaultsGrow ==
  ASSUME nfaults \in Nat, TransportNext
  PROVE  nfaults' \in Nat /\ nfaults <= nfaults'
  <1>1. ASSUME NEW c \in Clients,
               \/ px_rpc_send(c) \/ send_fails(c)
               \/ px_changelog_start(c) \/ cl_rep_recv(c) \/ req_skips(c)
        PROVE  nfaults' = nfaults \/ nfaults' = nfaults + 1
    BY <1>1 DEF px_rpc_send, send_fails, px_changelog_start, cl_rep_recv, zmq_recv, req_skips
  <1>2. ASSUME NEW nt, NEW sock, NEW frames, NEW to,
               SendOrAck(nt, sock, frames, to) \/ JustAck(nt, sock, to)
        PROVE  nfaults' \in {nfaults, nfaults + 1, nfaults + 2}
    BY <1>2 DEF SendOrAck, JustAck
  <1>3. ASSUME NEW s \in Readers \cup {Broker}, Receive(s) \/ recv_no_memory(s)
        PROVE  nfaults' \in {nfaults, nfaults + 1, nfaults + 2}
    <2>1. CASE recv_no_body(s) \/ recv_no_memory(s)
      BY <2>1 DEF recv_no_body, recv_no_memory
    <2>2. CASE lcapd_process_request
      BY <1>2, <2>2, Zenon DEF lcapd_process_request
    <2>3. CASE reader_handles(s)
      BY <1>2, <2>3, Zenon DEF reader_handles
    <2>4. CASE reader_refuses(s)
      BY <1>2, <2>4, Zenon DEF reader_refuses
    <2> QED
      BY <1>3, <2>1, <2>2, <2>3, <2>4 DEF Receive
  <1> QED
    BY <1>1, <1>3 DEF TransportNext

\* What a step changes of what the clients read.
LEMMA GotStep ==
  ASSUME TransportNext
  PROVE  \/ got' = got
         \/ \E c \in Clients : \E frames :
              /\ got' = [got EXCEPT ![c] = frames]
              /\ \/ frames = <<>>
                 \/ /\ zmq_recv(c)
                    /\ \/ frames = Head(net.down[c])
                       \/ frames = SubSeq(Head(net.down[c]), 1, 2)
  <1>1. ASSUME NEW c \in Clients, px_rpc_send(c) \/ send_fails(c)
        PROVE  got' = [got EXCEPT ![c] = <<>>]
    BY <1>1 DEF px_rpc_send, send_fails
  <1>2. ASSUME NEW c \in Clients, px_changelog_start(c)
        PROVE  zmq_recv(c) /\ got' = [got EXCEPT ![c] = SubSeq(Head(net.down[c]), 1, 2)]
    BY <1>2 DEF px_changelog_start
  <1>3. ASSUME NEW c \in Clients, cl_rep_recv(c)
        PROVE  zmq_recv(c) /\ got' = [got EXCEPT ![c] = Head(net.down[c])]
    BY <1>3 DEF cl_rep_recv
  <1>4. ASSUME NEW c \in Clients, req_skips(c)
        PROVE  got' = got
    BY <1>4 DEF req_skips
  <1>5. ASSUME NEW s \in Readers \cup {Broker}, Receive(s) \/ recv_no_memory(s)
        PROVE  got' = got
    BY <1>5 DEF Receive, recv_no_body, recv_no_memory, lcapd_process_request,
                reader_handles, reader_refuses
  <1> QED
    BY <1>1, <1>2, <1>3, <1>4, <1>5, Zenon DEF TransportNext

LEMMA IdsKept ==
  ASSUME TransportIInv, TransportIInv', CostInv, IdsPaid, [TransportNext]_transportVars
  PROVE  IdsPaid'
  <1>1. nfaults \in Nat /\ got \in [Clients -> Message]
    BY DEF CostInv, TransportIInv, TransportTypeOK
  <1>2. CASE UNCHANGED transportVars
    BY <1>2 DEF transportVars, IdsPaid
  <1>3. CASE TransportNext /\ nfaults > 0
    <2>1. nfaults' > 0
      BY <1>1, <1>3, FaultsGrow
    <2> QED
      BY <2>1 DEF IdsPaid
  <1>4. CASE TransportNext /\ ~(nfaults > 0)
    <2>1. \A d \in Clients : \A i \in DOMAIN got[d] : ~(Told(got[d]) = {i} /\ got[d][i].kind = "id")
      BY <1>4 DEF IdsPaid
    <2>2. CASE got' = got
      BY <2>1, <2>2 DEF IdsPaid
    <2>3. ASSUME NEW c \in Clients, NEW frames, got' = [got EXCEPT ![c] = frames],
                 \/ frames = <<>>
                 \/ /\ zmq_recv(c)
                    /\ frames = Head(net.down[c]) \/ frames = SubSeq(Head(net.down[c]), 1, 2)
          PROVE  IdsPaid'
      <3>1. got'[c] = frames /\ \A d \in Clients \ {c} : got'[d] = got[d]
        BY <1>1, <2>3
      <3>2. ASSUME NEW i \in DOMAIN frames PROVE frames[i].kind # "id"
        <4>1. CASE frames = <<>>
          BY <3>2, <4>1
        <4>2. CASE zmq_recv(c) /\ frames # <<>>
          <5>1. PICK msg : msg = Head(net.down[c])
            OBVIOUS
          <5>2. msg \in Message /\ DownOK(count, calls, c, msg) /\ ~Glued(msg)
            BY <1>4, <4>2, <5>1, ReadingTakes, GluedPaid
          <5>3. frames = msg \/ frames = SubSeq(msg, 1, 2)
            BY <2>3, <4>2, <5>1
          <5> QED
            BY <3>2, <5>2, <5>3, PlainRead
        <4> QED
          BY <2>3, <4>1, <4>2
      <3> QED
        BY <2>1, <3>1, <3>2 DEF IdsPaid
    <2> QED
      BY <1>4, <2>2, <2>3, GotStep
  <1> QED
    BY <1>1, <1>2, <1>3, <1>4

-----------------------------------------------------------------------------
(***************************************************************************)
(* Theorems.                                                               *)
(***************************************************************************)

\* At the start nobody waits and nothing was begun.
LEMMA CostStarts ==
  ASSUME TransportInit
  PROVE  CostInv
  <1>1. waiting = {} /\ nfaults = 0 /\ net = NetInit
    BY DEF TransportInit
  <1>2. Open(net) = {}
    BY <1>1 DEF Open, NetInit, Sockets, Peers
  <1>3. waiting \ Carried(net) = {}
    BY <1>1
  <1>4. IsFiniteSet({}) /\ Cardinality({}) = 0
    BY FS_EmptySet
  <1> QED
    BY <1>1, <1>2, <1>3, <1>4 DEF CostInv, LossesPaid

\* Every step keeps the account.
LEMMA CostKept ==
  TransportIInv /\ CostInv /\ [TransportNext]_transportVars => CostInv'
  <1> SUFFICES ASSUME TransportIInv, CostInv, [TransportNext]_transportVars
               PROVE  CostInv'
    OBVIOUS
  <1>1. CASE UNCHANGED transportVars
    <2>1. waiting' = waiting /\ net' = net /\ nfaults' = nfaults
      BY <1>1 DEF transportVars
    <2> QED
      BY <2>1 DEF CostInv, LossesPaid
  <1>2. ASSUME NEW c \in Clients,
               \/ px_rpc_send(c) \/ send_fails(c)
               \/ px_changelog_start(c) \/ cl_rep_recv(c) \/ req_skips(c)
        PROVE  CostInv'
    <2>1. px_changelog_start(c) \/ cl_rep_recv(c) => zmq_recv(c)
      BY DEF px_changelog_start, cl_rep_recv
    <2> QED
      BY <1>2, <2>1, RequestCost, SendFailsCost, ReadingCost, SkipCost
  <1>3. ASSUME NEW s \in Readers \cup {Broker}, Receive(s)
        PROVE  CostInv'
    <2>1. CASE recv_no_body(s)
      BY <2>1, NoBodyCost DEF Sockets
    <2>2. CASE lcapd_process_request
      BY <2>2, BrokerCost
    <2>3. CASE s # Broker /\ (reader_handles(s) \/ reader_refuses(s))
      BY <2>3, HandlesCost, RefusesCost
    <2> QED
      BY <1>3, <2>1, <2>2, <2>3 DEF Receive
  <1>4. ASSUME NEW s \in Readers \cup {Broker}, recv_no_memory(s)
        PROVE  CostInv'
    BY <1>4, NoMemoryCost DEF Sockets
  <1> QED
    BY <1>1, <1>2, <1>3, <1>4 DEF TransportNext

\* With failures of one kind, of zmq_send() or in lcapnet_req_update(), however
\* many, the calls that are lost and the messages that were begun and not finished
\* never outnumber the failures: the ack_retcode() after a peer_rpc_send() that
\* failed finishes its message, or costs another failure.
THEOREM FaultsPayForLosses ==
  ASSUME OneKind
  PROVE  TransportSpec => []LossesPaid
  <1>1. TransportInit => CostInv
    BY CostStarts
  <1>2. TransportIInv /\ CostInv /\ [TransportNext]_transportVars => CostInv'
    BY CostKept
  <1>3. TransportSpec => []TransportIInv
    BY TransportInvariance
  <1>4. CostInv => LossesPaid
    BY DEF CostInv
  <1> QED
    BY <1>1, <1>2, <1>3, <1>4, PTL DEF TransportSpec

\* With failures of one kind, a failure costs at most one call: no more clients
\* wait for nothing than there were failures of zmq_send() or of the allocations
\* in lcapnet_req_update().
THEOREM OneCallPerFault ==
  ASSUME OneKind
  PROVE  TransportSpec => []FaultCostsOneCall
  <1>1. TransportInit => CostInv
    BY CostStarts
  <1>2. TransportIInv /\ CostInv /\ [TransportNext]_transportVars => CostInv'
    BY CostKept
  <1>3. TransportSpec => []TransportIInv
    BY TransportInvariance
  <1>4. TransportIInv /\ CostInv => FaultCostsOneCall
    <2> SUFFICES ASSUME TransportIInv, CostInv PROVE FaultCostsOneCall
      OBVIOUS
    <2>1. ASSUME NEW c \in Stuck PROVE c \in waiting \ Carried(net)
      <3>1. c \in waiting /\ ~ \E p \in Peers : Travels(c, net.up[p]) \/ Travels(c, net.down[p])
        BY <2>1 DEF Stuck
      <3>2. net \in NetType /\ Forms(net, count, calls)
        BY DEF TransportIInv, TransportTypeOK
      <3>3. SUFFICES ASSUME c \in Carried(net) PROVE FALSE
        BY <3>1
      <3>4. c \in Clients
        BY <3>3 DEF Carried
      <3>5. PICK p \in Peers : \/ \E i \in DOMAIN net.up[p] : UpCarries(net.up[p][i], c)
                               \/ \E i \in DOMAIN net.down[p] : DownCarries(net.down[p][i], c)
        BY <3>3, Zenon DEF Carried
      <3>6. CASE \E i \in DOMAIN net.up[p] : UpCarries(net.up[p][i], c)
        <4>1. PICK i \in DOMAIN net.up[p] : UpCarries(net.up[p][i], c)
          BY <3>6
        <4>2. PICK msg : msg = net.up[p][i]
          OBVIOUS
        <4>3. msg \in Message /\ UpOK(count, calls, p, msg)
          BY <3>2, <4>1, <4>2 DEF Forms, NetType
        <4>4. Valid(msg, Body(Broker, msg)) /\ msg[Min(Body(Broker, msg))].who = c
          BY <3>4, <4>1, <4>2, <4>3, UpBody
        <4>5. PICK j \in Body(Broker, msg) : Body(Broker, msg) = {j} /\ IsBody(msg[j])
          BY <4>4 DEF Valid
        <4>6. j \in DOMAIN msg /\ j \in Nat
          BY <4>3, <4>5, ToldType DEF Told
        <4>7. Min(Body(Broker, msg)) = j
          BY <4>5, <4>6, MinOne
        <4>8. Travels(c, net.up[p])
          BY <4>1, <4>2, <4>4, <4>5, <4>6, <4>7 DEF Travels
        <4> QED
          BY <3>1, <4>8
      <3>7. CASE \E i \in DOMAIN net.down[p] : DownCarries(net.down[p][i], c)
        <4>1. PICK i \in DOMAIN net.down[p] : DownCarries(net.down[p][i], c)
          BY <3>7
        <4>2. PICK msg : msg = net.down[p][i]
          OBVIOUS
        <4>3. msg \in Message /\ DownOK(count, calls, p, msg)
          BY <3>2, <4>1, <4>2 DEF Forms, NetType
        <4>4. \E j \in DOMAIN msg : msg[j].who = c /\ IsBody(msg[j])
          <5>1. count \in [Clients -> 0 .. MaxReq] /\ c \in Peers
            BY <3>4 DEF TransportIInv, TransportTypeOK, Peers
          <5>2. CASE msg = <<Empty, Id(c), Empty, Request(count, c)>>
            <6>1. Request(count, c).who = c /\ Request(count, c).kind = "request"
              BY <3>4, <5>1, RequestFacts
            <6>2. 4 \in DOMAIN msg /\ msg[4] = Request(count, c)
              BY <5>2
            <6> QED
              BY <6>1, <6>2 DEF IsBody
          <5>3. CASE \E b \in Answers(count, c) : msg = <<Empty, b>>
            <6>1. PICK b \in Answers(count, c) : msg = <<Empty, b>>
              BY <5>3
            <6>2. b.who = c /\ b.kind \in {"answer", "ack"}
              BY <5>1, AnswerFacts
            <6>3. 2 \in DOMAIN msg /\ msg[2] = b
              BY <6>1
            <6> QED
              BY <6>2, <6>3 DEF IsBody
          <5> QED
            BY <3>4, <4>1, <4>2, <4>3, <5>2, <5>3, DownCarried
        <4>5. Travels(c, net.down[p])
          BY <4>1, <4>2, <4>4 DEF Travels
        <4> QED
          BY <3>1, <4>5
      <3> QED
        BY <3>5, <3>6, <3>7
    <2>2. PICK L : L = waiting \ Carried(net)
      OBVIOUS
    <2>3. IsFiniteSet(waiting) /\ IsFiniteSet(Open(net)) /\ nfaults \in Nat
      BY DEF CostInv
    <2>4. IsFiniteSet(L) /\ Cardinality(L) \in Nat
      BY <2>2, <2>3, CardinalitySub
    <2>5. Cardinality(Stuck) \in Nat /\ Cardinality(Stuck) <= Cardinality(L)
      <3>1. Stuck \subseteq L
        BY <2>1, <2>2
      <3> QED
        BY <2>4, <3>1, CardinalitySub
    <2>6. Cardinality(Open(net)) \in Nat
      BY <2>3, FS_CardinalityType
    <2>7. Cardinality(L) + Cardinality(Open(net)) <= nfaults
      BY <2>2 DEF CostInv, LossesPaid
    <2> QED
      BY <2>3, <2>4, <2>5, <2>6, <2>7 DEF FaultCostsOneCall
  <1> QED
    BY <1>1, <1>2, <1>3, <1>4, PTL DEF TransportSpec

\* With failures of one kind, however many, what a client takes for an answer is
\* the one to its last request, or an error for it; only px_changelog_start() may
\* take an identity for one, only after a failure, and then the client makes no
\* other request.
THEOREM AnswersTheirOwn ==
  ASSUME OneKind
  PROVE  TransportSpec => []AnswersOwn
  <1>1. TransportInit => CostInv /\ IdsPaid
    BY CostStarts DEF TransportInit, IdsPaid
  <1>2. TransportIInv /\ CostInv /\ [TransportNext]_transportVars => CostInv'
    BY CostKept
  <1>3. TransportSpec => []TransportIInv
    BY TransportInvariance
  <1>4. TransportIInv /\ TransportIInv' /\ CostInv /\ IdsPaid /\ [TransportNext]_transportVars
        => IdsPaid'
    BY IdsKept
  <1>5. TransportIInv /\ IdsPaid => AnswersOwn
    BY DEF TransportIInv, GotOK, Owned, IdsPaid, AnswersOwn
  <1> QED
    BY <1>1, <1>2, <1>3, <1>4, <1>5, PTL DEF TransportSpec
=============================================================================
