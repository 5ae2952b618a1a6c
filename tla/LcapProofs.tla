----------------------------- MODULE LcapProofs -----------------------------
(***************************************************************************)
(* Proofs about Lcap, for any number of tools and programs that all go     *)
(* through lcapd, any instance of the reader and any faults but "reuse".   *)
(***************************************************************************)
EXTENDS LcapInv, ReaderRefinement, DeliverProofs

\* The greatest of two numbers is one of them, and not below the other.
LEMMA MaxOfTwo ==
  ASSUME NEW m \in Nat, NEW n \in Nat
  PROVE  Max({m, n}) \in {m, n} /\ Max({m, n}) >= m /\ Max({m, n}) >= n
  <1>1. \E x \in {m, n} : \A y \in {m, n} : x >= y
    BY m >= n \/ n >= m
  <1>2. Max({m, n}) = CHOOSE x \in {m, n} : \A y \in {m, n} : x >= y
    BY Zenon DEF Max
  <1>3. Max({m, n}) \in {m, n} /\ \A y \in {m, n} : Max({m, n}) >= y
    BY <1>1, <1>2, Zenon
  <1> QED
    BY <1>3

\* A batch has a first record.
LEMMA MinOfBatch ==
  ASSUME NEW S, S \subseteq Records, S # {}
  PROVE  Min(S) \in S /\ \A y \in S : Min(S) <= y
  <1>1. S \subseteq Nat
    BY DEF Records
  <1>2. \E x \in S : \A y \in S : x <= y
    BY <1>1, MinNat
  <1>3. Min(S) = CHOOSE x \in S : \A y \in S : x <= y
    BY Zenon DEF Min
  <1> QED
    BY <1>2, <1>3, Zenon

-----------------------------------------------------------------------------
(***************************************************************************)
(* A step of the reader, as its clients see it.                            *)
(***************************************************************************)

\* No request is answered.
Unseen == UNCHANGED <<req, rep, lent, re_peers, acked>>

\* The thread ends: requests, answers and loans are gone, maybe in the middle
\* of a CLEAR.
Ended ==
  /\ req' = [c \in Clients |-> "none"]
  /\ rep' = [c \in Clients |-> Idle]
  /\ re_peers' = {}
  /\ lent' = [c \in Clients |-> {}]
  /\ \/ acked' = acked
     \/ \E c \in Clients : req[c] = "CLEAR" /\ acked' = acked \cup lent[c]

\* A request of c is handled: it is refused or changes nothing that c can see,
\* a bucket is lent, the batch is acknowledged or the client leaves.
Acks == {Ack("ok"), Ack("eof"), Ack("error")}

Refused(c, m, l) ==
  /\ m \in {rep[c]} \cup Acks
  /\ l = lent[c]
  /\ c \in re_peers' => c \in re_peers \/ req[c] = "START"
  /\ acked' = acked

Lent(c, m, l) ==
  /\ req[c] = "DEQUEUE"
  /\ \/ m.op = "ENQUEUE" /\ m.ret = "ok" /\ m.recs = l
     \/ m \in {rep[c], Ack("error")} /\ Faults \cap {"oom", "send"} # {}
  /\ lent[c] = {}
  /\ c \in re_peers
  /\ acked' = acked

Cleared(c, m, l) ==
  /\ req[c] = "CLEAR"
  /\ m \in {rep[c]} \cup Acks
  /\ l = {}
  /\ c \in re_peers' => c \in re_peers
  /\ acked' = acked \cup lent[c]

Left(c, m, l) ==
  /\ req[c] = "FINI"
  /\ m \in {rep[c]} \cup Acks
  /\ l = {}
  /\ c \notin re_peers'
  /\ acked' = acked

Served(c, m, l) ==
  /\ req[c] # "none"
  /\ req' = [req EXCEPT ![c] = "none"]
  /\ rep' = [rep EXCEPT ![c] = m]
  /\ lent' = [lent EXCEPT ![c] = l]
  /\ re_peers' \ {c} = re_peers \ {c}
  /\ Refused(c, m, l) \/ Lent(c, m, l) \/ Cleared(c, m, l) \/ Left(c, m, l)

\* An error is answered, or nothing when the answer cannot be sent.
LEMMA ErrorSeen ==
  ASSUME TypeOK, NEW c \in Clients, NEW ret, ReplyError(c, ret)
  PROVE  /\ req' = [req EXCEPT ![c] = "none"]
         /\ \E m \in {rep[c], Ack(ret)} :
              /\ rep' = [rep EXCEPT ![c] = m]
              /\ m # Ack(ret) => "send" \in Faults
  <1>1. rep = [rep EXCEPT ![c] = rep[c]]
    BY DEF TypeOK
  <1> QED
    BY <1>1 DEF ReplyError, Consumed

\* The answer of a handler may turn into an error too.
LEMMA AnswerSeen ==
  ASSUME TypeOK, NEW c \in Clients, NEW a, ReplyMsg(c, a)
  PROVE  /\ req' = [req EXCEPT ![c] = "none"]
         /\ \E m \in {rep[c], a, Ack("error")} :
              /\ rep' = [rep EXCEPT ![c] = m]
              /\ m # a => "send" \in Faults
  <1>1. CASE ReplyError(c, "error") /\ "send" \in Faults
    BY <1>1, ErrorSeen
  <1>2. CASE ~ (ReplyError(c, "error") /\ "send" \in Faults)
    BY <1>2 DEF ReplyMsg, Consumed
  <1> QED
    BY <1>1, <1>2

\* What each handler does, as its client sees it.
LEMMA RefuseSeen ==
  ASSUME TypeOK, NEW c \in Clients, req[c] # "none",
         NEW ret \in {"ok", "eof", "error"}, Refuse(c, ret)
  PROVE  \E m, l : Served(c, m, l)
  <1>1. PICK m \in {rep[c], Ack(ret)} :
          /\ req' = [req EXCEPT ![c] = "none"]
          /\ rep' = [rep EXCEPT ![c] = m]
    BY ErrorSeen DEF Refuse
  <1>2. UNCHANGED <<lent, re_peers, acked>>
    BY DEF Refuse, peers
  <1>3. lent' = [lent EXCEPT ![c] = lent[c]]
    BY <1>2 DEF TypeOK
  <1>4. m \in {rep[c]} \cup Acks
    BY <1>1 DEF Acks
  <1> QED
    BY <1>1, <1>2, <1>3, <1>4 DEF Served, Refused

\* reader_handle_start() and the handlers that refuse or say nothing.
LEMMA QuietHandlersSeen ==
  ASSUME TypeOK, NEW c \in Clients,
         \/ rpc_invalid(c) \/ reader_handle_start(c) \/ dequeue_refused(c)
         \/ dequeue_eof(c) \/ clear_refused(c) \/ clear_nothing(c)
         \/ dequeue_add_fails(c)
  PROVE  \E m, l : Served(c, m, l)
  <1>a. lent = [lent EXCEPT ![c] = lent[c]] /\ rep = [rep EXCEPT ![c] = rep[c]]
    BY DEF TypeOK
  <1>1. CASE \/ rpc_invalid(c) \/ dequeue_refused(c) \/ dequeue_eof(c)
             \/ clear_refused(c)
    BY <1>1, RefuseSeen
    DEF rpc_invalid, dequeue_refused, dequeue_eof, clear_refused, Serving
  <1>2. CASE reader_handle_start(c)
    <2>1. CASE Refuse(c, "error")
      BY <1>2, <2>1, RefuseSeen DEF reader_handle_start, Serving
    <2>2. CASE ~Refuse(c, "error")
      <3>1. /\ req[c] = "START" /\ re_peers' = re_peers \cup {c}
            /\ ReplyMsg(c, Ack("ok")) /\ UNCHANGED <<lent, acked>>
        BY <1>2, <2>2 DEF reader_handle_start, Serving
      <3>2. PICK m \in {rep[c], Ack("ok"), Ack("error")} :
              /\ req' = [req EXCEPT ![c] = "none"]
              /\ rep' = [rep EXCEPT ![c] = m]
        BY <3>1, AnswerSeen
      <3> QED
        BY <1>a, <3>1, <3>2 DEF Served, Refused, Acks
    <2> QED
      BY <2>1, <2>2
  <1>3. CASE clear_nothing(c)
    <2>1. /\ req[c] = "CLEAR" /\ req' = [req EXCEPT ![c] = "none"]
          /\ UNCHANGED <<rep, lent, re_peers, acked>>
      BY <1>3 DEF clear_nothing, Consumed, peers, Serving
    <2> QED
      BY <1>a, <2>1 DEF Served, Refused
  <1>4. CASE dequeue_add_fails(c)
    <2>1. req[c] = "DEQUEUE" /\ ReplyError(c, "error")
          /\ UNCHANGED <<lent, re_peers, acked>>
      BY <1>4 DEF dequeue_add_fails, Serving
    <2>2. PICK m \in {rep[c], Ack("error")} :
            /\ req' = [req EXCEPT ![c] = "none"]
            /\ rep' = [rep EXCEPT ![c] = m]
      BY <2>1, ErrorSeen
    <2> QED
      BY <1>a, <2>1, <2>2 DEF Served, Refused, Acks
  <1> QED
    BY <1>1, <1>2, <1>3, <1>4

\* reader_handle_dequeue() lends the bucket it sends, and one it failed to send.
LEMMA DequeueSeen ==
  ASSUME IInv, NEW c \in Clients, reader_handle_dequeue(c)
  PROVE  \E m, l : Served(c, m, l)
  <1>1. PICK e \in Expired, packed \in BOOLEAN :
          LET b == rec_bucket_get(e)
          IN /\ lent' = [lent EXCEPT ![c] = bkt[b].lrb_records]
             /\ \/ packed /\ ReplyMsg(c, Enqueue(bkt[b]))
                \/ ~packed /\ "oom" \in Faults /\ ReplyError(c, "error")
    BY DEF reader_handle_dequeue
  <1>2. /\ req[c] = "DEQUEUE" /\ c \in re_peers /\ cs_bucket[c] = NULL
        /\ UNCHANGED <<re_peers, acked>>
    BY DEF reader_handle_dequeue, Serving
  <1>3. lent[c] = {}
    BY <1>2 DEF IInv, Owners
  <1> DEFINE b == rec_bucket_get(e)
             l == bkt[b].lrb_records
             a == Enqueue(bkt[b])
  <1>4. a.op = "ENQUEUE" /\ a.ret = "ok" /\ a.recs = l
    BY DEF Enqueue
  <1>5. \E m : /\ req' = [req EXCEPT ![c] = "none"]
               /\ rep' = [rep EXCEPT ![c] = m]
               /\ \/ m = a
                  \/ m \in {rep[c], Ack("error")} /\ Faults \cap {"oom", "send"} # {}
    <2>1. CASE ReplyMsg(c, a)
      BY <2>1, AnswerSeen DEF IInv
    <2>2. CASE "oom" \in Faults /\ ReplyError(c, "error")
      BY <2>2, ErrorSeen DEF IInv
    <2> QED
      BY <1>1, <2>1, <2>2
  <1> QED
    BY <1>1, <1>2, <1>3, <1>4, <1>5 DEF Served, Lent

\* reader_handle_clear() acknowledges the batch, whatever comes of the bucket.
LEMMA ClearSeen ==
  ASSUME TypeOK, NEW c \in Clients,
         clear_waits(c) \/ clear_fails(c) \/ reader_handle_clear(c)
  PROVE  \E m, l : Served(c, m, l)
  <1>1. /\ req[c] = "CLEAR" /\ Acknowledge(c)
        /\ ReplyMsg(c, Ack("ok")) \/ ReplyError(c, "error")
    BY DEF clear_waits, clear_fails, reader_handle_clear, Serving
  <1>2. PICK m \in {rep[c], Ack("ok"), Ack("error")} :
          /\ req' = [req EXCEPT ![c] = "none"]
          /\ rep' = [rep EXCEPT ![c] = m]
    <2>1. CASE ReplyMsg(c, Ack("ok"))
      BY <2>1, AnswerSeen
    <2>2. CASE ReplyError(c, "error")
      BY <2>2, ErrorSeen
    <2> QED
      BY <1>1, <2>1, <2>2
  <1>3. /\ lent' = [lent EXCEPT ![c] = {}] /\ acked' = acked \cup lent[c]
        /\ re_peers' = re_peers
    BY <1>1 DEF Acknowledge
  <1> QED
    BY <1>1, <1>2, <1>3 DEF Served, Cleared, Acks

\* reader_handle_fini() forgets the client.
LEMMA FiniSeen ==
  ASSUME TypeOK, NEW c \in Clients, reader_handle_fini(c)
  PROVE  \E m, l : Served(c, m, l)
  <1>1. CASE c \notin re_peers
    BY <1>1, RefuseSeen DEF reader_handle_fini, Serving
  <1>2. CASE c \in re_peers
    <2>1. /\ req[c] = "FINI" /\ re_peers' = re_peers \ {c}
          /\ lent' = [lent EXCEPT ![c] = {}] /\ acked' = acked
          /\ ReplyMsg(c, Ack("ok"))
      BY <1>2 DEF reader_handle_fini, Serving
    <2>2. PICK m \in {rep[c], Ack("ok"), Ack("error")} :
            /\ req' = [req EXCEPT ![c] = "none"]
            /\ rep' = [rep EXCEPT ![c] = m]
      BY <2>1, AnswerSeen
    <2> QED
      BY <2>1, <2>2 DEF Served, Left, Acks
  <1> QED
    BY <1>1, <1>2

\* A step of the reader answers one request at most, or ends the thread.
LEMMA ReaderSeen ==
  ASSUME IInv, reader_main \/ Restart \/ lcap_sigterm \/ Produce \/ Tick
  PROVE  Unseen \/ Ended \/ \E c \in Clients : \E m, l : Served(c, m, l)
  <1> USE DEF rest, wire, peers
  <1>1. ASSUME Exit PROVE Ended
    BY <1>1 DEF Exit, Down, Ended
  <1>2. CASE Fill
    <2>1. CASE enqueue_start_fails \/ recv_store_fails \/ recv_error
      BY <1>1, <2>1 DEF enqueue_start_fails, recv_store_fails, recv_error
    <2>2. CASE \/ enqueue_full \/ enqueue_start \/ recv_skip \/ recv_store
               \/ recv_terminated \/ recv_eof
      BY <2>2
      DEF Unseen, enqueue_full, enqueue_start, recv_skip, recv_store,
          recv_terminated, recv_eof
    <2> QED
      BY <1>2, <2>1, <2>2 DEF Fill
  <1>3. ASSUME NEW c \in Clients, Handle(c)
        PROVE  Ended \/ \E m, l : Served(c, m, l)
    <2>1. CASE dequeue_freed(c) \/ dequeue_overrun(c)
      BY <1>1, <2>1 DEF dequeue_freed, dequeue_overrun
    <2>2. CASE clear_use_after_free(c) \/ clear_freed(c)
      BY <2>2 DEF clear_use_after_free, clear_freed, Down, Ended, Serving
    <2> QED
      BY <1>3, <2>1, <2>2, QuietHandlersSeen, DequeueSeen, ClearSeen, FiniSeen
      DEF Handle, IInv
  <1>4. CASE reader_init_fails \/ reader_main_ends \/ serve_interrupted
    BY <1>1, <1>4 DEF reader_init_fails, reader_main_ends, serve_interrupted
  <1>5. CASE \/ changelog_reader_init \/ serve_done \/ Restart \/ lcap_sigterm
             \/ Produce \/ Tick
    BY <1>5
    DEF Unseen, changelog_reader_init, serve_done, Restart, lcap_sigterm,
        Produce, Tick
  <1> QED
    BY <1>2, <1>3, <1>4, <1>5 DEF reader_main

-----------------------------------------------------------------------------
(***************************************************************************)
(* What a client knows survives the steps of the others.                   *)
(***************************************************************************)

\* Nothing of client c changes.
Same(c) ==
  /\ at'[c] = at[c] /\ turn'[c] = turn[c] /\ left'[c] = left[c]
  /\ cur'[c] = cur[c] /\ up'[c] = up[c]
  /\ req'[c] = req[c] /\ rep'[c] = rep[c] /\ lent'[c] = lent[c]
  /\ c \in re_peers' <=> c \in re_peers

\* The records that applications got and asked for only grow.
Grows ==
  /\ returned \subseteq returned' /\ returned' \subseteq Records
  /\ asked <= asked' /\ asked' \in 0 .. MaxRec

\* Then what was settled for c remains so.
LEMMA OthersKept ==
  ASSUME LcapTypeOK, NEW c \in Clients, ClientOK(c), Same(c), Grows
  PROVE  ClientOK(c)'
  <1> USE DEF Same
  <1>1. OneMessage(c)' /\ BatchUnderWay(c)' /\ BatchUsedUp(c)'
    BY DEF ClientOK, OneMessage, BatchUnderWay, BatchUsedUp
  <1>2. /\ \A r \in lent[c] : r \in Int
        /\ asked \in Int /\ asked' \in Int /\ asked <= asked'
    BY ReaderAssumption
    DEF ReaderAssumption, LcapTypeOK, TypeOK, Records, Grows
  <1>3. \A r \in lent[c] : r <= asked => r <= asked'
    BY <1>2
  <1>4. Settled(c) => Settled(c)'
    BY <1>3 DEF Settled, Grows
  <1>5. Settlement(c)'
    BY <1>3, <1>4 DEF ClientOK, Settlement, Refusable, Trusted, Grows
  <1> QED
    BY <1>1, <1>5 DEF ClientOK

\* So a step of one client that acknowledges nothing has to be looked at for
\* that client only.
LEMMA OneClientStep ==
  ASSUME LcapTypeOK, ClientInv, NEW c \in Clients,
         \A d \in Clients \ {c} : Same(d),
         Grows, acked' = acked, ClientOK(c)'
  PROVE  ClientInv'
  <1>1. \A d \in Clients : ClientOK(d)'
    BY OthersKept DEF ClientInv
  <1>2. asked \in Int /\ asked' \in Int /\ asked <= asked'
    BY ReaderAssumption DEF ReaderAssumption, LcapTypeOK, Grows
  <1>3. AckedAsked => AckedAsked'
    BY <1>2 DEF AckedAsked, LcapTypeOK, TypeOK, Records
  <1>4. Acknowledged'
    BY <1>3 DEF ClientInv, Acknowledged, Trusted, Grows
  <1> QED
    BY <1>1, <1>4 DEF ClientInv

-----------------------------------------------------------------------------
(***************************************************************************)
(* Steps of the reader.                                                    *)
(***************************************************************************)

\* The thread ends: nothing is lent any more.
LEMMA EndedInv ==
  ASSUME LInv, Ended, UNCHANGED client PROVE ClientInv'
  <1> USE DEF client, LInv
  <1>1. ASSUME NEW c \in Clients PROVE ClientOK(c)'
    <2>1. /\ req'[c] = "none" /\ rep'[c] = Idle /\ c \notin re_peers'
          /\ lent'[c] = {}
      BY DEF Ended
    <2>2. Idle.op # "ENQUEUE" /\ Idle.recs = {} /\ Idle.op # "ACK"
      BY DEF Idle
    <2>3. ClientOK(c)
      BY DEF ClientInv
    <2>4. OneMessage(c)' /\ BatchUnderWay(c)' /\ BatchUsedUp(c)'
      BY <2>1, <2>2, <2>3
      DEF ClientOK, OneMessage, BatchUnderWay, BatchUsedUp
    <2>5. Settlement(c)'
      BY <2>1 DEF Settlement, Settled
    <2> QED
      BY <2>4, <2>5 DEF ClientOK
  <1>2. \A c \in Clients : req[c] = "CLEAR" =>
          /\ Trusted(c) => lent[c] \subseteq returned
          /\ c \in Tools => \A r \in lent[c] : r <= asked
    BY DEF ClientInv, ClientOK, Settlement, Trusted
  <1>3. lent \in [Clients -> SUBSET Records] /\ Records \subseteq 1 .. MaxRec
    BY DEF LcapTypeOK, TypeOK, Records
  <1>4. Acknowledged'
    BY <1>2, <1>3 DEF Ended, ClientInv, Acknowledged, AckedAsked, Trusted, Records
  <1> QED
    BY <1>1, <1>4 DEF ClientInv

\* A request is handled: only its client and, for a CLEAR, what is acknowledged
\* have to be looked at.
LEMMA ServedInv ==
  ASSUME LInv, NEW c \in Clients, NEW m, NEW l, Served(c, m, l),
         UNCHANGED client
  PROVE  ClientInv'
  <1> USE DEF client, LInv
  <1>1. /\ req'[c] = "none" /\ rep'[c] = m /\ lent'[c] = l
        /\ \A d \in Clients \ {c} : Same(d)
    BY DEF Served, Same, LcapTypeOK, TypeOK
  <1>2. ClientOK(c) /\ req[c] # "none"
    BY DEF ClientInv, Served
  <1>3. /\ rep[c] = Pending /\ up[c] = "none"
        /\ at[c] = "done" \/ (at[c] \in Calls /\ at[c] = req[c])
    <2>1. at[c] \in {"out", "idle", "done"} \/ at[c] \in Calls
      BY DEF LcapTypeOK
    <2>2. OneMessage(c)
      BY <1>2 DEF ClientOK
    <2>3. up[c] = "none" /\ rep[c] = Pending
      BY <1>2, <2>2 DEF OneMessage
    <2>4. at[c] \notin {"out", "idle"}
      BY <1>2, <2>2 DEF OneMessage
    <2>5. at[c] \in Calls => at[c] = req[c]
      BY <1>2, <2>2 DEF OneMessage
    <2> QED
      BY <2>1, <2>3, <2>4, <2>5
  <1>4. \/ /\ m.op # "ENQUEUE"
           /\ m.recs = {}
        \/ /\ Lent(c, m, l)
           /\ m.op = "ENQUEUE"
           /\ m.ret = "ok"
           /\ m.recs = l
    BY <1>3 DEF Served, Refused, Lent, Cleared, Left, Acks, Ack, Pending
  <1>5. OneMessage(c)'
    BY <1>1, <1>3 DEF OneMessage, Calls
  <1>6. BatchUnderWay(c)'
    BY <1>1, <1>3, <1>4 DEF BatchUnderWay, Lent
  <1>7. BatchUsedUp(c)'
    <2>1. c \in re_peers' => left[c] \subseteq l
      <3>1. CASE Refused(c, m, l)
        BY <1>2, <1>3, <3>1 DEF Refused, ClientOK, BatchUsedUp
      <3>2. CASE Lent(c, m, l)
        BY <1>2, <3>2 DEF Lent, ClientOK, BatchUsedUp
      <3>3. CASE Cleared(c, m, l)
        BY <1>2, <1>3, <3>3 DEF Cleared, ClientOK, BatchUsedUp
      <3>4. CASE Left(c, m, l)
        BY <3>4 DEF Left
      <3> QED
        BY <3>1, <3>2, <3>3, <3>4 DEF Served
    <2> QED
      BY <1>1, <1>2, <2>1 DEF ClientOK, BatchUsedUp
  <1>8. Settlement(c)'
    <2> SUFFICES ASSUME Trusted(c) PROVE Settlement(c)'
      BY DEF Settlement, Trusted
    <2>1. /\ at[c] # "done" => Settled(c)
          /\ req[c] = "CLEAR" =>
               \A r \in lent[c] : r \in returned /\ (c \in Tools => r <= asked)
      BY <1>2, <1>3 DEF ClientOK, Settlement, Refusable
    <2>2. l \subseteq lent[c] \/ Lent(c, m, l)
      BY DEF Served, Refused, Cleared, Left
    <2>3. CASE l \subseteq lent[c]
      <3>1. Settled(c) => Settled(c)'
        BY <1>1, <2>3 DEF Settled
      <3>2. \A r \in l : r \in lent[c]
        BY <2>3
      <3> QED
        BY <1>1, <1>3, <2>1, <3>1, <3>2 DEF Settlement, Calls
    <2>4. CASE Lent(c, m, l)
      <3>1. at'[c] \in {"DEQUEUE", "done"}
        BY <1>3, <2>4 DEF Lent
      <3>2. ~Refusable(c)'
        BY <1>1, <1>3, <2>4 DEF Lent, Refusable, Trusted, Ack, Pending
      <3> QED
        BY <1>1, <1>3, <3>1, <3>2 DEF Settlement
    <2> QED
      BY <2>2, <2>3, <2>4
  <1>9. ClientOK(c)'
    BY <1>5, <1>6, <1>7, <1>8 DEF ClientOK
  <1>10. Grows
    BY ReaderAssumption DEF ReaderAssumption, Grows, LcapTypeOK
  <1>11. CASE acked' = acked
    BY <1>1, <1>9, <1>10, <1>11, OneClientStep
  <1>12. CASE req[c] = "CLEAR" /\ acked' = acked \cup lent[c]
    <2>1. \A d \in Clients : ClientOK(d)'
      BY <1>1, <1>9, <1>10, OthersKept DEF ClientInv
    <2>2. /\ Trusted(c) => lent[c] \subseteq returned
          /\ c \in Tools => \A r \in lent[c] : r <= asked
      BY <1>2, <1>12 DEF ClientOK, Settlement, Trusted
    <2>3. lent[c] \subseteq Records
      BY DEF LcapTypeOK, TypeOK
    <2>4. Acknowledged'
      BY <1>12, <2>2, <2>3
      DEF ClientInv, Acknowledged, AckedAsked, Trusted, Records
    <2> QED
      BY <2>1, <2>4 DEF ClientInv
  <1> QED
    BY <1>11, <1>12 DEF Served, Refused, Lent, Cleared, Left

-----------------------------------------------------------------------------
(***************************************************************************)
(* Steps of a client and of the broker.                                    *)
(***************************************************************************)

\* The types of what clients keep.
ClientTypes ==
  /\ at \in [Clients -> {"out", "idle", "done"} \cup Calls]
  /\ turn \in [Clients -> {"recv", "clear", "fini"}]
  /\ left \in [Clients -> SUBSET Records]
  /\ cur \in [Clients -> 0 .. MaxRec]
  /\ up \in [Clients -> Calls \cup {"none"}]
  /\ returned \subseteq Records
  /\ asked \in 0 .. MaxRec

\* What has to be shown of a step that concerns client c only.
StepOf(c) ==
  /\ ClientTypes'
  /\ \A d \in Clients \ {c} : Same(d)
  /\ Grows
  /\ acked' = acked
  /\ ClientOK(c)'

\* It preserves the invariant, when the reader's own part is preserved.
LEMMA StepOfInv ==
  ASSUME LInv, IInv', NEW c \in Clients, StepOf(c) PROVE LInv'
  <1>1. ClientInv'
    BY OneClientStep DEF LInv, StepOf
  <1>2. LcapTypeOK'
    BY DEF LcapTypeOK, StepOf, ClientTypes, IInv
  <1> QED
    BY <1>1, <1>2 DEF LInv

\* An assignment to the variable of one client.
LEMMA UpdFacts ==
  ASSUME NEW S, NEW f \in [Clients -> S], NEW c \in Clients, NEW v
  PROVE  /\ Upd(f, c, v)[c] = v
         /\ \A d \in Clients \ {c} : Upd(f, c, v)[d] = f[d]
         /\ v \in S => Upd(f, c, v) \in [Clients -> S]
  BY DEF Upd

\* A client between two calls has no message under way.
LEMMA Silent ==
  ASSUME LInv, NEW c \in Clients, at[c] \in {"out", "idle"}
  PROVE  /\ ClientOK(c) /\ ClientTypes
         /\ up[c] = "none" /\ req[c] = "none" /\ rep[c] = Idle
         /\ rep[c].op = "IDLE" /\ rep[c].recs = {}
         /\ Trusted(c) => Settled(c)
  <1>1. ClientOK(c) /\ ClientTypes
    BY DEF LInv, ClientInv, LcapTypeOK, ClientTypes
  <1>2. up[c] = "none" /\ req[c] = "none" /\ rep[c] = Idle
    BY <1>1 DEF ClientOK, OneMessage
  <1>3. Trusted(c) => Settled(c)
    BY <1>1 DEF ClientOK, Settlement
  <1> QED
    BY <1>1, <1>2, <1>3 DEF Idle

\* px_rpc_send() for START, DEQUEUE and FINI, with or without a client left to
\* read the answer: the batch is used up, unless it is a FINI.
LEMMA SendStep ==
  ASSUME LInv, NEW c \in Clients, at[c] \in {"out", "idle"},
         NEW op \in Calls \ {"CLEAR"},
         (op = "FINI" /\ c \notin Tools) \/ left[c] = {},
         NEW a \in {op, "done"}, a = "done" => left[c] = {},
         up' = Upd(up, c, op), at' = Upd(at, c, a),
         UNCHANGED <<vars, turn, left, cur, returned, asked>>
  PROVE  StepOf(c)
  <1>1. /\ ClientOK(c) /\ ClientTypes
        /\ up[c] = "none" /\ req[c] = "none" /\ rep[c] = Idle
        /\ rep[c].op = "IDLE" /\ rep[c].recs = {}
        /\ Trusted(c) => Settled(c)
    BY Silent
  <1>2. UNCHANGED <<req, rep, lent, re_peers, acked>>
    BY DEF vars, peers, wire
  <1>3. /\ at'[c] = a /\ up'[c] = op
        /\ \A d \in Clients \ {c} : at'[d] = at[d] /\ up'[d] = up[d]
    BY <1>1 DEF ClientTypes, Upd
  <1>4. ClientTypes'
    BY <1>1, UpdFacts DEF ClientTypes
  <1>5. (\A d \in Clients \ {c} : Same(d)) /\ Grows
    BY <1>1, <1>2, <1>3, ReaderAssumption
    DEF Same, Grows, ClientTypes, ReaderAssumption
  <1>6. OneMessage(c)' /\ BatchUnderWay(c)'
    BY <1>1, <1>2, <1>3 DEF OneMessage, BatchUnderWay, Calls
  <1>7. BatchUsedUp(c)'
    BY <1>1, <1>2, <1>3 DEF ClientOK, BatchUsedUp
  <1>8. Settlement(c)'
    BY <1>1, <1>2, <1>3 DEF Settlement, Settled, Trusted
  <1> QED
    BY <1>2, <1>4, <1>5, <1>6, <1>7, <1>8 DEF StepOf, ClientOK

\* An error is returned before anything is sent, or the client starts or ends
\* without a word.
LEMMA SilentStep ==
  ASSUME LInv, NEW c \in Clients, at[c] \in {"out", "idle"},
         NEW a \in {"idle", "done"}, a = "done" => left[c] = {},
         at' = Upd(at, c, a),
         UNCHANGED <<vars, turn, left, cur, up, returned>>,
         asked' \in 0 .. MaxRec, asked <= asked'
  PROVE  StepOf(c)
  <1>1. /\ ClientOK(c) /\ ClientTypes
        /\ up[c] = "none" /\ req[c] = "none" /\ rep[c] = Idle
        /\ rep[c].op = "IDLE" /\ rep[c].recs = {}
        /\ Trusted(c) => Settled(c)
    BY Silent
  <1>2. UNCHANGED <<req, rep, lent, re_peers, acked>>
    BY DEF vars, peers, wire
  <1>3. at'[c] = a /\ \A d \in Clients \ {c} : at'[d] = at[d]
    BY <1>1 DEF ClientTypes, Upd
  <1>4. ClientTypes'
    BY <1>1, UpdFacts DEF ClientTypes
  <1>5. (\A d \in Clients \ {c} : Same(d)) /\ Grows
    BY <1>1, <1>2, <1>3 DEF Same, Grows, ClientTypes
  <1>6. OneMessage(c)' /\ BatchUnderWay(c)'
    BY <1>1, <1>2, <1>3 DEF OneMessage, BatchUnderWay, Calls
  <1>7. BatchUsedUp(c)'
    BY <1>1, <1>2, <1>3 DEF ClientOK, BatchUsedUp
  <1>8. Settled(c) => Settled(c)'
    <2>1. \A r \in lent[c] : r \in Int
      BY DEF LInv, LcapTypeOK, TypeOK, Records
    <2>2. asked \in Int /\ asked' \in Int
      BY <1>1 DEF ClientTypes
    <2>3. \A r \in lent[c] : r <= asked => r <= asked'
      BY <2>1, <2>2
    <2> QED
      BY <1>2, <2>3 DEF Settled
  <1>9. Settlement(c)'
    BY <1>1, <1>2, <1>3, <1>8 DEF Settlement, Trusted
  <1> QED
    BY <1>2, <1>4, <1>5, <1>6, <1>7, <1>9 DEF StepOf, ClientOK

\* px_changelog_clear(): the tool asks for all that was returned to it.
LEMMA ClearStep ==
  ASSUME LInv, NEW c \in Clients, NEW endrec \in Records,
         px_changelog_clear(c, endrec)
  PROVE  StepOf(c)
  <1>1. /\ at[c] = "idle"
        /\ c \in Tools => endrec = cur[c]
        /\ asked' = Max({asked, endrec})
    BY DEF px_changelog_clear, InTurn
  <1>2. /\ ClientOK(c) /\ ClientTypes
        /\ up[c] = "none" /\ req[c] = "none" /\ rep[c] = Idle
        /\ rep[c].op = "IDLE" /\ rep[c].recs = {}
        /\ Trusted(c) => Settled(c)
    BY <1>1, Silent
  <1>3. /\ asked' \in 0 .. MaxRec /\ asked <= asked' /\ endrec <= asked'
        /\ asked \in Int /\ asked' \in Int /\ endrec \in Int
    <2>1. asked \in Nat /\ endrec \in Nat /\ asked <= MaxRec /\ endrec <= MaxRec
      BY <1>2, ReaderAssumption DEF ReaderAssumption, ClientTypes, Records
    <2>2. asked' \in {asked, endrec} /\ asked' >= asked /\ asked' >= endrec
      BY <1>1, <2>1, MaxOfTwo
    <2> QED
      BY <2>1, <2>2
  <1>4. \A r \in lent[c] : r \in Int /\ (r <= asked => r <= asked')
    <2>1. \A r \in lent[c] : r \in Int
      BY DEF LInv, LcapTypeOK, TypeOK, Records
    <2> QED
      BY <1>3, <2>1
  <1>5. CASE /\ left[c] # {}
             /\ turn' = Upd(turn, c, "recv")
             /\ UNCHANGED <<vars, at, left, cur, up, returned>>
    <2>1. UNCHANGED <<req, rep, lent, re_peers, acked>>
      BY <1>5 DEF vars, peers, wire
    <2>2. turn'[c] = "recv" /\ \A d \in Clients \ {c} : turn'[d] = turn[d]
      BY <1>2, <1>5 DEF ClientTypes, Upd
    <2>3. ClientTypes'
      BY <1>2, <1>3, <1>5, UpdFacts DEF ClientTypes
    <2>4. (\A d \in Clients \ {c} : Same(d)) /\ Grows
      BY <1>2, <1>3, <1>5, <2>1, <2>2 DEF Same, Grows, ClientTypes
    <2>5. OneMessage(c)' /\ BatchUnderWay(c)' /\ BatchUsedUp(c)'
      BY <1>2, <1>5, <2>1, <2>2
      DEF ClientOK, OneMessage, BatchUnderWay, BatchUsedUp
    <2>6. Settlement(c)'
      BY <1>1, <1>2, <1>4, <1>5, <2>1 DEF Settlement, Settled, Trusted
    <2> QED
      BY <2>1, <2>3, <2>4, <2>5, <2>6 DEF StepOf, ClientOK
  <1>6. CASE /\ left[c] = {}
             /\ px_rpc_send(c, "CLEAR")
             /\ UNCHANGED <<vars, turn, left, cur, returned>>
    <2>1. UNCHANGED <<req, rep, lent, re_peers, acked>>
      BY <1>6 DEF vars, peers, wire
    <2>2. /\ at'[c] = "CLEAR" /\ up'[c] = "CLEAR"
          /\ \A d \in Clients \ {c} : at'[d] = at[d] /\ up'[d] = up[d]
      BY <1>2, <1>6 DEF px_rpc_send, ClientTypes, Upd
    <2>3. ClientTypes'
      BY <1>2, <1>3, <1>6, UpdFacts DEF px_rpc_send, ClientTypes, Calls
    <2>4. (\A d \in Clients \ {c} : Same(d)) /\ Grows
      BY <1>2, <1>3, <1>6, <2>1, <2>2 DEF Same, Grows, ClientTypes
    <2>5. OneMessage(c)' /\ BatchUnderWay(c)' /\ BatchUsedUp(c)'
      BY <1>2, <1>6, <2>1, <2>2
      DEF ClientOK, OneMessage, BatchUnderWay, BatchUsedUp
    <2>6. c \in Tools /\ Trusted(c) => \A r \in lent[c] : r <= asked'
      <3>1. cur[c] \in Int
        BY <1>2 DEF ClientTypes
      <3> QED
        BY <1>1, <1>2, <1>3, <1>4, <1>6, <3>1 DEF Settled
    <2>7. Settlement(c)'
      BY <1>2, <1>4, <1>6, <2>1, <2>2, <2>6 DEF Settlement, Settled, Trusted
    <2> QED
      BY <2>1, <2>3, <2>4, <2>5, <2>7 DEF StepOf, ClientOK
  <1>7. CASE left[c] = {} /\ CallFails(c)
    BY <1>1, <1>3, <1>7, SilentStep DEF CallFails, Failed
  <1> QED
    BY <1>5, <1>6, <1>7 DEF px_changelog_clear

\* A record is returned, from the batch that came or from what is left of it:
\* the first, so that what was returned before is not after it.
LEMMA ReturnStep ==
  ASSUME LInv, NEW c \in Clients, NEW B \in SUBSET Records, B # {},
         Return(c, B), at'[c] = "idle",
         at' \in [Clients -> {"out", "idle", "done"} \cup Calls],
         rep'[c] = Idle, req[c] = "none", up[c] = "none",
         \A d \in Clients \ {c} : at'[d] = at[d] /\ rep'[d] = rep[d],
         UNCHANGED <<req, lent, re_peers, acked, up, asked>>,
         c \in re_peers => B \subseteq lent[c],
         Trusted(c) =>
           \A r \in lent[c] \ B :
             r \in returned /\ (r <= asked \/ \E q \in 0 .. MaxRec :
                                  r <= q /\ \A b \in B : q < b)
  PROVE  StepOf(c)
  <1> DEFINE m == Min(B)
  <1>1. m \in B /\ m \in Records /\ \A b \in B : m <= b
    BY MinOfBatch
  <1>2. ClientTypes
    BY DEF LInv, LcapTypeOK, ClientTypes
  <1>3. /\ left'[c] = B \ {m} /\ cur'[c] = m /\ turn'[c] = "clear"
        /\ returned' = returned \cup {m}
        /\ \A d \in Clients \ {c} :
             left'[d] = left[d] /\ cur'[d] = cur[d] /\ turn'[d] = turn[d]
    BY <1>2 DEF Return, ClientTypes, Upd
  <1>4. ClientTypes'
    <2>1. (B \ {m}) \in SUBSET Records /\ m \in 0 .. MaxRec
      <3>1. m \in 0 .. MaxRec
        BY <1>1, ReaderAssumption DEF ReaderAssumption, Records
      <3> HIDE DEF m
      <3>2. (B \ {m}) \in SUBSET Records
        OBVIOUS
      <3> QED
        BY <3>1, <3>2
    <2>2. /\ left' = Upd(left, c, B \ {m}) /\ cur' = Upd(cur, c, m)
          /\ turn' = Upd(turn, c, "clear")
      BY DEF Return
    <2> HIDE DEF m
    <2>3. /\ left' \in [Clients -> SUBSET Records]
          /\ cur' \in [Clients -> 0 .. MaxRec]
          /\ turn' \in [Clients -> {"recv", "clear", "fini"}]
      BY <1>2, <2>1, <2>2 DEF ClientTypes, Upd
    <2> QED
      BY <1>1, <1>2, <1>3, <2>3 DEF ClientTypes
  <1>5. (\A d \in Clients \ {c} : Same(d)) /\ Grows
    BY <1>1, <1>2, <1>3, ReaderAssumption
    DEF Same, Grows, ClientTypes, ReaderAssumption
  <1>6. OneMessage(c)' /\ BatchUnderWay(c)'
    BY DEF OneMessage, BatchUnderWay, Idle, Calls
  <1>7. BatchUsedUp(c)'
    <2>1. \A r \in B \ {m} : m < r
      BY <1>1 DEF Records
    <2> HIDE DEF m
    <2> QED
      BY <1>3, <2>1 DEF BatchUsedUp
  <1>8. Settlement(c)'
    <2> SUFFICES ASSUME Trusted(c) PROVE Settlement(c)'
      BY DEF Settlement, Trusted
    <2>1. ASSUME NEW r \in lent[c], r \notin B \/ r = m
          PROVE  r \in returned' /\ (r <= asked' \/ r <= cur'[c])
      <3>1. r \in Int /\ m \in Int
        BY <1>1 DEF LInv, LcapTypeOK, TypeOK, Records
      <3>2. CASE r = m
        BY <1>3, <3>1, <3>2
      <3>3. CASE r \notin B
        <4>1. r \in returned
          BY <3>3
        <4>2. CASE r <= asked
          BY <1>3, <4>1, <4>2
        <4>3. CASE \E q \in 0 .. MaxRec : r <= q /\ \A b \in B : q < b
          BY <1>1, <1>3, <3>1, <4>1, <4>3
        <4> QED
          BY <3>3, <4>2, <4>3
      <3> QED
        BY <2>1, <3>2, <3>3
    <2> HIDE DEF m
    <2>2. Settled(c)'
      BY <1>3, <2>1 DEF Settled
    <2> QED
      BY <2>2 DEF Settlement
  <1> QED
    BY <1>4, <1>5, <1>6, <1>7, <1>8 DEF StepOf, ClientOK

\* A client that gets an answer has no other message under way.
LEMMA Answer ==
  ASSUME LInv, NEW c \in Clients, NEW call \in Calls, TakeAnswer(c, call)
  PROVE  /\ ClientOK(c) /\ ClientTypes
         /\ at[c] = call /\ rep[c].op \in {"ACK", "ENQUEUE"}
         /\ up[c] = "none" /\ req[c] = "none" /\ rep'[c] = Idle
         /\ \A d \in Clients \ {c} : rep'[d] = rep[d]
         /\ UNCHANGED <<req, lent, re_peers, acked, up, asked>>
         /\ call # "FINI" => left[c] = {}
  <1>1. ClientOK(c) /\ ClientTypes
    BY DEF LInv, ClientInv, LcapTypeOK, ClientTypes
  <1>2. /\ at[c] = call /\ rep[c].op \in {"ACK", "ENQUEUE"}
        /\ UNCHANGED <<req, lent, re_peers, acked, up, asked>>
    BY DEF TakeAnswer, peers
  <1>3. rep[c] # Idle /\ rep[c] # Pending
    BY <1>2 DEF Idle, Pending
  <1>4. up[c] = "none" /\ req[c] = "none"
    BY <1>1, <1>3 DEF ClientOK, OneMessage
  <1>5. rep'[c] = Idle /\ \A d \in Clients \ {c} : rep'[d] = rep[d]
    BY DEF TakeAnswer, Upd, LInv, LcapTypeOK, TypeOK
  <1>6. call # "FINI" => left[c] = {}
    BY <1>1, <1>2 DEF ClientOK, BatchUsedUp, Calls
  <1> QED
    BY <1>1, <1>2, <1>4, <1>5, <1>6

\* A call returns, with no record.
LEMMA AnswerStep ==
  ASSUME LInv, NEW c \in Clients, NEW call \in Calls, TakeAnswer(c, call),
         NEW a \in {"idle", "done"}, at' = Upd(at, c, a),
         turn' = turn \/ (/\ call # "FINI"
                         /\ \E t \in {"recv", "fini"} : turn' = Upd(turn, c, t)),
         left' = left \/ (a = "done" /\ left' = Upd(left, c, {})),
         a = "done" => left'[c] = {},
         a = "idle" /\ Trusted(c) => Settled(c),
         UNCHANGED <<cur, returned>>
  PROVE  StepOf(c)
  <1>1. /\ ClientOK(c) /\ ClientTypes
        /\ up[c] = "none" /\ req[c] = "none" /\ rep'[c] = Idle
        /\ \A d \in Clients \ {c} : rep'[d] = rep[d]
        /\ UNCHANGED <<req, lent, re_peers, acked, up, asked>>
        /\ call # "FINI" => left[c] = {}
    BY Answer
  <1>2. at'[c] = a /\ \A d \in Clients \ {c} : at'[d] = at[d]
    BY <1>1 DEF ClientTypes, Upd
  <1>3. /\ \A d \in Clients \ {c} : left'[d] = left[d] /\ turn'[d] = turn[d]
        /\ left'[c] = left[c] \/ (a = "done" /\ left'[c] = {})
        /\ turn'[c] = turn[c] \/ call # "FINI"
    BY <1>1 DEF ClientTypes, Upd
  <1>4. ClientTypes'
    <2>1. /\ turn' \in [Clients -> {"recv", "clear", "fini"}]
          /\ left' \in [Clients -> SUBSET Records]
          /\ at' \in [Clients -> {"out", "idle", "done"} \cup Calls]
      BY <1>1 DEF ClientTypes, Upd
    <2> QED
      BY <1>1, <2>1 DEF ClientTypes
  <1>5. (\A d \in Clients \ {c} : Same(d)) /\ Grows
    BY <1>1, <1>2, <1>3, ReaderAssumption
    DEF Same, Grows, ClientTypes, ReaderAssumption
  <1>6. OneMessage(c)' /\ BatchUnderWay(c)'
    BY <1>1, <1>2 DEF OneMessage, BatchUnderWay, Idle, Calls
  <1>7. BatchUsedUp(c)'
    BY <1>1, <1>2, <1>3 DEF ClientOK, BatchUsedUp
  <1>8. Settlement(c)'
    <2>1. a = "idle" /\ Settled(c) => Settled(c)'
      BY <1>1, <1>3 DEF Settled
    <2> QED
      BY <1>1, <1>2, <2>1 DEF Settlement, Trusted
  <1> QED
    BY <1>1, <1>4, <1>5, <1>6, <1>7, <1>8 DEF StepOf, ClientOK

\* Each way a call returns.
LEMMA ReturnsStep ==
  ASSUME LInv, NEW c \in Clients, ClientReturn(c) PROVE StepOf(c)
  <1> DEFINE failed == IF c \in Tools THEN "done" ELSE "idle"
  <1>1. CASE start_returns(c)
    <2> DEFINE a == IF rep[c].ret = "ok" THEN "idle" ELSE "done"
    <2>1. TakeAnswer(c, "START") /\ at' = Upd(at, c, a)
          /\ UNCHANGED <<turn, left, cur, returned>>
      BY <1>1 DEF start_returns
    <2>2. left[c] = {} /\ at[c] = "START" /\ ClientOK(c)
      BY <2>1, Answer DEF Calls
    <2>3. Trusted(c) => Settled(c)
      BY <2>2 DEF ClientOK, Settlement
    <2>4. a \in {"idle", "done"} /\ "START" \in Calls
      BY DEF Calls
    <2> HIDE DEF a
    <2> QED
      BY <2>1, <2>2, <2>3, <2>4, AnswerStep
  <1>2. CASE recv_returns(c)
    <2> DEFINE B == rep[c].recs
    <2>1. /\ TakeAnswer(c, "DEQUEUE") /\ B # {} /\ Return(c, B)
          /\ at' = Upd(at, c, "idle")
      BY <1>2 DEF recv_returns
    <2>2. /\ ClientOK(c) /\ ClientTypes
          /\ up[c] = "none" /\ req[c] = "none" /\ rep'[c] = Idle
          /\ \A d \in Clients \ {c} : rep'[d] = rep[d]
          /\ UNCHANGED <<req, lent, re_peers, acked, up, asked>>
      BY <2>1, Answer DEF Calls
    <2>3. B = lent[c]
      BY <2>1, <2>2 DEF ClientOK, BatchUnderWay
    <2>4. B \in SUBSET Records
      BY <2>3 DEF LInv, LcapTypeOK, TypeOK
    <2>5. /\ at'[c] = "idle" /\ \A d \in Clients \ {c} : at'[d] = at[d]
          /\ at' \in [Clients -> {"out", "idle", "done"} \cup Calls]
      BY <2>1, <2>2 DEF ClientTypes, Upd
    <2> HIDE DEF B
    <2> QED
      BY <2>1, <2>2, <2>3, <2>4, <2>5, ReturnStep
  <1>3. CASE recv_error_returns(c)
    <2>1. /\ TakeAnswer(c, "DEQUEUE") /\ at' = Upd(at, c, failed)
          /\ UNCHANGED <<turn, left, cur, returned>>
          /\ \/ rep[c].ret = "error"
             \/ rep[c].op = "ENQUEUE" /\ (rep[c].recs = {} \/ "oom" \in Faults)
      BY <1>3 DEF recv_error_returns, Failed
    <2>2. /\ left[c] = {} /\ at[c] = "DEQUEUE" /\ ClientOK(c)
          /\ rep[c].op \in {"ACK", "ENQUEUE"}
      BY <2>1, Answer DEF Calls
    <2>3. c \notin Tools /\ Trusted(c) => Settled(c)
      <3> SUFFICES ASSUME c \notin Tools, Trusted(c) PROVE Settled(c)
        OBVIOUS
      <3>1. "oom" \notin Faults
        BY DEF Trusted
      <3>2. CASE rep[c].op = "ACK"
        BY <2>2, <3>2 DEF ClientOK, Settlement, Refusable
      <3>3. CASE rep[c].op = "ENQUEUE"
        <4>1. rep[c].ret = "ok" /\ rep[c].recs = lent[c]
          BY <2>2, <3>3 DEF ClientOK, BatchUnderWay
        <4>2. lent[c] = {}
          BY <2>1, <3>1, <3>3, <4>1
        <4> QED
          BY <4>2 DEF Settled
      <3> QED
        BY <2>2, <3>2, <3>3
    <2>4. failed \in {"idle", "done"} /\ "DEQUEUE" \in Calls
      BY DEF Calls
    <2>5. failed = "idle" => c \notin Tools
      OBVIOUS
    <2> HIDE DEF failed
    <2> QED
      BY <2>1, <2>2, <2>3, <2>4, <2>5, AnswerStep
  <1>4. CASE recv_eof_returns(c)
    <2>1. /\ TakeAnswer(c, "DEQUEUE") /\ at' = Upd(at, c, "idle")
          /\ turn' = Upd(turn, c, "fini") /\ rep[c].ret = "eof"
          /\ UNCHANGED <<left, cur, returned>>
      BY <1>4 DEF recv_eof_returns
    <2>2. /\ left[c] = {} /\ at[c] = "DEQUEUE" /\ ClientOK(c)
          /\ rep[c].op \in {"ACK", "ENQUEUE"}
      BY <2>1, Answer DEF Calls
    <2>3. rep[c].op = "ACK"
      BY <2>1, <2>2 DEF ClientOK, BatchUnderWay
    <2>4. Trusted(c) => Settled(c)
      BY <2>1, <2>2, <2>3 DEF ClientOK, Settlement, Refusable
    <2> QED
      BY <2>1, <2>2, <2>4, AnswerStep DEF Calls
  <1>5. CASE clear_returns(c)
    <2>1. PICK a \in {"idle", "done"} :
            /\ TakeAnswer(c, "CLEAR") /\ at' = Upd(at, c, a)
            /\ turn' = Upd(turn, c, "recv")
            /\ UNCHANGED <<left, cur, returned>>
      BY <1>5 DEF clear_returns, Failed
    <2>2. left[c] = {} /\ at[c] = "CLEAR" /\ ClientOK(c)
      BY <2>1, Answer DEF Calls
    <2>3. Trusted(c) => Settled(c)
      BY <2>2 DEF ClientOK, Settlement
    <2> QED
      BY <2>1, <2>2, <2>3, AnswerStep DEF Calls
  <1>6. CASE fini_returns(c)
    <2>1. /\ TakeAnswer(c, "FINI")
          /\ UNCHANGED <<turn, cur, returned>>
          /\ \/ at' = Upd(at, c, "done") /\ left' = Upd(left, c, {})
             \/ at' = Upd(at, c, failed) /\ left' = left
      BY <1>6 DEF fini_returns, Failed
    <2>2. at[c] = "FINI" /\ ClientOK(c) /\ ClientTypes
      BY <2>1, Answer DEF Calls
    <2>3. Trusted(c) => Settled(c)
      BY <2>2 DEF ClientOK, Settlement
    <2>4. c \in Tools => left[c] = {}
      BY <2>2 DEF ClientOK, BatchUsedUp
    <2>5. CASE at' = Upd(at, c, "done") /\ left' = Upd(left, c, {})
      <3>1. left'[c] = {}
        BY <2>2, <2>5 DEF ClientTypes, Upd
      <3> QED
        BY <2>1, <2>3, <2>5, <3>1, AnswerStep DEF Calls
    <2>6. CASE at' = Upd(at, c, failed) /\ left' = left
      <3>1. failed \in {"idle", "done"} /\ (failed = "done" => left'[c] = {})
        BY <2>4, <2>6
      <3> HIDE DEF failed
      <3> QED
        BY <2>1, <2>3, <2>6, <3>1, AnswerStep DEF Calls
    <2> QED
      BY <2>1, <2>5, <2>6
  <1> QED
    BY <1>1, <1>2, <1>3, <1>4, <1>5, <1>6 DEF ClientReturn

\* Each call of a client that goes through lcapd.
LEMMA CallsStep ==
  ASSUME LInv, NEW c \in Clients, ProxyCall(c) \/ start_fails(c)
  PROVE  StepOf(c)
  <1>a. ClientOK(c) /\ ClientTypes
    BY DEF LInv, ClientInv, LcapTypeOK, ClientTypes
  <1>b. asked \in 0 .. MaxRec /\ asked <= asked
    BY <1>a DEF ClientTypes
  <1>1. CASE px_changelog_start(c)
    <2>1. at[c] = "out" /\ left[c] = {}
      BY <1>1, <1>a DEF px_changelog_start, ClientOK, BatchUsedUp
    <2> QED
      BY <1>1, <2>1, SendStep DEF px_changelog_start, px_rpc_send, Calls
  <1>2. CASE recv_cached(c)
    <2>1. /\ at[c] = "idle" /\ left[c] # {} /\ Return(c, left[c])
          /\ UNCHANGED <<vars, at, up, asked>>
      BY <1>2 DEF recv_cached, InTurn
    <2>2. /\ up[c] = "none" /\ req[c] = "none" /\ rep[c] = Idle
          /\ Trusted(c) => Settled(c)
      BY <2>1, Silent
    <2>3. UNCHANGED <<req, rep, lent, re_peers, acked>>
      BY <2>1 DEF vars, peers, wire
    <2>4. /\ c \in re_peers => left[c] \subseteq lent[c]
          /\ \A b \in left[c] : cur[c] < b
      BY <1>a DEF ClientOK, BatchUsedUp
    <2>5. cur[c] \in 0 .. MaxRec /\ left[c] \in SUBSET Records
      BY <1>a DEF ClientTypes
    <2>6. Trusted(c) =>
            \A r \in lent[c] \ left[c] :
              r \in returned /\ (r <= asked \/ \E q \in 0 .. MaxRec :
                                   r <= q /\ \A b \in left[c] : q < b)
      BY <2>2, <2>4, <2>5 DEF Settled
    <2>7. at' \in [Clients -> {"out", "idle", "done"} \cup Calls]
      BY <1>a, <2>1 DEF ClientTypes
    <2> QED
      BY <2>1, <2>2, <2>3, <2>4, <2>5, <2>6, <2>7, ReturnStep
  <1>3. CASE px_dequeue_records(c)
    <2>1. at[c] = "idle" /\ left[c] = {} /\ asked' = asked
      BY <1>3 DEF px_dequeue_records, InTurn
    <2>2. CASE /\ px_rpc_send(c, "DEQUEUE")
               /\ UNCHANGED <<vars, turn, left, cur, returned>>
      BY <2>1, <2>2, SendStep DEF px_rpc_send, Calls
    <2>3. CASE CallFails(c)
      BY <1>b, <2>1, <2>3, SilentStep DEF CallFails, Failed
    <2> QED
      BY <1>3, <2>2, <2>3 DEF px_dequeue_records
  <1>4. CASE dequeue_no_buffer(c)
    BY <1>4, SendStep DEF dequeue_no_buffer, InTurn, Calls
  <1>5. ASSUME NEW endrec \in Records, px_changelog_clear(c, endrec)
        PROVE  StepOf(c)
    BY <1>5, ClearStep
  <1>6. CASE px_changelog_fini(c)
    <2>1. at[c] = "idle" /\ asked' = asked /\ (c \in Tools => turn[c] = "fini")
      BY <1>6 DEF px_changelog_fini, InTurn
    <2>2. c \in Tools => left[c] = {}
      BY <1>a, <2>1 DEF ClientOK, BatchUsedUp
    <2>3. CASE /\ px_rpc_send(c, "FINI")
               /\ UNCHANGED <<vars, turn, left, cur, returned>>
      BY <2>1, <2>2, <2>3, SendStep DEF px_rpc_send, Calls
    <2>4. CASE CallFails(c)
      BY <1>b, <2>1, <2>2, <2>4, SilentStep DEF CallFails, Failed
    <2> QED
      BY <1>6, <2>3, <2>4 DEF px_changelog_fini
  <1>7. CASE start_fails(c)
    <2>1. at[c] = "out" /\ left[c] = {}
      BY <1>7, <1>a DEF start_fails, ClientOK, BatchUsedUp
    <2> QED
      BY <1>7, <1>b, <2>1, SilentStep DEF start_fails
  <1> QED
    BY <1>1, <1>2, <1>3, <1>4, <1>5, <1>6, <1>7 DEF ProxyCall

\* Nothing changes but the answer to a client, or where a client is: the
\* invariant of the reader is preserved.
LEMMA AnswerInv ==
  ASSUME IInv, UNCHANGED <<lustre, thread, cache, peers, req, acked>>,
         rep' \in [Clients -> Reply]
  PROVE  IInv'
  <1> USE DEF lustre, thread, cache, peers
  <1>1. TypeOK' /\ Stream'
    BY DEF IInv, TypeOK, Stream, NextRecord
  <1> QED
    BY <1>1, QuietInv DEF IInv, DownEmpty

\* The client is killed: what it sent stays on its way.
LEMMA DiesStep ==
  ASSUME LInv, NEW c \in Clients, client_dies(c) PROVE StepOf(c)
  <1>1. ClientOK(c) /\ ClientTypes
    BY DEF LInv, ClientInv, LcapTypeOK, ClientTypes
  <1>2. /\ at' = Upd(at, c, "done") /\ left' = Upd(left, c, {})
        /\ UNCHANGED <<req, rep, lent, re_peers, acked, turn, cur, up, returned,
                       asked>>
    BY DEF client_dies, vars, peers, wire
  <1>3. /\ at'[c] = "done" /\ left'[c] = {}
        /\ \A d \in Clients \ {c} : at'[d] = at[d] /\ left'[d] = left[d]
        /\ at' \in [Clients -> {"out", "idle", "done"} \cup Calls]
        /\ left' \in [Clients -> SUBSET Records]
    BY <1>1, <1>2 DEF ClientTypes, Upd
  <1>4. ClientTypes'
    BY <1>1, <1>2, <1>3 DEF ClientTypes
  <1>5. (\A d \in Clients \ {c} : Same(d)) /\ Grows
    BY <1>1, <1>2, <1>3, ReaderAssumption
    DEF Same, Grows, ClientTypes, ReaderAssumption
  <1>6. OneMessage(c)' /\ BatchUnderWay(c)' /\ BatchUsedUp(c)'
    BY <1>1, <1>2, <1>3
    DEF ClientOK, OneMessage, BatchUnderWay, BatchUsedUp, Calls
  <1>7. Settlement(c)'
    BY <1>1, <1>2, <1>3 DEF ClientOK, Settlement, Trusted
  <1> QED
    BY <1>2, <1>4, <1>5, <1>6, <1>7 DEF StepOf, ClientOK

\* The broker moves the message of a client on, refuses it or loses it.
LEMMA BrokerStep ==
  ASSUME LInv, NEW c \in Clients,
         \/ broker_reader_send(c) \/ broker_send_fails(c)
         \/ reader_unreachable(c) \/ reply_lost(c)
  PROVE  StepOf(c) /\ rep' \in [Clients -> Reply]
  <1>1. ClientOK(c) /\ ClientTypes
    BY DEF LInv, ClientInv, LcapTypeOK, ClientTypes
  <1>2. UNCHANGED <<lent, re_peers, acked, at, turn, left, cur, returned, asked>>
    BY DEF broker_reader_send, Request, broker_send_fails, reader_unreachable,
           reply_lost, vars, peers, client
  <1>3. rep \in [Clients -> Reply] /\ req \in [Clients -> Ops \cup {"none"}]
    BY DEF LInv, LcapTypeOK, TypeOK
  <1>4. Idle \in Reply /\ Pending \in Reply /\ Ack("error") \in Reply
    BY DEF Idle, Pending, Ack, Reply
  <1>5. \/ /\ up[c] # "none" /\ up' = Upd(up, c, "none")
           /\ \/ req' = Upd(req, c, up[c]) /\ rep' = Upd(rep, c, Pending)
              \/ req' = req /\ rep' = Upd(rep, c, Ack("error"))
              \/ req' = req /\ rep' = rep
        \/ /\ rep[c].op \in {"ACK", "ENQUEUE"} /\ rep' = Upd(rep, c, Idle)
           /\ up' = up /\ req' = req
    BY DEF broker_reader_send, Request, broker_send_fails, reader_unreachable,
           reply_lost, vars, wire, client, Upd
  <1>6. /\ rep' \in [Clients -> Reply]
        /\ up' \in [Clients -> Calls \cup {"none"}]
        /\ \A d \in Clients \ {c} :
             up'[d] = up[d] /\ req'[d] = req[d] /\ rep'[d] = rep[d]
    BY <1>1, <1>3, <1>4, <1>5 DEF ClientTypes, Upd
  <1>7. \/ /\ up[c] # "none" /\ up'[c] = "none"
           /\ \/ req'[c] = up[c] /\ rep'[c] = Pending
              \/ req'[c] = req[c] /\ rep'[c] = Ack("error")
              \/ req'[c] = req[c] /\ rep'[c] = rep[c]
        \/ /\ rep[c].op \in {"ACK", "ENQUEUE"} /\ rep'[c] = Idle
           /\ up'[c] = up[c] /\ req'[c] = req[c]
    BY <1>1, <1>3, <1>5 DEF ClientTypes, Upd
  <1>8. ClientTypes'
    BY <1>1, <1>2, <1>6 DEF ClientTypes
  <1>9. (\A d \in Clients \ {c} : Same(d)) /\ Grows
    BY <1>1, <1>2, <1>6, ReaderAssumption
    DEF Same, Grows, ClientTypes, ReaderAssumption
  <1>10. /\ Idle.op = "IDLE" /\ Idle.recs = {}
         /\ Pending.op = "PENDING" /\ Pending.recs = {}
         /\ Ack("error").op = "ACK" /\ Ack("error").recs = {}
         /\ Ack("error").ret = "error"
    BY DEF Idle, Pending, Ack
  <1>11. CASE up[c] # "none"
    <2>1. /\ req[c] = "none" /\ rep[c] = Idle /\ at[c] \notin {"out", "idle"}
          /\ at[c] \in Calls => at[c] = up[c]
      BY <1>1, <1>11 DEF ClientOK, OneMessage
    <2>2. /\ up'[c] = "none"
          /\ \/ req'[c] = up[c] /\ rep'[c] = Pending
             \/ req'[c] = "none" /\ rep'[c] = Ack("error")
             \/ req'[c] = "none" /\ rep'[c] = Idle
      BY <1>7, <1>10, <1>11, <2>1
    <2>3. OneMessage(c)' /\ BatchUnderWay(c)'
      BY <1>2, <1>10, <2>1, <2>2 DEF OneMessage, BatchUnderWay
    <2>4. BatchUsedUp(c)'
      BY <1>1, <1>2 DEF ClientOK, BatchUsedUp
    <2>5. Settlement(c)'
      <3>1. Settled(c) => Settled(c)'
        BY <1>2 DEF Settled
      <3> QED
        BY <1>1, <1>2, <1>11, <2>1, <2>2, <3>1
        DEF ClientOK, Settlement, Refusable, Trusted
    <2> QED
      BY <1>2, <1>6, <1>8, <1>9, <2>3, <2>4, <2>5 DEF StepOf, ClientOK
  <1>12. CASE up[c] = "none"
    <2>1. /\ rep[c].op \in {"ACK", "ENQUEUE"} /\ rep'[c] = Idle
          /\ up'[c] = "none" /\ req'[c] = req[c]
      BY <1>7, <1>12
    <2>2. req[c] = "none" /\ at[c] \notin {"out", "idle"}
      BY <1>1, <1>10, <2>1 DEF ClientOK, OneMessage
    <2>3. OneMessage(c)' /\ BatchUnderWay(c)'
      BY <1>2, <1>10, <2>1, <2>2 DEF OneMessage, BatchUnderWay
    <2>4. BatchUsedUp(c)'
      BY <1>1, <1>2 DEF ClientOK, BatchUsedUp
    <2>5. Settlement(c)'
      <3>1. Settled(c) => Settled(c)'
        BY <1>2 DEF Settled
      <3> QED
        BY <1>1, <1>2, <1>10, <1>12, <2>1, <2>2, <3>1
        DEF ClientOK, Settlement, Refusable, Trusted
    <2> QED
      BY <1>2, <1>6, <1>8, <1>9, <2>3, <2>4, <2>5 DEF StepOf, ClientOK
  <1> QED
    BY <1>11, <1>12

-----------------------------------------------------------------------------
(***************************************************************************)
(* The theorems.                                                           *)
(***************************************************************************)

\* A step that no client sees and that changes nothing of theirs.
LEMMA UnseenInv ==
  ASSUME LInv, Unseen, UNCHANGED client PROVE ClientInv'
  <1>1. \A c \in Clients : Same(c)
    BY DEF Unseen, client, Same
  <1>2. Grows
    BY ReaderAssumption DEF ReaderAssumption, Grows, LInv, LcapTypeOK, client
  <1>3. \A c \in Clients : ClientOK(c)'
    BY <1>1, <1>2, OthersKept DEF LInv, ClientInv
  <1>4. Acknowledged'
    BY DEF LInv, ClientInv, Acknowledged, AckedAsked, Trusted, Unseen, client
  <1> QED
    BY <1>3, <1>4 DEF ClientInv

\* The reader's stream leaves out cleared records: it is at the next one.
LEMMA StreamSkipsInv ==
  ASSUME LInv, stream_skips PROVE IInv' /\ Unseen /\ UNCHANGED client
  <1> USE DEF LInv, stream_skips, NoStream
  <1>1. /\ UNCHANGED <<lustre, pc, TerminateSig, batch_count, cache, peers, wire,
                       acked, client>>
        /\ re_clpriv' = purged + 1 /\ pc = "recv"
    OBVIOUS
  <1>2. Unseen
    BY <1>1 DEF Unseen, wire, peers
  <1>3. /\ produced \in 0 .. MaxRec /\ purged \in 0 .. MaxRec
        /\ re_srec \in 0 .. MaxRec + 1 /\ MaxRec \in Nat
        /\ re_srec = 0 \/ purged < re_srec
    BY ReaderAssumption DEF ReaderAssumption, IInv, TypeOK, Stream
  <1>4. TypeOK'
    BY <1>1, <1>3 DEF IInv, TypeOK, lustre, cache, peers, wire
  <1>5. Stream'
    BY <1>1, <1>3
    DEF IInv, Stream, NextRecord, changelog_reader_full, lustre, cache
  <1>6. UNCHANGED <<purged, cache, cs_bucket, lent, acked, pc>>
    BY <1>1 DEF lustre, peers
  <1>7. pc' \in Running
    BY <1>1 DEF Running
  <1> QED
    BY <1>1, <1>2, <1>4, <1>5, <1>6, <1>7, QuietInv

\* The clients' own steps leave IInv alone, as the reader's steps do.
LEMMA LcapNextInv ==
  ASSUME LInv, Direct = {}, "reuse" \notin Faults, [LcapNext]_allVars
  PROVE  LInv'
  <1>1. ASSUME IInv', UNCHANGED client, ClientInv' PROVE LInv'
    BY <1>1 DEF LInv, LcapTypeOK, IInv, client
  <1>2. UNCHANGED vars => IInv'
    BY NextInv DEF LInv
  <1>3. CASE UNCHANGED allVars
    <2>1. Unseen /\ UNCHANGED client /\ UNCHANGED vars
      BY <1>3 DEF allVars, Unseen, vars, wire, peers
    <2> QED
      BY <1>1, <1>2, <2>1, UnseenInv
  <1>4. CASE ReaderStep
    <2>1. IInv'
      BY <1>4, NextInv DEF ReaderStep, Next, LInv
    <2>2. Unseen \/ Ended \/ \E c \in Clients : \E m, l : Served(c, m, l)
      BY <1>4, ReaderSeen DEF ReaderStep, LInv
    <2>3. UNCHANGED client
      BY <1>4 DEF ReaderStep
    <2> QED
      BY <1>1, <2>1, <2>2, <2>3, UnseenInv, EndedInv, ServedInv
  <1>5. CASE stream_skips
    BY <1>1, <1>5, StreamSkipsInv, UnseenInv
  <1>6. ASSUME NEW c \in Clients, ClientCall(c) PROVE LInv'
    <2>1. ProxyCall(c) \/ start_fails(c)
      BY <1>6 DEF ClientCall
    <2>2. UNCHANGED vars
      BY <2>1
      DEF ProxyCall, start_fails, px_changelog_start, recv_cached,
          px_dequeue_records, dequeue_no_buffer, px_changelog_clear,
          px_changelog_fini, CallFails
    <2> QED
      BY <1>2, <2>1, <2>2, CallsStep, StepOfInv
  <1>7. ASSUME NEW c \in Clients, ClientReturn(c) PROVE LInv'
    <2>1. \E call \in Calls : TakeAnswer(c, call)
      BY <1>7
      DEF ClientReturn, start_returns, recv_returns, recv_error_returns,
          recv_eof_returns, clear_returns, fini_returns, Calls
    <2>2. /\ UNCHANGED <<lustre, thread, cache, peers, req, acked>>
          /\ rep' = Upd(rep, c, Idle)
      BY <2>1 DEF TakeAnswer
    <2>3. rep' \in [Clients -> Reply]
      BY <2>2, EmptyTypes DEF Upd, LInv, LcapTypeOK, TypeOK
    <2> QED
      BY <1>7, <2>2, <2>3, AnswerInv, ReturnsStep, StepOfInv DEF LInv
  <1>8. ASSUME NEW c \in Clients, client_dies(c) PROVE LInv'
    <2>1. UNCHANGED vars
      BY <1>8 DEF client_dies
    <2> QED
      BY <1>2, <1>8, <2>1, DiesStep, StepOfInv
  <1>9. ASSUME NEW c \in Clients,
               \/ broker_reader_send(c) \/ broker_send_fails(c)
               \/ reader_unreachable(c) \/ reply_lost(c)
        PROVE  LInv'
    <2>1. StepOf(c) /\ rep' \in [Clients -> Reply]
      BY <1>9, BrokerStep
    <2>2. CASE broker_reader_send(c)
      <3>1. up[c] \in Ops /\ Request(c, up[c])
        BY <2>2, ToolsAssumption
        DEF ToolsAssumption, broker_reader_send, LInv, LcapTypeOK
      <3>2. IInv'
        BY <3>1, NextInv DEF Next, LInv
      <3> QED
        BY <2>1, <3>2, StepOfInv
    <2>3. CASE broker_send_fails(c) \/ reply_lost(c)
      <3>1. UNCHANGED <<lustre, thread, cache, peers, req, acked>>
        BY <2>3 DEF broker_send_fails, reply_lost
      <3> QED
        BY <2>1, <3>1, AnswerInv, StepOfInv DEF LInv
    <2>4. CASE reader_unreachable(c)
      <3>1. UNCHANGED vars
        BY <2>4 DEF reader_unreachable
      <3> QED
        BY <1>2, <2>1, <3>1, StepOfInv
    <2> QED
      BY <1>9, <2>2, <2>3, <2>4
  <1> QED
    BY <1>3, <1>4, <1>5, <1>6, <1>7, <1>8, <1>9 DEF LcapNext

\* It holds initially: nothing was lent, no message is under way.
LEMMA LcapInitInv == LcapInit => LInv
  <1> SUFFICES ASSUME LcapInit PROVE LInv
    OBVIOUS
  <1>1. IInv
    BY InitInv DEF LcapInit
  <1>2. LcapTypeOK
    BY <1>1, ReaderAssumption DEF ReaderAssumption, IInv, LcapTypeOK, LcapInit
  <1>3. ASSUME NEW c \in Clients PROVE ClientOK(c)
    <2>1. /\ at[c] = "out" /\ left[c] = {} /\ up[c] = "none" /\ req[c] = "none"
          /\ rep[c] = Idle /\ lent[c] = {} /\ turn[c] = "recv"
      BY DEF LcapInit, Init
    <2> QED
      BY <2>1
      DEF ClientOK, OneMessage, BatchUnderWay, BatchUsedUp, Settlement, Settled,
          Idle, Calls
  <1>4. acked = {}
    BY DEF LcapInit, Init
  <1> QED
    BY <1>1, <1>2, <1>3, <1>4 DEF LInv, ClientInv, Acknowledged, AckedAsked

\* LInv is an invariant of clients, broker and reader together, when every
\* client goes through lcapd.
THEOREM LcapInvariance ==
  Direct = {} /\ "reuse" \notin Faults => (LcapSpec => []LInv)
  <1> SUFFICES ASSUME Direct = {}, "reuse" \notin Faults
               PROVE  LcapSpec => []LInv
    OBVIOUS
  <1>1. LInv /\ [LcapNext]_allVars => LInv'
    BY LcapNextInv
  <1> QED
    BY LcapInitInv, <1>1, PTL DEF LcapSpec

\* The variables of the clients, the broker and the reader keep their types.
THEOREM LcapTypeCorrect ==
  Direct = {} /\ "reuse" \notin Faults => (LcapSpec => []LcapTypeOK)
  <1> SUFFICES ASSUME Direct = {}, "reuse" \notin Faults
               PROVE  LcapSpec => []LcapTypeOK
    OBVIOUS
  <1>1. LInv => LcapTypeOK
    BY DEF LInv
  <1> QED
    BY LcapInvariance, <1>1, PTL

\* What px_changelog_recv() still has to return is part of the batch that the
\* reader thinks the client is processing.
THEOREM ReturnsWhatIsLent ==
  Direct = {} /\ "reuse" \notin Faults => (LcapSpec => []BatchIsLent)
  <1> SUFFICES ASSUME Direct = {}, "reuse" \notin Faults
               PROVE  LcapSpec => []BatchIsLent
    OBVIOUS
  <1>1. LInv => BatchIsLent
    BY DEF LInv, ClientInv, ClientOK, BatchUsedUp, BatchIsLent
  <1> QED
    BY LcapInvariance, <1>1, PTL

\* End to end at least once: a record leaves the changelog only after
\* px_changelog_recv() has returned it to an application, whatever fails as long
\* as it is the lcap tool that runs, and for any program where no allocation and
\* no send fails.
THEOREM EndToEnd ==
  /\ Direct = {}
  /\ "reuse" \notin Faults
  /\ Clients \subseteq Tools \/ Faults \cap {"oom", "send"} = {}
  => (LcapSpec => []PurgedReturned)
  <1> SUFFICES ASSUME Direct = {}, "reuse" \notin Faults,
                      Clients \subseteq Tools \/ Faults \cap {"oom", "send"} = {}
               PROVE  LcapSpec => []PurgedReturned
    OBVIOUS
  <1>1. \A c \in Clients : Trusted(c)
    BY DEF Trusted
  <1>2. LInv => PurgedReturned
    BY <1>1 DEF LInv, IInv, ClientInv, Acknowledged, PurgedAcked, PurgedReturned
  <1> QED
    BY LcapInvariance, <1>2, PTL

\* When all clients run the lcap tool, no record is acknowledged past the highest
\* one that a tool asked to clear, although the batch is cleared as a whole.
THEOREM AcksWhatWasAsked ==
  Direct = {} /\ "reuse" \notin Faults /\ Clients \subseteq Tools
  => (LcapSpec => []AckedAsked)
  <1> SUFFICES ASSUME Direct = {}, "reuse" \notin Faults, Clients \subseteq Tools
               PROVE  LcapSpec => []AckedAsked
    OBVIOUS
  <1>1. LInv => AckedAsked
    BY DEF LInv, ClientInv, Acknowledged
  <1> QED
    BY LcapInvariance, <1>1, PTL

-----------------------------------------------------------------------------
(***************************************************************************)
(* What was shown of the reader alone, with the clients it really has.     *)
(***************************************************************************)

\* A step of clients, broker and reader is a step of the reader with some clients,
\* or takes an answer off its way, or moves its stream past cleared records.
LEMMA ReaderView ==
  ASSUME LInv, Direct = {}, [LcapNext]_allVars
  PROVE  [Next]_vars \/ UNCHANGED <<lustre, cache, peers, acked>>
  <1>1. CASE UNCHANGED allVars
    BY <1>1 DEF allVars
  <1>2. CASE ReaderStep
    BY <1>2 DEF ReaderStep, Next
  <1>3. CASE stream_skips
    BY <1>3 DEF stream_skips
  <1>4. ASSUME NEW c \in Clients, ClientCall(c) \/ client_dies(c) PROVE UNCHANGED vars
    <2>1. ProxyCall(c) \/ start_fails(c) \/ client_dies(c)
      BY <1>4 DEF ClientCall
    <2> QED
      BY <2>1
      DEF ProxyCall, start_fails, client_dies, px_changelog_start, recv_cached,
          px_dequeue_records, dequeue_no_buffer, px_changelog_clear,
          px_changelog_fini, CallFails
  <1>5. ASSUME NEW c \in Clients, ClientReturn(c)
        PROVE  UNCHANGED <<lustre, cache, peers, acked>>
    <2>1. \E call \in Calls : TakeAnswer(c, call)
      BY <1>5
      DEF ClientReturn, start_returns, recv_returns, recv_error_returns,
          recv_eof_returns, clear_returns, fini_returns, Calls
    <2> QED
      BY <2>1 DEF TakeAnswer
  <1>6. ASSUME NEW c \in Clients, broker_reader_send(c) PROVE Next
    <2>1. up[c] \in Ops /\ Request(c, up[c])
      BY <1>6, ToolsAssumption
      DEF ToolsAssumption, broker_reader_send, LInv, LcapTypeOK
    <2> QED
      BY <2>1 DEF Next
  <1>7. ASSUME NEW c \in Clients,
               broker_send_fails(c) \/ reader_unreachable(c) \/ reply_lost(c)
        PROVE  [Next]_vars \/ UNCHANGED <<lustre, cache, peers, acked>>
    BY <1>7 DEF broker_send_fails, reader_unreachable, reply_lost
  <1> QED
    BY <1>1, <1>2, <1>3, <1>4, <1>5, <1>6, <1>7 DEF LcapNext

\* lcapd with its clients implements the proxy: the client library, the broker and
\* the reader together, whatever is lost, fails, times out or is restarted on the
\* way, hand out and clear the changelog as the abstract specification says.
THEOREM LcapImplements ==
  Direct = {} /\ "reuse" \notin Faults => (LcapSpec => ProxySpec)
  <1> SUFFICES ASSUME Direct = {}, "reuse" \notin Faults PROVE LcapSpec => ProxySpec
    OBVIOUS
  <1>1. LcapInit => Proxy!Init
    BY DEF LcapInit, Init, Proxy!Init, Proxy!NoLease, CachedRecords
  <1>2. LInv /\ LInv' /\ [LcapNext]_allVars => [Proxy!Next]_(Proxy!vars)
    <2> SUFFICES ASSUME LInv, LInv', [LcapNext]_allVars
                 PROVE  [Proxy!Next]_(Proxy!vars)
      OBVIOUS
    <2>1. IInv /\ IInv'
      BY DEF LInv
    <2>2. CASE [Next]_vars
      BY <2>1, <2>2, NextRefines
    <2>3. CASE UNCHANGED <<lustre, cache, peers, acked>>
      BY <2>1, <2>3, ProxyUnseen DEF lustre, cache, peers
    <2> QED
      BY <2>2, <2>3, ReaderView
  <1> QED
    BY <1>1, <1>2, LcapInvariance, PTL DEF LcapSpec, ProxySpec, Proxy!Spec

\* With real clients too, rec_bucket_get() lends the cache out in order, and no
\* bucket to two clients but after a time-out.
THEOREM LcapDelivers ==
  Direct = {} /\ "reuse" \notin Faults => (LcapSpec => []DeliverInv)
  <1> SUFFICES ASSUME Direct = {}, "reuse" \notin Faults
               PROVE  LcapSpec => []DeliverInv
    OBVIOUS
  <1>1. LcapInit => DeliverInv
    BY DeliverInit DEF LcapInit
  <1>2. LInv /\ DeliverInv /\ [LcapNext]_allVars => DeliverInv'
    <2> SUFFICES ASSUME LInv, DeliverInv, [LcapNext]_allVars PROVE DeliverInv'
      OBVIOUS
    <2>1. CASE [Next]_vars
      BY <2>1, DeliverNext DEF LInv
    <2>2. CASE UNCHANGED <<lustre, cache, peers, acked>>
      BY <2>2, DeliverQuiet DEF delivery, cache, peers
    <2> QED
      BY <2>1, <2>2, ReaderView
  <1> QED
    BY <1>1, <1>2, LcapInvariance, PTL DEF LcapSpec
=============================================================================
