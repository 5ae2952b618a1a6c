---------------------------- MODULE ReaderProofs ----------------------------
(***************************************************************************)
(* Proofs about Reader, for every number of clients, bucket size, cache    *)
(* size, time-out and set of faults without "reuse".                       *)
(***************************************************************************)
EXTENDS ReaderInv, WellFoundedInduction, TLAPS

\* The size of the cache is a natural number.
LEMMA CapacityType == Capacity \in Nat
  BY ReaderAssumption DEF ReaderAssumption, Capacity

\* The constants of the initial state have the types of TypeOK.
LEMMA EmptyTypes == EmptyBucket \in Bucket /\ Idle \in Reply
  BY ReaderAssumption DEF ReaderAssumption, EmptyBucket, Bucket, Idle, Reply

\* Init establishes the invariant.
LEMMA InitInv == Init => IInv
  <1> SUFFICES ASSUME Init PROVE IInv
    OBVIOUS
  <1> USE ReaderAssumption DEF ReaderAssumption, Init, NULL, NoStream
  <1>a. /\ bkt \in [BktIds -> Bucket]
        /\ cs_bucket \in [Clients -> Pointer]
        /\ rep \in [Clients -> Reply]
        /\ lent \in [Clients -> SUBSET Records]
        /\ req \in [Clients -> Ops \cup {"none"}]
    BY EmptyTypes DEF Pointer
  <1>1. TypeOK
    BY <1>a DEF TypeOK, Running, Pointer
  <1>2. DownEmpty /\ Pointers /\ Stream
    BY DEF DownEmpty, Pointers, Stream, Running
  <1>3. Intervals /\ Ordered /\ Owners /\ Ready
    BY DEF Intervals, Ordered, Owners, Ready
  <1>4. NoRecordForgotten
    BY DEF NoRecordForgotten, Records
  <1>5. CacheBounded
    BY CapacityType DEF CacheBounded
  <1>6. PurgedAcked
    BY DEF PurgedAcked
  <1> QED
    BY <1>1, <1>2, <1>3, <1>4, <1>5, <1>6 DEF IInv

\* Whatever ends the thread leaves nothing to keep consistent but the changelog.
LEMMA DownInv ==
  ASSUME TypeOK, Down,
         produced' \in 0 .. MaxRec, purged' \in 0 .. MaxRec,
         purged' <= produced', acked' \subseteq Records, PurgedAcked'
  PROVE  IInv'
  <1> USE ReaderAssumption DEF ReaderAssumption, Down, NULL, NoStream
  <1>a. /\ bkt' \in [BktIds -> Bucket]
        /\ cs_bucket' \in [Clients -> Pointer]
        /\ rep' \in [Clients -> Reply]
        /\ lent' \in [Clients -> SUBSET Records]
        /\ req' \in [Clients -> Ops \cup {"none"}]
    BY EmptyTypes DEF Pointer
  <1>1. TypeOK'
    BY <1>a DEF TypeOK, Running, Pointer
  <1>2. DownEmpty' /\ Pointers'
    BY DEF DownEmpty, Pointers, Running
  <1>b. Stream'
    <2>1. produced' \in Nat /\ re_srec' = 0 /\ re_clpriv' = 0 /\ pc' = "down"
      OBVIOUS
    <2>2. \A n \in Nat : 0 <= n + 1
      OBVIOUS
    <2>3. re_srec' <= produced' + 1
      BY <2>1, <2>2, Zenon
    <2> QED
      BY <2>1, <2>3 DEF Stream
  <1>3. Intervals' /\ Ordered' /\ Owners' /\ Ready'
    BY DEF Intervals, Ordered, Owners, Ready
  <1>4. NoRecordForgotten'
    BY DEF NoRecordForgotten, Records
  <1>5. CacheBounded'
    BY CapacityType DEF CacheBounded
  <1> QED
    BY <1>1, <1>2, <1>b, <1>3, <1>4, <1>5 DEF IInv

\* The thread ends on a failure or a signal with the changelog as it was.
LEMMA ExitInv == ASSUME IInv, Exit PROVE IInv'
  BY DownInv DEF Exit, IInv, TypeOK, Stream, PurgedAcked, lustre

-----------------------------------------------------------------------------
(***************************************************************************)
(* Steps that leave the cache and the owners of its buckets alone.         *)
(***************************************************************************)

\* Such a step has to preserve the types and what is said of the stream only.
LEMMA QuietInv ==
  ASSUME IInv, UNCHANGED <<purged, cache, cs_bucket, lent, acked>>,
         pc \in Running <=> pc' \in Running,
         TypeOK', Stream', re_clpriv' # NoStream => pc' \in Running
  PROVE  IInv'
  <1> USE DEF cache, IInv
  <1>1. DownEmpty' /\ Pointers'
    BY DEF DownEmpty, Pointers
  <1>2. Intervals' /\ Ordered' /\ Owners' /\ Ready'
    BY DEF Intervals, Interval, Ordered, Owners, Ready
  <1>3. NoRecordForgotten' /\ CacheBounded' /\ PurgedAcked'
    BY DEF NoRecordForgotten, CacheBounded, PurgedAcked
  <1> QED
    BY <1>1, <1>2, <1>3

\* The answers of the handlers are replies.
LEMMA ReplyTypes ==
  ASSUME NEW ret \in {"ok", "eof", "error"}, NEW b \in Bucket
  PROVE  Ack(ret) \in Reply /\ Enqueue(b) \in Reply /\ Pending \in Reply
  BY DEF Ack, Enqueue, Pending, Reply, Bucket

\* An answer to a client changes the wire and at most takes the thread back to
\* the top of its loop.
LEMMA ReplyErrorType ==
  ASSUME TypeOK, pc = "serve", NEW c \in Clients,
         NEW ret \in {"ok", "eof", "error"}, ReplyError(c, ret)
  PROVE  /\ req' \in [Clients -> Ops \cup {"none"}]
         /\ rep' \in [Clients -> Reply]
         /\ pc' \in {"serve", "enqueue"}
  BY ReplyTypes, EmptyTypes DEF TypeOK, ReplyError, Consumed

\* So does a handler's own answer, which may fail and become an error.
LEMMA ReplyMsgType ==
  ASSUME TypeOK, pc = "serve", NEW c \in Clients, NEW m \in Reply,
         ReplyMsg(c, m)
  PROVE  /\ req' \in [Clients -> Ops \cup {"none"}]
         /\ rep' \in [Clients -> Reply]
         /\ pc' \in {"serve", "enqueue"}
  BY ReplyErrorType DEF TypeOK, ReplyMsg, Consumed

\* A request that is refused changes nothing the reader keeps.
LEMMA RefuseInv ==
  ASSUME IInv, pc = "serve", NEW c \in Clients,
         NEW ret \in {"ok", "eof", "error"}, Refuse(c, ret)
  PROVE  IInv'
  <1> USE DEF Refuse, lustre, cache, peers, Running
  <1>1. TypeOK'
    BY ReplyErrorType DEF IInv, TypeOK
  <1>2. Stream'
    BY ReplyErrorType DEF IInv, Stream, NextRecord
  <1> QED
    BY <1>1, <1>2, ReplyErrorType, QuietInv DEF IInv

\* The steps of the fill loop that store nothing.
LEMMA FillInv ==
  ASSUME IInv,
         \/ enqueue_full \/ enqueue_start \/ recv_skip \/ recv_terminated
         \/ recv_eof
  PROVE  IInv'
  <1> USE ReaderAssumption
      DEF ReaderAssumption, rest, lustre, cache, peers, wire, Running, NoStream
  <1>1. CASE enqueue_full
    <2>1. TypeOK' /\ Stream'
      BY <1>1 DEF enqueue_full, IInv, TypeOK, Stream, NextRecord
    <2> QED
      BY <1>1, <2>1, QuietInv DEF enqueue_full
  <1>2. CASE enqueue_start
    <2>1. re_clpriv' \in 1 .. (MaxRec + 1)
      BY <1>2 DEF enqueue_start, IInv, TypeOK, StreamStarts, FirstAvailable
    <2>2. TypeOK'
      BY <1>2, <2>1 DEF enqueue_start, IInv, TypeOK
    <2>3. Stream'
      BY <1>2, <2>1
      DEF enqueue_start, IInv, TypeOK, Stream, NextRecord, StreamStarts,
          FirstAvailable
    <2> QED
      BY <1>2, <2>2, <2>3, QuietInv DEF enqueue_start
  <1>3. CASE recv_skip
    <2>1. TypeOK' /\ Stream'
      BY <1>3 DEF recv_skip, IInv, TypeOK, Stream, NextRecord
    <2> QED
      BY <1>3, <2>1, QuietInv DEF recv_skip
  <1>4. CASE recv_terminated
    <2>1. TypeOK' /\ Stream'
      BY <1>4 DEF recv_terminated, LeaveLoop, IInv, TypeOK, Stream, NextRecord
    <2> QED
      BY <1>4, <2>1, QuietInv DEF recv_terminated, LeaveLoop
  <1>5. CASE recv_eof
    <2>1. TypeOK' /\ Stream'
      BY <1>5 DEF recv_eof, LeaveLoop, IInv, TypeOK, Stream, NextRecord
    <2> QED
      BY <1>5, <2>1, QuietInv DEF recv_eof, LeaveLoop
  <1> QED
    BY <1>1, <1>2, <1>3, <1>4, <1>5

\* The steps around the loop and those of the environment.
LEMMA QuietStepInv ==
  ASSUME IInv,
         \/ Restart \/ lcap_sigterm \/ serve_done \/ Produce
         \/ \E c \in Clients, op \in Ops : Request(c, op)
  PROVE  IInv'
  <1> USE ReaderAssumption
      DEF ReaderAssumption, rest, lustre, cache, peers, thread, wire, Running,
          NoStream
  <1>1. CASE Restart
    <2>1. TypeOK' /\ Stream'
      BY <1>1 DEF Restart, IInv, TypeOK, Stream, NextRecord
    <2> QED
      BY <1>1, <2>1, QuietInv DEF Restart, IInv, DownEmpty
  <1>2. CASE lcap_sigterm
    <2>1. TypeOK' /\ Stream'
      BY <1>2 DEF lcap_sigterm, IInv, TypeOK, Stream, NextRecord
    <2> QED
      BY <1>2, <2>1, QuietInv DEF lcap_sigterm
  <1>3. CASE serve_done
    <2>1. TypeOK' /\ Stream'
      BY <1>3 DEF serve_done, IInv, TypeOK, Stream, NextRecord
    <2> QED
      BY <1>3, <2>1, QuietInv DEF serve_done
  <1>4. CASE Produce
    <2>1. TypeOK' /\ Stream'
      BY <1>4 DEF Produce, IInv, TypeOK, Stream, NextRecord
    <2> QED
      BY <1>4, <2>1, QuietInv DEF Produce, IInv, DownEmpty
  <1>5. ASSUME NEW c \in Clients, NEW op \in Ops, Request(c, op) PROVE IInv'
    <2>1. Pending \in Reply
      BY DEF Pending, Reply
    <2>2. TypeOK'
      BY <1>5, <2>1 DEF Request, IInv, TypeOK
    <2>3. Stream'
      BY <1>5 DEF Request, IInv, Stream, NextRecord
    <2> QED
      BY <1>5, <2>2, <2>3, QuietInv DEF Request
  <1> QED
    BY <1>1, <1>2, <1>3, <1>4, <1>5

\* The handlers, where they keep the buckets as they are.
LEMMA QuietHandlerInv ==
  ASSUME IInv, NEW c \in Clients,
         \/ rpc_invalid(c) \/ reader_handle_start(c) \/ dequeue_refused(c)
         \/ dequeue_eof(c) \/ clear_refused(c) \/ clear_nothing(c)
  PROVE  IInv'
  <1>1. CASE \/ rpc_invalid(c) \/ dequeue_refused(c) \/ dequeue_eof(c)
             \/ clear_refused(c)
    BY <1>1, RefuseInv
    DEF rpc_invalid, dequeue_refused, dequeue_eof, clear_refused, Serving
  <1>2. CASE reader_handle_start(c)
    <2>1. CASE \E ret \in {"error"} : Refuse(c, ret)
      BY <1>2, <2>1, RefuseInv DEF reader_handle_start, Serving
    <2>2. CASE ~ \E ret \in {"error"} : Refuse(c, ret)
      <3> USE DEF lustre, cache, peers, Running
      <3>1. /\ re_peers' = re_peers \cup {c}
            /\ ReplyMsg(c, Ack("ok"))
            /\ pc = "serve"
            /\ UNCHANGED <<lustre, TerminateSig, batch_count, re_clpriv, cache,
                           cs_bucket, lent, late, acked>>
        BY <1>2, <2>2 DEF reader_handle_start, Serving
      <3>2. Ack("ok") \in Reply
        BY DEF Ack, Reply
      <3>3. TypeOK' /\ pc' \in {"serve", "enqueue"}
        BY <3>1, <3>2, ReplyMsgType DEF IInv, TypeOK
      <3>4. Stream'
        BY <3>1, <3>3 DEF IInv, Stream, NextRecord
      <3> QED
        BY <3>1, <3>3, <3>4, QuietInv
    <2> QED
      BY <2>1, <2>2
  <1>3. CASE clear_nothing(c)
    <2> USE DEF lustre, cache, peers, thread, clear_nothing, Consumed, Serving
    <2>1. TypeOK'
      BY <1>3 DEF IInv, TypeOK
    <2>2. Stream'
      BY <1>3 DEF IInv, Stream, NextRecord
    <2> QED
      BY <1>3, <2>1, <2>2, QuietInv DEF Running
  <1> QED
    BY <1>1, <1>2, <1>3

-----------------------------------------------------------------------------
(***************************************************************************)
(* Steps that lend, acknowledge or add buckets and store no record.        *)
(***************************************************************************)

\* When every bucket keeps its records, and a bucket that is added is empty,
\* only what is said of pointers, owners and flags is left to show.
LEMMA SameRecordsInv ==
  ASSUME IInv, pc \in Running, pc' \in {"serve", "enqueue"},
         UNCHANGED <<produced, purged, re_srec, re_rec_cnt, re_clpriv,
                     TerminateSig>>,
         re_buckets \subseteq re_buckets',
         \A b \in re_buckets : /\ bkt'[b].lrb_records = bkt[b].lrb_records
                               /\ bkt'[b].lrb_rec_count = bkt[b].lrb_rec_count
                               /\ bkt'[b].last = bkt[b].last,
         \A b \in re_buckets' \ re_buckets : bkt'[b] = EmptyBucket,
         acked \subseteq acked',
         TypeOK', Pointers', Owners', Ready'
  PROVE  IInv'
  <1> USE DEF IInv
  <1>1. DownEmpty'
    BY DEF DownEmpty, Running
  <1>2. Stream'
    BY DEF Stream, NextRecord
  <1>3. Intervals'
    BY DEF Intervals, Interval, EmptyBucket
  <1>4. Ordered'
    BY DEF Ordered, EmptyBucket
  <1>5. NoRecordForgotten'
    BY DEF NoRecordForgotten
  <1>6. CacheBounded'
    BY ReaderAssumption DEF ReaderAssumption, CacheBounded, EmptyBucket
  <1>7. PurgedAcked'
    BY DEF PurgedAcked
  <1> QED
    BY <1>1, <1>2, <1>3, <1>4, <1>5, <1>6, <1>7

\* changelog_reader_init() links an empty bucket and points at it.
LEMMA InitReaderInv == ASSUME IInv, changelog_reader_init PROVE IInv'
  <1> USE ReaderAssumption
      DEF ReaderAssumption, changelog_reader_init, rec_bucket_add, lustre,
          peers, wire, IInv
  <1>1. /\ re_bkt_idx = 0 /\ re_buckets = {} /\ re_clpriv = NoStream
        /\ re_srec = 0 /\ re_rec_cnt = 0
        /\ \A c \in Clients : cs_bucket[c] = NULL
    BY DEF DownEmpty, Running
  <1>2. /\ re_buckets' = {0} /\ re_bkt_idx' = 1 /\ re_current_open' = 0
        /\ re_cleanup_next' = 0 /\ re_deliver_next' = 0 /\ 0 \in BktIds
    BY <1>1 DEF BktIds
  <1>3. bkt' \in [BktIds -> Bucket] /\ bkt'[0] = EmptyBucket
    BY <1>1, <1>2, EmptyTypes DEF TypeOK
  <1>4. TypeOK'
    BY <1>2, <1>3 DEF TypeOK, Pointer, Running, BktIds
  <1>5. DownEmpty' /\ Pointers'
    BY <1>2 DEF DownEmpty, Pointers, Running
  <1>6. Stream'
    BY <1>1 DEF Stream, NextRecord
  <1>7. Intervals' /\ Ordered'
    BY <1>2, <1>3 DEF Intervals, Interval, Ordered, EmptyBucket
  <1>8. Owners' /\ Ready'
    BY <1>1, <1>2, <1>3 DEF Owners, Ready, EmptyBucket
  <1>9. NoRecordForgotten' /\ PurgedAcked'
    BY <1>1 DEF NoRecordForgotten, PurgedAcked, Records, TypeOK
  <1>10. CacheBounded'
    BY <1>1, <1>2, <1>3 DEF CacheBounded, EmptyBucket
  <1> QED
    BY <1>4, <1>5, <1>6, <1>7, <1>8, <1>9, <1>10

\* The clock touches the timers only.
LEMMA TickInv == ASSUME IInv, Tick PROVE IInv'
  <1> USE DEF Tick, lustre, thread, peers, wire, IInv
  <1>a. ASSUME NEW b \in BktIds, bkt[b].lrb_expiry > 0
        PROVE  [bkt[b] EXCEPT !.lrb_expiry = @ - 1] \in Bucket
    <2>1. bkt[b] \in Bucket
      BY DEF TypeOK
    <2>2. bkt[b].lrb_expiry - 1 \in 0 .. AckTimeout
      BY <1>a, <2>1, ReaderAssumption DEF ReaderAssumption, Bucket
    <2> QED
      BY <2>1, <2>2 DEF Bucket
  <1>1. bkt' \in [BktIds -> Bucket]
    BY <1>a DEF TypeOK
  <1>2. \A b \in BktIds : /\ bkt'[b].lrb_records = bkt[b].lrb_records
                          /\ bkt'[b].lrb_rec_count = bkt[b].lrb_rec_count
                          /\ bkt'[b].last = bkt[b].last
                          /\ bkt'[b].lrb_ready = bkt[b].lrb_ready
    BY DEF TypeOK, Bucket
  <1>3. TypeOK'
    BY <1>1 DEF TypeOK
  <1>4. Pointers' /\ Owners' /\ Ready'
    BY <1>2 DEF Pointers, Owners, Ready, TypeOK
  <1> QED
    BY <1>2, <1>3, <1>4, SameRecordsInv DEF Running, TypeOK

\* reader_handle_fini() forgets the client, and that it owned a bucket.
LEMMA FiniInv == ASSUME IInv, NEW c \in Clients, reader_handle_fini(c) PROVE IInv'
  <1>1. CASE c \notin re_peers
    BY <1>1, RefuseInv DEF reader_handle_fini, Serving
  <1>2. CASE c \in re_peers
    <2> USE DEF lustre, cache, IInv
    <2>1. /\ pc = "serve"
          /\ re_peers' = re_peers \ {c}
          /\ cs_bucket' = [cs_bucket EXCEPT ![c] = NULL]
          /\ lent' = [lent EXCEPT ![c] = {}]
          /\ late' = late \ {c}
          /\ ReplyMsg(c, Ack("ok"))
          /\ UNCHANGED <<lustre, TerminateSig, batch_count, re_clpriv, cache,
                         acked>>
      BY <1>2 DEF reader_handle_fini, Serving
    <2>2. Ack("ok") \in Reply
      BY DEF Ack, Reply
    <2>a. /\ cs_bucket' \in [Clients -> Pointer]
          /\ lent' \in [Clients -> SUBSET Records]
      BY <2>1 DEF TypeOK, Pointer
    <2>b. /\ req' \in [Clients -> Ops \cup {"none"}]
          /\ rep' \in [Clients -> Reply]
          /\ pc' \in {"serve", "enqueue"}
      BY <2>1, <2>2, ReplyMsgType
    <2>3. TypeOK' /\ pc' \in {"serve", "enqueue"}
      BY <2>1, <2>a, <2>b DEF TypeOK, Running
    <2>4. Pointers' /\ Ready'
      BY <2>1, <2>3 DEF Pointers, Ready, Running
    <2>5. Owners'
      BY <2>1 DEF Owners, TypeOK
    <2> QED
      BY <2>1, <2>3, <2>4, <2>5, SameRecordsInv DEF Running
  <1> QED
    BY <1>1, <1>2

\* A set of natural numbers has a least element.
LEMMA MinNat ==
  ASSUME NEW T, T \subseteq Nat, T # {}
  PROVE  \E x \in T : \A y \in T : x <= y
  <1> DEFINE R == OpToRel(<, Nat)
  <1>1. IsWellFoundedOn(R, Nat)
    BY NatLessThanWellFounded
  <1> HIDE DEF R
  <1>2. PICK x \in T : \A y \in T : ~ (<<y, x>> \in R)
    BY <1>1, WFMin
  <1>3. \A m, n \in Nat : m < n => <<m, n>> \in R
    BY DEF R, OpToRel
  <1>4. ASSUME NEW y \in T PROVE x <= y
    <2>1. x \in Nat /\ y \in Nat
      OBVIOUS
    <2>2. ~ (y < x)
      BY <1>2, <1>3, <2>1
    <2> QED
      BY <2>1, <2>2
  <1> QED
    BY <1>2, <1>4

\* bucket_next() returns the first of the later buckets, or NULL.
LEMMA BucketNext ==
  ASSUME TypeOK, NEW b \in BktIds
  PROVE  \/ bucket_next(b) = NULL
         \/ /\ bucket_next(b) \in re_buckets
            /\ bucket_next(b) > b
            /\ \A n \in re_buckets : n > b => bucket_next(b) <= n
  <1> DEFINE after == {n \in re_buckets : n > b}
  <1>1. CASE b \notin re_buckets \/ after = {}
    BY <1>1 DEF bucket_next
  <1>2. CASE b \in re_buckets /\ after # {}
    <2>a. BktIds \subseteq Nat
      BY ReaderAssumption DEF ReaderAssumption, BktIds
    <2>1. after \subseteq Nat
      BY <2>a DEF TypeOK
    <2>2. \E n \in after : \A m \in after : n <= m
      BY <1>2, <2>1, MinNat
    <2>3. bucket_next(b) = CHOOSE n \in after : \A m \in after : n <= m
      BY <1>2, Zenon DEF bucket_next
    <2> HIDE DEF after
    <2>4. bucket_next(b) \in after /\ \A m \in after : bucket_next(b) <= m
      BY <2>2, <2>3, Zenon
    <2> USE DEF after
    <2> QED
      BY <2>4
  <1> QED
    BY <1>1, <1>2

\* bucket_next() returns a bucket or NULL.
LEMMA BucketNextType ==
  ASSUME TypeOK, NEW b \in BktIds PROVE bucket_next(b) \in Pointer
  BY BucketNext DEF Pointer, TypeOK

\* Without "reuse" an allocation changes no other pointer.
LEMMA PointersKept ==
  ASSUME "reuse" \notin Faults, re_cleanup_next \in Pointer,
         NEW dn \in Pointer, NEW cs \in [Clients -> Pointer],
         PointersAfterAdd(dn, cs)
  PROVE  /\ re_deliver_next' = dn
         /\ re_cleanup_next' = re_cleanup_next
         /\ cs_bucket' = cs
  <1>1. Recyclable = {NoChunk}
    BY DEF Recyclable
  <1>2. \A p \in Pointer : Alias(NoChunk, p) = p
    BY ReaderAssumption DEF ReaderAssumption, Alias, NoChunk, Pointer, BktIds, NULL
  <1>3. /\ re_deliver_next' = Alias(NoChunk, dn)
        /\ re_cleanup_next' = Alias(NoChunk, re_cleanup_next)
        /\ cs_bucket' = [c \in Clients |-> Alias(NoChunk, cs[c])]
    BY <1>1 DEF PointersAfterAdd
  <1>4. cs_bucket' = [c \in Clients |-> cs[c]]
    BY <1>2, <1>3
  <1> QED
    BY <1>2, <1>3, <1>4

\* rec_bucket_get() takes flags away and touches no record.
LEMMA AfterGetFacts ==
  ASSUME TypeOK, NEW e
  PROVE  /\ AfterGet(e) \in [BktIds -> Bucket]
         /\ \A b \in BktIds :
              /\ AfterGet(e)[b].lrb_records = bkt[b].lrb_records
              /\ AfterGet(e)[b].lrb_rec_count = bkt[b].lrb_rec_count
              /\ AfterGet(e)[b].last = bkt[b].last
              /\ AfterGet(e)[b].lrb_ready => bkt[b].lrb_ready
  <1>1. \A b \in BktIds : [bkt[b] EXCEPT !.lrb_ready = FALSE] \in Bucket
    BY DEF TypeOK, Bucket
  <1>2. AfterGet(e) \in [BktIds -> Bucket]
    BY <1>1 DEF TypeOK, AfterGet
  <1>3. ASSUME NEW b \in BktIds
        PROVE  AfterGet(e)[b] \in {bkt[b], [bkt[b] EXCEPT !.lrb_ready = FALSE]}
    BY DEF AfterGet
  <1>4. ASSUME NEW b \in BktIds
        PROVE  /\ AfterGet(e)[b].lrb_records = bkt[b].lrb_records
               /\ AfterGet(e)[b].lrb_rec_count = bkt[b].lrb_rec_count
               /\ AfterGet(e)[b].last = bkt[b].last
               /\ AfterGet(e)[b].lrb_ready => bkt[b].lrb_ready
    BY <1>3 DEF TypeOK, Bucket
  <1> QED
    BY <1>2, <1>4

\* A DEQUEUE that fails to allocate may have moved deliver_next on and reset
\* ready flags, which the invariant allows.
LEMMA DequeueAddFailsInv ==
  ASSUME IInv, NEW c \in Clients, dequeue_add_fails(c) PROVE IInv'
  <1> USE DEF lustre, IInv
  <1>1. PICK e \in Expired :
          /\ rec_bucket_get(e) \in re_buckets
          /\ bkt' = AfterGet(e)
          /\ late' = late \cup Overdue(e)
          /\ re_deliver_next' = bucket_next(rec_bucket_get(e))
          /\ ReplyError(c, "error")
    BY DEF dequeue_add_fails
  <1>2. /\ pc = "serve"
        /\ UNCHANGED <<lustre, TerminateSig, batch_count, re_clpriv, re_srec,
                       re_rec_cnt, re_bkt_idx, re_buckets, re_current_open,
                       re_cleanup_next, re_peers, cs_bucket, lent, acked>>
    BY DEF dequeue_add_fails, Serving
  <1>3. /\ req' \in [Clients -> Ops \cup {"none"}]
        /\ rep' \in [Clients -> Reply]
        /\ pc' \in {"serve", "enqueue"}
    BY <1>1, <1>2, ReplyErrorType
  <1>4. re_deliver_next' \in Pointer /\ late' \subseteq Clients
    BY <1>1, BucketNextType DEF TypeOK, Overdue
  <1>5. TypeOK'
    BY <1>1, <1>2, <1>3, <1>4, AfterGetFacts DEF TypeOK, Running
  <1>6. Pointers' /\ Owners' /\ Ready'
    BY <1>1, <1>2, <1>3, AfterGetFacts DEF Pointers, Owners, Ready, TypeOK, Running
  <1> QED
    BY <1>1, <1>2, <1>3, <1>5, <1>6, AfterGetFacts, SameRecordsInv
    DEF Running, TypeOK

\* reader_handle_dequeue() lends a closed bucket: the open one is closed first,
\* and an empty one linked after it.
LEMMA DequeueInv ==
  ASSUME IInv, "reuse" \notin Faults, NEW c \in Clients,
         reader_handle_dequeue(c)
  PROVE  IInv'
  <1> USE ReaderAssumption DEF ReaderAssumption, lustre, IInv
  <1>1. PICK e \in Expired, packed \in BOOLEAN :
          LET b    == rec_bucket_get(e)
              cs   == [cs_bucket EXCEPT ![c] = b]
              heap == IF packed
                      THEN [AfterGet(e) EXCEPT ![b].lrb_expiry = AckTimeout]
                      ELSE AfterGet(e)
          IN /\ b \in re_buckets
             /\ \/ /\ b # re_current_open
                   /\ bkt' = heap
                   /\ re_deliver_next' = bucket_next(b)
                   /\ cs_bucket' = cs
                   /\ UNCHANGED <<re_bkt_idx, re_buckets, re_current_open,
                                  re_cleanup_next>>
                \/ /\ b = re_current_open
                   /\ rec_bucket_add(heap, EmptyBucket)
                   /\ PointersAfterAdd(bucket_next(b), cs)
             /\ late' = late \cup Overdue(e)
             /\ lent' = [lent EXCEPT ![c] = bkt[b].lrb_records]
             /\ \/ packed /\ ReplyMsg(c, Enqueue(bkt[b]))
                \/ ~packed /\ "oom" \in Faults /\ ReplyError(c, "error")
    BY DEF reader_handle_dequeue
  <1> DEFINE b    == rec_bucket_get(e)
             cs   == [cs_bucket EXCEPT ![c] = b]
             heap == IF packed
                     THEN [AfterGet(e) EXCEPT ![b].lrb_expiry = AckTimeout]
                     ELSE AfterGet(e)
  <1>2. /\ pc = "serve" /\ cs_bucket[c] = NULL
        /\ UNCHANGED <<lustre, TerminateSig, batch_count, re_clpriv, re_srec,
                       re_rec_cnt, re_peers, acked>>
    BY DEF reader_handle_dequeue, Serving
  <1>3. b \in re_buckets /\ b \in BktIds /\ bkt[b] \in Bucket
    BY <1>1 DEF TypeOK
  <1>4. /\ req' \in [Clients -> Ops \cup {"none"}]
        /\ rep' \in [Clients -> Reply]
        /\ pc' \in {"serve", "enqueue"}
    <2>1. Enqueue(bkt[b]) \in Reply
      BY <1>3, ReplyTypes
    <2> QED
      BY <1>1, <1>2, <2>1, ReplyErrorType, ReplyMsgType
  <1>5. heap \in [BktIds -> Bucket]
    BY <1>3, AfterGetFacts DEF Bucket
  <1>6. \A d \in BktIds : /\ heap[d].lrb_records = bkt[d].lrb_records
                          /\ heap[d].lrb_rec_count = bkt[d].lrb_rec_count
                          /\ heap[d].last = bkt[d].last
                          /\ heap[d].lrb_ready => bkt[d].lrb_ready
    BY <1>3, AfterGetFacts DEF Bucket
  <1>7. cs \in [Clients -> Pointer] /\ bucket_next(b) \in Pointer
    BY <1>3, BucketNextType DEF TypeOK, Pointer
  <1>8. lent' \in [Clients -> SUBSET Records] /\ late' \subseteq Clients
    BY <1>1, <1>3 DEF TypeOK, Bucket, Overdue
  <1> HIDE DEF heap, cs, b
  <1>9. CASE b # re_current_open
    <2>1. /\ bkt' = heap /\ re_deliver_next' = bucket_next(b)
          /\ cs_bucket' = cs
          /\ UNCHANGED <<re_bkt_idx, re_buckets, re_current_open,
                         re_cleanup_next>>
      BY <1>1, <1>9 DEF b, cs, heap
    <2>2. TypeOK'
      BY <1>2, <1>4, <1>5, <1>7, <1>8, <2>1 DEF TypeOK, Running
    <2>3. Pointers' /\ Ready'
      BY <1>2, <1>4, <1>6, <2>1 DEF Pointers, Ready, Running, TypeOK
    <2>4. b < re_current_open
      BY <1>2, <1>3, <1>9 DEF Pointers, Running, TypeOK, BktIds
    <2>5. Owners'
      <3>1. cs_bucket'[c] = b /\ lent'[c] = bkt[b].lrb_records /\ b # NULL
        BY <1>1, <1>3, <2>1 DEF b, cs, TypeOK, BktIds, NULL
      <3>2. \A d \in Clients \ {c} : /\ cs_bucket'[d] = cs_bucket[d]
                                     /\ lent'[d] = lent[d]
        BY <1>1, <2>1 DEF cs, TypeOK
      <3> QED
        BY <1>3, <1>6, <2>1, <2>4, <3>1, <3>2 DEF Owners, TypeOK
    <2> QED
      BY <1>2, <1>4, <1>6, <2>1, <2>2, <2>3, <2>5, SameRecordsInv
      DEF Running, TypeOK
  <1>10. CASE b = re_current_open
    <2> DEFINE n == re_bkt_idx
    <2>1. rec_bucket_add(heap, EmptyBucket) /\ PointersAfterAdd(bucket_next(b), cs)
      BY <1>1, <1>10 DEF b, cs, heap
    <2>2. /\ re_deliver_next' = bucket_next(b)
          /\ re_cleanup_next' = re_cleanup_next
          /\ cs_bucket' = cs
      BY <1>7, <2>1, PointersKept DEF TypeOK
    <2>3. /\ n \in BktIds /\ re_bkt_idx' = n + 1 /\ re_current_open' = n
          /\ re_buckets' = re_buckets \cup {n}
          /\ bkt' = [heap EXCEPT ![n] = EmptyBucket]
      BY <2>1 DEF rec_bucket_add, TypeOK, BktIds
    <2>4. /\ bkt' \in [BktIds -> Bucket] /\ bkt'[n] = EmptyBucket
          /\ \A d \in re_buckets : bkt'[d] = heap[d]
      BY <1>5, <2>3, EmptyTypes DEF Pointers, TypeOK
    <2>5. TypeOK'
      BY <1>2, <1>4, <1>7, <1>8, <2>2, <2>3, <2>4
      DEF TypeOK, Running, Pointer, BktIds
    <2>6. re_cleanup_next <= n /\ \A d \in re_buckets : d < n
      BY <1>2, <1>3 DEF Pointers, TypeOK, BktIds, Pointer, NULL
    <2>7. Pointers'
      BY <2>2, <2>3, <2>6 DEF Pointers, TypeOK, BktIds
    <2>8. Ready'
      BY <1>2, <1>6, <2>3, <2>4, <2>6 DEF Ready, TypeOK, EmptyBucket
    <2>9. Owners'
      <3>1. lent' = [lent EXCEPT ![c] = bkt[b].lrb_records]
        BY <1>1 DEF b
      <3>2. cs[c] = b /\ \A d \in Clients \ {c} : cs[d] = cs_bucket[d]
        BY DEF cs, TypeOK
      <3>3. \A d \in Clients : cs[d] # NULL => cs[d] < n
        <4>1. re_current_open < n /\ n \in Int /\ re_current_open \in Int
          BY <1>3, <1>10, <2>6 DEF TypeOK, BktIds
        <4>2. \A d \in Clients : cs_bucket[d] # NULL =>
                cs_bucket[d] \in Int /\ cs_bucket[d] < re_current_open
          BY DEF Owners, TypeOK, BktIds, Pointer
        <4> HIDE DEF n
        <4> QED
          BY <1>3, <1>10, <2>6, <3>2, <4>1, <4>2
      <3>4. \A d \in Clients : cs[d] \in re_buckets' /\ cs[d] # NULL =>
              cs[d] \in re_buckets
        <4>1. n \in Int
          BY DEF TypeOK
        <4> QED
          BY <3>3, <2>3, <4>1
      <3>5. ASSUME NEW d \in Clients, cs[d] # NULL, cs[d] \in re_buckets
            PROVE  lent'[d] = bkt'[cs[d]].lrb_records
        <4>1. bkt'[cs[d]].lrb_records = bkt[cs[d]].lrb_records
          BY <1>6, <2>4, <3>5 DEF TypeOK
        <4>2. lent'[d] = bkt[cs[d]].lrb_records
          BY <3>1, <3>2, <3>5 DEF Owners, TypeOK
        <4> QED
          BY <4>1, <4>2
      <3>6. \A d \in Clients : cs[d] = NULL => lent'[d] = {}
        <4>1. b # NULL
          BY <1>3 DEF BktIds, NULL
        <4> QED
          BY <3>1, <3>2, <4>1 DEF Owners, TypeOK
      <3> QED
        BY <2>2, <2>3, <3>3, <3>4, <3>5, <3>6 DEF Owners
    <2> QED
      BY <1>2, <1>4, <1>6, <2>3, <2>4, <2>5, <2>7, <2>8, <2>9, SameRecordsInv
      DEF Running, TypeOK
  <1> QED
    BY <1>9, <1>10

\* reader_handle_clear() sets the flag of the client's bucket and touches no
\* record; what is ready then was acknowledged.
LEMMA SetReadyFacts ==
  ASSUME IInv, NEW c \in Clients, cs_bucket[c] # NULL
  PROVE  LET h == SetReady(cs_bucket[c])
         IN /\ h \in [BktIds -> Bucket]
            /\ \A b \in BktIds :
                 /\ h[b].lrb_records = bkt[b].lrb_records
                 /\ h[b].lrb_rec_count = bkt[b].lrb_rec_count
                 /\ h[b].last = bkt[b].last
            /\ \A b \in re_buckets : h[b].lrb_ready =>
                 /\ b # re_current_open
                 /\ bkt[b].lrb_records \subseteq acked \cup lent[c]
  <1> USE DEF IInv
  <1> DEFINE o == cs_bucket[c]
             h == SetReady(o)
  <1>1. o \in BktIds /\ bkt[o] \in Bucket
    BY DEF TypeOK, Pointer
  <1>2. h \in [BktIds -> Bucket]
    BY <1>1 DEF TypeOK, SetReady, Bucket
  <1>3. \A b \in BktIds : /\ h[b].lrb_records = bkt[b].lrb_records
                          /\ h[b].lrb_rec_count = bkt[b].lrb_rec_count
                          /\ h[b].last = bkt[b].last
    BY <1>1 DEF TypeOK, SetReady, Bucket
  <1>4. ASSUME NEW b \in re_buckets, h[b].lrb_ready
        PROVE  /\ b # re_current_open
               /\ bkt[b].lrb_records \subseteq acked \cup lent[c]
    <2>1. CASE b = o
      BY <1>1, <2>1 DEF Owners, TypeOK, BktIds, Pointer
    <2>2. CASE b # o
      BY <1>1, <1>4, <2>2 DEF Ready, SetReady, TypeOK
    <2> QED
      BY <2>1, <2>2
  <1> QED
    BY <1>2, <1>3, <1>4

\* What Acknowledge() changes keeps its type.
LEMMA AcknowledgeTypes ==
  ASSUME TypeOK, NEW c \in Clients, Acknowledge(c)
  PROVE  /\ cs_bucket' \in [Clients -> Pointer]
         /\ lent' \in [Clients -> SUBSET Records]
         /\ acked' \subseteq Records
         /\ late' \subseteq Clients
  BY DEF Acknowledge, TypeOK, Pointer

\* A CLEAR that leaves the changelog alone: the bucket is ready, and stays.
LEMMA ClearKeepsInv ==
  ASSUME IInv, NEW c \in Clients, clear_waits(c) \/ clear_fails(c)
  PROVE  IInv'
  <1> USE DEF lustre, IInv
  <1>1. /\ pc = "serve" /\ cs_bucket[c] # NULL
        /\ Acknowledge(c)
        /\ bkt' = SetReady(cs_bucket[c])
        /\ ReplyMsg(c, Ack("ok")) \/ ReplyError(c, "error")
        /\ UNCHANGED <<lustre, re_rec_cnt, re_buckets>>
    BY DEF clear_waits, clear_fails, Serving
  <1>2. Ack("ok") \in Reply
    BY DEF Ack, Reply
  <1>3. /\ req' \in [Clients -> Ops \cup {"none"}]
        /\ rep' \in [Clients -> Reply]
        /\ pc' \in {"serve", "enqueue"}
    BY <1>1, <1>2, ReplyErrorType, ReplyMsgType
  <1>4. bkt' \in [BktIds -> Bucket]
    BY <1>1, SetReadyFacts
  <1>5. /\ \A b \in BktIds : /\ bkt'[b].lrb_records = bkt[b].lrb_records
                             /\ bkt'[b].lrb_rec_count = bkt[b].lrb_rec_count
                             /\ bkt'[b].last = bkt[b].last
        /\ \A b \in re_buckets : bkt'[b].lrb_ready =>
             /\ b # re_current_open
             /\ bkt[b].lrb_records \subseteq acked \cup lent[c]
    BY <1>1, SetReadyFacts
  <1>6. TypeOK'
    BY <1>1, <1>3, <1>4, AcknowledgeTypes DEF TypeOK, Acknowledge, Running
  <1>7. Pointers'
    BY <1>1, <1>3 DEF Pointers, Acknowledge, Running
  <1>8. Ready'
    BY <1>1, <1>5 DEF Ready, Acknowledge, TypeOK
  <1>9. Owners'
    BY <1>1, <1>5 DEF Owners, Acknowledge, TypeOK
  <1> QED
    BY <1>1, <1>3, <1>5, <1>6, <1>7, <1>8, <1>9, SameRecordsInv
    DEF Running, Acknowledge, TypeOK

\* The bucket at cleanup_next, when it holds records, starts right after what
\* was cleared: up to its last record there is nothing but its own records.
LEMMA FirstBucket ==
  ASSUME IInv, NEW k \in re_buckets, k = re_cleanup_next,
         rec_bucket_max_index(bkt[k]) # -1
  PROVE  /\ bkt[k].lrb_rec_count > 0
         /\ bkt[k].last \in Records
         /\ bkt[k].last < re_srec
         /\ bkt[k].lrb_records = (purged + 1) .. bkt[k].last
         /\ bkt[k].last - bkt[k].lrb_rec_count = purged
         /\ purged < bkt[k].last
  <1> USE DEF IInv
  <1> DEFINE first == bkt[k].last - bkt[k].lrb_rec_count + 1
  <1>1. bkt[k] \in Bucket
    BY DEF TypeOK
  <1>2. bkt[k].lrb_rec_count \in Nat /\ bkt[k].last \in Int /\ purged \in Nat
    BY <1>1, ReaderAssumption DEF ReaderAssumption, Bucket, Records, TypeOK
  <1>3. bkt[k].lrb_rec_count > 0
    BY <1>2 DEF rec_bucket_max_index
  <1>4. /\ bkt[k].lrb_records = first .. bkt[k].last
        /\ purged < first /\ bkt[k].last < re_srec
    BY <1>3 DEF Intervals, Interval
  <1>5. bkt[k].last \in Records
    BY <1>1, <1>2, <1>3, <1>4 DEF Bucket
  <1>6. purged + 1 \in Records /\ purged + 1 < re_srec
    BY <1>2, <1>3, <1>4, <1>5, ReaderAssumption
    DEF ReaderAssumption, Records, TypeOK
  <1>7. PICK b \in re_buckets : purged + 1 \in bkt[b].lrb_records
    BY <1>2, <1>6 DEF NoRecordForgotten
  <1>8. b = k
    <2>1. b \in Int /\ k \in Int /\ k <= b
      BY ReaderAssumption DEF ReaderAssumption, Pointers, TypeOK, BktIds
    <2>2. first \in bkt[k].lrb_records
      BY <1>2, <1>3, <1>4
    <2>3. k < b => first < purged + 1
      BY <1>7, <2>2 DEF Ordered
    <2> QED
      BY <1>2, <1>4, <2>1, <2>3
  <1>9. first = purged + 1
    BY <1>2, <1>4, <1>7, <1>8
  <1> QED
    BY <1>2, <1>3, <1>4, <1>5, <1>9

\* What is cleared upstream with a ready bucket at cleanup_next was acknowledged.
LEMMA ClearAcked ==
  ASSUME IInv, NEW c \in Clients, cs_bucket[c] # NULL,
         FirstReady(cs_bucket[c]), llapi_changelog_clear(re_cleanup_next),
         acked' = acked \cup lent[c]
  PROVE  /\ purged' = bkt[re_cleanup_next].last
         /\ purged' \in 0 .. MaxRec
         /\ purged' <= produced
         /\ PurgedAcked'
  <1> USE DEF IInv
  <1> DEFINE k == re_cleanup_next
  <1>1. k \in re_buckets /\ rec_bucket_max_index(bkt[k]) # -1
    BY DEF FirstReady, llapi_changelog_clear
  <1>2. bkt[k].lrb_records \subseteq acked'
    BY <1>1, SetReadyFacts DEF FirstReady
  <1>3. /\ bkt[k].last \in Records /\ purged < bkt[k].last
        /\ bkt[k].lrb_records = (purged + 1) .. bkt[k].last
        /\ bkt[k].lrb_rec_count > 0 /\ bkt[k].last < re_srec
    BY <1>1, FirstBucket
  <1>4. purged' = bkt[k].last
    BY <1>3, ReaderAssumption
    DEF ReaderAssumption, llapi_changelog_clear, rec_bucket_max_index, TypeOK,
        Records
  <1>5. ASSUME NEW r \in 1 .. purged' PROVE r \in acked'
    BY <1>2, <1>3, <1>4, <1>5 DEF PurgedAcked, TypeOK, Records
  <1>6. purged' <= produced
    BY <1>3, <1>4 DEF Stream, TypeOK, Records
  <1> QED
    BY <1>3, <1>4, <1>5, <1>6, ReaderAssumption
    DEF ReaderAssumption, PurgedAcked, Records

\* reader_handle_clear() clears and unlinks the bucket at cleanup_next: the
\* buckets left start right after what is cleared.
LEMMA ClearInv ==
  ASSUME IInv, NEW c \in Clients, reader_handle_clear(c)
  PROVE  IInv'
  <1> USE ReaderAssumption DEF ReaderAssumption, IInv
  <1> DEFINE k == re_cleanup_next
             h == SetReady(cs_bucket[c])
  <1>1. /\ pc = "serve" /\ cs_bucket[c] # NULL
        /\ Acknowledge(c)
        /\ FirstReady(cs_bucket[c])
        /\ llapi_changelog_clear(k)
        /\ re_buckets' = re_buckets \ {k}
        /\ re_rec_cnt' = re_rec_cnt - bkt[k].lrb_rec_count
        /\ bkt' = [h EXCEPT ![k] = EmptyBucket]
        /\ ReplyMsg(c, Ack("ok"))
        /\ UNCHANGED produced
    BY DEF reader_handle_clear, Serving
  <1>2. /\ acked' = acked \cup lent[c]
        /\ UNCHANGED <<TerminateSig, batch_count, re_clpriv, re_srec, re_bkt_idx,
                       re_current_open, re_deliver_next, re_cleanup_next,
                       re_peers>>
    BY <1>1 DEF Acknowledge
  <1>3. Ack("ok") \in Reply
    BY DEF Ack, Reply
  <1>4. /\ req' \in [Clients -> Ops \cup {"none"}]
        /\ rep' \in [Clients -> Reply]
        /\ pc' \in {"serve", "enqueue"}
    BY <1>1, <1>3, ReplyMsgType
  <1>5. k \in re_buckets /\ h[k].lrb_ready /\ rec_bucket_max_index(bkt[k]) # -1
    BY <1>1 DEF FirstReady, llapi_changelog_clear
  <1>6. /\ purged' = bkt[k].last /\ purged' \in 0 .. MaxRec /\ PurgedAcked'
        /\ purged' <= produced'
    BY <1>1, <1>2, ClearAcked
  <1>7. /\ bkt[k].last < re_srec
        /\ bkt[k].lrb_records = (purged + 1) .. bkt[k].last
        /\ bkt[k].last - bkt[k].lrb_rec_count = purged
        /\ purged < bkt[k].last
        /\ bkt[k].last \in Int /\ bkt[k].lrb_rec_count \in Nat /\ purged \in Nat
        /\ bkt[k].last \in bkt[k].lrb_records
    <2>1. bkt[k] \in Bucket /\ purged \in Nat
      BY <1>5 DEF TypeOK
    <2>2. bkt[k].last \in Int /\ bkt[k].lrb_rec_count \in Nat
      BY <2>1 DEF Bucket, Records
    <2> QED
      BY <1>5, <2>1, <2>2, FirstBucket
  <1>8. /\ h \in [BktIds -> Bucket]
        /\ \A b \in BktIds : /\ h[b].lrb_records = bkt[b].lrb_records
                             /\ h[b].lrb_rec_count = bkt[b].lrb_rec_count
                             /\ h[b].last = bkt[b].last
        /\ \A b \in re_buckets : h[b].lrb_ready =>
             /\ b # re_current_open
             /\ bkt[b].lrb_records \subseteq acked \cup lent[c]
    BY <1>1, SetReadyFacts
  <1> HIDE DEF h
  <1>9. bkt' \in [BktIds -> Bucket] /\ \A b \in re_buckets' : bkt'[b] = h[b]
    BY <1>1, <1>5, <1>8, EmptyTypes DEF TypeOK
  <1>a. re_rec_cnt' \in Int
    BY <1>1, <1>7 DEF TypeOK
  <1>10. TypeOK'
    BY <1>1, <1>2, <1>4, <1>6, <1>9, <1>a, AcknowledgeTypes DEF TypeOK, Running
  <1>11. DownEmpty'
    BY <1>4 DEF DownEmpty, Running
  <1>12. Pointers'
    BY <1>1, <1>2, <1>4, <1>5, <1>8 DEF Pointers, Running
  <1>13. Stream'
    BY <1>1, <1>2, <1>4, <1>6, <1>7 DEF Stream, NextRecord, TypeOK
  <1>14. \A b \in re_buckets' : \A r \in bkt[b].lrb_records : bkt[k].last < r
    <2>1. \A b \in re_buckets' : k < b
      BY <1>1, <1>5 DEF Pointers, TypeOK, BktIds
    <2> QED
      BY <1>1, <1>5, <1>7, <2>1 DEF Ordered
  <1>15. Intervals'
    <2> SUFFICES ASSUME NEW b \in re_buckets'
                 PROVE  (Interval(bkt[b]))'
      BY DEF Intervals
    <2>1. /\ bkt'[b].lrb_records = bkt[b].lrb_records
          /\ bkt'[b].lrb_rec_count = bkt[b].lrb_rec_count
          /\ bkt'[b].last = bkt[b].last
          /\ bkt[b] \in Bucket
      BY <1>1, <1>8, <1>9 DEF TypeOK
    <2>2. bkt[b].lrb_rec_count \in Nat /\ bkt[b].last \in Int
      BY <2>1 DEF Bucket, Records
    <2>3. Interval(bkt[b])
      BY <1>1 DEF Intervals
    <2>4. CASE bkt[b].lrb_rec_count = 0
      BY <2>1, <2>3, <2>4 DEF Interval
    <2>5. CASE bkt[b].lrb_rec_count > 0
      <3>1. bkt[b].last - bkt[b].lrb_rec_count + 1 \in bkt[b].lrb_records
        BY <2>2, <2>3, <2>5 DEF Interval
      <3> QED
        BY <1>2, <1>6, <1>14, <2>1, <2>2, <2>3, <2>5, <3>1 DEF Interval
    <2> QED
      BY <2>2, <2>4, <2>5
  <1>16. Ordered'
    BY <1>1, <1>8, <1>9 DEF Ordered, TypeOK
  <1>17. NoRecordForgotten'
    <2> SUFFICES ASSUME NEW r \in Records, purged' < r, r < re_srec
                 PROVE  \E b \in re_buckets' : r \in bkt'[b].lrb_records
      BY <1>2 DEF NoRecordForgotten
    <2>1. r \in Int /\ purged < r
      BY <1>6, <1>7 DEF Records
    <2>2. PICK b \in re_buckets : r \in bkt[b].lrb_records
      BY <2>1 DEF NoRecordForgotten
    <2>3. b # k
      BY <1>6, <1>7, <2>1, <2>2
    <2> QED
      BY <1>1, <1>8, <1>9, <2>2, <2>3 DEF TypeOK
  <1>18. CacheBounded'
    <2>1. re_srec # 0 /\ re_srec \in Int /\ re_rec_cnt \in Int
      BY <1>7 DEF TypeOK
    <2>2. re_rec_cnt = re_srec - 1 - purged /\ re_rec_cnt <= Capacity
      BY <2>1 DEF CacheBounded
    <2>3. re_rec_cnt' = re_srec' - 1 - purged' /\ re_rec_cnt' <= Capacity
      <3> DEFINE n == bkt[k].lrb_rec_count
                 l == bkt[k].last
      <3>1. /\ re_rec_cnt' = re_rec_cnt - n /\ purged' = l /\ re_srec' = re_srec
            /\ l - n = purged /\ l \in Int /\ n \in Nat /\ purged \in Nat
        BY <1>1, <1>2, <1>6, <1>7
      <3> HIDE DEF n, l, IInv
      <3> QED
        BY <2>1, <2>2, <3>1, CapacityType
    <2>4. \A b \in re_buckets' : bkt'[b].lrb_rec_count <= BatchCount
      BY <1>1, <1>8, <1>9 DEF CacheBounded, TypeOK
    <2>5. re_srec' # 0
      BY <1>2, <2>1
    <2> QED
      BY <2>3, <2>4, <2>5 DEF CacheBounded
  <1>19. Owners'
    <2>1. /\ cs_bucket' = [cs_bucket EXCEPT ![c] = NULL]
          /\ lent' = [lent EXCEPT ![c] = {}]
      BY <1>1 DEF Acknowledge
    <2>a. \A d \in Clients : cs_bucket'[d] = NULL => lent'[d] = {}
      BY <2>1 DEF Owners, TypeOK
    <2> SUFFICES ASSUME NEW d \in Clients, cs_bucket'[d] # NULL
                 PROVE  /\ cs_bucket'[d] < re_current_open
                        /\ cs_bucket'[d] \in re_buckets' =>
                             lent'[d] = bkt'[cs_bucket'[d]].lrb_records
      BY <1>2, <2>a DEF Owners
    <2>2. d # c /\ cs_bucket'[d] = cs_bucket[d] /\ lent'[d] = lent[d]
      BY <2>1 DEF TypeOK
    <2>3. ASSUME cs_bucket[d] \in re_buckets'
          PROVE  lent[d] = bkt'[cs_bucket[d]].lrb_records
      BY <1>1, <1>8, <1>9, <2>2, <2>3 DEF Owners, TypeOK
    <2> QED
      BY <2>2, <2>3 DEF Owners
  <1>20. Ready'
    BY <1>1, <1>2, <1>8, <1>9 DEF Ready, TypeOK
  <1> QED
    BY <1>6, <1>10, <1>11, <1>12, <1>13, <1>15, <1>16, <1>17, <1>18, <1>19, <1>20

\* lcapd may die in the clear loop: what it cleared was acknowledged.
LEMMA ClearCrashInv ==
  ASSUME IInv, NEW c \in Clients, clear_use_after_free(c) \/ clear_freed(c)
  PROVE  IInv'
  <1>1. /\ Down /\ cs_bucket[c] # NULL /\ produced' = produced
        /\ acked' = acked \cup lent[c] /\ acked' \subseteq Records
    BY DEF clear_use_after_free, clear_freed, lustre, IInv, TypeOK
  <1>2. purged' \in 0 .. MaxRec /\ purged' <= produced' /\ PurgedAcked'
    <2>1. CASE clear_use_after_free(c)
      BY <1>1, <2>1, ClearAcked DEF clear_use_after_free
    <2>2. CASE clear_freed(c)
      BY <1>1, <2>2 DEF clear_freed, lustre, IInv, TypeOK, Stream, PurgedAcked
    <2> QED
      BY <2>1, <2>2
  <1> QED
    BY <1>1, <1>2, DownInv DEF IInv, TypeOK

-----------------------------------------------------------------------------
(***************************************************************************)
(* Storing a record.                                                       *)
(***************************************************************************)

\* The record that is stored follows the last one in the cache, and the open
\* bucket, when it holds records, ends with that last one.
LEMMA StoredRecord ==
  ASSUME IInv, pc = "recv", TerminateSig = 0,
         re_clpriv <= produced, re_clpriv >= re_srec
  PROVE  /\ re_clpriv = NextRecord
         /\ re_clpriv \in Records
         /\ purged < re_clpriv
         /\ bkt[re_current_open].lrb_rec_count > 0 =>
              bkt[re_current_open].last = re_clpriv - 1
  <1> USE ReaderAssumption DEF ReaderAssumption, IInv
  <1> DEFINE o == re_current_open
  <1>1. /\ re_clpriv = NextRecord /\ re_clpriv \in Records
        /\ purged < re_clpriv /\ (re_srec # 0 => re_clpriv = re_srec)
    BY DEF Stream, NextRecord, TypeOK, Records, NoStream
  <1>2. o \in re_buckets /\ bkt[o] \in Bucket
    BY DEF Pointers, TypeOK, Running
  <1>3. bkt[o].lrb_rec_count \in Nat /\ bkt[o].last \in Int /\ purged \in Nat
        /\ re_srec \in Nat
    BY <1>2 DEF Bucket, Records, TypeOK
  <1>4. ASSUME bkt[o].lrb_rec_count > 0 PROVE bkt[o].last = re_clpriv - 1
    <2>1. /\ purged < bkt[o].last - bkt[o].lrb_rec_count + 1
          /\ bkt[o].last < re_srec
          /\ bkt[o].lrb_records =
               (bkt[o].last - bkt[o].lrb_rec_count + 1) .. bkt[o].last
      BY <1>2, <1>4 DEF Intervals, Interval
    <2>2. bkt[o].last \in bkt[o].lrb_records /\ purged < re_srec - 1
          /\ re_srec - 1 \in Records
      BY <1>3, <1>4, <2>1 DEF TypeOK, Records
    <2>3. PICK b \in re_buckets : re_srec - 1 \in bkt[b].lrb_records
      BY <1>3, <2>2 DEF NoRecordForgotten
    <2>4. b \in Int /\ o \in Int /\ b <= o
      BY <1>2 DEF Pointers, TypeOK, BktIds, Running
    <2>5. b < o => re_srec - 1 < bkt[o].last
      BY <1>2, <2>2, <2>3 DEF Ordered
    <2>6. b = o
      BY <1>3, <2>1, <2>4, <2>5
    <2>7. re_srec - 1 <= bkt[o].last
      BY <1>3, <2>1, <2>3, <2>6
    <2> QED
      BY <1>1, <1>3, <2>1, <2>7
  <1> QED
    BY <1>1, <1>4

\* A bucket with a record more is an interval of records with one more.
LEMMA InsertFacts ==
  ASSUME NEW b \in Bucket, NEW r \in Records
  PROVE  /\ Insert(b, r) \in Bucket
         /\ Insert(b, r).lrb_records = b.lrb_records \cup {r}
         /\ Insert(b, r).lrb_rec_count = b.lrb_rec_count + 1
         /\ Insert(b, r).last = r
         /\ Insert(b, r).lrb_ready = b.lrb_ready
  <1>1. /\ b.lrb_records \cup {r} \in SUBSET Records
        /\ b.lrb_rec_count + 1 \in Nat
    BY DEF Bucket
  <1>2. Insert(b, r) = [b EXCEPT !.lrb_records = b.lrb_records \cup {r},
                                 !.lrb_rec_count = b.lrb_rec_count + 1,
                                 !.last = r]
    BY DEF Insert
  <1>3. Insert(b, r) \in Bucket
    BY <1>1, <1>2 DEF Bucket
  <1> QED
    BY <1>2, <1>3 DEF Bucket

\* changelog_reader_rec_store() puts the record in the bucket that is open
\* afterwards, the last of the list.
LEMMA RecStoreFacts ==
  ASSUME IInv, "reuse" \notin Faults, pc = "recv", NEW r \in Records,
         changelog_reader_rec_store(r)
  PROVE  \E n \in BktIds, old \in Bucket :
           /\ bkt' = [bkt EXCEPT ![n] = Insert(old, r)]
           /\ re_buckets' = re_buckets \cup {n}
           /\ re_current_open' = n
           /\ re_bkt_idx' = n + 1
           /\ re_deliver_next' = re_deliver_next
           /\ re_cleanup_next' = re_cleanup_next
           /\ cs_bucket' = cs_bucket
           /\ old.lrb_rec_count < BatchCount
           /\ \/ n = re_current_open /\ n \in re_buckets /\ old = bkt[n]
              \/ n = re_bkt_idx /\ n \notin re_buckets /\ old = EmptyBucket
  <1> USE ReaderAssumption DEF ReaderAssumption, IInv
  <1>1. /\ re_current_open \in re_buckets
        /\ re_current_open \in BktIds /\ bkt[re_current_open] \in Bucket
        /\ re_bkt_idx = re_current_open + 1
        /\ re_current_open # NULL
    BY DEF Pointers, TypeOK, Running, BktIds, NULL
  <1>2. CASE ~NeedsBucket
    <2> DEFINE n == re_current_open
    <2>1. /\ bkt' = [bkt EXCEPT ![n] = Insert(bkt[n], r)]
          /\ UNCHANGED <<re_bkt_idx, re_buckets, re_current_open,
                         re_deliver_next, re_cleanup_next, cs_bucket>>
      BY <1>2 DEF changelog_reader_rec_store
    <2>2. bkt[n].lrb_rec_count < BatchCount
      BY <1>1, <1>2 DEF NeedsBucket, CacheBounded, Bucket
    <2>3. re_buckets' = re_buckets \cup {n} /\ re_bkt_idx' = n + 1
      BY <1>1, <2>1
    <2> QED
      BY <1>1, <2>1, <2>2, <2>3
  <1>3. CASE NeedsBucket
    <2> DEFINE n == re_bkt_idx
    <2>1. rec_bucket_add(bkt, Insert(EmptyBucket, r))
          /\ PointersAfterAdd(re_deliver_next, cs_bucket)
      BY <1>3 DEF changelog_reader_rec_store
    <2>2. /\ re_deliver_next' = re_deliver_next
          /\ re_cleanup_next' = re_cleanup_next
          /\ cs_bucket' = cs_bucket
      BY <2>1, PointersKept DEF TypeOK
    <2>3. n \in BktIds /\ n \notin re_buckets
      BY <2>1 DEF rec_bucket_add, Pointers, TypeOK, BktIds
    <2>4. EmptyBucket \in Bucket /\ EmptyBucket.lrb_rec_count < BatchCount
      BY EmptyTypes DEF EmptyBucket
    <2> QED
      BY <2>1, <2>2, <2>3, <2>4 DEF rec_bucket_add
  <1> QED
    BY <1>2, <1>3

\* recv_store: the record goes to the end of the last bucket.
LEMMA RecvStoreInv ==
  ASSUME IInv, "reuse" \notin Faults, recv_store PROVE IInv'
  <1> USE ReaderAssumption DEF ReaderAssumption, IInv
  <1> DEFINE r == re_clpriv
  <1>1. /\ pc = "recv" /\ TerminateSig = 0
        /\ re_clpriv <= produced /\ re_clpriv >= re_srec
        /\ changelog_reader_rec_store(r)
        /\ re_srec' = r + 1 /\ re_clpriv' = r + 1
        /\ re_rec_cnt' = re_rec_cnt + 1
        /\ UNCHANGED <<produced, purged, TerminateSig, re_peers, lent, late,
                       req, rep, acked>>
    BY DEF recv_store, lustre, wire
  <1>2. /\ r = NextRecord /\ r \in Records /\ purged < r
        /\ bkt[re_current_open].lrb_rec_count > 0 =>
             bkt[re_current_open].last = r - 1
    BY <1>1, StoredRecord
  <1>3. r \in Nat /\ r <= MaxRec /\ purged \in Nat /\ re_srec \in Nat
    BY <1>2 DEF Records, TypeOK
  <1>4. PICK n \in BktIds, old \in Bucket :
          /\ bkt' = [bkt EXCEPT ![n] = Insert(old, r)]
          /\ re_buckets' = re_buckets \cup {n}
          /\ re_current_open' = n
          /\ re_bkt_idx' = n + 1
          /\ re_deliver_next' = re_deliver_next
          /\ re_cleanup_next' = re_cleanup_next
          /\ cs_bucket' = cs_bucket
          /\ old.lrb_rec_count < BatchCount
          /\ \/ n = re_current_open /\ n \in re_buckets /\ old = bkt[n]
             \/ n = re_bkt_idx /\ n \notin re_buckets /\ old = EmptyBucket
    BY <1>1, <1>2, RecStoreFacts
  <1>5. /\ bkt' \in [BktIds -> Bucket]
        /\ bkt'[n].lrb_records = old.lrb_records \cup {r}
        /\ bkt'[n].lrb_rec_count = old.lrb_rec_count + 1
        /\ bkt'[n].last = r
        /\ bkt'[n].lrb_ready = old.lrb_ready
        /\ \A b \in BktIds \ {n} : bkt'[b] = bkt[b]
    BY <1>2, <1>4, InsertFacts DEF TypeOK
  <1>6. \A b \in re_buckets : b <= n
    BY <1>1, <1>4 DEF Pointers, TypeOK, BktIds, Running
  <1>7. old.lrb_rec_count \in Nat
    BY DEF Bucket
  \* What the target bucket held ends just before the new record.
  <1>8. /\ old.lrb_records = (r - old.lrb_rec_count) .. (r - 1)
        /\ old.lrb_rec_count > 0 => purged < r - old.lrb_rec_count
    <2>1. CASE old.lrb_rec_count = 0
      <3>1. old.lrb_records = {}
        <4>1. CASE n \in re_buckets /\ old = bkt[n]
          BY <2>1, <4>1 DEF Intervals, Interval
        <4>2. CASE old = EmptyBucket
          BY <4>2 DEF EmptyBucket
        <4> QED
          BY <1>4, <4>1, <4>2
      <3>2. (r - 0) .. (r - 1) = {}
        BY <1>3
      <3> QED
        BY <2>1, <3>1, <3>2
    <2>2. CASE old.lrb_rec_count > 0
      <3>1. n = re_current_open /\ n \in re_buckets /\ old = bkt[n]
        BY <1>4, <2>2 DEF EmptyBucket
      <3>2. old.last = r - 1 /\ Interval(old)
        BY <1>2, <2>2, <3>1 DEF Intervals
      <3> QED
        BY <1>3, <1>7, <2>2, <3>2 DEF Interval
    <2> QED
      BY <1>7, <2>1, <2>2
  <1>9. \A b \in re_buckets : \A s \in bkt[b].lrb_records : s \in Int /\ s < r
    <2> SUFFICES ASSUME NEW b \in re_buckets, NEW s \in bkt[b].lrb_records
                 PROVE  s \in Int /\ s < r
      OBVIOUS
    <2>1. bkt[b] \in Bucket /\ s \in Int
      BY DEF TypeOK, Bucket, Records
    <2>2. bkt[b].last \in Int /\ bkt[b].lrb_rec_count \in Nat
      BY <2>1 DEF Bucket, Records
    <2>3. s <= bkt[b].last /\ bkt[b].last < re_srec
      <3>1. Interval(bkt[b])
        BY DEF Intervals
      <3>2. bkt[b].lrb_rec_count # 0
        BY <3>1 DEF Interval
      <3> QED
        BY <2>1, <2>2, <3>1, <3>2 DEF Interval
    <2> QED
      BY <1>1, <1>3, <2>1, <2>2, <2>3
  <1>10. /\ pc' \in {"recv", "serve"} /\ batch_count' \in 0 .. BatchCount
         /\ pc' = "recv" => ~changelog_reader_full(re_rec_cnt')
    BY <1>1 DEF recv_store, LeaveLoop, TypeOK
  <1>11. TypeOK'
    <2>1. /\ re_srec' \in 0 .. (MaxRec + 1) /\ re_clpriv' \in 0 .. (MaxRec + 1)
          /\ re_rec_cnt' \in Int
          /\ re_bkt_idx' \in 0 .. MaxBuckets
      BY <1>1, <1>3, <1>4 DEF TypeOK, BktIds
    <2> QED
      BY <1>1, <1>4, <1>5, <1>10, <2>1 DEF TypeOK, Running, Pointer
  <1>12. DownEmpty'
    BY <1>10 DEF DownEmpty, Running
  <1>13. Pointers'
    <2>1. re_cleanup_next <= n
      BY <1>1, <1>4, <1>6
      DEF Pointers, TypeOK, Running, BktIds, Pointer, NULL
    <2> QED
      BY <1>4, <1>6, <2>1 DEF Pointers, TypeOK, BktIds
  <1>14. Stream'
    <2>1. purged <= produced /\ r <= produced /\ produced \in Nat
      BY DEF Stream, TypeOK, recv_store
    <2> QED
      BY <1>1, <1>2, <1>3, <1>10, <2>1 DEF Stream, NextRecord, NoStream
  <1>15. Intervals'
    <2>1. ASSUME NEW b \in re_buckets, b # n PROVE (Interval(bkt[b]))'
      <3>1. bkt'[b] = bkt[b] /\ Interval(bkt[b]) /\ bkt[b] \in Bucket
        BY <1>5, <2>1 DEF Intervals, TypeOK
      <3>2. bkt[b].last \in Int
        BY <3>1 DEF Bucket, Records
      <3> QED
        BY <1>1, <1>3, <3>1, <3>2 DEF Interval
    <2>2. (Interval(bkt[n]))'
      BY <1>1, <1>2, <1>3, <1>5, <1>7, <1>8 DEF Interval
    <2> QED
      BY <1>4, <2>1, <2>2 DEF Intervals
  <1>16. Ordered'
    <2> SUFFICES ASSUME NEW a \in re_buckets', NEW b \in re_buckets', a < b,
                        NEW x \in bkt'[a].lrb_records,
                        NEW y \in bkt'[b].lrb_records
                 PROVE  x < y
      BY DEF Ordered
    <2>1. a # n /\ a \in re_buckets /\ x \in bkt[a].lrb_records
      BY <1>4, <1>5, <1>6 DEF TypeOK, BktIds
    <2>2. CASE b # n
      BY <1>4, <1>5, <2>1, <2>2 DEF Ordered, TypeOK
    <2>3. CASE b = n /\ y = r
      BY <1>9, <2>1, <2>3
    <2>4. CASE b = n /\ y \in old.lrb_records
      BY <1>4, <2>1, <2>4 DEF Ordered, EmptyBucket
    <2> QED
      BY <1>5, <2>2, <2>3, <2>4
  <1>17. NoRecordForgotten'
    <2> SUFFICES ASSUME NEW s \in Records, purged < s, s < r + 1
                 PROVE  \E b \in re_buckets' : s \in bkt'[b].lrb_records
      BY <1>1 DEF NoRecordForgotten
    <2>1. CASE s = r
      BY <1>4, <1>5, <2>1
    <2>2. CASE s < re_srec
      <3>1. PICK b \in re_buckets : s \in bkt[b].lrb_records
        BY <2>2 DEF NoRecordForgotten
      <3>2. CASE b = n
        BY <1>4, <1>5, <3>1, <3>2
      <3>3. CASE b # n
        BY <1>4, <1>5, <3>1, <3>3 DEF TypeOK
      <3> QED
        BY <3>2, <3>3
    <2>3. s = r \/ s < re_srec
      BY <1>2, <1>3 DEF NextRecord, Records
    <2> QED
      BY <2>1, <2>2, <2>3
  <1>18. CacheBounded'
    <2>1. re_rec_cnt' = re_srec' - 1 - purged' /\ re_srec' # 0
      BY <1>1, <1>2, <1>3 DEF CacheBounded, NextRecord
    <2>2. re_rec_cnt' <= Capacity
      BY <1>1, CapacityType DEF Stream, changelog_reader_full, TypeOK
    <2>3. \A b \in re_buckets' : bkt'[b].lrb_rec_count <= BatchCount
      BY <1>4, <1>5, <1>7 DEF CacheBounded, TypeOK
    <2> QED
      BY <2>1, <2>2, <2>3 DEF CacheBounded
  <1>19. \A c \in Clients : cs_bucket[c] # NULL =>
            cs_bucket[c] < n /\ (cs_bucket[c] \in re_buckets' =>
                                   cs_bucket[c] \in re_buckets)
    BY <1>1, <1>4, <1>6 DEF Owners, Pointers, TypeOK, BktIds, Pointer, Running
  <1>20. Owners'
    BY <1>1, <1>4, <1>5, <1>19 DEF Owners, TypeOK, BktIds
  <1>21. Ready'
    <2>1. ~old.lrb_ready
      BY <1>4 DEF Ready, EmptyBucket
    <2> QED
      BY <1>1, <1>4, <1>5, <2>1 DEF Ready, TypeOK
  <1>22. PurgedAcked'
    BY <1>1 DEF PurgedAcked
  <1> QED
    BY <1>11, <1>12, <1>13, <1>14, <1>15, <1>16, <1>17, <1>18, <1>20, <1>21,
       <1>22

-----------------------------------------------------------------------------
(***************************************************************************)
(* The theorems.                                                           *)
(***************************************************************************)

\* Every step of the reader, its clients, the clock and Lustre preserves IInv.
LEMMA NextInv ==
  ASSUME IInv, "reuse" \notin Faults, [Next]_vars PROVE IInv'
  <1>1. CASE UNCHANGED vars
    <2>1. UNCHANGED <<purged, cache, cs_bucket, lent, acked, pc, re_clpriv>>
      BY <1>1 DEF vars, lustre, thread, peers
    <2>2. TypeOK'
      BY <1>1 DEF IInv, TypeOK, vars, lustre, thread, cache, peers, wire
    <2>3. Stream'
      BY <1>1 DEF IInv, Stream, NextRecord, vars, lustre, thread, cache
    <2> QED
      BY <2>1, <2>2, <2>3, QuietInv DEF IInv, DownEmpty
  <1>2. CASE Fill
    <2>1. CASE enqueue_start_fails \/ recv_store_fails \/ recv_error
      BY <2>1, ExitInv DEF enqueue_start_fails, recv_store_fails, recv_error
    <2>2. CASE recv_store
      BY <2>2, RecvStoreInv
    <2> QED
      BY <1>2, <2>1, <2>2, FillInv DEF Fill
  <1>3. ASSUME NEW c \in Clients, Handle(c) PROVE IInv'
    <2>1. CASE dequeue_freed(c) \/ dequeue_overrun(c)
      BY <2>1, ExitInv DEF dequeue_freed, dequeue_overrun
    <2> QED
      BY <1>3, <2>1, QuietHandlerInv, DequeueAddFailsInv, DequeueInv,
         ClearKeepsInv, ClearInv, ClearCrashInv, FiniInv
      DEF Handle
  <1>4. CASE reader_init_fails \/ reader_main_ends \/ serve_interrupted
    BY <1>4, ExitInv DEF reader_init_fails, reader_main_ends, serve_interrupted
  <1> QED
    BY <1>1, <1>2, <1>3, <1>4, InitReaderInv, QuietStepInv, TickInv
    DEF Next, reader_main

\* IInv is an invariant of the reader.
THEOREM Invariance == "reuse" \notin Faults => (Spec => []IInv)
  <1> SUFFICES ASSUME "reuse" \notin Faults PROVE Spec => []IInv
    OBVIOUS
  <1>1. IInv /\ [Next]_vars => IInv'
    BY NextInv
  <1> QED
    BY InitInv, <1>1, PTL DEF Spec

\* IInv implies the safety properties of Reader that are not conjuncts of it.
LEMMA Consequences == IInv => BucketsInOrder /\ LentStable
  <1> SUFFICES ASSUME IInv PROVE BucketsInOrder /\ LentStable
    OBVIOUS
  <1> USE ReaderAssumption DEF ReaderAssumption, IInv
  <1>1. ASSUME NEW b \in re_buckets
        PROVE  bkt[b].lrb_records =
                 IF bkt[b].lrb_rec_count = 0 THEN {}
                 ELSE (bkt[b].last - bkt[b].lrb_rec_count + 1) .. bkt[b].last
    <2>1. bkt[b].lrb_rec_count \in Nat /\ Interval(bkt[b])
      BY DEF Intervals, TypeOK, Bucket
    <2>2. CASE bkt[b].lrb_rec_count = 0
      BY <2>1, <2>2 DEF Interval
    <2>3. CASE bkt[b].lrb_rec_count # 0
      BY <2>1, <2>3 DEF Interval
    <2> QED
      BY <2>2, <2>3
  <1>2. BucketsInOrder
    BY <1>1 DEF BucketsInOrder, Ordered
  <1>3. LentStable
    <2>1. \A b \in re_buckets : b # NULL
      BY DEF TypeOK, BktIds, NULL
    <2> QED
      BY <2>1 DEF LentStable, Owners
  <1> QED
    BY <1>2, <1>3

\* The variables of the reader keep their types.
THEOREM TypeCorrect == "reuse" \notin Faults => (Spec => []TypeOK)
  BY Invariance, PTL DEF IInv

\* No record is taken out of the changelog before a client acknowledged it.
THEOREM AtLeastOnce == "reuse" \notin Faults => (Spec => []PurgedAcked)
  BY Invariance, PTL DEF IInv

\* The reader forgets no record that it has read and not cleared.
THEOREM NothingForgotten == "reuse" \notin Faults => (Spec => []NoRecordForgotten)
  BY Invariance, PTL DEF IInv

\* The cache is never filled past its dimensions, and is counted right.
THEOREM Bounded == "reuse" \notin Faults => (Spec => []CacheBounded)
  BY Invariance, PTL DEF IInv

\* Buckets hold consecutive records, in the order of the list.
THEOREM InOrder == "reuse" \notin Faults => (Spec => []BucketsInOrder)
  BY Invariance, Consequences, PTL

\* A CLEAR acknowledges exactly the records that its client was sent.
THEOREM AcksWhatWasSent == "reuse" \notin Faults => (Spec => []LentStable)
  BY Invariance, Consequences, PTL
=============================================================================
