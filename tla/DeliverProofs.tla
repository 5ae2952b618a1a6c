---------------------------- MODULE DeliverProofs ---------------------------
(***************************************************************************)
(* rec_bucket_get() lends a bucket to one client at a time, for every      *)
(* instance of Reader without fault "reuse".                               *)
(***************************************************************************)
EXTENDS ReaderProofs

\* What DeliverInv speaks of.
delivery == <<re_cleanup_next, re_bkt_idx, re_buckets, re_deliver_next,
              cs_bucket, late>>

\* Buckets are numbered, and NULL is no bucket.
LEMMA BktIdsNat == \A b \in BktIds : b \in Nat /\ b \in Int /\ b # NULL
  BY ReaderAssumption DEF ReaderAssumption, BktIds, NULL

\* A step that leaves it alone preserves DeliverInv.
LEMMA DeliverQuiet == ASSUME DeliverInv, UNCHANGED delivery PROVE DeliverInv'
  BY DEF DeliverInv, NoGap, DeliverPast, Exclusive, delivery

\* Without buckets or owners there is nothing to show.
LEMMA DeliverDown == ASSUME Down PROVE DeliverInv'
  <1>1. \A b \in BktIds : ~ (b < 0)
    BY ReaderAssumption DEF ReaderAssumption, BktIds
  <1>2. \A c \in Clients : cs_bucket'[c] = NULL
    BY DEF Down
  <1>3. re_bkt_idx' = 0
    BY DEF Down
  <1> QED
    BY <1>1, <1>2, <1>3 DEF DeliverInv, NoGap, DeliverPast, Exclusive

\* A client that gives its bucket back, on time or not, takes nobody else's;
\* the first bucket may be unlinked.
LEMMA DeliverReturn ==
  ASSUME TypeOK, DeliverInv, NEW c \in Clients,
         cs_bucket' = [cs_bucket EXCEPT ![c] = NULL],
         late' = late \ {c},
         UNCHANGED <<re_cleanup_next, re_bkt_idx, re_deliver_next>>,
         re_buckets' \in {re_buckets, re_buckets \ {re_cleanup_next}}
  PROVE  DeliverInv'
  <1>1. NoGap'
    BY ReaderAssumption
    DEF ReaderAssumption, DeliverInv, NoGap, TypeOK, BktIds, Pointer, NULL
  <1>2. \A d \in Clients : cs_bucket'[d] # NULL =>
          d # c /\ cs_bucket'[d] = cs_bucket[d]
    BY DEF TypeOK
  <1>3. \A d \in Clients \ {c} : d \in late' <=> d \in late
    OBVIOUS
  <1>4. DeliverPast'
    BY <1>2, <1>3 DEF DeliverInv, DeliverPast
  <1>5. Exclusive'
    BY <1>2, <1>3 DEF DeliverInv, Exclusive
  <1> QED
    BY <1>1, <1>4, <1>5 DEF DeliverInv

\* rec_bucket_get() returns a bucket that no client processes in time, once
\* those that are overdue are set apart: deliver_next is past the others, and
\* a time-out rewinds it over all the buckets that are still linked.
LEMMA GetIsFree ==
  ASSUME IInv, DeliverInv, pc = "serve", NEW e \in Expired,
         rec_bucket_get(e) \in re_buckets,
         NEW d \in Clients \ (late \cup Overdue(e)), cs_bucket[d] # NULL
  PROVE  cs_bucket[d] < rec_bucket_get(e)
  <1> USE ReaderAssumption DEF ReaderAssumption, IInv
  <1>1. /\ cs_bucket[d] \in BktIds /\ cs_bucket[d] \in Int
        /\ re_buckets \subseteq BktIds
    BY BktIdsNat DEF TypeOK, Pointer
  <1>2. CASE ~e
    <2>1. rec_bucket_get(e) = re_deliver_next /\ re_deliver_next # NULL
      BY <1>1, <1>2, BktIdsNat DEF rec_bucket_get
    <2> QED
      BY <2>1 DEF DeliverInv, DeliverPast
  <1>3. CASE e
    <2> DEFINE k == re_cleanup_next
    <2>1. rec_bucket_get(e) = k /\ k \in re_buckets
      BY <1>3 DEF rec_bucket_get
    <2>2. cs_bucket[d] \notin Rewound
      BY <1>3 DEF Overdue
    <2>3. cs_bucket[d] \notin FromFirst
      <3>1. CASE re_deliver_next \in FromFirst
        <4>1. re_deliver_next # NULL
          BY <1>1, <3>1, BktIdsNat DEF FromFirst
        <4>2. cs_bucket[d] < re_deliver_next
          BY <4>1 DEF DeliverInv, DeliverPast
        <4> QED
          BY <2>2, <3>1, <4>2 DEF Rewound
      <3>2. CASE re_deliver_next \notin FromFirst
        BY <2>2, <3>2 DEF Rewound
      <3> QED
        BY <3>1, <3>2
    <2>4. cs_bucket[d] < re_bkt_idx
      <3>1. cs_bucket[d] < re_current_open /\ re_current_open = re_bkt_idx - 1
        BY DEF Owners, Pointers, Running
      <3>2. cs_bucket[d] \in Int /\ re_bkt_idx \in Int
        BY <1>1 DEF TypeOK
      <3> QED
        BY <3>1, <3>2
    <2>5. cs_bucket[d] # k /\ ~ (k < cs_bucket[d])
      <3> HIDE DEF IInv
      <3>1. k < cs_bucket[d] => cs_bucket[d] \in re_buckets
        BY <1>1, <2>4 DEF DeliverInv, NoGap
      <3>2. k \in Int /\ cs_bucket[d] \in Int
        BY <1>1, <2>1, BktIdsNat
      <3>3. ~ (cs_bucket[d] \in re_buckets /\ cs_bucket[d] >= k)
        BY <2>3 DEF FromFirst
      <3> QED
        BY <2>1, <3>1, <3>2, <3>3
    <2> QED
      <3>1. k \in Int /\ cs_bucket[d] \in Int
        BY <1>1, <2>1, BktIdsNat
      <3> QED
        BY <2>1, <2>5, <3>1
  <1>4. e \in BOOLEAN
    BY DEF Expired
  <1> QED
    BY <1>2, <1>3, <1>4

\* A DEQUEUE that fails to allocate has moved deliver_next past the open bucket.
LEMMA DeliverAddFails ==
  ASSUME IInv, DeliverInv, NEW c \in Clients, dequeue_add_fails(c)
  PROVE  DeliverInv'
  <1>1. PICK e \in Expired :
          /\ rec_bucket_get(e) \in re_buckets
          /\ late' = late \cup Overdue(e)
          /\ re_deliver_next' = bucket_next(rec_bucket_get(e))
    BY DEF dequeue_add_fails
  <1>2. /\ pc = "serve"
        /\ UNCHANGED <<re_bkt_idx, re_buckets, re_cleanup_next, cs_bucket>>
    BY DEF dequeue_add_fails, Serving
  <1> DEFINE b == rec_bucket_get(e)
  <1>3. b \in BktIds /\ b \in Int
    BY <1>1, BktIdsNat DEF IInv, TypeOK
  <1>4. bucket_next(b) # NULL => bucket_next(b) \in Int /\ bucket_next(b) > b
    BY <1>3, BucketNext, BktIdsNat DEF IInv, TypeOK
  <1>5. NoGap' /\ Exclusive'
    BY <1>1, <1>2 DEF DeliverInv, NoGap, Exclusive
  <1>6. DeliverPast'
    <2> SUFFICES ASSUME NEW d \in Clients \ late', cs_bucket[d] # NULL,
                        bucket_next(b) # NULL
                 PROVE  cs_bucket[d] < bucket_next(b)
      BY <1>1, <1>2 DEF DeliverPast
    <2>1. cs_bucket[d] < b
      BY <1>1, <1>2, GetIsFree
    <2>2. cs_bucket[d] \in Int
      BY BktIdsNat DEF IInv, TypeOK, Pointer
    <2> HIDE DEF b
    <2> QED
      BY <1>3, <1>4, <2>1, <2>2
  <1> QED
    BY <1>5, <1>6 DEF DeliverInv

\* reader_handle_dequeue() lends a bucket nobody else processes in time.
LEMMA DeliverDequeue ==
  ASSUME IInv, DeliverInv, "reuse" \notin Faults, NEW c \in Clients,
         reader_handle_dequeue(c)
  PROVE  DeliverInv'
  <1> USE ReaderAssumption DEF ReaderAssumption, IInv
  <1>1. PICK e \in Expired :
          LET b  == rec_bucket_get(e)
              cs == [cs_bucket EXCEPT ![c] = b]
          IN /\ b \in re_buckets
             /\ \/ /\ re_deliver_next' = bucket_next(b)
                   /\ cs_bucket' = cs
                   /\ UNCHANGED <<re_bkt_idx, re_buckets, re_cleanup_next>>
                \/ /\ \E heap : rec_bucket_add(heap, EmptyBucket)
                   /\ PointersAfterAdd(bucket_next(b), cs)
             /\ late' = late \cup Overdue(e)
    BY DEF reader_handle_dequeue
  <1>2. pc = "serve" /\ cs_bucket[c] = NULL
    BY DEF reader_handle_dequeue, Serving
  <1> DEFINE b  == rec_bucket_get(e)
             cs == [cs_bucket EXCEPT ![c] = b]
  <1>3. b \in BktIds /\ b \in Int /\ b # NULL /\ b \in re_buckets
    BY <1>1, BktIdsNat DEF TypeOK
  <1>4. bucket_next(b) # NULL => bucket_next(b) \in Int /\ bucket_next(b) > b
    BY <1>3, BucketNext, BktIdsNat DEF TypeOK
  <1>5. cs \in [Clients -> Pointer] /\ bucket_next(b) \in Pointer
    BY <1>3, BucketNextType DEF TypeOK, Pointer
  <1>6. \A d \in Clients \ late' : cs_bucket[d] # NULL => cs_bucket[d] < b
    BY <1>1, <1>2, GetIsFree
  <1>7. cs[c] = b /\ \A d \in Clients \ {c} : cs[d] = cs_bucket[d]
    BY DEF TypeOK
  <1>8. /\ re_deliver_next' = bucket_next(b)
        /\ cs_bucket' = cs
        /\ re_cleanup_next' = re_cleanup_next
        /\ \/ UNCHANGED <<re_bkt_idx, re_buckets>>
           \/ /\ re_bkt_idx' = re_bkt_idx + 1
              /\ re_buckets' = re_buckets \cup {re_bkt_idx}
    <2>1. CASE UNCHANGED <<re_bkt_idx, re_buckets, re_cleanup_next>>
                 /\ re_deliver_next' = bucket_next(b) /\ cs_bucket' = cs
      BY <2>1
    <2>2. CASE /\ \E heap : rec_bucket_add(heap, EmptyBucket)
               /\ PointersAfterAdd(bucket_next(b), cs)
      <3> HIDE DEF b, cs
      <3>1. /\ re_deliver_next' = bucket_next(b)
            /\ cs_bucket' = cs
            /\ re_cleanup_next' = re_cleanup_next
        BY <1>5, <2>2, PointersKept DEF TypeOK
      <3> QED
        BY <2>2, <3>1 DEF rec_bucket_add
    <2> QED
      BY <1>1, <2>1, <2>2
  <1> HIDE DEF b, cs
  <1>9. NoGap'
    BY <1>8 DEF DeliverInv, NoGap, TypeOK, BktIds
  <1>10. \A d \in Clients : cs_bucket[d] # NULL => cs_bucket[d] \in Int
    BY BktIdsNat DEF TypeOK, Pointer
  <1>11. DeliverPast'
    BY <1>3, <1>4, <1>6, <1>7, <1>8, <1>10 DEF DeliverPast
  <1>12. late \subseteq late'
    BY <1>1
  <1>13. Exclusive'
    BY <1>3, <1>6, <1>7, <1>8, <1>10, <1>12 DEF DeliverInv, Exclusive
  <1> QED
    BY <1>9, <1>11, <1>13 DEF DeliverInv

\* recv_store links a bucket at the end of the list at most.
LEMMA DeliverStore ==
  ASSUME IInv, DeliverInv, "reuse" \notin Faults, recv_store
  PROVE  DeliverInv'
  <1>1. /\ pc = "recv" /\ TerminateSig = 0 /\ re_clpriv <= produced
        /\ re_clpriv >= re_srec
        /\ changelog_reader_rec_store(re_clpriv) /\ late' = late
    BY DEF recv_store
  <1>2. re_clpriv \in Records
    BY <1>1, StoredRecord
  <1>3. PICK n \in BktIds :
          /\ re_buckets' = re_buckets \cup {n}
          /\ re_bkt_idx' = n + 1
          /\ re_deliver_next' = re_deliver_next
          /\ re_cleanup_next' = re_cleanup_next
          /\ cs_bucket' = cs_bucket
          /\ n = re_current_open \/ n = re_bkt_idx
    BY <1>1, <1>2, RecStoreFacts
  <1>4. re_current_open = re_bkt_idx - 1
    BY <1>1 DEF IInv, Pointers, Running
  <1>5. NoGap'
    BY <1>3, <1>4, ReaderAssumption
    DEF ReaderAssumption, DeliverInv, NoGap, IInv, TypeOK, BktIds
  <1>6. DeliverPast' /\ Exclusive'
    BY <1>1, <1>3 DEF DeliverInv, DeliverPast, Exclusive
  <1> QED
    BY <1>5, <1>6 DEF DeliverInv

\* Every step of the reader preserves DeliverInv.
LEMMA DeliverNext ==
  ASSUME IInv, DeliverInv, "reuse" \notin Faults, [Next]_vars
  PROVE  DeliverInv'
  <1> USE DEF lustre, thread, cache, peers, wire, rest, delivery
  <1>1. CASE UNCHANGED vars
    BY <1>1, DeliverQuiet DEF vars
  <1>2. CASE Fill
    <2>1. CASE enqueue_start_fails \/ recv_store_fails \/ recv_error
      BY <2>1, DeliverDown
      DEF enqueue_start_fails, recv_store_fails, recv_error, Exit
    <2>2. CASE recv_store
      BY <2>2, DeliverStore
    <2>3. CASE \/ enqueue_full \/ enqueue_start \/ recv_skip
               \/ recv_terminated \/ recv_eof
      <3>1. UNCHANGED delivery
        BY <2>3
        DEF enqueue_full, enqueue_start, recv_skip, recv_terminated, recv_eof
      <3> QED
        BY <3>1, DeliverQuiet
    <2> QED
      BY <1>2, <2>1, <2>2, <2>3 DEF Fill
  <1>3. ASSUME NEW c \in Clients, Handle(c) PROVE DeliverInv'
    <2>1. CASE \/ dequeue_freed(c) \/ dequeue_overrun(c)
               \/ clear_use_after_free(c) \/ clear_freed(c)
      BY <2>1, DeliverDown
      DEF dequeue_freed, dequeue_overrun, clear_use_after_free, clear_freed, Exit
    <2>2. CASE clear_waits(c) \/ clear_fails(c) \/ reader_handle_clear(c)
      <3>1. /\ Acknowledge(c)
            /\ re_buckets' \in {re_buckets, re_buckets \ {re_cleanup_next}}
        BY <2>2 DEF clear_waits, clear_fails, reader_handle_clear
      <3> QED
        BY <3>1, DeliverReturn DEF Acknowledge, IInv
    <2>3. CASE reader_handle_fini(c) /\ c \in re_peers
      <3>1. /\ cs_bucket' = [cs_bucket EXCEPT ![c] = NULL]
            /\ late' = late \ {c}
            /\ UNCHANGED cache
        BY <2>3 DEF reader_handle_fini
      <3> QED
        BY <3>1, DeliverReturn DEF IInv
    <2>4. CASE \/ rpc_invalid(c) \/ reader_handle_start(c) \/ dequeue_refused(c)
               \/ dequeue_eof(c) \/ clear_refused(c) \/ clear_nothing(c)
               \/ reader_handle_fini(c) /\ c \notin re_peers
      <3>1. UNCHANGED delivery
        BY <2>4
        DEF rpc_invalid, reader_handle_start, dequeue_refused, dequeue_eof,
            clear_refused, clear_nothing, reader_handle_fini, Refuse
      <3> QED
        BY <3>1, DeliverQuiet
    <2> QED
      BY <1>3, <2>1, <2>2, <2>3, <2>4, DeliverAddFails, DeliverDequeue DEF Handle
  <1>4. CASE reader_init_fails \/ reader_main_ends \/ serve_interrupted
    BY <1>4, DeliverDown
    DEF reader_init_fails, reader_main_ends, serve_interrupted, Exit
  <1>5. CASE changelog_reader_init
    <2>1. /\ re_bkt_idx = 0 /\ re_buckets = {}
          /\ \A c \in Clients : cs_bucket[c] = NULL
      BY <1>5 DEF IInv, DownEmpty, Running, changelog_reader_init
    <2>2. re_bkt_idx' = 1 /\ re_cleanup_next' = 0 /\ UNCHANGED cs_bucket
      BY <1>5, <2>1 DEF changelog_reader_init, rec_bucket_add
    <2>3. \A b \in BktIds : ~ (0 < b /\ b < 1)
      BY BktIdsNat
    <2> QED
      BY <2>1, <2>2, <2>3 DEF DeliverInv, NoGap, DeliverPast, Exclusive
  <1>6. CASE \/ Restart \/ lcap_sigterm \/ serve_done \/ Produce \/ Tick
             \/ \E c \in Clients, op \in Ops : Request(c, op)
    <2>1. UNCHANGED delivery
      BY <1>6 DEF Restart, lcap_sigterm, serve_done, Produce, Tick, Request
    <2> QED
      BY <2>1, DeliverQuiet
  <1> QED
    BY <1>1, <1>2, <1>3, <1>4, <1>5, <1>6 DEF Next, reader_main

\* It holds initially: there is no bucket.
LEMMA DeliverInit == Init => DeliverInv
  <1> SUFFICES ASSUME Init PROVE DeliverInv
    OBVIOUS
  <1>1. re_bkt_idx = 0 /\ \A c \in Clients : cs_bucket[c] = NULL
    BY DEF Init
  <1>2. \A b \in BktIds : ~ (b < 0)
    BY BktIdsNat
  <1> QED
    BY <1>1, <1>2 DEF DeliverInv, NoGap, DeliverPast, Exclusive

\* Unless a freed bucket's memory is used again, rec_bucket_get() lends the cache
\* out in order: the list has no gap after the bucket that cleanup_next designates,
\* deliver_next is past every bucket being processed, and no two clients have the
\* same one (but those that a time-out took a bucket from).
THEOREM DeliverInvariance == "reuse" \notin Faults => (Spec => []DeliverInv)
  <1> SUFFICES ASSUME "reuse" \notin Faults PROVE Spec => []DeliverInv
    OBVIOUS
  <1>1. IInv /\ DeliverInv /\ [Next]_vars => DeliverInv'
    BY DeliverNext
  <1>2. Spec => []IInv
    BY Invariance
  <1> QED
    BY DeliverInit, <1>1, <1>2, PTL DEF Spec

\* Two clients never process the same bucket, unless the time-out of
\* rec_bucket_get() took it from one of them.
THEOREM OneOwner == "reuse" \notin Faults => (Spec => []Exclusive)
  <1>1. DeliverInv => Exclusive
    BY DEF DeliverInv
  <1> QED
    BY <1>1, DeliverInvariance, PTL
=============================================================================
