-------------------------- MODULE ReaderRefinement --------------------------
(***************************************************************************)
(* Proof that Reader implements ChangelogProxy: buckets, pointers, timers  *)
(* and failures are ways to do what the proxy promises.                    *)
(***************************************************************************)
EXTENDS ReaderProofs

\* The cache holds the records read and not cleared upstream, and no other.
LEMMA CachedInterval ==
  ASSUME IInv PROVE CachedRecords = (purged + 1) .. (re_srec - 1)
  <1> USE ReaderAssumption DEF ReaderAssumption, IInv
  <1>0. purged \in Nat /\ re_srec \in Nat /\ re_srec <= MaxRec + 1
    BY DEF TypeOK
  <1>1. ASSUME NEW r \in CachedRecords PROVE r \in (purged + 1) .. (re_srec - 1)
    <2>1. PICK b \in re_buckets : r \in bkt[b].lrb_records
      BY <1>1 DEF CachedRecords
    <2>2. /\ Interval(bkt[b]) /\ bkt[b].lrb_rec_count \in Nat
          /\ bkt[b].last \in Int
      BY DEF Intervals, TypeOK, Bucket, Records
    <2>3. /\ bkt[b].lrb_records =
               (bkt[b].last - bkt[b].lrb_rec_count + 1) .. bkt[b].last
          /\ purged < bkt[b].last - bkt[b].lrb_rec_count + 1
          /\ bkt[b].last < re_srec
      BY <2>1, <2>2 DEF Interval
    <2> QED
      BY <1>0, <2>1, <2>2, <2>3
  <1>2. ASSUME NEW r \in (purged + 1) .. (re_srec - 1) PROVE r \in CachedRecords
    <2>1. r \in Records /\ purged < r /\ r < re_srec
      BY <1>0, <1>2 DEF Records
    <2> QED
      BY <2>1 DEF NoRecordForgotten, CachedRecords
  <1> QED
    BY <1>1, <1>2

\* The same after a step that preserves the invariant.
LEMMA CachedIntervalNext ==
  IInv' => CachedRecords' = (purged' + 1) .. (re_srec' - 1)
  <1>1. IInv => CachedRecords = (purged + 1) .. (re_srec - 1)
    BY CachedInterval
  <1>2. (IInv => CachedRecords = (purged + 1) .. (re_srec - 1))'
    BY <1>1, PTL
  <1> QED
    BY <1>2

\* Clearing the bucket at cleanup_next moves the changelog forward.
LEMMA ClearForward ==
  ASSUME IInv, re_cleanup_next \in re_buckets,
         llapi_changelog_clear(re_cleanup_next)
  PROVE  purged <= purged'
  <1> DEFINE upTo == rec_bucket_max_index(bkt[re_cleanup_next])
  <1>1. upTo # -1 /\ purged' = IF upTo > purged THEN upTo ELSE purged
    BY DEF llapi_changelog_clear
  <1>2. upTo \in Int /\ purged \in Int
    <2>1. /\ bkt[re_cleanup_next].last \in Records
          /\ bkt[re_cleanup_next].lrb_rec_count > 0
      BY <1>1, FirstBucket
    <2> QED
      BY <2>1, ReaderAssumption
      DEF ReaderAssumption, rec_bucket_max_index, Records, IInv, TypeOK
  <1> HIDE DEF upTo
  <1> QED
    BY <1>1, <1>2

\* A step that neither reads nor clears, lends nor acknowledges a record is a
\* step the proxy does not see.
LEMMA ProxyUnseen ==
  ASSUME IInv, IInv', UNCHANGED <<produced, purged, re_srec, lent, acked>>
  PROVE  UNCHANGED Proxy!vars
  BY CachedInterval, CachedIntervalNext DEF Proxy!vars

\* When the thread ends, the proxy crashes.
LEMMA ExitCrashes ==
  ASSUME Down, UNCHANGED <<produced, purged, acked>> PROVE Proxy!Crash
  BY DEF Down, Proxy!Crash, Proxy!NoLease, CachedRecords

\* recv_store fetches the next record.
LEMMA StoreFetches ==
  ASSUME IInv, IInv', recv_store PROVE Proxy!Fetch
  <1> USE ReaderAssumption DEF ReaderAssumption, IInv
  <1>1. /\ re_clpriv = NextRecord /\ re_clpriv \in Records
        /\ purged < re_clpriv /\ re_clpriv <= produced
    BY StoredRecord DEF recv_store
  <1>2. /\ re_srec' = re_clpriv + 1
        /\ UNCHANGED <<produced, purged, lent, acked>>
    BY DEF recv_store, lustre
  <1>3. /\ purged \in Nat /\ re_srec \in Nat /\ re_clpriv \in Nat
        /\ re_clpriv \in 1 .. produced /\ produced \in Nat
    BY <1>1 DEF TypeOK, Records
  <1>4. CachedRecords = (purged + 1) .. (re_clpriv - 1)
    BY <1>1, <1>3, CachedInterval DEF NextRecord
  <1>5. CachedRecords' = CachedRecords \cup {re_clpriv}
    BY <1>1, <1>2, <1>3, <1>4, CachedIntervalNext
  <1> QED
    BY <1>2, <1>3, <1>4, <1>5 DEF Proxy!Fetch

\* reader_handle_dequeue lends cached records to a client that has none.
LEMMA DequeueLends ==
  ASSUME IInv, IInv', NEW c \in Clients, reader_handle_dequeue(c)
  PROVE  Proxy!Lend(c)
  <1>1. PICK b \in re_buckets :
          lent' = [lent EXCEPT ![c] = bkt[b].lrb_records]
    BY DEF reader_handle_dequeue
  <1>2. /\ cs_bucket[c] = NULL
        /\ UNCHANGED <<produced, purged, re_srec, acked>>
    BY DEF reader_handle_dequeue, lustre
  <1>3. lent[c] = {}
    BY <1>2 DEF IInv, Owners
  <1>4. bkt[b].lrb_records \in SUBSET CachedRecords
    BY DEF CachedRecords
  <1>5. CachedRecords' = CachedRecords
    BY <1>2, CachedInterval, CachedIntervalNext
  <1> QED
    BY <1>1, <1>2, <1>3, <1>4, <1>5 DEF Proxy!Lend

\* A CLEAR settles an acknowledgement, whether or not it clears a bucket.
LEMMA ClearSettles ==
  ASSUME IInv, IInv', NEW c \in Clients, acked' = acked \cup lent[c],
         produced' = produced, purged <= purged'
  PROVE  Proxy!Settle(c)
  <1>1. purged' \in purged .. produced
    BY DEF IInv, TypeOK, Stream
  <1>2. (1 .. purged') \subseteq acked'
    BY DEF IInv, PurgedAcked
  <1> QED
    BY <1>1, <1>2 DEF Proxy!Settle

\* The CLEARs that leave the thread alive are acknowledgements of the proxy.
LEMMA ClearAcks ==
  ASSUME IInv, IInv', NEW c \in Clients,
         clear_waits(c) \/ clear_fails(c) \/ reader_handle_clear(c)
  PROVE  Proxy!Ack(c)
  <1>1. /\ cs_bucket[c] # NULL
        /\ acked' = acked \cup lent[c] /\ produced' = produced
        /\ lent' = [lent EXCEPT ![c] = {}] /\ re_srec' = re_srec
    BY DEF clear_waits, clear_fails, reader_handle_clear, Acknowledge, lustre
  <1>2. /\ purged \in Nat /\ purged' \in Nat /\ re_srec \in Nat
    BY DEF IInv, TypeOK
  <1>3. purged <= purged'
    <2>1. CASE clear_waits(c) \/ clear_fails(c)
      BY <1>2, <2>1 DEF clear_waits, clear_fails, lustre
    <2>2. CASE reader_handle_clear(c)
      <3>1. llapi_changelog_clear(re_cleanup_next) /\ re_cleanup_next \in re_buckets
        BY <2>2 DEF reader_handle_clear, FirstReady
      <3> QED
        BY <3>1, ClearForward
    <2> QED
      BY <2>1, <2>2
  <1>4. CachedRecords' = CachedRecords \ (1 .. purged')
    BY <1>1, <1>2, <1>3, CachedInterval, CachedIntervalNext
  <1> QED
    BY <1>1, <1>3, <1>4, ClearSettles DEF Proxy!Ack

\* When lcapd dies in the clear loop the proxy crashes, the acknowledgement
\* settled.
LEMMA ClearCrashes ==
  ASSUME IInv, IInv', NEW c \in Clients,
         clear_use_after_free(c) \/ clear_freed(c)
  PROVE  Proxy!Crash
  <1>1. /\ Down /\ cs_bucket[c] # NULL
        /\ acked' = acked \cup lent[c] /\ produced' = produced
    BY DEF clear_use_after_free, clear_freed, lustre
  <1>2. purged \in Nat /\ purged' \in Nat
    BY DEF IInv, TypeOK
  <1>3. purged <= purged'
    <2>1. CASE clear_use_after_free(c)
      <3>1. llapi_changelog_clear(re_cleanup_next) /\ re_cleanup_next \in re_buckets
        BY <2>1 DEF clear_use_after_free, FirstReady
      <3> QED
        BY <3>1, ClearForward
    <2>2. CASE clear_freed(c)
      BY <1>2, <2>2 DEF clear_freed, lustre
    <2> QED
      BY <2>1, <2>2
  <1>4. Proxy!Settle(c)
    BY <1>1, <1>3, ClearSettles
  <1> QED
    BY <1>1, <1>4 DEF Proxy!Crash, Proxy!NoLease, Down, CachedRecords

\* A client that leaves gives its lease back.
LEMMA FiniReleases ==
  ASSUME IInv, IInv', NEW c \in Clients, reader_handle_fini(c)
  PROVE  Proxy!Release(c) \/ UNCHANGED Proxy!vars
  <1> USE DEF lustre, cache, peers
  <1>1. CASE c \notin re_peers
    BY <1>1, ProxyUnseen DEF reader_handle_fini, Refuse
  <1>2. CASE c \in re_peers
    <2>1. /\ lent' = [lent EXCEPT ![c] = {}]
          /\ UNCHANGED <<produced, purged, re_srec, acked>>
      BY <1>2 DEF reader_handle_fini
    <2>2. CachedRecords' = CachedRecords
      BY <2>1, CachedInterval, CachedIntervalNext
    <2> QED
      BY <2>1, <2>2 DEF Proxy!Release
  <1> QED
    BY <1>1, <1>2

\* Each step of the reader is a step of the proxy, or one it does not see.
LEMMA NextRefines ==
  ASSUME IInv, IInv', [Next]_vars PROVE [Proxy!Next]_(Proxy!vars)
  <1> USE DEF lustre, thread, cache, peers, wire, rest
  <1>1. CASE UNCHANGED vars
    BY <1>1, ProxyUnseen DEF vars
  <1>2. CASE reader_init_fails \/ reader_main_ends \/ serve_interrupted
             \/ enqueue_start_fails \/ recv_store_fails \/ recv_error
    BY <1>2, ExitCrashes
    DEF reader_init_fails, reader_main_ends, serve_interrupted, Exit,
        enqueue_start_fails, recv_store_fails, recv_error, Proxy!Next
  <1>3. CASE recv_store
    BY <1>3, StoreFetches DEF Proxy!Next
  <1>4. CASE enqueue_full \/ enqueue_start \/ recv_skip \/ recv_terminated
             \/ recv_eof
    BY <1>4, ProxyUnseen
    DEF enqueue_full, enqueue_start, recv_skip, recv_terminated, recv_eof
  <1>5. CASE changelog_reader_init \/ serve_done \/ Restart \/ lcap_sigterm
             \/ Tick
    BY <1>5, ProxyUnseen
    DEF changelog_reader_init, serve_done, Restart, lcap_sigterm, Tick
  <1>6. CASE Produce
    <2>1. /\ produced < MaxRec /\ produced' = produced + 1
          /\ UNCHANGED <<purged, re_srec, lent, acked>>
      BY <1>6 DEF Produce
    <2>2. CachedRecords' = CachedRecords
      BY <2>1, CachedInterval, CachedIntervalNext
    <2> QED
      BY <2>1, <2>2 DEF Proxy!Write, Proxy!Next
  <1>7. ASSUME NEW c \in Clients, NEW op \in Ops, Request(c, op)
        PROVE  UNCHANGED Proxy!vars
    BY <1>7, ProxyUnseen DEF Request
  <1>8. ASSUME NEW c \in Clients, Handle(c)
        PROVE  Proxy!Next \/ UNCHANGED Proxy!vars
    <2>1. CASE rpc_invalid(c) \/ dequeue_refused(c) \/ dequeue_eof(c)
               \/ clear_refused(c)
      BY <2>1, ProxyUnseen
      DEF rpc_invalid, dequeue_refused, dequeue_eof, clear_refused, Refuse
    <2>2. CASE reader_handle_start(c)
      BY <2>2, ProxyUnseen DEF reader_handle_start, Refuse
    <2>3. CASE dequeue_add_fails(c) \/ clear_nothing(c)
      BY <2>3, ProxyUnseen DEF dequeue_add_fails, clear_nothing
    <2>4. CASE reader_handle_dequeue(c)
      BY <2>4, DequeueLends DEF Proxy!Next
    <2>5. CASE dequeue_freed(c) \/ dequeue_overrun(c)
      BY <2>5, ExitCrashes DEF dequeue_freed, dequeue_overrun, Exit, Proxy!Next
    <2>6. CASE clear_waits(c) \/ clear_fails(c) \/ reader_handle_clear(c)
      BY <2>6, ClearAcks DEF Proxy!Next
    <2>7. CASE clear_use_after_free(c) \/ clear_freed(c)
      BY <2>7, ClearCrashes DEF Proxy!Next
    <2>8. CASE reader_handle_fini(c)
      BY <2>8, FiniReleases DEF Proxy!Next
    <2> QED
      BY <1>8, <2>1, <2>2, <2>3, <2>4, <2>5, <2>6, <2>7, <2>8 DEF Handle
  <1> QED
    BY <1>1, <1>2, <1>3, <1>4, <1>5, <1>6, <1>7, <1>8
    DEF Next, reader_main, Fill

\* The reader implements the proxy: every behaviour of reader.c is one of the
\* abstract specification, whatever fails, times out or is restarted.
THEOREM Implements == "reuse" \notin Faults => (Spec => ProxySpec)
  <1> SUFFICES ASSUME "reuse" \notin Faults PROVE Spec => ProxySpec
    OBVIOUS
  <1>1. Init => Proxy!Init
    BY DEF Init, Proxy!Init, Proxy!NoLease, CachedRecords
  <1>2. IInv /\ IInv' /\ [Next]_vars => [Proxy!Next]_(Proxy!vars)
    BY NextRefines
  <1>3. Spec => []IInv
    BY Invariance
  <1> QED
    BY <1>1, <1>2, <1>3, PTL DEF Spec, ProxySpec, Proxy!Spec
=============================================================================
