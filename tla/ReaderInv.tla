----------------------------- MODULE ReaderInv ------------------------------
(***************************************************************************)
(* The inductive invariant behind the safety properties of Reader.  It is  *)
(* checked by TLC and proved in ReaderProofs, both without fault "reuse".  *)
(***************************************************************************)
EXTENDS Reader

\* Nothing is kept while the thread does not run.
DownEmpty ==
  pc \notin Running =>
    /\ re_bkt_idx = 0
    /\ re_buckets = {}
    /\ re_clpriv = NoStream
    /\ re_srec = 0
    /\ re_rec_cnt = 0
    /\ \A c \in Clients : cs_bucket[c] = NULL

\* The open bucket is the last of the list, cleanup_next is not after the first.
Pointers ==
  /\ pc \in Running => /\ re_current_open = re_bkt_idx - 1
                       /\ re_current_open \in re_buckets
  /\ \A b \in re_buckets : re_cleanup_next <= b /\ b < re_bkt_idx

\* The next record the stream gives is the next one to store, or an older one;
\* only records that were written are stored and cleared.
NextRecord == IF re_srec = 0 THEN purged + 1 ELSE re_srec
Stream ==
  /\ re_srec = 0 \/ purged < re_srec
  /\ purged <= produced /\ re_srec <= produced + 1
  /\ pc = "recv" => re_clpriv # NoStream /\ ~changelog_reader_full(re_rec_cnt)
  /\ re_clpriv # NoStream /\ TerminateSig = 0 =>
       re_clpriv <= NextRecord /\ (re_srec = 0 => re_clpriv = NextRecord)

\* A bucket holds consecutive records, read and not cleared upstream.
Interval(b) ==
  \/ b.lrb_rec_count = 0 /\ b.lrb_records = {} /\ b.last = -1
  \/ /\ b.lrb_rec_count > 0
     /\ b.lrb_records = (b.last - b.lrb_rec_count + 1) .. b.last
     /\ purged < b.last - b.lrb_rec_count + 1
     /\ b.last < re_srec
Intervals == \A b \in re_buckets : Interval(bkt[b])

Ordered ==
  \A a, b \in re_buckets : a < b =>
    \A r \in bkt[a].lrb_records, s \in bkt[b].lrb_records : r < s

\* A client never owns the open bucket, and acknowledges what it was sent.
Owners ==
  \A c \in Clients :
    /\ cs_bucket[c] # NULL => /\ cs_bucket[c] < re_current_open
                              /\ cs_bucket[c] \in re_buckets =>
                                   lent[c] = bkt[cs_bucket[c]].lrb_records
    /\ cs_bucket[c] = NULL => lent[c] = {}

\* A ready bucket is closed and was acknowledged.
Ready ==
  \A b \in re_buckets : bkt[b].lrb_ready =>
    b # re_current_open /\ bkt[b].lrb_records \subseteq acked

\* TypeOK, and how the parts of the state hang together.
IInv ==
  /\ TypeOK
  /\ DownEmpty
  /\ Pointers
  /\ Stream
  /\ Intervals
  /\ Ordered
  /\ NoRecordForgotten
  /\ CacheBounded
  /\ Owners
  /\ Ready
  /\ PurgedAcked

\* The list loses its first bucket at most, the one that cleanup_next designates.
NoGap ==
  \A b \in BktIds : re_cleanup_next < b /\ b < re_bkt_idx => b \in re_buckets

\* deliver_next is past the buckets being processed, until a time-out rewinds it.
DeliverPast ==
  \A c \in Clients \ late :
    cs_bucket[c] # NULL /\ re_deliver_next # NULL =>
      cs_bucket[c] < re_deliver_next

\* Why rec_bucket_get() lends no bucket twice, but after a time-out: it takes the
\* bucket at deliver_next, and the ones being processed are before it.  With
\* IInv it is inductive.
DeliverInv == NoGap /\ DeliverPast /\ Exclusive

-----------------------------------------------------------------------------
(***************************************************************************)
(* Reader implements ChangelogProxy.                                       *)
(***************************************************************************)

CachedRecords == UNION {bkt[b].lrb_records : b \in re_buckets}

Proxy == INSTANCE ChangelogProxy
           WITH written <- produced, cleared <- purged,
                cached <- CachedRecords, lease <- lent, acked <- acked

\* Whatever the handlers, the time-outs and the failures do to the buckets, the
\* reader behaves like the proxy: each step of reader.c is one of its steps.
ProxySpec == Proxy!Spec
=============================================================================
