------------------------------- MODULE Reader -------------------------------
(***************************************************************************)
(* The changelog reader of one MDT (src/src/lcapd/reader.c).               *)
(*                                                                         *)
(* The reader thread alternates between two jobs: it pulls records from    *)
(* the Lustre changelog into an ordered list of buckets, and it serves the *)
(* START / DEQUEUE / CLEAR / FINI requests that the broker forwards.  Each *)
(* handler runs to completion in the thread, so it is one action here.     *)
(*                                                                         *)
(* Buckets are named by their lrb_index.  The list is ordered by index, so *)
(* it is represented by the set re_buckets of the buckets linked in it.  A *)
(* pointer to a bucket that is not in re_buckets is a pointer to freed     *)
(* memory.  A read of freed memory is a nondeterministic choice over what  *)
(* the process can observe.  free() writes over the first bytes of the     *)
(* chunk: the timer and the flag hold any value, while the links (reset by *)
(* list_remove()) and the count are intact and the pointers to the records *)
(* are NULL (llapi_changelog_free() resets them), so following one kills   *)
(* lcapd.  The page may be gone, which kills lcapd too, and calloc() may   *)
(* have handed the chunk out again as a new bucket (fault "reuse").        *)
(***************************************************************************)
EXTENDS Integers

CONSTANTS
  Clients,     \* identities of the peers that talk to this reader
  BatchCount,  \* ccf_rec_batch_count: record slots of a bucket
  MaxBkt,      \* ccf_max_bkt: buckets the cache is dimensioned for
  AckTimeout,  \* ticks before a delivered bucket expires (ACK_TIMEOUT_MSEC)
  MaxRec,      \* bound: records the MDT ever writes
  MaxBuckets,  \* bound: calloc() of a bucket fails past this index
  Ops,         \* the requests that clients send
  Faults       \* the failures the environment may inject

OpKinds == {"START", "DEQUEUE", "CLEAR", "FINI",
            "BAD"} \* truncated, or an opcode that clients have no use for

FaultKinds ==
  { "oom",    \* malloc()/calloc() returns NULL
    "llapi",  \* an llapi_changelog_*() call fails
    "send",   \* zmq_send() fails
    "signal", \* a signal handler runs: SIGTERM, or EINTR in zmq_poll()
    "reuse" } \* calloc() recycles the chunk of a freed bucket

ASSUME ReaderAssumption ==
  /\ BatchCount \in Nat \ {0}
  /\ MaxBkt \in Nat \ {0}
  /\ AckTimeout \in Nat \ {0}
  /\ MaxRec \in Nat
  /\ MaxBuckets \in Nat \ {0}
  /\ Ops \subseteq OpKinds
  /\ Faults \subseteq FaultKinds

VARIABLES
  produced,        \* Lustre: highest record index written to the changelog
  purged,          \* Lustre: highest record index cleared for this reader
  pc,              \* where the reader thread is in reader_main()
  TerminateSig,    \* set by the SIGTERM handler of lcapd.c
  batch_count,     \* records stored by this call of changelog_reader_enqueue
  re_clpriv,       \* next record of the open changelog stream, or NoStream
  re_srec,         \* next record index to accept
  re_rec_cnt,      \* records in the cache, as counted
  re_bkt_idx,      \* index of the next bucket
  re_buckets,      \* the buckets linked in the list
  bkt,             \* contents of the bucket chunks
  re_current_open, \* pointers into the list: the bucket to fill,
  re_deliver_next, \* the bucket to send,
  re_cleanup_next, \* the bucket to clear upstream
  re_peers,        \* registered clients
  cs_bucket,       \* the bucket each client is processing
  req,             \* request of each client waiting on the reader's socket
  rep,             \* answer to each client's request
  lent,            \* history: records of the bucket when it was lent
  acked,           \* history: records some client acknowledged
  late             \* history: clients whose bucket timed out

lustre == <<produced, purged>>
thread == <<pc, TerminateSig, batch_count, re_clpriv>>
cache  == <<re_srec, re_rec_cnt, re_bkt_idx, re_buckets, bkt,
            re_current_open, re_deliver_next, re_cleanup_next>>
peers  == <<re_peers, cs_bucket, lent, late>>
wire   == <<req, rep>>
vars   == <<lustre, thread, cache, peers, wire, acked>>

\* Everything but pc, what the thread-local steps of reader_main() leave alone.
rest   == <<lustre, TerminateSig, batch_count, re_clpriv, cache, peers, wire,
            acked>>

NULL     == -1
NoStream == 0
BktIds   == 0 .. (MaxBuckets - 1)
Pointer  == BktIds \cup {NULL}
Records  == 1 .. MaxRec

\* struct lcap_rec_bucket; the array of records is kept as the set of their
\* indices, their number and the index of the last one.  lrb_expiry counts the
\* ticks left before the expiry time; it is 0 when that time has passed, and
\* in a bucket never delivered, where calloc() left the date 0.
Bucket == [lrb_records : SUBSET Records, lrb_rec_count : Nat,
           last : Records \cup {-1}, lrb_ready : BOOLEAN,
           lrb_expiry : 0 .. AckTimeout]

EmptyBucket == [lrb_records |-> {}, lrb_rec_count |-> 0, last |-> -1,
                lrb_ready |-> FALSE, lrb_expiry |-> 0]

\* pr_retcode is 0 ("ok"), 1 ("eof") or a negative code ("error").
Idle         == [op |-> "IDLE",    ret |-> "ok", recs |-> {}]
Pending      == [op |-> "PENDING", ret |-> "ok", recs |-> {}]
Ack(ret)     == [op |-> "ACK",     ret |-> ret,  recs |-> {}]
Enqueue(b)   == [op |-> "ENQUEUE", ret |-> "ok", recs |-> b.lrb_records]

Reply == [op : {"IDLE", "PENDING", "ACK", "ENQUEUE"},
          ret : {"ok", "eof", "error"}, recs : SUBSET Records]

Running == {"enqueue", "recv", "serve"}

(***************************************************************************)
(* Helpers of the bucket list.                                             *)
(***************************************************************************)

\* Operators named ..._bug are what a plausible mistake would turn the next
\* definition into; they serve to see that the properties notice it.

\* ln_next is followed past the tail.
bucket_next_bug(b) == b + 1

\* bucket_next(); list_remove() leaves NULL in ln_next of an unlinked bucket.
bucket_next(b) ==
  LET after == {n \in re_buckets : n > b}
  IN IF b \notin re_buckets \/ after = {} THEN NULL
     ELSE CHOOSE n \in after : \A m \in after : n <= m

\* One record too many.
changelog_reader_full_bug(cnt) == cnt > BatchCount * MaxBkt

\* changelog_reader_full()
Capacity == BatchCount * MaxBkt
changelog_reader_full(cnt) == cnt >= Capacity

\* rec_bucket_max_index()
rec_bucket_max_index(b) == IF b.lrb_rec_count = 0 THEN -1 ELSE b.last

AllocMayFail == "oom" \in Faults \/ re_bkt_idx = MaxBuckets

\* The chunk calloc() may recycle: one that was freed and that some pointer
\* still designates (recycling any other chunk has no effect).
NoChunk  == -2
Dangling == ({re_deliver_next, re_cleanup_next}
               \cup {cs_bucket[c] : c \in Clients}) \ (re_buckets \cup {NULL})
Recyclable == {NoChunk} \cup (IF "reuse" \in Faults THEN Dangling ELSE {})

\* What pointer p designates once chunk `old' has become the new bucket.
Alias(old, p) == IF p = old THEN re_bkt_idx ELSE p

\* The new bucket is linked, and the old one stays open.
rec_bucket_add_bug(heap, contents) ==
  /\ re_bkt_idx < MaxBuckets
  /\ bkt' = [heap EXCEPT ![re_bkt_idx] = contents]
  /\ re_buckets' = re_buckets \cup {re_bkt_idx}
  /\ re_current_open' = IF re_bkt_idx = 0 THEN re_bkt_idx ELSE re_current_open
  /\ re_bkt_idx' = re_bkt_idx + 1

\* rec_bucket_add(): link a new bucket and open it for insert.  `heap' is bkt as
\* the caller leaves it, `contents' what the caller stores in the new bucket.
rec_bucket_add(heap, contents) ==
  /\ re_bkt_idx < MaxBuckets
  /\ bkt' = [heap EXCEPT ![re_bkt_idx] = contents]
  /\ re_buckets' = re_buckets \cup {re_bkt_idx}
  /\ re_current_open' = re_bkt_idx
  /\ re_bkt_idx' = re_bkt_idx + 1

\* The other pointers after that allocation; `dn' and `cs' are deliver_next and
\* cs_bucket as the caller leaves them.
PointersAfterAdd(dn, cs) ==
  \E old \in Recyclable :
    /\ re_deliver_next' = Alias(old, dn)
    /\ re_cleanup_next' = Alias(old, re_cleanup_next)
    /\ cs_bucket' = [c \in Clients |-> Alias(old, cs[c])]

-----------------------------------------------------------------------------
(***************************************************************************)
(* Process life cycle.                                                     *)
(***************************************************************************)

Init ==
  /\ produced = 0
  /\ purged = 0
  /\ acked = {}
  /\ pc = "init"
  /\ TerminateSig = 0
  /\ batch_count = 0
  /\ re_clpriv = NoStream
  /\ re_srec = 0
  /\ re_rec_cnt = 0
  /\ re_bkt_idx = 0
  /\ re_buckets = {}
  /\ bkt = [b \in BktIds |-> EmptyBucket]
  /\ re_current_open = NULL
  /\ re_deliver_next = NULL
  /\ re_cleanup_next = NULL
  /\ re_peers = {}
  /\ cs_bucket = [c \in Clients |-> NULL]
  /\ req = [c \in Clients |-> "none"]
  /\ rep = [c \in Clients |-> Idle]
  /\ lent = [c \in Clients |-> {}]
  /\ late = {}

\* The thread is gone, because it left reader_main() or because lcapd died:
\* only the changelog survives, and clients come back with new identities.
Down ==
  /\ pc' = "down"
  /\ TerminateSig' = 0
  /\ batch_count' = 0
  /\ re_clpriv' = NoStream
  /\ re_srec' = 0
  /\ re_rec_cnt' = 0
  /\ re_bkt_idx' = 0
  /\ re_buckets' = {}
  /\ bkt' = [b \in BktIds |-> EmptyBucket]
  /\ re_current_open' = NULL
  /\ re_deliver_next' = NULL
  /\ re_cleanup_next' = NULL
  /\ re_peers' = {}
  /\ cs_bucket' = [c \in Clients |-> NULL]
  /\ req' = [c \in Clients |-> "none"]
  /\ rep' = [c \in Clients |-> Idle]
  /\ lent' = [c \in Clients |-> {}]
  /\ late' = {}

Exit == Down /\ UNCHANGED <<lustre, acked>>

\* lcapd is started again.
Restart ==
  /\ pc = "down"
  /\ pc' = "init"
  /\ UNCHANGED rest

\* changelog_reader_init() and the SIGNAL that announces the reader.
changelog_reader_init ==
  /\ pc = "init"
  /\ rec_bucket_add(bkt, EmptyBucket)
  /\ re_deliver_next' = re_bkt_idx
  /\ re_cleanup_next' = re_bkt_idx
  /\ pc' = "enqueue"
  /\ UNCHANGED <<lustre, TerminateSig, batch_count, re_clpriv, re_srec,
                 re_rec_cnt, peers, wire, acked>>

\* An allocation, a socket call or the SIGNAL to the broker fails.
reader_init_fails ==
  /\ pc = "init"
  /\ Faults \cap {"oom", "send"} # {}
  /\ Exit

\* lcap_sigterm() in lcapd.c, run by whichever thread the signal hits.
lcap_sigterm ==
  /\ "signal" \in Faults
  /\ pc \in Running
  /\ TerminateSig = 0
  /\ TerminateSig' = 1
  /\ UNCHANGED <<lustre, pc, batch_count, re_clpriv, cache, peers, wire, acked>>

\* reader_main() tests TerminateSig at the top of its loop.
reader_main_ends ==
  /\ pc = "enqueue"
  /\ TerminateSig = 1
  /\ Exit

-----------------------------------------------------------------------------
(***************************************************************************)
(* changelog_reader_enqueue(): fill the cache.                             *)
(***************************************************************************)

\* The cache is full: nothing is read, the stream stays as it is.
enqueue_full ==
  /\ pc = "enqueue"
  /\ TerminateSig = 0
  /\ changelog_reader_full(re_rec_cnt)
  /\ pc' = "serve"
  /\ UNCHANGED rest

\* llapi_changelog_start(): the stream begins at some record that was not
\* cleared, at re_srec at the latest; the code skips what comes before re_srec.
FirstAvailable == purged + 1
StreamStarts   == FirstAvailable ..
                    (IF re_srec > FirstAvailable THEN re_srec
                     ELSE FirstAvailable)

enqueue_start ==
  /\ pc = "enqueue"
  /\ TerminateSig = 0
  /\ ~changelog_reader_full(re_rec_cnt)
  /\ pc' = "recv"
  /\ re_clpriv' \in IF re_clpriv = NoStream THEN StreamStarts ELSE {re_clpriv}
  /\ UNCHANGED <<lustre, TerminateSig, batch_count, cache, peers, wire, acked>>

\* llapi_changelog_start() fails.
enqueue_start_fails ==
  /\ pc = "enqueue"
  /\ TerminateSig = 0
  /\ ~changelog_reader_full(re_rec_cnt)
  /\ re_clpriv = NoStream
  /\ "llapi" \in Faults
  /\ Exit

\* batch_count is local to the call.
LeaveLoop == pc' = "serve" /\ batch_count' = 0

\* The record at re_srec is skipped too.
recv_skip_bug ==
  /\ pc = "recv"
  /\ TerminateSig = 0
  /\ re_clpriv <= produced
  /\ re_clpriv <= re_srec
  /\ re_clpriv' = re_clpriv + 1
  /\ UNCHANGED <<lustre, pc, TerminateSig, batch_count, cache, peers, wire,
                 acked>>

\* llapi_changelog_recv() returns the next record, which is read already.
recv_skip ==
  /\ pc = "recv"
  /\ TerminateSig = 0
  /\ re_clpriv <= produced
  /\ re_clpriv < re_srec
  /\ re_clpriv' = re_clpriv + 1
  /\ UNCHANGED <<lustre, pc, TerminateSig, batch_count, cache, peers, wire,
                 acked>>

\* A signal came while the thread was in llapi_changelog_recv(): the record
\* is dropped and the loop left with rc = 0.
recv_terminated ==
  /\ pc = "recv"
  /\ TerminateSig = 1
  /\ re_clpriv <= produced
  /\ re_clpriv' = re_clpriv + 1
  /\ LeaveLoop
  /\ UNCHANGED <<lustre, TerminateSig, cache, peers, wire, acked>>

\* The record is not counted; the last slot plus one is used.
Insert_bug(b, rec) == [b EXCEPT !.lrb_records = @ \cup {rec}, !.last = rec]
NeedsBucket_bug    == \/ re_current_open = NULL
                      \/ bkt[re_current_open].lrb_rec_count > BatchCount

\* changelog_reader_rec_store(): the open bucket takes the record, or a new
\* bucket when the open one has no slot left.
Insert(b, rec) == [b EXCEPT !.lrb_records = @ \cup {rec},
                            !.lrb_rec_count = @ + 1, !.last = rec]

NeedsBucket == \/ re_current_open = NULL
               \/ bkt[re_current_open].lrb_rec_count = BatchCount

changelog_reader_rec_store(rec) ==
  \/ /\ ~NeedsBucket
     /\ bkt' = [bkt EXCEPT ![re_current_open] = Insert(@, rec)]
     /\ UNCHANGED <<re_bkt_idx, re_buckets, re_current_open, re_deliver_next,
                    re_cleanup_next, cs_bucket>>
  \/ /\ NeedsBucket
     /\ rec_bucket_add(bkt, Insert(EmptyBucket, rec))
     /\ PointersAfterAdd(re_deliver_next, cs_bucket)

recv_store ==
  /\ pc = "recv"
  /\ TerminateSig = 0
  /\ re_clpriv <= produced
  /\ re_clpriv >= re_srec
  /\ changelog_reader_rec_store(re_clpriv)
  /\ re_srec' = re_clpriv + 1
  /\ re_clpriv' = re_clpriv + 1
  /\ re_rec_cnt' = re_rec_cnt + 1
  /\ IF batch_count + 1 >= BatchCount \/ changelog_reader_full(re_rec_cnt + 1)
     THEN LeaveLoop
     ELSE pc' = "recv" /\ batch_count' = batch_count + 1
  /\ UNCHANGED <<lustre, TerminateSig, re_peers, lent, late, wire, acked>>

\* rec_bucket_add() returned -ENOMEM: reader_main() ends on rc < 0.
recv_store_fails ==
  /\ pc = "recv"
  /\ TerminateSig = 0
  /\ re_clpriv <= produced
  /\ re_clpriv >= re_srec
  /\ NeedsBucket
  /\ AllocMayFail
  /\ Exit

\* End of the stream: it is closed, to be opened again by the next call.
recv_eof ==
  /\ pc = "recv"
  /\ re_clpriv > produced
  /\ re_clpriv' = NoStream
  /\ LeaveLoop
  /\ UNCHANGED <<lustre, TerminateSig, cache, peers, wire, acked>>

\* llapi_changelog_recv() fails: -EAGAIN and -EPROTO close the stream as its
\* end does, but any negative code is returned and reader_main() ends on it.
recv_error ==
  /\ pc = "recv"
  /\ "llapi" \in Faults
  /\ Exit

-----------------------------------------------------------------------------
(***************************************************************************)
(* changelog_reader_serve(): requests of the clients, one at a time until  *)
(* the socket is empty.                                                    *)
(***************************************************************************)

Serving(c, op) == pc = "serve" /\ req[c] = op

Consumed(c) == req' = [req EXCEPT ![c] = "none"]

\* The handler failed or met the end of the cache: changelog_reader_rpc_hdl()
\* answers with the code.  When that answer cannot be sent, lcap_rpc_recv()
\* stops, with rc >= 0, and the client gets nothing.
ReplyError(c, ret) ==
  /\ Consumed(c)
  /\ \/ rep' = [rep EXCEPT ![c] = Ack(ret)] /\ UNCHANGED pc
     \/ "send" \in Faults /\ pc' = "enqueue" /\ UNCHANGED rep

\* The handler answers with `m' itself; a failure to send it is an error too.
ReplyMsg(c, m) ==
  \/ /\ Consumed(c)
     /\ rep' = [rep EXCEPT ![c] = m]
     /\ UNCHANGED pc
  \/ "send" \in Faults /\ ReplyError(c, "error")

\* The refusals common to the handlers: what the reader keeps does not change.
Refuse(c, ret) ==
  /\ ReplyError(c, ret)
  /\ UNCHANGED <<lustre, TerminateSig, batch_count, re_clpriv, cache, peers,
                 acked>>

\* A truncated RPC, an opcode out of range or one without a handler.
rpc_invalid(c) ==
  /\ Serving(c, "BAD")
  /\ Refuse(c, "error")

reader_handle_start(c) ==
  /\ Serving(c, "START")
  /\ \/ c \in re_peers /\ Refuse(c, "error")
     \/ c \notin re_peers /\ "oom" \in Faults /\ Refuse(c, "error")
     \/ /\ c \notin re_peers
        /\ re_peers' = re_peers \cup {c}
        /\ ReplyMsg(c, Ack("ok"))
        /\ UNCHANGED <<lustre, TerminateSig, batch_count, re_clpriv, cache,
                       cs_bucket, lent, late, acked>>

\* DEQUEUE out of context, or before the last bucket was acknowledged.
dequeue_refused(c) ==
  /\ Serving(c, "DEQUEUE")
  /\ c \notin re_peers \/ cs_bucket[c] # NULL
  /\ Refuse(c, "error")

\* rec_bucket_get(): outcomes of "has the first non-acked bucket expired?".
Expired == IF re_cleanup_next \in re_buckets
           THEN {bkt[re_cleanup_next].lrb_expiry = 0}
           ELSE BOOLEAN

\* rec_bucket_get(): the buckets to send again, from cleanup_next on until
\* deliver_next is met, or to the end of the list.
FromFirst == {b \in re_buckets : b >= re_cleanup_next}
Rewound   == IF re_deliver_next \in FromFirst
             THEN {b \in FromFirst : b < re_deliver_next}
             ELSE FromFirst

\* deliver_next is not looked at.
rec_bucket_get_bug(expired) == re_cleanup_next

rec_bucket_get(expired) ==
  IF expired THEN re_cleanup_next ELSE re_deliver_next

\* bkt after rec_bucket_get(), and the owners it forgets to tell.
AfterGet(expired) ==
  [b \in BktIds |-> IF expired /\ b \in Rewound
                    THEN [bkt[b] EXCEPT !.lrb_ready = FALSE] ELSE bkt[b]]
Overdue(expired) ==
  IF expired THEN {c \in Clients : cs_bucket[c] \in Rewound} ELSE {}

\* The end of the cache is met and the client not told.
dequeue_eof_bug(c) ==
  /\ Serving(c, "DEQUEUE")
  /\ c \in re_peers /\ cs_bucket[c] = NULL
  /\ FALSE \in Expired
  /\ re_deliver_next = NULL
  /\ Consumed(c)
  /\ UNCHANGED <<lustre, thread, cache, peers, rep, acked>>

dequeue_eof(c) ==
  /\ Serving(c, "DEQUEUE")
  /\ c \in re_peers /\ cs_bucket[c] = NULL
  /\ FALSE \in Expired
  /\ re_deliver_next = NULL
  /\ Refuse(c, "eof")

\* rec_bucket_add() fails once rec_bucket_get() has moved deliver_next on.
dequeue_add_fails(c) ==
  /\ Serving(c, "DEQUEUE")
  /\ c \in re_peers /\ cs_bucket[c] = NULL
  /\ AllocMayFail
  /\ \E expired \in Expired :
       LET b == rec_bucket_get(expired)
       IN /\ b \in re_buckets
          /\ b = re_current_open
          /\ bkt' = AfterGet(expired)
          /\ late' = late \cup Overdue(expired)
          /\ re_deliver_next' = bucket_next(b)
          /\ ReplyError(c, "error")
  /\ UNCHANGED <<lustre, TerminateSig, batch_count, re_clpriv, re_srec,
                 re_rec_cnt, re_bkt_idx, re_buckets, re_current_open,
                 re_cleanup_next, re_peers, cs_bucket, lent, acked>>

\* From now on the bucket belongs to the client.  enqueue_rec() arms its timer
\* and sends its records, unless the message cannot be allocated (`packed').
reader_handle_dequeue(c) ==
  /\ Serving(c, "DEQUEUE")
  /\ c \in re_peers /\ cs_bucket[c] = NULL
  /\ \E expired \in Expired, packed \in BOOLEAN :
       LET b    == rec_bucket_get(expired)
           cs   == [cs_bucket EXCEPT ![c] = b]
           heap == IF packed
                   THEN [AfterGet(expired) EXCEPT ![b].lrb_expiry = AckTimeout]
                   ELSE AfterGet(expired)
       IN /\ b \in re_buckets
          /\ \/ /\ b # re_current_open
                /\ bkt' = heap
                /\ re_deliver_next' = bucket_next(b)
                /\ cs_bucket' = cs
                /\ UNCHANGED <<re_bkt_idx, re_buckets, re_current_open,
                               re_cleanup_next>>
             \/ /\ b = re_current_open
                /\ rec_bucket_add(heap, EmptyBucket)
                /\ PointersAfterAdd(bucket_next(b), cs)
          /\ late' = late \cup Overdue(expired)
          /\ lent' = [lent EXCEPT ![c] = bkt[b].lrb_records]
          /\ \/ packed /\ ReplyMsg(c, Enqueue(bkt[b]))
             \/ ~packed /\ "oom" \in Faults /\ ReplyError(c, "error")
  /\ UNCHANGED <<lustre, TerminateSig, batch_count, re_clpriv, re_srec,
                 re_rec_cnt, re_peers, acked>>

\* rec_bucket_get() returned a freed bucket: its records are NULL.
dequeue_freed(c) ==
  /\ Serving(c, "DEQUEUE")
  /\ c \in re_peers /\ cs_bucket[c] = NULL
  /\ \E expired \in Expired :
       rec_bucket_get(expired) \notin re_buckets \cup {NULL}
  /\ Exit

\* list_foreach_entry() ends on &pos->lrb_node = NULL, an address computed from
\* NULL - 32: the compiler may take it for never NULL, and the loop then runs
\* over the end of the list when deliver_next is not in its way.
dequeue_overrun(c) ==
  /\ Serving(c, "DEQUEUE")
  /\ c \in re_peers /\ cs_bucket[c] = NULL
  /\ TRUE \in Expired
  /\ re_deliver_next \notin FromFirst
  /\ Exit

clear_refused(c) ==
  /\ Serving(c, "CLEAR")
  /\ c \notin re_peers
  /\ Refuse(c, "error")

\* "Nothing to clear": the handler returns 0 and sends no answer.
clear_nothing(c) ==
  /\ Serving(c, "CLEAR")
  /\ c \in re_peers /\ cs_bucket[c] = NULL
  /\ Consumed(c)
  /\ UNCHANGED <<lustre, thread, cache, peers, rep, acked>>

\* The client's bucket becomes ready and is the client's no more.
Acknowledge(c) ==
  /\ cs_bucket' = [cs_bucket EXCEPT ![c] = NULL]
  /\ lent' = [lent EXCEPT ![c] = {}]
  /\ late' = late \ {c}
  /\ acked' = acked \cup lent[c]
  /\ UNCHANGED <<TerminateSig, batch_count, re_clpriv, re_srec, re_bkt_idx,
                 re_current_open, re_deliver_next, re_cleanup_next, re_peers>>

SetReady(b) == IF b \in re_buckets THEN [bkt EXCEPT ![b].lrb_ready = TRUE]
               ELSE bkt

\* lrb_ready is not tested.
FirstReady_bug(b) == re_cleanup_next \in re_buckets

\* Bucket b just acknowledged, the one at cleanup_next is linked and ready.
FirstReady(b) == /\ re_cleanup_next \in re_buckets
                 /\ SetReady(b)[re_cleanup_next].lrb_ready

\* Nothing to clear upstream yet.  A freed bucket at cleanup_next may read as
\* not ready too, unless it is the one whose flag was just set.
clear_waits(c) ==
  /\ Serving(c, "CLEAR")
  /\ c \in re_peers /\ cs_bucket[c] # NULL
  /\ Acknowledge(c)
  /\ ~FirstReady(cs_bucket[c])
  /\ cs_bucket[c] # re_cleanup_next
  /\ bkt' = SetReady(cs_bucket[c])
  /\ ReplyMsg(c, Ack("ok"))
  /\ UNCHANGED <<lustre, re_rec_cnt, re_buckets>>

\* Everything that was read is cleared.
llapi_changelog_clear_bug(k) == purged' = re_srec - 1

\* llapi_changelog_clear() in Lustre, which refuses a negative record number.
llapi_changelog_clear(k) ==
  LET upTo == rec_bucket_max_index(bkt[k])
  IN upTo # -1 /\ purged' = IF upTo > purged THEN upTo ELSE purged

clear_fails(c) ==
  /\ Serving(c, "CLEAR")
  /\ c \in re_peers /\ cs_bucket[c] # NULL
  /\ Acknowledge(c)
  /\ FirstReady(cs_bucket[c])
  /\ \/ rec_bucket_max_index(bkt[re_cleanup_next]) = -1
     \/ "llapi" \in Faults
  /\ bkt' = SetReady(cs_bucket[c])
  /\ ReplyError(c, "error")
  /\ UNCHANGED <<lustre, re_rec_cnt, re_buckets>>

\* The records of the freed bucket go on counting.
reader_handle_clear_bug(c) ==
  /\ Serving(c, "CLEAR")
  /\ c \in re_peers /\ cs_bucket[c] # NULL
  /\ Acknowledge(c)
  /\ FirstReady(cs_bucket[c])
  /\ llapi_changelog_clear(re_cleanup_next)
  /\ re_buckets' = re_buckets \ {re_cleanup_next}
  /\ bkt' = [SetReady(cs_bucket[c]) EXCEPT ![re_cleanup_next] = EmptyBucket]
  /\ ReplyMsg(c, Ack("ok"))
  /\ UNCHANGED <<produced, re_rec_cnt>>

\* The bucket at cleanup_next is ready: it is cleared upstream, unlinked and
\* freed.  cleanup_next still designates it.  The loop then reads the next
\* pointer of the freed bucket and ends on the NULL that list_remove() left.
reader_handle_clear(c) ==
  /\ Serving(c, "CLEAR")
  /\ c \in re_peers /\ cs_bucket[c] # NULL
  /\ Acknowledge(c)
  /\ FirstReady(cs_bucket[c])
  /\ llapi_changelog_clear(re_cleanup_next)
  /\ re_buckets' = re_buckets \ {re_cleanup_next}
  /\ re_rec_cnt' = re_rec_cnt - bkt[re_cleanup_next].lrb_rec_count
  /\ bkt' = [SetReady(cs_bucket[c]) EXCEPT ![re_cleanup_next] = EmptyBucket]
  /\ ReplyMsg(c, Ack("ok"))
  /\ UNCHANGED produced

\* The page of the freed bucket is gone, or the loop does not end on that NULL
\* (see dequeue_overrun).
clear_use_after_free(c) ==
  /\ Serving(c, "CLEAR")
  /\ c \in re_peers /\ cs_bucket[c] # NULL
  /\ FirstReady(cs_bucket[c])
  /\ llapi_changelog_clear(re_cleanup_next)
  /\ acked' = acked \cup lent[c]
  /\ Down
  /\ UNCHANGED produced

\* cleanup_next designates a freed bucket, which reads as ready.
clear_freed(c) ==
  /\ Serving(c, "CLEAR")
  /\ c \in re_peers /\ cs_bucket[c] # NULL
  /\ re_cleanup_next \notin re_buckets
  /\ acked' = acked \cup lent[c]
  /\ Down
  /\ UNCHANGED lustre

reader_handle_fini(c) ==
  /\ Serving(c, "FINI")
  /\ \/ c \notin re_peers /\ Refuse(c, "error")
     \/ /\ c \in re_peers
        /\ re_peers' = re_peers \ {c}
        /\ cs_bucket' = [cs_bucket EXCEPT ![c] = NULL]
        /\ lent' = [lent EXCEPT ![c] = {}]
        /\ late' = late \ {c}
        /\ ReplyMsg(c, Ack("ok"))
        /\ UNCHANGED <<lustre, TerminateSig, batch_count, re_clpriv, cache,
                       acked>>

\* The socket is empty, or zmq_poll() timed out.
serve_done ==
  /\ pc = "serve"
  /\ \A c \in Clients : req[c] = "none"
  /\ pc' = "enqueue"
  /\ UNCHANGED rest

\* A signal interrupts zmq_poll(): reader_main() ends on rc < 0.
serve_interrupted ==
  /\ pc = "serve"
  /\ "signal" \in Faults
  /\ \A c \in Clients : req[c] = "none"
  /\ Exit

-----------------------------------------------------------------------------
(***************************************************************************)
(* The environment.                                                        *)
(***************************************************************************)

\* The MDT writes a record to its changelog.
Produce ==
  /\ produced < MaxRec
  /\ produced' = produced + 1
  /\ UNCHANGED <<purged, thread, cache, peers, wire, acked>>

\* Time passes.  Only rec_bucket_get() reads the clock, so the ticks that
\* happen while the thread fills the cache are taken once it serves.
Tick ==
  /\ pc = "serve"
  /\ \E b \in re_buckets : bkt[b].lrb_expiry > 0
  /\ bkt' = [b \in BktIds |->
               IF bkt[b].lrb_expiry > 0
               THEN [bkt[b] EXCEPT !.lrb_expiry = @ - 1] ELSE bkt[b]]
  /\ UNCHANGED <<lustre, thread, re_srec, re_rec_cnt, re_bkt_idx, re_buckets,
                 re_current_open, re_deliver_next, re_cleanup_next, peers,
                 wire, acked>>

\* A client, which waits for the answer to its last request first, sends a
\* request that the broker forwards to the reader.  It reaches the reader when
\* the reader looks at its socket.
Request(c, op) ==
  /\ pc = "serve"
  /\ rep[c] # Pending
  /\ req' = [req EXCEPT ![c] = op]
  /\ rep' = [rep EXCEPT ![c] = Pending]
  /\ UNCHANGED <<lustre, thread, cache, peers, acked>>

-----------------------------------------------------------------------------

Handle(c) ==
  \/ rpc_invalid(c)
  \/ reader_handle_start(c)
  \/ dequeue_refused(c)
  \/ dequeue_eof(c)
  \/ dequeue_add_fails(c)
  \/ reader_handle_dequeue(c)
  \/ dequeue_freed(c)
  \/ dequeue_overrun(c)
  \/ clear_refused(c)
  \/ clear_nothing(c)
  \/ clear_waits(c)
  \/ clear_fails(c)
  \/ reader_handle_clear(c)
  \/ clear_use_after_free(c)
  \/ clear_freed(c)
  \/ reader_handle_fini(c)

Fill ==
  \/ enqueue_full
  \/ enqueue_start
  \/ enqueue_start_fails
  \/ recv_skip
  \/ recv_terminated
  \/ recv_store
  \/ recv_store_fails
  \/ recv_eof
  \/ recv_error

reader_main ==
  \/ changelog_reader_init
  \/ reader_init_fails
  \/ reader_main_ends
  \/ Fill
  \/ \E c \in Clients : Handle(c)
  \/ serve_done
  \/ serve_interrupted

Next ==
  \/ reader_main
  \/ Restart
  \/ lcap_sigterm
  \/ Produce
  \/ Tick
  \/ \E c \in Clients, op \in Ops : Request(c, op)

Spec == Init /\ [][Next]_vars

\* The thread keeps running, and a request that waits is reached: the socket
\* is read until it is empty.
Fairness ==
  /\ WF_vars(changelog_reader_init \/ Fill \/ serve_done)
  /\ \A c \in Clients : WF_vars(Handle(c))

LiveSpec == Spec /\ Fairness

-----------------------------------------------------------------------------
(***************************************************************************)
(* Properties.                                                             *)
(***************************************************************************)

\* Every variable holds a value of its type.
TypeOK ==
  /\ produced \in 0 .. MaxRec
  /\ purged \in 0 .. MaxRec
  /\ pc \in {"init", "down"} \cup Running
  /\ TerminateSig \in {0, 1}
  /\ batch_count \in 0 .. BatchCount
  /\ re_clpriv \in 0 .. (MaxRec + 1)
  /\ re_srec \in 0 .. (MaxRec + 1)
  /\ re_rec_cnt \in Int
  /\ re_bkt_idx \in 0 .. MaxBuckets
  /\ re_buckets \subseteq BktIds
  /\ bkt \in [BktIds -> Bucket]
  /\ re_current_open \in Pointer
  /\ re_deliver_next \in Pointer
  /\ re_cleanup_next \in Pointer
  /\ re_peers \subseteq Clients
  /\ cs_bucket \in [Clients -> Pointer]
  /\ req \in [Clients -> Ops \cup {"none"}]
  /\ rep \in [Clients -> Reply]
  /\ lent \in [Clients -> SUBSET Records]
  /\ acked \subseteq Records
  /\ late \subseteq Clients

\* At least once: what reader_handle_clear() clears upstream, and so takes out
\* of the changelog for ever, was acknowledged by a client it was sent to,
\* whatever timed out, crashed or was acknowledged out of order.
PurgedAcked == (1 .. purged) \subseteq acked

\* A record changelog_reader_enqueue() has accepted (below re_srec) is in a
\* linked bucket until it is cleared upstream: no resend, failed allocation or
\* failed clear makes the reader forget it.
NoRecordForgotten ==
  \A r \in Records :
    purged < r /\ r < re_srec => \E b \in re_buckets : r \in bkt[b].lrb_records

\* "A bucket is a set of consecutive records" and the list of buckets is
\* ordered, so that clearing up to the last record of the first bucket never
\* takes a record of a later bucket with it.
BucketsInOrder ==
  /\ \A b \in re_buckets :
       bkt[b].lrb_records =
         IF bkt[b].lrb_rec_count = 0 THEN {}
         ELSE (bkt[b].last - bkt[b].lrb_rec_count + 1) .. bkt[b].last
  /\ \A a, b \in re_buckets : a < b =>
       \A r \in bkt[a].lrb_records, s \in bkt[b].lrb_records : r < s

\* re_rec_cnt, which rec_store and handle_clear keep in step with the list, is
\* the number of cached records, within what the cache is dimensioned for;
\* no bucket overflows its slots (the assertion of rec_store).
CacheBounded ==
  /\ re_rec_cnt = IF re_srec = 0 THEN 0 ELSE re_srec - 1 - purged
  /\ re_rec_cnt <= Capacity
  /\ \A b \in re_buckets : bkt[b].lrb_rec_count <= BatchCount

\* A bucket is closed when reader_handle_dequeue() lends it: the records that
\* the owner's CLEAR will mark as processed are the ones it was sent, though
\* the reader keeps on storing records meanwhile.
LentStable ==
  \A c \in Clients :
    cs_bucket[c] \in re_buckets => lent[c] = bkt[cs_bucket[c]].lrb_records

\* Two clients process the same bucket only when the timeout of
\* rec_bucket_get() took it from one of them.
Exclusive ==
  \A c, d \in Clients \ late :
    c # d /\ cs_bucket[c] # NULL => cs_bucket[c] # cs_bucket[d]

(***************************************************************************)
(* What comments and documents say and the code does not do.               *)
(***************************************************************************)

\* "it and all the (directly) following ones that are ACK_READY are cleaned
\* upstream": once answered, the first bucket of the list is not ready.  (It may
\* be when the clear failed, so this is said without fault "llapi".)
FollowingCleaned ==
  \A b \in re_buckets :
    (\A a \in re_buckets : b <= a) /\ bkt[b].lrb_records # {}
      => ~bkt[b].lrb_ready

\* "The server will send as much records as possible": the end is announced
\* when there is nothing to send.  The open bucket is never sent while open,
\* so the records in it are available.
EofMeansEmpty ==
  [][\A c \in Clients :
       rep[c] = Pending /\ rep'[c] = Ack("eof")
         => bkt[re_current_open].lrb_records = {}]_vars
=============================================================================
