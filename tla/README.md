# Verification of LCAP, the Lustre changelog aggregate and publish proxy

LCAP puts a proxy, `lcapd`, between the changelogs of the MDTs of a Lustre file
system and the programs that consume them. A changelog can be cleared only in
order, and a record that was cleared is gone. The proxy hands batches of records
to several consumers, collects their acknowledgements, and clears the changelog
on their behalf. Its one obligation is that a record is not cleared before a
consumer has processed it, whatever times out, fails, or comes in another order.

This directory holds TLA+ modules that model the proxy and its clients, the TLC
configurations that check them, and TLAPS proofs about them. `PROJECT.json`
lists the runs, the source lines that each definition stands for, the hazards
and the theorems.

## The system

| part | source | state | operations |
|---|---|---|---|
| reader, a thread per MDT | `src/lcapd/reader.c` | ordered list of buckets, three pointers into it, open changelog stream, registered clients and the bucket each one processes | fill the cache; START, DEQUEUE, CLEAR, FINI |
| broker, main thread of lcapd | `src/lcapd/broker.c` | table of reader identities, written and never read for routing | forward requests to a reader, answers to a client |
| transport | `src/lcapnet/lcap_net.c`, `src/lcapd/rpc_utils.c` | the frames that a failure left in a socket | reassemble a request, send an answer |
| client library, proxy channel | `src/client/px_client.c` | the batch received last, what of it was returned | start, recv, free, clear, fini |
| client library, direct channel | `src/client/lu_client.c`, `src/client/client.c` | the Lustre stream | the same calls, made to Lustre |
| lcap tool | `src/tools/lcap.c` | none | receive, print, clear, until the end |
| lcapd main | `src/lcapd/lcapd.c` | context, signal flags, threads | start, serve, handle signals, terminate |
| list | `src/include/queue.h` | links | append, remove, iterate |
| configuration | `src/lcapd/config.c` | `struct lcap_cfg` | parse the options and the file, release |
| logging | `src/common/lcap_log.c` | logger, level | choose, open, print, close |

A client talks to the broker over a `ZMQ_REQ` socket, one request at a time. The
broker prefixes the identity of the client and forwards the request to the
reader the client has named; the reader answers through the broker. The reader
thread does two things in turn: it reads records until its batch, its cache or the stream ends,
and it serves requests until its socket is empty. Three kinds of
threads, main (which is the broker), the signal thread and the readers, share
`TerminateSig`, and main and the signal thread the context, without locks;
everything else is messages.

What is hard here:

- acknowledgements come in any order, upstream clears must not;
- a bucket that is not acknowledged within `ACK_TIMEOUT_MSEC` is sent again, and
  the first owner, who is not told, may acknowledge it later;
- the bucket that is delivered may be the one records are stored into;
- any allocation, send or Lustre call may fail between two updates of the state;
- buckets are freed while pointers to them remain (`re_cleanup_next`, and the
  `cs_bucket` of a late client);
- lcapd may stop at any moment, with acknowledged records not cleared yet;
- a client blocks until it is answered;
- a message is several frames: a send or an allocation that fails between two of
  them leaves frames behind, which the next message, of another client, meets;
- a signal is taken by any thread, interrupts what it waits in, and the signal
  thread then uses a context that main may not have set up, or have freed;
- a direct client clears for the same changelog user as lcapd.

What makes each part correct: for the reader, that what is cleared was
acknowledged, that nothing read is forgotten, that the buckets are ordered and
the cache is bounded, that a client acknowledges what it was sent, and that it
is answered; for the client library, that a batch is acknowledged once its
records were all returned; for the whole, that a record that was cleared was
returned to an application, and that calls return; for the transport, that a
request reaches its reader once and under the right identity, that an answer is
not taken by another client, and that a failure does not spread; for lcapd, that
it runs what the file says, serves when all readers were started, knows of the
ones that failed, and ends when told to.

## Modules

| module | models or states |
|---|---|
| `Reader` | `reader.c`: one action per handler and per step of the filling loop, failures included; the reader's properties |
| `ReaderInv` | the inductive invariant `IInv`, its extension `DeliverInv`, and the mapping of `Reader` to `ChangelogProxy` |
| `ChangelogProxy` | the abstract promise: fetch in order, lease, acknowledge, clear in order, crash |
| `ReaderProofs` | proofs that `IInv` is invariant and of what follows from it |
| `ReaderRefinement` | proof that `Reader` implements `ChangelogProxy` |
| `DeliverProofs` | proofs of `DeliverInv` and `Exclusive` |
| `Lcap` | clients (`px_client.c`, `lu_client.c`, `client.c`, `lcap.c`), broker and `Reader` composed |
| `LcapInv`, `LcapProofs` | the inductive invariant `LInv` of the composition, the proofs from it, and the proof that the composition implements `ChangelogProxy` |
| `Transport` | `lcap_net.c`, `rpc_utils.c`, `broker.c`, `px_rpc_send()`, `cl_rep_recv()` and how `px_changelog_start()` reads its answer, frame by frame |
| `TransportInv`, `TransportProofs` | the inductive invariant `TransportIInv`: forms of messages, and which client each one is about; the proofs from it; `LossesPaid`, the account of what failures cost |
| `CostProofs` | proofs of `LossesPaid`, `FaultCostsOneCall` and `AnswersOwn` |
| `Config` | `config.c`, and what a file means read as a whole |
| `Lcapd` | `lcapd.c`, the table of `broker.c`, the logger of `lcap_log.c`, composed with `Config` |
| `LcapdInv`, `LcapdProofs` | the inductive invariants, `LcapdIInv` of lcapd's threads and `ReadSoFar` of the parser, and the proofs from the first |
| `ConfigProofs` | proofs of `ReadSoFar` and `ConfigMeans` |
| `MCReader`, `MCLcap`, `MCTransport`, `MCLcapd` | instances for TLC |

`Lcap` extends `Reader` and `Lcapd` extends `Config`: each composition has the
state of the part and its own. `Transport` refines what `Lcap` abstracts (that a
message arrives whole or not at all) for requests of any kind, and `Lcapd` what
`Reader` abstracts (how the thread is started and stopped); they are separate,
so that each can be explored with its own failures. Operators whose name ends in
`_bug` are plausible mistakes, used to see that the properties notice them.

### Reader

Variables keep the names of the fields of `struct reader_env`. `pc` is the place
of the thread in `reader_main()`: `enqueue` (top of the loop), `recv` (in the
loop over `llapi_changelog_recv()`), `serve`; `init` and `down` are before and
after. A handler runs to completion in the thread, so it is one action; a
handler with several outcomes is several actions, named after the handler or
after the outcome (`dequeue_eof`, `clear_fails`). Every action that answers goes
through `ReplyMsg` (the handler answers, and its own failure to send is answered
as an error) or `ReplyError` (`changelog_reader_rpc_hdl()` answers; when that
fails too, `lcap_rpc_recv()` gives up and the thread goes back to the top).

Abstractions:

- a bucket is named by its `lrb_index`; as the list is ordered by it, the list is
  the set of linked indices. A bucket keeps the set of its record indices, their
  number and the last one; sizes and contents are left out.
- `lrb_expiry` counts ticks down to the expiry date. `Tick` is a step of its own
  and is taken while the thread serves, the only time it reads the clock.
- opening the stream (`enqueue_start`) starts anywhere between the first record
  not cleared and `re_srec`, so that the code's own filter (`recv_skip`) matters.
- a client's request is in `req`, its answer in `rep`; `Request` is the client
  and the broker. Clients send any operation of `Ops` in any order.
- `lent`, `acked` and `late` are history variables.
- lcapd starts again after it went down; clients then have new identities, so
  nothing of the old requests is left.

Undefined behaviour. The code reads freed buckets. The model lets such a read
give what the build can give: the timer and the flag hold anything (`free()`
writes over the start of the chunk), the count and the links are intact, the
record pointers are NULL so that following one is a crash, and the page may be
gone. Fault `reuse` adds that `calloc()` hands the chunk out again as the next bucket: `Alias`
turns every dangling pointer to the old bucket into a pointer to the new one.
`list_foreach_entry()` ends by comparing an address computed from NULL with
NULL, which a compiler may fold; `dequeue_overrun` and `clear_use_after_free`
are the crash that follows.

`Faults` selects what may go wrong: `oom`, `llapi`, `send`, `signal`, `reuse`.

### Lcap

A client is a tool (in `Tools`), which follows the loop of `lcap.c`, or a
program, which makes the library's calls in any order and clears up to any
record it received. `at` says in which call it waits, `left` what of the batch
was not returned, `up` a request on its way to the broker. The broker holds
nothing: it forwards `up` (`broker_reader_send`), fails to and answers itself
(`broker_send_fails`), or sends to a reader that is gone, which a `ZMQ_ROUTER`
drops (`reader_unreachable`). Answers may be lost (`reply_lost`), clients may be
killed (`client_dies`).

A client in `Direct` was started with `LCAP_CL_DIRECT` (`lcap -d`): its calls go
to Lustre, and its clears are for the changelog user of lcapd, since the tool
knows of `cl1` only. `lu_changelog_clear` moves `purged` under the reader, whose
open stream may go on with a record that is gone, or skip it (`stream_skips`).

### Transport

A socket is a queue of messages in each direction (`net.up`, `net.down`) and the
frames of the message that was begun and not finished (`net.part`). `Sends`
gives the outcomes of a sequence of `zmq_send()`: any of them may fail, and the
frames before it stay. What a `ZMQ_ROUTER`, `ZMQ_DEALER` and `ZMQ_REQ` add or
strip, and that a `ROUTER` drops what is for nobody and a `REQ` skips what has no
delimiter, is from how the code uses them and marked external. `Told`, `Later`
and `Body` are `lcapnet_req_update()`, as positions in the message: delimiters
are ignored (`Told` has the others), the first frame or two are identities, the
ones after these (`Later`) are the body. `recv_no_memory` is each of its allocations
failing: the frames that follow are left in `rest` and read as the next message.
`SendOrAck` is a handler's send and the `ack_retcode()` of its caller, which may
fail as well. A reader's handler is reduced to its one answer (`Reader` has the
handlers; a `CLEAR` without a bucket, which gets none, is not sent here).
A client stops when its send fails, as the lcap tool does.

A client reads an answer in one of two ways. START, its first request, is read by
`px_changelog_start()` with one `zmq_recv()`: the first frame after the delimiter
is the answer, whatever its opcode and whatever follows. The others are read by
`cl_rep_recv()`, which puts all frames of the message together. `got` is what was
read so. When frames are glued together (`Glued`) and some stay unread, the next
`zmq_send()` fails with `EFSM` and the client makes no other request: `GoesOn`
sets its `count` to the bound. That is always so for START; with `cl_rep_recv()`
it is when `cl_ack_retcode()` runs out of room before the last frame, which
depends on sizes and is left open. That a frame is long enough to pass
for an acknowledgement (12 bytes: the name of an MDT is, the identity that ZMQ
makes for a client is not) is left out: the model takes any first frame.

### Config and Lcapd

A line of the file is its statement, whether blanks come first, and its
argument; `Numeral` gives the arguments that are numbers. An argument that is
missing is whatever the uninitialised buffer held (`Leftover`), since `sscanf()`
returns `EOF` there and not 0. With `oom`, `strdup()` gives NULL instead of the
argument, and the handler returns -EINVAL; with `io`, `fgets()` fails before the
end of the file, and -errno is returned. Either ends the reading with `parsing`
at `failed`, told apart from `refused`, which is for what the file says. `Readable`, `InRange` and `Means` say what lines
stand for by their positions in the file and without a parser: which lines have
a statement (`Given`), which of them is the last, how many come before it
(`Place`). `ConfigMeans` compares the parser with them.

In `Lcapd`, `main`, `sigh` and `rdr[i]` are the places of main, the signal thread
and the readers; `info` is `cc_rdr_info`, garbage until `lcap_ctx_init()` zeroes
the context on main's stack, and freed at the end. `link[i]` are the SIGNAL
messages of a reader. `interrupt_main`, `interrupt_sighandler` and
`interrupt_reader` are a handled signal, by the thread that takes it: a system
call that waits is interrupted, so that main leaves `lcapd_serve()` or a reader
ends. `killed` is a signal before the handlers are there. `lcap_readers_terminate`
may crash where it uses a context that is not there, or joins a detached thread
that has ended; either is an end of the process. Names of MDTs are distinct.

## Runs

Passing:

| run | instance | checks |
|---|---|---|
| `reader_faults` | 1 client, all requests, all faults but `reuse`, 3 records, buckets of 2 | `TypeOK`, `IInv`, `NoRecordForgotten`, `ProxySpec` |
| `reader_shared` | 2 clients, no fault, 3 records, buckets of 1 | `IInv`, `PurgedAcked`, `BucketsInOrder`, `CacheBounded`, `LentStable`, `Exclusive`, `DeliverInv`, `ProxySpec` |
| `lcap_tools` | 2 tools, all faults but `reuse`, 3 records, one bucket's worth of 2 in the cache | `LcapTypeOK`, `PurgedReturned`, `BatchIsLent`, `AckedAsked`, `LInv` |
| `lcap_api` | a tool, a program and a direct tool, no fault, 3 records, buckets of 2 | `PurgedReturned`, `BatchIsLent` |
| `lcap_live` | 2 tools, `oom` and `llapi`, 2 records, a cache of 1 | `CallsReturn`, `RecordsRead` |
| `transport` | 2 clients with 2 requests each, 2 readers, up to 2 failures | `HandledAsSent`, `AnswersOwn`, `FaultCostsOneCall`, `LossesPaid`, `RequestAnswered` |
| `lcapd` | all files of up to 2 of 14 lines, a complete one and one with too many MDTs, 4 command lines, up to 2 MDTs, all failures and signals | `LcapdTypeOK`, `ConfigMeans`, `ServesWhatIsConfigured`, `RegistryCurrent`, `LcapdIInv`, `ReadSoFar`, `Terminates`, `FailureNoticed` |

What they show. At least once delivery holds at the reader (`PurgedAcked`) and
end to end (`PurgedReturned`) with out of order and late acknowledgements,
crashes, restarts, failures and a direct client beside, as long as a freed
bucket's chunk is not recycled and the applications stop on errors, as the lcap
tool does. Nothing that was read is dropped. Two clients process one bucket only
after a timeout. The lcap tool never hangs while the reader lives, and the
reader goes on reading while it has room. A send or an allocation that fails
between two frames costs the call it hits and no other, because the error path
of `lcapd_process_request()` and `changelog_reader_rpc_hdl()` sends a message
right after, which flushes the frames that were left; without it the next client
would lose its call (this is the mutant of `FaultCostsOneCall`). A request is
handled for the client that made it, at the reader that it named, and nobody
takes a foreign answer for its own, with one exception: after a failure, START may
take an identity for an acknowledgement, and such a client makes no other request
(`AnswersOwn`). This holds after one failure of each kind and
after any number of one kind (the theorems); with three failures of both kinds
the first part does not, see below. lcapd accepts well formed files only, with
what they say, and reports an error for one only if `strdup()` or `fgets()`
fails; it serves once every reader was started,
and ends on SIGTERM in every interleaving, if sometimes by a crash.

Disagreements between the code and what is written about it, each a run that
TLC ends with a counterexample:

| run | property | what the code does |
|---|---|---|
| `reader_following` | `FollowingCleaned` | only one of several consecutive ready buckets is cleared, for the loop follows the link that `list_remove()` reset; `re_cleanup_next` is left on the freed bucket (`reader.c:701`, `:716`), so later ones are not cleared in this life of lcapd |
| `reader_reuse` | `PurgedAcked` | with a recycled chunk, a late `CLEAR` acknowledges a bucket that its sender never had |
| `reader_eof` | `EofMeansEmpty` | `deliver_next` stays NULL once the open bucket was delivered, so clients get EOF while records wait |
| `lcap_unseen` | `PurgedReturned` | a bucket whose message could not be sent is the client's all the same, and its next `CLEAR` acknowledges it |
| `lcapd_partial` | `AllOrNone` | a reader that fails is struck off the table (`broker.c:123`) and the others go on, though they "are guaranteed to be either all present or absent" (`share/doc/proto.rst:41`) |

### Bounds

`MaxRec` bounds the records the MDT writes, `MaxBuckets` the buckets allocated
in one life of lcapd (past it, `calloc()` fails). With two to four records in
buckets of one or two, a full bucket, a partly filled one and an empty open one
exist together, the cache of `BatchCount * MaxBkt` records fills in
`reader_shared` and `lcap_tools` and empties again, a bucket expires while another one is ready
(`AckTimeout` of 1: expiry is one tick after the delivery), and one client can own a
bucket that was freed while another one is served. Two clients are what a
timeout race needs. `reader_reuse` needs a fourth bucket, so that the recycled
chunk is neither the first nor the open one. Clients are symmetric, and
`SYMMETRY` is used in safety runs where all are of one kind.

In `lcap_api` three clients are needed: one that owns a bucket, one that takes it
over after a timeout, and a direct one that clears under both. In `transport`,
two clients and two readers are the least for a message to reach the wrong one,
two requests for an answer to be late, and with one failure `FaultCostsOneCall`
says something of two clients, with the second failure hitting the error path of the first. In
`lcapd`, `MAX_MDT` is 2, so that the table overflows; pairs of lines are enough
for every statement to be repeated or combined with any other, and two MDTs for
one reader to fail and one to stay.

Deadlock is checked in the runs of `Reader` and `Lcap`: a reader that is down may
be started again, so the system never stops. In `lcapd` the process ends, and in
`transport` the clients have made their requests, or wait for an answer that
was lost: there it is not checked.

### Fairness

`Fairness` says that the reader thread keeps taking its own steps (weak
fairness of filling and of leaving the serve loop) and that a request that waits
is reached (weak fairness of `Handle(c)` for each client: the socket is a queue
that is read until it is empty). No fairness is assumed of failures, signals,
time, Lustre or clients. In `Lcap`, `ClientReturn` is weakly fair, for a client
sits in `zmq_recv()`, and `broker_reader_send` is strongly fair: the reader
accepts a request only when it looks at its socket, over and over, so the action
is enabled again and again and not all the time, while in the program the
message sits in the socket's queue meanwhile and is not missed.
`TransportFairness` says that the broker and the readers read their sockets and
that a waiting client reads its own. `LcapdFairness` says that each thread goes
on when it can: main, the signal thread (its sleeps end), and every reader, but
not that signals come or that anything fails.

## Proofs

Each table is for every value of the constants that satisfies the named
assumption of the module (`ReaderAssumption`, `ToolsAssumption`,
`ConfigAssumption` and `LcapdAssumption`, `TransportAssumption`, all evaluated by
TLC in the runs), with the hypotheses given.

### Reader

For any clients, any `BatchCount`, `MaxBkt` and `AckTimeout` of at least 1, any
`MaxRec` and `MaxBuckets`, and any faults without `reuse`:

| theorem | states |
|---|---|
| `Invariance` | `Spec => []IInv` |
| `TypeCorrect` | `Spec => []TypeOK` |
| `AtLeastOnce` | `Spec => []PurgedAcked` |
| `NothingForgotten` | `Spec => []NoRecordForgotten` |
| `Bounded` | `Spec => []CacheBounded` |
| `InOrder` | `Spec => []BucketsInOrder` |
| `AcksWhatWasSent` | `Spec => []LentStable` |
| `DeliverInvariance` | `Spec => []DeliverInv` |
| `OneOwner` | `Spec => []Exclusive` |
| `Implements` | `Spec => ProxySpec` |

`"reuse" \notin Faults` cannot be dropped: `reader_reuse` is a counterexample.

`PurgedAcked` is not inductive. `reader_handle_clear()` clears up to the last
record of the bucket at `cleanup_next`, so one must know that this bucket is the
first of the list and holds the records right after those that were cleared
(`Pointers`, `Intervals`, `Ordered`, with `NoRecordForgotten` for no gap), and
that a ready bucket was acknowledged as it now stands (`Ready`): it must be
closed, and its owner must own what it was sent (`Owners`). That buckets are
intervals rests on the stream handing out the next record or an older one
(`Stream`), and on nothing being left from before a restart (`DownEmpty`).
`CacheBounded` is inductive together with these, for the records of the freed
bucket are as many as those that were cleared. `NextInv` has one lemma per
action or group of actions; the actions that leave the cache alone share
`QuietInv`.

For `OneOwner`, `DeliverInv`, which is inductive with `IInv`, adds that `deliver_next` is past every
bucket that a client is processing and that did not time out (`DeliverPast`),
and that every bucket from `cleanup_next` to the open one is linked (`NoGap`), so
that the bucket after one that was lent is the next number.

For `Implements`, the cached records are those from `purged + 1` to
`re_srec - 1` (`CachedInterval`); `recv_store` is `Fetch`, a dequeue is `Lend`,
a fini is `Release`, a clear is `Ack`, every exit is `Crash`, and the rest
stutters.

### Clients, broker and reader

For any clients that go through lcapd (`Direct = {}`), tools and programs, and
any faults without `reuse`:

| theorem | states | more hypotheses |
|---|---|---|
| `LcapInvariance` | `LcapSpec => []LInv` | |
| `LcapTypeCorrect` | `LcapSpec => []LcapTypeOK` | |
| `ReturnsWhatIsLent` | `LcapSpec => []BatchIsLent` | |
| `EndToEnd` | `LcapSpec => []PurgedReturned` | all clients are tools, or neither allocations nor sends fail |
| `AcksWhatWasAsked` | `LcapSpec => []AckedAsked` | all clients are tools |
| `LcapImplements` | `LcapSpec => ProxySpec` | |
| `LcapDelivers` | `LcapSpec => []DeliverInv` | |

`EndToEnd` is the obligation of the whole system: nothing is cleared from the
changelog that was not returned to an application. Its hypothesis is needed:
`lcap_unseen` is a program that goes on after an error, where a send failed. A
program that clears up to an early record has the whole bucket acknowledged, so
`AckedAsked` is for tools.

The state of a client is spread over its own call (`at`), the request on its way
(`up`, `req`), the answer (`rep`), the batch (`left`), and the reader's view
(`lent`). `LInv` says what combinations there are: a client has one message under
way (`OneMessage`); a batch on its way is the one that the reader has lent
(`BatchUnderWay`); no request leaves, but a FINI, while records of the batch are
left (`BatchUsedUp`); and what was lent and is not left was returned
(`Settlement`), so that a `CLEAR` acknowledges returned records only. It includes
`IInv` and the types. The reader's steps are seen through three shapes, of which
each action is shown to have one: the clients see nothing of it, lcapd has
ended, or one request is served. The steps of a client change what concerns
this client only.

`LcapImplements` carries the promise of `ChangelogProxy` over to the whole.
`Reader` alone has clients that send anything at any time and always take their
answers. In `Lcap` answers are also lost, taken late or never, and the stream may
be moved: `ReaderView` says that each step of the composition is a step of
`Reader` or leaves Lustre, the cache, the leases and the acknowledgements alone.
With `IInv`, which is part of `LInv`, every step is then one of the proxy or a
stutter. `LcapDelivers` follows from the same lemma.

### lcapd

For any files, command lines and number of MDTs, and all failures and signals,
without more hypotheses:

| theorem | states |
|---|---|
| `LcapdInvariance` | `LcapdSpec => []LcapdIInv` |
| `LcapdTypeCorrect` | `LcapdSpec => []LcapdTypeOK` |
| `ServesConfigured` | `LcapdSpec => []ServesWhatIsConfigured` |
| `RegistryFollows` | `LcapdSpec => []RegistryCurrent` |
| `ReadsLineByLine` | `LcapdSpec => []ReadSoFar` |
| `AcceptsWhatIsMeant` | `LcapdSpec => []ConfigMeans` |

`LcapdIInv` says at each place of main what is set up by then (`Phases`,
`Configured`), and for each reader which of its SIGNAL messages may be on their
way for the place it is at, and what the table may hold for them
(`Registration`): a reader that warned joins no more, so a message to join is
never read after the warning.

`ConfigMeans` is about the end of the file, `ReadSoFar` about every line: after n
lines the configuration is what the first n stand for, they can be read, and
`errno` is set just when a number among them was too large, or by the call whose
failure ended the reading. A handler decides
from the configuration whether its statement was given before; `Means` turns
that into a fact about the lines (`ReadableNext`, `RefusedIll`): a name is set
when a line has it, for an argument that is NULL is not stored but ends the
reading; the count of workers is that of the
last such line; the table is as long as there are MDTs among the lines. The
proof is by induction over steps, not over sequences, since `Given` of n + 1
lines is `Given` of n and perhaps one more (`GivenNext`, `LastNext`,
`PlaceNext`). That the lines with a statement have a last one (`HasLast`) is part
of the invariant for the same reason. Both properties are for files in which
every statement has its argument (`Complete`); with an argument missing, what is
stored is not determined by the file.

### Transport

For any clients, readers and number of requests, and any number of failures of
one kind, of sends or of allocations in the reassembly (`OneKind`):

| theorem | states |
|---|---|
| `TransportInvariance` | `TransportSpec => []TransportIInv` |
| `HandledInTurn` | `TransportSpec => []HandledAsSent` |
| `FaultsPayForLosses` | `TransportSpec => []LossesPaid` |
| `OneCallPerFault` | `TransportSpec => []FaultCostsOneCall` |
| `AnswersTheirOwn` | `TransportSpec => []AnswersOwn` |

`TransportIInv` lists what the messages on their way can look like (`UpOK`,
`DownOK`, `PartOK`): a request, an announcement, an answer, or frames that
failed sends left, finished by a later message. Such glued messages grow without
bound, so they are described by what the receiver needs: they have a body, and
one that is no request at a reader, no RPC at the broker, and at a client none
that `cl_rep_recv()` accepts, while its first frame is an identity
(`ReadGluedDown`, `ReadGluedUp`, `ReadGluedReply`). The second part is that every
client is named by at most one message (`Apart`), and only while it waits
(`Within`): this is why a request is not handled twice, or after a later one, and
why an answer is the one to the last request. With it go what a receiver left
(`RestOK`: too few frames for a body), that a client stops after a failed send
(`Stopped`), and the order of the calls (`CallsOK`). The lemmas on sockets
(`SendSome`, `SendAll`, `TakeUp`, `TakeDown`) say that each operation keeps these
when the clients in the frames are named nowhere else; each action's lemma then
says which form was read and which one is sent. TLC found `TransportIInv`
to hold with three failures of each kind, for the instance of `transport`.

`FaultCostsOneCall` is not inductive: a message that was begun and not finished has
cost nothing yet, and damages the next one. `LossesPaid` counts these messages
(`Open`) with the calls that no whole message carries (`Carried`). A step then
has one of few effects on the account (`PaidBound`): a failure pays for a call or
for a message left open; or the next message is glued to an open one, whose
share of the account passes to the call that is lost with it; or nothing is lost.
Each send is shown to have one of them (`SendsCost`, `SendOrAckCost`), and each
read to take at most one call (`BrokerLoses`, `ReaderLoses`).

`AnswersOwn` needs the account too. `TransportIInv` has what it says of frames and
requests (`GotOK`), but not that an identity is taken for an answer only after a
failure. A client that reads glued frames is named by no whole message (`Apart`),
so its call is among those that are lost, and `LossesPaid` gives the failure that
paid for it (`CarriedNamed`, `GluedPaid`); failures are never taken back, so this
stays true (`IdsPaid`).

`OneKind` cannot be dropped. With both kinds, three failures can have a request
handled by a reader that its client did not name: the broker fails to pass on a
request and then to send the error for it, so that the identity of a reader is
left in its socket; the next request follows it and is one message with it, sent
to that reader; and the reader has no memory for the first identity in it, so
that it takes the rest for a request. `transport` checks two failures of any
kind.

### Checked by TLC only

- the liveness properties `CallsReturn`, `RecordsRead`, `RequestAnswered`,
  `Terminates` and `FailureNoticed`: fairness is out of the prover's reach;
- `HandledAsSent`, `AnswersOwn`, `FaultCostsOneCall` and `LossesPaid` with one
  failure of each kind;
- the properties of `Lcap` with direct clients (`lcap_api`): they clear under the
  reader, whose buckets are then no longer the records after the cleared ones;
- anything with fault `reuse`.

## Seen while modelling

Not stated as properties of a run, most for want of a sentence to hold them
against:

- a client that asks before a record was read is sent an empty bucket, which the
  library turns into -EINVAL; its `CLEAR` then asks Lustre to clear up to -1,
  which fails, and the bucket stays the first of the list;
- once `re_cleanup_next` dangles, a `CLEAR` or an expired bucket may crash lcapd
  (`clear_freed`, `dequeue_freed`);
- a `CLEAR` of a client without a bucket is not answered (`reader.c:688`), though
  exchanges are "strictly synchronous" (`share/doc/proto.rst:48`): a program that
  clears twice waits for ever. `CallsReturn` fails for programs for this reason;
- `endrec` is ignored, a `CLEAR` acknowledges the whole bucket, though it is the
  "Maximum record ID to acknowledge" (`lcap_client.h:145`): `AckedAsked` fails for
  programs that clear up to an early record;
- programs that never stop asking may keep a reader in `lcap_rpc_recv()`, though
  it is to "Serve workers for 50ms" (`reader.c:922`);
- `LCAP_RECV_NONBLOCK` is passed to ZMQ as it is (`lcap_net.c:127`), where it is
  not `ZMQ_DONTWAIT`, so the broker waits in `zmq_msg_recv()` and not in
  `zmq_poll()` once it got a message. A signal that main takes there does not
  end `lcapd_serve()`; in `zmq_poll()` it does, SIGHUP and SIGUSR1 included, and
  lcapd stops where the log says "reloading configuration" (`lcapd.c:320`);
- a statement without its argument is accepted with what is in the buffer
  (`config.c:55`), though "Missing parameter" is to be printed (`config.c:168`);
  an indented directive is an unknown statement; a batch of 0 records is accepted;
- one failed send in `broker_client_send()`, of the body of an answer to START, leaves
  an envelope in the broker's socket, and the error that the broker then sends to
  the reader follows it to the client. `px_changelog_start()` reads the first frame
  only (`px_client.c:244`), here the name of the MDT, and returns four of its bytes
  as `pr_retcode`, a positive number, which the tool takes for success
  (`lcap.c:86`); its next call fails with `EFSM`. This is the exception in
  `AnswersOwn`;
- `Max_Buckets` is described as a number of buckets (`share/config/lcap.cfg:13`),
  while the code bounds the records, by `ccf_rec_batch_count * ccf_max_bkt`
  (`reader.c:176`), and so does `CacheBounded`. This is weaker: with buckets that
  are closed before they are full there may be more than `Max_Buckets` of them;
- a failed request, a failed error message and a failed allocation can together
  have the next request handled by another reader than the one it names (Proofs,
  Transport): the broker never discards a message that it began;
- a client that went on after a send that failed halfway would have its next
  request refused by the broker, for its frames follow the ones that were left;
  with a failed allocation in the broker on top, that request could be handled
  under the name of the MDT. The lcap tool stops, and this is not modelled;
- `lcap_cfg_release()` reads `ccf_mdt[MAX_MDT]`, one past the array, before it
  compares the index (`config.c:282`); what it reads is the next field.

## Not modelled

- what is logged, and statistics: output only;
- `modules.c`, which no makefile builds;
- the pointers of `queue.h` (`Reader` has the ordered set, what an unlinked node
  holds, and how the iteration ends), and its operations that nothing calls;
- two MDTs of the same name in the file;
- byte sizes: the 8 MiB receive buffer, long lines, overflow of
  `ccf_rec_batch_count * ccf_max_bkt`, a batch count of 0;
- a broker that serves before a reader has joined (`SLOW_JOINER_PAUSE` too
  short): requests are then dropped by the `ROUTER` as for a reader that is gone,
  which `reader_unreachable` has.

## Plan

1. Done: `Reader`, its invariant and refinement with proofs; `Lcap` with both
   channels; `Transport`; `Config` and `Lcapd`.
2. Done: proofs of every safety property that a passing run checks, under the
   hypotheses above; that the composition implements `ChangelogProxy`.
3. Left: `PurgedReturned` beside direct clients, from an invariant of the reader
   whose buckets may have gaps below the records that were cleared.
