-------------------------------- MODULE Lcapd --------------------------------
(***************************************************************************)
(* The lcapd process: src/src/lcapd/lcapd.c, the broker's table of readers *)
(* (src/src/lcapd/broker.c) and the logger (src/src/common/lcap_log.c).    *)
(*                                                                         *)
(* Three kinds of threads: main, which reads the configuration, starts the *)
(* others and then is the broker; the signal thread; a reader per MDT.     *)
(* What a reader does for clients is in module Reader; here it starts,     *)
(* tells the broker, fails or is told to stop.  Signals are taken by any   *)
(* thread, and the system call that the thread is in is interrupted.       *)
(*                                                                         *)
(* Names of MDTs are assumed distinct.                                     *)
(***************************************************************************)
EXTENDS Config

VARIABLES
  main,   \* where the main thread is
  sigh,   \* where the signal thread is
  flags,  \* TerminateSig, ReloadSig and DumpStatsSig
  info,   \* cc_rdr_info: the array of the readers' threads
  log,    \* CurrentLogger, CurrentLogLevel and whether the log is open
  rdr,    \* where each reader is
  link,   \* SIGNAL messages on their way from each reader
  cc_rcid \* the readers that the broker knows

lcapdVars == <<cfgVars, main, sigh, flags, info, log, rdr, link, cc_rcid>>

Index    == 1 .. MAX_MDT
mdtcount == Len(config.ccf_mdt)
Sigs     == {"term", "reload", "dumpstats"}
Gone     == main \in {"exited", "crashed"}
Serving  == main \in {"poll", "recv"}
Live     == {"created", "up", "failing"}
Ended    == {"failed", "stopped"}

\* The levels of the log, from the most talkative.
LCAPLOG_DBG == 1
LCAPLOG_ERR == 4

LcapdTypeOK ==
  /\ CfgTypeOK
  /\ main \in {"config", "sigthread", "init", "bind", "alloc", "start", "pause", "poll",
               "recv", "leave", "release", "return", "exited", "crashed"}
  /\ sigh \in {"none", "reset", "install", "sleep", "loop"}
  /\ flags \subseteq Sigs
  /\ info \in {"garbage", "null", "set", "freed"}
  /\ log \in [logger : {Unset, "stderr", "syslog"}, level : 0 .. LCAPLOG_ERR, open : BOOLEAN]
  /\ rdr \in [Index -> {"none"} \cup Live \cup Ended]
  /\ link \in [Index -> {<<>>, <<"ok">>, <<"error">>, <<"ok", "error">>}]
  /\ cc_rcid \in [Index -> BOOLEAN]

LcapdInit ==
  /\ CfgInit
  /\ main = "config"
  /\ sigh = "none"
  /\ flags = {}
  /\ info = "garbage"
  /\ log = [logger |-> Unset, level |-> 0, open |-> FALSE]
  /\ rdr = [i \in Index |-> "none"]
  /\ link = [i \in Index |-> <<>>]
  /\ cc_rcid = [i \in Index |-> FALSE]

\* The parts of the state that the steps below leave alone.
readers == <<rdr, link, cc_rcid>>
signals == <<sigh, flags>>

-----------------------------------------------------------------------------
(***************************************************************************)
(* The main thread starts the others.                                      *)
(***************************************************************************)

\* main() returns, and the process ends with all its threads.
Quit == main' = "exited"

read_config ==
  /\ main = "config"
  /\ lcap_cfg_init
  /\ main' = CASE parsing' = "accepted"                         -> "sigthread"
               [] parsing' \in {"stopped", "refused", "failed"} -> "exited"
               [] OTHER                                         -> "config"
  /\ UNCHANGED <<signals, info, log, readers>>

setup_sigthread ==
  /\ main = "sigthread"
  /\ \/ main' = "init" /\ sigh' = "reset"
     \/ "oom" \in LcapdFaults /\ Quit /\ UNCHANGED sigh
  /\ UNCHANGED <<cfgVars, flags, info, log, readers>>

\* Verbosities above the last level are not caught.
lcap_set_loglevel_bug(verbosity) == LCAPLOG_ERR - verbosity

\* lcap_set_loglevel(): errors only, and more of the rest with each -v.
lcap_set_loglevel(verbosity) ==
  IF verbosity <= 2 THEN LCAPLOG_ERR - verbosity ELSE LCAPLOG_DBG

\* lcap_set_logger(): the first one available is the default.
lcap_set_logger(name) == IF name = Unset THEN "stderr" ELSE name
AvailableLoggers == {"stderr", "syslog"}

\* lcap_ctx_init() zeroes the context, and sets up and opens the log.
init_log ==
  /\ main = "init"
  /\ info' = "null"
  /\ LET level  == lcap_set_loglevel(config.ccf_verbosity)
         logger == lcap_set_logger(config.ccf_loggername)
     IN  \/ /\ logger \in AvailableLoggers
            /\ log' = [logger |-> logger, level |-> level, open |-> TRUE]
            /\ main' = "bind"
         \/ /\ logger \notin AvailableLoggers
            /\ log' = [log EXCEPT !.level = level]
            /\ Quit
  /\ UNCHANGED <<cfgVars, signals, readers>>

\* The context, the socket or the address cannot be had.
lcap_bind_server ==
  /\ main = "bind"
  /\ \/ main' = "alloc"
     \/ LcapdFaults \cap {"oom", "bind"} # {} /\ Quit
  /\ UNCHANGED <<cfgVars, signals, info, log, readers>>

\* Readers that were started, in order.
Started == {i \in Index : rdr[i] # "none"}

alloc_readers ==
  /\ main = "alloc"
  /\ \/ main' = "start" /\ info' = "set"
     \/ "oom" \in LcapdFaults /\ Quit /\ UNCHANGED info
  /\ UNCHANGED <<cfgVars, signals, log, readers>>

\* The loop stops one reader short.
lcap_readers_start_bug ==
  /\ main = "start"
  /\ LET i == Cardinality(Started) + 1
     IN  \/ i < mdtcount /\ rdr' = [rdr EXCEPT ![i] = "created"] /\ UNCHANGED main
         \/ i >= mdtcount /\ main' = "pause" /\ UNCHANGED rdr
  /\ UNCHANGED <<cfgVars, signals, info, log, link, cc_rcid>>

\* lcap_readers_start() and lcap_subtask(): a thread, detached, for every MDT,
\* or none serves.
lcap_readers_start ==
  /\ main = "start"
  /\ LET i == Cardinality(Started) + 1
     IN  \/ i <= mdtcount /\ rdr' = [rdr EXCEPT ![i] = "created"] /\ UNCHANGED main
         \/ i <= mdtcount /\ "oom" \in LcapdFaults /\ Quit /\ UNCHANGED rdr
         \/ i > mdtcount /\ main' = "pause" /\ UNCHANGED rdr
  /\ UNCHANGED <<cfgVars, signals, info, log, link, cc_rcid>>

\* SLOW_JOINER_PAUSE is over, whether the readers have joined or not.
pause_ends ==
  /\ main = "pause"
  /\ main' = "poll"
  /\ UNCHANGED <<cfgVars, signals, info, log, readers>>

-----------------------------------------------------------------------------
(***************************************************************************)
(* The main thread is the broker.                                          *)
(***************************************************************************)

NoMessage == \A i \in Index : link[i] = <<>>

\* zmq_poll() in lcapd_serve() finds a message.
poll_ready ==
  /\ main = "poll"
  /\ ~NoMessage
  /\ main' = "recv"
  /\ UNCHANGED <<cfgVars, signals, info, log, readers>>

\* A request of a client, which is forwarded (see module Lcap).
client_request ==
  /\ main = "poll"
  /\ main' = "recv"
  /\ UNCHANGED <<cfgVars, signals, info, log, readers>>

\* The entry is kept when its reader fails.
changelog_reader_deregister_bug(i) == UNCHANGED cc_rcid

changelog_reader_deregister(i) == cc_rcid' = [cc_rcid EXCEPT ![i] = FALSE]

\* The name is looked up in the configuration and the identity kept.
changelog_reader_register(i) == cc_rcid' = [cc_rcid EXCEPT ![i] = TRUE]

\* broker_handle_signal() for the next message of a reader.  The loop of
\* lcap_rpc_recv() waits for the next message: its flag is not the one of ZMQ.
broker_handle_signal(i) ==
  /\ main = "recv"
  /\ link[i] # <<>>
  /\ \/ Head(link[i]) = "ok" /\ changelog_reader_register(i)
     \/ Head(link[i]) = "error" /\ changelog_reader_deregister(i)
  /\ link' = [link EXCEPT ![i] = Tail(@)]
  /\ UNCHANGED <<cfgVars, main, signals, info, log, rdr>>

\* No memory for the identity.  The reader is told, and ignores it; when it
\* cannot be told, lcap_rpc_recv() returns.
register_fails(i) ==
  /\ main = "recv"
  /\ link[i] # <<>>
  /\ Head(link[i]) = "ok"
  /\ "oom" \in LcapdFaults
  /\ link' = [link EXCEPT ![i] = Tail(@)]
  /\ main' \in {"recv"} \cup IF "send" \in LcapdFaults THEN {"poll"} ELSE {}
  /\ UNCHANGED <<cfgVars, signals, info, log, rdr, cc_rcid>>

\* lcapd_serve() has returned: sleep(1), then lcap_ctx_release().
lcap_ctx_release ==
  /\ main = "leave"
  /\ main' = "release"
  /\ info' = "freed"
  /\ log' = [log EXCEPT !.open = FALSE]
  /\ UNCHANGED <<cfgVars, signals, readers>>

release_config ==
  /\ main = "release"
  /\ lcap_cfg_release
  /\ main' = "return"
  /\ UNCHANGED <<signals, info, log, readers>>

main_returns ==
  /\ main = "return"
  /\ Quit
  /\ UNCHANGED <<cfgVars, signals, info, log, readers>>

Main ==
  \/ read_config
  \/ setup_sigthread
  \/ init_log
  \/ lcap_bind_server
  \/ alloc_readers
  \/ lcap_readers_start
  \/ pause_ends
  \/ poll_ready
  \/ \E i \in Index : broker_handle_signal(i) \/ register_fails(i)
  \/ lcap_ctx_release
  \/ release_config
  \/ main_returns

-----------------------------------------------------------------------------
(***************************************************************************)
(* Readers.                                                                *)
(***************************************************************************)

\* The configuration is gone: the name of the MDT is NULL.
Dangling == parsing = "released"

\* changelog_reader_init(), then changelog_reader_signal().
reader_joins(i) ==
  /\ rdr[i] = "created"
  /\ ~Dangling
  /\ link' = [link EXCEPT ![i] = Append(@, "ok")]
  /\ rdr' = [rdr EXCEPT ![i] = "up"]
  /\ UNCHANGED <<cfgVars, main, signals, info, log, cc_rcid>>

\* changelog_reader_init() fails before there is a socket to tell about it, or
\* the first SIGNAL cannot be sent and a second one is tried.
reader_init_fails(i) ==
  /\ rdr[i] = "created"
  /\ ~Dangling
  /\ \/ "oom" \in LcapdFaults /\ rdr' = [rdr EXCEPT ![i] = "stopped"]
     \/ "send" \in LcapdFaults /\ rdr' = [rdr EXCEPT ![i] = "failing"]
  /\ UNCHANGED <<cfgVars, main, signals, info, log, link, cc_rcid>>

\* An error of Lustre or in the storing of a record, see module Reader.
reader_error(i) ==
  /\ rdr[i] = "up"
  /\ LcapdFaults \cap {"oom", "llapi"} # {}
  /\ rdr' = [rdr EXCEPT ![i] = "failing"]
  /\ UNCHANGED <<cfgVars, main, signals, info, log, link, cc_rcid>>

\* reader_main() tries to warn the broker on its way out.
reader_fails(i) ==
  /\ rdr[i] = "failing"
  /\ ~Dangling
  /\ \/ /\ link' = [link EXCEPT ![i] = Append(@, "error")]
        /\ rdr' = [rdr EXCEPT ![i] = "failed"]
     \/ /\ "send" \in LcapdFaults
        /\ rdr' = [rdr EXCEPT ![i] = "stopped"]
        /\ UNCHANGED link
  /\ UNCHANGED <<cfgVars, main, signals, info, log, cc_rcid>>

\* The loop of reader_main() ends on TerminateSig: no error, no message.
reader_stops(i) ==
  /\ rdr[i] = "up"
  /\ "term" \in flags
  /\ rdr' = [rdr EXCEPT ![i] = "stopped"]
  /\ UNCHANGED <<cfgVars, main, signals, info, log, link, cc_rcid>>

reader_crashes(i) ==
  /\ rdr[i] \in Live
  /\ "crash" \in LcapdFaults \/ Dangling
  /\ main' = "crashed"
  /\ UNCHANGED <<cfgVars, signals, info, log, readers>>

ReaderRuns(i) ==
  \/ reader_joins(i)
  \/ reader_fails(i)
  \/ reader_stops(i)

-----------------------------------------------------------------------------
(***************************************************************************)
(* Signals.                                                                *)
(***************************************************************************)

reset_flags ==
  /\ sigh = "reset"
  /\ flags' = {}
  /\ sigh' = "install"
  /\ UNCHANGED <<cfgVars, main, info, log, readers>>

\* sigaction() does not fail for these signals.
install_handlers ==
  /\ sigh = "install"
  /\ sigh' = "sleep"
  /\ UNCHANGED <<cfgVars, main, flags, info, log, readers>>

\* The flags are reset once the handlers are in place.
sleep_ends_bug ==
  /\ sigh = "sleep"
  /\ sigh' = "loop"
  /\ flags' = {}
  /\ UNCHANGED <<cfgVars, main, info, log, readers>>

sleep_ends ==
  /\ sigh = "sleep"
  /\ sigh' = "loop"
  /\ UNCHANGED <<cfgVars, main, flags, info, log, readers>>

\* A round of the loop, with no termination asked for.
handle_flags ==
  /\ sigh = "loop"
  /\ "term" \notin flags
  /\ \/ "reload" \in flags /\ flags' = flags \ {"reload"}
     \/ "reload" \notin flags /\ "dumpstats" \in flags /\ flags' = flags \ {"dumpstats"}
  /\ UNCHANGED <<cfgVars, main, sigh, info, log, readers>>

\* lcap_readers_terminate() uses the context without a look at what main does:
\* it may not be there yet, or not any more.  The flags that it clears in it
\* are read by nobody.
ContextBroken ==
  \/ info = "garbage"
  \/ mdtcount > 0 /\ info \in {"null", "freed"}
  \/ \E i \in 1 .. mdtcount : rdr[i] = "none"

\* pthread_join() of a detached thread: an error while the thread runs, and
\* anything once it has ended and its descriptor may be gone.
JoinMayCrash == \E i \in 1 .. mdtcount : rdr[i] \in Ended

lcap_readers_terminate ==
  /\ sigh = "loop"
  /\ "term" \in flags
  /\ \/ main' = "exited" /\ ~(mdtcount > 0 /\ info = "null")
     \/ main' = "crashed" /\ (ContextBroken \/ JoinMayCrash)
  /\ UNCHANGED <<cfgVars, signals, info, log, readers>>

SignalThread ==
  \/ reset_flags
  \/ install_handlers
  \/ sleep_ends
  \/ handle_flags
  \/ lcap_readers_terminate

\* Before the handlers are in place, the process is killed.
killed ==
  /\ "signal" \in LcapdFaults
  /\ sigh \in {"none", "reset", "install"}
  /\ Quit
  /\ UNCHANGED <<cfgVars, signals, info, log, readers>>

Handled == "signal" \in LcapdFaults /\ sigh \in {"sleep", "loop"}

\* The main thread takes the signal.  Where it waits in zmq_poll(), that fails
\* and lcapd_serve() ends; in zmq_msg_recv(), it goes back to zmq_poll().
interrupt_main(s) ==
  /\ Handled
  /\ flags' = flags \cup {s}
  /\ \/ UNCHANGED main
     \/ main = "poll" /\ NoMessage /\ main' = "leave"
     \/ main = "recv" /\ NoMessage /\ main' = "poll"
  /\ UNCHANGED <<cfgVars, sigh, info, log, readers>>

\* The signal thread takes it: sleep() is cut short.
interrupt_sighandler(s) ==
  /\ Handled
  /\ flags' = flags \cup {s}
  /\ sigh' = "loop"
  /\ UNCHANGED <<cfgVars, main, info, log, readers>>

\* A reader takes it, and its zmq_poll() or its read of the changelog fails.
interrupt_reader(i, s) ==
  /\ Handled
  /\ rdr[i] = "up"
  /\ flags' = flags \cup {s}
  /\ rdr' = [rdr EXCEPT ![i] = "failing"]
  /\ UNCHANGED <<cfgVars, main, sigh, info, log, link, cc_rcid>>

-----------------------------------------------------------------------------

LcapdNext ==
  /\ ~Gone
  /\ \/ Main
     \/ SignalThread
     \/ client_request
     \/ killed
     \/ \E i \in Index :
          \/ ReaderRuns(i)
          \/ reader_init_fails(i)
          \/ reader_error(i)
          \/ reader_crashes(i)
     \/ \E s \in Sigs :
          \/ interrupt_main(s)
          \/ interrupt_sighandler(s)
          \/ \E i \in Index : interrupt_reader(i, s)

LcapdSpec == LcapdInit /\ [][LcapdNext]_lcapdVars

\* Every thread goes on when it can.  Nothing is assumed of signals and of
\* failures.
LcapdFairness ==
  /\ WF_lcapdVars(~Gone /\ Main)
  /\ WF_lcapdVars(~Gone /\ SignalThread)
  /\ \A i \in Index : WF_lcapdVars(~Gone /\ ReaderRuns(i))

LcapdLiveSpec == LcapdSpec /\ LcapdFairness

-----------------------------------------------------------------------------
(***************************************************************************)
(* Properties.                                                             *)
(***************************************************************************)

\* Steps 1 to 6 of lcap_ctx_init() are over when a client can be served: there
\* is a thread for every MDT of the file, and for no other, and a log.
ServesWhatIsConfigured ==
  Serving => Started = 1 .. mdtcount /\ info = "set" /\ log.open /\ parsing = "accepted"

\* The broker's table follows the readers: when nothing is on its way, a reader
\* that warned the broker is not in it, and no reader is that never joined,
\* whatever registrations failed or were overtaken by the failure.
RegistryCurrent ==
  \A i \in Index :
    /\ rdr[i] \in {"none", "created"} => ~cc_rcid[i]
    /\ rdr[i] = "failed" /\ link[i] = <<>> => ~cc_rcid[i]

\* "Received termination signal: quitting.": whichever thread takes SIGTERM,
\* and wherever main and the readers are, the process ends.
Terminates == "term" \in flags ~> Gone

\* broker_handle_signal() gets to know of a reader that warned about its end.
FailureNoticed ==
  \A i \in Index : rdr[i] = "failed" ~> ~cc_rcid[i] \/ Gone

\* "the readers are guaranteed to be either all present or absent": after one
\* has failed, the others go too.
AllOrNone ==
  \A i \in Index :
    rdr[i] = "failed" ~> Gone \/ \A j \in 1 .. mdtcount : rdr[j] \in Ended
=============================================================================
