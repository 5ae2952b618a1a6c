---------------------------- MODULE LcapdProofs -----------------------------
(***************************************************************************)
(* Proofs about Config and Lcapd, for any command lines and configuration  *)
(* files, any number of MDTs and any faults.                               *)
(***************************************************************************)
EXTENDS LcapdInv, FiniteSetTheorems, SequenceTheorems, TLAPS

-----------------------------------------------------------------------------
(***************************************************************************)
(* The configuration.                                                      *)
(***************************************************************************)

\* Whatever the argument is, atoi() makes a number of it.
LEMMA AtoiType == ASSUME NEW arg PROVE atoi(arg) \in Int
  BY ConfigAssumption DEF ConfigAssumption, atoi

\* The defaults, and what lcap_cfg_release() leaves.
LEMMA DefaultTypes ==
  /\ config_set_defaults \in lcap_cfg
  /\ config_set_defaults.ccf_mdt = <<>>
  <1> DEFINE Cfg(m, b, u) ==
               [ccf_mdt |-> m, ccf_clreader |-> u, ccf_loggername |-> u,
                ccf_oneshot |-> b, ccf_verbosity |-> 0, ccf_max_bkt |-> 256,
                ccf_rec_batch_count |-> 64, ccf_worker_count |-> 0]
  <1>1. \A m \in Seq(STRING), b \in BOOLEAN : Cfg(m, b, Unset) \in lcap_cfg
    BY DEF lcap_cfg
  <1>2. <<>> \in Seq(STRING)
    OBVIOUS
  <1>3. config_set_defaults = Cfg(<<>>, FALSE, Unset)
    BY DEF config_set_defaults
  <1>4. config_set_defaults.ccf_mdt = <<>>
    BY DEF config_set_defaults
  <1> HIDE DEF Cfg
  <1> QED
    BY <1>1, <1>2, <1>3, <1>4, Zenon

\* A statement that is not refused fits in: the table of MDTs has room.
LEMMA StoredTypes ==
  ASSUME config \in lcap_cfg, Len(config.ccf_mdt) <= MAX_MDT,
         NEW stmt \in Directives, NEW arg \in Strings, ~AlreadyGiven(stmt)
  PROVE  /\ Stored(stmt, arg) \in lcap_cfg
         /\ Len(Stored(stmt, arg).ccf_mdt) <= MAX_MDT
  <1>1. CASE stmt = "mdtdevice"
    <2>1. /\ config.ccf_mdt \in Seq(STRING)
          /\ Stored(stmt, arg) = [config EXCEPT !.ccf_mdt = Append(@, arg)]
      BY <1>1 DEF lcap_cfg, Stored
    <2>2. /\ Append(config.ccf_mdt, arg) \in Seq(STRING)
          /\ Len(Append(config.ccf_mdt, arg)) = Len(config.ccf_mdt) + 1
          /\ Len(config.ccf_mdt) \in Nat
      BY <2>1 DEF Strings
    <2>3. Len(config.ccf_mdt) < MAX_MDT
      BY <1>1, <2>2, ConfigAssumption DEF ConfigAssumption, AlreadyGiven
    <2>4. Stored(stmt, arg) \in lcap_cfg
          /\ Stored(stmt, arg).ccf_mdt = Append(config.ccf_mdt, arg)
      BY <2>1, <2>2 DEF lcap_cfg
    <2> QED
      BY <2>2, <2>3, <2>4, ConfigAssumption DEF ConfigAssumption
  <1>2. CASE stmt \in Numeric
    <2>1. atoi(arg) \in Int
      BY AtoiType
    <2>2. /\ Stored(stmt, arg) \in lcap_cfg
          /\ Stored(stmt, arg).ccf_mdt = config.ccf_mdt
      BY <1>2, <2>1 DEF Stored, Numeric, lcap_cfg
    <2> QED
      BY <2>2
  <1>3. CASE stmt \in Once
    <2>1. /\ Stored(stmt, arg) \in lcap_cfg
          /\ Stored(stmt, arg).ccf_mdt = config.ccf_mdt
      BY <1>3 DEF Stored, Once, lcap_cfg
    <2> QED
      BY <2>1
  <1> QED
    BY <1>1, <1>2, <1>3 DEF Directives

\* An option changes switches only.
LEMMA OptionTypes ==
  ASSUME config \in lcap_cfg, NEW opt
  PROVE  AfterOption(opt) \in lcap_cfg /\ AfterOption(opt).ccf_mdt = config.ccf_mdt
  <1> DEFINE o == config.ccf_oneshot \/ opt = "o"
             v == IF opt = "v" THEN config.ccf_verbosity + 1
                  ELSE config.ccf_verbosity
  <1>1. o \in BOOLEAN /\ v \in Nat
    BY DEF lcap_cfg
  <1>2. AfterOption(opt) = [config EXCEPT !.ccf_oneshot = o, !.ccf_verbosity = v]
    BY DEF AfterOption, lcap_cfg
  <1> HIDE DEF o, v
  <1> QED
    BY <1>1, <1>2 DEF lcap_cfg

\* Every step of lcap_cfg_init() keeps the types.
LEMMA CfgInitTypes ==
  ASSUME CfgTypeOK, lcap_cfg_init PROVE CfgTypeOK'
  <1> USE DEF CfgTypeOK
  <1>1. CASE lcap_parse_args
    <2>1. cmdline # <<>> /\ UNCHANGED <<file, nread, errno>>
      BY <1>1 DEF lcap_parse_args
    <2>2. Tail(cmdline) \in Seq({"c", "o", "v", "h", "?"})
      BY <2>1
    <2>3. /\ config' = AfterOption(Head(cmdline)) \/ config' = config
          /\ cmdline' \in {cmdline, Tail(cmdline)}
          /\ parsing' \in {"open", "options", "stopped"}
      BY <1>1 DEF lcap_parse_args
    <2> QED
      BY <2>1, <2>2, <2>3, OptionTypes
  <1>2. CASE handle_cfg_line
    <2>1. /\ nread < Len(file)
          /\ NextLine.stmt \in Directives /\ ~AlreadyGiven(NextLine.stmt)
          /\ UNCHANGED <<cmdline, file>>
      BY <1>2 DEF handle_cfg_line, More, Known
    <2>2. Len(file) \in Nat /\ nread + 1 \in 1 .. Len(file)
      BY <2>1
    <2>3. NextLine \in Lines
      BY <2>2 DEF NextLine
    <2>4. CASE parsing' = "failed" /\ errno' = TRUE /\ UNCHANGED <<config, nread>>
      BY <2>1, <2>4
    <2>5. ASSUME NEW arg \in cfg_get_arg(NextLine), arg # Unset,
                 config' = Stored(NextLine.stmt, arg),
                 errno' = (errno \/ (NextLine.stmt \in Numeric /\ arg = TooLarge)),
                 nread' = nread + 1, UNCHANGED parsing
          PROVE  CfgTypeOK'
      <3>1. arg \in Strings
        BY <2>3, <2>5, ConfigAssumption DEF ConfigAssumption, cfg_get_arg, Lines
      <3>2. config' \in lcap_cfg /\ Len(config'.ccf_mdt) <= MAX_MDT
        BY <2>1, <2>5, <3>1, StoredTypes
      <3>3. errno' \in BOOLEAN
        BY <2>5
      <3>4. nread' \in 0 .. Len(file')
        BY <2>1, <2>2, <2>5
      <3> QED
        BY <2>1, <2>5, <3>2, <3>3, <3>4
    <2> QED
      BY <1>2, <2>4, <2>5, Zenon DEF handle_cfg_line
  <1>3. CASE no_argument \/ open_file \/ refuse_line \/ end_of_file \/ read_fails
    BY <1>3 DEF no_argument, open_file, refuse_line, end_of_file, read_fails
  <1>4. CASE skip_line
    <2>1. /\ nread < Len(file) /\ nread' = nread + 1
          /\ UNCHANGED <<cmdline, file, config, errno, parsing>>
      BY <1>4 DEF skip_line, More
    <2>2. nread' \in 0 .. Len(file')
      BY <2>1
    <2> QED
      BY <2>1, <2>2
  <1> QED
    BY <1>1, <1>2, <1>3, <1>4 DEF lcap_cfg_init

\* And lcap_cfg_release() does.
LEMMA CfgReleaseTypes ==
  ASSUME CfgTypeOK, lcap_cfg_release PROVE CfgTypeOK'
  <1>1. config' = [config_set_defaults EXCEPT !.ccf_max_bkt = 0,
                                              !.ccf_rec_batch_count = 0]
    BY DEF lcap_cfg_release
  <1>2. ASSUME NEW r \in lcap_cfg, NEW n \in Int
        PROVE  /\ [r EXCEPT !.ccf_max_bkt = n, !.ccf_rec_batch_count = n] \in lcap_cfg
               /\ [r EXCEPT !.ccf_max_bkt = n, !.ccf_rec_batch_count = n].ccf_mdt
                    = r.ccf_mdt
    BY DEF lcap_cfg
  <1>3. 0 \in Int
    OBVIOUS
  <1>4. config' \in lcap_cfg /\ config'.ccf_mdt = <<>>
    BY <1>1, <1>2, <1>3, DefaultTypes, Zenon
  <1>5. Len(config'.ccf_mdt) <= MAX_MDT
    BY <1>4, ConfigAssumption DEF ConfigAssumption
  <1> QED
    BY <1>4, <1>5 DEF CfgTypeOK, lcap_cfg_release

\* The first configuration is well typed.
LEMMA CfgStart == ASSUME CfgInit PROVE CfgTypeOK /\ mdtcount = 0
  <1>1. config.ccf_mdt = <<>> /\ config \in lcap_cfg
    BY DefaultTypes DEF CfgInit
  <1>2. Len(<<>>) = 0 /\ 0 <= MAX_MDT
    BY ConfigAssumption DEF ConfigAssumption
  <1>3. file \in Seq(Lines) /\ cmdline \in Seq({"c", "o", "v", "h", "?"})
    BY ConfigAssumption DEF ConfigAssumption, CfgInit
  <1>4. nread \in 0 .. Len(file)
    BY <1>3 DEF CfgInit
  <1> QED
    BY <1>1, <1>2, <1>3, <1>4 DEF CfgTypeOK, CfgInit, mdtcount

\* The number of MDTs is one of the indices of the table, or 0.
LEMMA MdtCount == ASSUME CfgTypeOK PROVE mdtcount \in 0 .. MAX_MDT
  <1>1. config.ccf_mdt \in Seq(STRING)
    BY DEF CfgTypeOK, lcap_cfg
  <1> QED
    BY <1>1, ConfigAssumption DEF ConfigAssumption, CfgTypeOK, mdtcount

-----------------------------------------------------------------------------
(***************************************************************************)
(* Steps of the process.                                                   *)
(***************************************************************************)

\* lcap_set_loglevel() chooses one of the levels.
LEMMA LogLevel ==
  ASSUME NEW v \in Nat PROVE lcap_set_loglevel(v) \in 0 .. LCAPLOG_ERR
  BY DEF lcap_set_loglevel, LCAPLOG_ERR, LCAPLOG_DBG

\* A step of the main thread alone: the readers are not concerned.
LEMMA MainInv ==
  ASSUME LcapdIInv, UNCHANGED readers,
         \/ read_config \/ setup_sigthread \/ init_log \/ lcap_bind_server
         \/ alloc_readers \/ pause_ends \/ poll_ready \/ client_request
         \/ lcap_ctx_release \/ release_config \/ main_returns
  PROVE  LcapdIInv'
  <1> USE DEF LcapdIInv
  <1>1. UNCHANGED Started /\ \A i \in Index : Registration(i)'
    BY DEF readers, Started, Registration
  <1>2. CASE read_config
    <2>1. CfgTypeOK'
      BY <1>2, CfgInitTypes DEF read_config, LcapdTypeOK
    <2>2. /\ main = "config" /\ UNCHANGED <<signals, info, log>>
          /\ \/ main' = "sigthread" /\ parsing' = "accepted"
             \/ main' \in {"exited", "config"}
      BY <1>2 DEF read_config
    <2>3. LcapdTypeOK'
      BY <2>1, <2>2 DEF LcapdTypeOK, readers, signals
    <2>4. Phases'
      BY <1>1, <2>2 DEF Phases, Configured
    <2> QED
      BY <1>1, <2>3, <2>4
  <1>3. CASE release_config
    <2>1. CfgTypeOK'
      BY <1>3, CfgReleaseTypes DEF release_config, LcapdTypeOK
    <2>2. main' = "return" /\ UNCHANGED <<signals, info, log>>
      BY <1>3 DEF release_config
    <2> QED
      BY <1>1, <2>1, <2>2 DEF LcapdTypeOK, Phases, Configured, readers, signals
  <1>4. CASE init_log
    <2>1. config.ccf_verbosity \in Nat
      BY DEF LcapdTypeOK, CfgTypeOK, lcap_cfg
    <2>2. PICK logger \in AvailableLoggers, level \in 0 .. LCAPLOG_ERR :
            \/ /\ log' = [logger |-> logger, level |-> level, open |-> TRUE]
               /\ main' = "bind"
            \/ log' = [log EXCEPT !.level = level] /\ main' = "exited"
      BY <1>4, <2>1, LogLevel DEF init_log, Quit, AvailableLoggers
    <2>3. /\ main = "init" /\ info' = "null"
          /\ UNCHANGED <<cfgVars, signals>>
      BY <1>4 DEF init_log
    <2>4. /\ log' \in [logger : {Unset, "stderr", "syslog"},
                       level : 0 .. LCAPLOG_ERR, open : BOOLEAN]
          /\ main' = "bind" => log'.open
      <3> DEFINE Log == [logger : {Unset, "stderr", "syslog"},
                         level : 0 .. LCAPLOG_ERR, open : BOOLEAN]
      <3>1. \A b \in BOOLEAN :
              /\ [logger |-> logger, level |-> level, open |-> b] \in Log
              /\ [logger |-> logger, level |-> level, open |-> b].open = b
        BY DEF AvailableLoggers
      <3>2. [log EXCEPT !.level = level] \in Log
        BY DEF LcapdTypeOK
      <3>3. CASE log' = [logger |-> logger, level |-> level, open |-> TRUE]
        BY <3>1, <3>3, Zenon
      <3>4. CASE log' = [log EXCEPT !.level = level] /\ main' = "exited"
        BY <3>2, <3>4
      <3> QED
        BY <2>2, <3>3, <3>4
    <2>5. CfgTypeOK' /\ parsing' = parsing
      BY <2>3 DEF LcapdTypeOK, CfgTypeOK, cfgVars
    <2>6. LcapdTypeOK'
      BY <2>2, <2>3, <2>4, <2>5 DEF LcapdTypeOK, readers, signals
    <2>7. Phases'
      BY <1>1, <2>2, <2>3, <2>4, <2>5 DEF Phases, Configured
    <2> QED
      BY <1>1, <2>6, <2>7
  <1>5. CASE lcap_ctx_release
    <2>1. /\ main' = "release" /\ main = "leave" /\ info' = "freed"
          /\ log' = [log EXCEPT !.open = FALSE]
          /\ UNCHANGED <<cfgVars, signals>>
      BY <1>5 DEF lcap_ctx_release
    <2>2. CfgTypeOK' /\ parsing' = parsing
      BY <2>1 DEF LcapdTypeOK, CfgTypeOK, cfgVars
    <2>3. log' \in [logger : {Unset, "stderr", "syslog"},
                    level : 0 .. LCAPLOG_ERR, open : BOOLEAN]
      BY <2>1 DEF LcapdTypeOK
    <2> QED
      BY <1>1, <2>1, <2>2, <2>3 DEF LcapdTypeOK, Phases, Configured, readers, signals
  <1>6. CASE \/ setup_sigthread \/ lcap_bind_server \/ alloc_readers
             \/ pause_ends \/ poll_ready \/ client_request \/ main_returns
    <2>1. /\ UNCHANGED <<cfgVars, flags, log>>
          /\ sigh' \in {sigh, "reset"}
          /\ info' = info \/ (main' = "start" /\ info' = "set")
          /\ \/ main = "sigthread" /\ main' = "init"
             \/ main = "bind" /\ main' = "alloc"
             \/ main = "alloc" /\ main' = "start" /\ info' = "set"
             \/ main = "pause" /\ main' = "poll"
             \/ main = "poll" /\ main' = "recv"
             \/ main' = "exited"
      BY <1>6
      DEF setup_sigthread, lcap_bind_server, alloc_readers, pause_ends, poll_ready,
          client_request, main_returns, Quit, signals
    <2>2. CfgTypeOK' /\ parsing' = parsing /\ mdtcount' = mdtcount
      BY <2>1 DEF LcapdTypeOK, CfgTypeOK, cfgVars, mdtcount
    <2>3. LcapdTypeOK'
      BY <2>1, <2>2 DEF LcapdTypeOK, readers
    <2>4. mdtcount \in Nat /\ 1 .. 0 = {}
      BY MdtCount DEF LcapdTypeOK
    <2>5. Phases'
      BY <1>1, <2>1, <2>2, <2>4 DEF Phases, Configured
    <2> QED
      BY <1>1, <2>3, <2>5
  <1> QED
    BY <1>2, <1>3, <1>4, <1>5, <1>6

\* lcap_readers_start() creates the next thread, or all are there.
LEMMA StartInv == ASSUME LcapdIInv, lcap_readers_start PROVE LcapdIInv'
  <1> USE DEF LcapdIInv
  <1>1. main = "start" /\ UNCHANGED <<cfgVars, signals, info, log, link, cc_rcid>>
    BY DEF lcap_readers_start
  <1>2. PICK k \in 0 .. mdtcount : Started = 1 .. k
    BY <1>1 DEF Phases
  <1>3. mdtcount \in 0 .. MAX_MDT /\ MAX_MDT \in Nat
    BY MdtCount, ConfigAssumption DEF ConfigAssumption, LcapdTypeOK
  <1>4. Cardinality(Started) = k
    BY <1>2, <1>3, FS_Interval
  <1>5. CfgTypeOK' /\ parsing' = parsing /\ mdtcount' = mdtcount
    BY <1>1 DEF LcapdTypeOK, CfgTypeOK, cfgVars, mdtcount
  <1>6. CASE k + 1 <= mdtcount /\ rdr' = [rdr EXCEPT ![k + 1] = "created"]
             /\ main' = main
    <2>1. k + 1 \in Index /\ k + 1 \notin Started
      BY <1>2, <1>3, <1>6 DEF Index
    <2>2. rdr \in [Index -> {"none"} \cup Live \cup Ended]
      BY DEF LcapdTypeOK
    <2>3. rdr[k + 1] = "none"
      BY <2>1 DEF Started
    <2>4. /\ rdr' \in [Index -> {"none"} \cup Live \cup Ended]
          /\ \A i \in Index : rdr'[i] = IF i = k + 1 THEN "created" ELSE rdr[i]
      BY <1>6, <2>1, <2>2 DEF Live
    <2>5. Started' = Started \cup {k + 1}
      BY <2>1, <2>4 DEF Started
    <2>6. Started' = 1 .. (k + 1) /\ k + 1 \in 0 .. mdtcount'
      BY <1>2, <1>3, <1>5, <1>6, <2>5
    <2>7. LcapdTypeOK'
      BY <1>1, <1>5, <1>6, <2>4 DEF LcapdTypeOK, signals
    <2>8. Phases'
      BY <1>1, <1>5, <1>6, <2>6 DEF Phases, Configured
    <2>9. \A i \in Index : Registration(i)'
      BY <1>1, <2>3, <2>4 DEF Registration, Live, Ended
    <2> QED
      BY <2>7, <2>8, <2>9
  <1>7. CASE rdr' = rdr /\ (main' = "exited" \/ (main' = "pause" /\ k + 1 > mdtcount))
    <2>1. Started' = Started /\ (main' = "pause" => Started = 1 .. mdtcount)
      BY <1>2, <1>3, <1>7 DEF Started
    <2>2. LcapdTypeOK'
      BY <1>1, <1>5, <1>7 DEF LcapdTypeOK, signals
    <2>3. Phases'
      BY <1>1, <1>5, <1>7, <2>1 DEF Phases, Configured
    <2>4. \A i \in Index : Registration(i)'
      BY <1>1, <1>7 DEF Registration
    <2> QED
      BY <2>2, <2>3, <2>4
  <1> QED
    BY <1>4, <1>6, <1>7 DEF lcap_readers_start, Quit

\* A step of reader i, of what it sent, or of the broker's entry for it.
LEMMA OneReaderInv ==
  ASSUME LcapdIInv, NEW i \in Index, NEW r, NEW l, NEW b,
         r \in {"none"} \cup Live \cup Ended, r = "none" <=> rdr[i] = "none",
         l \in {<<>>, <<"ok">>, <<"error">>, <<"ok", "error">>}, b \in BOOLEAN,
         rdr' = [rdr EXCEPT ![i] = r], link' = [link EXCEPT ![i] = l],
         cc_rcid' = [cc_rcid EXCEPT ![i] = b],
         \/ r \in {"none", "created"} /\ l = <<>> /\ ~b
         \/ r \in {"up", "failing", "stopped"} /\ l \in {<<>>, <<"ok">>}
         \/ r = "failed" /\ l \in {<<"error">>, <<"ok", "error">>}
         \/ r = "failed" /\ l = <<>> /\ ~b,
         UNCHANGED <<cfgVars, sigh, info, log>>, flags' \subseteq Sigs,
         main' = main \/ (main = "recv" /\ main' = "poll")
  PROVE  LcapdIInv'
  <1> USE DEF LcapdIInv
  <1>1. /\ rdr \in [Index -> {"none"} \cup Live \cup Ended]
        /\ link \in [Index -> {<<>>, <<"ok">>, <<"error">>, <<"ok", "error">>}]
        /\ cc_rcid \in [Index -> BOOLEAN]
    BY DEF LcapdTypeOK
  <1>2. /\ rdr' \in [Index -> {"none"} \cup Live \cup Ended]
        /\ link' \in [Index -> {<<>>, <<"ok">>, <<"error">>, <<"ok", "error">>}]
        /\ cc_rcid' \in [Index -> BOOLEAN]
    BY <1>1
  <1>3. /\ rdr'[i] = r /\ link'[i] = l /\ cc_rcid'[i] = b
        /\ \A j \in Index \ {i} :
             rdr'[j] = rdr[j] /\ link'[j] = link[j] /\ cc_rcid'[j] = cc_rcid[j]
    BY <1>1
  <1>4. Started' = Started
    BY <1>3 DEF Started
  <1>5. CfgTypeOK' /\ parsing' = parsing /\ mdtcount' = mdtcount
    BY DEF LcapdTypeOK, CfgTypeOK, cfgVars, mdtcount
  <1>6. LcapdTypeOK'
    BY <1>2, <1>5 DEF LcapdTypeOK
  <1>7. Phases'
    BY <1>4, <1>5 DEF Phases, Configured
  <1>8. \A j \in Index : Registration(j)'
    BY <1>3 DEF Registration
  <1> QED
    BY <1>6, <1>7, <1>8

\* A second element makes a pair.
LEMMA AppendToOne ==
  ASSUME NEW T, NEW q \in Seq(T), NEW e \in T, NEW u \in Seq(T),
         Len(q) = 1, Len(u) = 2, u[1] = q[1], u[2] = e
  PROVE  Append(q, e) = u
  <1> DEFINE t == Append(q, e)
  <1>1. t \in Seq(T) /\ Len(t) = Len(q) + 1
    BY AppendProperties
  <1>2. \A i \in 1 .. Len(q) : t[i] = q[i]
    BY AppendProperties
  <1>3. t[Len(q) + 1] = e
    BY AppendProperties
  <1> HIDE DEF t
  <1>4. t = u
    BY <1>1, <1>2, <1>3
  <1> QED
    BY <1>4 DEF t

\* The sequences of SIGNALs, one by one.
LEMMA Signals ==
  /\ Append(<<>>, "ok") = <<"ok">>
  /\ Append(<<>>, "error") = <<"error">>
  /\ Append(<<"ok">>, "error") = <<"ok", "error">>
  /\ Head(<<"ok">>) = "ok" /\ Tail(<<"ok">>) = <<>>
  /\ Head(<<"error">>) = "error" /\ Tail(<<"error">>) = <<>>
  /\ Head(<<"ok", "error">>) = "ok" /\ Tail(<<"ok", "error">>) = <<"error">>
  <1>1. /\ <<"ok">> \in Seq({"ok", "error"}) /\ Len(<<"ok">>) = 1
        /\ <<"ok", "error">> \in Seq({"ok", "error"}) /\ Len(<<"ok", "error">>) = 2
        /\ <<"ok", "error">>[1] = <<"ok">>[1] /\ <<"ok", "error">>[2] = "error"
        /\ "error" \in {"ok", "error"}
    OBVIOUS
  <1>2. Append(<<"ok">>, "error") = <<"ok", "error">>
    BY <1>1, AppendToOne, Zenon
  <1> QED
    BY <1>2

\* The assignments that an action leaves out.
LEMMA Untouched ==
  ASSUME LcapdIInv, NEW i \in Index
  PROVE  /\ rdr = [rdr EXCEPT ![i] = rdr[i]] /\ link = [link EXCEPT ![i] = link[i]]
         /\ cc_rcid = [cc_rcid EXCEPT ![i] = cc_rcid[i]]
         /\ rdr[i] \in {"none"} \cup Live \cup Ended
         /\ link[i] \in {<<>>, <<"ok">>, <<"error">>, <<"ok", "error">>}
         /\ cc_rcid[i] \in BOOLEAN /\ flags \subseteq Sigs /\ Registration(i)
  BY DEF LcapdIInv, LcapdTypeOK

\* broker_handle_signal() follows the messages of a reader in their order.
LEMMA BrokerInv ==
  ASSUME LcapdIInv, NEW i \in Index, broker_handle_signal(i) \/ register_fails(i)
  PROVE  LcapdIInv'
  <1>1. Registration(i) /\ link[i] # <<>>
    BY DEF LcapdIInv, broker_handle_signal, register_fails
  <1>2. PICK b \in BOOLEAN :
          /\ cc_rcid' = [cc_rcid EXCEPT ![i] = b]
          /\ Head(link[i]) = "error" => ~b
    BY Untouched, Signals
    DEF broker_handle_signal, register_fails, changelog_reader_register,
        changelog_reader_deregister
  <1>3. /\ link' = [link EXCEPT ![i] = Tail(link[i])] /\ rdr' = rdr
        /\ UNCHANGED <<cfgVars, signals, info, log>>
        /\ main' = main \/ (main = "recv" /\ main' = "poll")
    BY DEF broker_handle_signal, register_fails
  <1>4. \/ /\ rdr[i] \in {"up", "failing", "stopped"} /\ Tail(link[i]) = <<>>
        \/ /\ rdr[i] = "failed" /\ Tail(link[i]) = <<"error">>
        \/ /\ rdr[i] = "failed" /\ Tail(link[i]) = <<>> /\ Head(link[i]) = "error"
    BY <1>1, Signals DEF Registration
  <1> QED
    BY <1>2, <1>3, <1>4, Untouched, OneReaderInv DEF signals

\* A reader starts, joins, fails or stops.
LEMMA ReadersInv ==
  ASSUME LcapdIInv, NEW i \in Index,
         \/ ReaderRuns(i) \/ reader_init_fails(i) \/ reader_error(i)
         \/ \E s \in Sigs : interrupt_reader(i, s)
  PROVE  LcapdIInv'
  <1>1. /\ UNCHANGED <<cfgVars, main, sigh, info, log, cc_rcid>>
        /\ flags' \subseteq Sigs
    BY Untouched
    DEF ReaderRuns, reader_joins, reader_fails, reader_stops, reader_init_fails,
        reader_error, interrupt_reader, signals
  <1>2. PICK r \in {"up", "failing", "stopped", "failed"} :
          /\ rdr' = [rdr EXCEPT ![i] = r]
          /\ \/ rdr[i] = "created" /\ r = "up" /\ link' = [link EXCEPT ![i] = Append(link[i], "ok")]
             \/ rdr[i] = "failing" /\ r = "failed" /\ link' = [link EXCEPT ![i] = Append(link[i], "error")]
             \/ rdr[i] \in {"created", "up", "failing"} /\ r \in {"failing", "stopped"} /\ link' = link
    BY DEF ReaderRuns, reader_joins, reader_fails, reader_stops, reader_init_fails,
           reader_error, interrupt_reader
  <1>3. Registration(i) /\ r \in Live \cup Ended
    BY <1>2, Untouched DEF Live, Ended
  <1>4. PICK l : /\ link' = [link EXCEPT ![i] = l]
                 /\ \/ r \in {"up", "failing", "stopped"} /\ l \in {<<>>, <<"ok">>}
                    \/ r = "failed" /\ l \in {<<"error">>, <<"ok", "error">>}
    BY <1>2, <1>3, Untouched, Signals DEF Registration
  <1> QED
    BY <1>1, <1>2, <1>3, <1>4, Untouched, OneReaderInv

\* The signal thread, a signal or a crash: main and flags at most.
LEMMA SignalsInv ==
  ASSUME LcapdIInv, UNCHANGED <<cfgVars, info, log, readers>>,
         flags' \subseteq Sigs,
         sigh' \in {"none", "reset", "install", "sleep", "loop"},
         \/ main' \in {main, "exited", "crashed", "leave"}
         \/ main = "recv" /\ main' = "poll",
         main' = "leave" => main \in {"poll", "leave"}
  PROVE  LcapdIInv'
  <1> USE DEF LcapdIInv, readers
  <1>1. UNCHANGED Started /\ \A i \in Index : Registration(i)'
    BY DEF Started, Registration
  <1>2. CfgTypeOK' /\ parsing' = parsing /\ mdtcount' = mdtcount
    BY DEF LcapdTypeOK, CfgTypeOK, cfgVars, mdtcount
  <1>3. LcapdTypeOK'
    BY <1>2 DEF LcapdTypeOK
  <1>4. Phases'
    BY <1>1, <1>2 DEF Phases, Configured
  <1> QED
    BY <1>1, <1>3, <1>4

-----------------------------------------------------------------------------
(***************************************************************************)
(* The theorems.                                                           *)
(***************************************************************************)

\* Every step of every thread preserves the invariant.
LEMMA LcapdNextInv ==
  ASSUME LcapdIInv, [LcapdNext]_lcapdVars PROVE LcapdIInv'
  <1>a. flags \subseteq Sigs /\ sigh \in {"none", "reset", "install", "sleep", "loop"}
    BY DEF LcapdIInv, LcapdTypeOK
  <1>1. CASE UNCHANGED lcapdVars
    BY <1>1, <1>a, SignalsInv DEF lcapdVars, readers
  <1>2. CASE Main
    <2>1. CASE lcap_readers_start
      BY <2>1, StartInv
    <2>2. CASE \E i \in Index : broker_handle_signal(i) \/ register_fails(i)
      BY <2>2, BrokerInv
    <2>3. CASE \/ read_config \/ setup_sigthread \/ init_log \/ lcap_bind_server
               \/ alloc_readers \/ pause_ends \/ poll_ready
               \/ lcap_ctx_release \/ release_config \/ main_returns
      <3>1. UNCHANGED readers
        BY <2>3
        DEF read_config, setup_sigthread, init_log, lcap_bind_server, alloc_readers,
            pause_ends, poll_ready, lcap_ctx_release, release_config, main_returns
      <3> QED
        BY <2>3, <3>1, MainInv
    <2> QED
      BY <1>2, <2>1, <2>2, <2>3 DEF Main
  <1>3. CASE client_request
    BY <1>3, MainInv DEF client_request
  <1>4. CASE SignalThread \/ killed
    BY <1>4, <1>a, SignalsInv
    DEF SignalThread, killed, reset_flags, install_handlers, sleep_ends, handle_flags,
        lcap_readers_terminate, Quit, signals
  <1>5. ASSUME NEW i \in Index,
               \/ ReaderRuns(i) \/ reader_init_fails(i) \/ reader_error(i)
               \/ \E s \in Sigs : interrupt_reader(i, s)
        PROVE  LcapdIInv'
    BY <1>5, ReadersInv
  <1>6. ASSUME NEW i \in Index, reader_crashes(i) PROVE LcapdIInv'
    BY <1>6, <1>a, SignalsInv DEF reader_crashes, signals
  <1>7. ASSUME NEW s \in Sigs, interrupt_main(s) \/ interrupt_sighandler(s)
        PROVE  LcapdIInv'
    BY <1>7, <1>a, SignalsInv DEF interrupt_main, interrupt_sighandler
  <1> QED
    BY <1>1, <1>2, <1>3, <1>4, <1>5, <1>6, <1>7 DEF LcapdNext

\* It holds when main() begins.
LEMMA LcapdInitInv == LcapdInit => LcapdIInv
  <1> SUFFICES ASSUME LcapdInit PROVE LcapdIInv
    OBVIOUS
  <1>1. CfgTypeOK /\ mdtcount = 0
    BY CfgStart DEF LcapdInit
  <1>2. log \in [logger : {Unset, "stderr", "syslog"}, level : 0 .. LCAPLOG_ERR,
                 open : BOOLEAN]
    BY DEF LcapdInit, LCAPLOG_ERR
  <1>3. LcapdTypeOK
    BY <1>1, <1>2 DEF LcapdTypeOK, LcapdInit
  <1>4. Started = {}
    BY DEF Started, LcapdInit
  <1>5. Phases
    BY <1>4 DEF Phases, Configured, LcapdInit
  <1>6. \A i \in Index : Registration(i)
    BY DEF Registration, LcapdInit
  <1> QED
    BY <1>3, <1>5, <1>6 DEF LcapdIInv

\* LcapdIInv is an invariant of the process.
THEOREM LcapdInvariance == LcapdSpec => []LcapdIInv
  BY LcapdInitInv, LcapdNextInv, PTL DEF LcapdSpec

\* The configuration, the threads and the broker's table keep their types: there
\* are never more MDTs than the tables of lcapd have room for.
THEOREM LcapdTypeCorrect == LcapdSpec => []LcapdTypeOK
  BY LcapdInvariance, PTL DEF LcapdIInv

\* While the broker serves, there is a thread for every MDT of the file and for
\* no other, and a log, whatever signals arrive.
THEOREM ServesConfigured == LcapdSpec => []ServesWhatIsConfigured
  <1>1. LcapdIInv => ServesWhatIsConfigured
    BY DEF LcapdIInv, Phases, Configured, Serving, ServesWhatIsConfigured
  <1> QED
    BY LcapdInvariance, <1>1, PTL

\* The broker's table follows the readers.
THEOREM RegistryFollows == LcapdSpec => []RegistryCurrent
  <1>1. LcapdIInv => RegistryCurrent
    BY DEF LcapdIInv, Registration, RegistryCurrent
  <1> QED
    BY LcapdInvariance, <1>1, PTL
=============================================================================
