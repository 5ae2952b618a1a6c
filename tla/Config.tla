------------------------------- MODULE Config -------------------------------
(***************************************************************************)
(* The configuration of lcapd: src/src/lcapd/config.c.                     *)
(*                                                                         *)
(* Options are parsed first, then the file, line by line, as fgets()       *)
(* returns them.  A line is what the parser tells apart: the statement it  *)
(* starts with (case and what follows the name are not looked at), whether *)
(* blanks come before it, and its argument.  "note" stands for empty lines *)
(* and comments, "other" for a name that is no directive.                  *)
(***************************************************************************)
EXTENDS Integers, Sequences, FiniteSets, SequencesExt

CONSTANTS
  CmdLines,  \* command lines: sequences of the options "c", "o", "v", "h", "?"
  Files,     \* configuration files: sequences of lines
  Numeral,   \* the arguments that are numbers, and their values
  TooLarge,  \* an argument that no long can hold
  Leftover,  \* what an uninitialised buffer may hold
  MAX_MDT,
  LcapdFaults  \* what may go wrong in the process: see LcapdFaultKinds

LcapdFaultKinds == {"oom", "io", "bind", "llapi", "send", "signal", "crash"}

\* Unset is the null pointer, and no string.
NoArg == "no argument"
Unset == "NULL"

Once       == {"logtype", "clreader"}
Numeric    == {"batch_records", "max_buckets", "workers"}
Directives == Once \cup Numeric \cup {"mdtdevice"}
Strings    == STRING \ {Unset}
Lines      == [stmt : Directives \cup {"note", "other"}, indented : BOOLEAN, arg : Strings]

ASSUME ConfigAssumption ==
  /\ MAX_MDT \in Nat \ {0}
  /\ \A n \in DOMAIN Numeral : Numeral[n] \in Int
  /\ CmdLines \subseteq Seq({"c", "o", "v", "h", "?"})
  /\ Files \subseteq Seq(Lines)
  /\ Leftover \subseteq Strings

ASSUME LcapdAssumption == LcapdFaults \subseteq LcapdFaultKinds

VARIABLES
  cmdline,  \* options not looked at yet
  file,     \* the configuration file
  nread,    \* lines read so far
  config,   \* struct lcap_cfg
  errno,    \* whether a library function has set errno
  parsing   \* where lcap_cfg_init() is

cfgVars == <<cmdline, file, nread, config, errno, parsing>>

\* struct lcap_cfg; at most MAX_MDT of the MDTs.
lcap_cfg ==
  [ccf_mdt : Seq(STRING), ccf_clreader : Strings \cup {Unset},
   ccf_loggername : Strings \cup {Unset}, ccf_oneshot : BOOLEAN, ccf_verbosity : Nat,
   ccf_max_bkt : Int, ccf_rec_batch_count : Int, ccf_worker_count : Int]

CfgTypeOK ==
  /\ cmdline \in Seq({"c", "o", "v", "h", "?"})
  /\ file \in Seq(Lines)
  /\ nread \in 0 .. Len(file)
  /\ config \in lcap_cfg
  /\ Len(config.ccf_mdt) <= MAX_MDT
  /\ errno \in BOOLEAN
  /\ parsing \in {"options", "open", "lines", "stopped", "refused", "failed",
                  "accepted", "released"}

Line(stmt, arg) == [stmt |-> stmt, indented |-> FALSE, arg |-> arg]

\* lcap_cfg_init() zeroes the configuration and sets the defaults.
config_set_defaults ==
  [ccf_mdt |-> <<>>, ccf_clreader |-> Unset, ccf_loggername |-> Unset,
   ccf_oneshot |-> FALSE, ccf_verbosity |-> 0, ccf_max_bkt |-> 256,
   ccf_rec_batch_count |-> 64, ccf_worker_count |-> 0]

CfgInit ==
  /\ cmdline \in CmdLines
  /\ file \in Files
  /\ nread = 0
  /\ config = config_set_defaults
  /\ errno = FALSE
  /\ parsing = "options"

-----------------------------------------------------------------------------
(***************************************************************************)
(* Options.                                                                *)
(***************************************************************************)

\* A switch that is handled.  -c names the file; where strdup() fails the default
\* one is read: `file' is the one that is opened.
AfterOption(opt) ==
  [config EXCEPT !.ccf_oneshot = @ \/ opt = "o",
                 !.ccf_verbosity = IF opt = "v" THEN @ + 1 ELSE @]

\* One round of getopt().  -h prints the usage and exits, as an unknown
\* switch does.  main() refuses an empty command line.
lcap_parse_args ==
  /\ parsing = "options"
  /\ cmdline # <<>>
  /\ LET opt == Head(cmdline)
     IN  \/ /\ opt \in {"c", "o", "v"}
            /\ config' = AfterOption(opt)
            /\ cmdline' = Tail(cmdline)
            /\ parsing' = IF Len(cmdline) = 1 THEN "open" ELSE "options"
         \/ /\ opt \in {"h", "?"}
            /\ parsing' = "stopped"
            /\ UNCHANGED <<config, cmdline>>
  /\ UNCHANGED <<file, nread, errno>>

no_argument ==
  /\ parsing = "options"
  /\ cmdline = <<>>
  /\ nread = 0
  /\ parsing' = "stopped"
  /\ UNCHANGED <<cmdline, file, nread, config, errno>>

-----------------------------------------------------------------------------
(***************************************************************************)
(* The file.                                                               *)
(***************************************************************************)

\* cfg_get_arg(): sscanf() gives EOF, not 0, when there is no argument, and
\* the buffer is copied as it is.  strdup() may fail.
cfg_get_arg(line) ==
  (IF line.arg = NoArg THEN Leftover ELSE {line.arg})
    \cup (IF "oom" \in LcapdFaults THEN {Unset} ELSE {})

\* atoi(): -1 and ERANGE on overflow, 0 on what is no number.
atoi(arg) == CASE arg = TooLarge          -> -1
               [] arg \in DOMAIN Numeral  -> Numeral[arg]
               [] OTHER                   -> 0

\* The statements that are taken once only are not checked.
AlreadyGiven_bug(stmt) == Len(config.ccf_mdt) >= MAX_MDT /\ stmt = "mdtdevice"

\* The handlers return -EALREADY.  The number of workers is looked at, not
\* whether it was given.
AlreadyGiven(stmt) ==
  \/ stmt = "logtype" /\ config.ccf_loggername # Unset
  \/ stmt = "clreader" /\ config.ccf_clreader # Unset
  \/ stmt = "workers" /\ config.ccf_worker_count # 0
  \/ stmt = "mdtdevice" /\ Len(config.ccf_mdt) >= MAX_MDT

\* The handlers store the argument.
Stored(stmt, arg) ==
  CASE stmt = "batch_records" -> [config EXCEPT !.ccf_rec_batch_count = atoi(arg)]
    [] stmt = "max_buckets"   -> [config EXCEPT !.ccf_max_bkt = atoi(arg)]
    [] stmt = "workers"       -> [config EXCEPT !.ccf_worker_count = atoi(arg)]
    [] stmt = "logtype"       -> [config EXCEPT !.ccf_loggername = arg]
    [] stmt = "clreader"      -> [config EXCEPT !.ccf_clreader = arg]
    [] stmt = "mdtdevice"     -> [config EXCEPT !.ccf_mdt = Append(@, arg)]

\* fopen(): the file may not be there.
open_file ==
  /\ parsing = "open"
  /\ parsing' \in {"lines", "stopped"}
  /\ UNCHANGED <<cmdline, file, nread, config, errno>>

NextLine == file[nread + 1]
More     == parsing = "lines" /\ nread < Len(file)

\* __parse_config_line(): blanks are skipped to find empty lines and comments,
\* but the directives are looked up at the beginning of the line.
skip_line ==
  /\ More
  /\ NextLine.stmt = "note"
  /\ nread' = nread + 1
  /\ UNCHANGED <<cmdline, file, config, errno, parsing>>

Known(line) == line.stmt \in Directives /\ ~line.indented

\* A handler stores its argument, or returns -EINVAL when there is none.
handle_cfg_line ==
  /\ More
  /\ Known(NextLine)
  /\ ~AlreadyGiven(NextLine.stmt)
  /\ \E arg \in cfg_get_arg(NextLine) :
       \/ /\ arg # Unset
          /\ config' = Stored(NextLine.stmt, arg)
          /\ errno' = (errno \/ (NextLine.stmt \in Numeric /\ arg = TooLarge))
          /\ nread' = nread + 1
          /\ UNCHANGED parsing
       \/ /\ arg = Unset
          /\ errno' = TRUE
          /\ parsing' = "failed"
          /\ UNCHANGED <<config, nread>>
  /\ UNCHANGED <<cmdline, file>>

refuse_line ==
  /\ More
  /\ NextLine.stmt # "note"
  /\ ~Known(NextLine) \/ AlreadyGiven(NextLine.stmt)
  /\ parsing' = "refused"
  /\ UNCHANGED <<cmdline, file, nread, config, errno>>

\* lcap_parse_config_file() returns -errno at the end of the file, whatever
\* has set it.
end_of_file ==
  /\ parsing = "lines"
  /\ nread = Len(file)
  /\ parsing' = IF errno THEN "refused" ELSE "accepted"
  /\ UNCHANGED <<cmdline, file, nread, config, errno>>

\* fgets() fails: the loop ends as at the end of the file, with errno set.
read_fails ==
  /\ "io" \in LcapdFaults
  /\ parsing = "lines"
  /\ errno' = TRUE
  /\ parsing' = "failed"
  /\ UNCHANGED <<cmdline, file, nread, config>>

lcap_cfg_init ==
  \/ lcap_parse_args
  \/ no_argument
  \/ open_file
  \/ skip_line
  \/ handle_cfg_line
  \/ refuse_line
  \/ end_of_file
  \/ read_fails

\* The strings are freed and the structure zeroed, the numbers too.
lcap_cfg_release ==
  /\ config' = [config_set_defaults EXCEPT !.ccf_max_bkt = 0,
                                           !.ccf_rec_batch_count = 0]
  /\ parsing' = "released"
  /\ UNCHANGED <<cmdline, file, nread, errno>>

-----------------------------------------------------------------------------
(***************************************************************************)
(* What a file means, read as a whole.                                     *)
(***************************************************************************)

\* The lines with a statement among the first n, and the place of one of them.
Given(stmt, n)    == {i \in 1 .. n : file[i].stmt = stmt}
Place(stmt, n, i) == Cardinality({j \in Given(stmt, n) : j <= i})

\* The argument of the last of them.
LastOr(stmt, n, default) ==
  IF Given(stmt, n) = {} THEN default ELSE file[Max(Given(stmt, n))].arg
NumberOr(stmt, n, default) ==
  IF Given(stmt, n) = {} THEN default ELSE atoi(file[Max(Given(stmt, n))].arg)

\* A number of workers after another one that counts.
WorkersTwice(n) ==
  \E i, j \in Given("workers", n) : i < j /\ atoi(file[i].arg) # 0

\* The first n lines can be taken one after the other, and their numbers read.
Readable(n) ==
  /\ \A i \in 1 .. n : file[i].stmt = "note" \/ Known(file[i])
  /\ \A stmt \in Once : \A i, j \in Given(stmt, n) : i = j
  /\ ~WorkersTwice(n)
  /\ Cardinality(Given("mdtdevice", n)) <= MAX_MDT
InRange(n) ==
  \A i \in 1 .. n : file[i].stmt \in Numeric => file[i].arg # TooLarge
WellFormed == Readable(Len(file)) /\ InRange(Len(file))

\* cfg is the configuration that the first n lines stand for.
Means(cfg, n) ==
  /\ Len(cfg.ccf_mdt) = Cardinality(Given("mdtdevice", n))
  /\ \A i \in Given("mdtdevice", n) : cfg.ccf_mdt[Place("mdtdevice", n, i)] = file[i].arg
  /\ cfg.ccf_clreader = LastOr("clreader", n, Unset)
  /\ cfg.ccf_loggername = LastOr("logtype", n, Unset)
  /\ cfg.ccf_max_bkt = NumberOr("max_buckets", n, 256)
  /\ cfg.ccf_rec_batch_count = NumberOr("batch_records", n, 64)
  /\ cfg.ccf_worker_count = NumberOr("workers", n, 0)

\* Where every statement has its argument, lcap_cfg_init() accepts only well formed
\* files, with the configuration that they stand for, however the lines are ordered:
\* the MDTs in order, the last of the sizes, one logger.  It refuses a file for what
\* it says only when it is not well formed.  (A well formed one gives an error too
\* when strdup() fails for an argument, or fgets() for a line.)
Complete == \A i \in 1 .. Len(file) : file[i].arg # NoArg
ConfigMeans ==
  Complete =>
    /\ parsing = "accepted" => WellFormed /\ Means(config, Len(file))
    /\ parsing = "refused" => ~WellFormed
    /\ parsing = "failed" => LcapdFaults \cap {"oom", "io"} # {}
=============================================================================
