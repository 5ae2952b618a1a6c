---------------------------- MODULE ConfigProofs ----------------------------
(***************************************************************************)
(* The configuration that lcap_cfg_init() accepts is what the file stands  *)
(* for, for files of any length: the proof that ReadSoFar is inductive.    *)
(***************************************************************************)
EXTENDS LcapdProofs

-----------------------------------------------------------------------------
(***************************************************************************)
(* One more line.                                                          *)
(***************************************************************************)

\* An element of a set of numbers that none is above is the maximum.
LEMMA MaxIs ==
  ASSUME NEW S, S \subseteq Int, NEW i \in S, \A j \in S : j <= i PROVE Max(S) = i
  <1>1. \E x \in S : \A y \in S : x >= y
    <2>1. \A y \in S : i >= y
      OBVIOUS
    <2> QED
      BY <2>1
  <1>2. Max(S) \in S /\ \A y \in S : Max(S) >= y
    BY <1>1 DEF Max
  <1>3. Max(S) \in Int /\ i \in Int /\ Max(S) >= i /\ Max(S) <= i
    BY <1>2
  <1> QED
    BY <1>3

\* The lines given so far are lines of the file.
LEMMA GivenLines ==
  ASSUME NEW stmt, NEW n \in Nat
  PROVE  /\ Given(stmt, n) \subseteq 1 .. n /\ Given(stmt, n) \subseteq Int
         /\ IsFiniteSet(Given(stmt, n)) /\ Cardinality(Given(stmt, n)) \in Nat
  <1>1. Given(stmt, n) \subseteq 1 .. n /\ Given(stmt, n) \subseteq Int
    BY DEF Given
  <1>2. IsFiniteSet(1 .. n)
    BY FS_Interval
  <1>3. IsFiniteSet(Given(stmt, n))
    BY <1>1, <1>2, FS_Subset
  <1> QED
    BY <1>1, <1>3, FS_CardinalityType

\* The next line is given after the others, or it is another statement.
LEMMA GivenNext ==
  ASSUME NEW stmt, NEW n \in Nat
  PROVE  Given(stmt, n + 1) = IF file[n + 1].stmt = stmt THEN Given(stmt, n) \cup {n + 1}
                              ELSE Given(stmt, n)
  <1>1. 1 .. (n + 1) = (1 .. n) \cup {n + 1}
    OBVIOUS
  <1>2. Given(stmt, n + 1) = {i \in (1 .. n) \cup {n + 1} : file[i].stmt = stmt}
    BY <1>1 DEF Given
  <1> QED
    BY <1>2 DEF Given

\* And it is the last one then.
LEMMA MaxNext ==
  ASSUME NEW stmt, NEW n \in Nat, file[n + 1].stmt = stmt
  PROVE  Given(stmt, n + 1) # {} /\ Max(Given(stmt, n + 1)) = n + 1
  <1>1. Given(stmt, n + 1) = Given(stmt, n) \cup {n + 1}
    BY GivenNext
  <1>2. Given(stmt, n) \subseteq 1 .. n
    BY GivenLines
  <1>3. n + 1 \in Given(stmt, n + 1)
    BY <1>1
  <1>4. /\ Given(stmt, n + 1) \subseteq Int
        /\ \A j \in Given(stmt, n + 1) : j <= n + 1
    BY <1>1, <1>2
  <1> QED
    BY <1>3, <1>4, MaxIs

\* What is kept of a statement follows the lines.
LEMMA LastNext ==
  ASSUME NEW stmt, NEW n \in Nat, NEW default
  PROVE  /\ LastOr(stmt, n + 1, default) =
              IF file[n + 1].stmt = stmt THEN file[n + 1].arg ELSE LastOr(stmt, n, default)
         /\ NumberOr(stmt, n + 1, default) =
              IF file[n + 1].stmt = stmt THEN atoi(file[n + 1].arg)
              ELSE NumberOr(stmt, n, default)
  <1>1. CASE file[n + 1].stmt = stmt
    BY <1>1, MaxNext DEF LastOr, NumberOr
  <1>2. CASE file[n + 1].stmt # stmt
    <2>1. Given(stmt, n + 1) = Given(stmt, n)
      BY <1>2, GivenNext
    <2> QED
      BY <1>2, <2>1 DEF LastOr, NumberOr
  <1> QED
    BY <1>1, <1>2

\* The next line does not move the ones before it, and comes after them.
LEMMA PlaceNext ==
  ASSUME NEW stmt, NEW n \in Nat
  PROVE  /\ \A i \in Given(stmt, n) :
              /\ Place(stmt, n + 1, i) = Place(stmt, n, i)
              /\ Place(stmt, n, i) \in 1 .. Cardinality(Given(stmt, n))
         /\ file[n + 1].stmt = stmt =>
              /\ Cardinality(Given(stmt, n + 1)) = Cardinality(Given(stmt, n)) + 1
              /\ Place(stmt, n + 1, n + 1) = Cardinality(Given(stmt, n)) + 1
  <1>1. Given(stmt, n) \subseteq 1 .. n /\ IsFiniteSet(Given(stmt, n))
        /\ Cardinality(Given(stmt, n)) \in Nat
    BY GivenLines
  <1>2. ASSUME NEW i \in Given(stmt, n)
        PROVE  /\ Place(stmt, n + 1, i) = Place(stmt, n, i)
               /\ Place(stmt, n, i) \in 1 .. Cardinality(Given(stmt, n))
    <2> DEFINE T == {j \in Given(stmt, n) : j <= i}
    <2>1. i \in 1 .. n
      BY <1>1
    <2>2. {j \in Given(stmt, n + 1) : j <= i} = T
      <3>1. \A j : j = n + 1 => ~(j <= i)
        BY <2>1
      <3>2. CASE file[n + 1].stmt = stmt
        BY <3>1, <3>2, GivenNext
      <3>3. CASE file[n + 1].stmt # stmt
        BY <3>3, GivenNext
      <3> QED
        BY <3>2, <3>3
    <2>3. i \in T /\ T \in SUBSET Given(stmt, n)
      BY <2>1
    <2> HIDE DEF T
    <2>4. IsFiniteSet(T) /\ Cardinality(T) <= Cardinality(Given(stmt, n))
          /\ Cardinality(T) \in Nat
      BY <1>1, <2>3, FS_Subset, FS_CardinalityType
    <2>5. Cardinality(T) # 0
      BY <2>3, <2>4, FS_EmptySet
    <2>6. Place(stmt, n, i) = Cardinality(T) /\ Place(stmt, n + 1, i) = Cardinality(T)
      BY <2>2 DEF Place, T
    <2> QED
      BY <1>1, <2>4, <2>5, <2>6
  <1>3. ASSUME file[n + 1].stmt = stmt
        PROVE  /\ Cardinality(Given(stmt, n + 1)) = Cardinality(Given(stmt, n)) + 1
               /\ Place(stmt, n + 1, n + 1) = Cardinality(Given(stmt, n)) + 1
    <2>1. Given(stmt, n + 1) = Given(stmt, n) \cup {n + 1}
      BY <1>3, GivenNext
    <2>2. n + 1 \notin Given(stmt, n)
      BY <1>1
    <2>3. Cardinality(Given(stmt, n + 1)) = Cardinality(Given(stmt, n)) + 1
      BY <1>1, <2>1, <2>2, FS_AddElement
    <2>4. {j \in Given(stmt, n + 1) : j <= n + 1} = Given(stmt, n + 1)
      <3>1. \A j \in Given(stmt, n + 1) : j <= n + 1
        BY <1>1, <2>1
      <3> QED
        BY <3>1
    <2> QED
      BY <2>3, <2>4 DEF Place
  <1> QED
    BY <1>2, <1>3

\* Lines of other statements keep the meaning of the configuration.
LEMMA SameMeaning ==
  ASSUME NEW n \in Nat, NEW cfg, Means(cfg, n), file[n + 1].stmt \notin Directives
  PROVE  Means(cfg, n + 1)
  <1>1. \A stmt \in Directives : Given(stmt, n + 1) = Given(stmt, n)
    BY GivenNext
  <1>2. Given("mdtdevice", n + 1) = Given("mdtdevice", n)
    BY <1>1 DEF Directives
  <1>3. \A i \in Given("mdtdevice", n) :
          Place("mdtdevice", n + 1, i) = Place("mdtdevice", n, i)
    BY PlaceNext
  <1>4. \A default : /\ LastOr("clreader", n + 1, default) = LastOr("clreader", n, default)
                     /\ LastOr("logtype", n + 1, default) = LastOr("logtype", n, default)
    BY <1>1 DEF LastOr, Directives, Once
  <1>5. \A stmt \in Numeric : \A default :
          NumberOr(stmt, n + 1, default) = NumberOr(stmt, n, default)
    BY <1>1 DEF NumberOr, Directives
  <1> QED
    BY <1>2, <1>3, <1>4, <1>5 DEF Means, Numeric

\* A configuration that keeps the MDTs of another one, where none is added.
LEMMA SameMdts ==
  ASSUME NEW n \in Nat, NEW cfg, NEW d, d.ccf_mdt = cfg.ccf_mdt, Means(cfg, n),
         file[n + 1].stmt # "mdtdevice"
  PROVE  /\ Len(d.ccf_mdt) = Cardinality(Given("mdtdevice", n + 1))
         /\ \A i \in Given("mdtdevice", n + 1) :
              d.ccf_mdt[Place("mdtdevice", n + 1, i)] = file[i].arg
  <1>1. Given("mdtdevice", n + 1) = Given("mdtdevice", n)
    BY GivenNext
  <1>2. \A i \in Given("mdtdevice", n) :
          Place("mdtdevice", n + 1, i) = Place("mdtdevice", n, i)
    BY PlaceNext
  <1> QED
    BY <1>1, <1>2 DEF Means

\* The other fields of what a handler stores.
LEMMA StoredFields ==
  ASSUME config \in lcap_cfg, NEW stmt \in Directives, NEW arg
  PROVE  LET d == Stored(stmt, arg)
         IN  /\ d.ccf_mdt = IF stmt = "mdtdevice" THEN Append(config.ccf_mdt, arg)
                            ELSE config.ccf_mdt
             /\ d.ccf_clreader = IF stmt = "clreader" THEN arg ELSE config.ccf_clreader
             /\ d.ccf_loggername = IF stmt = "logtype" THEN arg ELSE config.ccf_loggername
             /\ d.ccf_max_bkt = IF stmt = "max_buckets" THEN atoi(arg)
                                ELSE config.ccf_max_bkt
             /\ d.ccf_rec_batch_count = IF stmt = "batch_records" THEN atoi(arg)
                                        ELSE config.ccf_rec_batch_count
             /\ d.ccf_worker_count = IF stmt = "workers" THEN atoi(arg)
                                     ELSE config.ccf_worker_count
  BY DEF Stored, Directives, Once, Numeric, lcap_cfg

\* A handler stores what its line means, after the lines before.
LEMMA StoredMeaning ==
  ASSUME NEW n \in Nat, config \in lcap_cfg, Means(config, n),
         file[n + 1].stmt \in Directives
  PROVE  Means(Stored(file[n + 1].stmt, file[n + 1].arg), n + 1)
  <1> DEFINE line == file[n + 1]
             d == Stored(line.stmt, line.arg)
  <1>1. /\ d.ccf_clreader = LastOr("clreader", n + 1, Unset)
        /\ d.ccf_loggername = LastOr("logtype", n + 1, Unset)
        /\ d.ccf_max_bkt = NumberOr("max_buckets", n + 1, 256)
        /\ d.ccf_rec_batch_count = NumberOr("batch_records", n + 1, 64)
        /\ d.ccf_worker_count = NumberOr("workers", n + 1, 0)
    <2>1. /\ config.ccf_clreader = LastOr("clreader", n, Unset)
          /\ config.ccf_loggername = LastOr("logtype", n, Unset)
          /\ config.ccf_max_bkt = NumberOr("max_buckets", n, 256)
          /\ config.ccf_rec_batch_count = NumberOr("batch_records", n, 64)
          /\ config.ccf_worker_count = NumberOr("workers", n, 0)
      BY DEF Means
    <2> QED
      BY <2>1, StoredFields, LastNext
  <1>a. d.ccf_mdt = IF line.stmt = "mdtdevice" THEN Append(config.ccf_mdt, line.arg)
                    ELSE config.ccf_mdt
    BY StoredFields
  <1>2. CASE line.stmt # "mdtdevice"
    <2>1. d.ccf_mdt = config.ccf_mdt
      BY <1>2, <1>a
    <2> HIDE DEF d
    <2>2. /\ Len(d.ccf_mdt) = Cardinality(Given("mdtdevice", n + 1))
          /\ \A i \in Given("mdtdevice", n + 1) :
               d.ccf_mdt[Place("mdtdevice", n + 1, i)] = file[i].arg
      BY <1>2, <2>1, SameMdts
    <2> QED
      BY <1>1, <2>2 DEF Means, d
  <1>3. CASE line.stmt = "mdtdevice"
    <2> DEFINE m == config.ccf_mdt
               S == Given("mdtdevice", n)
    <2>1. m \in Seq(STRING) /\ Len(m) = Cardinality(S) /\ Len(m) \in Nat
          /\ \A i \in S : m[Place("mdtdevice", n, i)] = file[i].arg
      BY DEF Means, lcap_cfg
    <2>2. d.ccf_mdt = Append(m, line.arg)
      BY <1>3, <1>a
    <2>3. /\ Given("mdtdevice", n + 1) = S \cup {n + 1}
          /\ Cardinality(Given("mdtdevice", n + 1)) = Cardinality(S) + 1
          /\ Place("mdtdevice", n + 1, n + 1) = Cardinality(S) + 1
          /\ \A i \in S : /\ Place("mdtdevice", n + 1, i) = Place("mdtdevice", n, i)
                          /\ Place("mdtdevice", n, i) \in 1 .. Cardinality(S)
      BY <1>3, GivenNext, PlaceNext
    <2> HIDE DEF m, S, d, line
    <2>4. /\ Len(Append(m, line.arg)) = Len(m) + 1
          /\ Append(m, line.arg)[Len(m) + 1] = line.arg
          /\ \A k \in 1 .. Len(m) : Append(m, line.arg)[k] = m[k]
      BY <2>1
    <2>5. ASSUME NEW i \in Given("mdtdevice", n + 1)
          PROVE  d.ccf_mdt[Place("mdtdevice", n + 1, i)] = file[i].arg
      <3>1. CASE i \in S
        BY <2>1, <2>2, <2>3, <2>4, <3>1
      <3>2. CASE i = n + 1
        BY <2>1, <2>2, <2>3, <2>4, <3>2 DEF line
      <3> QED
        BY <2>3, <3>1, <3>2
    <2> QED
      BY <1>1, <2>1, <2>2, <2>3, <2>4, <2>5 DEF Means, d, line
  <1> QED
    BY <1>2, <1>3

\* The numbers of one line more.
LEMMA RangeNext ==
  ASSUME NEW n \in Nat
  PROVE  InRange(n + 1) <=> /\ InRange(n)
                            /\ file[n + 1].stmt \in Numeric => file[n + 1].arg # TooLarge
  <1>1. 1 .. (n + 1) = (1 .. n) \cup {n + 1}
    OBVIOUS
  <1> QED
    BY <1>1 DEF InRange

\* There is still a last line with a statement.
LEMMA HasLastNext ==
  ASSUME NEW n \in Nat, NEW stmt, HasLast(stmt, n) PROVE HasLast(stmt, n + 1)
  <1>1. CASE file[n + 1].stmt = stmt
    <2>1. Given(stmt, n + 1) = Given(stmt, n) \cup {n + 1}
      BY <1>1, GivenNext
    <2>2. \A i \in Given(stmt, n + 1) : i <= n + 1
      BY <2>1, GivenLines
    <2> QED
      BY <2>1, <2>2 DEF HasLast
  <1>2. CASE file[n + 1].stmt # stmt
    BY <1>2, GivenNext DEF HasLast
  <1> QED
    BY <1>1, <1>2

\* What is kept of the number of workers is the last number given.
LEMMA LastWorkers ==
  ASSUME NEW n \in Nat, HasLast("workers", n), Given("workers", n) # {}
  PROVE  \E m \in Given("workers", n) :
           /\ \A i \in Given("workers", n) : i <= m
           /\ NumberOr("workers", n, 0) = atoi(file[m].arg)
  <1>1. PICK m \in Given("workers", n) : \A i \in Given("workers", n) : i <= m
    BY DEF HasLast
  <1>2. Max(Given("workers", n)) = m
    BY <1>1, GivenLines, MaxIs
  <1> QED
    BY <1>1, <1>2 DEF NumberOr

\* A line that is not refused can be taken after the lines before.
LEMMA ReadableNext ==
  ASSUME file \in Seq(Lines), NEW n \in Nat, n < Len(file),
         Readable(n), Means(config, n), HasLast("workers", n),
         \/ file[n + 1].stmt = "note"
         \/ Known(file[n + 1]) /\ ~AlreadyGiven(file[n + 1].stmt)
  PROVE  Readable(n + 1)
  <1> DEFINE line == file[n + 1]
  <1>1. \A i \in 1 .. (n + 1) : file[i].stmt = "note" \/ Known(file[i])
    <2>1. 1 .. (n + 1) = (1 .. n) \cup {n + 1}
      OBVIOUS
    <2> QED
      BY <2>1 DEF Readable
  <1>0. ASSUME NEW i \in 1 .. n PROVE file[i].arg # Unset
    <2>1. i \in 1 .. Len(file)
      OBVIOUS
    <2>2. file[i] \in Lines
      BY <2>1
    <2> QED
      BY <2>2 DEF Lines, Strings
  <1>2. ASSUME NEW stmt \in Once PROVE \A i, j \in Given(stmt, n + 1) : i = j
    <2>1. CASE line.stmt = stmt
      <3>1. Given(stmt, n) = {}
        <4>1. SUFFICES ASSUME Given(stmt, n) # {} PROVE FALSE
          OBVIOUS
        <4>2. PICK i \in Given(stmt, n) : \A j \in Given(stmt, n) : j = i
          BY <4>1 DEF Readable
        <4>3. Given(stmt, n) \subseteq Int /\ i \in Int /\ i \in 1 .. n
          BY GivenLines
        <4>4. \A j \in Given(stmt, n) : j <= i
          BY <4>2, <4>3
        <4>5. Max(Given(stmt, n)) = i
          BY <4>3, <4>4, MaxIs
        <4>6. LastOr(stmt, n, Unset) # Unset
          BY <4>1, <4>3, <4>5, <1>0 DEF LastOr
        <4>7. stmt # "note" /\ stmt \in {"logtype", "clreader"}
          BY DEF Once
        <4> QED
          BY <2>1, <4>6, <4>7 DEF Means, AlreadyGiven
      <3> QED
        BY <2>1, <3>1, GivenNext
    <2>2. CASE line.stmt # stmt
      <3>1. Given(stmt, n + 1) = Given(stmt, n)
        BY <2>2, GivenNext
      <3> QED
        BY <3>1 DEF Readable
    <2> QED
      BY <2>1, <2>2
  <1>3. ~WorkersTwice(n + 1)
    <2>1. CASE line.stmt = "workers"
      <3>1. SUFFICES ASSUME NEW i \in Given("workers", n + 1),
                            NEW j \in Given("workers", n + 1),
                            i < j, atoi(file[i].arg) # 0
                     PROVE  FALSE
        BY DEF WorkersTwice
      <3>2. Given("workers", n + 1) = Given("workers", n) \cup {n + 1}
        BY <2>1, GivenNext
      <3>3. Given("workers", n) \subseteq 1 .. n
        BY GivenLines
      <3>4. i \in Given("workers", n) /\ i \in 1 .. n /\ j \in 1 .. (n + 1)
        BY <3>1, <3>2, <3>3
      <3>5. PICK m \in Given("workers", n) :
              /\ \A k \in Given("workers", n) : k <= m
              /\ NumberOr("workers", n, 0) = atoi(file[m].arg)
        BY <3>4, LastWorkers
      <3>6. NumberOr("workers", n, 0) = 0
        BY <2>1 DEF Means, AlreadyGiven
      <3>7. i # m /\ i <= m /\ m \in 1 .. n
        BY <3>1, <3>3, <3>4, <3>5, <3>6
      <3>8. i < m
        BY <3>4, <3>7
      <3> QED
        BY <3>1, <3>4, <3>8 DEF Readable, WorkersTwice
    <2>2. CASE line.stmt # "workers"
      BY <2>2, GivenNext DEF Readable, WorkersTwice
    <2> QED
      BY <2>1, <2>2
  <1>4. Cardinality(Given("mdtdevice", n + 1)) <= MAX_MDT
    <2>1. CASE line.stmt = "mdtdevice"
      <3>1. Cardinality(Given("mdtdevice", n)) \in Nat
            /\ Cardinality(Given("mdtdevice", n + 1)) = Cardinality(Given("mdtdevice", n)) + 1
        BY <2>1, GivenLines, PlaceNext
      <3>2. ~(Cardinality(Given("mdtdevice", n)) >= MAX_MDT)
        BY <2>1 DEF Means, AlreadyGiven
      <3> QED
        BY <3>1, <3>2, ConfigAssumption DEF ConfigAssumption
    <2>2. CASE line.stmt # "mdtdevice"
      BY <2>2, GivenNext DEF Readable
    <2> QED
      BY <2>1, <2>2
  <1> QED
    BY <1>1, <1>2, <1>3, <1>4 DEF Readable

\* Earlier lines with a statement are among all of them.
LEMMA GivenGrows ==
  ASSUME NEW stmt, NEW n \in Nat, NEW k \in Nat, n <= k
  PROVE  Given(stmt, n) \subseteq Given(stmt, k)
  BY DEF Given

\* A line that is refused makes the file one that is not well formed.
LEMMA RefusedIll ==
  ASSUME file \in Seq(Lines), NEW n \in Nat, n < Len(file),
         Readable(n), Means(config, n), HasLast("workers", n),
         file[n + 1].stmt # "note",
         ~Known(file[n + 1]) \/ AlreadyGiven(file[n + 1].stmt)
  PROVE  ~WellFormed
  <1> DEFINE line == file[n + 1]
             N == Len(file)
  <1>a. N \in Nat /\ n + 1 \in 1 .. N /\ n + 1 \in Nat
    OBVIOUS
  <1> HIDE DEF N
  <1>b. ASSUME NEW stmt, line.stmt = stmt
        PROVE  n + 1 \in Given(stmt, N) /\ Given(stmt, n) \subseteq Given(stmt, N)
               /\ Given(stmt, n + 1) \subseteq Given(stmt, N)
    <2>1. n <= N /\ n + 1 <= N
      BY <1>a
    <2> QED
      BY <1>a, <1>b, <2>1, GivenGrows DEF Given
  <1>1. CASE ~Known(line)
    BY <1>1, <1>a DEF WellFormed, Readable, N
  <1>2. ASSUME NEW stmt \in Once, line.stmt = stmt, LastOr(stmt, n, Unset) # Unset
        PROVE  ~WellFormed
    <2>1. Given(stmt, n) # {}
      BY <1>2 DEF LastOr
    <2>2. PICK i \in Given(stmt, n) : TRUE
      BY <2>1
    <2>3. i \in 1 .. n
      BY GivenLines
    <2>4. i # n + 1
      BY <2>3
    <2>5. i \in Given(stmt, N) /\ n + 1 \in Given(stmt, N)
      BY <1>b, <1>2
    <2> QED
      BY <2>4, <2>5 DEF WellFormed, Readable, N
  <1>3. CASE line.stmt = "workers" /\ config.ccf_worker_count # 0
    <2>1. NumberOr("workers", n, 0) # 0
      BY <1>3 DEF Means
    <2>2. Given("workers", n) # {}
      BY <2>1 DEF NumberOr
    <2>3. PICK m \in Given("workers", n) : NumberOr("workers", n, 0) = atoi(file[m].arg)
      BY <2>2, LastWorkers
    <2>4. m \in 1 .. n
      BY GivenLines
    <2>5. m < n + 1
      BY <2>4
    <2>6. m \in Given("workers", N) /\ n + 1 \in Given("workers", N)
      BY <1>b, <1>3
    <2>7. WorkersTwice(N)
      BY <2>1, <2>3, <2>5, <2>6 DEF WorkersTwice
    <2> QED
      BY <2>7 DEF WellFormed, Readable, N
  <1>4. CASE line.stmt = "mdtdevice" /\ Len(config.ccf_mdt) >= MAX_MDT
    <2>1. /\ Cardinality(Given("mdtdevice", n)) \in Nat
          /\ Cardinality(Given("mdtdevice", n)) >= MAX_MDT
          /\ Cardinality(Given("mdtdevice", n + 1)) = Cardinality(Given("mdtdevice", n)) + 1
      BY <1>4, GivenLines, PlaceNext DEF Means
    <2>2. IsFiniteSet(Given("mdtdevice", N)) /\ Cardinality(Given("mdtdevice", N)) \in Nat
      BY <1>a, GivenLines
    <2>3. Given("mdtdevice", n + 1) \subseteq Given("mdtdevice", N)
      BY <1>b, <1>4
    <2>4. Cardinality(Given("mdtdevice", n + 1)) <= Cardinality(Given("mdtdevice", N))
      BY <2>2, <2>3, FS_Subset
    <2>5. ~(Cardinality(Given("mdtdevice", N)) <= MAX_MDT)
      BY <2>1, <2>2, <2>4, ConfigAssumption DEF ConfigAssumption
    <2> QED
      BY <2>5 DEF WellFormed, Readable, N
  <1>5. CASE AlreadyGiven(line.stmt)
    <2>1. CASE line.stmt = "logtype" /\ config.ccf_loggername # Unset
      BY <1>2, <2>1 DEF Once, Means
    <2>2. CASE line.stmt = "clreader" /\ config.ccf_clreader # Unset
      BY <1>2, <2>2 DEF Once, Means
    <2> QED
      BY <1>3, <1>4, <1>5, <2>1, <2>2 DEF AlreadyGiven
  <1> QED
    BY <1>1, <1>5

-----------------------------------------------------------------------------
(***************************************************************************)
(* The invariant.                                                          *)
(***************************************************************************)

\* The defaults are what a file stands for before its first line.
LEMMA ReadNothing == ASSUME CfgInit PROVE ReadSoFar
  <1>1. \A stmt : Given(stmt, 0) = {}
    BY DEF Given
  <1>2. Cardinality({}) = 0 /\ 0 <= MAX_MDT
    BY FS_EmptySet, ConfigAssumption DEF ConfigAssumption
  <1>3. Readable(0)
    BY <1>1, <1>2 DEF Readable, WorkersTwice
  <1>4. InRange(0) /\ HasLast("workers", 0)
    BY <1>1 DEF InRange, HasLast
  <1>5. Means(config, 0)
    <2>1. Len(config.ccf_mdt) = 0
      BY DefaultTypes DEF CfgInit
    <2>2. /\ config.ccf_clreader = Unset /\ config.ccf_loggername = Unset
          /\ config.ccf_max_bkt = 256 /\ config.ccf_rec_batch_count = 64
          /\ config.ccf_worker_count = 0
      BY DEF CfgInit, config_set_defaults
    <2> QED
      BY <1>1, <1>2, <2>1, <2>2 DEF Means, LastOr, NumberOr
  <1> QED
    BY <1>3, <1>4, <1>5 DEF ReadSoFar, CfgInit

\* What the file stands for depends on the file, and on the lines read, only.
LEMMA SameFile ==
  ASSUME UNCHANGED file, NEW n, n = nread', NEW cfg, cfg = config'
  PROVE  /\ Complete' = Complete /\ WellFormed' = WellFormed
         /\ Readable(nread)' = Readable(n) /\ InRange(nread)' = InRange(n)
         /\ Means(config, nread)' = Means(cfg, n)
         /\ HasLast("workers", nread)' = HasLast("workers", n)
  <1>1. Complete' = Complete
    BY DEF Complete
  <1>2. /\ Readable(nread)' = Readable(n) /\ Readable(Len(file))' = Readable(Len(file))
    BY DEF Readable, Given, WorkersTwice, Known, atoi
  <1>3. /\ InRange(nread)' = InRange(n) /\ InRange(Len(file))' = InRange(Len(file))
    BY DEF InRange
  <1>4. Means(config, nread)' = Means(cfg, n)
    BY DEF Means, Given, Place, LastOr, NumberOr, atoi
  <1>5. HasLast("workers", nread)' = HasLast("workers", n)
    BY DEF HasLast, Given
  <1> QED
    BY <1>1, <1>2, <1>3, <1>4, <1>5 DEF WellFormed

\* Where lines are read no further, what was read stays the same.
LEMMA ReadNoFurther ==
  ASSUME ReadSoFar, CfgTypeOK, UNCHANGED <<file, nread>>,
         errno' = errno \/ parsing' = "failed",
         parsing' = "failed" => parsing = "failed" \/ LcapdFaults \cap {"oom", "io"} # {},
         \/ UNCHANGED config
         \/ \E opt : config' = AfterOption(opt),
         parsing' # "accepted" \/ (nread = Len(file) /\ ~errno),
         Complete /\ parsing # "released" /\ parsing' = "refused" => ~WellFormed,
         parsing \notin {"released", "failed"} \/ UNCHANGED parsing
  PROVE  ReadSoFar'
  <1>1. SUFFICES ASSUME Complete PROVE ReadSoFar'
    BY SameFile DEF ReadSoFar
  <1>2. Means(config, nread) => Means(config', nread)
    <2>1. CASE UNCHANGED config
      BY <2>1
    <2>2. CASE \E opt : config' = AfterOption(opt)
      <3>1. PICK opt : config' = AfterOption(opt)
        BY <2>2
      <3> DEFINE o == config.ccf_oneshot \/ opt = "o"
                 v == IF opt = "v" THEN config.ccf_verbosity + 1
                      ELSE config.ccf_verbosity
      <3>2. config' = [config EXCEPT !.ccf_oneshot = o, !.ccf_verbosity = v]
            /\ config \in lcap_cfg
        BY <3>1 DEF AfterOption, lcap_cfg, CfgTypeOK
      <3> HIDE DEF o, v
      <3>3. /\ config'.ccf_mdt = config.ccf_mdt
            /\ config'.ccf_clreader = config.ccf_clreader
            /\ config'.ccf_loggername = config.ccf_loggername
            /\ config'.ccf_max_bkt = config.ccf_max_bkt
            /\ config'.ccf_rec_batch_count = config.ccf_rec_batch_count
            /\ config'.ccf_worker_count = config.ccf_worker_count
        BY <3>2 DEF lcap_cfg
      <3> QED
        BY <3>3 DEF Means
    <2> QED
      BY <2>1, <2>2
  <1>3. PICK cfg : cfg = config'
    OBVIOUS
  <1>4. /\ Complete' = Complete /\ WellFormed' = WellFormed
        /\ Readable(nread)' = Readable(nread) /\ InRange(nread)' = InRange(nread)
        /\ Means(config, nread)' = Means(cfg, nread)
        /\ HasLast("workers", nread)' = HasLast("workers", nread)
    BY <1>3, SameFile
  <1>5. Means(config, nread) => Means(config, nread)'
    BY <1>2, <1>3, <1>4
  <1>6. CASE parsing = "released"
    BY <1>1, <1>4, <1>6 DEF ReadSoFar
  <1>7. CASE parsing # "released"
    <2>1. ReadSoFar => Readable(nread) /\ Means(config, nread) /\ HasLast("workers", nread)
      BY <1>1, <1>7 DEF ReadSoFar
    <2>2. parsing' # "failed" => (errno' <=> ~InRange(nread)')
      BY <1>1, <1>4, <1>7 DEF ReadSoFar
    <2>3. /\ parsing' = "refused" => ~WellFormed'
          /\ parsing' = "failed" => LcapdFaults \cap {"oom", "io"} # {}
      BY <1>1, <1>4, <1>7 DEF ReadSoFar
    <2>4. parsing' = "accepted" => nread' = Len(file') /\ ~errno'
      OBVIOUS
    <2> QED
      BY <1>4, <1>5, <2>1, <2>2, <2>3, <2>4 DEF ReadSoFar
  <1> QED
    BY <1>6, <1>7

\* A line is read.
LEMMA ReadOneMore ==
  ASSUME ReadSoFar, CfgTypeOK, Complete, skip_line \/ handle_cfg_line, parsing' # "failed"
  PROVE  ReadSoFar'
  <1>1. /\ parsing = "lines" /\ nread \in Nat /\ nread < Len(file) /\ nread' = nread + 1
        /\ UNCHANGED <<file, parsing>> /\ file \in Seq(Lines) /\ config \in lcap_cfg
    BY DEF skip_line, handle_cfg_line, More, CfgTypeOK
  <1>2. PICK n \in Nat : n = nread
    BY <1>1
  <1> DEFINE line == file[n + 1]
  <1>3. /\ Readable(n) /\ Means(config, n) /\ HasLast("workers", n)
        /\ errno <=> ~InRange(n)
    BY <1>1, <1>2 DEF ReadSoFar
  <1>4. \/ line.stmt = "note"
        \/ Known(line) /\ ~AlreadyGiven(line.stmt)
    BY <1>2 DEF skip_line, handle_cfg_line, NextLine
  <1>5. Readable(n + 1) /\ HasLast("workers", n + 1)
    BY <1>1, <1>2, <1>3, <1>4, ReadableNext, HasLastNext
  <1>6. PICK cfg : cfg = config'
    OBVIOUS
  <1>7. Means(cfg, n + 1) /\ (errno' <=> ~InRange(n + 1))
    <2>1. CASE skip_line
      <3>1. line.stmt = "note" /\ cfg = config /\ errno' = errno
        BY <1>2, <1>6, <2>1 DEF skip_line, NextLine
      <3>2. line.stmt \notin Directives /\ line.stmt \notin Numeric
        BY <3>1 DEF Directives, Once, Numeric
      <3> QED
        BY <1>3, <3>1, <3>2, SameMeaning, RangeNext
    <2>2. CASE handle_cfg_line
      <3>1. line.stmt \in Directives
        BY <1>2, <2>2 DEF handle_cfg_line, NextLine, Known
      <3>2. PICK arg \in cfg_get_arg(line) :
              /\ arg # Unset /\ config' = Stored(line.stmt, arg)
              /\ errno' = (errno \/ (line.stmt \in Numeric /\ arg = TooLarge))
        BY <1>2, <2>2 DEF handle_cfg_line, NextLine
      <3>3. n + 1 \in 1 .. Len(file)
        BY <1>1, <1>2
      <3>4. arg = line.arg
        BY <3>2, <3>3 DEF Complete, cfg_get_arg
      <3>5. Means(cfg, n + 1)
        BY <1>1, <1>3, <1>6, <3>1, <3>2, <3>4, StoredMeaning
      <3>6. errno' <=> ~InRange(n + 1)
        BY <1>3, <3>2, <3>4, RangeNext
      <3> QED
        BY <3>5, <3>6
    <2> QED
      BY <2>1, <2>2
  <1>8. PICK k : k = n + 1
    OBVIOUS
  <1>9. /\ Readable(nread)' = Readable(k) /\ InRange(nread)' = InRange(k)
        /\ Means(config, nread)' = Means(cfg, k)
        /\ HasLast("workers", nread)' = HasLast("workers", k)
    BY <1>1, <1>2, <1>6, <1>8, SameFile
  <1> QED
    BY <1>1, <1>5, <1>7, <1>8, <1>9 DEF ReadSoFar

\* A file that is refused at its end has a number that is too large.
LEMMA EndIll ==
  ASSUME ReadSoFar, Complete, parsing = "lines", nread = Len(file), errno
  PROVE  ~WellFormed
  BY DEF ReadSoFar, WellFormed

\* lcap_cfg_init() keeps what it has read.
LEMMA CfgInitReads ==
  ASSUME ReadSoFar, CfgTypeOK, lcap_cfg_init PROVE ReadSoFar'
  <1>1. CASE lcap_parse_args
    <2>1. /\ parsing = "options" /\ parsing' \in {"open", "options", "stopped"}
          /\ UNCHANGED <<file, nread, errno>>
          /\ config' = AfterOption(Head(cmdline)) \/ config' = config
      BY <1>1 DEF lcap_parse_args
    <2> QED
      BY <2>1, ReadNoFurther
  <1>2. CASE no_argument \/ open_file
    <2>1. /\ parsing \in {"options", "open"} /\ parsing' \in {"lines", "stopped"}
          /\ UNCHANGED <<file, nread, errno, config>>
      BY <1>2 DEF no_argument, open_file
    <2> QED
      BY <2>1, ReadNoFurther
  <1>3. CASE skip_line \/ handle_cfg_line
    <2>1. CASE Complete /\ parsing' # "failed"
      BY <1>3, <2>1, ReadOneMore
    <2>3. CASE parsing' = "failed"
      <3>1. parsing = "lines" /\ UNCHANGED <<file, nread, config>>
        BY <1>3, <2>3 DEF skip_line, handle_cfg_line, More
      <3>2. "oom" \in LcapdFaults
        <4>1. handle_cfg_line /\ NextLine \in Lines
          <5>1. handle_cfg_line /\ More
            BY <1>3, <2>3, <3>1 DEF skip_line, handle_cfg_line
          <5> QED
            BY <5>1 DEF NextLine, More, CfgTypeOK
        <4>2. Unset \in cfg_get_arg(NextLine)
          BY <2>3, <3>1, <4>1 DEF handle_cfg_line
        <4>3. Unset \notin Leftover /\ Unset # NextLine.arg
          BY <4>1, ConfigAssumption DEF ConfigAssumption, Strings, Lines
        <4> QED
          BY <4>2, <4>3 DEF cfg_get_arg
      <3>3. LcapdFaults \cap {"oom", "io"} # {}
        BY <3>2
      <3> QED
        BY <2>3, <3>1, <3>3, ReadNoFurther
    <2>2. CASE ~Complete
      <3>1. UNCHANGED file
        BY <1>3 DEF skip_line, handle_cfg_line
      <3> QED
        BY <2>2, <3>1 DEF ReadSoFar, Complete
    <2> QED
      BY <2>1, <2>2, <2>3
  <1>4. CASE refuse_line
    <2>1. /\ parsing = "lines" /\ parsing' = "refused" /\ nread < Len(file)
          /\ UNCHANGED <<file, nread, errno, config>>
          /\ NextLine.stmt # "note"
          /\ ~Known(NextLine) \/ AlreadyGiven(NextLine.stmt)
          /\ nread \in Nat /\ file \in Seq(Lines)
      BY <1>4 DEF refuse_line, More, CfgTypeOK
    <2>2. Complete => Readable(nread) /\ Means(config, nread) /\ HasLast("workers", nread)
      BY <2>1 DEF ReadSoFar
    <2>3. Complete => ~WellFormed
      BY <2>1, <2>2, RefusedIll DEF NextLine
    <2> QED
      BY <2>1, <2>3, ReadNoFurther
  <1>5. CASE end_of_file
    <2>1. /\ parsing = "lines" /\ nread = Len(file)
          /\ parsing' = IF errno THEN "refused" ELSE "accepted"
          /\ UNCHANGED <<file, nread, errno, config>>
      BY <1>5 DEF end_of_file
    <2>2. Complete /\ errno => ~WellFormed
      BY <2>1, EndIll
    <2>3. CASE errno
      BY <2>1, <2>2, <2>3, ReadNoFurther
    <2>4. CASE ~errno
      BY <2>1, <2>4, ReadNoFurther
    <2> QED
      BY <2>3, <2>4
  <1>6. CASE read_fails
    <2>1. /\ parsing = "lines" /\ parsing' = "failed" /\ "io" \in LcapdFaults
          /\ UNCHANGED <<file, nread, config>>
      BY <1>6 DEF read_fails
    <2>2. LcapdFaults \cap {"oom", "io"} # {}
      BY <2>1
    <2> QED
      BY <2>1, <2>2, ReadNoFurther
  <1> QED
    BY <1>1, <1>2, <1>3, <1>4, <1>5, <1>6 DEF lcap_cfg_init

\* After lcap_cfg_release() there is no configuration.
LEMMA CfgReleaseReads ==
  ASSUME lcap_cfg_release PROVE ReadSoFar'
  BY DEF lcap_cfg_release, ReadSoFar

-----------------------------------------------------------------------------
(***************************************************************************)
(* Theorems.                                                               *)
(***************************************************************************)

\* What lcapd does with the configuration: it reads it, releases it, or leaves
\* it alone.
LEMMA ConfigSteps ==
  ASSUME [LcapdNext]_lcapdVars
  PROVE  lcap_cfg_init \/ lcap_cfg_release \/ UNCHANGED cfgVars
  <1>1. CASE UNCHANGED lcapdVars
    BY <1>1 DEF lcapdVars
  <1>2. CASE Main
    BY <1>2
    DEF Main, read_config, setup_sigthread, init_log, lcap_bind_server, alloc_readers,
        lcap_readers_start, pause_ends, poll_ready, broker_handle_signal, register_fails,
        lcap_ctx_release, release_config, main_returns
  <1>3. CASE SignalThread \/ client_request \/ killed
    BY <1>3
    DEF SignalThread, reset_flags, install_handlers, sleep_ends, handle_flags,
        lcap_readers_terminate, client_request, killed
  <1>4. CASE \E i \in Index : \/ ReaderRuns(i) \/ reader_init_fails(i)
                              \/ reader_error(i) \/ reader_crashes(i)
    BY <1>4
    DEF ReaderRuns, reader_joins, reader_fails, reader_stops, reader_init_fails,
        reader_error, reader_crashes
  <1>5. CASE \E s \in Sigs : \/ interrupt_main(s) \/ interrupt_sighandler(s)
                             \/ \E i \in Index : interrupt_reader(i, s)
    BY <1>5 DEF interrupt_main, interrupt_sighandler, interrupt_reader
  <1> QED
    BY <1>1, <1>2, <1>3, <1>4, <1>5 DEF LcapdNext

\* Whatever a file says and whatever fails, lcap_parse_config_file() keeps the
\* configuration that the lines read so far stand for; it refuses a line only if no
\* well formed file has it there, and gives up on another only where strdup() or
\* fgets() may fail.
THEOREM ReadsLineByLine == LcapdSpec => []ReadSoFar
  <1>1. LcapdInit => ReadSoFar
    BY ReadNothing DEF LcapdInit
  <1>2. ReadSoFar /\ LcapdIInv /\ [LcapdNext]_lcapdVars => ReadSoFar'
    <2> SUFFICES ASSUME ReadSoFar, LcapdIInv, [LcapdNext]_lcapdVars PROVE ReadSoFar'
      OBVIOUS
    <2>1. CfgTypeOK
      BY DEF LcapdIInv, LcapdTypeOK
    <2>2. CASE lcap_cfg_init
      BY <2>1, <2>2, CfgInitReads
    <2>3. CASE lcap_cfg_release
      BY <2>3, CfgReleaseReads
    <2>4. CASE UNCHANGED cfgVars
      <3>1. UNCHANGED <<file, nread, errno, config, parsing>>
        BY <2>4 DEF cfgVars
      <3>2. Complete /\ parsing # "released" /\ parsing' = "refused" => ~WellFormed
        BY <3>1 DEF ReadSoFar
      <3>3. CASE Complete
        <4>1. parsing' # "accepted" \/ (nread = Len(file) /\ ~errno)
          BY <3>1, <3>3 DEF ReadSoFar
        <4> QED
          BY <2>1, <3>1, <3>2, <4>1, ReadNoFurther
      <3>4. CASE ~Complete
        BY <3>1, <3>4 DEF ReadSoFar, Complete
      <3> QED
        BY <3>3, <3>4
    <2> QED
      BY <2>2, <2>3, <2>4, ConfigSteps
  <1> QED
    BY LcapdInvariance, <1>1, <1>2, PTL DEF LcapdSpec

\* Where every statement has an argument, the configuration that lcap_cfg_init()
\* accepts is the one its file stands for, only files that are not well formed are
\* refused for what they say, and where neither strdup() nor fgets() fails there is
\* no other error.
THEOREM AcceptsWhatIsMeant == LcapdSpec => []ConfigMeans
  <1>1. ReadSoFar => ConfigMeans
    BY DEF ReadSoFar, ConfigMeans, WellFormed
  <1> QED
    BY ReadsLineByLine, <1>1, PTL
=============================================================================
