--------------------------- MODULE StartupProofs ---------------------------
(***************************************************************************)
(* Proofs about Startup for every set of numbers that a variable may hold, *)
(* every number of migrations and every number of starts.                  *)
(***************************************************************************)
EXTENDS Startup, FiniteSetTheorems, TLAPS

\* The first n variables that the program reads.
FirstReads(n) == {Reads[i] : i \in 1..n}

\* main is past the reading of its environment.
Past == pc \notin {"reading", "down"}

-----------------------------------------------------------------------------
(* The variables.                                                          *)

LEMMA ReadsLength ==
  ASSUME program \in {"server", "agent"}
  PROVE  Len(Reads) = IF program = "server" THEN 12 ELSE 5
BY DEF Reads, ServerReads, AgentReads

\* No program reads a variable twice.
LEMMA ReadsDiffer ==
  ASSUME program \in {"server", "agent"},
         NEW i \in 1..Len(Reads), NEW j \in 1..Len(Reads), i # j
  PROVE  Reads[i] # Reads[j]
<1>1. CASE program = "server"
  <2>1. i \in 1..12 /\ j \in 1..12
    BY <1>1, ReadsLength
  <2> QED
    BY <1>1, <2>1, SMTT(60) DEF Reads, ServerReads
<1>2. CASE program = "agent"
  <2>1. i \in 1..5 /\ j \in 1..5
    BY <1>2, ReadsLength
  <2> QED
    BY <1>2, <2>1, SMTT(60) DEF Reads, AgentReads
<1> QED
  BY <1>1, <1>2

\* So the number of variables read says which these are.
LEMMA FirstReadsCount ==
  ASSUME program \in {"server", "agent"}, NEW n \in 0..Len(Reads)
  PROVE  /\ IsFiniteSet(FirstReads(n))
         /\ Cardinality(FirstReads(n)) = n
<1>0. Len(Reads) \in Nat
  BY ReadsLength
<1> DEFINE f == [i \in 1..n |-> Reads[i]]
<1>1. f \in Bijection(1..n, FirstReads(n))
  <2>1. f \in [1..n -> FirstReads(n)]
    BY DEF FirstReads
  <2>2. \A i, j \in 1..n : f[i] = f[j] => i = j
    <3>1. SUFFICES ASSUME NEW i \in 1..n, NEW j \in 1..n, i # j
                   PROVE  Reads[i] # Reads[j]
      OBVIOUS
    <3>2. i \in 1..Len(Reads) /\ j \in 1..Len(Reads)
      BY <1>0
    <3> QED
      BY <3>1, <3>2, ReadsDiffer
  <2>3. \A t \in FirstReads(n) : \E i \in 1..n : f[i] = t
    BY DEF FirstReads
  <2> QED
    BY <2>1, <2>2, <2>3 DEF Bijection, Injection, Surjection, IsInjective
<1>2. IsFiniteSet(1..n) /\ Cardinality(1..n) = n
  BY FS_Interval, <1>0
<1> QED
  BY <1>1, <1>2, FS_Bijection, Zenon DEF ExistsBijection

\* Where the variables are that the properties name.
LEMMA AllAreRead ==
  ASSUME program \in {"server", "agent"}
  PROVE  /\ program = "server" =>
              /\ Strict \cup {"INGESTOR_QUEUE_CAPACITY", "INGESTOR_BATCH_SIZE",
                            "INGESTOR_FLUSH_MS", "API_KEYS"}
                   \subseteq FirstReads(Len(Reads))
         /\ program = "agent" =>
              {"AGENT_QUEUE_CAPACITY", "BATCH_SIZE", "FLUSH_INTERVAL_MS"}
                \subseteq FirstReads(Len(Reads))
<1>1. CASE program = "server"
  <2>1. /\ 2 \in 1..12 /\ 3 \in 1..12 /\ 4 \in 1..12 /\ 5 \in 1..12 /\ 6 \in 1..12
        /\ 7 \in 1..12 /\ 8 \in 1..12 /\ 9 \in 1..12 /\ 10 \in 1..12 /\ 11 \in 1..12 /\ 12 \in 1..12
    OBVIOUS
  <2>2. FirstReads(Len(Reads)) = {ServerReads[i] : i \in 1..12}
    BY <1>1, ReadsLength DEF FirstReads, Reads
  <2>3. {ServerReads[i] : i \in {2, 3, 4, 5, 6, 7, 8, 9, 10, 11, 12}} \subseteq FirstReads(Len(Reads))
    BY <2>1, <2>2
  <2>4. /\ ServerReads[2] = "DB_MAX_CONNECTIONS" /\ ServerReads[3] = "DB_MIN_CONNECTIONS"
        /\ ServerReads[4] = "AUTH_MAX_ATTEMPTS" /\ ServerReads[5] = "AUTH_WINDOW_SECONDS"
        /\ ServerReads[6] = "PORT_SCAN_MAX_PORTS" /\ ServerReads[7] = "PORT_SCAN_WINDOW_SECONDS"
        /\ ServerReads[8] = "API_KEYS" /\ ServerReads[9] = "SERVER_PORT"
        /\ ServerReads[10] = "INGESTOR_QUEUE_CAPACITY"
        /\ ServerReads[11] = "INGESTOR_BATCH_SIZE" /\ ServerReads[12] = "INGESTOR_FLUSH_MS"
    BY DEF ServerReads
  <2> QED
    BY <1>1, <2>3, <2>4 DEF Strict, Signed
<1>2. CASE program = "agent"
  <2>1. 2 \in 1..5 /\ 3 \in 1..5 /\ 4 \in 1..5
    OBVIOUS
  <2>2. FirstReads(Len(Reads)) = {AgentReads[i] : i \in 1..5}
    BY <1>2, ReadsLength DEF FirstReads, Reads
  <2>3. {AgentReads[i] : i \in {2, 3, 4}} \subseteq FirstReads(Len(Reads))
    BY <2>1, <2>2
  <2>4. /\ AgentReads[2] = "BATCH_SIZE" /\ AgentReads[3] = "FLUSH_INTERVAL_MS"
        /\ AgentReads[4] = "AGENT_QUEUE_CAPACITY"
    BY DEF AgentReads
  <2> QED
    BY <1>2, <2>3, <2>4
<1> QED
  BY <1>1, <1>2

LEMMA MaxBeforeMin ==
  ASSUME program \in {"server", "agent"}, NEW n \in 0..Len(Reads),
         "DB_MIN_CONNECTIONS" \in FirstReads(n)
  PROVE  "DB_MAX_CONNECTIONS" \in FirstReads(n)
<1>1. PICK i \in 1..n : Reads[i] = "DB_MIN_CONNECTIONS"
  BY DEF FirstReads
<1>2. i \in 1..Len(Reads)
  BY ReadsLength
<1>3. program = "server"
  <2>1. SUFFICES ASSUME program = "agent" PROVE FALSE
    OBVIOUS
  <2>2. i \in 1..5
    BY <1>2, <2>1, ReadsLength
  <2> QED
    BY <1>1, <2>1, <2>2 DEF Reads, AgentReads
<1>4. 3 \in 1..Len(Reads) /\ Reads[3] = "DB_MIN_CONNECTIONS" /\ Reads[2] = "DB_MAX_CONNECTIONS"
  BY <1>3, ReadsLength DEF Reads, ServerReads
<1>5. i = 3
  BY <1>1, <1>2, <1>4, ReadsDiffer
<1> QED
  BY <1>4, <1>5 DEF FirstReads

-----------------------------------------------------------------------------
(* Reading the environment.                                                *)

\* What has been read is the beginning of Reads; each variable was found with a
\* value it may have, was not refused, and is taken for what that value says.
EnvInv ==
  /\ program \in {"server", "agent"}
  /\ DOMAIN config = DOMAIN env
  /\ \E n \in 0..Len(Reads) : DOMAIN env = FirstReads(n)
  /\ \A x \in DOMAIN env : /\ env[x] \in Settings(x)
                           /\ config[x] = Taken(x, env[x])
                           /\ ~Refused(x, env[x])

LEMMA NextIsNew ==
  ASSUME EnvInv, ~AllRead
  PROVE  /\ NextVariable \notin DOMAIN env
         /\ \E n \in 0..Len(Reads) : DOMAIN env \cup {NextVariable} = FirstReads(n)
<1>1. PICK n \in 0..Len(Reads) : DOMAIN env = FirstReads(n)
  BY DEF EnvInv
<1>2. Cardinality(DOMAIN env) = n
  BY <1>1, FirstReadsCount DEF EnvInv
<1>3. Len(Reads) \in Nat
  BY ReadsLength DEF EnvInv
<1>4. n + 1 \in 1..Len(Reads) /\ NextVariable = Reads[n + 1]
  BY <1>2, <1>3 DEF AllRead, NextVariable
<1>5. NextVariable \notin FirstReads(n)
  <2>1. SUFFICES ASSUME NEW i \in 1..n, Reads[i] = Reads[n + 1] PROVE FALSE
    BY <1>4 DEF FirstReads
  <2>2. i \in 1..Len(Reads) /\ i # n + 1
    BY <1>3
  <2> QED
    BY <1>4, <2>1, <2>2, ReadsDiffer DEF EnvInv
<1>6. FirstReads(n) \cup {NextVariable} = FirstReads(n + 1)
  <2>1. 1..n + 1 = 1..n \cup {n + 1}
    OBVIOUS
  <2> QED
    BY <1>4, <2>1 DEF FirstReads
<1> QED
  BY <1>1, <1>3, <1>4, <1>5, <1>6

LEMMA AllReadMeansAll ==
  ASSUME EnvInv, AllRead
  PROVE  DOMAIN env = FirstReads(Len(Reads))
<1>1. PICK n \in 0..Len(Reads) : DOMAIN env = FirstReads(n)
  BY DEF EnvInv
<1> QED
  BY <1>1, FirstReadsCount DEF EnvInv, AllRead

\* Only DB_MIN_CONNECTIONS is judged by what was read before, and that stays.
LEMMA RefusedStays ==
  ASSUME EnvInv, NEW x \in DOMAIN env, NEW y, y \notin DOMAIN env, NEW v,
         config' = Plus(config, y, v), env'[x] = env[x]
  PROVE  ~Refused(x, env[x])'
<1>1. CASE x = "DB_MIN_CONNECTIONS"
  <2>1. "DB_MAX_CONNECTIONS" \in DOMAIN env
    BY <1>1, MaxBeforeMin DEF EnvInv
  <2>2. config'["DB_MAX_CONNECTIONS"] = config["DB_MAX_CONNECTIONS"]
    BY <2>1 DEF Plus, EnvInv
  <2> QED
    BY <1>1, <2>2 DEF EnvInv, Refused
<1>2. CASE x # "DB_MIN_CONNECTIONS"
  BY <1>2 DEF EnvInv, Refused
<1> QED
  BY <1>1, <1>2

LEMMA ReadReads ==
  ASSUME EnvInv, Read
  PROVE  EnvInv' \/ pc' = "down"
<1>0. PICK x : x = NextVariable
  OBVIOUS
<1>1. x \notin DOMAIN env /\ \E n \in 0..Len(Reads) : DOMAIN env \cup {x} = FirstReads(n)
  BY <1>0, NextIsNew DEF Read
<1>2. UNCHANGED program /\ Reads' = Reads
  BY DEF Read, Reads
<1>3. PICK v \in Settings(x) :
        /\ env' = Plus(env, x, v)
        /\ \/ Refused(x, v) /\ End /\ UNCHANGED config
           \/ ~Refused(x, v) /\ config' = Plus(config, x, Taken(x, v))
  BY <1>0 DEF Read
<1>4. CASE End
  BY <1>4 DEF End
<1>5. CASE ~Refused(x, v) /\ config' = Plus(config, x, Taken(x, v))
  <2>1. /\ DOMAIN env' = DOMAIN env \cup {x}
        /\ DOMAIN config' = DOMAIN env \cup {x}
    BY <1>3, <1>5 DEF Plus, EnvInv
  <2>2. /\ env'[x] = v /\ config'[x] = Taken(x, v)
        /\ \A y \in DOMAIN env : env'[y] = env[y] /\ config'[y] = config[y]
    BY <1>1, <1>3, <1>5 DEF Plus, EnvInv
  <2>3. \E n \in 0..Len(Reads) : DOMAIN env' = FirstReads(n)
    BY <1>1, <2>1
  <2>4. (\E n \in 0..Len(Reads) : DOMAIN env = FirstReads(n))'
    BY <1>2, <2>3 DEF FirstReads
  <2>5. ASSUME NEW y \in DOMAIN env'
        PROVE  (/\ env[y] \in Settings(y)
                /\ config[y] = Taken(y, env[y])
                /\ ~Refused(y, env[y]))'
    <3>1. CASE y = x
      <4>1. x = "DB_MIN_CONNECTIONS" => config'["DB_MAX_CONNECTIONS"] = config["DB_MAX_CONNECTIONS"]
        <5>1. SUFFICES ASSUME x = "DB_MIN_CONNECTIONS"
                       PROVE  "DB_MAX_CONNECTIONS" \in DOMAIN env
          BY <2>2
        <5>2. PICK n \in 0..Len(Reads) : DOMAIN env' = FirstReads(n)
          BY <2>3
        <5>3. "DB_MAX_CONNECTIONS" \in FirstReads(n)
          BY <2>1, <5>1, <5>2, MaxBeforeMin DEF EnvInv
        <5> QED
          BY <2>1, <5>1, <5>2, <5>3
      <4>2. (~Refused(x, v))'
        BY <1>5, <4>1 DEF Refused
      <4> QED
        BY <1>3, <2>2, <3>1, <4>2 DEF Refused
    <3>2. CASE y \in DOMAIN env
      <4>1. (~Refused(y, env[y]))'
        BY <1>1, <1>5, <2>2, <3>2, RefusedStays
      <4> QED
        BY <2>2, <3>2, <4>1 DEF EnvInv
    <3> QED
      BY <2>1, <3>1, <3>2
  <2> QED
    BY <1>2, <2>1, <2>4, <2>5 DEF EnvInv
<1> QED
  BY <1>3, <1>4, <1>5

-----------------------------------------------------------------------------
(* What the values mean.                                                   *)

LEMMA ParsesToInt ==
  ASSUME NEW x, NEW n \in Parses(x)
  PROVE  n \in Int
<1>1. n \in Numbers
  BY SMT DEF Parses
<1> QED
  BY <1>1, StartupAssumption

\* A limit is a number that was found, or its default if none was.
LEMMA StrictValue ==
  ASSUME EnvInv, NEW x \in Strict, x \in DOMAIN env
  PROVE  /\ env[x] \in {Absent, config[x]}
         /\ config[x] \in Int
<1>1. /\ env[x] \in {Absent, Malformed} \cup Parses(x)
      /\ config[x] = IF env[x] = Absent THEN Default(x) ELSE env[x]
      /\ config[x] = Malformed => x = "DB_MIN_CONNECTIONS" /\ env[x] # Malformed
  BY DEF EnvInv, Settings, Taken, Defaulted, Refused, Strict, Signed
<1>2. Default(x) \in Int
  BY DEF Default, Strict, Signed
<1>3. \A n \in Parses(x) : n \in Int
  BY ParsesToInt
<1> QED
  BY <1>1, <1>2, <1>3

\* The numbers of channels, batches and timers are natural.
Unsigned == {"INGESTOR_QUEUE_CAPACITY", "INGESTOR_BATCH_SIZE", "INGESTOR_FLUSH_MS",
             "AGENT_QUEUE_CAPACITY", "BATCH_SIZE", "FLUSH_INTERVAL_MS"}

LEMMA UnsignedValue ==
  ASSUME EnvInv, NEW x \in Unsigned, x \in DOMAIN env
  PROVE  config[x] \in Nat
<1>1. /\ env[x] \in {Absent, Malformed} \cup Parses(x)
      /\ config[x] = IF env[x] \in {Absent, Malformed} THEN Default(x) ELSE env[x]
  BY DEF EnvInv, Settings, Taken, Defaulted, Strict, Signed, Unsigned
<1>2. Default(x) \in Nat
  BY DEF Default, Unsigned
<1>3. \A n \in Parses(x) : n \in Int /\ n >= 0
  <2>1. x \notin Signed
    BY DEF Signed, Unsigned
  <2> QED
    BY <2>1, ParsesToInt DEF Parses
<1> QED
  BY <1>1, <1>2, <1>3

LEMMA KeysValue ==
  ASSUME EnvInv, "API_KEYS" \in DOMAIN env
  PROVE  config["API_KEYS"] # {} /\ config["API_KEYS"] \subseteq {Text} /\ Empty \notin config["API_KEYS"]
<1> DEFINE v == env["API_KEYS"]
<1>1. /\ v \in {Absent} \cup (SUBSET {Empty, Text} \ {{}})
      /\ config["API_KEYS"] = Taken("API_KEYS", v)
      /\ Taken("API_KEYS", v) # {}
  BY DEF EnvInv, Settings, Refused
<1>2. Taken("API_KEYS", v) = IF v = Absent THEN {} ELSE NonEmptyKeys(v)
  BY DEF Taken
<1> QED
  BY <1>1, <1>2 DEF NonEmptyKeys

LEMMA MinBelowMax ==
  ASSUME EnvInv, "DB_MIN_CONNECTIONS" \in DOMAIN env
  PROVE  config["DB_MIN_CONNECTIONS"] <= config["DB_MAX_CONNECTIONS"]
BY DEF EnvInv, Refused

LEMMA BatchValue ==
  ASSUME EnvInv, "BATCH_SIZE" \in DOMAIN env
  PROVE  config["BATCH_SIZE"] > 0
<1> DEFINE v == env["BATCH_SIZE"]
<1>1. /\ v \in {Absent, Malformed} \cup Parses("BATCH_SIZE")
      /\ config["BATCH_SIZE"] = Taken("BATCH_SIZE", v)
      /\ ~(Taken("BATCH_SIZE", v) < 1)
  BY DEF EnvInv, Settings, Refused, BatchTooSmall
<1>2. Taken("BATCH_SIZE", v) = IF v \in {Absent, Malformed} THEN 500 ELSE v
  BY DEF Taken, Defaulted, Default, Strict, Signed
<1>3. \A n \in Parses("BATCH_SIZE") : n \in Int
  BY ParsesToInt
<1> QED
  BY <1>1, <1>2, <1>3

-----------------------------------------------------------------------------
(* The way through main.                                                   *)

\* Each step of main leaves behind what the next ones take for granted.
PlaceInv ==
  /\ Past => DOMAIN env = FirstReads(Len(Reads))
  /\ pc \in {"connecting", "migrating", "binding", "serving"} => program = "server"
  /\ pc \in {"dialling", "streaming"} => program = "agent"
  /\ Past /\ pc # "connecting" /\ program = "server" => config["DB_MAX_CONNECTIONS"] > 0
  /\ pc \in {"building", "binding", "serving"} /\ program = "server" => AllMigrations
  /\ pc \in {"binding", "serving"} => ChannelOfSize(config["INGESTOR_QUEUE_CAPACITY"])
  /\ pc \in {"dialling", "streaming"} => ChannelOfSize(config["AGENT_QUEUE_CAPACITY"])
  /\ pc = "streaming" => BatchAndTimer(config["BATCH_SIZE"], config["FLUSH_INTERVAL_MS"])
  /\ worker = "running" =>
       /\ pc = "serving"
       /\ BatchAndTimer(config["INGESTOR_BATCH_SIZE"], config["INGESTOR_FLUSH_MS"])

IInv ==
  /\ program \in {"server", "agent"}
  /\ migrated \in Nat
  /\ pc # "down" => EnvInv
  /\ PlaceInv

LEMMA NothingIsSound ==
  ASSUME program \in {"server", "agent"}, env = NothingRead, config = NothingRead
  PROVE  EnvInv
<1>1. DOMAIN env = {} /\ DOMAIN config = {}
  BY DEF NothingRead
<1>2. FirstReads(0) = {} /\ 0 \in 0..Len(Reads)
  BY ReadsLength DEF FirstReads
<1> QED
  BY <1>1, <1>2 DEF EnvInv

LEMMA InitSound == Init => IInv
<1> SUFFICES ASSUME Init PROVE IInv
  OBVIOUS
<1>1. EnvInv
  BY NothingIsSound DEF Init
<1>2. PlaceInv
  BY DEF Init, PlaceInv, Past
<1> QED
  BY <1>1, <1>2 DEF IInv, Init

\* What a step that reads nothing, and stays past the reading, keeps.
LEMMA EnvKept ==
  ASSUME EnvInv, UNCHANGED <<program, env, config>>
  PROVE  /\ EnvInv'
         /\ FirstReads(Len(Reads))' = FirstReads(Len(Reads))
<1>1. Reads' = Reads /\ \A n : FirstReads(n)' = FirstReads(n)
  BY DEF Reads, FirstReads
<1>2. \A x, v : Refused(x, v)' <=> Refused(x, v)
  BY DEF Refused
<1> QED
  BY <1>1, <1>2 DEF EnvInv


\* A program that has ended owes nothing.
LEMMA EndSound ==
  ASSUME IInv, End, UNCHANGED program, migrated' = migrated
  PROVE  IInv'
BY DEF End, PlaceInv, Past, IInv

LEMMA AgainSound ==
  ASSUME IInv, StartAgain
  PROVE  IInv'
<1>1. UNCHANGED program /\ env' = NothingRead /\ config' = NothingRead
  BY DEF StartAgain
<1>2. Reads' = Reads /\ FirstReads(0)' = {} /\ 0 \in 0..Len(Reads)
  BY <1>1, ReadsLength DEF Reads, FirstReads, IInv
<1>3. DOMAIN env' = {} /\ DOMAIN config' = {}
  BY <1>1 DEF NothingRead
<1>4. EnvInv'
  BY <1>1, <1>2, <1>3 DEF EnvInv, IInv
<1>5. PlaceInv' /\ migrated' = migrated
  BY DEF StartAgain, PlaceInv, Past, IInv
<1> QED
  BY <1>1, <1>4, <1>5 DEF IInv

\* Values as they are found leave main where it is, or end it.
LEMMA ReadSound ==
  ASSUME IInv, Read
  PROVE  IInv'
<1>1. EnvInv' \/ pc' = "down"
  BY ReadReads DEF IInv, Read
<1>2. /\ pc = "reading" /\ worker # "running"
      /\ UNCHANGED program /\ migrated' = migrated
      /\ End \/ (pc' = "reading" /\ worker' = worker)
  BY DEF Read, IInv, PlaceInv
<1>3. CASE End
  BY <1>2, <1>3, EndSound
<1>4. CASE pc' = "reading" /\ worker' = worker
  BY <1>1, <1>2, <1>4 DEF IInv, PlaceInv, Past
<1> QED
  BY <1>2, <1>3, <1>4

LEMMA StepSound == IInv /\ [Next]_vars => IInv'
<1> SUFFICES ASSUME IInv, [Next]_vars PROVE IInv'
  OBVIOUS
<1>1. CASE Read
  BY <1>1, ReadSound
<1>2. CASE StartAgain
  BY <1>2, AgainSound
<1>3. CASE UNCHANGED vars
  BY <1>3, EnvKept DEF vars, IInv, PlaceInv, Past, AllMigrations
<1>4. CASE pc # "down" /\ UNCHANGED <<program, env, config>>
  <2>1. /\ EnvInv' /\ program' = program
        /\ FirstReads(Len(Reads))' = FirstReads(Len(Reads))
    BY <1>4, EnvKept DEF IInv
  <2>2. CASE End /\ migrated' = migrated
    BY <2>1, <2>2, EndSound
  <2>3. CASE Configured /\ ~End
    <3>1. DOMAIN env = FirstReads(Len(Reads))
      BY <2>3, AllReadMeansAll DEF Configured, IInv
    <3> QED
      BY <1>4, <2>1, <2>3, <3>1 DEF Configured, PlaceInv, Past, IInv
  <2>4. CASE PoolConnects
    BY <1>4, <2>1, <2>4 DEF PoolConnects, PlaceInv, Past, IInv
  <2>5. CASE Migrate
    BY <1>4, <2>1, <2>5 DEF Migrate, PlaceInv, Past, IInv
  <2>6. CASE Migrated
    BY <1>4, <2>1, <2>6 DEF Migrated, PlaceInv, Past, AllMigrations, IInv
  <2>7. CASE Build /\ ~End
    <3>1. /\ pc = "building" /\ ChannelOfSize(config[QueueVariable])
          /\ pc' = IF program = "server" THEN "binding" ELSE "dialling"
          /\ worker' = IF program = "server" THEN "spawned" ELSE "none"
          /\ migrated' = migrated
      BY <2>7 DEF Build
    <3>2. CASE program = "server"
      BY <1>4, <2>1, <3>1, <3>2 DEF PlaceInv, Past, AllMigrations, QueueVariable, IInv
    <3>3. CASE program = "agent"
      BY <1>4, <2>1, <3>1, <3>3 DEF PlaceInv, Past, AllMigrations, QueueVariable, IInv
    <3> QED
      BY <3>2, <3>3 DEF IInv
  <2>8. CASE Bind /\ ~End
    BY <1>4, <2>1, <2>8 DEF Bind, PlaceInv, Past, AllMigrations, IInv
  <2>9. CASE WorkerStarts
    BY <1>4, <2>1, <2>9 DEF WorkerStarts, PlaceInv, Past, AllMigrations, IInv
  <2>10. CASE Dial /\ ~End
    BY <1>4, <2>1, <2>10 DEF Dial, PlaceInv, Past, IInv
  <2> QED
    BY <1>1, <1>2, <1>3, <2>2, <2>3, <2>4, <2>5, <2>6, <2>7, <2>8, <2>9, <2>10
       DEF Next, Setup, Configured, PoolFails, MigrationFails, Build, Bind, Dial, Kill
<1> QED
  BY <1>1, <1>2, <1>3, <1>4 DEF Next, Setup, Configured, PoolConnects, PoolFails, Migrate,
     MigrationFails, Migrated, Build, Bind, WorkerStarts, Dial, Kill

LEMMA InvariantHolds == Spec => []IInv
<1> QED
  BY InitSound, StepSound, PTL DEF Spec

-----------------------------------------------------------------------------
(* What a program that is up may be relied on.                             *)

\* A server that serves has a channel with slots, a pool that may connect,
\* numbers for its detection limits and, unless its worker has panicked, a batch
\* that could be made and a timer that fires; so has an agent that streams.  That
\* is what main.rs and both config.rs leave of the configuration, and all that
\* the assumptions of Ingestor, Detection and AgentClient ask of it.
THEOREM ServesAsAssumed == Spec => []StartedAsAssumed
<1>1. IInv => StartedAsAssumed
  <2> SUFFICES ASSUME IInv PROVE StartedAsAssumed
    OBVIOUS
  <2>1. ASSUME pc = "serving"
        PROVE  /\ config["INGESTOR_QUEUE_CAPACITY"] \in Nat \ {0}
               /\ {config["INGESTOR_BATCH_SIZE"], config["INGESTOR_FLUSH_MS"]} \subseteq Nat
               /\ 0 < config["DB_MAX_CONNECTIONS"]
               /\ config["DB_MIN_CONNECTIONS"] <= config["DB_MAX_CONNECTIONS"]
               /\ \A x \in Signed : config[x] \in Int
               /\ worker = "running" => /\ config["INGESTOR_BATCH_SIZE"] <= MaxCapacity
                                        /\ config["INGESTOR_FLUSH_MS"] # 0
    <3>1. EnvInv /\ PlaceInv /\ program = "server" /\ Past
      BY <2>1 DEF IInv, PlaceInv, Past
    <3>2. "DB_MIN_CONNECTIONS" \in DOMAIN env /\ "DB_MAX_CONNECTIONS" \in DOMAIN env
      BY <3>1, AllAreRead DEF PlaceInv, Strict
    <3>3. config["DB_MIN_CONNECTIONS"] <= config["DB_MAX_CONNECTIONS"]
      BY <3>1, <3>2, MinBelowMax
    <3>4. config["DB_MAX_CONNECTIONS"] \in Int
      BY <3>1, <3>2, StrictValue DEF Strict
    <3>5. config["DB_MAX_CONNECTIONS"] > 0 /\ ChannelOfSize(config["INGESTOR_QUEUE_CAPACITY"])
      BY <2>1, <3>1 DEF PlaceInv
    <3>6. /\ config["INGESTOR_QUEUE_CAPACITY"] \in Nat
          /\ config["INGESTOR_BATCH_SIZE"] \in Nat /\ config["INGESTOR_FLUSH_MS"] \in Nat
      BY <3>1, AllAreRead, UnsignedValue DEF PlaceInv, Unsigned
    <3>7. worker = "running" => /\ config["INGESTOR_BATCH_SIZE"] <= MaxCapacity
                                /\ config["INGESTOR_FLUSH_MS"] > 0
      BY <3>1 DEF PlaceInv, BatchAndTimer
    <3>8. \A x \in Signed : config[x] \in Int
      BY <3>1, AllAreRead, StrictValue DEF PlaceInv, Strict, Signed
    <3>9. config["INGESTOR_QUEUE_CAPACITY"] # 0
      BY <3>5, StartupAssumption DEF ChannelOfSize
    <3> QED
      BY <3>3, <3>4, <3>5, <3>6, <3>7, <3>8, <3>9
  <2>2. ASSUME pc = "streaming"
        PROVE  /\ {config["AGENT_QUEUE_CAPACITY"], config["BATCH_SIZE"],
                   config["FLUSH_INTERVAL_MS"]} \subseteq Nat \ {0}
               /\ config["BATCH_SIZE"] <= MaxCapacity
    <3>1. EnvInv /\ PlaceInv /\ program = "agent" /\ Past
      BY <2>2 DEF IInv, PlaceInv, Past
    <3>2. "BATCH_SIZE" \in DOMAIN env
      BY <3>1, AllAreRead DEF PlaceInv
    <3>3. config["BATCH_SIZE"] > 0
      BY <3>1, <3>2, BatchValue
    <3>4. /\ ChannelOfSize(config["AGENT_QUEUE_CAPACITY"])
          /\ config["BATCH_SIZE"] <= MaxCapacity /\ config["FLUSH_INTERVAL_MS"] > 0
      BY <2>2, <3>1 DEF PlaceInv, BatchAndTimer
    <3>5. /\ config["AGENT_QUEUE_CAPACITY"] \in Nat /\ config["BATCH_SIZE"] \in Nat
          /\ config["FLUSH_INTERVAL_MS"] \in Nat
      BY <3>1, AllAreRead, UnsignedValue DEF PlaceInv, Unsigned
    <3>6. config["AGENT_QUEUE_CAPACITY"] # 0
      BY <3>4, StartupAssumption DEF ChannelOfSize
    <3> QED
      BY <3>3, <3>4, <3>5, <3>6
  <2> QED
    BY <2>1, <2>2 DEF StartedAsAssumed
<1> QED
  BY <1>1, InvariantHolds, PTL

\* A server that serves lets a request with a key in, if it has one that may,
\* and none without: the empty key that auth.rs:73 looks for in that case is
\* never among the keys that config.rs has taken.
THEOREM KeysAreNeeded == Spec => []NoKeyNoEntry
<1>1. IInv => NoKeyNoEntry
  <2> SUFFICES ASSUME IInv, pc = "serving"
               PROVE  Authenticates(Text) /\ ~Authenticates(Absent) /\ ~Authenticates(Empty)
    BY DEF NoKeyNoEntry
  <2>1. EnvInv /\ PlaceInv /\ program = "server" /\ Past
    BY DEF IInv, PlaceInv, Past
  <2>2. "API_KEYS" \in DOMAIN env
    BY <2>1, AllAreRead DEF PlaceInv
  <2>3. Text \in config["API_KEYS"] /\ Empty \notin config["API_KEYS"]
    BY <2>1, <2>2, KeysValue
  <2>4. KeyOf(Text) = Text /\ KeyOf(Absent) = Empty /\ KeyOf(Empty) = Empty
    BY StartupAssumption DEF KeyOf
  <2> QED
    BY <2>3, <2>4 DEF Authenticates
<1> QED
  BY <1>1, InvariantHolds, PTL

\* A server that serves has each limit as it was written, or its default where
\* nothing was written (config.rs:36-82).
THEOREM LimitsAreAsWritten == Spec => []StrictMeansStrict
<1>1. IInv => StrictMeansStrict
  <2> SUFFICES ASSUME IInv, pc = "serving", NEW x \in Strict
               PROVE  env[x] \in {Absent, config[x]}
    BY DEF StrictMeansStrict
  <2>1. EnvInv /\ PlaceInv /\ program = "server" /\ Past
    BY DEF IInv, PlaceInv, Past
  <2>2. x \in DOMAIN env
    BY <2>1, AllAreRead DEF PlaceInv
  <2> QED
    BY <2>1, <2>2, StrictValue
<1> QED
  BY <1>1, InvariantHolds, PTL

\* No start takes a migration back, and a server binds its port only when all
\* of them are applied (db.rs, main.rs).
THEOREM SchemaStaysComplete == Spec => SchemaIsComplete
<1>1. IInv => (pc \in {"binding", "serving"} => migrated = Migrations)
  BY DEF IInv, PlaceInv, AllMigrations
<1>2. IInv /\ [Next]_vars => [migrated' >= migrated]_migrated
  BY DEF IInv, Next, Setup, Read, Configured, PoolConnects, PoolFails, Migrate,
     MigrationFails, Migrated, Build, Bind, WorkerStarts, Dial, Kill, StartAgain, vars
<1> QED
  BY <1>1, <1>2, InvariantHolds, PTL DEF Spec, SchemaIsComplete

=============================================================================
