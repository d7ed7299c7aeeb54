------------------------------ MODULE Startup -------------------------------
(***************************************************************************)
(* How the two Rust programs start.  The HTTP server and the agent read    *)
(* their environment one variable after the other, refuse it or fill in    *)
(* defaults, and set up what the other modules take as given: the values   *)
(* that get through are what those modules' constants stand for.           *)
(*                                                                         *)
(* A program that has ended may be started again, in another environment;  *)
(* it then finds the tables that an earlier start has made.                *)
(***************************************************************************)
EXTENDS Integers, Sequences, FiniteSets

CONSTANTS
  Absent, Malformed,  \* a variable that is not set, one that does not parse
  Empty, Text,        \* "" and any other string
  Numbers,            \* the numbers tried
  MaxCapacity,        \* above it a channel or a vector cannot be made
  Migrations,         \* files in migrations/
  MaxSet,             \* bound: optional variables set at a time
  MaxStarts           \* bound: starts of the program

ASSUME StartupAssumption ==
  /\ Numbers \subseteq Int
  /\ {MaxCapacity, Migrations, MaxSet, MaxStarts} \subseteq Nat
  /\ Text # Absent

VARIABLES
  program,   \* "server" or "agent"
  starts,    \* starts so far
  pc,        \* where main is
  env,       \* the variables read so far, as they were found
  config,    \* and what they were taken for
  worker,    \* the ingestor's worker
  migrated   \* migrations the database has seen

vars == <<program, starts, pc, env, config, worker, migrated>>

\* The variables in the order in which they are read, and the defaults of the
\* optional ones.  Those that name a host or a file are left out.
ServerReads == <<"DATABASE_URL", "DB_MAX_CONNECTIONS", "DB_MIN_CONNECTIONS",
                 "AUTH_MAX_ATTEMPTS", "AUTH_WINDOW_SECONDS",
                 "PORT_SCAN_MAX_PORTS", "PORT_SCAN_WINDOW_SECONDS",
                 "API_KEYS", "SERVER_PORT", "INGESTOR_QUEUE_CAPACITY",
                 "INGESTOR_BATCH_SIZE", "INGESTOR_FLUSH_MS">>
AgentReads  == <<"AGENT_ID", "BATCH_SIZE", "FLUSH_INTERVAL_MS",
                 "AGENT_QUEUE_CAPACITY", "AGENT_MODE">>
Reads == IF program = "server" THEN ServerReads ELSE AgentReads

Default(x) ==
  CASE x = "DB_MAX_CONNECTIONS"       -> 20
    [] x = "DB_MIN_CONNECTIONS"       -> 2
    [] x = "AUTH_MAX_ATTEMPTS"        -> 10
    [] x = "AUTH_WINDOW_SECONDS"      -> 300
    [] x = "PORT_SCAN_MAX_PORTS"      -> 20
    [] x = "PORT_SCAN_WINDOW_SECONDS" -> 10
    [] x = "SERVER_PORT"              -> 8000
    [] x = "INGESTOR_QUEUE_CAPACITY"  -> 10000
    [] x = "INGESTOR_BATCH_SIZE"      -> 100
    [] x = "INGESTOR_FLUSH_MS"        -> 3000
    [] x = "BATCH_SIZE"               -> 500
    [] x = "FLUSH_INTERVAL_MS"        -> 1000
    [] x = "AGENT_QUEUE_CAPACITY"     -> 10000
    [] x = "AGENT_MODE"               -> "hybrid"

Required == {"DATABASE_URL", "API_KEYS", "AGENT_ID"}
Signed   == {"AUTH_MAX_ATTEMPTS", "AUTH_WINDOW_SECONDS",
             "PORT_SCAN_MAX_PORTS", "PORT_SCAN_WINDOW_SECONDS"}

\* A value that does not parse is an error for these; the others are then given
\* their defaults.
Strict == Signed \cup {"DB_MAX_CONNECTIONS", "DB_MIN_CONNECTIONS", "SERVER_PORT"}

\* The numbers that parse: i64, u16 for the port, unsigned for the rest.
Parses(x) == {n \in Numbers : /\ x \notin Signed => n >= 0
                              /\ x = "SERVER_PORT" => n < 65536}

\* What may be found for a variable.  API_KEYS is the set of what is between its
\* commas, trimmed.
Settings(x) ==
  CASE x \in {"DATABASE_URL", "AGENT_ID"} -> {Absent, Empty, Text}
    [] x = "API_KEYS"   -> {Absent} \cup (SUBSET {Empty, Text} \ {{}})
    [] x = "AGENT_MODE" -> {Absent, "autonomous", "subordinate"}
    [] OTHER            -> {Absent, Malformed} \cup Parses(x)

NothingRead  == [x \in {} |-> Absent]
NextVariable == Reads[Cardinality(DOMAIN env) + 1]
AllRead      == Cardinality(DOMAIN env) = Len(Reads)

Init ==
  /\ program \in {"server", "agent"}
  /\ starts = 1
  /\ pc = "reading"
  /\ env = NothingRead
  /\ config = NothingRead
  /\ worker = "none"
  /\ migrated = 0

-----------------------------------------------------------------------------
(* Config::from_env and AgentConfig::from_env. *)

\* unwrap_or_else: the default replaces an absent value only.  ok().and_then():
\* it replaces one that does not parse, too.
Defaulted(x) == IF x \in Strict THEN {Absent} ELSE {Absent, Malformed}

AllKeys(keys)      == keys
NonEmptyKeys(keys) == keys \ {Empty}

\* What a setting is taken for.
Taken(x, v) ==
  CASE x \in {"DATABASE_URL", "AGENT_ID"} -> v
    [] x = "API_KEYS" -> IF v = Absent THEN {} ELSE NonEmptyKeys(v)
    [] OTHER          -> IF v \in Defaulted(x) THEN Default(x) ELSE v

\* What is refused, given what has been read before.
AnyBatchSize(n) == FALSE
BatchTooSmall(n) == n < 1
Refused(x, v) ==
  CASE x \in {"DATABASE_URL", "AGENT_ID"} -> v \in {Absent, Empty}
    [] x = "API_KEYS"           -> Taken(x, v) = {}
    [] x = "DB_MIN_CONNECTIONS" -> ~(v # Malformed /\ Taken(x, v) <= config["DB_MAX_CONNECTIONS"])
    [] x = "BATCH_SIZE"         -> BatchTooSmall(Taken(x, v))
    [] OTHER                    -> Taken(x, v) = Malformed

\* main ends; with it everything that it has started.
End == pc' = "down" /\ worker' = "none"

SetSoFar == {x \in DOMAIN env : x \notin Required /\ env[x] # Absent}
Plus(f, x, v) == [y \in DOMAIN f \cup {x} |-> IF y = x THEN v ELSE f[y]]

Read ==
  /\ pc = "reading" /\ ~AllRead
  /\ LET x == NextVariable
     IN \E v \in Settings(x) :
          /\ Cardinality(SetSoFar) = MaxSet => x \in Required \/ v = Absent
          /\ env' = Plus(env, x, v)
          /\ \/ /\ Refused(x, v)
                /\ End
                /\ UNCHANGED config
             \/ /\ ~Refused(x, v)
                /\ config' = Plus(config, x, Taken(x, v))
                /\ UNCHANGED <<pc, worker>>
  /\ UNCHANGED <<program, starts, migrated>>

\* The agent does nothing in autonomous mode.
Configured ==
  /\ pc = "reading" /\ AllRead
  /\ \/ program = "server" /\ pc' = "connecting" /\ UNCHANGED worker
     \/ /\ program = "agent"
        /\ \/ config["AGENT_MODE"] = "autonomous" /\ End
           \/ config["AGENT_MODE"] # "autonomous" /\ pc' = "building" /\ UNCHANGED worker
  /\ UNCHANGED <<program, starts, env, config, migrated>>

-----------------------------------------------------------------------------
(* The server's main. *)

\* create_pool makes a connection, or gives up after five seconds.
WaitsForever   == FALSE
AcquireTimeout == TRUE
PoolConnects ==
  /\ program = "server" /\ pc = "connecting"
  /\ config["DB_MAX_CONNECTIONS"] > 0
  /\ pc' = "migrating"
  /\ UNCHANGED <<program, starts, env, config, worker, migrated>>
PoolFails ==
  /\ program = "server" /\ pc = "connecting"
  /\ AcquireTimeout
  /\ End
  /\ UNCHANGED <<program, starts, env, config, migrated>>

\* migrate! applies what the database has not seen, each in a transaction.
SomeMigration == migrated > 0
AllMigrations == migrated = Migrations
Migrate ==
  /\ pc = "migrating"
  /\ ~AllMigrations
  /\ migrated' = migrated + 1
  /\ UNCHANGED <<program, starts, pc, env, config, worker>>
MigrationFails ==
  /\ pc = "migrating"
  /\ End
  /\ UNCHANGED <<program, starts, env, config, migrated>>
Migrated ==
  /\ pc = "migrating"
  /\ AllMigrations
  /\ pc' = "building"
  /\ UNCHANGED <<program, starts, env, config, worker, migrated>>

\* mpsc::channel panics with no slot, or with too many.
AnyChannel(n)    == TRUE
ChannelOfSize(n) == n \in 1..MaxCapacity
QueueVariable == IF program = "server" THEN "INGESTOR_QUEUE_CAPACITY" ELSE "AGENT_QUEUE_CAPACITY"

\* AsyncIngestor::new: the channel, and a worker that waits for its turn on the
\* thread of main; the agent's channel, and its collector.
Build ==
  /\ pc = "building"
  /\ \/ /\ ChannelOfSize(config[QueueVariable])
        /\ pc' = IF program = "server" THEN "binding" ELSE "dialling"
        /\ worker' = IF program = "server" THEN "spawned" ELSE "none"
     \/ /\ ~ChannelOfSize(config[QueueVariable])
        /\ End
  /\ UNCHANGED <<program, starts, env, config, migrated>>

\* bind() may find the port taken: main returns.
Bind ==
  /\ pc = "binding"
  /\ \/ pc' = "serving" /\ UNCHANGED worker
     \/ End
  /\ UNCHANGED <<program, starts, env, config, migrated>>

\* A Vec that is too large and interval(0) panic.
BatchAndTimer(batch, period) == batch <= MaxCapacity /\ period > 0

\* The server first awaits in run(): only then is the worker polled.  Its panic
\* stays its own.
WorkerStarts ==
  /\ pc = "serving" /\ worker = "spawned"
  /\ worker' = IF BatchAndTimer(config["INGESTOR_BATCH_SIZE"], config["INGESTOR_FLUSH_MS"])
               THEN "running" ELSE "panicked"
  /\ UNCHANGED <<program, starts, pc, env, config, migrated>>

\* ApiKeyAuth: a request without a key counts as one with the empty key.
KeyOf(header)         == IF header = Absent THEN Empty ELSE header
Authenticates(header) == KeyOf(header) \in config["API_KEYS"]

-----------------------------------------------------------------------------
(* The agent's main: the ingest loop runs in it, and takes it along. *)

\* The first connection is up: the timer and the batch are made.
Dial ==
  /\ pc = "dialling"
  /\ \/ /\ BatchAndTimer(config["BATCH_SIZE"], config["FLUSH_INTERVAL_MS"])
        /\ pc' = "streaming" /\ UNCHANGED worker
     \/ /\ ~BatchAndTimer(config["BATCH_SIZE"], config["FLUSH_INTERVAL_MS"])
        /\ End
  /\ UNCHANGED <<program, starts, env, config, migrated>>

-----------------------------------------------------------------------------

\* The process is killed, or stops.
Kill ==
  /\ pc # "down"
  /\ End
  /\ UNCHANGED <<program, starts, env, config, migrated>>

\* It is started again, from an environment that somebody may have changed.
StartAgain ==
  /\ pc = "down"
  /\ starts < MaxStarts
  /\ starts' = starts + 1
  /\ pc' = "reading"
  /\ env' = NothingRead
  /\ config' = NothingRead
  /\ UNCHANGED <<program, worker, migrated>>

Setup == \/ Read \/ Configured \/ PoolConnects \/ PoolFails
         \/ Migrate \/ MigrationFails \/ Migrated
         \/ Build \/ Bind \/ WorkerStarts
Next == Setup \/ Dial \/ Kill \/ StartAgain

Spec == Init /\ [][Next]_vars

\* main goes on; nothing is assumed of the network, of kills and of restarts.
FairSpec == Spec /\ WF_vars(Setup)

-----------------------------------------------------------------------------
(* Properties. *)

\* What a server that serves, and an agent that streams, may be relied on.  The
\* server has a channel with slots, a pool with connections, and thresholds and
\* windows that are numbers, of any sign and size; if its worker runs, it has a
\* batch that could be made and a timer that fires.  So has the agent.
StartedAsAssumed ==
  /\ pc = "serving" =>
       /\ config["INGESTOR_QUEUE_CAPACITY"] \in Nat \ {0}
       /\ {config["INGESTOR_BATCH_SIZE"], config["INGESTOR_FLUSH_MS"]} \subseteq Nat
       /\ 0 < config["DB_MAX_CONNECTIONS"]
       /\ config["DB_MIN_CONNECTIONS"] <= config["DB_MAX_CONNECTIONS"]
       /\ \A x \in Signed : config[x] \in Int
       /\ worker = "running" => /\ config["INGESTOR_BATCH_SIZE"] <= MaxCapacity
                                /\ config["INGESTOR_FLUSH_MS"] # 0
  /\ pc = "streaming" =>
       /\ {config["AGENT_QUEUE_CAPACITY"], config["BATCH_SIZE"],
           config["FLUSH_INTERVAL_MS"]} \subseteq Nat \ {0}
       /\ config["BATCH_SIZE"] <= MaxCapacity

\* A request without a key is never let in, although auth.rs:73 looks for the
\* empty key in its place, and one with a key can be, however API_KEYS is written
\* (with two commas in a row, with one alone, or as a blank).
NoKeyNoEntry ==
  pc = "serving" => Authenticates(Text) /\ ~Authenticates(Absent) /\ ~Authenticates(Empty)

\* No server serves with a limit that somebody meant to set and misspelled
\* (config.rs:36-82), even if an earlier start was right.
StrictMeansStrict ==
  pc = "serving" => \A x \in Strict : env[x] \in {Absent, config[x]}

\* A server serves only over a schema that is complete, also if earlier starts
\* have died between two migrations, and what is applied stays applied.
SchemaIsComplete ==
  /\ [][migrated' >= migrated]_migrated
  /\ [](pc \in {"binding", "serving"} => migrated = Migrations)

\* A start comes to its end, whatever is in the environment: also when the pool
\* may have no connection at all.
StartComesToAnEnd ==
  pc = "reading" ~> pc \in {"serving", "dialling", "streaming", "down"}
=============================================================================
