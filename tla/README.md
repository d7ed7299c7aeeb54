# TLA+ specification of SentinelOps

This directory holds a verification development for SentinelOps: TLA+ modules
translated from the source, TLC configurations that model-check them on small
instances, and theorems checked by TLAPS for every value of the constants.
Paths such as `ingestor.rs:63` are relative to `src/src/` of the repository.

## 1. The system

SentinelOps takes security events, detects brute-force logins and port scans,
and stores events and alerts in PostgreSQL. A second path, still being built,
forwards events from agents through a gRPC Control Plane to Kafka. Each path
ends in a composition: `IngestApi` for the first, `Pipeline` for the second.

| Component | State | Operations | Hard behaviour |
|---|---|---|---|
| **Ingest handler** (`api.rs`, `db.rs`, `errors.rs`, `middleware/auth.rs`) | none of its own; one future per request | authenticate, validate, evaluate, `save_alert`, `submit`, answer | handlers interleave, are dropped at an await, die with the process; the database fails before or after it has applied a statement |
| **Detection engine** (`detection.rs`) | two concurrent maps: count or port set, window start, last alert | `evaluate`; a cleanup task every half hour | the clock is read before the entry is locked; cleanup races with calls; boundaries of windows; integer casts |
| **Asynchronous ingestor** (`ingestor.rs`) | bounded channel, batch, open transaction | `submit`; worker: receive, tick, `flush`, close | back-pressure, batches lost or rolled back as a whole, worker panic, shutdown that does not wait |
| **Database** (`migrations/`) | `events`, `ml_features_log`, `alerts` | constraints only | UNIQUE fingerprint, column widths, foreign key |
| **Configuration** (both `config.rs`) | constants of the process | read the environment, default, refuse | three treatments of a value that does not parse; values it lets through (a flush period of zero, a batch that no Vec can hold, a window longer than the state lives) |
| **Process** (`main.rs`) | who holds the channel's senders | pool, migrations, worker, bind; stop, return of `main` | any step of the start fails; nothing joins the worker |
| **Agent** (`sentinelops-agent/src`) | collector channel, batch, stream channel, backoff | collect, connect, stream, flush, reconnect | closed streams, buffered events, backoff |
| **Control Plane** (`sentinelops-control`) | counters of a streaming session; the producer's buffer | authenticate, unary and streaming ingestion, publish to Kafka | publishing fails after the answer; calls outlive their clients; restart |

Handlers call the detection engine and `save_alert` directly and hand events to
the ingestor through the channel. The ingestor's worker, the cleanup task and
the handlers run concurrently and meet in the channel, the maps and the
database. The agent and the Control Plane meet in a gRPC stream, and each
learns of its end on its own. They do not talk to the HTTP server today: what
they publish to `events.raw` has the server's event format, but nothing in the
repository consumes it.

What makes each component correct:

* *ingestor*: an accepted event is written once, with its feature row, or lost
  in a way that can be named; a bad event does not reach beyond its batch;
  memory is bounded; nobody waits for ever;
* *detection*: an alert's count is true; two alerts of one key are a cooldown
  apart; an attack is not missed for an unlucky interleaving; memory is freed;
* *handler*: the answer tells what became of the event; no alarm is swallowed;
* *agent*: events keep their order, a stream that ends takes a bounded number of
  them with it, refused connections back off (that an event is lost is only
  logged, and nothing promises more);
* *control plane*: an event is published under the name of the agent that sent
  it, once, in the order of its call; a call's answer adds up;
* *agent to topic*: an event reaches the topic at most once, and does not stay
  on its way for ever;
* *start*: a server that serves and an agent that streams have what `Ingestor`,
  `Detection` and `AgentClient` assume of the configuration; what the code lets
  through (a worker that has panicked, a window longer than the state lives)
  those modules have to live with, and do.

## 2. Modules

| Module | Models | State and actions |
|---|---|---|
| `EventSink` | what the ingestion path promises | `pending`, `stored`, `lost`; accept at the back, store or lose a group from the front, collapse with the process |
| `Ingestor` | `ingestor.rs`, shutdown in `main.rs` | one action per stretch of code between two awaits (below) |
| `IngestorProofs`, `IngestorSinkProofs` | | theorems about `Ingestor`; that it implements `EventSink` |
| `Detection` | `detection.rs` | a call is two actions, reading the clock and updating the entry; cleanup is one action per counted map and per entry |
| `DetectionProofs` | | theorems about `Detection` |
| `IngestApi` | `api.rs`, `save_alert`, the `alerts` table | the handler, over `EventSink` and a detector known only by its cooldown |
| `IngestApiProofs` | | theorems about `IngestApi` |
| `AgentClient` | the agent: `collector.rs`, `client.rs` | collector, ingest loop and stream as three processes over two bounded channels |
| `AgentClientProofs` | | theorems about `AgentClient` |
| `ControlPlane` | `sentinelops-control`: interceptor, gRPC service, publisher, and the Kafka producer | calls, each with its certificate and counters; one buffer and one partition per agent |
| `ControlPlaneProofs` | | theorems about `ControlPlane` |
| `AtMostOnce` | what the way from an agent to the topic promises | events made, a log, events given up |
| `Pipeline` | one agent, the Control Plane and the topic, beside another client | joint actions of `AgentClient` and `ControlPlane` |
| `PipelineProofs` | | theorems about `Pipeline`, from those about its two parts |
| `Startup` | both `config.rs`, both `main` functions, `db.rs`, `auth.rs:73` | reading the environment, then one action per step of `main`; kill and start again |
| `StartupProofs` | | theorems about `Startup` |
| `MCIngestor`, `MCDetection`, `MCIngestApi`, `MCAgentClient`, `MCPipeline`, `MCStartup` | | instances for TLC |

`IngestApi` composes the components. It does not contain their detail: it
`INSTANCE`s `EventSink`, which `Ingestor` is proved to implement
(`ImplementsSink`), and lets the detector raise an alarm whenever the cooldown
allows one, which `CooldownHolds` shows of `Detection`. `Pipeline` composes the
two detailed modules themselves, and is proved to implement `AtMostOnce`.

### Ingestor

`Submit`, `Enqueue`, `Refuse` and `Abandon` are `AsyncIngestor::submit` as a
handler sees it: it waits for a slot, gets one, finds the receiver gone, or is
dropped while it waits. `Start` makes the batch and the timer, and panics if it
cannot (`CannotStart`: a capacity above `MaxCapacity`, a zero period). A capacity
below that which the allocator refuses ends the process, which is a `Crash`.
`Recv`, `RecvClosed` and `Tick` are the branches of `select!`. `Begin` to
`CommitFails` are `flush`, statement by statement; `Return` is what all its
exits share. `StopServer`, `DropSenders`, `MainReturns`, `Crash` and `Restart`
are the life of the process. `batch` is the Vec the worker holds, `drained` the
one `flush` makes of it. `enqueued` and `fate` are history.

Abstractions: an event is an id and whether PostgreSQL can hold it (`Poison`:
validation admits an `event_type` of 100 characters, the column 64). A handler
that waits for a slot gets any free one; tokio serves waiters in order, which
no property needs. Feature extraction is pure and left out.

### Detection

`StartBruteforce` and `StartPortscan` compute the key and read the clock,
`UpdateBruteforce` and `UpdatePortscan` lock the entry, update it and decide.
Between the two the clock may advance (up to `MaxStall`) and other calls may
update the entry. `Wake`, `CountEntries`, `Retain` and `CountRemoved` are the
cleanup task. `bfHits` and `psHits` are history: every update with its reading
and whether it alerted.

Abstractions: time is whole ticks and never steps back (a stale reading is
what `MaxStall` is for). `len` of a map is one step, although DashMap adds up
its shards; `retain` visits one entry per step. The powers of two of the casts are constants,
because TLC's integers have 32 bits; `u32` overflow of the count would need
four billion hits within one window and is not modelled. Thresholds and windows
are any integers, as `config.rs` lets them through: a window that no `Duration`
holds panics before the entry is touched (`Holds`). `DetectionAssumption` asks of
the times only that two hours be longer than either cooldown, which are
constants of the source, and a stall.

### IngestApi

`Unauthorized`, `Invalid`, `Quiet` and `Alarm` take a request to its first
await. `SaveAlert`, `SaveConflicts` and `SaveFails` are the INSERT's outcomes,
`Submit` and `SubmitRefused` those of `submit`, `Drop` the end of the client.
A handler's state is where it is or the answer it gave; the two reasons for
500 are kept apart. `WorkerDies` is the panic that `CannotStart` describes: the
worker has a batch size and a period for which it survives (`WorkerSurvives`) or
not. A handler may be cut short before its first await too, because `evaluate`
panics at a window that no `Duration` holds. `Restart` ends the process and
starts it again; what the detector knew is gone, the tables are not.

### AgentClient

Paths here are relative to `sentinelops-agent/src/`. `Collect` and
`CollectorSend` are the collector's tick and its `send`; `CollectorEnds` drops
its sender. Today's collector never ends by itself, so the branch at
`client.rs:139` (and with it the last flush) waits for one that replaces it, as
`collector.rs:10-12` foresees. The collector's own break (`collector.rs:30-33`)
cannot happen before that return and is not modelled. `Connect`,
`ConnectFails` and `Wake` are the outer loop. `Recv`, `RecvNone`, `Tick` and
`IdleTick` are the branches of `select!`; the test of `is_closed` that follows
each is part of the action (`CheckClosed`), because nothing is awaited in
between. `FlushSend` is one `send` of `flush_batch`, the last one together with
that test or the return; `FlushFails` is the `send` that finds the stream gone.
`StreamTake`, `Deliver`, `Vanish` and `StreamEnds` are the stream's task, the
connection and the server: streams are numbered, and what an old connection
carries may arrive while the next stream is in use, or never. `Pipeline` puts
the real server in the place of `Deliver`.

Abstractions: events are numbers in the order they are made; sleeps are not
timed, only their length is recorded; the process's kill, after which nothing
of the agent is left, is not an action. The bound `Window` stands for what
HTTP/2 takes ahead of the server.

### ControlPlane

Paths here are relative to `sentinelops-control/src/main/java/com/sentinelops/`.
`Unauthenticated` and `Intercept` are `AgentIdentityInterceptor`; `OnNext`,
`OnNextThrows`, `OnCompleted` and `OnError` the observer that `streamEvents`
returns; `SendEventRejects` and `SendEventPublishes` the unary method, each
with its answer. `Publish` is `KafkaEventPublisher.publish` when it returns
(the envelope is with the producer, or could not be serialised, which is only
logged), `SendThrows` when `send()` throws out of it: nothing catches that, so
gRPC ends the call. `Ack` and `PublishFails` are the two ends of the future
that `whenComplete` waits for; `Restart` is the end of the process and its
start. `handled` is history: what each call was given.

Abstractions: an event is its id and the `agent_id` it claims; a name is who is
meant and whether it is in lower case already, so that both calls of
`toLowerCase` do something. The envelope's other fields, and how the payload
is parsed, are left out. The CN is what `extractCN` returns: that it splits the
DN at every comma, a quoted one too, is not looked at. Kafka is external and
modelled from `application.yml`:
`acks: all` and three retries make the producer idempotent (the client's
default with them), so a partition takes its records in order and once. One
buffer and one partition per agent, because the key is the certified name; the
producer's memory is a number of records per agent, and a full one makes
`send()` wait (`HasRoom`) or throw. A record whose retries are used up may be
in the topic all the same, when only its confirmation was lost.

### Pipeline

Stream `k` of the agent is call `k` of the Control Plane. `Accept` is the
arrival of a stream, `Receive` joins `AgentClient`'s `Deliver` with `OnNext`,
`HalfClose` is the agent's orderly end. `StreamEnds` and `Hangup` are the same
event noticed by the two sides, at any distance from each other: a call may go
on publishing what its stream carried while the agent's next stream is open, so
the topic may mix the two. No cross-stream order is promised, and none is
claimed. `Foreign` is another client, with a certificate of its own or one
without a CN, that claims to be anybody.

The agent puts `AGENT_ID` in lower case (`sentinelops-agent/src/config.rs`),
the Control Plane the CN; the certificates come from a script. The initial
states give the agent a certificate with its own name in mixed case, or that of
another agent; in the second case each of its events is refused, and every
property still has to hold.

Bounds: the last stream of the bound stays up unless the agent ends it
(`MayBreak`), or the liveness properties would be refuted by running out of
streams; while the other client calls, the agent makes at most `MaxBeside`
events.

### AtMostOnce

What a consumer of the topic may rely on: an event that was made is in the log
at most once, stays where it is, and never turns up after it was given up.
The refinement maps `log` to the agent's partition and `lost` to what the agent
dropped, the service refused and the producer failed or forgot, less what is in
the topic.

### Startup

`Read` is `from_env`, one variable per step, in the source's order. A variable
is absent, does not parse, or has one of a few values with a zero, a negative
number, a large one and one that is no port. Some parsers end `main`
(`Strict`), others fall back to the default (`ok().and_then(...)`), and
`BATCH_SIZE`, `DB_MIN_CONNECTIONS` and `API_KEYS` are tested further
(`Refused`). `PoolConnects` to `Bind` are the lines of the server's `main`;
`WorkerStarts` is the first poll of the ingestor's worker, which happens only
once `run()` awaits; `Dial` is the agent's first connection, after which it
makes its timer and batch. A zero period or an impossible capacity panics:
in the server only the worker is lost, in the agent the program. `Kill` and
`StartAgain` leave the database as it is, in the middle of the migrations too.

Abstractions: variables that name hosts, addresses or files are left out (any
string will do, and their use fails like a connection). `MaxCapacity` stands
both for the most slots a channel may have and for the largest vector.

## 3. Runs

| Run | Instance | Shows |
|---|---|---|
| `ingestor` | 4 events, one bad; channel 2; batch 2; timer 0 or not | type, `RowsMatch`, `HeldOnce`, `BlastRadius`, `BoundedMemory`, `SettledForever`, refinement of `EventSink`; every accepted event is settled, `submit` returns, the worker ends |
| `bruteforce` | 1 key, 2 calls, threshold 2, window 2 (of which the TTL leaves 1), cooldown 1, TTL 3, 5 hits, 5 ticks | count, cooldown, burst detection, monotone times, and (release build) expired state goes |
| `portscan` | 1 source, 2 calls, ports 1 to 4 in 2-bit words, up to 4 hits, 3 ticks | ports, cooldown, scan detection |
| `agent` | 5 events, queue 1, batch 2, stream channel 1, window 1, 3 streams, 4 refusals in a row, longest sleep 3 | order, bounded loss, backoff, and that every event settles and a broken stream is replaced |
| `api` | 3 requests, 1 address, 2 actors, hour of 3 ticks; a batch size that can be allocated or not, timer 0 or not | `AnswerIsHonest`, `AlarmIsRecorded`, `AlertHasItsEvent` |
| `pipeline` | 3 events of the agent and one of another client; 2 streams; every buffer 1 or 2 | `CertifiedOnly`, `SummaryAddsUp`, `InSessionOrder`, refinement of `AtMostOnce` and of `ControlPlane`, and that no event stays on its way |
| `startup` | any 2 optional variables set, to -1, 0, 30, 70000 or something that does not parse; required ones in any way; 4 migrations, 2 starts | what `Ingestor`, `Detection` and `AgentClient` assume of the configuration, no entry without a key, the schema is complete, a start ends |

Why the bounds are enough: four events against a channel of two and batches of
two give a full channel with a handler waiting, a full batch, a partial one,
and a bad event first, last and alone in a flush; more events repeat these
(an instance of five events, without the liveness properties, gave the same).
Two concurrent calls are what it takes to update one entry in the wrong order.
Five hits and a TTL of three let an entry fill, alert, expire, be deleted and
fill again within the run, and a burst of `Enough(2) = 3` hits straddle a
window's end and a deletion; `Enough` is tight, one hit less fails. The run's window is longer than what the
TTL leaves of it, so that bursts are those within `Span`; if a burst could
spread over the whole window, the run would be violated, because an entry that has raised no alert goes two hours after its
window opened, and earlier hits with it. A scan needs one hit more,
`EnoughPorts(2) = 4`: its alert, too, comes with `PORT_SCAN_MAX_PORTS` ports
(`>=`, `detection.rs:150`), but the hit before the burst may have been on a port
that the burst comes to later and that then counts once. Four hits on four ports that differ in
their low bits reach the alert and the cooldown; no window's end and no
deletion falls into the middle of a scan of that length. An instance with the
hits for either has too many states to be checked in minutes, so both are left to
the theorem. `ExpiredStateIsRemoved` is checked
where only brute-force state arises: the code is the same for both maps. Hours of three
ticks and a cooldown of one let two alarms of one source fall into one hour.

In `agent` one stream can take four events with it, and five events and two
ends of streams leave room to see that it takes no fifth; a sleep that is
capped at three, not at a power of two, shows the cap as the source's sixty
does. The last stream of the bound does not end, except when the loop returns.

In `pipeline` three events are one more than a batch and one more than the
producer holds, and may be spread over both streams, the first with a message
still under way. Two starts are what it takes to find the tables of an earlier
one; two variables at a time cover every pair that the source compares. `startup` also has the
combinations nobody wants: a key list of commas only, a pool of no connections,
a channel with no slot.

Five runs expect a violation: each states what a comment, a message or a
script says, and TLC shows a behaviour of the code that differs.

| Run | Claim | What the code does |
|---|---|---|
| `shutdown_drops` | `ingestor.rs:32-33`: the remaining buffer is flushed at shutdown | `main` returns without waiting for the worker |
| `cleanup_debug` | `detection.rs:29-30`: the task removes inactive entries | `before - len()` underflows when entries were added; a debug build panics and the task is gone |
| `api_duplicate` | `simulate_attack.sh:169-187`: valid events are answered 202 | the second alarm of a source in an hour violates the UNIQUE fingerprint: 500, and the event is not stored |
| `publish_retry` | `KafkaEventPublisher.java:24-25`: a failed publish need not be propagated, the agent will retry it | the failure is only logged, the agent has forgotten the event once its stream took it, and nothing tells it otherwise |
| `agent_backoff` | `client.rs:92`: exponential backoff on any failure | `open_stream` cannot fail, so the backoff is reset before the server has seen the stream; a server that ends every stream is retried every second |

### Fairness

Liveness uses weak fairness only, and none for clients, failures or the
process's end. In `Ingestor`: the worker's branches (`select!` picks at random
among ready ones, so a branch that stays ready is taken), the next step of
`flush` whatever its outcome (a database call returns with an answer or an
error), and a waiting handler's `Enqueue` or `Refuse` (tokio hands out slots in
order). In `Detection`: the interval fires and the cleanup task is polled. In
`AgentClient`: an attempt to connect ends, a sleep ends, `select!` takes both
branches, a `send` with room returns, and a message under way arrives or is
lost with its stream. The last is an assumption about the network: the channel
is built without a keep-alive, and a connection that neither moves nor breaks
would hold a flush for ever. `Pipeline` takes the agent's fairness over where a
step is the agent's alone. Beyond it: a stream that was opened and a message that
has come are served (a virtual thread per call), the producer succeeds or gives
up (its delivery timeout is finite), and an agent whose call has ended is told
so. None is assumed of half-closing, of the other client, of breaks and of
restarts. In `Startup`: `main` goes on, whatever the outcome of a step; the
pool gives up after its five seconds. Nothing is assumed of the network, of
kills and of starting again.

### Mutants

Where a property could be broken by a small slip, the wrong variant stands
directly above the definition it would replace (`FullOneLate` above
`BatchIsFull`, `CountKept` above `CountBefore`). No specification uses these
variants; putting one in place of the right definition makes TLC report the
property it is meant for.

## 4. Proofs

TLAPS checks every obligation of the eight proof modules. Each fact holds for
any number of events, keys and calls and any configuration that satisfies the
module's named assumption. Every invariant and action property of a passing run
is stated by a theorem, and so is every refinement.

* **Ingestor.** `TypeCorrect`; `RowsAlwaysMatch`; `EventsHeldOnce`;
  `SettledStays`; `MemoryIsBounded`. None of the properties is inductive
  alone. `VectorInv` ties the vectors to the worker's place (nothing is drained
  outside a flush, the batch is empty inside one). `TxnInv` says what the open
  transaction holds at each step: the rows of the events before the cursor, and
  one events row more while the feature row is missing; with it a commit keeps
  the tables equal. `HeldInv` is the partition of the submitted events over
  senders, channel, batch and drained vector, and that fates agree with it;
  its steps rest on lemmas about `Append`, `Tail` and concatenation of
  injective sequences. `RoomInv` bounds each vector by the worker's place.
* **Ingestor and EventSink.** `IngestorIsASink`: with `pending` as what is in
  flight, `stored` as the events with a row, and `lost` as the settled events
  without one, a step adds an event at the back, takes a group from the front
  and settles it, or changes neither (`StepsOfTheSink`). It needs `RowInv`, which
  adds that the open transaction's rows are those of the drained vector, and
  `CommittedInv`, that an event with a row is settled. So `IngestApi`, which is
  built over `EventSink`, may rely on the ingestor for all configurations.
  `BlastIsContained`: what is in flight is always the end of the order in which
  the channel took events (`SuffixInv`), no event is taken twice (`OnceInv`), and
  the events of a failed flush are neighbours in that order.
* **Detection, truth.** `TypeCorrect`, and `CountsAreTruthful` for windows that are
  not negative: the invariant is that the last `count` hits are one window, and
  an update either extends it by a hit whose reading passes the window test or
  begins a new one; the cleanup only deletes entries. `PortsStayTruthful` carries
  the set of ports along with that window. `CooldownsHold`: every alert is either
  no later than the last one its entry remembers, or at least the TTL old
  (`CooldownInv`), so that an absent entry hides no alert that a call could still
  be close to; calls hold readings at most `MaxStall` old (`ReadingInv`), and the
  named assumption has the TTL exceed each cooldown by that much.
  `EntriesMoveForward`: an update that keeps the window keeps its start, and one
  that opens a new window has a later reading.
* **Detection, completeness.** `BurstsAreNoticed` and `ScansAreNoticed`. The
  invariant follows every burst that is still going on and of which nothing has
  come (`Unnoticed`). While the entry lives (`BurstTracked`, `ScanTracked`), its
  window was opened by a hit that lies few hits behind the burst's first one, or
  few after it (`Behind`): hits are forgotten when a window rolls over, which happens
  to a burst at most once, and by a deletion, which happens at most once as
  well. When the entry is gone, either few hits went with it, or the clock has
  moved so far that the burst is over (`Forgotten`). "Few" is one less than an
  alert needs, which is where the factor of three in `Enough` and `EnoughPorts`
  comes from. For scans, few hits is few ports, because those of a burst differ
  in 16 bits. Nothing is assumed of the window: a burst lies within `Span`, which
  is the window as long as it ends a stall before the TTL, and the TTL less a
  stall and one second otherwise, so that no two deletions fall into it.
* **IngestApi.** `TypeCorrect`, where the fingerprint's hour rests on the
  division being monotone. `AlarmsAreRecorded`: a handler leaves `saving` towards
  `submitting` only with its fingerprint in the table, and rows are never
  deleted. `AnswersAreHonest`: the accepted events change only in `Submit`,
  together with the answer; that storing, losing and collapsing keep the set of
  accepted events is a lemma about cutting a sequence in two. It needs that
  the channel is open as long as the worker survives (`WorkerSurvives`).
  `AlertsHaveEvents`: whoever stands behind an alert goes on to do so
  (`BehindStays`), and a new alert is one whose handler goes on to submit
  or is cut short with it.
* **AgentClient.** `TypeCorrect`, with `PlaceInv` (a batch is not full at
  `select!`, not empty in a flush). `EventsStayInOrder`: what the agent holds,
  read from the stream's channel to the collector's hand, is one sequence, and
  all the loop does to it is nothing or dropping a part (`Thins`); only
  `StreamTake` moves its head to the end of what the stream carries, and only
  `Collect` puts a new number behind it. The invariant adds that no number is
  above the last one made and that streams not yet opened are empty. The lemmas
  below say what concatenation does to order.
  `LossesAreBounded`: `Gone` counts what is lost and also what will be, because it
  is under way in a stream that has ended; `Debt` is the batch of a loop that has
  not noticed the end of its stream and may still drop it. `GoneBound` pays for
  both with the streams that have ended, and each step changes the two sides by
  the same amount at most (`LostInPieces`, `NothingComesBack`).
  `BackoffGrows`: the next sleep is at least `2^n` for `n` refusals in a row, or
  the cap. Its one hypothesis, `PowersDouble`, is what `2^n` means for a natural
  `n`; the provers know no exponents.
* **ControlPlane.** `TypeCorrect`; `EventsAreCertified`; `CallsStayInOrder`;
  `SummariesAddUp`. The
  invariant adds `NameInv` (an open call has a certificate, and its context that
  certificate's name in lower case), so that the service's comparison is the
  same as belonging to the certificate's holder, and that everything published
  was in some call (`CertInv`), so that a fresh event cannot have been published
  before. `Gains(key, S)` is what a step of the publisher or the producer may do
  to the partitions: nothing, or add the events of `S` to one; a restart cuts each
  buffer in two. For the order, a partition after a step is the one before with
  at most one new event at its end, or a part of it (`Thinned`: a strictly
  increasing map of positions). `TallyInv` gives the counters in every state of a
  call; a call that broke while it published has handled one event that it has
  not counted. For `Pipeline`, `Onward` says that the topic and what failed
  or was forgotten only grow, and `SpentInv` that nothing of the latter is in a
  buffer.
* **Pipeline.** Its agent is an instance of `AgentClient`, and
  `AgentClientProofs` is instantiated for it (`AP`): every step of the composition
  is one of the agent's or leaves the agent alone. `LinkInv` ties the two
  sides: call `k` has handled exactly the events that stream `k` has delivered.
  With the agent's order, the next event of a stream is therefore new to every
  call (`NextIsNew`), which is what `ControlPlane` assumes of its clients; hence
  `ComposedAsSpecified`: the composition takes only steps of `ControlPlane`, so all
  that is proved of it holds there. `WholeWayIsAtMostOnce` is the refinement of
  `AtMostOnce`: `LogInv` says that what is in the topic or given up was made, and
  `StepOfLog` that a step makes an event, or adds to the log and to what is
  given up without touching what is there. `PartsKeepTheirPromises` collects
  the invariants of both parts for the composition.
* **Startup.** `ServesAsAssumed`, `KeysAreNeeded`, `LimitsAreAsWritten` and
  `SchemaStaysComplete`, for any set of numbers that a variable may hold and any
  number of migrations. The first states the part of the assumptions of `Ingestor`,
  `Detection` and `AgentClient` that is about the configuration; the rest of them
  is about constants of the source and bounds. `LimitsAreAsWritten`, that a
  strict variable (`Strict`) is never defaulted when it does not parse, is
  proved only. `EnvInv`: what has been read is a beginning of the
  program's list, each value is what the source makes of the setting, and none
  was refused; it needs that no variable is read twice. `PlaceInv` collects what each
  step of `main` leaves to the next ones. The assumption has it that a text that
  does not parse is not the same as a variable that is not set.

What stays with TLC is what needs fairness, or is refuted: the liveness
properties `EveryEventSettles`, `SubmitReturns`, `WorkerEnds`,
`ExpiredStateIsRemoved`, `EventuallySettled`, `BrokenStreamIsReplaced`,
`EveryEventReachesAnEnd` and `StartComesToAnEnd`, which TLAPS cannot prove because
it has no rule for `ENABLED`, and the five runs that expect a violation. The
bounds of the runs limit only these.

## 5. Not modelled

* `ml_features.rs` computes numbers from one event, without state: there is
  nothing for a model checker to interleave, and the ingestor stores whatever it
  returns.
* The list endpoints (`api.rs`) read, and change nothing.
* Variables that name hosts, addresses and files; logging; the wording of
  answers.
* Certificates, containers, scripts and the generated protocol code. What the
  scripts and `.proto` files promise is used where a property quotes it.
* The event's content, beyond what a guard or a constraint looks at.

Observations without a run of their own:

* `detection.rs:10` says that state goes after a period *without activity*, but
  the test at `detection.rs:42` looks at the last alert or the start of the
  window, whatever came after it. An entry may thus be removed while hits still
  come. `BurstIsNoticed` and `ScanIsNoticed` hold all the same for what the two
  hours leave of a window (`Span`): the whole of it, unless it is configured to
  two hours (less a stall) or more, which `config.rs` does not refuse.
* `docs/superpowers/specs/2026-03-16-sentinelops-dual-stack-design.md:344-345` says
  of an identity that does not match: "stream rejected with `PERMISSION_DENIED`".
  The code logs and counts the event as rejected and goes on with the stream
  (`IngestionServiceImpl.java:79-84`), as line 425 of the same document has it.
  `SummaryAddsUp` and `CertifiedOnly` are about what the code does.
* Line 427 of that document says of a restart of the Control Plane: "no state
  lost". What is in the producer's buffer is, after it was counted as accepted;
  `Restart` of `ControlPlane` puts it into `forgotten`.
* `KafkaEventPublisher.java:24` says that failures of publishing are not
  propagated. `kafkaTemplate.send` (line 56) may itself throw, and nothing
  catches that: the call ends (`SendThrows`), as `EveryEventReachesAnEnd` and
  `SummaryAddsUp` take into account.

## 6. Plan

In this order, the most important behaviour first:

1. done: `EventSink`, `Ingestor` and its proofs;
2. done: `Detection`, type correctness and truthful counts proved;
3. done: `IngestApi` over the abstract sink, type correctness and its three
   invariants proved;
4. done: `AgentClient`, type correctness and order proved;
5. done: `ControlPlane`, type correctness, certified names and order proved;
6. done: `Pipeline` over both, shown to implement `AtMostOnce`;
7. done: `Startup`;
8. dropped: feature extraction, for the reason above;
9. done: the ingestor implements `EventSink`, `BlastRadius`, `CooldownHolds`,
   `PortsAreTruthful` and `EntryMovesForward` proved;
10. done: `BurstIsNoticed`, `ScanIsNoticed`, `LossIsBounded`,
   `ConnectBackoffGrows`, `SummaryAddsUp`, the safety properties of `Startup`, and both
   refinements of `Pipeline` proved;
11. left: no safety property. Some lemmas about sequences stand in more than one
   of the proof modules, since no two of these extend each other; the proofs
   would be shorter with one copy.
