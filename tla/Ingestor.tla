------------------------------ MODULE Ingestor ------------------------------
(***************************************************************************)
(* AsyncIngestor (src/src/ingestor.rs) and the process around it: request  *)
(* handlers that submit events into a bounded tokio channel, the one       *)
(* background worker that batches them and writes each batch in one        *)
(* PostgreSQL transaction, and the ways the process ends (main.rs).        *)
(*                                                                         *)
(* An action is a stretch of code between two awaits.  What an event says  *)
(* is left out; it matters only whether the events table can hold it       *)
(* (Poison: the API admits event_type up to 100 characters, the column is  *)
(* VARCHAR(64)).                                                           *)
(*                                                                         *)
(* A definition directly above another, of the same shape and with a name  *)
(* that says what is wrong with it (FullOneLate, CloneBatch...), is a      *)
(* plausible bug: PROJECT.json puts it in the place of the right one to    *)
(* show that a property notices.                                           *)
(***************************************************************************)
EXTENDS Naturals, Sequences, Functions

CONSTANTS
  Events,         \* event ids (fresh UUIDs, so each is submitted once)
  Poison,         \* the events whose INSERT violates a column constraint
  QueueCapacity,  \* INGESTOR_QUEUE_CAPACITY
  BatchSize,      \* INGESTOR_BATCH_SIZE; 0 is accepted and acts as 1
  MaxCapacity,    \* Vec::with_capacity panics above it
  FlushPeriods    \* the values of INGESTOR_FLUSH_MS considered

ASSUME IngestorAssumption ==
  /\ Poison \subseteq Events
  /\ QueueCapacity \in Nat \ {0}    \* mpsc::channel(0) panics in main
  /\ BatchSize \in Nat
  /\ MaxCapacity \in Nat
  /\ FlushPeriods \subseteq Nat

VARIABLES
  flushMs,      \* the configured timer period
  phase,        \* of the process: serving, stopping, closed or down
  sending,      \* events inside AsyncIngestor::submit
  queue,        \* the mpsc channel
  pc,           \* where the worker is
  batch,        \* the worker's Vec of events not yet being flushed
  drained,      \* the Vec that flush works on, once the batch is drained
  next,         \* index in drained of the event being inserted
  closing,      \* the worker has seen the channel closed
  txnEvents,    \* rows of the open transaction: events ...
  txnFeatures,  \* ... and ml_features_log
  events,       \* committed rows: events ...
  features,     \* ... and ml_features_log
  enqueued,     \* history: every event the channel took, in order
  fate          \* history: what became of each event, as the code sees it

process == <<flushMs, phase>>
worker  == <<pc, batch, drained, next, closing>>
txn     == <<txnEvents, txnFeatures>>
tables  == <<events, features>>
vars    == <<process, sending, queue, worker, txn, tables, enqueued, fate>>

Phases == {"serving", "stopping", "closed", "down"}

WorkerStates == {"start", "select", "begin", "insert_event",
                 "insert_features", "commit", "stopped", "panicked"}

\* "poison" and "outage": dropped by flush with an error in the log.
\* "vanished": dropped with the memory it was in.  "refused": submit found
\* the channel closed.  "abandoned": submit never returned.
Fates == {"new", "submitted", "stored", "poison", "outage",
          "vanished", "refused", "abandoned"}

\* The most events a flush covers.
EffectiveBatch == IF BatchSize = 0 THEN 1 ELSE BatchSize

\* The fates of the events in S are set to f.
Mark(S, f) == [e \in Events |-> IF e \in S THEN f ELSE fate[e]]

-----------------------------------------------------------------------------
\* The state of a process that has just started, and of an empty database.

FreshWorker == /\ queue = <<>>
               /\ pc = "start"
               /\ batch = <<>>
               /\ drained = <<>>
               /\ next = 1
               /\ closing = FALSE

Init == /\ flushMs \in FlushPeriods
        /\ phase = "serving"
        /\ sending = {}
        /\ FreshWorker
        /\ txnEvents = {} /\ txnFeatures = {}
        /\ events = {} /\ features = {}
        /\ enqueued = <<>>
        /\ fate = [e \in Events |-> "new"]

-----------------------------------------------------------------------------
(* AsyncIngestor::submit, called by the request handlers.                  *)

\* The receiver lives in the worker task: it is there until the task ends.
OpenAfterPanic == pc # "stopped"
ChannelOpen == pc \notin {"stopped", "panicked"}

OneTooMany == Len(queue) <= QueueCapacity
HasSlot == Len(queue) < QueueCapacity

\* A handler calls submit and awaits a slot in the channel.
Submit(e) ==
  /\ phase = "serving"
  /\ fate[e] = "new"
  /\ sending' = sending \cup {e}
  /\ fate' = Mark({e}, "submitted")
  /\ UNCHANGED <<process, queue, worker, txn, tables, enqueued>>

\* There is a slot: the send completes and submit returns.
Enqueue(e) ==
  /\ phase # "down"
  /\ e \in sending
  /\ ChannelOpen
  /\ HasSlot
  /\ queue' = Append(queue, e)
  /\ enqueued' = Append(enqueued, e)
  /\ sending' = sending \ {e}
  /\ UNCHANGED <<process, worker, txn, tables, fate>>

\* The receiver is gone: the error is logged and submit returns all the same.
Refuse(e) ==
  /\ phase # "down"
  /\ e \in sending
  /\ ~ChannelOpen
  /\ sending' = sending \ {e}
  /\ fate' = Mark({e}, "refused")
  /\ UNCHANGED <<process, queue, worker, txn, tables, enqueued>>

-----------------------------------------------------------------------------
(* The worker task: the select loop.                                       *)

\* Vec::with_capacity panics on a capacity it cannot have, tokio's interval on
\* a zero period.
CannotStart == BatchSize > MaxCapacity \/ flushMs = 0

\* Make the batch and the timer.  If that panics the task dies, and the
\* receiver, with whatever is queued, is dropped with it.
Start ==
  /\ phase # "down"
  /\ pc = "start"
  /\ IF CannotStart
       THEN /\ pc' = "panicked"
            /\ queue' = <<>>
            /\ fate' = Mark(Range(queue), "vanished")
       ELSE /\ pc' = "select"
            /\ UNCHANGED <<queue, fate>>
  /\ UNCHANGED <<process, sending, batch, drained, next, closing, txn, tables,
                 enqueued>>

FullOneLate == Len(batch') > BatchSize
BatchIsFull == Len(batch') >= BatchSize

\* rx.recv() yields an event.
Recv ==
  /\ phase # "down"
  /\ pc = "select"
  /\ queue # <<>>
  /\ queue' = Tail(queue)
  /\ batch' = Append(batch, Head(queue))
  /\ pc' = IF BatchIsFull THEN "begin" ELSE "select"
  /\ UNCHANGED <<process, sending, drained, next, closing, txn, tables,
                 enqueued, fate>>

NeverBreaks == IF batch = <<>> THEN "select" ELSE "begin"
OnClosed == IF batch = <<>> THEN "stopped" ELSE "begin"

\* rx.recv() yields None: every sender is gone and the channel is empty.
RecvClosed ==
  /\ phase = "closed"
  /\ pc = "select"
  /\ queue = <<>>
  /\ closing' = TRUE
  /\ pc' = OnClosed
  /\ UNCHANGED <<process, sending, queue, batch, drained, next, txn, tables,
                 enqueued, fate>>

NoTick == FALSE

\* The timer fires.  It may fire whenever the worker waits; with an empty
\* batch nothing happens.
Tick ==
  /\ phase # "down"
  /\ pc = "select"
  /\ batch # <<>>
  /\ pc' = "begin"
  /\ UNCHANGED <<process, sending, queue, batch, drained, next, closing, txn,
                 tables, enqueued, fate>>

-----------------------------------------------------------------------------
(* AsyncIngestor::flush.                                                   *)

\* Where the worker goes when flush returns.
AfterFlush == IF closing THEN "stopped" ELSE "select"

KeepBatch == UNCHANGED batch
ClearBatch == batch' = <<>>

\* flush returns: the events in S get fate f, the transaction is over.
Return(S, f) ==
  /\ pc' = AfterFlush
  /\ ClearBatch
  /\ drained' = <<>>
  /\ next' = 1
  /\ txnEvents' = {}
  /\ txnFeatures' = {}
  /\ fate' = Mark(S, f)
  /\ UNCHANGED <<process, sending, queue, closing, enqueued>>

CloneBatch == drained' = batch /\ UNCHANGED batch
DrainBatch == drained' = batch /\ batch' = <<>>

\* pool.begin() succeeds and the batch is drained.
Begin ==
  /\ phase # "down"
  /\ pc = "begin"
  /\ DrainBatch
  /\ next' = 1
  /\ pc' = "insert_event"
  /\ UNCHANGED <<process, sending, queue, closing, txn, tables, enqueued, fate>>

\* No connection: the batch is cleared.
BeginFails ==
  /\ phase # "down"
  /\ pc = "begin"
  /\ Return(Range(batch), "outage")
  /\ UNCHANGED tables

\* The rows the tables' constraints reject.
EventRejected(e)   == e \in Poison \cup events \cup txnEvents
FeatureRejected(e) == \/ e \notin events \cup txnEvents
                      \/ e \in features \cup txnFeatures

InsertEvent ==
  /\ phase # "down"
  /\ pc = "insert_event"
  /\ ~EventRejected(drained[next])
  /\ txnEvents' = txnEvents \cup {drained[next]}
  /\ pc' = "insert_features"
  /\ UNCHANGED <<process, sending, queue, batch, drained, next, closing,
                 txnFeatures, tables, enqueued, fate>>

MoreRowsOffByOne == next <= Len(drained)
MoreRows == next < Len(drained)

InsertFeatures ==
  /\ phase # "down"
  /\ pc = "insert_features"
  /\ ~FeatureRejected(drained[next])
  /\ txnFeatures' = txnFeatures \cup {drained[next]}
  /\ IF MoreRows
       THEN next' = next + 1 /\ pc' = "insert_event"
       ELSE next' = next /\ pc' = "commit"
  /\ UNCHANGED <<process, sending, queue, batch, drained, closing, txnEvents,
                 tables, enqueued, fate>>

\* The transaction becomes visible, all of it at once.
ApplyTxn == /\ events' = events \cup txnEvents
            /\ features' = features \cup txnFeatures

PartialCommit == ApplyTxn
Rollback == UNCHANGED tables

\* A row is rejected, or the connection fails at either INSERT: the whole
\* transaction is rolled back (by the database, if ROLLBACK fails too).
InsertFails ==
  /\ phase # "down"
  /\ \/ /\ pc = "insert_event"
        /\ Return(Range(drained),
                  IF EventRejected(drained[next]) THEN "poison" ELSE "outage")
     \/ /\ pc = "insert_features"
        /\ Return(Range(drained),
                  IF FeatureRejected(drained[next]) THEN "poison" ELSE "outage")
  /\ Rollback

Commit ==
  /\ phase # "down"
  /\ pc = "commit"
  /\ Return(Range(drained), "stored")
  /\ ApplyTxn

\* commit() returns an error, which is logged as "data lost".  The connection
\* may have failed before the COMMIT was applied, or after.
CommitFails ==
  /\ phase # "down"
  /\ pc = "commit"
  /\ Return(Range(drained), "outage")
  /\ ApplyTxn \/ UNCHANGED tables

-----------------------------------------------------------------------------
(* The process: actix's HttpServer, main, and the runtime main drops.      *)

\* A signal stops the HTTP server: no new request is taken.
StopServer ==
  /\ phase = "serving"
  /\ phase' = "stopping"
  /\ UNCHANGED <<flushMs, sending, queue, worker, txn, tables, enqueued, fate>>

\* A handler is dropped while it awaits a slot: its client went away, or the
\* server's shutdown timeout ran out.
Abandon(e) ==
  /\ phase # "down"
  /\ e \in sending
  /\ sending' = sending \ {e}
  /\ fate' = Mark({e}, "abandoned")
  /\ UNCHANGED <<process, queue, worker, txn, tables, enqueued>>

\* The HTTP workers are gone, and with them every clone of the sender.
DropSenders ==
  /\ phase = "stopping"
  /\ sending = {}
  /\ phase' = "closed"
  /\ UNCHANGED <<flushMs, sending, queue, worker, txn, tables, enqueued, fate>>

\* The process ends and its memory goes.  PostgreSQL rolls an open
\* transaction back, unless its COMMIT had been sent and gets applied.
ProcessEnds(applied) ==
  /\ phase' = "down"
  /\ sending' = {}
  /\ queue' = <<>>
  /\ batch' = <<>>
  /\ drained' = <<>>
  /\ next' = 1
  /\ closing' = FALSE
  /\ pc' = "start"
  /\ txnEvents' = {}
  /\ txnFeatures' = {}
  /\ IF applied THEN ApplyTxn ELSE Rollback
  /\ fate' = [e \in Events |->
                CASE e \in sending -> "abandoned"
                  [] e \in Range(queue) \cup Range(batch) -> "vanished"
                  [] e \in Range(drained) ->
                       IF applied THEN "stored" ELSE "vanished"
                  [] OTHER -> fate[e]]
  /\ UNCHANGED <<flushMs, enqueued>>

AnyTimeApplied == BOOLEAN
\* Whether a COMMIT may have been sent when the process ends.
MayBeApplied == IF pc = "commit" THEN BOOLEAN ELSE {FALSE}

\* The server has stopped and main returns.  Nothing joins the worker: the
\* runtime drops its task at whatever await it has reached.
MainReturns ==
  /\ phase = "closed"
  /\ \E applied \in MayBeApplied : ProcessEnds(applied)

Crash ==
  /\ phase # "down"
  /\ \E applied \in MayBeApplied : ProcessEnds(applied)

\* main runs again; FreshWorker holds already.
Restart ==
  /\ phase = "down"
  /\ phase' = "serving"
  /\ UNCHANGED <<flushMs, sending, queue, worker, txn, tables, enqueued, fate>>

-----------------------------------------------------------------------------
FlushStep == \/ Begin \/ BeginFails
             \/ InsertEvent \/ InsertFeatures \/ InsertFails
             \/ Commit \/ CommitFails

WorkerStep == Start \/ Recv \/ RecvClosed \/ Tick \/ FlushStep

Handler(e) == Submit(e) \/ Enqueue(e) \/ Refuse(e) \/ Abandon(e)

Process == StopServer \/ DropSenders \/ MainReturns \/ Crash \/ Restart

Next == WorkerStep \/ Process \/ \E e \in Events : Handler(e)

Spec == Init /\ [][Next]_vars

\* The runtime keeps polling ready tasks; select! picks among ready branches
\* at random, so a branch that stays ready is taken; a database call returns,
\* with an answer or an error; a waiting sender gets a slot in its turn.
Fairness ==
  /\ WF_vars(Start)
  /\ WF_vars(Recv)
  /\ WF_vars(RecvClosed)
  /\ WF_vars(Tick)
  /\ WF_vars(FlushStep)
  /\ \A e \in Events : WF_vars(Enqueue(e)) /\ WF_vars(Refuse(e))

FairSpec == Spec /\ Fairness

-----------------------------------------------------------------------------
(* Properties.                                                             *)

\* The accepted events that are not settled, oldest first.
InFlight == drained \o batch \o queue

\* Every variable has its type, and flush's cursor stays inside its vector.
TypeOK ==
  /\ flushMs \in FlushPeriods
  /\ phase \in Phases
  /\ sending \subseteq Events
  /\ queue \in Seq(Events)
  /\ pc \in WorkerStates
  /\ batch \in Seq(Events)
  /\ drained \in Seq(Events)
  /\ next \in Nat \ {0}
  /\ pc \in {"insert_event", "insert_features"} => next \in 1..Len(drained)
  /\ closing \in BOOLEAN
  /\ txnEvents \subseteq Events
  /\ txnFeatures \subseteq Events
  /\ events \subseteq Events
  /\ features \subseteq Events
  /\ enqueued \in Seq(Events)
  /\ fate \in [Events -> Fates]

\* An events row and its ml_features_log row are there together or not at
\* all, whatever fails between the two INSERTs (flush's single transaction).
RowsMatch == events = features

\* No event vanishes on the way and none is held twice: an event that was
\* submitted and is not settled is in exactly one place, and nothing else is
\* in any place (the batch is drained before it is written, cleared when it
\* cannot be).
HeldOnce ==
  /\ \A e \in Events : fate[e] = "submitted" <=> e \in sending \cup Range(InFlight)
  /\ sending \cap Range(InFlight) = {}
  /\ IsInjective(InFlight)

\* What one bad event can take with it: only events that the channel took
\* less than one batch away from it (a flush covers BatchSize events).
BlastRadius ==
  \A i \in DOMAIN enqueued :
    fate[enqueued[i]] = "poison" =>
      \E j \in DOMAIN enqueued : /\ enqueued[j] \in Poison
                                 /\ i < j + EffectiveBatch
                                 /\ j < i + EffectiveBatch

\* Events held in memory, beside the handlers that wait: the channel and one
\* batch (back-pressure instead of growth when the database is slow).
BoundedMemory ==
  /\ Len(queue) <= QueueCapacity
  /\ Len(batch) + Len(drained) <= EffectiveBatch

\* Once an event is settled nothing changes what became of it, and a row that
\* is committed stays: no flush works on an event of an earlier flush.
SettledForever ==
  [][/\ \A e \in Events : fate[e] \notin {"new", "submitted"} => fate'[e] = fate[e]
     /\ events \subseteq events']_vars

\* The events that were accepted and have been lost.
Lost == {e \in Events : fate[e] \in {"poison", "outage", "vanished"}} \ events

\* The ingestor implements EventSink: accepted events leave in the order they
\* came, a batch at a time, each batch stored or lost as a whole.
Sink == INSTANCE EventSink WITH MaxGroup <- EffectiveBatch,
                                pending  <- InFlight,
                                stored   <- events,
                                lost     <- Lost
ImplementsSink == Sink!Spec

\* Every accepted event is settled: the timer flushes a batch that never fills.
EventuallySettled ==
  \A e \in Events : e \in Range(InFlight) ~> e \in events \cup Lost

\* A handler blocked by back-pressure gets out of submit, even if the worker
\* has panicked.
SubmitReturns == \A e \in Events : e \in sending ~> e \notin sending

\* When the channel closes the worker comes to its end.
WorkerEnds == phase = "closed" ~> pc \in {"stopped", "panicked"} \/ phase = "down"

\* The comment at ingestor.rs:32-33: when the senders are gone, at shutdown,
\* the worker flushes what is left before it exits.  So when main returns
\* nothing should be in flight.
GracefulShutdownFlushes == [][MainReturns => InFlight = <<>>]_vars
=============================================================================
