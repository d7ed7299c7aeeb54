---------------------------- MODULE AgentClient ----------------------------
(***************************************************************************)
(* The agent: a collector fills a bounded channel, and one task, the       *)
(* ingest loop, connects to the Control Plane, opens a stream and moves    *)
(* the events into it in batches.  The stream is a task of its own with a  *)
(* bounded channel in front of it; when it ends, the loop notices, sleeps  *)
(* and connects again.                                                     *)
(*                                                                         *)
(* Events are numbered in the order the collector makes them.  Streams are *)
(* numbered too: what an old connection still carries may reach the server *)
(* while the next one is in use, or never.                                 *)
(***************************************************************************)
EXTENDS Naturals, Sequences, SequencesExt, FiniteSets

CONSTANTS QueueCapacity,   \* AGENT_QUEUE_CAPACITY, the collector's channel
          BatchSize,       \* BATCH_SIZE
          StreamCapacity,  \* the stream's channel (1024 in the source)
          Window,          \* messages the connection takes ahead of the server
          MaxBackoff,      \* MAX_BACKOFF, in seconds
          MaxEvents,       \* bound: events the collector makes
          MaxStreams,      \* bound: streams opened; the last one does not break
          MaxRefusals      \* bound: connections refused in a row

\* config.rs refuses a batch size below 1, and a channel of capacity 0 panics
\* when main creates it.
ASSUME AgentAssumption ==
  /\ {QueueCapacity, BatchSize, StreamCapacity, Window, MaxBackoff} \subseteq Nat \ {0}
  /\ {MaxEvents, MaxStreams, MaxRefusals} \subseteq Nat

VARIABLES
  produced,   \* events made so far: 1, ..., produced
  collector,  \* "idle", "sending" the last event made, or "stopped"
  queue,      \* the collector's channel
  pc,         \* where the loop is
  batch,      \* its Vec of events
  backoff,    \* the next sleep
  wait,       \* the sleep in progress, or the last one
  refused,    \* connections refused since the last stream was opened
  streams,    \* streams opened so far; the last one is the loop's
  open,       \* the task of that stream lives: its channel is not closed
  channel,    \* that stream's channel
  wire,       \* per stream, messages under way to the server
  received    \* per stream, messages the server has got

loopVars   == <<pc, batch, backoff, wait, refused>>
streamVars == <<streams, open, channel, wire, received>>
vars == <<produced, collector, queue, loopVars, streamVars>>

LoopStates == {"connecting", "sleeping", "select", "flush", "lastflush", "done"}
Numbers == 1..MaxEvents
Streams == 1..MaxStreams

\* The vectors and channels never hold more than they were made for.
TypeOK ==
  /\ produced \in 0..MaxEvents
  /\ collector \in {"idle", "sending", "stopped"}
  /\ queue \in Seq(Numbers) /\ Len(queue) <= QueueCapacity
  /\ pc \in LoopStates
  /\ batch \in Seq(Numbers) /\ Len(batch) <= BatchSize
  /\ backoff \in 1..MaxBackoff
  /\ wait \in 0..MaxBackoff
  /\ refused \in 0..MaxRefusals
  /\ streams \in 0..MaxStreams
  /\ open \in BOOLEAN
  /\ channel \in Seq(Numbers) /\ Len(channel) <= StreamCapacity
  /\ wire \in [Streams -> Seq(Numbers)]
  /\ received \in [Streams -> Seq(Numbers)]

Init ==
  /\ produced = 0
  /\ collector = "idle"
  /\ queue = <<>>
  /\ pc = "connecting"
  /\ batch = <<>>
  /\ backoff = 1
  /\ wait = 0
  /\ refused = 0
  /\ streams = 0
  /\ open = FALSE
  /\ channel = <<>>
  /\ wire = [k \in Streams |-> <<>>]
  /\ received = [k \in Streams |-> <<>>]

-----------------------------------------------------------------------------
(* The collector. *)

\* A tick: an event is made.
Collect ==
  /\ collector = "idle"
  /\ produced < MaxEvents
  /\ produced' = produced + 1
  /\ collector' = "sending"
  /\ UNCHANGED <<queue, loopVars, streamVars>>

\* send().await returns once the channel has room.
CollectorSend ==
  /\ collector = "sending"
  /\ Len(queue) < QueueCapacity
  /\ queue' = Append(queue, produced)
  /\ collector' = "idle"
  /\ UNCHANGED <<produced, loopVars, streamVars>>

\* The collector drops its sender.  The simulated one never does; one that
\* replaces it may.
CollectorEnds ==
  /\ collector = "idle"
  /\ collector' = "stopped"
  /\ UNCHANGED <<produced, queue, loopVars, streamVars>>

-----------------------------------------------------------------------------
(* The ingest loop: connecting. *)

\* backoff = (backoff * 2).min(MAX_BACKOFF)
NotDoubled(b)  == b
NextBackoff(b) == IF 2 * b < MaxBackoff THEN 2 * b ELSE MaxBackoff

\* The loop sleeps, and will sleep longer next time.
SleepThenRetry ==
  /\ wait' = backoff
  /\ backoff' = NextBackoff(backoff)
  /\ pc' = "sleeping"

\* open_stream: a channel, and a task that forwards it.
NewStream ==
  /\ streams' = streams + 1
  /\ open' = TRUE
  /\ channel' = <<>>

\* connect() and open_stream() succeed.  Opening only spawns the task, so it
\* cannot fail, and backoff is reset before the server has seen the stream.
Connect ==
  /\ pc = "connecting"
  /\ streams < MaxStreams
  /\ NewStream
  /\ backoff' = 1
  /\ refused' = 0
  /\ batch' = <<>>
  /\ pc' = "select"
  /\ UNCHANGED <<produced, collector, queue, wait, wire, received>>

\* connect() returns an error: a certificate cannot be read, or the server
\* cannot be reached or does not accept the TLS handshake.
ConnectError == refused < MaxRefusals
ConnectFails ==
  /\ pc = "connecting"
  /\ ConnectError
  /\ refused' = refused + 1
  /\ SleepThenRetry
  /\ UNCHANGED <<produced, collector, queue, batch, streamVars>>

\* The sleep is over.
Wake ==
  /\ pc = "sleeping"
  /\ pc' = "connecting"
  /\ UNCHANGED <<produced, collector, queue, batch, backoff, wait, refused, streamVars>>

-----------------------------------------------------------------------------
(* The ingest loop: moving events. *)

\* Both branches of select! end in the test of is_closed; b is what is left
\* of the batch.  On a closed stream it is dropped.
NeverLooks == FALSE
IsClosed   == ~open
CheckClosed(b) ==
  \/ /\ ~IsClosed
     /\ batch' = b
     /\ pc' = "select"
     /\ UNCHANGED <<backoff, wait>>
  \/ /\ IsClosed
     /\ batch' = <<>>
     /\ SleepThenRetry

FullOneLate(b) == Len(b) > BatchSize
BatchIsFull(b) == Len(b) >= BatchSize

\* An event from the collector.
Recv ==
  /\ pc = "select"
  /\ queue # <<>>
  /\ queue' = Tail(queue)
  /\ LET b == Append(batch, Head(queue))
     IN \/ /\ BatchIsFull(b)
           /\ batch' = b
           /\ pc' = "flush"
           /\ UNCHANGED <<backoff, wait>>
        \/ /\ ~BatchIsFull(b)
           /\ CheckClosed(b)
  /\ UNCHANGED <<produced, collector, refused, streamVars>>

\* The collector's channel is closed and empty: flush what there is and return.
RecvNone ==
  /\ pc = "select"
  /\ queue = <<>>
  /\ collector = "stopped"
  /\ pc' = IF batch = <<>> THEN "done" ELSE "lastflush"
  /\ UNCHANGED <<produced, collector, queue, batch, backoff, wait, refused, streamVars>>

\* flush_tick fires with events in the batch.
TickOnlyWhenFull == pc = "select" /\ BatchIsFull(batch)
TickFlushes      == pc = "select" /\ batch # <<>>
Tick ==
  /\ TickFlushes
  /\ pc' = "flush"
  /\ UNCHANGED <<produced, collector, queue, batch, backoff, wait, refused, streamVars>>

\* flush_tick fires with nothing to flush; the stream is tested all the same.
SkipsTheTest  == FALSE
IdleTickTests == pc = "select" /\ batch = <<>>
IdleTick ==
  /\ IdleTickTests
  /\ CheckClosed(<<>>)
  /\ UNCHANGED <<produced, collector, queue, refused, streamVars>>

\* flush_batch drains the batch from the front; send().await waits for room.
\* The last send ends the call: the test of is_closed follows, or the return.
FromTheBack(b) == <<Last(b), Front(b)>>
SentTwice(b)   == <<Head(b), IF Len(b) > 1 THEN <<Head(b)>> ELSE <<>>>>
Drain(b)       == <<Head(b), Tail(b)>>
FlushSend ==
  /\ pc \in {"flush", "lastflush"}
  /\ open
  /\ Len(channel) < StreamCapacity
  /\ LET event == Drain(batch)[1]
         rest  == Drain(batch)[2]
     IN /\ channel' = Append(channel, event)
        /\ \/ /\ rest # <<>>
              /\ batch' = rest
              /\ UNCHANGED <<pc, backoff, wait>>
           \/ /\ rest = <<>> /\ pc = "flush"
              /\ CheckClosed(rest)
           \/ /\ rest = <<>> /\ pc = "lastflush"
              /\ batch' = rest
              /\ pc' = "done"
              /\ UNCHANGED <<backoff, wait>>
  /\ UNCHANGED <<produced, collector, queue, refused, streams, open, wire, received>>

\* send() fails: the stream is gone, and what the drain still held with it.
FlushFails ==
  /\ ~open
  /\ \/ /\ pc = "flush"
        /\ CheckClosed(<<>>)
     \/ /\ pc = "lastflush"
        /\ batch' = <<>>
        /\ pc' = "done"
        /\ UNCHANGED <<backoff, wait>>
  /\ UNCHANGED <<produced, collector, queue, refused, streamVars>>

-----------------------------------------------------------------------------
(* The stream's task, the connection and the server. *)

\* The task hands a message from its channel to the connection.
StreamTake ==
  /\ open
  /\ channel # <<>>
  /\ Len(wire[streams]) < Window
  /\ wire' = [wire EXCEPT ![streams] = Append(@, Head(channel))]
  /\ channel' = Tail(channel)
  /\ UNCHANGED <<produced, collector, queue, loopVars, streams, open, received>>

\* The server gets the next message of a stream, perhaps of an old one.
Deliver(k) ==
  /\ wire[k] # <<>>
  /\ received' = [received EXCEPT ![k] = Append(@, Head(wire[k]))]
  /\ wire' = [wire EXCEPT ![k] = Tail(@)]
  /\ UNCHANGED <<produced, collector, queue, loopVars, streams, open, channel>>

\* What a stream that has ended still carried is lost.
Vanish(k) ==
  /\ wire[k] # <<>>
  /\ k < streams \/ ~open
  /\ wire' = [wire EXCEPT ![k] = <<>>]
  /\ UNCHANGED <<produced, collector, queue, loopVars, streams, open, channel, received>>

\* The server ends the call, the connection breaks, or the session is dropped
\* at the loop's return and aborts the task: its channel goes with it.
StreamEnds ==
  /\ open
  /\ streams < MaxStreams \/ pc = "done"
  /\ open' = FALSE
  /\ channel' = <<>>
  /\ UNCHANGED <<produced, collector, queue, loopVars, streams, wire, received>>

-----------------------------------------------------------------------------

Collector == Collect \/ CollectorSend \/ CollectorEnds
Loop == \/ Connect \/ ConnectFails \/ Wake
        \/ Recv \/ RecvNone \/ Tick \/ IdleTick
        \/ FlushSend \/ FlushFails
Stream == StreamTake \/ StreamEnds \/ \E k \in Streams : Deliver(k) \/ Vanish(k)

Next == Collector \/ Loop \/ Stream

Spec == Init /\ [][Next]_vars

\* Attempts to connect end, sleeps end, both branches of select! get their
\* turn, a blocked send proceeds when it can, and a message under way arrives
\* or is lost.  Nothing is assumed of the collector's ticks, of refusals or of
\* streams that end.
Fairness ==
  /\ WF_vars(CollectorSend)
  /\ WF_vars(Connect \/ ConnectFails) /\ WF_vars(Wake)
  /\ WF_vars(Recv) /\ WF_vars(RecvNone) /\ WF_vars(Tick) /\ WF_vars(IdleTick)
  /\ WF_vars(FlushSend \/ FlushFails)
  /\ WF_vars(StreamTake)
  /\ \A k \in Streams : WF_vars(Deliver(k) \/ Vanish(k))

FairSpec == Spec /\ Fairness

-----------------------------------------------------------------------------
(* Properties. *)

\* What a stream has taken, and what the agent still holds, oldest first.
Carried(k) == received[k] \o wire[k]
InHand     == IF collector = "sending" THEN <<produced>> ELSE <<>>
Agent      == channel \o batch \o queue \o InHand

Increasing(s) == \A i, j \in 1..Len(s) : i < j => s[i] < s[j]
Before(s, t)  == \A i \in 1..Len(s), j \in 1..Len(t) : s[i] < t[j]

\* Across batches, failed flushes and reconnections no event is sent twice and
\* none overtakes another on its way into a stream: each stream carries
\* increasing numbers, above those of the streams before it and below those
\* the agent still holds (client.rs:129-182).
InOrder ==
  /\ Increasing(Agent)
  /\ \A k \in Streams : Increasing(Carried(k)) /\ Before(Carried(k), Agent)
  /\ \A k, l \in Streams : k < l => Before(Carried(k), Carried(l))

\* Without a stream that ended the agent loses nothing, and each one that did
\* takes at most what it held and one batch with it: the loop tests is_closed
\* before it batches on.
Ended == IF open THEN streams - 1 ELSE streams
Lost  == (1..produced) \ (ToSet(Agent) \cup UNION {ToSet(Carried(k)) : k \in Streams})
LossIsBounded == Cardinality(Lost) <= Ended * (Window + StreamCapacity + BatchSize)

\* The n-th refusal in a row is followed by a sleep of at least 2^(n-1) seconds
\* or the longest one, whatever streams came before (client.rs:103-111).
Longest(n) == IF 2^n < MaxBackoff THEN 2^n ELSE MaxBackoff
ConnectBackoffGrows ==
  pc = "sleeping" /\ refused > 0 => wait >= Longest(refused - 1)

\* An event the collector made is delivered or lost in the end: it does not
\* stay in a channel or in a batch that never fills.
Delivered == UNION {ToSet(received[k]) : k \in Streams}
EveryEventSettles ==
  \A n \in Numbers : produced >= n ~> n \in Delivered \cup Lost

\* A stream that has ended under the loop is replaced, also when no event
\* comes that would make the loop send into it.
BrokenStreamIsReplaced ==
  pc = "select" /\ ~open ~> open \/ pc \in {"lastflush", "done"}

\* client.rs:92: the loop "reconnects automatically with exponential backoff on
\* any failure".  While no message has ever arrived, every stream so far was a
\* failure, and the sleep grows with each failure.
BackoffOnAnyFailure ==
  /\ pc = "sleeping"
  /\ \A k \in Streams : received[k] = <<>> /\ wire[k] = <<>>
  => wait >= Longest(streams + refused - 1)
=============================================================================
