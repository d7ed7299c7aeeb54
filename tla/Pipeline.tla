------------------------------ MODULE Pipeline ------------------------------
(***************************************************************************)
(* One agent, the Control Plane and the topic.  Stream k of the agent is   *)
(* call k of the Control Plane: what AgentClient calls the delivery of a   *)
(* message is onNext in ControlPlane.  Neither side sees the other's state *)
(* but through messages and through the end of a stream, which the two     *)
(* notice at different times.                                              *)
(*                                                                         *)
(* Besides, another client sends one event of its own in a unary call, and *)
(* claims to be whoever it likes.                                          *)
(***************************************************************************)
EXTENDS ControlPlane

CONSTANTS
  QueueCapacity, BatchSize, StreamCapacity, Window, MaxBackoff,
  MaxEvents, MaxStreams, MaxRefusals,
  Us,        \* the name in AGENT_ID
  Them,      \* the other client's
  MaxBeside  \* bound: the agent's events when the other client calls

VARIABLES
  produced, collector, queue, pc, batch, backoff, wait, refused,
  streams, open, channel, wire, received

Agent == INSTANCE AgentClient

\* The other client's call and its event.
TheirCall  == 0
TheirEvent == 0

ASSUME PipelineAssumption ==
  /\ Calls = Agent!Streams
  /\ Requests = {TheirCall}
  /\ Events = Agent!Numbers \cup {TheirEvent}
  /\ Names = {Us, Them} /\ Us # Them
  /\ {QueueCapacity, BatchSize, StreamCapacity, Window, MaxBackoff} \subseteq Nat \ {0}
  /\ {MaxEvents, MaxStreams, MaxRefusals} \subseteq Nat

agentVars    == <<produced, collector, queue, pc, batch, backoff, wait, refused,
                  streams, open, channel, wire, received>>
pipelineVars == <<agentVars, vars>>

\* config.rs puts AGENT_ID in lower case; the certificates were made elsewhere.
AgentId == [name |-> Us, lower |-> TRUE]
OurKey  == AgentId
OurMessage(e) == [id |-> e, agent |-> AgentId]
TheirMessages == [id : {TheirEvent}, agent : Spellings]

\* Each client has one certificate.  The agent's has its name, in another case,
\* or is that of somebody else; the other client's may lack a CN.
PipelineInit ==
  /\ Agent!Init
  /\ Init
  /\ \E s \in {[name |-> Us, lower |-> FALSE], [name |-> Them, lower |-> TRUE]} :
       \A k \in Calls : cert[k] = s
  /\ cert[TheirCall] \in {NoName, [name |-> Them, lower |-> FALSE]}

-----------------------------------------------------------------------------

\* The agent on its own: its collector, its loop, and the stream's task.
AgentStep ==
  /\ Agent!Collector \/ Agent!Loop \/ Agent!StreamTake
  /\ produced' <= IF cert[TheirCall] = NoName THEN MaxEvents ELSE MaxBeside
  /\ UNCHANGED vars

\* The agent's side of a stream is over.
ClientEnded(k) == k < streams \/ (k = streams /\ ~open)

\* Bound: the server and the network leave the last stream alone.
MayBreak(k) == k < MaxStreams \/ ClientEnded(k)

\* A stream of the agent reaches the Control Plane.
Accept(k) ==
  /\ k <= streams
  /\ Intercept(k)
  /\ UNCHANGED agentVars

\* The next message of a stream reaches its call.
Receive(k) ==
  /\ Agent!Deliver(k)
  /\ \/ OnNext(k, OurMessage(Head(wire[k])))
     \/ MayBreak(k) /\ OnNextThrows(k, OurMessage(Head(wire[k])))

\* The agent notices that its stream has ended.
StreamEnds == Agent!StreamEnds /\ UNCHANGED vars

\* What the stream still carried never arrives.
Vanish(k) == Agent!Vanish(k) /\ UNCHANGED vars

\* The Control Plane notices that a stream has ended.
Hangup(k) ==
  /\ k <= streams
  /\ MayBreak(k)
  /\ OnError(k)
  /\ UNCHANGED agentVars

\* The loop has returned and dropped its session, and the stream's task gets
\* to the end of its channel before it is aborted: the agent closes its side.
HalfClose(k) ==
  /\ k = streams /\ open
  /\ pc = "done"
  /\ channel = <<>> /\ wire[k] = <<>>
  /\ OnCompleted(k)
  /\ UNCHANGED agentVars

\* The other client's call.
Foreign ==
  /\ \/ Unauthenticated(TheirCall) \/ Intercept(TheirCall)
     \/ \E m \in TheirMessages :
          SendEventRejects(TheirCall, m) \/ SendEventPublishes(TheirCall, m)
  /\ UNCHANGED agentVars

Publishing(key) == (Ack(key) \/ PublishFails(key)) /\ UNCHANGED agentVars

\* The Control Plane's process ends and is started again.
ControlPlaneRestart ==
  /\ \A k \in Calls : call[k] = "open" => MayBreak(k)
  /\ Restart
  /\ UNCHANGED agentVars

PipelineNext ==
  \/ AgentStep
  \/ StreamEnds
  \/ \E k \in Calls : Accept(k) \/ Receive(k) \/ Vanish(k) \/ Hangup(k) \/ HalfClose(k)
  \/ Foreign
  \/ \E key \in Keys : Publishing(key)
  \/ ControlPlaneRestart

PipelineSpec == PipelineInit /\ [][PipelineNext]_pipelineVars

\* The agent's fairness (AgentClient!Fairness), where it is the agent's alone:
\* the actions under one WF are never enabled together, but for alternatives.
\* The Control Plane gets to the calls and messages that have come, the producer
\* succeeds or gives up, an ended call is noticed by the agent, and what an ended
\* stream carried does not stay under way.
Alone(A) == A /\ UNCHANGED vars
PipelineFairness ==
  /\ WF_pipelineVars(Alone(Agent!CollectorSend))
  /\ WF_pipelineVars(Alone(\/ Agent!Connect \/ Agent!ConnectFails \/ Agent!Wake
                           \/ Agent!FlushSend \/ Agent!FlushFails))
  /\ WF_pipelineVars(Alone(Agent!Recv \/ Agent!RecvNone))
  /\ WF_pipelineVars(Alone(Agent!Tick))
  /\ WF_pipelineVars(Alone(Agent!IdleTick))
  /\ WF_pipelineVars(Alone(Agent!StreamTake))
  /\ WF_pipelineVars(Alone(Agent!StreamEnds /\ call[streams] \in Ended))
  /\ \A k \in Calls : WF_pipelineVars(Accept(k) \/ Receive(k) \/ Vanish(k))
  /\ WF_pipelineVars(Publishing(OurKey))

PipelineFairSpec == PipelineSpec /\ PipelineFairness

-----------------------------------------------------------------------------
(* Properties. *)

Held     == ToSet(Agent!Agent) \cup UNION {ToSet(wire[k]) : k \in Calls}
Refused  == UNION {{handled[k][i].id : i \in ForeignOf(k)} : k \in Calls}
InTopic  == ToSet(topic[OurKey])
GivenUp  == (Agent!Lost \cup Refused \cup ((failed \cup forgotten) \ {TheirEvent})) \ InTopic

\* The whole way, from the collector to the topic, is an at-most-once log of the
\* agent's events, whichever side fails first and whoever else is calling:
\* reconnecting, a call that outlives its stream, the producer's retries and a
\* restart never make an event appear twice, and never one that was given up.
Log == INSTANCE AtMostOnce WITH made <- produced, log <- topic[OurKey], lost <- GivenUp
ImplementsAtMostOnce == Log!Spec

\* The agent never gives the Control Plane an event twice, over any number of
\* streams: so the composition does to the server only what ControlPlane's own
\* specification allows, and what is proved of that holds here.
IsAControlPlane == Spec

\* Every event ends in the topic or is given up, and nothing keeps it in one of
\* the five buffers on its way: also if the server ends the stream, the producer
\* is full or the agent's identity is refused.
EveryEventReachesAnEnd ==
  \A n \in Agent!Numbers : produced >= n ~> n \in InTopic \cup GivenUp

\* KafkaEventPublisher.java:24-25: a publish that fails is not propagated, for
\* "the agent has its own backoff and will retry in the next window".  So an event
\* whose publishing failed gets into the topic, or the agent holds it again.
FailedPublishIsRetried ==
  \A n \in Agent!Numbers : n \in failed ~> n \in InTopic \cup Held
=============================================================================
