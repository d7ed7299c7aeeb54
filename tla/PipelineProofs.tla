--------------------------- MODULE PipelineProofs ---------------------------
(***************************************************************************)
(* Proofs about the composition of the agent and the Control Plane, from   *)
(* what is proved of each.  The agent's steps are AgentClient's whatever   *)
(* the server does; with the order that gives, the server's are            *)
(* ControlPlane's; and from both the way from the collector to the topic   *)
(* is an at-most-once log.                                                 *)
(***************************************************************************)
EXTENDS Pipeline, ControlPlaneProofs

\* The agent of Pipeline, with what is proved of it.
AP == INSTANCE AgentClientProofs

-----------------------------------------------------------------------------
(* The agent's side: Pipeline's instance of AgentClient is the same as the   *)
(* one that AgentClientProofs is about.                                      *)

\* The constants are as the agent's module assumes, so its theorems apply.
LEMMA AgentConstants == AP!AgentAssumption
BY PipelineAssumption DEF AP!AgentAssumption

LEMMA SameInit == Agent!Init <=> AP!Init
BY DEF Agent!Init, AP!Init, Agent!Streams, AP!Streams

LEMMA SameCollector == Agent!Collector <=> AP!Collector
BY DEF Agent!Collector, AP!Collector, Agent!Collect, AP!Collect,
       Agent!CollectorSend, AP!CollectorSend, Agent!CollectorEnds, AP!CollectorEnds,
       Agent!loopVars, AP!loopVars, Agent!streamVars, AP!streamVars

LEMMA SameCheck ==
  ASSUME NEW b
  PROVE  Agent!CheckClosed(b) <=> AP!CheckClosed(b)
BY DEF Agent!CheckClosed, AP!CheckClosed, Agent!IsClosed, AP!IsClosed,
       Agent!SleepThenRetry, AP!SleepThenRetry, Agent!NextBackoff, AP!NextBackoff

LEMMA SameLoop == Agent!Loop <=> AP!Loop
<1>1. (Agent!Connect <=> AP!Connect) /\ (Agent!ConnectFails <=> AP!ConnectFails)
  BY DEF Agent!Connect, AP!Connect, Agent!NewStream, AP!NewStream,
         Agent!ConnectFails, AP!ConnectFails, Agent!ConnectError, AP!ConnectError,
         Agent!SleepThenRetry, AP!SleepThenRetry, Agent!NextBackoff, AP!NextBackoff,
         Agent!streamVars, AP!streamVars
<1>2. /\ Agent!Wake <=> AP!Wake
      /\ Agent!RecvNone <=> AP!RecvNone
      /\ Agent!Tick <=> AP!Tick
  BY DEF Agent!Wake, AP!Wake, Agent!RecvNone, AP!RecvNone, Agent!Tick, AP!Tick,
         Agent!TickFlushes, AP!TickFlushes, Agent!streamVars, AP!streamVars
<1>3. Agent!Recv <=> AP!Recv
  BY SameCheck DEF Agent!Recv, AP!Recv, Agent!BatchIsFull, AP!BatchIsFull,
                    Agent!streamVars, AP!streamVars
<1>4. Agent!IdleTick <=> AP!IdleTick
  BY SameCheck DEF Agent!IdleTick, AP!IdleTick,
                    Agent!IdleTickTests, AP!IdleTickTests,
                    Agent!streamVars, AP!streamVars
<1>5. Agent!FlushSend <=> AP!FlushSend
  BY SameCheck DEF Agent!FlushSend, AP!FlushSend, Agent!Drain, AP!Drain
<1>6. Agent!FlushFails <=> AP!FlushFails
  BY SameCheck DEF Agent!FlushFails, AP!FlushFails, Agent!streamVars, AP!streamVars
<1> QED
  BY <1>1, <1>2, <1>3, <1>4, <1>5, <1>6 DEF Agent!Loop, AP!Loop

LEMMA SameStream ==
  /\ Agent!StreamTake <=> AP!StreamTake
  /\ Agent!StreamEnds <=> AP!StreamEnds
  /\ \A k : (Agent!Deliver(k) <=> AP!Deliver(k)) /\ (Agent!Vanish(k) <=> AP!Vanish(k))
BY DEF Agent!StreamTake, AP!StreamTake, Agent!StreamEnds, AP!StreamEnds,
       Agent!Deliver, AP!Deliver,
       Agent!Vanish, AP!Vanish, Agent!loopVars, AP!loopVars

\* Every step of the composition is one of the agent's or leaves it alone.
LEMMA StepOfAgent == [PipelineNext]_pipelineVars => [AP!Next]_(AP!vars)
<1> SUFFICES ASSUME [PipelineNext]_pipelineVars PROVE [AP!Next]_(AP!vars)
  OBVIOUS
<1>0. Calls = AP!Streams
  BY PipelineAssumption DEF Agent!Streams, AP!Streams
<1>1. CASE UNCHANGED agentVars
  BY <1>1 DEF agentVars, AP!vars, AP!loopVars, AP!streamVars
<1>2. CASE AgentStep
  BY <1>2, SameCollector, SameLoop, SameStream DEF AgentStep, AP!Next, AP!Stream
<1>3. CASE StreamEnds
  BY <1>3, SameStream DEF StreamEnds, AP!Next, AP!Stream
<1>4. ASSUME NEW k \in Calls, Receive(k) \/ Vanish(k)
      PROVE  AP!Next
  BY <1>0, <1>4, SameStream DEF Receive, Vanish, AP!Next, AP!Stream
<1> QED
  BY <1>1, <1>2, <1>3, <1>4
  DEF PipelineNext, pipelineVars, Accept, Hangup, HalfClose, Foreign,
      Publishing, ControlPlaneRestart

\* The agent takes its own steps only, whoever it is connected to.
LEMMA AgentAsSpecified == PipelineSpec => AP!Spec
<1>1. PipelineInit => AP!Init
  BY SameInit DEF PipelineInit
<1> QED
  BY <1>1, StepOfAgent, PTL DEF PipelineSpec, AP!Spec

\* So the agent's invariant holds here.
LEMMA AgentFacts == PipelineSpec => []AP!Facts
<1>1. AP!Spec => []AP!Facts
  BY AP!FactsHold, AgentConstants
<1> QED
  BY <1>1, AgentAsSpecified, PTL

-----------------------------------------------------------------------------
(* The two sides of a stream. *)

\* The service has handled the messages that the agent's stream delivered, and
\* no others; the other client's call handles one message, its own.
Ids(msgs) == {m.id : m \in ToSet(msgs)}
LinkOf(hs, got, at, names) ==
  /\ \A k \in Calls : Ids(hs[k]) = ToSet(got[k])
  /\ Ids(hs[TheirCall]) \subseteq {TheirEvent}
  /\ at[TheirCall] \in {"new", "open"} => Ids(hs[TheirCall]) = {}
  /\ names[TheirCall] \in {NoName, [name |-> Them, lower |-> FALSE]}
LinkInv == LinkOf(handled, received, call, cert)

\* LinkInv after a step, as a fact about the values after it.
LEMMA LinkNext == LinkInv' <=> LinkOf(handled', received', call', cert')
<1>1. LinkInv <=> LinkOf(handled, received, call, cert)
  BY DEF LinkInv
<1>2. (LinkInv <=> LinkOf(handled, received, call, cert))'
  BY <1>1, PTL
<1> QED
  BY <1>2

\* The agent's streams and the other client's call are all the calls there are.
LEMMA Bounds ==
  /\ AP!Numbers = Agent!Numbers /\ AP!Streams = Calls /\ Calls \subseteq Nat
  /\ \A n \in Agent!Numbers : n \in Nat /\ n \in Events /\ n # TheirEvent
  /\ AnyCall = Calls \cup {TheirCall} /\ TheirCall \notin Calls /\ TheirCall \in Requests
  /\ OurKey \in Keys /\ Us \in Names /\ Them \in Names
BY PipelineAssumption, ControlPlaneAssumption
DEF Agent!Numbers, AP!Numbers, Agent!Streams, AP!Streams, AnyCall, TheirCall, TheirEvent,
    OurKey, AgentId, Keys, Spellings

\* What is in front of a concatenation, and what comes first behind that.
LEMMA InFrontOf ==
  ASSUME NEW S, NEW r \in Seq(S), NEW w \in Seq(S)
  PROVE  \A i \in 1..Len(r) : i \in 1..Len(r \o w) /\ (r \o w)[i] = r[i]
<1>1. Len(r) \in Nat /\ Len(w) \in Nat
  BY LenProperties
<1>2. /\ Len(r \o w) = Len(r) + Len(w)
      /\ \A i \in 1..Len(r) + Len(w) :
            (r \o w)[i] = IF i <= Len(r) THEN r[i] ELSE w[i - Len(r)]
  BY ConcatProperties
<1>3. \A i \in 1..Len(r) : i \in 1..Len(r) + Len(w) /\ i <= Len(r)
  BY <1>1
<1> QED
  BY <1>2, <1>3

LEMMA BehindIt ==
  ASSUME NEW S, NEW r \in Seq(S), NEW w \in Seq(S), w # <<>>
  PROVE  Len(r) + 1 \in 1..Len(r \o w) /\ (r \o w)[Len(r) + 1] = Head(w)
<1>1. Len(r) \in Nat /\ Len(w) \in Nat \ {0} /\ Head(w) = w[1]
  BY LenProperties, EmptySeq
<1>2. /\ Len(r \o w) = Len(r) + Len(w)
      /\ \A i \in 1..Len(r) + Len(w) :
            (r \o w)[i] = IF i <= Len(r) THEN r[i] ELSE w[i - Len(r)]
  BY ConcatProperties
<1>3. \A a \in Nat, b \in Nat \ {0} :
        a + 1 \in 1..a + b /\ ~(a + 1 <= a) /\ (a + 1) - a = 1
  OBVIOUS
<1>4. /\ Len(r) + 1 \in 1..Len(r) + Len(w) /\ ~(Len(r) + 1 <= Len(r))
      /\ (Len(r) + 1) - Len(r) = 1
  BY <1>1, <1>3
<1> QED
  BY <1>1, <1>2, <1>4

\* The next message of a stream has not been handled by any call.
LEMMA NextIsNew ==
  ASSUME AP!Facts, LinkInv, NEW k \in Calls, wire[k] # <<>>
  PROVE  OurMessage(Head(wire[k])) \in Fresh /\ Head(wire[k]) \in Agent!Numbers
<1>1. /\ \A l \in Calls : wire[l] \in Seq(Agent!Numbers) /\ received[l] \in Seq(Agent!Numbers)
      /\ \A l \in Calls : AP!Increasing(AP!Carried(l))
      /\ \A l, j \in Calls : l < j => AP!Before(AP!Carried(l), AP!Carried(j))
  BY Bounds DEF AP!Facts, AP!IInv, AP!TypeOK, AP!OrderInv, AP!InOrder
<1>2. Head(wire[k]) \in Agent!Numbers
  BY <1>1, HeadTailProperties
<1>3. OurMessage(Head(wire[k])) \in Messages
  BY <1>2, Bounds DEF OurMessage, AgentId, Messages, Spellings
<1>4. \A l \in Calls : Head(wire[k]) \notin ToSet(received[l])
  <2> DEFINE p == Len(received[k]) + 1
  <2>1. ASSUME NEW l \in Calls
        PROVE  /\ DOMAIN received[l] = 1..Len(received[l]) /\ Len(received[l]) \in Nat
               /\ \A i \in 1..Len(received[l]) : /\ i \in 1..Len(AP!Carried(l))
                                                 /\ AP!Carried(l)[i] = received[l][i]
                                                 /\ received[l][i] \in Agent!Numbers
    <3>1. \A i \in 1..Len(received[l]) : /\ i \in 1..Len(received[l] \o wire[l])
                                         /\ (received[l] \o wire[l])[i] = received[l][i]
      BY <1>1, InFrontOf
    <3>2. \A i \in 1..Len(received[l]) : received[l][i] \in Agent!Numbers
      BY <1>1, ElementOfSeq
    <3> QED
      BY <1>1, <3>1, <3>2, LenProperties DEF AP!Carried
  <2>2. /\ p \in 1..Len(AP!Carried(k)) /\ AP!Carried(k)[p] = Head(wire[k])
        /\ \A i \in 1..Len(received[k]) : i < p
    <3>1. /\ p \in 1..Len(received[k] \o wire[k])
          /\ (received[k] \o wire[k])[p] = Head(wire[k])
      BY <1>1, BehindIt
    <3>2. \A i \in 1..Len(received[k]) : i < p
      BY <2>1
    <3> QED
      BY <3>1, <3>2 DEF AP!Carried
  <2> HIDE DEF p
  <2>3. ASSUME NEW l \in Calls, NEW i \in 1..Len(received[l])
        PROVE  received[l][i] # Head(wire[k])
    <3>1. i \in 1..Len(AP!Carried(l)) /\ AP!Carried(l)[i] = received[l][i]
      BY <2>1
    <3>2. CASE l = k
      <4>1. i < p
        BY <2>1, <2>2, <3>2
      <4>2. AP!Carried(k)[i] < AP!Carried(k)[p]
        BY <1>1, <2>2, <3>1, <3>2, <4>1 DEF AP!Increasing
      <4> QED
        BY <1>2, <2>1, <2>2, <3>1, <3>2, <4>2, Bounds
    <3>3. CASE l # k
      <4>1. l < k \/ k < l
        BY <3>3, Bounds
      <4>2. \/ AP!Carried(l)[i] < AP!Carried(k)[p]
            \/ AP!Carried(k)[p] < AP!Carried(l)[i]
        BY <1>1, <2>2, <3>1, <4>1 DEF AP!Before
      <4> QED
        BY <1>2, <2>1, <2>2, <3>1, <4>2, Bounds
    <3> QED
      BY <3>2, <3>3
  <2> QED
    BY <2>1, <2>3 DEF ToSet
<1>5. Head(wire[k]) \notin Sent
  BY <1>2, <1>4, Bounds DEF LinkInv, LinkOf, Ids, Sent
<1> QED
  BY <1>2, <1>3, <1>5 DEF Fresh, OurMessage

\* So the composition does nothing to the Control Plane that its own
\* specification does not allow.
LEMMA StepOfControlPlane ==
  AP!Facts /\ LinkInv /\ [PipelineNext]_pipelineVars => [Next]_vars
<1> SUFFICES ASSUME AP!Facts, LinkInv, [PipelineNext]_pipelineVars PROVE [Next]_vars
  OBVIOUS
<1>1. CASE UNCHANGED vars
  BY <1>1
<1>2. ASSUME NEW k \in Calls, Accept(k) \/ Hangup(k) \/ HalfClose(k) PROVE Next
  BY <1>2, Bounds DEF Accept, Hangup, HalfClose, Next, Service
<1>3. ASSUME NEW k \in Calls, Receive(k) PROVE Next
  <2>1. OurMessage(Head(wire[k])) \in Fresh
    BY <1>3, NextIsNew DEF Receive, Agent!Deliver
  <2> QED
    BY <1>3, <2>1, Bounds DEF Receive, Next, Service
<1>4. CASE Foreign
  <2>1. ASSUME NEW m \in TheirMessages, call[TheirCall] = "open" PROVE m \in Fresh
    <3>1. m \in Messages /\ m.id = TheirEvent
      BY PipelineAssumption DEF TheirMessages, Messages
    <3>2. \A k \in Calls : TheirEvent \notin Ids(handled[k])
      <4>1. \A k \in Calls : received[k] \in Seq(Agent!Numbers)
        BY Bounds DEF AP!Facts, AP!IInv, AP!TypeOK
      <4>2. \A k \in Calls : ToSet(received[k]) \subseteq Agent!Numbers
        BY <4>1, ElementOfSeq, LenProperties DEF ToSet
      <4> QED
        BY <4>2, Bounds DEF LinkInv, LinkOf
    <3>3. TheirEvent \notin Sent
      BY <2>1, <3>2, Bounds DEF Sent, Ids, LinkInv, LinkOf
    <3> QED
      BY <3>1, <3>3 DEF Fresh
  <2> QED
    BY <1>4, <2>1, Bounds DEF Foreign, SendEventRejects, SendEventPublishes, Next, Service
<1>5. CASE (\E key \in Keys : Publishing(key)) \/ ControlPlaneRestart
  BY <1>5 DEF Publishing, ControlPlaneRestart, Next, Producer
<1> QED
  BY <1>1, <1>2, <1>3, <1>4, <1>5
  DEF PipelineNext, pipelineVars, AgentStep, StreamEnds, Vanish

\* Only a delivery changes what the server has got.
LEMMA OnlyDelivered ==
  ASSUME [PipelineNext]_pipelineVars, \A k \in Calls : ~Receive(k)
  PROVE  received' = received
<1>1. CASE AgentStep
  <2>1. AP!Collector \/ AP!Loop \/ AP!StreamTake
    BY <1>1, SameCollector, SameLoop, SameStream DEF AgentStep
  <2> QED
    BY <2>1 DEF AP!Collector, AP!Collect, AP!CollectorSend, AP!CollectorEnds, AP!Loop,
                AP!Connect, AP!ConnectFails, AP!Wake, AP!Recv, AP!RecvNone, AP!Tick,
                AP!IdleTick, AP!FlushSend, AP!FlushFails, AP!StreamTake, AP!streamVars
<1>2. CASE StreamEnds \/ \E k \in Calls : Vanish(k)
  BY <1>2 DEF StreamEnds, Vanish, Agent!StreamEnds, Agent!Vanish
<1> QED
  BY <1>1, <1>2
  DEF PipelineNext, pipelineVars, agentVars, Accept, Hangup, HalfClose, Foreign, Publishing,
      ControlPlaneRestart

\* Each kind of step keeps the two sides of a stream together.
LEMMA LinkKept == AP!Facts /\ IInv /\ LinkInv /\ [PipelineNext]_pipelineVars => LinkInv'
<1> SUFFICES ASSUME AP!Facts, IInv, LinkInv, [PipelineNext]_pipelineVars PROVE LinkInv'
  OBVIOUS
<1>1. SessionsTyped
  BY TypeSplit DEF IInv
<1>2. \A k \in Calls : wire[k] \in Seq(Agent!Numbers) /\ received[k] \in Seq(Agent!Numbers)
  BY Bounds DEF AP!Facts, AP!IInv, AP!TypeOK
<1>3. ASSUME UNCHANGED <<cert, handled, received>>,
             call'[TheirCall] \in {"new", "open"} => call[TheirCall] \in {"new", "open"}
      PROVE  LinkInv'
  BY <1>3, LinkNext DEF LinkInv, LinkOf
<1>4. ASSUME NEW k \in Calls, Receive(k) PROVE LinkInv'
  <2>1. PICK n \in Agent!Numbers : n = Head(wire[k])
    BY <1>4, NextIsNew DEF Receive, Agent!Deliver
  <2>2. /\ received' = [received EXCEPT ![k] = Append(@, n)]
        /\ handled' = [handled EXCEPT ![k] = Append(@, OurMessage(n))]
        /\ cert' = cert /\ call' \in {call, [call EXCEPT ![k] = "broken"]}
    BY <1>4, <2>1 DEF Receive, Agent!Deliver, OnNext, OnNextRejects, OnNextAccepts,
                      OnNextThrows, Goto
  <2>3. OurMessage(n) \in Messages /\ OurMessage(n).id = n
    BY Bounds DEF OurMessage, AgentId, Messages, Spellings
  <2>4. received \in [Calls -> Seq(Agent!Numbers)]
    BY Bounds DEF AP!Facts, AP!IInv, AP!TypeOK
  <2>5. ToSet(Append(received[k], n)) = ToSet(received[k]) \cup {n}
    BY <1>2, ToSetAppend
  <2>6. /\ ToSet(Append(handled[k], OurMessage(n))) = ToSet(handled[k]) \cup {OurMessage(n)}
        /\ handled \in [AnyCall -> Seq(Messages)]
    <3>1. PICK m \in Messages : m = OurMessage(n)
      BY <2>3
    <3>2. handled[k] \in Seq(Messages) /\ handled \in [AnyCall -> Seq(Messages)]
      BY <1>1, Bounds DEF SessionsTyped
    <3> QED
      BY <3>1, <3>2, ToSetAppend
  <2>7. handled'[TheirCall] = handled[TheirCall]
    BY <2>2, <2>6, Bounds
  <2>8. call'[TheirCall] = call[TheirCall]
    BY <1>1, <2>2, Bounds DEF SessionsTyped
  <2>9. ASSUME NEW l \in Calls
        PROVE  Ids(handled'[l]) = ToSet(received'[l])
    <3>1. CASE l = k
      <4>1. /\ ToSet(handled'[k]) = ToSet(handled[k]) \cup {OurMessage(n)}
            /\ ToSet(received'[k]) = ToSet(received[k]) \cup {n}
        BY <2>2, <2>4, <2>5, <2>6, Bounds
      <4>2. Ids(handled'[k]) = Ids(handled[k]) \cup {n}
        BY <2>3, <4>1 DEF Ids
      <4> QED
        BY <3>1, <4>1, <4>2 DEF LinkInv, LinkOf
    <3>2. CASE l # k
      <4>1. handled'[l] = handled[l] /\ received'[l] = received[l]
        BY <2>2, <2>4, <2>6, <3>2, Bounds
      <4> QED
        BY <4>1 DEF LinkInv, LinkOf
    <3> QED
      BY <3>1, <3>2
  <2> QED
    BY <2>2, <2>7, <2>8, <2>9, LinkNext DEF LinkInv, LinkOf
<1>5. ASSUME NEW m \in TheirMessages,
             SendEventRejects(TheirCall, m) \/ SendEventPublishes(TheirCall, m),
             UNCHANGED agentVars
      PROVE  LinkInv'
  <2>1. m \in Messages /\ m.id = TheirEvent
    BY PipelineAssumption DEF TheirMessages, Messages
  <2>2. /\ handled' = [handled EXCEPT ![TheirCall] = Append(@, m)]
        /\ UNCHANGED <<cert, received>>
        /\ \E s \in Ended : call' = [call EXCEPT ![TheirCall] = s]
    BY <1>5 DEF SendEventRejects, SendEventPublishes, Goto, Ended, agentVars
  <2>3. /\ ToSet(handled'[TheirCall]) = ToSet(handled[TheirCall]) \cup {m}
        /\ \A k \in Calls : handled'[k] = handled[k]
    BY <1>1, <2>1, <2>2, Bounds, ToSetAppend DEF SessionsTyped
  <2>4. call'[TheirCall] \notin {"new", "open"}
    BY <1>1, <2>2, Bounds DEF SessionsTyped, Ended
  <2>5. Ids(handled'[TheirCall]) \subseteq {TheirEvent}
    BY <2>1, <2>3 DEF LinkInv, LinkOf, Ids
  <2> QED
    BY <2>2, <2>3, <2>4, <2>5, LinkNext DEF LinkInv, LinkOf
<1>6. CASE Foreign /\ (Unauthenticated(TheirCall) \/ Intercept(TheirCall))
  <2>1. UNCHANGED <<cert, handled, received>> /\ call[TheirCall] = "new"
    BY <1>6 DEF Foreign, Unauthenticated, Intercept, agentVars
  <2> QED
    BY <1>3, <2>1
<1>7. ASSUME \A k \in Calls : ~Receive(k), ~Foreign PROVE LinkInv'
  <2>1. received' = received
    BY <1>7, OnlyDelivered
  <2>2. \/ UNCHANGED vars
        \/ \E k \in Calls : Intercept(k) \/ OnError(k) \/ OnCompleted(k)
        \/ \E key \in Keys : Ack(key) \/ PublishFails(key)
        \/ Restart
    BY <1>7 DEF PipelineNext, pipelineVars, AgentStep, StreamEnds, Accept, Vanish, Hangup,
                HalfClose, Publishing, ControlPlaneRestart
  <2>3. UNCHANGED <<cert, handled>>
    BY <2>2 DEF vars, sessions, Intercept, OnError, OnCompleted, Ack, PublishFails, Restart
  <2>4. call'[TheirCall] = call[TheirCall] \/ (Restart /\ call'[TheirCall] # "open")
    BY <1>1, <2>2, Bounds DEF SessionsTyped, vars, sessions, Intercept, OnError, OnCompleted,
                              Goto, Ack, PublishFails, Restart
  <2>5. call'[TheirCall] = "new" => call[TheirCall] = "new"
    BY <1>1, <2>4, Bounds DEF SessionsTyped, Restart
  <2> QED
    BY <1>3, <2>1, <2>3, <2>4, <2>5
<1> QED
  BY <1>4, <1>5, <1>6, <1>7 DEF Foreign

\* At first no stream has delivered anything and no call has handled anything.
LEMMA InitLinks == PipelineInit => LinkInv
<1> SUFFICES ASSUME PipelineInit PROVE LinkInv
  OBVIOUS
<1>1. ToSet(<<>>) = {} /\ Ids(<<>>) = {}
  BY DEF ToSet, Ids
<1>2. \A c \in Calls \cup {TheirCall} : handled[c] = <<>>
  BY Bounds DEF PipelineInit, Init
<1>3. \A k \in Calls : received[k] = <<>>
  BY Bounds DEF PipelineInit, Agent!Init, Agent!Streams, AP!Streams
<1>4. cert[TheirCall] \in {NoName, [name |-> Them, lower |-> FALSE]}
  BY DEF PipelineInit
<1> QED
  BY <1>1, <1>2, <1>3, <1>4 DEF LinkInv, LinkOf

\* Whatever the agent and the network do, and whoever else calls: the Control
\* Plane is never given an event twice, so it behaves as its own specification
\* says, with any number of streams and any sizes of the buffers; what is proved
\* of ControlPlane holds in the composition.
THEOREM ComposedAsSpecified == PipelineSpec => IsAControlPlane
<1>1. PipelineInit => Init
  BY DEF PipelineInit
<1>2. AP!Facts /\ LinkInv /\ [PipelineNext]_pipelineVars => [Next]_vars
  BY StepOfControlPlane
<1>3. PipelineInit => IInv /\ LinkInv
  BY InitHolds, InitLinks DEF PipelineInit
<1>4. AP!Facts /\ IInv /\ LinkInv /\ [PipelineNext]_pipelineVars => IInv' /\ LinkInv'
  BY StepOfControlPlane, LinkKept, StepHolds
<1> QED
  BY <1>1, <1>2, <1>3, <1>4, AgentFacts, PTL DEF PipelineSpec, IsAControlPlane, Spec

-----------------------------------------------------------------------------
(* The whole way is an at-most-once log. *)

\* What the server has got the agent has made, and it is not lost on the way.
LEMMA GotIsMade ==
  ASSUME AP!Facts, NEW k \in Calls, NEW e \in ToSet(received[k])
  PROVE  e \in 1..produced /\ e \in AP!Pieces
<1>1. /\ received[k] \in Seq(Agent!Numbers) /\ wire[k] \in Seq(Agent!Numbers)
      /\ \A i \in 1..Len(AP!Carried(k)) : AP!Carried(k)[i] <= produced
      /\ produced \in Nat
  BY Bounds DEF AP!Facts, AP!IInv, AP!TypeOK, AP!OrderInv, AP!Below
<1>2. PICK i \in 1..Len(received[k]) : e = received[k][i]
  BY <1>1, LenProperties DEF ToSet
<1>3. i \in 1..Len(AP!Carried(k)) /\ AP!Carried(k)[i] = e
  BY <1>1, <1>2, InFrontOf DEF AP!Carried
<1>4. e \in Agent!Numbers /\ e <= produced
  BY <1>1, <1>2, <1>3, ElementOfSeq
<1>5. e \in 1..produced
  BY <1>1, <1>4 DEF Agent!Numbers
<1>6. e \in AP!ToSet(received[k])
  BY DEF ToSet, AP!ToSet
<1>7. e \in AP!Aboard(k)
  BY <1>6 DEF AP!Aboard
<1> QED
  BY <1>5, <1>7, Bounds DEF AP!Pieces

\* Under the agent's name there are only events from its streams.
LEMMA TopicIsOurs ==
  ASSUME IInv, LinkInv, NEW e \in ToSet(Partition(OurKey))
  PROVE  \E k \in Calls : e \in ToSet(received[k])
<1>1. PICK c \in AnyCall : \E m \in ToSet(handled[c]) :
        m.id = e /\ Own(c, m) /\ OurKey.name = cert[c].name
  BY Bounds DEF IInv, CertInv, CertifiedOnly
<1>2. c # TheirCall
  BY <1>1, PipelineAssumption DEF Own, LinkInv, LinkOf, OurKey, AgentId
<1> QED
  BY <1>1, <1>2, Bounds DEF LinkInv, LinkOf, Ids

\* What failed or was forgotten came from the agent's streams, or from the other
\* client.
LEMMA SpentIsOurs ==
  ASSUME IInv, LinkInv, NEW e \in Spent, e # TheirEvent
  PROVE  \E k \in Calls : e \in ToSet(received[k])
<1>1. e \in Sent
  BY DEF IInv, CertInv, Published, Spent
<1>2. PICK c \in AnyCall : e \in Ids(handled[c])
  BY <1>1 DEF Sent, Ids
<1>3. c # TheirCall
  BY <1>2 DEF LinkInv, LinkOf
<1> QED
  BY <1>2, <1>3, Bounds DEF LinkInv, LinkOf

\* The refused events, without the positions at which they were handled.
LEMMA RefusedIs ==
  Refused = {e \in UNION {Ids(handled[k]) : k \in Calls} :
               \E k \in Calls : \E m \in ToSet(handled[k]) : m.id = e /\ ~Own(k, m)}
BY DEF Refused, ForeignOf, Ids, ToSet

\* A refused event came from one of the agent's streams and was not published.
LEMMA RefusedIsOurs ==
  ASSUME IInv, LinkInv, NEW e \in Refused
  PROVE  e \notin Published /\ \E k \in Calls : e \in ToSet(received[k])
<1>1. PICK k \in Calls : \E m \in ToSet(handled[k]) : m.id = e /\ ~Own(k, m)
  BY RefusedIs
<1>2. e \notin Published
  BY <1>1, Bounds DEF IInv, CertInv, CertifiedOnly
<1>3. e \in ToSet(received[k])
  BY <1>1 DEF LinkInv, LinkOf, Ids
<1> QED
  BY <1>2, <1>3

\* What AtMostOnce speaks of: what is lost is what was made and is no longer on its
\* way, and neither the topic nor what was given up has anything else.
LogInv ==
  /\ Agent!Lost = (1..produced) \ AP!Pieces
  /\ IsInjective(topic[OurKey])
  /\ InTopic \cup GivenUp \subseteq 1..produced

\* It follows from what is known of the two sides and of the order of calls.
LEMMA LogInvHolds == AP!Facts /\ IInv /\ LinkInv /\ InSessionOrder => LogInv
<1> SUFFICES ASSUME AP!Facts, IInv, LinkInv, InSessionOrder PROVE LogInv
  OBVIOUS
<1>1. Agent!Lost = (1..produced) \ AP!Pieces
  <2>1. Agent!Lost = AP!Lost
    BY DEF Agent!Lost, AP!Lost, Agent!Agent, AP!Agent, Agent!InHand, AP!InHand,
           Agent!Carried, AP!Carried, Agent!Streams, AP!Streams, Agent!ToSet, AP!ToSet
  <2> QED
    BY <2>1 DEF AP!Facts
<1>2. topic[OurKey] \in Seq(Events) /\ buffer[OurKey] \in Seq(Events)
  BY Bounds DEF IInv, TypeOK
<1>3. IsInjective(topic[OurKey])
  <2>1. IsInjective(topic[OurKey] \o buffer[OurKey])
    BY Bounds DEF InSessionOrder, Partition
  <2>2. /\ DOMAIN topic[OurKey] = 1..Len(topic[OurKey])
        /\ DOMAIN (topic[OurKey] \o buffer[OurKey]) = 1..Len(topic[OurKey] \o buffer[OurKey])
    BY <1>2, LenProperties, ConcatProperties
  <2>3. \A i \in 1..Len(topic[OurKey]) :
          /\ i \in 1..Len(topic[OurKey] \o buffer[OurKey])
          /\ (topic[OurKey] \o buffer[OurKey])[i] = topic[OurKey][i]
    BY <1>2, InFrontOf
  <2> QED
    BY <2>1, <2>2, <2>3 DEF IsInjective
<1>4. InTopic \subseteq 1..produced
  <2>1. InTopic \subseteq ToSet(Partition(OurKey))
    BY Bounds, PartitionHolds, TypeSplit DEF IInv, InTopic
  <2> QED
    BY <2>1, TopicIsOurs, GotIsMade
<1>5. GivenUp \subseteq 1..produced
  BY <1>1, SpentIsOurs, RefusedIsOurs, GotIsMade DEF GivenUp, Spent
<1> QED
  BY <1>1, <1>3, <1>4, <1>5 DEF LogInv

\* The step of the log that a step of the composition is.
LEMMA StepOfLog ==
  AP!Facts /\ IInv /\ LinkInv /\ SpentInv /\ LogInv /\ LogInv' /\ [PipelineNext]_pipelineVars
    => [Log!Make \/ Log!Settle]_(Log!vars)
<1> SUFFICES ASSUME AP!Facts, IInv, LinkInv, SpentInv, LogInv, LogInv',
                    [PipelineNext]_pipelineVars
             PROVE  Log!Make \/ Log!Settle
  OBVIOUS
<1>1. Onward
  BY StepOfControlPlane, StepOnward
<1>2. \/ produced' = produced /\ AP!Pieces' \subseteq AP!Pieces
      \/ produced' = produced + 1 /\ AP!Pieces' = AP!Pieces \cup {produced'}
  BY StepOfAgent, AgentConstants, AP!NothingComesBack DEF AP!Facts
<1>3. Agent!Lost \subseteq Agent!Lost'
  <2>1. produced \in Nat
    BY DEF AP!Facts, AP!IInv, AP!TypeOK
  <2>2. Agent!Lost' = (1..produced') \ AP!Pieces'
    BY DEF LogInv
  <2>3. (1..produced) \subseteq (1..produced') /\ produced + 1 \notin 1..produced
    BY <1>2, <2>1
  <2> QED
    BY <1>2, <2>2, <2>3 DEF LogInv
<1>4. Refused \subseteq Refused'
  <2>1. ASSUME NEW k \in Calls, NEW i \in ForeignOf(k)
        PROVE  handled[k][i].id \in Refused'
    <3>1. handled[k] \in Seq(Messages)
      BY Bounds DEF IInv, TypeOK
    <3>2. i \in DOMAIN handled'[k] /\ handled'[k][i] = handled[k][i]
      <4>1. i \in DOMAIN handled[k] /\ DOMAIN handled[k] = 1..Len(handled[k])
        BY <3>1, LenProperties DEF ForeignOf
      <4>2. handled'[k] = handled[k] \/ \E m \in Messages : handled'[k] = Append(handled[k], m)
        BY <1>1, Bounds DEF Onward
      <4>3. \A m \in Messages : /\ i \in DOMAIN Append(handled[k], m)
                                /\ Append(handled[k], m)[i] = handled[k][i]
        BY <3>1, <4>1, AppendProperties, LenProperties
      <4> QED
        BY <4>1, <4>2, <4>3
    <3>3. ~Own(k, handled[k][i])'
      BY <1>1, <3>2 DEF Onward, ForeignOf, Own
    <3>4. i \in ForeignOf(k)'
      BY <3>2, <3>3 DEF ForeignOf
    <3> QED
      BY <3>2, <3>4 DEF Refused
  <2> QED
    BY <2>1 DEF Refused
<1>5. /\ IsPrefix(topic[OurKey], topic'[OurKey])
      /\ ToSet(topic'[OurKey]) \subseteq InTopic \cup ToSet(buffer[OurKey])
      /\ Spent \subseteq Spent'
  BY <1>1, Bounds DEF Onward, InTopic
<1> DEFINE T == Agent!Lost \cup Refused \cup (Spent \ {TheirEvent})
<1>6. T \cap ToSet(buffer[OurKey]) = {}
  <2>1. ToSet(buffer[OurKey]) \subseteq ToSet(Partition(OurKey))
    BY Bounds, PartitionHolds, TypeSplit DEF IInv
  <2>2. Agent!Lost \cap ToSet(buffer[OurKey]) = {}
    BY <2>1, TopicIsOurs, GotIsMade DEF LogInv
  <2>3. Refused \cap ToSet(buffer[OurKey]) = {}
    BY <2>1, Bounds, RefusedIsOurs DEF Published
  <2>4. Spent \cap ToSet(buffer[OurKey]) = {}
    BY Bounds DEF SpentInv
  <2> QED
    BY <2>2, <2>3, <2>4
<1>7. GivenUp = T \ InTopic /\ GivenUp' = T' \ ToSet(topic'[OurKey])
  BY DEF GivenUp, Spent, InTopic, ToSet
<1>8. GivenUp \subseteq GivenUp'
  BY <1>3, <1>4, <1>5, <1>6, <1>7
<1>9. CASE produced' = produced
  <2>1. /\ IsInjective(topic'[OurKey])
        /\ ToSet(topic'[OurKey]) \cup GivenUp' \subseteq 1..produced'
        /\ ToSet(topic'[OurKey]) \cap GivenUp' = {}
    BY <1>7 DEF LogInv, InTopic
  <2> QED
    BY <1>5, <1>8, <1>9, <2>1
    DEF Log!Settle, Log!IsPrefix, IsPrefix, Log!IsInjective, IsInjective, Log!ToSet, ToSet
<1>10. CASE produced' # produced
  <2>1. AgentStep
    BY <1>10 DEF PipelineNext, pipelineVars, agentVars, StreamEnds, Accept, Receive, Vanish,
                 Hangup, HalfClose, Foreign, Publishing, ControlPlaneRestart,
                 Agent!StreamEnds, Agent!Deliver, Agent!Vanish
  <2>2. UNCHANGED vars
    BY <2>1 DEF AgentStep
  <2>3. Agent!Lost' = Agent!Lost
    BY <1>2, <1>10, <1>3 DEF LogInv, AP!Facts, AP!IInv, AP!TypeOK
  <2>4. Refused' = Refused /\ Spent' = Spent /\ topic' = topic
    BY <2>2 DEF vars, sessions, kafka, Refused, ForeignOf, Own, Spent
  <2>5. GivenUp' = GivenUp
    BY <1>7, <2>3, <2>4 DEF InTopic
  <2> QED
    BY <1>2, <1>10, <2>4, <2>5 DEF Log!Make
<1> QED
  BY <1>9, <1>10

\* For any number of events and streams, any sizes of the buffers and whatever
\* fails, on either side of the stream or behind it: the way from the agent's
\* collector to the topic is an at-most-once log.  What is in the agent's
\* partition was made, is there once and stays, and no event is in it that was
\* lost with a stream, refused, or failed or forgotten by the producer.
THEOREM WholeWayIsAtMostOnce == PipelineSpec => ImplementsAtMostOnce
<1>1. PipelineInit => Log!Init
  <2> SUFFICES ASSUME PipelineInit PROVE Log!Init
    OBVIOUS
  <2>1. produced = 0 /\ failed = {} /\ forgotten = {}
        /\ topic[OurKey] = <<>> /\ \A k \in Calls : handled[k] = <<>>
    BY Bounds DEF PipelineInit, Agent!Init, Init
  <2>2. Agent!Lost = {} /\ Refused = {}
    BY <2>1 DEF Agent!Lost, Refused, ForeignOf
  <2> QED
    BY <2>1, <2>2 DEF Log!Init, GivenUp
<1>2. PipelineInit => IInv /\ LinkInv /\ InSessionOrder /\ OneCall /\ SpentInv
  BY InitHolds, InitLinks, InitSpends, InitOrdered DEF PipelineInit
<1>3. AP!Facts /\ LinkInv /\ [PipelineNext]_pipelineVars => [Next]_vars
  BY StepOfControlPlane
<1>4. AP!Facts /\ IInv /\ LinkInv /\ [PipelineNext]_pipelineVars => IInv' /\ LinkInv'
  BY <1>3, LinkKept, StepHolds
<1>5. AP!Facts /\ IInv /\ LinkInv /\ InSessionOrder /\ OneCall /\ SpentInv
        /\ [PipelineNext]_pipelineVars => InSessionOrder' /\ OneCall' /\ SpentInv'
  BY <1>3, StepOrdered, StepSpends
<1>6. AP!Facts /\ IInv /\ LinkInv /\ InSessionOrder => LogInv
  BY LogInvHolds
<1>7. AP!Facts /\ IInv /\ LinkInv /\ SpentInv /\ LogInv /\ LogInv' /\ [PipelineNext]_pipelineVars
        => [Log!Make \/ Log!Settle]_(Log!vars)
  BY StepOfLog
<1> QED
  BY <1>1, <1>2, <1>4, <1>5, <1>6, <1>7, AgentFacts, PTL
  DEF PipelineSpec, ImplementsAtMostOnce, Log!Spec

\* What is proved of the agent and of the Control Plane, each on its own, holds
\* when they are put together: order and bounded loss on the agent's side,
\* certified names, honest summaries and the order of calls on the server's.
THEOREM PartsKeepTheirPromises ==
  PipelineSpec => [](/\ AP!InOrder /\ AP!LossIsBounded
                     /\ CertifiedOnly /\ SummaryAddsUp /\ InSessionOrder)
<1>1. PipelineSpec => AP!Spec
  BY AgentAsSpecified
<1>2. AP!Spec => []AP!InOrder
  BY AP!EventsStayInOrder, AgentConstants
<1>3. AP!Spec => []AP!LossIsBounded
  BY AP!LossesAreBounded, AgentConstants
<1>4. PipelineSpec => Spec
  BY ComposedAsSpecified DEF IsAControlPlane
<1>5. (Spec => []CertifiedOnly) /\ (Spec => []SummaryAddsUp) /\ (Spec => []InSessionOrder)
  BY EventsAreCertified, SummariesAddUp, CallsStayInOrder
<1> QED
  BY <1>1, <1>2, <1>3, <1>4, <1>5, PTL
=============================================================================
