---------------------------- MODULE ControlPlane ----------------------------
(***************************************************************************)
(* The Control Plane (sentinelops-control): an interceptor that takes the  *)
(* agent's name from its certificate, the gRPC service with its streaming  *)
(* and its unary method, and the publisher that hands accepted events to a *)
(* Kafka producer.  The producer is asynchronous: a call goes on, is       *)
(* counted and answered while the broker has yet to take its events, and a *)
(* failure is only logged.                                                 *)
(*                                                                         *)
(* Each call is served by a virtual thread of its own, one message at a    *)
(* time; calls share nothing but the producer.  An event is its id; what   *)
(* matters of its content is the agent_id it claims.                       *)
(*                                                                         *)
(* A definition directly above another, of the same shape and with a name  *)
(* that says what is wrong with it, is a plausible bug: PROJECT.json puts  *)
(* it in the place of the right one to show that a property notices.       *)
(***************************************************************************)
EXTENDS Naturals, Sequences, SequencesExt, FiniteSets

CONSTANTS
  Calls,        \* StreamEvents calls
  Requests,     \* SendEvent calls
  Events,       \* event ids: fresh UUIDs, so each is sent once
  Names,        \* agents' names
  BufferMemory  \* records of one agent that the producer holds

ASSUME ControlPlaneAssumption ==
  /\ Calls \cap Requests = {}
  /\ BufferMemory \in Nat \ {0}

VARIABLES
  call,      \* where a call is
  cert,      \* the name in its client certificate, as it is spelled there
  certCN,    \* CERT_CN in its context
  accepted,  \* counters of a StreamEvents call
  rejected,
  handled,   \* history: the messages it was given, in order
  buffer,    \* the producer's records, per partition key
  topic,     \* the topic's records, per partition key
  failed,    \* events whose publishing failed
  forgotten  \* events the producer still held when the process ended

counters == <<accepted, rejected>>
sessions == <<call, cert, certCN, counters, handled>>
kafka    == <<buffer, topic, failed, forgotten>>
vars     == <<sessions, kafka>>

AnyCall == Calls \cup Requests

\* A name as somebody spells it, and what toLowerCase makes of it.
Spellings == [name : Names, lower : BOOLEAN]
ToLowerCase(s) == [s EXCEPT !.lower = TRUE]

\* The producer's key is a CN in lower case; one partition each.
Keys == {s \in Spellings : s.lower}

NoName == [name |-> "none", lower |-> FALSE]

Messages == [id : Events, agent : Spellings]

\* A call has ended with a status other than OK, or with an answer.
Ended   == {"unauthenticated", "broken", "ACK", "mismatch", "completed"}
CallStates == {"new", "open"} \cup Ended

Init ==
  /\ call = [c \in AnyCall |-> "new"]
  /\ cert \in [AnyCall -> Spellings \cup {NoName}]
  /\ certCN = [c \in AnyCall |-> NoName]
  /\ accepted = [c \in Calls |-> 0]
  /\ rejected = [c \in Calls |-> 0]
  /\ handled = [c \in AnyCall |-> <<>>]
  /\ buffer = [k \in Keys |-> <<>>]
  /\ topic = [k \in Keys |-> <<>>]
  /\ failed = {}
  /\ forgotten = {}

Goto(c, state) == call' = [call EXCEPT ![c] = state]

-----------------------------------------------------------------------------
(* AgentIdentityInterceptor. *)

\* No certificate, or none with a CN.
Unauthenticated(c) ==
  /\ call[c] = "new"
  /\ cert[c] = NoName
  /\ Goto(c, "unauthenticated")
  /\ UNCHANGED <<cert, certCN, counters, handled, kafka>>

\* The CN goes into the call's context, and the service is called.
CNAsSpelled(c) == cert[c]
CN(c)          == ToLowerCase(cert[c])
Intercept(c) ==
  /\ call[c] = "new"
  /\ cert[c] # NoName
  /\ certCN' = [certCN EXCEPT ![c] = CN(c)]
  /\ Goto(c, "open")
  /\ UNCHANGED <<cert, counters, handled, kafka>>

-----------------------------------------------------------------------------
(* KafkaEventPublisher.publish, by how it ends. *)

\* The envelope is handed to the producer, under the certified name.  send()
\* waits for room.
OneTooMany(key)      == Len(buffer[key]) <= BufferMemory
HasRoom(key)         == Len(buffer[key]) < BufferMemory
ByAnyThread(key, e)  == <<e>> \o buffer[key]
InCallOrder(key, e)  == Append(buffer[key], e)
Enqueue(key, e) ==
  /\ HasRoom(key)
  /\ buffer' = [buffer EXCEPT ![key] = InCallOrder(key, e)]
  /\ UNCHANGED <<topic, failed, forgotten>>

\* The envelope cannot be serialised: that is logged, and publish returns.
NotSerialised(e) ==
  /\ failed' = failed \cup {e}
  /\ UNCHANGED <<buffer, topic, forgotten>>

\* send() throws: the producer has waited too long for room or for the topic's
\* metadata.  publish does not catch it.
SendThrows(e) ==
  /\ failed' = failed \cup {e}
  /\ UNCHANGED <<buffer, topic, forgotten>>

Publish(key, e) == Enqueue(key, e) \/ NotSerialised(e)

-----------------------------------------------------------------------------
(* IngestionServiceImpl. *)

Unchecked(c, m) == TRUE
Matches(c, m)   == ToLowerCase(m.agent) = certCN[c]

Count(counter, c) == [counter EXCEPT ![c] = @ + 1]

\* streamEvents: onNext with an event of another agent.
OnNextRejects(c, m) ==
  /\ call[c] = "open"
  /\ ~Matches(c, m)
  /\ rejected' = Count(rejected, c)
  /\ handled' = [handled EXCEPT ![c] = Append(@, m)]
  /\ UNCHANGED <<call, cert, certCN, accepted, kafka>>

\* onNext with the agent's own event: it is counted as soon as publish returns.
OnNextAccepts(c, m) ==
  /\ call[c] = "open"
  /\ Matches(c, m)
  /\ Publish(certCN[c], m.id)
  /\ accepted' = Count(accepted, c)
  /\ handled' = [handled EXCEPT ![c] = Append(@, m)]
  /\ UNCHANGED <<call, cert, certCN, rejected>>

\* publish throws out of onNext: gRPC ends the call, nothing is counted.
OnNextThrows(c, m) ==
  /\ call[c] = "open"
  /\ Matches(c, m)
  /\ SendThrows(m.id)
  /\ Goto(c, "broken")
  /\ handled' = [handled EXCEPT ![c] = Append(@, m)]
  /\ UNCHANGED <<cert, certCN, counters>>

OnNext(c, m) == OnNextRejects(c, m) \/ OnNextAccepts(c, m)

\* The agent has closed its side: it gets the counters, as a StreamSummary.
OnCompleted(c) ==
  /\ call[c] = "open"
  /\ Goto(c, "completed")
  /\ UNCHANGED <<cert, certCN, counters, handled, kafka>>

\* The connection broke, or the agent cancelled the call.
OnError(c) ==
  /\ call[c] \in {"new", "open"}
  /\ Goto(c, "broken")
  /\ UNCHANGED <<cert, certCN, counters, handled, kafka>>

\* sendEvent with an event of another agent, and with the agent's own.
SendEventRejects(r, m) ==
  /\ call[r] = "open"
  /\ ~Matches(r, m)
  /\ Goto(r, "mismatch")
  /\ handled' = [handled EXCEPT ![r] = Append(@, m)]
  /\ UNCHANGED <<cert, certCN, counters, kafka>>

\* The answer follows at once; the client gets it, unless publish throws or
\* the connection breaks first.
SendEventPublishes(r, m) ==
  /\ call[r] = "open"
  /\ Matches(r, m)
  /\ \/ Publish(certCN[r], m.id) /\ \E answer \in {"ACK", "broken"} : Goto(r, answer)
     \/ SendThrows(m.id) /\ Goto(r, "broken")
  /\ handled' = [handled EXCEPT ![r] = Append(@, m)]
  /\ UNCHANGED <<cert, certCN, counters>>

-----------------------------------------------------------------------------
(* The Kafka producer: idempotent, with acks=all, so that each partition gets *)
(* its records in order and once.                                             *)

\* What is left when the oldest record of a partition is done with.
SendsAgain(key) == buffer[key]
RestOf(key)     == Tail(buffer[key])

\* The broker confirms the oldest record of a partition.
Ack(key) ==
  /\ buffer[key] # <<>>
  /\ topic' = [topic EXCEPT ![key] = Append(@, Head(buffer[key]))]
  /\ buffer' = [buffer EXCEPT ![key] = RestOf(key)]
  /\ UNCHANGED <<sessions, failed, forgotten>>

\* Its retries are used up: whenComplete logs an ERROR.  The record may be in
\* the topic all the same, when only the confirmations were lost.
PublishFails(key) ==
  /\ buffer[key] # <<>>
  /\ failed' = failed \cup {Head(buffer[key])}
  /\ topic' \in {topic, [topic EXCEPT ![key] = Append(@, Head(buffer[key]))]}
  /\ buffer' = [buffer EXCEPT ![key] = RestOf(key)]
  /\ UNCHANGED <<sessions, forgotten>>

\* The process ends and is started again: its calls break, and what the
\* producer held is gone, except what the broker has already taken.
Restart ==
  /\ \E n \in [Keys -> 0..BufferMemory] :
       /\ \A k \in Keys : n[k] <= Len(buffer[k])
       /\ topic' = [k \in Keys |-> topic[k] \o SubSeq(buffer[k], 1, n[k])]
       /\ forgotten' = forgotten \cup
            UNION {ToSet(SubSeq(buffer[k], n[k] + 1, Len(buffer[k]))) : k \in Keys}
  /\ buffer' = [k \in Keys |-> <<>>]
  /\ call' = [c \in AnyCall |->
                IF call[c] = "open" THEN "broken" ELSE call[c]]
  /\ UNCHANGED <<cert, certCN, counters, handled, failed>>

-----------------------------------------------------------------------------

\* Event ids are fresh UUIDs: nobody sends one twice.
Sent  == UNION {{m.id : m \in ToSet(handled[c])} : c \in AnyCall}
Fresh == {m \in Messages : m.id \notin Sent}

Service(c) == \/ Unauthenticated(c) \/ Intercept(c)
              \/ /\ c \in Calls
                 /\ \/ OnCompleted(c) \/ OnError(c)
                    \/ \E m \in Fresh : OnNext(c, m) \/ OnNextThrows(c, m)
              \/ /\ c \in Requests
                 /\ \E m \in Fresh : SendEventRejects(c, m) \/ SendEventPublishes(c, m)
Producer == \E key \in Keys : Ack(key) \/ PublishFails(key)

Next == (\E c \in AnyCall : Service(c)) \/ Producer \/ Restart

Spec == Init /\ [][Next]_vars

-----------------------------------------------------------------------------
(* Properties. *)

\* Every variable has its type, and the producer holds what it has memory for.
TypeOK ==
  /\ call \in [AnyCall -> CallStates]
  /\ cert \in [AnyCall -> Spellings \cup {NoName}]
  /\ certCN \in [AnyCall -> Keys \cup {NoName}]
  /\ accepted \in [Calls -> Nat]
  /\ rejected \in [Calls -> Nat]
  /\ handled \in [AnyCall -> Seq(Messages)]
  /\ buffer \in [Keys -> Seq(Events)]
  /\ \A key \in Keys : Len(buffer[key]) <= BufferMemory
  /\ topic \in [Keys -> Seq(Events)]
  /\ failed \subseteq Events
  /\ forgotten \subseteq Events

\* The event belongs to the agent that holds the call's certificate, in
\* whatever case the two names are spelled.
Own(c, m) == cert[c] # NoName /\ m.agent.name = cert[c].name

\* A partition's records, those of the broker before those of the producer, and
\* all that has been accepted.
Partition(key) == topic[key] \o buffer[key]
Published      == failed \cup forgotten \cup UNION {ToSet(Partition(key)) : key \in Keys}

\* An event is on its way to the topic, in it, or lost after it was accepted, if
\* and only if it came in a call whose certificate names the agent it claims,
\* and it is in that agent's partition only, whatever other calls do meanwhile
\* (IngestionServiceImpl.java:15-17, "never silently passed").
CertifiedOnly ==
  /\ \A c \in AnyCall : \A m \in ToSet(handled[c]) : m.id \in Published <=> Own(c, m)
  /\ \A key \in Keys : \A e \in ToSet(Partition(key)) :
       \E c \in AnyCall : \E m \in ToSet(handled[c]) :
         m.id = e /\ Own(c, m) /\ key.name = cert[c].name

\* The messages of a call that were its agent's own, and those that were not, by
\* their place.
OwnOf(c)     == {i \in DOMAIN handled[c] : Own(c, handled[c][i])}
ForeignOf(c) == {i \in DOMAIN handled[c] : ~Own(c, handled[c][i])}

\* A completed call tells its agent how many of its events were its own and how
\* many were not; a call that publish broke is one short of them; a unary call
\* tells it of its one event.  (It says nothing of what became of them.)
SummaryAddsUp ==
  /\ \A c \in Calls : LET own == Cardinality(OwnOf(c)) IN
       /\ call[c] = "completed" => accepted[c] = own
       /\ call[c] = "broken"    => accepted[c] \in {own, own - 1}
       /\ rejected[c] = Cardinality(ForeignOf(c))
  /\ \A r \in Requests :
       /\ call[r] = "ACK"      => Cardinality(OwnOf(r)) = 1
       /\ call[r] = "mismatch" => Cardinality(ForeignOf(r)) = 1

\* What one call published is in its partition in the order the agent sent it,
\* also when some of it failed in between, and each event at most once.  (Two
\* calls of one agent may overlap; their events may then mix.)
InSessionOrder ==
  \A key \in Keys :
    /\ IsInjective(Partition(key))
    /\ \A c \in AnyCall : \A i, j \in DOMAIN Partition(key), p, q \in DOMAIN handled[c] :
         /\ handled[c][p].id = Partition(key)[i]
         /\ handled[c][q].id = Partition(key)[j]
         /\ p < q
         => i < j
=============================================================================
