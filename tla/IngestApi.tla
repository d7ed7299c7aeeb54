----------------------------- MODULE IngestApi -----------------------------
(***************************************************************************)
(* POST /api/events/ingest (src/src/api.rs): what a request handler does   *)
(* between the two components it calls.  The detection engine says whether *)
(* the event raises an alarm, the alert is saved, the event is handed to   *)
(* the ingestor, the client gets its answer.  Handlers run concurrently,   *)
(* are dropped when their client goes away, and die with the process.      *)
(*                                                                         *)
(* Both components are here by what they promise.  The detection engine    *)
(* raises an alarm for a key when the cooldown since the key's last one is *)
(* over (Detection!CooldownHolds), and forgets everything when the process *)
(* ends.  The ingestor is EventSink, which Ingestor implements.            *)
(*                                                                         *)
(* A definition directly above another, of the same shape and with a name  *)
(* that says what is wrong with it, is a plausible bug: PROJECT.json puts  *)
(* it in the place of the right one to show that a property notices.       *)
(***************************************************************************)
EXTENDS Naturals, Sequences, Functions

CONSTANTS
  Events,        \* the events posted, one per request
  Addresses,     \* values of source_ip
  Actors,        \* values of actor
  AuthCooldown,  \* 60 s
  ScanCooldown,  \* 120 s
  HourLength,    \* an hour, in ticks
  MaxGroup,      \* the most events one flush of the ingestor covers
  FlushPeriods,  \* the values of INGESTOR_FLUSH_MS considered
  BatchSizes,    \* the values of INGESTOR_BATCH_SIZE considered
  MaxCapacity,   \* Vec::with_capacity panics above it
  MaxStall,      \* longest time between a handler's clock reading and its alert
  MaxTime        \* bound: the clock stops here

ASSUME IngestApiAssumption ==
  /\ {AuthCooldown, ScanCooldown, MaxStall, MaxTime} \subseteq Nat
  /\ FlushPeriods \cup BatchSizes \subseteq Nat
  /\ MaxCapacity \in Nat
  /\ {HourLength, MaxGroup} \subseteq Nat \ {0}

VARIABLES
  clock,      \* Utc::now()
  flushMs,    \* the configured timer period of the ingestor
  batchSize,  \* and its configured batch size
  ingesting,  \* the ingestor's worker lives, and the channel is open
  handler,    \* handler[e]: where e's request handler is, or how it ended
  alarm,      \* alarm[e]: the fingerprint of the alert that e raised, if any
  lastAlert,  \* the engine's last_alert of each key
  alerts,     \* the rows of the alerts table, by fingerprint
  pending,    \* the ingestor: accepted events,
  stored,     \* ... rows of the events table,
  lost        \* ... and accepted events that never get one

sink == <<pending, stored, lost>>
ingestor == <<flushMs, batchSize, ingesting>>
vars == <<clock, ingestor, handler, alarm, lastAlert, alerts, sink>>

Sink == INSTANCE EventSink

Times == 0..MaxTime

\* What a detector keeps state by: failed logins by address and actor, port
\* scans by address.
Keys == [kind : {"login"}, ip : Addresses, actor : Actors]
        \cup [kind : {"scan"}, ip : Addresses]

Cooldown(k) == IF k.kind = "login" THEN AuthCooldown ELSE ScanCooldown

\* The alerts table has a UNIQUE fingerprint: type, address and hour.  The
\* actor is not in it.
PerTick(k) == [kind |-> k.kind, ip |-> k.ip, hour |-> clock]
Fingerprint(k) == [kind |-> k.kind, ip |-> k.ip, hour |-> clock \div HourLength]
Fingerprints == [kind : {"login", "scan"}, ip : Addresses,
                 hour : 0..MaxTime \div HourLength]

Running == {"saving", "submitting"}
Answers == {"202", "400", "401", "500 outage", "500 duplicate"}

\* e's handler goes to h.
Goto(e, h) == handler' = [handler EXCEPT ![e] = h]

Init ==
  /\ clock = 0
  /\ flushMs \in FlushPeriods
  /\ batchSize \in BatchSizes
  /\ ingesting = TRUE
  /\ handler = [e \in Events |-> "new"]
  /\ alarm = [e \in Events |-> {}]
  /\ lastAlert = [k \in Keys |-> {}]
  /\ alerts = {}
  /\ Sink!Init

Tick ==
  /\ clock < MaxTime
  /\ clock' = clock + 1
  /\ UNCHANGED <<ingestor, handler, alarm, lastAlert, alerts, sink>>

-----------------------------------------------------------------------------
(* The handler, up to its first await.                                     *)

\* The API key is missing or wrong.
Unauthorized(e) ==
  /\ handler[e] = "new"
  /\ Goto(e, "401")
  /\ UNCHANGED <<clock, ingestor, alarm, lastAlert, alerts, sink>>

\* The payload does not parse, or does not validate.
Invalid(e) ==
  /\ handler[e] = "new"
  /\ Goto(e, "400")
  /\ UNCHANGED <<clock, ingestor, alarm, lastAlert, alerts, sink>>

\* evaluate returns None.
Quiet(e) ==
  /\ handler[e] = "new"
  /\ Goto(e, "submitting")
  /\ UNCHANGED <<clock, ingestor, alarm, lastAlert, alerts, sink>>

\* evaluate returns an alert.  The cooldown starts here, whatever happens to
\* the alert; the fingerprint's hour is read after the time of the hit.
Alarm(e, k) ==
  /\ handler[e] = "new"
  /\ \E now \in Times :
       /\ now <= clock /\ clock <= now + MaxStall
       /\ \A ts \in lastAlert[k] : now > ts + Cooldown(k)
       /\ lastAlert' = [lastAlert EXCEPT ![k] = {now}]
  /\ alarm' = [alarm EXCEPT ![e] = {Fingerprint(k)}]
  /\ Goto(e, "saving")
  /\ UNCHANGED <<clock, ingestor, alerts, sink>>

-----------------------------------------------------------------------------
(* save_alert: one INSERT, committed on its own.                           *)

SaveAlert(e) ==
  /\ handler[e] = "saving"
  /\ alarm[e] \cap alerts = {}
  /\ alerts' = alerts \cup alarm[e]
  /\ Goto(e, "submitting")
  /\ UNCHANGED <<clock, ingestor, alarm, lastAlert, sink>>

\* The fingerprint is there already: `?` returns the error.
SaveConflicts(e) ==
  /\ handler[e] = "saving"
  /\ alarm[e] \subseteq alerts
  /\ Goto(e, "500 duplicate")
  /\ UNCHANGED <<clock, ingestor, alarm, lastAlert, alerts, sink>>

ErrorIsLogged == "submitting"
OnSaveError == "500 outage"

\* No connection in time, or the connection failed, before the INSERT was
\* applied or after.
SaveFails(e) ==
  /\ handler[e] = "saving"
  /\ alerts' \in {alerts, alerts \cup alarm[e]}
  /\ Goto(e, OnSaveError)
  /\ UNCHANGED <<clock, ingestor, alarm, lastAlert, sink>>

-----------------------------------------------------------------------------
(* submit, and the answer.                                                 *)

\* The ingestor takes the event.
Submit(e) ==
  /\ handler[e] = "submitting"
  /\ ingesting
  /\ Sink!Accept(e)
  /\ Goto(e, "202")
  /\ UNCHANGED <<clock, ingestor, alarm, lastAlert, alerts>>

TrySend == TRUE
ChannelClosed == ~ingesting

\* The channel is closed: submit only logs that, and the answer is the same.
SubmitRefused(e) ==
  /\ handler[e] = "submitting"
  /\ ChannelClosed
  /\ Goto(e, "202")
  /\ UNCHANGED <<clock, ingestor, alarm, lastAlert, alerts, sink>>

\* The handler is dropped at an await: its client has gone, or the server is
\* shutting down.  An INSERT that was sent may still be applied.  Or evaluate
\* panics, at a window that no Duration holds.
Drop(e) ==
  /\ handler[e] \in {"new"} \cup Running
  /\ Goto(e, "dropped")
  /\ IF handler[e] = "saving" THEN alerts' \in {alerts, alerts \cup alarm[e]}
                              ELSE UNCHANGED alerts
  /\ UNCHANGED <<clock, ingestor, alarm, lastAlert, sink>>

-----------------------------------------------------------------------------
(* The rest of the process.                                                *)

\* The worker can make its batch and its timer.
WorkerSurvives == batchSize <= MaxCapacity /\ flushMs # 0

\* The ingestor's worker writes a batch, or gives it up.
Flush ==
  /\ ingesting /\ WorkerSurvives
  /\ \E n \in 1..MaxGroup : Sink!Store(n) \/ Sink!Lose(n)
  /\ UNCHANGED <<clock, ingestor, handler, alarm, lastAlert, alerts>>

\* It cannot: it panics as it starts, and the channel is dropped with what is
\* in it.
WorkerDies ==
  /\ ingesting /\ ~WorkerSurvives
  /\ ingesting' = FALSE
  /\ Sink!Collapse(0)
  /\ UNCHANGED <<clock, flushMs, batchSize, handler, alarm, lastAlert, alerts>>

\* The process ends and is started again: handlers, the channel and what the
\* engine knows are gone.  The COMMIT under way, if any, may have been applied.
Restart ==
  /\ \E n \in 0..IF WorkerSurvives THEN MaxGroup ELSE 0 : Sink!Collapse(n)
  /\ \E S \in SUBSET {e \in Events : handler[e] = "saving"} :
       alerts' = alerts \cup UNION {alarm[e] : e \in S}
  /\ handler' = [e \in Events |->
                   IF handler[e] \in Running THEN "dropped" ELSE handler[e]]
  /\ lastAlert' = [k \in Keys |-> {}]
  /\ ingesting' = TRUE
  /\ UNCHANGED <<clock, flushMs, batchSize, alarm>>

-----------------------------------------------------------------------------
Handle(e) == \/ Unauthorized(e) \/ Invalid(e) \/ Quiet(e)
             \/ \E k \in Keys : Alarm(e, k)
             \/ SaveAlert(e) \/ SaveConflicts(e) \/ SaveFails(e)
             \/ Submit(e) \/ SubmitRefused(e) \/ Drop(e)

Next == Tick \/ Flush \/ WorkerDies \/ Restart \/ \E e \in Events : Handle(e)

Spec == Init /\ [][Next]_vars

-----------------------------------------------------------------------------
(* Properties.                                                             *)

\* Every variable has its type.
TypeOK ==
  /\ clock \in Times
  /\ flushMs \in FlushPeriods
  /\ batchSize \in BatchSizes
  /\ ingesting \in BOOLEAN
  /\ handler \in [Events -> {"new", "dropped"} \cup Running \cup Answers]
  /\ alarm \in [Events -> {{}} \cup {{f} : f \in Fingerprints}]
  /\ lastAlert \in [Keys -> {{}} \cup {{ts} : ts \in Times}]
  /\ alerts \subseteq Fingerprints
  /\ Sink!TypeOK

Accepted == Range(pending) \cup stored \cup lost

\* The answer tells what became of the event, although handlers are dropped
\* and the process dies between the steps: the ingestor has taken it exactly
\* when the client got 202 (given a batch and a timer that can be made: else
\* the client gets 202 all the same).  So an error answer leaves no event
\* behind, and a client may post it again.
AnswerIsHonest ==
  \A e \in Events :
    /\ e \in Accepted => handler[e] = "202"
    /\ WorkerSurvives /\ handler[e] = "202" => e \in Accepted

\* An alarm is not swallowed: unless its handler was cut short or told its
\* client of an outage, an alert with its fingerprint is in the table, and it
\* is there before the event that raised it can be.
AlarmIsRecorded ==
  \A e \in Events :
    handler[e] \notin {"saving", "dropped", "500 outage"} => alarm[e] \subseteq alerts

\* The alert is committed before its event is handed over, and the event may
\* never be.  The only alerts that no accepted event of their own stands behind
\* are those whose handler is about to submit it, was cut short, told its client
\* of an outage, or had a dead worker to submit to.  A handler that met the alert
\* of another, and so stored nothing, is no excuse.
AlertHasItsEvent ==
  \A f \in alerts : \E e \in Events :
    /\ f \in alarm[e]
    /\ \/ e \in Accepted
       \/ handler[e] \in {"submitting", "dropped", "500 outage"}
       \/ handler[e] = "202" /\ ~WorkerSurvives

\* What simulate_attack.sh:169-186 expects of the API: while the database
\* works, a valid event posted with a valid key is answered 202.
ValidEventIsAccepted == \A e \in Events : handler[e] # "500 duplicate"
=============================================================================
