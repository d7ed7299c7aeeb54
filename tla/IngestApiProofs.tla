--------------------------- MODULE IngestApiProofs ---------------------------
(***************************************************************************)
(* Theorems about IngestApi for every value of its constants: no alarm is  *)
(* swallowed, a client's answer tells what became of its event, and behind *)
(* every alert is an event.                                                *)
(***************************************************************************)
EXTENDS IngestApi, TLAPS

-----------------------------------------------------------------------------
(* What the sink does to the accepted events.                              *)

\* Cutting a sequence in two loses no element and adds none.
LEMMA CutHolds ==
  ASSUME NEW S, NEW s \in Seq(S), NEW n \in Nat, n <= Len(s)
  PROVE  Range(SubSeq(s, 1, n)) \cup Range(SubSeq(s, n + 1, Len(s))) = Range(s)
<1> DEFINE f == SubSeq(s, 1, n)
           r == SubSeq(s, n + 1, Len(s))
<1>1. /\ f \in Seq(S) /\ Len(f) = n
      /\ \A i \in 1..n : f[i] = s[i]
  OBVIOUS
<1>2. /\ r \in Seq(S) /\ Len(r) = Len(s) - n
      /\ \A i \in 1..Len(s) - n : r[i] = s[n + i]
  OBVIOUS
<1>3. Range(f) \subseteq Range(s)
  BY <1>1 DEF Range
<1>4. Range(r) \subseteq Range(s)
  <2>1. SUFFICES ASSUME NEW i \in 1..Len(s) - n
                 PROVE  r[i] \in Range(s)
    BY <1>2 DEF Range
  <2>2. n + i \in DOMAIN s
    OBVIOUS
  <2>3. QED
    BY <1>2, <2>2 DEF Range
<1>5. Range(s) \subseteq Range(f) \cup Range(r)
  <2>1. SUFFICES ASSUME NEW i \in 1..Len(s)
                 PROVE  s[i] \in Range(f) \cup Range(r)
    BY DEF Range
  <2>2. CASE i <= n
    <3>1. i \in DOMAIN f /\ f[i] = s[i]
      BY <1>1, <2>2
    <3>2. QED
      BY <3>1 DEF Range
  <2>3. CASE i > n
    <3> DEFINE k == i - n
    <3>1. k \in 1..Len(s) - n /\ n + k = i
      BY <2>3
    <3>2. k \in DOMAIN r /\ r[k] = s[i]
      BY <1>2, <3>1
    <3>3. QED
      BY <3>2 DEF Range
  <2>4. QED
    BY <2>2, <2>3
<1>6. QED
  BY <1>3, <1>4, <1>5

\* Appending adds the element.
LEMMA AppendHolds ==
  ASSUME NEW S, NEW s \in Seq(S), NEW x \in S
  PROVE  Range(Append(s, x)) = Range(s) \cup {x}
<1>1. /\ Len(Append(s, x)) = Len(s) + 1
      /\ Append(s, x)[Len(s) + 1] = x
      /\ \A i \in 1..Len(s) : Append(s, x)[i] = s[i]
  OBVIOUS
<1>2. Range(Append(s, x)) \subseteq Range(s) \cup {x}
  BY <1>1 DEF Range
<1>3. Range(s) \cup {x} \subseteq Range(Append(s, x))
  BY <1>1 DEF Range
<1>4. QED
  BY <1>2, <1>3

\* Nothing but Accept changes which events are accepted.
LEMMA SinkKeeps ==
  ASSUME pending \in Seq(Events), NEW n \in Nat,
         Sink!Store(n) \/ Sink!Lose(n) \/ Sink!Collapse(n)
  PROVE  Accepted' = Accepted /\ pending' \in Seq(Events)
<1>1. n <= Len(pending)
  BY DEF Sink!Store, Sink!Lose, Sink!Collapse
<1>2. Sink!Front(n) \cup Range(Sink!Rest(n)) = Range(pending)
  BY <1>1, CutHolds DEF Sink!Front, Sink!Rest, Sink!Range, Range
<1>3. Sink!Rest(n) \in Seq(Events)
  BY <1>1 DEF Sink!Rest
<1>4. <<>> \in Seq(Events) /\ Range(<<>>) = {}
  BY DEF Range
<1>5. CASE Sink!Store(n)
  BY <1>2, <1>3, <1>5 DEF Sink!Store, Accepted
<1>6. CASE Sink!Lose(n)
  BY <1>2, <1>3, <1>6 DEF Sink!Lose, Accepted
<1>7. CASE Sink!Collapse(n)
  BY <1>2, <1>4, <1>7 DEF Sink!Collapse, Accepted, Sink!Range, Range
<1>8. QED
  BY <1>5, <1>6, <1>7

\* Accept adds the event.
LEMMA AcceptAdds ==
  ASSUME pending \in Seq(Events), NEW e \in Events, Sink!Accept(e)
  PROVE  Accepted' = Accepted \cup {e} /\ pending' \in Seq(Events)
<1>1. Range(pending') = Range(pending) \cup {e}
  BY AppendHolds DEF Sink!Accept
<1>2. QED
  BY <1>1 DEF Sink!Accept, Accepted

-----------------------------------------------------------------------------
(* Alarms.                                                                 *)

HandlerStates == {"new", "dropped"} \cup Running \cup Answers

\* handler and alarm are functions on the events.
Typed == /\ handler \in [Events -> HandlerStates]
         /\ alarm = [e \in Events |-> alarm[e]]

\* handler and alarm stay functions on the events.
LEMMA TypedStays == Typed /\ [Next]_vars => Typed'
<1>1. SUFFICES ASSUME Typed, [Next]_vars PROVE Typed'
  OBVIOUS
<1>2. CASE UNCHANGED vars
  BY <1>1, <1>2 DEF vars, Typed
<1>3. ASSUME NEW e \in Events, Handle(e) PROVE Typed'
  BY <1>1, <1>3 DEF Typed, HandlerStates, Running, Answers, Goto, Handle,
     Unauthorized, Invalid, Quiet, Alarm, SaveAlert, SaveConflicts, SaveFails,
     OnSaveError, Submit, SubmitRefused, Drop
<1>4. CASE Tick \/ Flush \/ WorkerDies
  BY <1>1, <1>4 DEF Tick, Flush, WorkerDies, Typed
<1>5. CASE Restart
  BY <1>1, <1>5 DEF Restart, Typed, HandlerStates, Running, Answers
<1>6. QED
  BY <1>1, <1>2, <1>3, <1>4, <1>5 DEF Next

\* Unless its handler was cut short or answered that the database is out, an
\* event that raised an alarm has an alert with its fingerprint in the table:
\* save_alert is awaited, and its errors end the handler (api.rs:24-27).
THEOREM AlarmsAreRecorded == Spec => []AlarmIsRecorded
<1> DEFINE Inv == Typed /\ AlarmIsRecorded
<1>1. Init => Inv
  BY DEF Init, Typed, HandlerStates, AlarmIsRecorded
<1>2. Inv /\ [Next]_vars => Inv'
  <2>1. SUFFICES ASSUME Inv, [Next]_vars PROVE AlarmIsRecorded'
    BY TypedStays
  <2>2. SUFFICES ASSUME NEW d \in Events,
                        handler'[d] \notin {"saving", "dropped", "500 outage"}
                 PROVE  alarm'[d] \subseteq alerts'
    BY DEF AlarmIsRecorded
  <2>3. handler[d] \notin {"saving", "dropped", "500 outage"}
          => alarm[d] \subseteq alerts
    BY <2>1 DEF AlarmIsRecorded
  <2>4. CASE UNCHANGED vars
    BY <2>2, <2>3, <2>4 DEF vars
  <2>5. ASSUME NEW e \in Events, Handle(e) PROVE alarm'[d] \subseteq alerts'
    <3>1. CASE Unauthorized(e) \/ Invalid(e) \/ Quiet(e)
      BY <2>1, <2>2, <2>3, <3>1 DEF Typed, Goto, Unauthorized, Invalid, Quiet
    <3>2. CASE \E k \in Keys : Alarm(e, k)
      BY <2>1, <2>2, <2>3, <3>2 DEF Typed, Goto, Alarm
    <3>3. CASE SaveAlert(e)
      BY <2>1, <2>2, <2>3, <3>3 DEF Typed, Goto, SaveAlert
    <3>4. CASE SaveConflicts(e)
      BY <2>1, <2>2, <2>3, <3>4 DEF Typed, Goto, SaveConflicts
    <3>5. CASE SaveFails(e)
      BY <2>1, <2>2, <2>3, <3>5 DEF Typed, Goto, SaveFails, OnSaveError
    <3>6. CASE Submit(e) \/ SubmitRefused(e)
      BY <2>1, <2>2, <2>3, <3>6 DEF Typed, Goto, Submit, SubmitRefused
    <3>7. CASE Drop(e)
      BY <2>1, <2>2, <2>3, <3>7 DEF Typed, Goto, Drop
    <3>8. QED
      BY <2>5, <3>1, <3>2, <3>3, <3>4, <3>5, <3>6, <3>7 DEF Handle
  <2>6. CASE Tick \/ Flush \/ WorkerDies
    BY <2>2, <2>3, <2>6 DEF Tick, Flush, WorkerDies
  <2>7. CASE Restart
    <3>1. alerts \subseteq alerts' /\ alarm' = alarm
      BY <2>7 DEF Restart
    <3>2. handler'[d] = handler[d]
      BY <2>1, <2>2, <2>7 DEF Restart, Typed
    <3>3. QED
      BY <2>2, <2>3, <3>1, <3>2
  <2>8. QED
    BY <2>1, <2>4, <2>5, <2>6, <2>7 DEF Next
<1>3. QED
  BY <1>1, <1>2, PTL DEF Spec

-----------------------------------------------------------------------------
(* Answers.                                                                *)

\* A 202 means that the ingestor took the event, given a batch size that can be
\* allocated and a timer that works (ingestor.rs:19-20), and any other answer,
\* or none, that it did not: the answer is decided in the step that hands the
\* event over (api.rs:29-31).
THEOREM AnswersAreHonest == Spec => []AnswerIsHonest
<1> DEFINE Inv == /\ Typed
                  /\ pending \in Seq(Events)
                  /\ ingesting \/ ~WorkerSurvives
                  /\ AnswerIsHonest
<1>1. Init => Inv
  <2>1. <<>> \in Seq(Events) /\ Range(<<>>) = {}
    BY DEF Range
  <2>2. QED
    BY <2>1 DEF Init, Sink!Init, Typed, HandlerStates, AnswerIsHonest, Accepted
<1>2. Inv /\ [Next]_vars => Inv'
  <2>1. SUFFICES ASSUME Inv, [Next]_vars
                 PROVE  /\ pending' \in Seq(Events)
                        /\ ingesting' \/ ~WorkerSurvives'
                        /\ AnswerIsHonest'
    BY TypedStays
  <2>2. MaxGroup \in Nat
    BY IngestApiAssumption
  <2>3. CASE UNCHANGED vars
    BY <2>1, <2>3 DEF vars, ingestor, sink, WorkerSurvives, AnswerIsHonest, Accepted
  <2>4. ASSUME NEW e \in Events, Handle(e)
        PROVE  /\ pending' \in Seq(Events)
               /\ ingesting' \/ ~WorkerSurvives'
               /\ AnswerIsHonest'
    <3>1. UNCHANGED ingestor
      BY <2>4 DEF Handle, Unauthorized, Invalid, Quiet, Alarm, SaveAlert,
         SaveConflicts, SaveFails, Submit, SubmitRefused, Drop
    <3>2. CASE UNCHANGED sink /\ handler[e] # "202" /\ Goto(e, handler'[e])
               /\ (handler'[e] = "202" => ~ingesting)
      <4>1. Accepted' = Accepted
        BY <3>2 DEF sink, Accepted
      <4>2. e \notin Accepted
        BY <2>1, <3>2 DEF AnswerIsHonest
      <4>3. AnswerIsHonest'
        BY <2>1, <3>1, <3>2, <4>1, <4>2 DEF AnswerIsHonest, Goto, Typed, ingestor, WorkerSurvives
      <4>4. QED
        BY <2>1, <3>1, <3>2, <4>3 DEF sink, ingestor, WorkerSurvives
    <3>3. CASE Submit(e)
      <4>1. Accepted' = Accepted \cup {e} /\ pending' \in Seq(Events)
        BY <2>1, <3>3, AcceptAdds DEF Submit
      <4>2. AnswerIsHonest'
        BY <2>1, <3>1, <3>3, <4>1 DEF Submit, Goto, AnswerIsHonest, Typed, ingestor,
           WorkerSurvives
      <4>3. QED
        BY <2>1, <3>1, <4>1, <4>2 DEF ingestor, WorkerSurvives
    <3>4. CASE ~Submit(e)
      <4>1. UNCHANGED sink /\ handler[e] # "202" /\ Goto(e, handler'[e])
            /\ (handler'[e] = "202" => ~ingesting)
        BY <2>1, <2>4, <3>4 DEF Typed, Handle, Goto, Running, OnSaveError,
           Unauthorized, Invalid, Quiet, Alarm, SaveAlert, SaveConflicts,
           SaveFails, SubmitRefused, ChannelClosed, Drop
      <4>2. QED
        BY <3>2, <4>1
    <3>5. QED
      BY <3>3, <3>4
  <2>5. CASE Tick
    BY <2>1, <2>5 DEF Tick, ingestor, sink, WorkerSurvives, AnswerIsHonest, Accepted
  <2>6. CASE Flush
    <3>1. Accepted' = Accepted /\ pending' \in Seq(Events)
      BY <2>1, <2>2, <2>6, SinkKeeps DEF Flush
    <3>2. QED
      BY <2>1, <2>6, <3>1 DEF Flush, ingestor, WorkerSurvives, AnswerIsHonest
  <2>7. CASE WorkerDies
    <3>1. Accepted' = Accepted /\ pending' \in Seq(Events)
      BY <2>1, <2>7, SinkKeeps DEF WorkerDies
    <3>2. QED
      BY <2>1, <2>7, <3>1 DEF WorkerDies, WorkerSurvives, AnswerIsHonest
  <2>8. CASE Restart
    <3>1. Accepted' = Accepted /\ pending' \in Seq(Events)
      <4>1. PICK n \in 0..IF WorkerSurvives THEN MaxGroup ELSE 0 : Sink!Collapse(n)
        BY <2>8 DEF Restart
      <4>2. QED
        BY <2>1, <2>2, <4>1, SinkKeeps
    <3>2. \A e \in Events : handler'[e] = "202" <=> handler[e] = "202"
      BY <2>1, <2>8 DEF Restart, Typed, Running
    <3>3. QED
      BY <2>1, <2>8, <3>1, <3>2 DEF Restart, WorkerSurvives, AnswerIsHonest
  <2>9. QED
    BY <2>1, <2>3, <2>4, <2>5, <2>6, <2>7, <2>8 DEF Next
<1>3. QED
  BY <1>1, <1>2, PTL DEF Spec
-----------------------------------------------------------------------------
(* Alerts and their events.                                                *)

\* What the steps below need of the ingestor: the channel is open as long as the
\* worker lives.
Opened == /\ Typed
          /\ pending \in Seq(Events)
          /\ ingesting \/ ~WorkerSurvives

\* That stays so, whether the worker can live does not change, and an accepted
\* event stays accepted.
LEMMA OpenedStays ==
  Opened /\ [Next]_vars => /\ Opened'
                           /\ WorkerSurvives' = WorkerSurvives
                           /\ Accepted \subseteq Accepted'
<1>1. SUFFICES ASSUME Opened, [Next]_vars
               PROVE  /\ pending' \in Seq(Events)
                      /\ ingesting' \/ ~WorkerSurvives'
                      /\ WorkerSurvives' = WorkerSurvives
                      /\ Accepted \subseteq Accepted'
  BY TypedStays DEF Opened
<1>2. MaxGroup \in Nat
  BY IngestApiAssumption
<1>3. CASE UNCHANGED vars
  BY <1>1, <1>3 DEF vars, ingestor, sink, Opened, WorkerSurvives, Accepted
<1>4. ASSUME NEW e \in Events, Handle(e)
      PROVE  /\ UNCHANGED ingestor
             /\ pending' \in Seq(Events)
             /\ Accepted \subseteq Accepted'
  <2>1. UNCHANGED ingestor /\ (Sink!Accept(e) \/ UNCHANGED sink)
    BY <1>4 DEF Handle, Unauthorized, Invalid, Quiet, Alarm, SaveAlert,
       SaveConflicts, SaveFails, Submit, SubmitRefused, Drop
  <2>2. QED
    BY <1>1, <2>1, AcceptAdds DEF Opened, sink, Accepted
<1>5. CASE Tick
  BY <1>1, <1>5 DEF Tick, ingestor, sink, Opened, WorkerSurvives, Accepted
<1>6. CASE Flush \/ WorkerDies \/ Restart
  <2>1. PICK n \in Nat : Sink!Store(n) \/ Sink!Lose(n) \/ Sink!Collapse(n)
    <3>1. 1..MaxGroup \subseteq Nat /\ 0..MaxGroup \subseteq Nat /\ 0..0 \subseteq Nat /\ 0 \in Nat
      BY <1>2
    <3>2. CASE Flush
      BY <3>1, <3>2 DEF Flush
    <3>3. CASE WorkerDies
      BY <3>1, <3>3 DEF WorkerDies
    <3>4. CASE Restart
      BY <3>1, <3>4 DEF Restart
    <3>5. QED
      BY <1>6, <3>2, <3>3, <3>4
  <2>2. Accepted' = Accepted /\ pending' \in Seq(Events)
    BY <1>1, <2>1, SinkKeeps DEF Opened
  <2>3. UNCHANGED <<flushMs, batchSize>> /\ (ingesting' \/ ~WorkerSurvives)
    BY <1>1, <1>6 DEF Flush, WorkerDies, Restart, ingestor, Opened
  <2>4. QED
    BY <2>2, <2>3 DEF WorkerSurvives
<1>7. QED
  BY <1>1, <1>3, <1>4, <1>5, <1>6 DEF Next, Opened, ingestor, WorkerSurvives

\* e is why the alert f is in the table, and what became of e is excused.
StandsBehind(e, f) ==
  /\ f \in alarm[e]
  /\ \/ e \in Accepted
     \/ handler[e] \in {"submitting", "dropped", "500 outage"}
     \/ handler[e] = "202" /\ ~WorkerSurvives

\* Whoever stands behind an alert goes on to do so.
LEMMA BehindStays ==
  ASSUME Opened, [Next]_vars, NEW e \in Events, NEW f, StandsBehind(e, f),
         e \in Accepted => handler[e] = "202"
  PROVE  StandsBehind(e, f)'
<1>1. /\ WorkerSurvives' = WorkerSurvives
      /\ Accepted \subseteq Accepted'
  BY OpenedStays
<1>2. handler[e] \in {"submitting", "dropped", "500 outage", "202"}
  BY DEF StandsBehind
<1>3. alarm'[e] = alarm[e]
  <2>1. ASSUME NEW d \in Events, Handle(d) PROVE alarm'[e] = alarm[e]
    BY <1>2, <2>1 DEF Opened, Typed, Handle, Unauthorized, Invalid, Quiet, Alarm,
       SaveAlert, SaveConflicts, SaveFails, Submit, SubmitRefused, Drop
  <2>2. QED
    BY <2>1 DEF Next, vars, Tick, Flush, WorkerDies, Restart
<1>4. CASE e \in Accepted
  BY <1>1, <1>3, <1>4 DEF StandsBehind
<1>5. CASE e \notin Accepted
  <2>1. \/ e \in Accepted'
        \/ handler'[e] \in {"submitting", "dropped", "500 outage"}
        \/ handler'[e] = "202" /\ ~WorkerSurvives
    <3>1. \/ handler[e] \in {"submitting", "dropped", "500 outage"}
          \/ handler[e] = "202" /\ ~WorkerSurvives
      BY <1>5 DEF StandsBehind
    <3>2. CASE handler'[e] = handler[e]
      BY <3>1, <3>2
    <3>3. CASE Handle(e)
      <4>1. CASE Submit(e)
        BY <4>1, AcceptAdds DEF Submit, Opened
      <4>2. CASE SubmitRefused(e)
        BY <4>2 DEF SubmitRefused, ChannelClosed, Goto, Opened, Typed
      <4>3. CASE Drop(e)
        BY <4>3 DEF Drop, Goto, Opened, Typed
      <4>4. QED
        BY <1>2, <3>3, <4>1, <4>2, <4>3 DEF Handle, Unauthorized, Invalid,
           Quiet, Alarm, SaveAlert, SaveConflicts, SaveFails
    <3>4. CASE Restart
      BY <3>1, <3>4 DEF Restart, Running, Opened, Typed
    <3>5. ASSUME NEW d \in Events, Handle(d), d # e
          PROVE  handler'[e] = handler[e]
      BY <3>5 DEF Opened, Typed, Goto, Handle, Unauthorized, Invalid, Quiet,
         Alarm, SaveAlert, SaveConflicts, SaveFails, Submit, SubmitRefused, Drop
    <3>6. QED
      BY <3>2, <3>3, <3>4, <3>5 DEF Next, vars, Tick, Flush, WorkerDies
  <2>2. QED
    BY <1>1, <1>3, <2>1 DEF StandsBehind
<1>6. QED
  BY <1>4, <1>5

\* An alert that a step adds has its handler behind it.
LEMMA BehindStarts ==
  ASSUME Opened, [Next]_vars, NEW f \in alerts', f \notin alerts
  PROVE  \E e \in Events : StandsBehind(e, f)'
<1>1. CASE Restart
  <2>1. PICK e \in Events : handler[e] = "saving" /\ f \in alarm[e]
    BY <1>1 DEF Restart
  <2>2. handler'[e] = "dropped" /\ f \in alarm'[e]
    BY <1>1, <2>1 DEF Restart, Running
  <2>3. QED
    BY <2>2 DEF StandsBehind
<1>2. ASSUME NEW e \in Events, Handle(e) PROVE StandsBehind(e, f)'
  <2>1. SaveAlert(e) \/ SaveFails(e) \/ Drop(e)
    BY <1>2 DEF Handle, Unauthorized, Invalid, Quiet, Alarm, SaveConflicts,
       Submit, SubmitRefused
  <2>2. f \in alarm[e] /\ alarm' = alarm
    BY <2>1 DEF SaveAlert, SaveFails, Drop
  <2>3. handler'[e] \in {"submitting", "dropped", "500 outage"}
    BY <2>1 DEF SaveAlert, SaveFails, OnSaveError, Drop, Goto, Opened, Typed
  <2>4. QED
    BY <2>2, <2>3 DEF StandsBehind
<1>3. CASE Restart \/ \E e \in Events : Handle(e)
  BY <1>1, <1>2, <1>3
<1>4. QED
  BY <1>3 DEF Next, vars, Tick, Flush, WorkerDies

\* Behind every alert in the table is an event of its own that the ingestor took,
\* unless the handler is on its way there, was cut short, reported an outage, or
\* found the worker dead: the alert is committed first (api.rs:24-29), and
\* whoever meets it again answers an error and stores nothing.
THEOREM AlertsHaveEvents == Spec => []AlertHasItsEvent
<1> DEFINE Inv == Opened /\ AlertHasItsEvent
<1>1. Init => Inv
  <2>1. <<>> \in Seq(Events)
    OBVIOUS
  <2>2. QED
    BY <2>1 DEF Init, Sink!Init, Opened, Typed, HandlerStates, AlertHasItsEvent
<1>2. AnswerIsHonest /\ Inv /\ [Next]_vars => Inv'
  <2>1. SUFFICES ASSUME AnswerIsHonest, Inv, [Next]_vars PROVE Inv'
    OBVIOUS
  <2>2. ASSUME NEW f \in alerts' PROVE \E e \in Events : StandsBehind(e, f)'
    <3>1. CASE f \in alerts
      <4>1. PICK e \in Events : StandsBehind(e, f)
        BY <2>1, <3>1 DEF AlertHasItsEvent, StandsBehind
      <4>2. StandsBehind(e, f)'
        BY <2>1, <4>1, BehindStays DEF AnswerIsHonest
      <4>3. QED
        BY <4>2
    <3>2. CASE f \notin alerts
      BY <2>1, <2>2, <3>2, BehindStarts
    <3>3. QED
      BY <3>1, <3>2
  <2>3. QED
    BY <2>1, <2>2, OpenedStays DEF AlertHasItsEvent, StandsBehind
<1>3. QED
  BY <1>1, <1>2, AnswersAreHonest, PTL DEF Spec

-----------------------------------------------------------------------------
(* Types.                                                                  *)

\* A later time is in the same hour or a later one.
LEMMA HoursGrow ==
  ASSUME NEW a \in Nat, NEW b \in Nat, NEW h \in Nat \ {0}, a <= b
  PROVE  a \div h \in Nat /\ a \div h <= b \div h
<1> DEFINE p == a \div h
           q == b \div h
<1>1. /\ p \in Nat /\ q \in Nat
      /\ h * p <= a /\ b < h * (q + 1)
  OBVIOUS
<1>2. ~(q + 1 <= p)
  <2>1. SUFFICES ASSUME q + 1 <= p PROVE FALSE
    OBVIOUS
  <2>2. h * (q + 1) <= h * p
    <3>1. \A x, y, z \in Nat : x <= y => z * x <= z * y
      OBVIOUS
    <3> HIDE DEF p, q
    <3>2. QED
      BY <1>1, <2>1, <3>1
  <2> HIDE DEF p, q
  <2>3. QED
    BY <1>1, <2>2
<1>3. QED
  BY <1>1, <1>2

LEMMA FingerprintTyped ==
  ASSUME clock \in Times, NEW k \in Keys
  PROVE  Fingerprint(k) \in Fingerprints
<1>1. /\ k.kind \in {"login", "scan"}
      /\ k.ip \in Addresses
  BY DEF Keys
<1>2. clock \div HourLength \in 0..MaxTime \div HourLength
  BY IngestApiAssumption, HoursGrow DEF Times
<1>3. QED
  BY <1>1, <1>2 DEF Fingerprint, Fingerprints

\* Whatever the sink does, its variables keep their types.
LEMMA SinkTyped ==
  ASSUME Sink!TypeOK,
         \/ \E e \in Events : Sink!Accept(e)
         \/ \E n \in Nat : Sink!Store(n) \/ Sink!Lose(n) \/ Sink!Collapse(n)
         \/ UNCHANGED sink
  PROVE  Sink!TypeOK'
<1>1. CASE UNCHANGED sink
  BY <1>1 DEF sink, Sink!TypeOK
<1>2. ASSUME NEW e \in Events, Sink!Accept(e) PROVE Sink!TypeOK'
  BY <1>2, AppendHolds DEF Sink!Accept, Sink!TypeOK
<1>3. ASSUME NEW n \in Nat, Sink!Store(n) \/ Sink!Lose(n) \/ Sink!Collapse(n)
      PROVE  Sink!TypeOK'
  <2>1. pending \in Seq(Events) /\ n <= Len(pending)
    BY <1>3 DEF Sink!TypeOK, Sink!Store, Sink!Lose, Sink!Collapse
  <2>2. Range(pending) \subseteq Events
    BY <2>1 DEF Range
  <2>3. Sink!Front(n) \cup Range(Sink!Rest(n)) = Range(pending)
    BY <2>1, CutHolds DEF Sink!Front, Sink!Rest, Sink!Range, Range
  <2>4. Sink!Rest(n) \in Seq(Events)
    BY <2>1 DEF Sink!Rest
  <2>5. /\ Sink!Front(n) \subseteq Events
        /\ Sink!Range(Sink!Rest(n)) \subseteq Events
    BY <2>2, <2>3 DEF Sink!Range, Range
  <2>6. /\ pending' \in {Sink!Rest(n), <<>>}
        /\ stored' \in {stored, stored \cup Sink!Front(n)}
        /\ lost' \in {lost, lost \cup Sink!Front(n), lost \cup Sink!Range(Sink!Rest(n))}
    BY <1>3 DEF Sink!Store, Sink!Lose, Sink!Collapse
  <2>7. <<>> \in Seq(Events)
    OBVIOUS
  <2>8. /\ pending' \in Seq(Events)
        /\ stored' \subseteq Events
        /\ lost' \subseteq Events
    <3>1. stored \subseteq Events /\ lost \subseteq Events
      BY DEF Sink!TypeOK
    <3>2. QED
      BY <2>4, <2>5, <2>6, <2>7, <3>1
  <2>9. QED
    BY <2>8 DEF Sink!TypeOK
<1>4. QED
  BY <1>1, <1>2, <1>3

\* A handler changes only its own place, raises at most one alarm, and saves no
\* other alert than its own.
LEMMA HandlerTyped ==
  ASSUME TypeOK, NEW e \in Events, Handle(e)
  PROVE  TypeOK'
<1>1. /\ UNCHANGED <<clock, ingestor>>
      /\ Sink!TypeOK'
  <2>1. /\ UNCHANGED <<clock, ingestor>>
        /\ Sink!Accept(e) \/ UNCHANGED sink
    BY DEF Handle, Unauthorized, Invalid, Quiet, Alarm, SaveAlert,
       SaveConflicts, SaveFails, Submit, SubmitRefused, Drop
  <2>2. QED
    BY <2>1, SinkTyped DEF TypeOK
<1>2. handler' \in [Events -> {"new", "dropped"} \cup Running \cup Answers]
  BY DEF TypeOK, Handle, Goto, Running, Answers, Unauthorized, Invalid, Quiet,
     Alarm, SaveAlert, SaveConflicts, SaveFails, OnSaveError, Submit,
     SubmitRefused, Drop
<1>3. /\ alarm' \in [Events -> {{}} \cup {{f} : f \in Fingerprints}]
      /\ lastAlert' \in [Keys -> {{}} \cup {{ts} : ts \in Times}]
  <2>1. ASSUME NEW k \in Keys, Alarm(e, k)
        PROVE  /\ alarm' \in [Events -> {{}} \cup {{f} : f \in Fingerprints}]
               /\ lastAlert' \in [Keys -> {{}} \cup {{ts} : ts \in Times}]
    <3>1. Fingerprint(k) \in Fingerprints
      BY FingerprintTyped DEF TypeOK
    <3>2. PICK now \in Times : lastAlert' = [lastAlert EXCEPT ![k] = {now}]
      BY <2>1 DEF Alarm
    <3>3. alarm' = [alarm EXCEPT ![e] = {Fingerprint(k)}]
      BY <2>1 DEF Alarm
    <3>4. QED
      BY <3>1, <3>2, <3>3 DEF TypeOK
  <2>2. CASE ~\E k \in Keys : Alarm(e, k)
    <3>1. UNCHANGED <<alarm, lastAlert>>
      BY <2>2 DEF Handle, Unauthorized, Invalid, Quiet, SaveAlert,
         SaveConflicts, SaveFails, Submit, SubmitRefused, Drop
    <3>2. QED
      BY <3>1 DEF TypeOK
  <2>3. QED
    BY <2>1, <2>2
<1>4. alerts' \subseteq Fingerprints
  <2>1. alarm[e] \subseteq Fingerprints
    BY DEF TypeOK
  <2>2. alerts' \in {alerts, alerts \cup alarm[e]}
    BY DEF Handle, Unauthorized, Invalid, Quiet, Alarm, SaveAlert,
       SaveConflicts, SaveFails, Submit, SubmitRefused, Drop
  <2>3. QED
    BY <2>1, <2>2 DEF TypeOK
<1>5. QED
  BY <1>1, <1>2, <1>3, <1>4 DEF TypeOK, ingestor

\* Every variable of the handlers, the engine's cooldowns, the alerts table and
\* the sink keeps its type (api.rs:14-31).
THEOREM TypeCorrect == Spec => []TypeOK
<1>1. Init => TypeOK
  <2>1. SUFFICES ASSUME Init PROVE TypeOK
    OBVIOUS
  <2>2. clock \in Times
    BY <2>1, IngestApiAssumption DEF Init, Times
  <2>3. Sink!TypeOK
    BY <2>1 DEF Init, Sink!Init, Sink!TypeOK
  <2>4. QED
    BY <2>1, <2>2, <2>3 DEF Init, TypeOK
<1>2. TypeOK /\ [Next]_vars => TypeOK'
  <2>1. SUFFICES ASSUME TypeOK, [Next]_vars PROVE TypeOK'
    OBVIOUS
  <2>2. 1..MaxGroup \subseteq Nat /\ 0..MaxGroup \subseteq Nat
    BY IngestApiAssumption
  <2>3. CASE UNCHANGED vars
    <3>1. Sink!TypeOK'
      BY <2>1, <2>3, SinkTyped DEF vars, TypeOK
    <3>2. QED
      BY <2>1, <2>3, <3>1 DEF vars, ingestor, TypeOK
  <2>4. CASE Tick
    <3>1. Sink!TypeOK'
      BY <2>1, <2>4, SinkTyped DEF Tick, TypeOK
    <3>2. clock' \in Times
      BY <2>1, <2>4, IngestApiAssumption DEF Tick, TypeOK, Times
    <3>3. QED
      BY <2>1, <2>4, <3>1, <3>2 DEF Tick, ingestor, TypeOK
  <2>5. CASE Flush
    <3>1. Sink!TypeOK'
      BY <2>1, <2>2, <2>5, SinkTyped DEF Flush, TypeOK
    <3>2. QED
      BY <2>1, <2>5, <3>1 DEF Flush, ingestor, TypeOK
  <2>6. CASE WorkerDies
    <3>1. Sink!TypeOK'
      BY <2>1, <2>6, SinkTyped DEF WorkerDies, TypeOK
    <3>2. QED
      BY <2>1, <2>6, <3>1 DEF WorkerDies, TypeOK
  <2>7. CASE Restart
    <3>1. Sink!TypeOK'
      <4>1. PICK n \in 0..IF WorkerSurvives THEN MaxGroup ELSE 0 : Sink!Collapse(n)
        BY <2>7 DEF Restart
      <4>2. n \in Nat
        BY <2>2, <4>1
      <4>3. QED
        BY <2>1, <4>1, <4>2, SinkTyped DEF TypeOK
    <3>2. alerts' \subseteq Fingerprints
      <4>1. \A e \in Events : alarm[e] \subseteq Fingerprints
        BY <2>1 DEF TypeOK
      <4>2. PICK S \in SUBSET {e \in Events : handler[e] = "saving"} :
              alerts' = alerts \cup UNION {alarm[e] : e \in S}
        BY <2>7 DEF Restart
      <4>3. QED
        BY <2>1, <4>1, <4>2 DEF TypeOK
    <3>3. /\ handler' \in [Events -> {"new", "dropped"} \cup Running \cup Answers]
          /\ lastAlert' \in [Keys -> {{}} \cup {{ts} : ts \in Times}]
      BY <2>1, <2>7 DEF Restart, TypeOK
    <3>4. QED
      BY <2>1, <2>7, <3>1, <3>2, <3>3 DEF Restart, TypeOK
  <2>8. CASE \E e \in Events : Handle(e)
    BY <2>1, <2>8, HandlerTyped
  <2>9. QED
    BY <2>1, <2>3, <2>4, <2>5, <2>6, <2>7, <2>8 DEF Next
<1>3. QED
  BY <1>1, <1>2, PTL DEF Spec
=============================================================================
