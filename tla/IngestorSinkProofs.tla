------------------------- MODULE IngestorSinkProofs -------------------------
(***************************************************************************)
(* The ingestor implements EventSink, and one bad event takes no more than *)
(* its own flush with it: for every set of events, capacity and batch.     *)
(***************************************************************************)
EXTENDS IngestorProofs

-----------------------------------------------------------------------------
(* Sequences.                                                              *)

LEMMA ConcatCut ==
  ASSUME NEW S, NEW s \in Seq(S), NEW t \in Seq(S)
  PROVE  /\ SubSeq(s \o t, 1, Len(s)) = s
         /\ SubSeq(s \o t, Len(s) + 1, Len(s \o t)) = t
<1> DEFINE st == s \o t
<1>1. /\ st \in Seq(S) /\ Len(st) = Len(s) + Len(t)
      /\ \A i \in 1..Len(s) + Len(t) : st[i] = IF i <= Len(s) THEN s[i] ELSE t[i - Len(s)]
      /\ Len(s) \in Nat /\ Len(t) \in Nat
  BY ConcatProperties, LenProperties
<1> HIDE DEF st
<1>2. \A i \in 1..Len(st) : st[i] \in S
  BY <1>1, ElementOfSeq
<1>3. SubSeq(st, 1, Len(s)) = s
  <2> DEFINE f == SubSeq(st, 1, Len(s))
  <2>1. /\ f \in Seq(S)
        /\ Len(f) = IF 1 <= Len(s) THEN Len(s) - 1 + 1 ELSE 0
        /\ \A i \in 1..Len(s) - 1 + 1 : f[i] = st[1 + i - 1]
    BY <1>1, <1>2, SubSeqProperties
  <2> HIDE DEF f
  <2>2. Len(f) = Len(s) /\ \A i \in 1..Len(s) : f[i] = s[i]
    BY <1>1, <2>1
  <2>3. f = s
    BY <2>1, <2>2, SeqEqual
  <2> QED
    BY <2>3 DEF f
<1>4. SubSeq(st, Len(s) + 1, Len(st)) = t
  <2> DEFINE r == SubSeq(st, Len(s) + 1, Len(st))
  <2>1. /\ r \in Seq(S)
        /\ Len(r) = IF Len(s) + 1 <= Len(st) THEN Len(st) - (Len(s) + 1) + 1 ELSE 0
        /\ \A i \in 1..Len(st) - (Len(s) + 1) + 1 : r[i] = st[Len(s) + 1 + i - 1]
    BY <1>1, <1>2, SubSeqProperties
  <2> HIDE DEF r
  <2>2. Len(r) = Len(t)
    BY <1>1, <2>1
  <2>3. ASSUME NEW i \in 1..Len(t)
        PROVE  r[i] = t[i]
    <3>1. /\ i \in 1..Len(st) - (Len(s) + 1) + 1
          /\ Len(s) + 1 + i - 1 = Len(s) + i
          /\ Len(s) + i \in 1..Len(s) + Len(t) /\ ~(Len(s) + i <= Len(s))
          /\ Len(s) + i - Len(s) = i
      BY <1>1
    <3> QED
      BY <1>1, <2>1, <3>1
  <2>4. r = t
    BY <1>1, <2>1, <2>2, <2>3, SeqEqual
  <2> QED
    BY <2>4 DEF r
<1> QED
  BY <1>3, <1>4 DEF st

LEMMA AppendMoves ==
  ASSUME NEW S, NEW s \in Seq(S), NEW t \in Seq(S), NEW e \in S
  PROVE  s \o Append(t, e) = Append(s \o t, e)
<1>1. <<e>> \in Seq(S)
  OBVIOUS
<1>2. Append(t, e) = t \o <<e>> /\ s \o t \in Seq(S)
  BY AppendIsConcat, ConcatProperties
<1>3. s \o (t \o <<e>>) = (s \o t) \o <<e>>
  BY <1>1, ConcatAssociative
<1> QED
  BY <1>2, <1>3, AppendIsConcat

LEMMA HeadMoves ==
  ASSUME NEW S, NEW s \in Seq(S), NEW t \in Seq(S), t # <<>>
  PROVE  Append(s, Head(t)) \o Tail(t) = s \o t
<1>1. /\ Head(t) \in S /\ Tail(t) \in Seq(S) /\ Len(Tail(t)) = Len(t) - 1
      /\ \A i \in 1..Len(t) - 1 : Tail(t)[i] = t[i + 1]
      /\ Head(t) = t[1] /\ Len(t) \in Nat \ {0} /\ Len(s) \in Nat
  BY HeadTailProperties, LenProperties, EmptySeq
<1> DEFINE a == Append(s, Head(t))
<1>2. /\ a \in Seq(S) /\ Len(a) = Len(s) + 1
      /\ \A i \in 1..Len(s) : a[i] = s[i]
      /\ a[Len(s) + 1] = t[1]
  BY <1>1, AppendProperties
<1> HIDE DEF a
<1> DEFINE l == a \o Tail(t)
           r == s \o t
<1>3. /\ l \in Seq(S) /\ Len(l) = Len(a) + Len(Tail(t))
      /\ \A i \in 1..Len(a) + Len(Tail(t)) :
           l[i] = IF i <= Len(a) THEN a[i] ELSE Tail(t)[i - Len(a)]
  BY <1>1, <1>2, ConcatProperties
<1>4. /\ r \in Seq(S) /\ Len(r) = Len(s) + Len(t)
      /\ \A i \in 1..Len(s) + Len(t) : r[i] = IF i <= Len(s) THEN s[i] ELSE t[i - Len(s)]
  BY ConcatProperties
<1> HIDE DEF l, r
<1>5. Len(l) = Len(r)
  BY <1>1, <1>2, <1>3, <1>4
<1>6. ASSUME NEW i \in 1..Len(l)
      PROVE  l[i] = r[i]
  <2>1. CASE i <= Len(s)
    <3>1. /\ i \in 1..Len(s) /\ i <= Len(a)
          /\ i \in 1..Len(a) + Len(Tail(t)) /\ i \in 1..Len(s) + Len(t)
      BY <1>1, <1>2, <1>3, <2>1
    <3> QED
      BY <1>2, <1>3, <1>4, <2>1, <3>1
  <2>2. CASE i = Len(s) + 1
    BY <1>1, <1>2, <1>3, <1>4, <2>2
  <2>3. CASE i > Len(s) + 1
    <3>1. /\ i - Len(a) \in 1..Len(t) - 1
          /\ i - Len(a) + 1 = i - Len(s)
      BY <1>1, <1>2, <1>3, <2>3
    <3>2. l[i] = t[i - Len(s)]
      BY <1>1, <1>2, <1>3, <2>3, <3>1
    <3> QED
      BY <1>1, <1>2, <1>3, <1>4, <1>5, <2>3, <3>2
  <2> QED
    BY <1>1, <1>3, <2>1, <2>2, <2>3
<1>7. l = r
  BY <1>3, <1>4, <1>5, <1>6, SeqEqual
<1> QED
  BY <1>7 DEF a, l, r

-----------------------------------------------------------------------------
(* What a transaction holds, and which events have rows.                   *)

\* The open transaction holds the rows of the events before the cursor, all of
\* them when it is committed.
RowInv ==
  /\ pc = "insert_event" => txnEvents = {drained[i] : i \in 1..next - 1}
  /\ pc = "insert_features" => /\ txnEvents = {drained[i] : i \in 1..next}
                               /\ txnFeatures = {drained[i] : i \in 1..next - 1}
  /\ pc = "commit" => txnEvents = Range(drained)

\* An event with a row is settled; a worker that has just started holds none.
CommittedInv ==
  /\ \A e \in events : fate[e] \notin {"new", "submitted"}
  /\ pc = "start" => batch = <<>>

LEMMA InitRows == Init => RowInv /\ CommittedInv
BY DEF Init, FreshWorker, RowInv, CommittedInv

LEMMA StepRows ==
  ASSUME TypeOK, VectorInv, TxnInv, RowInv, [Next]_vars
  PROVE  RowInv'
<1> USE DEF process, worker, txn, tables
<1>1. ASSUME NEW e \in Events, Handler(e)
      PROVE  RowInv'
  BY <1>1 DEF Handler, Submit, Enqueue, Refuse, Abandon, RowInv
<1>2. CASE Start \/ Recv \/ RecvClosed \/ Tick
  BY <1>2 DEF Start, Recv, RecvClosed, OnClosed, Tick, RowInv
<1>3. CASE Begin
  <2>1. pc' = "insert_event" /\ next' = 1 /\ txnEvents' = {}
    BY <1>3 DEF Begin, VectorInv, Writing
  <2>2. 1..next' - 1 = {}
    BY <2>1
  <2> QED
    BY <2>1, <2>2 DEF RowInv
<1>4. CASE InsertEvent
  <2>1. /\ pc' = "insert_features" /\ next' = next /\ drained' = drained
        /\ txnEvents' = {drained[i] : i \in 1..next - 1} \cup {drained[next]}
        /\ txnFeatures' = {drained[i] : i \in 1..next - 1}
        /\ next \in Nat \ {0}
    BY <1>4 DEF InsertEvent, RowInv, TxnInv, TypeOK
  <2>2. 1..next = 1..next - 1 \cup {next}
    BY <2>1
  <2> QED
    BY <2>1, <2>2 DEF RowInv
<1>5. CASE InsertFeatures
  <2>1. /\ drained' = drained /\ txnEvents' = txnEvents
        /\ txnEvents = {drained[i] : i \in 1..next}
        /\ next \in 1..Len(drained)
        /\ DOMAIN drained = 1..Len(drained) /\ Len(drained) \in Nat
    BY <1>5, LenProperties DEF InsertFeatures, RowInv, TypeOK
  <2>2. CASE MoreRows
    <3>1. pc' = "insert_event" /\ next' = next + 1
      BY <1>5, <2>2 DEF InsertFeatures
    <3>2. next' - 1 = next
      BY <2>1, <3>1
    <3> QED
      BY <2>1, <3>1, <3>2 DEF RowInv
  <2>3. CASE ~MoreRows
    <3>1. pc' = "commit"
      BY <1>5, <2>3 DEF InsertFeatures
    <3>2. next = Len(drained)
      <4>1. next \in 1..Len(drained) /\ Len(drained) \in Nat
        BY <2>1
      <4>2. ~(next < Len(drained))
        BY <2>3 DEF MoreRows
      <4> QED
        BY <4>1, <4>2
    <3>3. txnEvents = Range(drained)
      BY <2>1, <3>2 DEF Range
    <3> QED
      BY <2>1, <3>1, <3>3 DEF RowInv
  <2> QED
    BY <2>2, <2>3
<1>6. CASE BeginFails \/ InsertFails \/ Commit \/ CommitFails
  <2>1. pc' \in {"select", "stopped"}
    BY <1>6 DEF BeginFails, InsertFails, Commit, CommitFails, Return, AfterFlush
  <2> QED
    BY <2>1 DEF RowInv
<1>7. CASE Process
  BY <1>7 DEF Process, StopServer, DropSenders, Restart, MainReturns, Crash,
     ProcessEnds, RowInv
<1>8. CASE UNCHANGED vars
  BY <1>8 DEF vars, RowInv
<1> QED
  BY <1>1, <1>2, <1>3, <1>4, <1>5, <1>6, <1>7, <1>8 DEF Next, WorkerStep, FlushStep

\* Only a commit makes rows, and those of the events that flush works on.
LEMMA RowsMade ==
  ASSUME TypeOK, RowInv, [Next]_vars
  PROVE  \/ events' = events
         \/ /\ pc = "commit" /\ events' = events \cup Range(drained)
            /\ \/ \E f \in {"stored", "outage"} : Return(Range(drained), f)
               \/ ProcessEnds(TRUE)
<1> USE DEF process, worker, txn, tables
<1>1. ASSUME NEW e \in Events, Handler(e)
      PROVE  events' = events
  BY <1>1 DEF Handler, Submit, Enqueue, Refuse, Abandon
<1>2. CASE Start \/ Recv \/ RecvClosed \/ Tick \/ UNCHANGED vars
  BY <1>2 DEF Start, Recv, RecvClosed, Tick, vars
<1>3. CASE Begin \/ BeginFails \/ InsertEvent \/ InsertFeatures \/ InsertFails
  BY <1>3 DEF Begin, BeginFails, InsertEvent, InsertFeatures, InsertFails, Rollback
<1>4. CASE Commit \/ CommitFails
  BY <1>4 DEF Commit, CommitFails, ApplyTxn, RowInv
<1>5. CASE StopServer \/ DropSenders \/ Restart
  BY <1>5 DEF StopServer, DropSenders, Restart
<1>6. CASE MainReturns \/ Crash
  <2>1. PICK applied \in MayBeApplied : ProcessEnds(applied)
    BY <1>6 DEF MainReturns, Crash
  <2>2. CASE applied = TRUE
    BY <2>1, <2>2 DEF MayBeApplied, ProcessEnds, ApplyTxn, RowInv
  <2>3. CASE applied = FALSE
    BY <2>1, <2>3 DEF ProcessEnds, Rollback
  <2> QED
    BY <2>1, <2>2, <2>3 DEF MayBeApplied
<1> QED
  BY <1>1, <1>2, <1>3, <1>4, <1>5, <1>6 DEF Next, WorkerStep, FlushStep, Process

LEMMA StepCommitted ==
  ASSUME TypeOK, VectorInv, HeldInv, RowInv, CommittedInv, [Next]_vars
  PROVE  CommittedInv'
<1> USE DEF process, worker, txn, tables
<1>1. pc' = "start" => batch' = <<>>
  <2>1. CASE pc = "start" /\ batch' = batch
    BY <2>1 DEF CommittedInv
  <2>2. CASE ~(pc = "start" /\ batch' = batch)
    BY <2>2 DEF Next, WorkerStep, FlushStep, Process, Handler, Submit, Enqueue, Refuse,
       Abandon, Start, Recv, RecvClosed, OnClosed, Tick, Begin, BeginFails, InsertEvent,
       InsertFeatures, InsertFails, Commit, CommitFails, Return, AfterFlush, StopServer,
       DropSenders, Restart, MainReturns, Crash, ProcessEnds, vars
  <2> QED
    BY <2>1, <2>2
<1>2. \A e \in Events : e \in events => fate'[e] \notin {"new", "submitted"}
  BY StepKeepsSettled DEF KeepsSettled, CommittedInv, TypeOK
<1>3. ASSUME pc = "commit", events' = events \cup Range(drained)
      PROVE  \A e \in Range(drained) :
               /\ e \in Events
               /\ e \notin sending \cup Range(queue) \cup Range(batch)
  BY RangesTyped DEF HeldInv
<1>4. ASSUME NEW e \in events'
      PROVE  fate'[e] \notin {"new", "submitted"}
  <2>1. CASE e \in events
    BY <1>2, <2>1 DEF TypeOK
  <2>2. CASE e \notin events
    <3>1. /\ pc = "commit" /\ events' = events \cup Range(drained)
          /\ \/ \E f \in {"stored", "outage"} : Return(Range(drained), f)
             \/ ProcessEnds(TRUE)
      BY <1>4, <2>2, RowsMade
    <3>2. /\ e \in Range(drained) /\ e \in Events
          /\ e \notin sending \cup Range(queue) \cup Range(batch)
      BY <1>3, <1>4, <2>2, <3>1
    <3>3. CASE \E f \in {"stored", "outage"} : Return(Range(drained), f)
      BY <3>2, <3>3 DEF Return, Mark
    <3>4. CASE ProcessEnds(TRUE)
      BY <3>2, <3>4 DEF ProcessEnds
    <3> QED
      BY <3>1, <3>3, <3>4
  <2> QED
    BY <2>1, <2>2
<1> QED
  BY <1>1, <1>4 DEF CommittedInv

-----------------------------------------------------------------------------
(* The refinement.                                                         *)

Bad == {"poison", "outage", "vanished"}

\* What marking the held events of S does to the lost ones.
LEMMA LostMarked ==
  ASSUME NEW S \in SUBSET Events, NEW f, fate' = Mark(S, f),
         \A e \in S : fate[e] \in {"new", "submitted"}
  PROVE  /\ events' = events /\ f \notin Bad => Lost' = Lost
         /\ events' = events /\ f \in Bad /\ S \cap events = {} => Lost' = Lost \cup S
         /\ events' = events \cup S => Lost' = Lost
<1>1. Lost = {e \in Events : fate[e] \in Bad} \ events
  BY DEF Lost, Bad
<1>2. Lost' = {e \in Events : fate'[e] \in Bad} \ events'
  BY DEF Lost, Bad
<1>3. \A e \in Events : fate'[e] = IF e \in S THEN f ELSE fate[e]
  BY DEF Mark
<1>4. \A e \in S : fate[e] \notin Bad
  BY DEF Bad
<1> QED
  BY <1>1, <1>2, <1>3, <1>4

\* Where the events in flight are.
LEMMA InFlightParts ==
  ASSUME TypeOK
  PROVE  /\ InFlight \in Seq(Events)
         /\ drained \o batch \in Seq(Events)
         /\ InFlight = drained \o (batch \o queue) /\ batch \o queue \in Seq(Events)
         /\ drained = <<>> => InFlight = batch \o queue
         /\ batch = <<>> => InFlight = drained \o queue
         /\ Range(InFlight) = Range(drained) \cup Range(batch) \cup Range(queue)
         /\ Range(batch \o queue) = Range(batch) \cup Range(queue)
<1>1. queue \in Seq(Events) /\ batch \in Seq(Events) /\ drained \in Seq(Events)
  BY DEF TypeOK
<1>2. drained \o batch \in Seq(Events) /\ batch \o queue \in Seq(Events)
  BY <1>1, ConcatProperties
<1>3. InFlight = drained \o (batch \o queue)
  BY <1>1, ConcatAssociative DEF InFlight
<1>4. <<>> \o (batch \o queue) = batch \o queue /\ <<>> \o queue = queue
  BY <1>1, <1>2, ConcatEmptySeq
<1>5. InFlight \in Seq(Events)
  BY <1>1, <1>2, ConcatProperties DEF InFlight
<1>6. Range(batch \o queue) = Range(batch) \cup Range(queue)
  BY <1>1, RangeConcatenation
<1>7. Range(InFlight) = Range(drained) \cup Range(batch \o queue)
  <2> DEFINE r == batch \o queue
  <2>1. r \in Seq(Events) /\ InFlight = drained \o r
    BY <1>2, <1>3
  <2> HIDE DEF r
  <2>2. Range(drained \o r) = Range(drained) \cup Range(r)
    BY <1>1, <2>1, RangeConcatenation
  <2>3. Range(InFlight) = Range(drained) \cup Range(r)
    BY <2>1, <2>2
  <2> QED
    BY <2>3 DEF r
<1> QED
  BY <1>2, <1>3, <1>4, <1>5, <1>6, <1>7

\* An event enters at the back.
LEMMA SinkAccepts ==
  ASSUME NEW e \in Events, e \notin Range(InFlight) \cup events \cup Lost,
         InFlight' = Append(InFlight, e), events' = events, Lost' = Lost
  PROVE  Sink!Accept(e)
BY DEF Sink!Accept, Sink!Range, Range

\* Events leave the sink.
Leaves == \E n \in 0..EffectiveBatch : Sink!Store(n) \/ Sink!Lose(n) \/ Sink!Collapse(n)

\* The group g leaves from the front, stored or lost as a whole.
LEMMA SinkGroup ==
  ASSUME NEW g \in Seq(Events), NEW r \in Seq(Events), InFlight = g \o r,
         EffectiveBatch \in Nat, Len(g) <= EffectiveBatch
  PROVE  /\ InFlight' = r /\ events' = events \cup Range(g) /\ Lost' = Lost => Leaves
         /\ InFlight' = r /\ events' = events /\ Lost' = Lost \cup Range(g) => Leaves
         /\ InFlight' = <<>> /\ events' = events \cup Range(g) /\ Lost' = Lost \cup Range(r)
              => Leaves
<1>1. /\ Len(g) \in 0..EffectiveBatch
      /\ Len(g) <= Len(InFlight)
  BY LenProperties, ConcatProperties
<1>2. SubSeq(InFlight, 1, Len(g)) = g /\ SubSeq(InFlight, Len(g) + 1, Len(InFlight)) = r
  BY ConcatCut
<1>3. Sink!Front(Len(g)) = Range(g) /\ Sink!Rest(Len(g)) = r
  BY <1>2 DEF Sink!Front, Sink!Rest, Sink!Range, Range
<1>4. ASSUME InFlight' = r, events' = events \cup Range(g), Lost' = Lost
      PROVE  Sink!Store(Len(g))
  BY <1>1, <1>3, <1>4 DEF Sink!Store
<1>5. ASSUME InFlight' = r, events' = events, Lost' = Lost \cup Range(g)
      PROVE  Sink!Lose(Len(g))
  BY <1>1, <1>3, <1>5 DEF Sink!Lose
<1>6. ASSUME InFlight' = <<>>, events' = events \cup Range(g), Lost' = Lost \cup Range(r)
      PROVE  Sink!Collapse(Len(g))
  BY <1>1, <1>3, <1>6 DEF Sink!Collapse, Sink!Range, Range
<1> QED
  BY <1>1, <1>4, <1>5, <1>6 DEF Leaves

\* A return of flush is a step of the sink: what flush worked on, in batch or
\* in drained, is the front of what is in flight.
LEMMA ReturnRefines ==
  ASSUME IngestorAssumption, TypeOK, VectorInv, HeldInv, CommittedInv, BoundedMemory,
         NEW g, (g = batch /\ drained = <<>>) \/ (g = drained /\ batch = <<>>),
         NEW f \in Fates, Return(Range(g), f),
         \/ events' = events /\ f \in Bad
         \/ events' = events \cup Range(g)
  PROVE  Leaves
<1>1. /\ g \in Seq(Events) /\ queue \in Seq(Events) /\ InFlight = g \o queue
      /\ Range(g) \subseteq Events
  BY InFlightParts, RangesTyped DEF TypeOK
<1>2. EffectiveBatch \in Nat /\ Len(g) <= EffectiveBatch
  <2>1. Len(batch) \in Nat /\ Len(drained) \in Nat /\ EffectiveBatch \in Nat
    BY LenProperties DEF TypeOK, EffectiveBatch, IngestorAssumption
  <2> QED
    BY <2>1 DEF BoundedMemory
<1>3. InFlight' = queue
  <2>1. InFlight' = (<<>> \o <<>>) \o queue
    BY DEF Return, ClearBatch, InFlight
  <2>2. <<>> \o <<>> = <<>> /\ <<>> \o queue = queue
    BY <1>1, ConcatEmptySeq, EmptySeq
  <2> QED
    BY <2>1, <2>2
<1>4. \A e \in Range(g) : fate[e] = "submitted"
  BY <1>1 DEF HeldInv
<1>5. Range(g) \cap events = {}
  BY <1>4 DEF CommittedInv
<1>6. fate' = Mark(Range(g), f)
  BY DEF Return
<1>7. CASE events' = events /\ f \in Bad
  <2>1. Lost' = Lost \cup Range(g)
    BY <1>1, <1>4, <1>5, <1>6, <1>7, LostMarked
  <2> QED
    BY <1>1, <1>2, <1>3, <1>7, <2>1, SinkGroup
<1>8. CASE events' = events \cup Range(g)
  <2>1. Lost' = Lost
    BY <1>1, <1>4, <1>6, <1>8, LostMarked
  <2> QED
    BY <1>1, <1>2, <1>3, <1>8, <2>1, SinkGroup
<1> QED
  BY <1>7, <1>8

\* The end of the process is the sink's collapse.
LEMMA EndRefines ==
  ASSUME IngestorAssumption, TypeOK, VectorInv, HeldInv, RowInv, CommittedInv,
         BoundedMemory, NEW applied \in MayBeApplied, ProcessEnds(applied)
  PROVE  Leaves
<1>1. /\ InFlight = drained \o (batch \o queue) /\ InFlight \in Seq(Events)
      /\ drained \in Seq(Events) /\ batch \o queue \in Seq(Events)
      /\ Range(batch \o queue) = Range(batch) \cup Range(queue)
      /\ Range(InFlight) = Range(drained) \cup Range(batch) \cup Range(queue)
      /\ Range(InFlight) \subseteq Events
  BY InFlightParts, RangesTyped DEF TypeOK
<1>2. InFlight' = <<>>
  <2>1. InFlight' = (<<>> \o <<>>) \o <<>>
    BY DEF ProcessEnds, InFlight
  <2>2. <<>> \o <<>> = <<>>
    BY ConcatEmptySeq, EmptySeq
  <2> QED
    BY <2>1, <2>2
<1>3. /\ EffectiveBatch \in Nat /\ Len(drained) <= EffectiveBatch
      /\ Len(<<>>) = 0 /\ 0 <= EffectiveBatch
  <2>1. Len(batch) \in Nat /\ Len(drained) \in Nat /\ EffectiveBatch \in Nat
    BY LenProperties DEF TypeOK, EffectiveBatch, IngestorAssumption
  <2> QED
    BY <2>1, EmptySeq DEF BoundedMemory
<1>4. /\ Lost = {e \in Events : fate[e] \in Bad} \ events
      /\ Lost' = {e \in Events : fate'[e] \in Bad} \ events'
  BY DEF Lost, Bad
<1>5. \A e \in Range(InFlight) \cup sending : fate[e] = "submitted"
  BY <1>1 DEF HeldInv, TypeOK
<1>6. \A e \in Range(InFlight) : e \notin events
  BY <1>5 DEF CommittedInv
<1>7. /\ \A e \in sending : fate'[e] \notin Bad
      /\ \A e \in Range(batch) \cup Range(queue) : fate'[e] \in Bad
      /\ \A e \in Range(drained) : ~applied => fate'[e] \in Bad
      /\ \A e \in Events : e \notin sending \cup Range(InFlight) => fate'[e] = fate[e]
  <2>1. /\ sending \cap (Range(queue) \cup Range(batch) \cup Range(drained)) = {}
        /\ Range(queue) \cap (Range(batch) \cup Range(drained)) = {}
        /\ Range(batch) \cap Range(drained) = {}
        /\ sending \subseteq Events
    BY DEF HeldInv, TypeOK
  <2>2. \A e \in Events :
          /\ e \in sending => fate'[e] = "abandoned"
          /\ e \notin sending /\ e \in Range(queue) \cup Range(batch) => fate'[e] = "vanished"
          /\ e \notin sending \cup Range(queue) \cup Range(batch) /\ e \in Range(drained)
               => fate'[e] = IF applied THEN "stored" ELSE "vanished"
          /\ e \notin sending \cup Range(InFlight) => fate'[e] = fate[e]
    <3>1. \A e \in Events :
            fate'[e] = CASE e \in sending -> "abandoned"
                         [] e \in Range(queue) \cup Range(batch) -> "vanished"
                         [] e \in Range(drained) ->
                              IF applied THEN "stored" ELSE "vanished"
                         [] OTHER -> fate[e]
      BY DEF ProcessEnds
    <3> QED
      BY <1>1, <2>1, <3>1
  <2> QED
    BY <1>1, <2>1, <2>2 DEF Bad
<1>8. CASE applied
  <2>1. events' = events \cup Range(drained)
    BY <1>8 DEF ProcessEnds, ApplyTxn, MayBeApplied, RowInv
  <2>2. Lost' = Lost \cup Range(batch \o queue)
    <3>1. Range(drained) \cap (Range(batch) \cup Range(queue)) = {}
      BY DEF HeldInv
    <3>2. \A e \in Range(InFlight) \cup sending : fate[e] \notin Bad
      BY <1>5 DEF Bad
    <3>3. \A e \in Range(batch) \cup Range(queue) : e \notin events \cup Range(drained)
      BY <1>1, <1>6, <3>1
    <3> QED
      BY <1>1, <1>4, <1>7, <2>1, <3>2, <3>3
  <2> QED
    BY <1>1, <1>2, <1>3, <2>1, <2>2, SinkGroup
<1>9. CASE ~applied
  <2>1. events' = events
    BY <1>9 DEF ProcessEnds, Rollback, tables
  <2>2. Lost' = Lost \cup Range(InFlight)
    <3>1. \A e \in sending : fate[e] \notin Bad
      BY <1>5 DEF Bad
    <3> QED
      BY <1>1, <1>4, <1>6, <1>7, <1>9, <2>1, <3>1
  <2>3. <<>> \o InFlight = InFlight /\ <<>> \in Seq(Events) /\ Range(<<>>) = {}
    BY <1>1, ConcatEmptySeq, EmptySeq, EmptyHolds
  <2>4. events' = events \cup Range(<<>>)
    BY <2>1, <2>3
  <2> QED
    BY <1>1, <1>2, <1>3, <2>2, <2>3, <2>4, SinkGroup
<1> QED
  BY <1>8, <1>9

\* A step that leaves the events in flight, the rows and the lost events alone.
SinkStutters == InFlight' = InFlight /\ events' = events /\ Lost' = Lost

\* An event enters both the sink and the history of the channel.
Enters(e) == /\ Sink!Accept(e) /\ InFlight' = Append(InFlight, e)
             /\ enqueued' = Append(enqueued, e) /\ sending' = sending \ {e}
             /\ fate' = fate /\ e \in sending /\ fate[e] = "submitted"

LEMMA HandlerRefines ==
  ASSUME TypeOK, HeldInv, CommittedInv, NEW e \in Events, Handler(e)
  PROVE  Enters(e) \/ (SinkStutters /\ enqueued' = enqueued)
<1> USE DEF process, worker, txn, tables
<1>1. CASE Enqueue(e)
  <2>1. InFlight' = Append(InFlight, e)
    <3>1. InFlight' = (drained \o batch) \o Append(queue, e)
      BY <1>1 DEF Enqueue, InFlight
    <3>2. drained \o batch \in Seq(Events) /\ queue \in Seq(Events)
      BY InFlightParts DEF TypeOK
    <3> QED
      BY <3>1, <3>2, AppendMoves DEF InFlight
  <2>2. fate[e] = "submitted" /\ e \in sending
    BY <1>1 DEF Enqueue, HeldInv
  <2>3. e \notin Range(InFlight)
    BY <2>2, InFlightParts DEF HeldInv
  <2>4. e \notin events \cup Lost
    BY <2>2 DEF CommittedInv, Lost
  <2>5. events' = events /\ Lost' = Lost
    BY <1>1 DEF Enqueue, Lost
  <2> QED
    BY <1>1, <2>1, <2>2, <2>3, <2>4, <2>5, SinkAccepts DEF Enters, Enqueue
<1>2. CASE Submit(e) \/ Refuse(e) \/ Abandon(e)
  <2>1. PICK f \in {"submitted", "refused", "abandoned"} : fate' = Mark({e}, f)
    BY <1>2 DEF Submit, Refuse, Abandon
  <2>2. fate[e] \in {"new", "submitted"}
    BY <1>2 DEF Submit, Refuse, Abandon, HeldInv
  <2>3. events' = events /\ InFlight' = InFlight /\ enqueued' = enqueued
    BY <1>2 DEF Submit, Refuse, Abandon, InFlight
  <2>4. {e} \in SUBSET Events /\ f \notin Bad
    BY DEF Bad
  <2>5. Lost' = Lost
    BY <2>1, <2>2, <2>3, <2>4, LostMarked
  <2> QED
    BY <2>3, <2>5 DEF SinkStutters
<1> QED
  BY <1>1, <1>2 DEF Handler

LEMMA StartRefines ==
  ASSUME IngestorAssumption, TypeOK, VectorInv, HeldInv, CommittedInv, Start
  PROVE  Leaves \/ SinkStutters
<1> USE DEF process, worker, txn, tables
<1>1. queue \in Seq(Events) /\ Range(queue) \subseteq Events
  BY RangesTyped DEF TypeOK
<1>2. drained = <<>> /\ batch = <<>>
  BY DEF Start, VectorInv, Writing, CommittedInv
<1>3. /\ <<>> \o queue = queue /\ <<>> \o <<>> = <<>> /\ <<>> \in Seq(Events)
      /\ Range(<<>>) = {} /\ Len(<<>>) = 0
  BY <1>1, ConcatEmptySeq, EmptySeq, EmptyHolds
<1>4. InFlight = queue
  BY <1>2, <1>3 DEF InFlight
<1>5. CASE CannotStart
  <2>1. /\ queue' = <<>> /\ drained' = <<>> /\ batch' = <<>> /\ events' = events
        /\ fate' = Mark(Range(queue), "vanished")
    BY <1>2, <1>5 DEF Start
  <2>2. InFlight' = <<>>
    BY <1>3, <2>1 DEF InFlight
  <2>3. \A e \in Range(queue) : fate[e] = "submitted"
    BY <1>1 DEF HeldInv
  <2>4. Lost' = Lost \cup Range(queue)
    <3>1. Range(queue) \cap events = {} /\ "vanished" \in Bad
      BY <2>3 DEF CommittedInv, Bad
    <3> QED
      BY <1>1, <2>1, <2>3, <3>1, LostMarked
  <2>5. EffectiveBatch \in Nat
    BY DEF EffectiveBatch, IngestorAssumption
  <2>6. InFlight = <<>> \o queue /\ events' = events \cup Range(<<>>) /\ Len(<<>>) <= EffectiveBatch
    BY <1>3, <1>4, <2>1, <2>5
  <2> QED
    BY <1>1, <1>3, <2>2, <2>4, <2>5, <2>6, SinkGroup
<1>6. CASE ~CannotStart
  BY <1>6 DEF Start, SinkStutters, InFlight, Lost
<1> QED
  BY <1>5, <1>6

LEMMA RecvRefines ==
  ASSUME TypeOK, Recv
  PROVE  SinkStutters
<1>1. queue \in Seq(Events) /\ batch \in Seq(Events) /\ drained \in Seq(Events) /\ queue # <<>>
  BY DEF TypeOK, Recv
<1> DEFINE b == Append(batch, Head(queue))
           q == Tail(queue)
<1>2. b \in Seq(Events) /\ q \in Seq(Events)
  BY <1>1, HeadTailProperties, AppendProperties
<1>3. b \o q = batch \o queue
  BY <1>1, HeadMoves
<1>4. drained' = drained /\ batch' = b /\ queue' = q /\ events' = events /\ fate' = fate
  BY DEF Recv, tables
<1> HIDE DEF b, q
<1>5. InFlight' = drained \o (b \o q)
  BY <1>1, <1>2, <1>4, ConcatAssociative DEF InFlight
<1>6. InFlight = drained \o (batch \o queue)
  BY InFlightParts
<1> QED
  BY <1>3, <1>4, <1>5, <1>6 DEF SinkStutters, Lost

LEMMA FlushRefines ==
  ASSUME IngestorAssumption, TypeOK, VectorInv, HeldInv, RowInv, CommittedInv,
         BoundedMemory, FlushStep
  PROVE  Leaves \/ SinkStutters
<1> USE DEF process, worker, txn, tables
<1>1. CASE Begin
  <2>1. drained = <<>> /\ drained' = batch /\ batch' = <<>> /\ queue' = queue
    BY <1>1 DEF Begin, DrainBatch, VectorInv, Writing
  <2>2. batch \in Seq(Events) /\ batch \o <<>> = batch /\ <<>> \o batch = batch
    BY ConcatEmptySeq DEF TypeOK
  <2>3. InFlight' = InFlight
    BY <2>1, <2>2 DEF InFlight
  <2> QED
    BY <1>1, <2>3 DEF Begin, SinkStutters, Lost
<1>2. CASE BeginFails
  <2>1. PICK f \in {"outage"} : Return(Range(batch), f)
    BY <1>2 DEF BeginFails
  <2>2. drained = <<>> /\ events' = events /\ f \in Fates /\ f \in Bad
    BY <1>2 DEF BeginFails, VectorInv, Writing, Fates, Bad
  <2> QED
    BY <2>1, <2>2, ReturnRefines
<1>3. CASE InsertEvent \/ InsertFeatures
  BY <1>3 DEF InsertEvent, InsertFeatures, SinkStutters, InFlight, Lost
<1>4. CASE InsertFails
  <2>1. PICK f \in {"poison", "outage"} : Return(Range(drained), f)
    BY <1>4 DEF InsertFails
  <2>2. batch = <<>> /\ events' = events
    BY <1>4 DEF InsertFails, Rollback, VectorInv, Writing
  <2>3. f \in Fates /\ f \in Bad
    BY <2>1 DEF Fates, Bad
  <2> QED
    BY <2>1, <2>2, <2>3, ReturnRefines
<1>5. CASE Commit \/ CommitFails
  <2>1. PICK f \in {"stored", "outage"} :
          /\ Return(Range(drained), f)
          /\ \/ events' = events \cup Range(drained)
             \/ events' = events /\ f = "outage"
    BY <1>5 DEF Commit, CommitFails, ApplyTxn, RowInv
  <2>2. batch = <<>>
    BY <1>5 DEF Commit, CommitFails, VectorInv, Writing
  <2>3. f \in Fates /\ "outage" \in Bad
    BY <2>1 DEF Fates, Bad
  <2> QED
    BY <2>1, <2>2, <2>3, ReturnRefines
<1> QED
  BY <1>1, <1>2, <1>3, <1>4, <1>5 DEF FlushStep

\* The steps of the ingestor as the sink sees them.
LEMMA StepsOfTheSink ==
  ASSUME IngestorAssumption, TypeOK, VectorInv, HeldInv, RowInv, CommittedInv,
         BoundedMemory, [Next]_vars
  PROVE  \/ \E e \in Events : Enters(e)
         \/ Leaves /\ enqueued' = enqueued
         \/ SinkStutters /\ enqueued' = enqueued
<1>1. CASE \E e \in Events : Handler(e)
  BY <1>1, HandlerRefines
<1>2. CASE Start
  BY <1>2, StartRefines DEF Start
<1>3. CASE Recv
  BY <1>3, RecvRefines DEF Recv
<1>4. CASE FlushStep
  <2>1. enqueued' = enqueued
    BY <1>4 DEF FlushStep, Begin, BeginFails, InsertEvent, InsertFeatures, InsertFails,
       Commit, CommitFails, Return
  <2> QED
    BY <1>4, <2>1, FlushRefines
<1>5. CASE MainReturns \/ Crash
  BY <1>5, EndRefines DEF MainReturns, Crash, ProcessEnds
<1>6. CASE RecvClosed \/ Tick \/ StopServer \/ DropSenders \/ Restart \/ UNCHANGED vars
  BY <1>6 DEF RecvClosed, Tick, StopServer, DropSenders, Restart, vars, process, worker,
     txn, tables, SinkStutters, InFlight, Lost
<1> QED
  BY <1>1, <1>2, <1>3, <1>4, <1>5, <1>6 DEF Next, WorkerStep, Process

LEMMA StepRefines ==
  ASSUME IngestorAssumption, TypeOK, VectorInv, HeldInv, RowInv, CommittedInv,
         BoundedMemory, [Next]_vars
  PROVE  [Sink!Next]_(Sink!vars)
BY StepsOfTheSink DEF Enters, Leaves, SinkStutters, Sink!Next, Sink!vars

LEMMA InitRefines == Init => Sink!Init
<1> SUFFICES ASSUME Init PROVE Sink!Init
  OBVIOUS
<1>1. InFlight = (<<>> \o <<>>) \o <<>>
  BY DEF Init, FreshWorker, InFlight
<1>2. <<>> \o <<>> = <<>>
  BY ConcatEmptySeq, EmptySeq
<1>3. events = {} /\ Lost = {}
  BY DEF Init, Lost
<1> QED
  BY <1>1, <1>2, <1>3 DEF Sink!Init

AllInv == /\ TypeOK /\ VectorInv /\ HeldInv /\ RowInv /\ CommittedInv
          /\ BoundedMemory /\ RoomInv /\ TxnInv /\ RowsMatch

LEMMA AllInvHolds == Spec => []AllInv
<1>1. Init => AllInv
  BY InitTyped, InitTxn, InitHeld, InitBounded, InitRows DEF AllInv
<1>2. AllInv /\ [Next]_vars => AllInv'
  BY StepTyped, StepTxn, StepHeld, StepBounded, StepRows, StepCommitted,
     IngestorAssumption DEF AllInv
<1> QED BY <1>1, <1>2, PTL DEF Spec

\* Whatever fails, accepted events leave the ingestor in the order they came,
\* at most one batch at a time, and each batch is stored or lost as a whole.
THEOREM IngestorIsASink == Spec => ImplementsSink
<1>1. AllInv /\ [Next]_vars => [Sink!Next]_(Sink!vars)
  BY StepRefines, IngestorAssumption DEF AllInv
<1> QED
  BY <1>1, InitRefines, AllInvHolds, PTL DEF Spec, ImplementsSink, Sink!Spec

-----------------------------------------------------------------------------
(* What one bad event takes with it.                                       *)

\* What is in flight is the end of what the channel took, and the channel
\* takes no event twice.
EndsWith(l, s) ==
  /\ Len(s) <= Len(l)
  /\ \A k \in 1..Len(s) : s[k] = l[Len(l) - Len(s) + k]

SuffixInv == EndsWith(enqueued, InFlight)

OnceInv ==
  /\ IsInjective(enqueued)
  /\ \A e \in Range(enqueued) : e \notin sending /\ fate[e] # "new"

LEMMA SuffixAppend ==
  ASSUME NEW S, NEW s \in Seq(S), NEW l \in Seq(S), NEW e \in S, EndsWith(l, s)
  PROVE  EndsWith(Append(l, e), Append(s, e))
<1> DEFINE s2 == Append(s, e)
           l2 == Append(l, e)
<1>1. /\ Len(s2) = Len(s) + 1 /\ Len(l2) = Len(l) + 1
      /\ Len(s) \in Nat /\ Len(l) \in Nat
      /\ \A k \in 1..Len(s) : s2[k] = s[k]
      /\ \A k \in 1..Len(l) : l2[k] = l[k]
      /\ s2[Len(s) + 1] = e /\ l2[Len(l) + 1] = e
  BY AppendProperties, LenProperties
<1> HIDE DEF s2, l2
<1>2. ASSUME NEW k \in 1..Len(s2)
      PROVE  s2[k] = l2[Len(l2) - Len(s2) + k]
  <2>1. Len(l2) - Len(s2) = Len(l) - Len(s)
    BY <1>1
  <2>2. CASE k = Len(s) + 1
    <3>1. Len(l) - Len(s) + k = Len(l) + 1
      BY <1>1, <2>2
    <3> QED
      BY <1>1, <2>1, <2>2, <3>1
  <2>3. CASE k \in 1..Len(s)
    <3>1. Len(l) - Len(s) + k \in 1..Len(l)
      BY <1>1, <2>3 DEF EndsWith
    <3> QED
      BY <1>1, <2>1, <2>3, <3>1 DEF EndsWith
  <2> QED
    BY <1>1, <2>2, <2>3
<1>3. Len(s2) <= Len(l2)
  BY <1>1 DEF EndsWith
<1>4. EndsWith(l2, s2)
  BY <1>2, <1>3 DEF EndsWith
<1> QED
  BY <1>4 DEF s2, l2

LEMMA SuffixCut ==
  ASSUME NEW S, NEW s \in Seq(S), NEW l \in Seq(S), EndsWith(l, s),
         NEW n \in Nat, n <= Len(s)
  PROVE  EndsWith(l, SubSeq(s, n + 1, Len(s)))
<1> DEFINE r == SubSeq(s, n + 1, Len(s))
<1>1. Len(s) \in Nat /\ Len(l) \in Nat
  BY LenProperties
<1>2. \A i \in n + 1..Len(s) : s[i] \in S
  BY <1>1, ElementOfSeq
<1>3. /\ Len(r) = IF n + 1 <= Len(s) THEN Len(s) - (n + 1) + 1 ELSE 0
      /\ \A i \in 1..Len(s) - (n + 1) + 1 : r[i] = s[n + 1 + i - 1]
  BY <1>1, <1>2, SubSeqProperties
<1> HIDE DEF r
<1>4. Len(r) = Len(s) - n
  BY <1>1, <1>3
<1>5. ASSUME NEW k \in 1..Len(r)
      PROVE  r[k] = l[Len(l) - Len(r) + k]
  <2>1. /\ k \in 1..Len(s) - (n + 1) + 1 /\ n + 1 + k - 1 = n + k
        /\ n + k \in 1..Len(s)
        /\ Len(l) - Len(s) + (n + k) = Len(l) - Len(r) + k
    BY <1>1, <1>4
  <2>2. r[k] = s[n + k]
    BY <1>3, <2>1
  <2>3. s[n + k] = l[Len(l) - Len(s) + (n + k)]
    BY <2>1 DEF EndsWith
  <2> QED
    BY <2>1, <2>2, <2>3
<1>6. Len(r) <= Len(l)
  BY <1>1, <1>4 DEF EndsWith
<1>7. EndsWith(l, r)
  BY <1>5, <1>6 DEF EndsWith
<1> QED
  BY <1>7 DEF r

LEMMA StepSuffix ==
  ASSUME IngestorAssumption, AllInv, SuffixInv, [Next]_vars
  PROVE  SuffixInv'
<1>1. InFlight \in Seq(Events) /\ enqueued \in Seq(Events)
  BY InFlightParts DEF AllInv, TypeOK
<1>2. ASSUME NEW e \in Events, Enters(e)
      PROVE  SuffixInv'
  BY <1>1, <1>2, SuffixAppend DEF Enters, SuffixInv
<1>3. CASE Leaves /\ enqueued' = enqueued
  <2>1. PICK n \in Nat : /\ n <= Len(InFlight)
                         /\ InFlight' = Sink!Rest(n) \/ InFlight' = <<>>
    BY <1>3 DEF Leaves, Sink!Store, Sink!Lose, Sink!Collapse
  <2>2. CASE InFlight' = Sink!Rest(n)
    <3>1. InFlight' = SubSeq(InFlight, n + 1, Len(InFlight))
      BY <2>2 DEF Sink!Rest
    <3> QED
      BY <1>1, <1>3, <2>1, <3>1, SuffixCut DEF SuffixInv
  <2>3. CASE InFlight' = <<>>
    <3>1. Len(InFlight') = 0 /\ Len(enqueued) \in Nat
      BY <1>1, <2>3, EmptySeq, LenProperties
    <3> QED
      BY <1>3, <2>3, <3>1 DEF SuffixInv, EndsWith
  <2> QED
    BY <2>1, <2>2, <2>3
<1>4. CASE SinkStutters /\ enqueued' = enqueued
  BY <1>4 DEF SinkStutters, SuffixInv
<1> QED
  BY <1>2, <1>3, <1>4, StepsOfTheSink DEF AllInv

\* Events that are handed in are new to the channel, and no event becomes new.
LEMMA StepOnce ==
  ASSUME IngestorAssumption, AllInv, OnceInv, [Next]_vars
  PROVE  OnceInv'
<1> USE DEF process, worker, txn, tables
<1>0. Range(enqueued) \subseteq Events /\ enqueued \in Seq(Events)
  BY RangeOfSeq DEF AllInv, TypeOK
<1>1. ASSUME NEW e \in Events, Enters(e)
      PROVE  OnceInv'
  <2>1. e \notin Range(enqueued)
    BY <1>1 DEF Enters, OnceInv
  <2>2. Range(enqueued') = Range(enqueued) \cup {e} /\ IsInjective(enqueued')
    BY <1>0, <1>1, <2>1, AppendHolds DEF Enters, OnceInv
  <2> QED
    BY <1>1, <2>2 DEF Enters, OnceInv
<1>2. ASSUME enqueued' = enqueued
      PROVE  OnceInv'
  <2>1. ASSUME NEW e \in Range(enqueued)
        PROVE  e \notin sending'
    <3>1. e \notin sending /\ fate[e] # "new"
      BY DEF OnceInv
    <3> QED
      BY <3>1 DEF Next, WorkerStep, FlushStep, Process, Handler, Submit, Enqueue, Refuse,
         Abandon, Start, Recv, RecvClosed, Tick, Begin, BeginFails, InsertEvent,
         InsertFeatures, InsertFails, Commit, CommitFails, Return, StopServer,
         DropSenders, Restart, MainReturns, Crash, ProcessEnds, vars
  <2>2. \A e \in Events : fate[e] # "new" => fate'[e] # "new"
    BY DEF Mark, AllInv, TypeOK, Next, WorkerStep, FlushStep, Process, Handler, Submit,
       Enqueue, Refuse, Abandon, Start, Recv, RecvClosed, Tick, Begin, BeginFails,
       InsertEvent, InsertFeatures, InsertFails, Commit, CommitFails, Return, StopServer,
       DropSenders, Restart, MainReturns, Crash, ProcessEnds, vars
  <2> QED
    BY <1>0, <1>2, <2>1, <2>2 DEF OnceInv
<1> QED
  BY <1>1, <1>2, StepsOfTheSink DEF AllInv

\* In a flush that fails on its row, the row is a bad event's: no other cause
\* of a rejection can be there.
LEMMA RejectedIsPoison ==
  ASSUME AllInv,
         \/ pc = "insert_event" /\ EventRejected(drained[next])
         \/ pc = "insert_features" /\ FeatureRejected(drained[next])
  PROVE  drained[next] \in Poison /\ next \in 1..Len(drained)
<1>1. /\ next \in 1..Len(drained) /\ drained \in Seq(Events)
      /\ DOMAIN drained = 1..Len(drained) /\ Len(drained) \in Nat
  BY LenProperties DEF AllInv, TypeOK
<1>2. drained[next] \in Range(drained) /\ drained[next] \in Events
  BY <1>1, ElementOfSeq DEF Range
<1>3. drained[next] \notin events
  BY <1>2 DEF AllInv, HeldInv, CommittedInv
<1>4. \A i \in 1..next - 1 : i \in DOMAIN drained /\ i # next
  BY <1>1
<1>5. \A i \in 1..next - 1 : drained[i] # drained[next]
  BY <1>1, <1>4 DEF AllInv, HeldInv, IsInjective
<1>6. CASE pc = "insert_event" /\ EventRejected(drained[next])
  <2>1. drained[next] \notin txnEvents
    BY <1>5, <1>6 DEF AllInv, RowInv
  <2> QED
    BY <1>1, <1>3, <1>6, <2>1 DEF EventRejected
<1>7. CASE pc = "insert_features"
  <2>1. drained[next] \in txnEvents
    <3>1. next \in 1..next
      BY <1>1
    <3> QED
      BY <1>7, <3>1 DEF AllInv, RowInv
  <2>2. drained[next] \notin features \cup txnFeatures
    BY <1>3, <1>5, <1>7 DEF AllInv, RowInv, RowsMatch
  <2> QED
    BY <1>7, <2>1, <2>2 DEF FeatureRejected
<1> QED
  BY <1>6, <1>7

\* Only such a flush drops events as poisoned, and only those it works on.
LEMMA PoisonedIn ==
  ASSUME AllInv, [Next]_vars, NEW e \in Events, fate'[e] = "poison", fate[e] # "poison"
  PROVE  /\ e \in Range(drained) /\ batch = <<>> /\ enqueued' = enqueued
         /\ drained[next] \in Poison /\ next \in 1..Len(drained)
<1> USE DEF process, worker, txn, tables
<1>1. CASE InsertFails
  <2>1. PICK f \in {"poison", "outage"} :
          /\ Return(Range(drained), f)
          /\ f = "poison" => \/ pc = "insert_event" /\ EventRejected(drained[next])
                             \/ pc = "insert_features" /\ FeatureRejected(drained[next])
    BY <1>1 DEF InsertFails
  <2>2. fate'[e] = (IF e \in Range(drained) THEN f ELSE fate[e]) /\ enqueued' = enqueued
    BY <2>1 DEF Return, Mark
  <2>3. e \in Range(drained) /\ f = "poison"
    BY <2>2
  <2>4. batch = <<>>
    BY <1>1 DEF InsertFails, AllInv, VectorInv, Writing
  <2> QED
    BY <2>1, <2>2, <2>3, <2>4, RejectedIsPoison
<1>2. ASSUME NEW S, NEW f, fate' = Mark(S, f), f # "poison"
      PROVE  FALSE
  BY <1>2 DEF Mark
<1>3. CASE \E x \in Events : Handler(x)
  BY <1>2, <1>3 DEF Handler, Submit, Enqueue, Refuse, Abandon
<1>4. CASE Start \/ Recv \/ RecvClosed \/ Tick \/ UNCHANGED vars
  BY <1>2, <1>4 DEF Start, Recv, RecvClosed, Tick, vars
<1>5. CASE Begin \/ BeginFails \/ InsertEvent \/ InsertFeatures \/ Commit \/ CommitFails
  BY <1>2, <1>5 DEF Begin, BeginFails, InsertEvent, InsertFeatures, Commit, CommitFails, Return
<1>6. CASE Process
  <2>1. CASE StopServer \/ DropSenders \/ Restart
    BY <2>1 DEF StopServer, DropSenders, Restart
  <2>2. CASE MainReturns \/ Crash
    BY <2>2 DEF MainReturns, Crash, ProcessEnds
  <2> QED
    BY <1>6, <2>1, <2>2 DEF Process
<1> QED
  BY <1>1, <1>3, <1>4, <1>5, <1>6 DEF Next, WorkerStep, FlushStep

LEMMA StepBlast ==
  ASSUME IngestorAssumption, AllInv, SuffixInv, OnceInv, BlastRadius, [Next]_vars
  PROVE  BlastRadius'
<1>1. /\ InFlight \in Seq(Events) /\ enqueued \in Seq(Events)
      /\ drained \in Seq(Events) /\ queue \in Seq(Events)
      /\ DOMAIN enqueued = 1..Len(enqueued) /\ Len(enqueued) \in Nat
      /\ DOMAIN drained = 1..Len(drained) /\ Len(drained) \in Nat
      /\ Len(queue) \in Nat /\ Len(InFlight) \in Nat
  BY InFlightParts, LenProperties DEF AllInv, TypeOK
<1>2. EffectiveBatch \in Nat \ {0}
  BY DEF EffectiveBatch, IngestorAssumption
<1>3. ASSUME enqueued' = enqueued
      PROVE  BlastRadius'
  <2> SUFFICES ASSUME NEW i \in DOMAIN enqueued, fate'[enqueued[i]] = "poison"
               PROVE  \E j \in DOMAIN enqueued : /\ enqueued[j] \in Poison
                                                  /\ i < j + EffectiveBatch
                                                  /\ j < i + EffectiveBatch
    BY <1>3 DEF BlastRadius, EffectiveBatch
  <2>1. enqueued[i] \in Events
    BY <1>1, ElementOfSeq
  <2>2. CASE fate[enqueued[i]] = "poison"
    BY <2>2 DEF BlastRadius
  <2>3. CASE fate[enqueued[i]] # "poison"
    <3>1. /\ enqueued[i] \in Range(drained) /\ batch = <<>>
          /\ drained[next] \in Poison /\ next \in 1..Len(drained)
      BY <2>1, <2>3, PoisonedIn
    <3>2. PICK m \in 1..Len(drained) : drained[m] = enqueued[i]
      BY <1>1, <3>1 DEF Range
    <3> DEFINE base == Len(enqueued) - Len(InFlight)
    <3>3. base \in Nat
      BY <1>1 DEF SuffixInv, EndsWith
    <3>4. ASSUME NEW k \in 1..Len(drained)
          PROVE  drained[k] = enqueued[base + k] /\ base + k \in 1..Len(enqueued)
      <4>1. InFlight = drained \o queue
        BY <3>1, InFlightParts DEF AllInv
      <4>2. InFlight[k] = drained[k] /\ Len(InFlight) = Len(drained) + Len(queue)
        BY <1>1, <4>1, ConcatProperties
      <4>3. k \in 1..Len(InFlight)
        BY <1>1, <4>2
      <4>4. InFlight[k] = enqueued[base + k]
        BY <4>3 DEF SuffixInv, EndsWith
      <4> QED
        BY <1>1, <3>3, <4>2, <4>3, <4>4
    <3> HIDE DEF base
    <3>5. i = base + m
      <4>1. enqueued[base + m] = enqueued[i] /\ base + m \in DOMAIN enqueued
        BY <1>1, <3>2, <3>4
      <4> QED
        BY <4>1 DEF OnceInv, IsInjective
    <3>6. enqueued[base + next] \in Poison /\ base + next \in DOMAIN enqueued
      BY <1>1, <3>1, <3>4
    <3>7. Len(drained) <= EffectiveBatch
      <4>1. batch \in Seq(Events)
        BY DEF AllInv, TypeOK
      <4>2. Len(batch) \in Nat
        BY <4>1, LenProperties
      <4> QED
        BY <1>1, <1>2, <4>2 DEF AllInv, BoundedMemory
    <3>8. i < (base + next) + EffectiveBatch /\ (base + next) < i + EffectiveBatch
      BY <1>1, <1>2, <3>1, <3>2, <3>3, <3>5, <3>7
    <3> QED
      BY <3>6, <3>8
  <2> QED
    BY <2>2, <2>3
<1>4. ASSUME NEW e \in Events, Enters(e)
      PROVE  BlastRadius'
  <2>1. /\ fate' = fate /\ fate[e] = "submitted"
        /\ DOMAIN enqueued' = 1..Len(enqueued) + 1
        /\ \A i \in 1..Len(enqueued) : enqueued'[i] = enqueued[i]
        /\ enqueued'[Len(enqueued) + 1] = e
    <3>1. enqueued' = Append(enqueued, e) /\ fate' = fate /\ fate[e] = "submitted"
      BY <1>4 DEF Enters
    <3>2. /\ Append(enqueued, e) \in Seq(Events)
          /\ Len(Append(enqueued, e)) = Len(enqueued) + 1
          /\ \A i \in 1..Len(enqueued) : Append(enqueued, e)[i] = enqueued[i]
          /\ Append(enqueued, e)[Len(enqueued) + 1] = e
      BY <1>1, AppendProperties
    <3>3. DOMAIN Append(enqueued, e) = 1..Len(enqueued) + 1
      BY <3>2, LenProperties
    <3> QED
      BY <3>1, <3>2, <3>3
  <2>2. ASSUME NEW i \in DOMAIN enqueued', fate'[enqueued'[i]] = "poison"
        PROVE  \E j \in DOMAIN enqueued' : /\ enqueued'[j] \in Poison
                                            /\ i < j + EffectiveBatch
                                            /\ j < i + EffectiveBatch
    <3>1. i # Len(enqueued) + 1
      BY <2>1, <2>2
    <3>2. i \in DOMAIN enqueued /\ fate[enqueued[i]] = "poison"
      BY <1>1, <2>1, <2>2, <3>1
    <3>3. PICK j \in DOMAIN enqueued : /\ enqueued[j] \in Poison
                                       /\ i < j + EffectiveBatch
                                       /\ j < i + EffectiveBatch
      BY <3>2 DEF BlastRadius
    <3>4. j \in DOMAIN enqueued' /\ enqueued'[j] = enqueued[j]
      BY <1>1, <2>1, <3>3
    <3> QED
      BY <3>3, <3>4
  <2> QED
    BY <2>2 DEF BlastRadius, EffectiveBatch
<1> QED
  BY <1>3, <1>4, StepsOfTheSink DEF AllInv

\* For every batch size, 0 included: an event that is dropped because a row was
\* rejected is less than one batch away from a bad event, in the order in
\* which the channel took them.
THEOREM BlastIsContained == Spec => []BlastRadius
<1> DEFINE Inv == AllInv /\ SuffixInv /\ OnceInv /\ BlastRadius
<1>1. Init => SuffixInv /\ OnceInv /\ BlastRadius
  <2> SUFFICES ASSUME Init PROVE SuffixInv /\ OnceInv /\ BlastRadius
    OBVIOUS
  <2>1. enqueued = <<>> /\ InFlight = (<<>> \o <<>>) \o <<>>
    BY DEF Init, FreshWorker, InFlight
  <2>2. <<>> \o <<>> = <<>> /\ Len(<<>>) = 0 /\ DOMAIN <<>> = {}
    BY ConcatEmptySeq, EmptySeq
  <2>3. InFlight = <<>> /\ 1..0 = {}
    BY <2>1, <2>2
  <2> QED
    BY <2>1, <2>2, <2>3, EmptyHolds DEF SuffixInv, EndsWith, OnceInv, BlastRadius
<1>2. AllInv /\ SuffixInv /\ OnceInv /\ BlastRadius /\ [Next]_vars
        => (SuffixInv /\ OnceInv /\ BlastRadius)'
  BY StepSuffix, StepOnce, StepBlast, IngestorAssumption
<1> QED
  BY <1>1, <1>2, AllInvHolds, PTL DEF Spec
=============================================================================
