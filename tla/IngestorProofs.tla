--------------------------- MODULE IngestorProofs ---------------------------
(***************************************************************************)
(* Proofs about Ingestor for every set of events, channel capacity and     *)
(* batch size.                                                             *)
(***************************************************************************)
EXTENDS Ingestor, SequenceTheorems, TLAPS

\* The worker states in which flush works on a drained batch.
Writing == {"insert_event", "insert_features", "commit"}

\* The worker holds events in one vector at a time: in batch until the flush
\* has a transaction, then in drained, and only then is a transaction open.
VectorInv ==
  /\ pc \in Writing => batch = <<>>
  /\ pc \notin Writing => drained = <<>> /\ txnEvents = {} /\ txnFeatures = {}
  /\ pc = "begin" => batch # <<>>

\* The two sets of uncommitted rows differ by at most the event whose
\* features come next.
TxnInv ==
  /\ pc \in {"insert_event", "commit"} => txnEvents = txnFeatures
  /\ pc = "insert_features" => txnEvents = txnFeatures \cup {drained[next]}

-----------------------------------------------------------------------------
(* Type correctness.                                                       *)

LEMMA FatesMarked ==
  ASSUME TypeOK, NEW S, NEW f \in Fates
  PROVE  Mark(S, f) \in [Events -> Fates]
BY DEF Mark, TypeOK

LEMMA InitTyped == Init => TypeOK /\ VectorInv
<1> SUFFICES ASSUME Init PROVE TypeOK /\ VectorInv
  OBVIOUS
<1>1. <<>> \in Seq(Events)
  BY EmptySeq
<1>2. fate \in [Events -> Fates]
  BY DEF Init, Fates
<1>3. closing \in BOOLEAN
  BY DEF Init, FreshWorker
<1> QED
  BY <1>1, <1>2, <1>3
  DEF Init, FreshWorker, TypeOK, VectorInv, Phases, WorkerStates, Writing

\* What every return of flush does to the types, whatever became of the batch.
LEMMA ReturnTyped ==
  ASSUME TypeOK, VectorInv, NEW S, NEW f \in Fates, Return(S, f),
         events' \subseteq Events, features' \subseteq Events
  PROVE  TypeOK' /\ VectorInv'
<1>1. fate' \in [Events -> Fates]
  BY FatesMarked DEF Return
<1>2. pc' \in {"select", "stopped"}
  BY DEF Return, AfterFlush
<1> QED
  BY <1>1, <1>2 DEF Return, ClearBatch, TypeOK, VectorInv, Writing, WorkerStates,
     process

LEMMA StepTyped ==
  ASSUME IngestorAssumption, TypeOK, VectorInv, [Next]_vars
  PROVE  TypeOK' /\ VectorInv'
<1> USE DEF process, worker, txn, tables
<1>1. ASSUME NEW e \in Events, Handler(e)
      PROVE  TypeOK' /\ VectorInv'
  <2>1. CASE Submit(e)
    <3>1. fate' \in [Events -> Fates]
      BY <2>1, FatesMarked DEF Submit, Fates
    <3> QED BY <2>1, <3>1 DEF Submit, TypeOK, VectorInv
  <2>2. CASE Enqueue(e)
    BY <2>2 DEF Enqueue, TypeOK, VectorInv
  <2>3. CASE Refuse(e)
    <3>1. fate' \in [Events -> Fates]
      BY <2>3, FatesMarked DEF Refuse, Fates
    <3> QED BY <2>3, <3>1 DEF Refuse, TypeOK, VectorInv
  <2>4. CASE Abandon(e)
    <3>1. fate' \in [Events -> Fates]
      BY <2>4, FatesMarked DEF Abandon, Fates
    <3> QED BY <2>4, <3>1 DEF Abandon, TypeOK, VectorInv
  <2> QED BY <1>1, <2>1, <2>2, <2>3, <2>4 DEF Handler
<1>2. CASE Start
  <2>1. fate' \in [Events -> Fates]
    BY <1>2, FatesMarked DEF Start, Fates, TypeOK
  <2> QED BY <1>2, <2>1 DEF Start, TypeOK, VectorInv, WorkerStates, Writing
<1>3. CASE Recv
  <2>1. queue' \in Seq(Events) /\ batch' \in Seq(Events) /\ batch' # <<>>
    <3>1. Head(queue) \in Events /\ Tail(queue) \in Seq(Events)
      BY <1>3, HeadTailProperties DEF Recv, TypeOK
    <3>2. queue' = Tail(queue) /\ batch' = Append(batch, Head(queue))
      BY <1>3 DEF Recv
    <3>3. batch \in Seq(Events)
      BY DEF TypeOK
    <3>4. Append(batch, Head(queue)) \in Seq(Events) /\ Append(batch, Head(queue)) # <<>>
      BY <3>1, <3>3, AppendProperties
    <3> QED BY <3>1, <3>2, <3>4
  <2> QED BY <1>3, <2>1 DEF Recv, TypeOK, VectorInv, WorkerStates, Writing
<1>4. CASE RecvClosed
  BY <1>4 DEF RecvClosed, OnClosed, TypeOK, VectorInv, WorkerStates, Writing
<1>5. CASE Tick
  BY <1>5 DEF Tick, TypeOK, VectorInv, WorkerStates, Writing
<1>6. CASE FlushStep
  <2>1. CASE Begin
    <3>1. Len(batch) \in Nat \ {0}
      BY <2>1, EmptySeq DEF Begin, TypeOK, VectorInv
    <3> QED BY <2>1, <3>1 DEF Begin, DrainBatch, TypeOK, VectorInv, WorkerStates, Writing
  <2>2. CASE BeginFails
    BY <2>2, ReturnTyped DEF BeginFails, Fates, TypeOK
  <2>3. CASE InsertEvent
    <3>1. drained[next] \in Events
      BY <2>3, ElementOfSeq DEF InsertEvent, TypeOK
    <3> QED BY <2>3, <3>1 DEF InsertEvent, TypeOK, VectorInv, WorkerStates, Writing
  <2>4. CASE InsertFeatures
    <3>1. drained[next] \in Events
      BY <2>4, ElementOfSeq DEF InsertFeatures, TypeOK
    <3>2. Len(drained) \in Nat
      BY LenProperties DEF TypeOK
    <3> QED BY <2>4, <3>1, <3>2
            DEF InsertFeatures, MoreRows, TypeOK, VectorInv, WorkerStates, Writing
  <2>5. CASE InsertFails
    <3>1. PICK f \in Fates : Return(Range(drained), f)
      BY <2>5 DEF InsertFails, Fates
    <3>2. events' \subseteq Events /\ features' \subseteq Events
      BY <2>5 DEF InsertFails, Rollback, TypeOK
    <3> QED BY <3>1, <3>2, ReturnTyped
  <2>6. CASE Commit
    <3>1. events' \subseteq Events /\ features' \subseteq Events
      BY <2>6 DEF Commit, ApplyTxn, TypeOK
    <3> QED BY <2>6, <3>1, ReturnTyped DEF Commit, Fates
  <2>7. CASE CommitFails
    <3>1. events' \subseteq Events /\ features' \subseteq Events
      BY <2>7 DEF CommitFails, ApplyTxn, TypeOK
    <3> QED BY <2>7, <3>1, ReturnTyped DEF CommitFails, Fates
  <2> QED BY <1>6, <2>1, <2>2, <2>3, <2>4, <2>5, <2>6, <2>7 DEF FlushStep
<1>7. CASE Process
  <2>1. CASE StopServer
    BY <2>1 DEF StopServer, TypeOK, VectorInv, Phases
  <2>2. CASE DropSenders
    BY <2>2 DEF DropSenders, TypeOK, VectorInv, Phases
  <2>3. CASE Restart
    BY <2>3 DEF Restart, TypeOK, VectorInv, Phases
  <2>4. CASE MainReturns \/ Crash
    <3>1. PICK applied \in BOOLEAN : ProcessEnds(applied)
      BY <2>4 DEF MainReturns, Crash, MayBeApplied
    <3>2. fate' \in [Events -> Fates]
      BY <3>1 DEF ProcessEnds, TypeOK, Fates
    <3>3. events' \subseteq Events /\ features' \subseteq Events
      BY <3>1 DEF ProcessEnds, ApplyTxn, Rollback, TypeOK
    <3>4. <<>> \in Seq(Events)
      BY EmptySeq
    <3>5. closing' \in BOOLEAN
      BY <3>1 DEF ProcessEnds
    <3> QED BY <3>1, <3>2, <3>3, <3>4, <3>5
            DEF ProcessEnds, TypeOK, VectorInv, Phases, WorkerStates, Writing
  <2> QED BY <1>7, <2>1, <2>2, <2>3, <2>4 DEF Process
<1>8. CASE UNCHANGED vars
  BY <1>8 DEF vars, TypeOK, VectorInv
<1> QED
  BY <1>1, <1>2, <1>3, <1>4, <1>5, <1>6, <1>7, <1>8 DEF Next, WorkerStep

\* Every reachable state is well typed: in particular flush never indexes
\* past the end of the vector it drained.
THEOREM TypeCorrect == Spec => []TypeOK
<1>1. Init => TypeOK /\ VectorInv
  BY InitTyped
<1>2. TypeOK /\ VectorInv /\ [Next]_vars => (TypeOK /\ VectorInv)'
  BY StepTyped, IngestorAssumption
<1> QED BY <1>1, <1>2, PTL DEF Spec

-----------------------------------------------------------------------------
(* A row and its feature row commit together.                              *)

LEMMA InitTxn == Init => TxnInv /\ RowsMatch
BY DEF Init, FreshWorker, TxnInv, RowsMatch

\* A return of flush leaves no open transaction behind.
LEMMA ReturnTxn ==
  ASSUME NEW S, NEW f, Return(S, f)
  PROVE  TxnInv'
BY DEF Return, AfterFlush, TxnInv

LEMMA StepTxn ==
  ASSUME TypeOK, VectorInv, TxnInv, RowsMatch, [Next]_vars
  PROVE  TxnInv' /\ RowsMatch'
<1> USE DEF process, worker, txn, tables, RowsMatch
<1>1. ASSUME NEW e \in Events, Handler(e)
      PROVE  TxnInv' /\ RowsMatch'
  BY <1>1 DEF Handler, Submit, Enqueue, Refuse, Abandon, TxnInv
<1>2. CASE Start \/ Recv \/ RecvClosed \/ Tick
  BY <1>2 DEF Start, Recv, RecvClosed, OnClosed, Tick, TxnInv
<1>3. CASE FlushStep
  <2>1. CASE Begin
    BY <2>1 DEF Begin, VectorInv, Writing, TxnInv
  <2>2. CASE BeginFails
    BY <2>2, ReturnTxn DEF BeginFails
  <2>3. CASE InsertEvent
    BY <2>3 DEF InsertEvent, TxnInv
  <2>4. CASE InsertFeatures
    BY <2>4 DEF InsertFeatures, TxnInv
  <2>5. CASE InsertFails
    <3>1. TxnInv'
      BY <2>5, ReturnTxn DEF InsertFails
    <3> QED BY <2>5, <3>1 DEF InsertFails, Rollback
  <2>6. CASE Commit \/ CommitFails
    <3>1. TxnInv'
      BY <2>6, ReturnTxn DEF Commit, CommitFails
    <3>2. txnEvents = txnFeatures
      BY <2>6 DEF Commit, CommitFails, TxnInv
    <3> QED BY <2>6, <3>1, <3>2 DEF Commit, CommitFails, ApplyTxn
  <2> QED BY <1>3, <2>1, <2>2, <2>3, <2>4, <2>5, <2>6 DEF FlushStep
<1>4. CASE Process
  <2>1. CASE StopServer \/ DropSenders \/ Restart
    BY <2>1 DEF StopServer, DropSenders, Restart, TxnInv
  <2>2. CASE MainReturns \/ Crash
    <3>1. PICK applied \in MayBeApplied : ProcessEnds(applied)
      BY <2>2 DEF MainReturns, Crash
    <3>2. TxnInv'
      BY <3>1 DEF ProcessEnds, TxnInv
    <3>3. CASE applied
      <4>1. txnEvents = txnFeatures
        BY <3>1, <3>3 DEF MayBeApplied, TxnInv
      <4> QED BY <3>1, <3>2, <3>3, <4>1 DEF ProcessEnds, ApplyTxn
    <3>4. CASE ~applied
      BY <3>1, <3>2, <3>4 DEF ProcessEnds, Rollback
    <3> QED BY <3>3, <3>4
  <2> QED BY <1>4, <2>1, <2>2 DEF Process
<1>5. CASE UNCHANGED vars
  BY <1>5 DEF vars, TxnInv
<1> QED
  BY <1>1, <1>2, <1>3, <1>4, <1>5 DEF Next, WorkerStep

\* In every reachable state the events table and ml_features_log hold the same
\* events, whichever INSERT, COMMIT or process failed on the way.
THEOREM RowsAlwaysMatch == Spec => []RowsMatch
<1>1. Init => TypeOK /\ VectorInv /\ TxnInv /\ RowsMatch
  BY InitTyped, InitTxn
<1>2. TypeOK /\ VectorInv /\ TxnInv /\ RowsMatch /\ [Next]_vars
        => (TypeOK /\ VectorInv /\ TxnInv /\ RowsMatch)'
  BY StepTyped, StepTxn, IngestorAssumption
<1> QED BY <1>1, <1>2, PTL DEF Spec

-----------------------------------------------------------------------------
(* Sequences whose elements are all different.                             *)

LEMMA EmptyHolds == Range(<<>>) = {} /\ IsInjective(<<>>)
BY DEF Range, IsInjective

LEMMA AppendHolds ==
  ASSUME NEW S, NEW s \in Seq(S), NEW e \in S
  PROVE  /\ Range(Append(s, e)) = Range(s) \cup {e}
         /\ IsInjective(s) /\ e \notin Range(s) => IsInjective(Append(s, e))
<1>1. /\ Append(s, e) \in Seq(S)
      /\ DOMAIN Append(s, e) = 1..Len(s) + 1
      /\ \A i \in 1..Len(s) : Append(s, e)[i] = s[i]
      /\ Append(s, e)[Len(s) + 1] = e
      /\ DOMAIN s = 1..Len(s)
      /\ Len(s) \in Nat
  BY AppendProperties, LenProperties
<1>2. Range(Append(s, e)) = Range(s) \cup {e}
  BY <1>1 DEF Range
<1>3. IsInjective(s) /\ e \notin Range(s) => IsInjective(Append(s, e))
  BY <1>1 DEF Range, IsInjective
<1> QED BY <1>2, <1>3

LEMMA TailHolds ==
  ASSUME NEW S, NEW s \in Seq(S), s # <<>>
  PROVE  /\ Range(s) = Range(Tail(s)) \cup {Head(s)}
         /\ IsInjective(s) => /\ Head(s) \notin Range(Tail(s))
                              /\ IsInjective(Tail(s))
<1>1. /\ Tail(s) \in Seq(S)
      /\ DOMAIN Tail(s) = 1..Len(s) - 1
      /\ \A i \in 1..Len(s) - 1 : Tail(s)[i] = s[i + 1]
      /\ Head(s) = s[1]
      /\ DOMAIN s = 1..Len(s)
      /\ Len(s) \in Nat \ {0}
  BY HeadTailProperties, LenProperties, EmptySeq
<1>2. Range(s) = Range(Tail(s)) \cup {Head(s)}
  <2>1. ASSUME NEW i \in 1..Len(s)
        PROVE  s[i] \in Range(Tail(s)) \cup {Head(s)}
    <3>1. CASE i = 1
      BY <1>1, <3>1
    <3>2. CASE i # 1
      <4>1. i - 1 \in 1..Len(s) - 1 /\ Tail(s)[i - 1] = s[i]
        BY <1>1, <3>2
      <4> QED BY <1>1, <4>1 DEF Range
    <3> QED BY <3>1, <3>2
  <2>2. ASSUME NEW i \in 1..Len(s) - 1
        PROVE  Tail(s)[i] \in Range(s)
    BY <1>1 DEF Range
  <2>3. Head(s) \in Range(s)
    BY <1>1 DEF Range
  <2> QED BY <1>1, <2>1, <2>2, <2>3 DEF Range
<1>3. IsInjective(s) => Head(s) \notin Range(Tail(s)) /\ IsInjective(Tail(s))
  BY <1>1 DEF Range, IsInjective
<1> QED BY <1>2, <1>3

LEMMA ConcatHolds ==
  ASSUME NEW S, NEW s \in Seq(S), NEW t \in Seq(S)
  PROVE  /\ Range(s \o t) = Range(s) \cup Range(t)
         /\ IsInjective(s) /\ IsInjective(t) /\ Range(s) \cap Range(t) = {}
              => IsInjective(s \o t)
<1>1. /\ s \o t \in Seq(S)
      /\ DOMAIN (s \o t) = 1..Len(s) + Len(t)
      /\ \A i \in 1..Len(s) + Len(t) :
           (s \o t)[i] = IF i <= Len(s) THEN s[i] ELSE t[i - Len(s)]
      /\ DOMAIN s = 1..Len(s) /\ DOMAIN t = 1..Len(t)
      /\ Len(s) \in Nat /\ Len(t) \in Nat
  BY ConcatProperties, LenProperties
<1>2. Range(s \o t) = Range(s) \cup Range(t)
  BY RangeConcatenation
<1>3. ASSUME IsInjective(s), IsInjective(t), Range(s) \cap Range(t) = {},
             NEW i \in 1..Len(s) + Len(t), NEW j \in 1..Len(s) + Len(t),
             (s \o t)[i] = (s \o t)[j]
      PROVE  i = j
  <2>1. CASE i <= Len(s) /\ j <= Len(s)
    BY <1>1, <1>3, <2>1 DEF IsInjective
  <2>2. CASE i > Len(s) /\ j > Len(s)
    <3>1. i - Len(s) \in DOMAIN t /\ j - Len(s) \in DOMAIN t
          /\ t[i - Len(s)] = t[j - Len(s)]
      BY <1>1, <1>3, <2>2
    <3>2. i - Len(s) = j - Len(s)
      BY <1>3, <3>1 DEF IsInjective
    <3> QED BY <1>1, <3>2
  <2>3. CASE i <= Len(s) /\ j > Len(s)
    <3>1. i \in DOMAIN s /\ j - Len(s) \in DOMAIN t /\ s[i] = t[j - Len(s)]
      BY <1>1, <1>3, <2>3
    <3> QED BY <1>3, <3>1 DEF Range
  <2>4. CASE i > Len(s) /\ j <= Len(s)
    <3>1. j \in DOMAIN s /\ i - Len(s) \in DOMAIN t /\ s[j] = t[i - Len(s)]
      BY <1>1, <1>3, <2>4
    <3> QED BY <1>3, <3>1 DEF Range
  <2> QED BY <1>1, <2>1, <2>2, <2>3, <2>4
<1> QED BY <1>1, <1>2, <1>3 DEF IsInjective

-----------------------------------------------------------------------------
(* Every submitted event is held in one place until it is settled.         *)

\* HeldOnce, place by place.
HeldInv ==
  /\ \A e \in Events :
       fate[e] = "submitted" <=> e \in sending \cup Range(queue) \cup Range(batch)
                                          \cup Range(drained)
  /\ sending \cap (Range(queue) \cup Range(batch) \cup Range(drained)) = {}
  /\ Range(queue) \cap (Range(batch) \cup Range(drained)) = {}
  /\ Range(batch) \cap Range(drained) = {}
  /\ IsInjective(queue) /\ IsInjective(batch) /\ IsInjective(drained)

LEMMA RangesTyped ==
  ASSUME TypeOK
  PROVE  /\ Range(queue) \subseteq Events
         /\ Range(batch) \subseteq Events
         /\ Range(drained) \subseteq Events
BY RangeOfSeq DEF TypeOK

LEMMA InitHeld == Init => HeldInv
BY EmptyHolds DEF Init, FreshWorker, HeldInv

\* A return of flush settles all it was working on, and only that.
LEMMA ReturnHeld ==
  ASSUME TypeOK, HeldInv, NEW S, S = Range(batch) \cup Range(drained),
         NEW f \in Fates, f # "submitted", Return(S, f)
  PROVE  HeldInv'
<1>1. \A e \in Events : fate'[e] = IF e \in S THEN f ELSE fate[e]
  BY DEF Return, Mark
<1> QED
  BY <1>1, EmptyHolds DEF Return, ClearBatch, HeldInv

LEMMA StepHeld ==
  ASSUME TypeOK, VectorInv, HeldInv, [Next]_vars
  PROVE  HeldInv'
<1> USE DEF process, worker, txn, tables
<1>0. \A S, f : \A e \in Events : Mark(S, f)[e] = IF e \in S THEN f ELSE fate[e]
  BY DEF Mark
<1>1. ASSUME NEW e \in Events, Handler(e)
      PROVE  HeldInv'
  <2>1. CASE Submit(e)
    BY <1>0, <2>1 DEF Submit, HeldInv
  <2>2. CASE Enqueue(e)
    <3>1. e \notin Range(queue)
      BY <2>2 DEF Enqueue, HeldInv
    <3>2. Range(queue') = Range(queue) \cup {e} /\ IsInjective(queue')
      BY <2>2, <3>1, AppendHolds DEF Enqueue, TypeOK, HeldInv
    <3> QED BY <2>2, <3>1, <3>2 DEF Enqueue, HeldInv
  <2>3. CASE Refuse(e)
    BY <1>0, <2>3 DEF Refuse, HeldInv
  <2>4. CASE Abandon(e)
    BY <1>0, <2>4 DEF Abandon, HeldInv
  <2> QED BY <1>1, <2>1, <2>2, <2>3, <2>4 DEF Handler
<1>2. CASE Start
  <2>1. CASE CannotStart
    BY <1>0, <1>2, <2>1, EmptyHolds DEF Start, HeldInv
  <2>2. CASE ~CannotStart
    BY <1>2, <2>2 DEF Start, HeldInv
  <2> QED BY <2>1, <2>2
<1>3. CASE Recv
  <2>1. Head(queue) \in Events
    BY <1>3, HeadTailProperties DEF Recv, TypeOK
  <2>2. /\ Range(queue) = Range(queue') \cup {Head(queue)}
        /\ Head(queue) \notin Range(queue')
        /\ IsInjective(queue')
    BY <1>3, TailHolds DEF Recv, TypeOK, HeldInv
  <2>3. Head(queue) \notin Range(batch)
    BY <2>2 DEF HeldInv
  <2>4. Range(batch') = Range(batch) \cup {Head(queue)} /\ IsInjective(batch')
    BY <1>3, <2>1, <2>3, AppendHolds DEF Recv, TypeOK, HeldInv
  <2> QED BY <1>3, <2>2, <2>4 DEF Recv, HeldInv
<1>4. CASE RecvClosed \/ Tick
  BY <1>4 DEF RecvClosed, Tick, HeldInv
<1>5. CASE FlushStep
  <2>1. CASE Begin
    BY <2>1, EmptyHolds DEF Begin, DrainBatch, VectorInv, Writing, HeldInv
  <2>2. CASE BeginFails
    <3>1. Range(drained) = {}
      BY <2>2, EmptyHolds DEF BeginFails, VectorInv, Writing
    <3> QED BY <2>2, <3>1, ReturnHeld DEF BeginFails, Fates
  <2>3. CASE InsertEvent \/ InsertFeatures
    BY <2>3 DEF InsertEvent, InsertFeatures, HeldInv
  <2>4. CASE InsertFails \/ Commit \/ CommitFails
    <3>1. Range(batch) = {}
      BY <2>4, EmptyHolds DEF InsertFails, Commit, CommitFails, VectorInv, Writing
    <3>2. PICK f \in {"poison", "outage", "stored"} : Return(Range(drained), f)
      BY <2>4 DEF InsertFails, Commit, CommitFails
    <3> QED BY <3>1, <3>2, ReturnHeld DEF Fates
  <2> QED BY <1>5, <2>1, <2>2, <2>3, <2>4 DEF FlushStep
<1>6. CASE Process
  <2>1. CASE StopServer \/ DropSenders \/ Restart
    BY <2>1 DEF StopServer, DropSenders, Restart, HeldInv
  <2>2. CASE MainReturns \/ Crash
    <3>1. PICK applied \in BOOLEAN : ProcessEnds(applied)
      BY <2>2 DEF MainReturns, Crash, MayBeApplied
    <3>2. \A e \in Events : fate'[e] # "submitted"
      BY <3>1 DEF ProcessEnds, HeldInv
    <3> QED BY <3>1, <3>2, EmptyHolds DEF ProcessEnds, HeldInv
  <2> QED BY <1>6, <2>1, <2>2 DEF Process
<1>7. CASE UNCHANGED vars
  BY <1>7 DEF vars, HeldInv
<1> QED
  BY <1>1, <1>2, <1>3, <1>4, <1>5, <1>6, <1>7 DEF Next, WorkerStep

LEMMA HeldInvImplies ==
  ASSUME TypeOK, HeldInv
  PROVE  HeldOnce
<1>1. drained \o batch \in Seq(Events)
  BY ConcatProperties DEF TypeOK
<1>2. /\ Range(drained \o batch) = Range(drained) \cup Range(batch)
      /\ IsInjective(drained \o batch)
  BY ConcatHolds DEF TypeOK, HeldInv
<1>3. Range(drained \o batch) \cap Range(queue) = {}
  BY <1>2 DEF HeldInv
<1>4. /\ Range((drained \o batch) \o queue)
           = Range(drained) \cup Range(batch) \cup Range(queue)
      /\ IsInjective((drained \o batch) \o queue)
  <2>1. queue \in Seq(Events) /\ IsInjective(queue)
    BY DEF TypeOK, HeldInv
  <2>2. Range((drained \o batch) \o queue) = Range(drained \o batch) \cup Range(queue)
    BY <1>1, <2>1, ConcatHolds
  <2>3. IsInjective((drained \o batch) \o queue)
    BY <1>1, <1>2, <1>3, <2>1, ConcatHolds
  <2> QED BY <1>2, <2>2, <2>3
<1>5. /\ Range(InFlight) = Range(drained) \cup Range(batch) \cup Range(queue)
      /\ IsInjective(InFlight)
  BY <1>4 DEF InFlight
<1> QED
  BY <1>5 DEF HeldOnce, HeldInv

\* Whatever fails, every event that was submitted and is not settled is in
\* exactly one of: a waiting handler, the channel, the batch, the flush.
THEOREM EventsHeldOnce == Spec => []HeldOnce
<1>1. Init => TypeOK /\ VectorInv /\ HeldInv
  BY InitTyped, InitHeld
<1>2. TypeOK /\ VectorInv /\ HeldInv /\ [Next]_vars
        => (TypeOK /\ VectorInv /\ HeldInv)'
  BY StepTyped, StepHeld, IngestorAssumption
<1>3. TypeOK /\ HeldInv => HeldOnce
  BY HeldInvImplies
<1> QED BY <1>1, <1>2, <1>3, PTL DEF Spec

-----------------------------------------------------------------------------
(* What is settled stays settled.                                          *)

\* The step that SettledForever allows.
KeepsSettled ==
  /\ \A e \in Events : fate[e] \notin {"new", "submitted"} => fate'[e] = fate[e]
  /\ events \subseteq events'

\* Only events that are held can be marked by a step, and those are submitted.
LEMMA StepKeepsSettled ==
  ASSUME TypeOK, HeldInv, [Next]_vars
  PROVE  KeepsSettled
<1> USE DEF process, worker, txn, tables, KeepsSettled
<1>0. ASSUME NEW S, NEW f, fate' = Mark(S, f),
             \A e \in S \cap Events : fate[e] \in {"new", "submitted"}
      PROVE  \A e \in Events : fate[e] \notin {"new", "submitted"} => fate'[e] = fate[e]
  BY <1>0 DEF Mark
<1>1. ASSUME NEW e \in Events, Handler(e)
      PROVE  KeepsSettled
  <2>1. fate[e] \in {"new", "submitted"}
    BY <1>1 DEF Handler, Submit, Enqueue, Refuse, Abandon, HeldInv
  <2> QED BY <1>0, <1>1, <2>1 DEF Handler, Submit, Enqueue, Refuse, Abandon
<1>2. CASE Start
  BY <1>0, <1>2 DEF Start, HeldInv
<1>3. CASE Recv \/ RecvClosed \/ Tick
  BY <1>3 DEF Recv, RecvClosed, Tick
<1>4. CASE FlushStep
  <2>1. CASE Begin \/ InsertEvent \/ InsertFeatures
    BY <2>1 DEF Begin, InsertEvent, InsertFeatures
  <2>2. CASE BeginFails \/ InsertFails \/ Commit \/ CommitFails
    <3>1. PICK S \in {Range(batch), Range(drained)}, f \in Fates : Return(S, f)
      BY <2>2 DEF BeginFails, InsertFails, Commit, CommitFails, Fates
    <3>2. \A e \in S \cap Events : fate[e] \in {"new", "submitted"}
      BY <3>1 DEF HeldInv
    <3>3. events \subseteq events'
      BY <2>2 DEF BeginFails, InsertFails, Commit, CommitFails, ApplyTxn, Rollback
    <3> QED BY <1>0, <3>1, <3>2, <3>3 DEF Return
  <2> QED BY <1>4, <2>1, <2>2 DEF FlushStep
<1>5. CASE Process
  <2>1. CASE StopServer \/ DropSenders \/ Restart
    BY <2>1 DEF StopServer, DropSenders, Restart
  <2>2. CASE MainReturns \/ Crash
    <3>1. PICK applied \in BOOLEAN : ProcessEnds(applied)
      BY <2>2 DEF MainReturns, Crash, MayBeApplied
    <3>2. \A e \in Events : fate[e] \notin {"new", "submitted"} => fate'[e] = fate[e]
      BY <3>1 DEF ProcessEnds, HeldInv
    <3>3. events \subseteq events'
      BY <3>1 DEF ProcessEnds, ApplyTxn, Rollback
    <3> QED BY <3>2, <3>3
  <2> QED BY <1>5, <2>1, <2>2 DEF Process
<1>6. CASE UNCHANGED vars
  BY <1>6 DEF vars
<1> QED
  BY <1>1, <1>2, <1>3, <1>4, <1>5, <1>6 DEF Next, WorkerStep

\* No step of any process changes what became of a settled event, or removes
\* a committed row.
THEOREM SettledStays == Spec => SettledForever
<1>1. Init => TypeOK /\ VectorInv /\ HeldInv
  BY InitTyped, InitHeld
<1>2. TypeOK /\ VectorInv /\ HeldInv /\ [Next]_vars
        => (TypeOK /\ VectorInv /\ HeldInv)'
  BY StepTyped, StepHeld, IngestorAssumption
<1>3. TypeOK /\ HeldInv /\ [Next]_vars => [KeepsSettled]_vars
  BY StepKeepsSettled
<1>4. Spec => [][KeepsSettled]_vars
  BY <1>1, <1>2, <1>3, PTL DEF Spec
<1> QED BY <1>4 DEF SettledForever, KeepsSettled

-----------------------------------------------------------------------------
(* Back-pressure bounds memory.                                            *)

\* A batch that has filled is never waited on.
RoomInv == pc \in {"start", "select"} => Len(batch) < EffectiveBatch

LEMMA InitBounded == Init => BoundedMemory /\ RoomInv
BY IngestorAssumption
DEF Init, FreshWorker, BoundedMemory, RoomInv, EffectiveBatch, IngestorAssumption

LEMMA StepBounded ==
  ASSUME IngestorAssumption, TypeOK, VectorInv, BoundedMemory, RoomInv, [Next]_vars
  PROVE  (BoundedMemory /\ RoomInv)'
<1> USE DEF process, worker, txn, tables, BoundedMemory, RoomInv
<1>1. /\ EffectiveBatch \in Nat \ {0}
      /\ QueueCapacity \in Nat \ {0}
      /\ Len(queue) \in Nat /\ Len(batch) \in Nat /\ Len(drained) \in Nat
      /\ Len(<<>>) = 0
  BY LenProperties, EmptySeq DEF IngestorAssumption, EffectiveBatch, TypeOK
<1>2. ASSUME NEW e \in Events, Handler(e)
      PROVE  (BoundedMemory /\ RoomInv)'
  <2>1. CASE Enqueue(e)
    <3>1. Len(queue') = Len(queue) + 1
      BY <2>1, AppendProperties DEF Enqueue, TypeOK
    <3> QED BY <1>1, <2>1, <3>1 DEF Enqueue, HasSlot
  <2> QED BY <1>2, <2>1 DEF Handler, Submit, Refuse, Abandon
<1>3. CASE Start
  BY <1>1, <1>3 DEF Start
<1>4. CASE Recv
  <2>1. Head(queue) \in Events /\ Len(queue') = Len(queue) - 1
    BY <1>4, HeadTailProperties DEF Recv, TypeOK
  <2>2. Len(batch') = Len(batch) + 1
    BY <1>4, <2>1, AppendProperties DEF Recv, TypeOK
  <2>3. drained' = drained /\ Len(drained) = 0
    BY <1>1, <1>4 DEF Recv, VectorInv, Writing
  <2>4. RoomInv'
    BY <1>1, <1>4, <2>2 DEF Recv, BatchIsFull, EffectiveBatch, IngestorAssumption
  <2> QED BY <1>1, <1>4, <2>1, <2>2, <2>3, <2>4 DEF Recv
<1>5. CASE RecvClosed \/ Tick
  BY <1>5 DEF RecvClosed, OnClosed, Tick
<1>6. CASE FlushStep
  <2>1. CASE Begin
    <3>1. Len(drained) = 0
      BY <1>1, <2>1 DEF Begin, VectorInv, Writing
    <3> QED BY <1>1, <2>1, <3>1 DEF Begin, DrainBatch
  <2>2. CASE InsertEvent \/ InsertFeatures
    BY <2>2 DEF InsertEvent, InsertFeatures
  <2>3. CASE BeginFails \/ InsertFails \/ Commit \/ CommitFails
    <3>1. PICK S \in {Range(batch), Range(drained)}, f \in Fates : Return(S, f)
      BY <2>3 DEF BeginFails, InsertFails, Commit, CommitFails, Fates
    <3> QED BY <1>1, <3>1 DEF Return, ClearBatch
  <2> QED BY <1>6, <2>1, <2>2, <2>3 DEF FlushStep
<1>7. CASE Process
  <2>1. CASE StopServer \/ DropSenders \/ Restart
    BY <2>1 DEF StopServer, DropSenders, Restart
  <2>2. CASE MainReturns \/ Crash
    <3>1. PICK applied \in BOOLEAN : ProcessEnds(applied)
      BY <2>2 DEF MainReturns, Crash, MayBeApplied
    <3> QED BY <1>1, <3>1 DEF ProcessEnds
  <2> QED BY <1>7, <2>1, <2>2 DEF Process
<1>8. CASE UNCHANGED vars
  BY <1>8 DEF vars
<1> QED
  BY <1>2, <1>3, <1>4, <1>5, <1>6, <1>7, <1>8 DEF Next, WorkerStep

\* For every capacity and batch size, 0 included: the worker never holds more
\* than one batch, nor the channel more than its capacity.
THEOREM MemoryIsBounded == Spec => []BoundedMemory
<1>1. Init => TypeOK /\ VectorInv /\ BoundedMemory /\ RoomInv
  BY InitTyped, InitBounded
<1>2. TypeOK /\ VectorInv /\ BoundedMemory /\ RoomInv /\ [Next]_vars
        => (TypeOK /\ VectorInv /\ BoundedMemory /\ RoomInv)'
  BY StepTyped, StepBounded, IngestorAssumption
<1> QED BY <1>1, <1>2, PTL DEF Spec
=============================================================================
