------------------------- MODULE AgentClientProofs -------------------------
(***************************************************************************)
(* Proofs about AgentClient for every capacity, batch size and bound.      *)
(***************************************************************************)
EXTENDS AgentClient, SequenceTheorems, FiniteSetTheorems, TLAPS

\* What the loop's and the collector's places say about what they hold.
PlaceInv ==
  /\ pc = "select" => Len(batch) < BatchSize
  /\ pc \in {"flush", "lastflush"} => batch # <<>>
  /\ open => streams # 0
  /\ collector = "sending" => produced # 0

IInv == TypeOK /\ PlaceInv

-----------------------------------------------------------------------------
(* Type correctness. *)

\* Sleeping keeps both durations in their range.
LEMMA SleepTyped ==
  ASSUME AgentAssumption, TypeOK, SleepThenRetry
  PROVE  /\ backoff' \in 1..MaxBackoff
         /\ wait' \in 0..MaxBackoff
         /\ pc' = "sleeping"
BY SMTT(30) DEF AgentAssumption, TypeOK, SleepThenRetry, NextBackoff

\* The test of is_closed leaves b or nothing.
LEMMA CheckTyped ==
  ASSUME AgentAssumption, TypeOK, NEW b \in Seq(Numbers), Len(b) < BatchSize,
         CheckClosed(b)
  PROVE  /\ backoff' \in 1..MaxBackoff
         /\ wait' \in 0..MaxBackoff
         /\ pc' \in {"select", "sleeping"}
         /\ batch' \in Seq(Numbers)
         /\ Len(batch') < BatchSize
         /\ Len(batch') <= BatchSize
         /\ batch' \in {b, <<>>}
<1>1. CASE ~IsClosed /\ batch' = b /\ pc' = "select" /\ UNCHANGED <<backoff, wait>>
  BY <1>1, SMTT(30) DEF TypeOK
<1>2. CASE IsClosed /\ batch' = <<>> /\ SleepThenRetry
  <2>1. batch' \in Seq(Numbers) /\ Len(batch') = 0
    BY <1>2
  <2> QED
    BY <2>1, <1>2, SleepTyped DEF AgentAssumption
<1> QED
  BY <1>1, <1>2 DEF CheckClosed

LEMMA InitTyped ==
  ASSUME AgentAssumption, Init
  PROVE  IInv
<1>1. <<>> \in Seq(Numbers) /\ Len(<<>>) = 0
  OBVIOUS
<1>2. produced \in 0..MaxEvents /\ streams \in 0..MaxStreams /\ refused \in 0..MaxRefusals
  BY DEF Init, AgentAssumption
<1>3. wait \in 0..MaxBackoff /\ backoff \in 1..MaxBackoff
  BY DEF Init, AgentAssumption
<1>4. Len(queue) <= QueueCapacity /\ Len(batch) <= BatchSize /\ Len(channel) <= StreamCapacity
  BY <1>1 DEF Init, AgentAssumption
<1>5. wire \in [Streams -> Seq(Numbers)] /\ received \in [Streams -> Seq(Numbers)]
  BY <1>1 DEF Init
<1>6. TypeOK
  BY <1>1, <1>2, <1>3, <1>4, <1>5 DEF Init, TypeOK, LoopStates
<1> QED
  BY <1>6 DEF IInv, PlaceInv, Init

\* The stream the loop uses is one of the bound's.
LEMMA OpenStream ==
  ASSUME AgentAssumption, IInv, open
  PROVE  streams \in Streams
BY DEF AgentAssumption, IInv, TypeOK, PlaceInv, Streams

LEMMA CollectorTyped ==
  ASSUME AgentAssumption, IInv, Collector
  PROVE  IInv'
<1> USE DEF IInv, TypeOK, PlaceInv, AgentAssumption, loopVars, streamVars
<1>1. CASE Collect
  <2>1. produced' \in 0..MaxEvents
    BY <1>1, SMTT(30) DEF Collect
  <2> QED
    BY <1>1, <2>1, SMTT(30) DEF Collect
<1>2. CASE CollectorSend
  <2>1. queue' \in Seq(Numbers) /\ Len(queue') <= QueueCapacity
    <3>1. produced \in Numbers
      BY <1>2 DEF CollectorSend, Numbers
    <3> QED
      BY <1>2, <3>1, SMTT(30) DEF CollectorSend
  <2>2. collector' = "idle" /\ UNCHANGED <<produced, loopVars, streamVars>>
    BY <1>2 DEF CollectorSend
  <2> QED
    BY <2>1, <2>2
<1>3. CASE CollectorEnds
  BY <1>3 DEF CollectorEnds
<1> QED
  BY <1>1, <1>2, <1>3 DEF Collector

LEMMA StreamTyped ==
  ASSUME AgentAssumption, IInv, Stream
  PROVE  IInv'
<1> USE DEF IInv, TypeOK, PlaceInv, AgentAssumption, loopVars
<1>1. CASE StreamTake
  <2>1. streams \in Streams
    BY <1>1, OpenStream DEF StreamTake
  <2>2. Head(channel) \in Numbers /\ Tail(channel) \in Seq(Numbers)
        /\ Len(Tail(channel)) <= StreamCapacity
    BY <1>1, HeadTailProperties, SMTT(30) DEF StreamTake
  <2>3. Append(wire[streams], Head(channel)) \in Seq(Numbers)
    BY <2>1, <2>2
  <2>4. wire' \in [Streams -> Seq(Numbers)]
    BY <1>1, <2>1, <2>3 DEF StreamTake
  <2>5. channel' \in Seq(Numbers) /\ Len(channel') <= StreamCapacity
        /\ UNCHANGED <<produced, collector, queue, loopVars, streams, open, received>>
    BY <1>1, <2>2 DEF StreamTake
  <2> QED
    BY <2>4, <2>5
<1>2. ASSUME NEW k \in Streams, Deliver(k) PROVE IInv'
  <2>1. Head(wire[k]) \in Numbers /\ Tail(wire[k]) \in Seq(Numbers)
    BY <1>2, HeadTailProperties, wire[k] \in Seq(Numbers) DEF Deliver
  <2>2. Append(received[k], Head(wire[k])) \in Seq(Numbers)
    BY <2>1
  <2>3. wire' \in [Streams -> Seq(Numbers)] /\ received' \in [Streams -> Seq(Numbers)]
    BY <1>2, <2>1, <2>2 DEF Deliver
  <2>4. UNCHANGED <<produced, collector, queue, loopVars, streams, open, channel>>
    BY <1>2 DEF Deliver
  <2> QED
    BY <2>3, <2>4
<1>3. ASSUME NEW k \in Streams, Vanish(k) PROVE IInv'
  <2>1. wire' \in [Streams -> Seq(Numbers)]
    BY <1>3 DEF Vanish
  <2>2. UNCHANGED <<produced, collector, queue, loopVars, streams, open, channel, received>>
    BY <1>3 DEF Vanish
  <2> QED
    BY <2>1, <2>2
<1>4. CASE StreamEnds
  <2>1. channel' \in Seq(Numbers) /\ Len(channel') <= StreamCapacity
    BY <1>4 DEF StreamEnds
  <2>2. open' = FALSE /\ UNCHANGED <<produced, collector, queue, loopVars, streams, wire, received>>
    BY <1>4 DEF StreamEnds
  <2> QED
    BY <2>1, <2>2
<1> QED
  BY <1>1, <1>2, <1>3, <1>4 DEF Stream

LEMMA LoopTyped ==
  ASSUME AgentAssumption, IInv, Loop
  PROVE  IInv'
<1> USE DEF IInv, TypeOK, PlaceInv, AgentAssumption, LoopStates, streamVars
<1>1. CASE Connect
  <2>1. /\ streams' \in 0..MaxStreams /\ streams' # 0
        /\ refused' \in 0..MaxRefusals /\ backoff' \in 1..MaxBackoff
    BY <1>1, SMTT(30) DEF Connect, NewStream
  <2>2. /\ channel' \in Seq(Numbers) /\ Len(channel') <= StreamCapacity
        /\ batch' \in Seq(Numbers) /\ Len(batch') < BatchSize /\ Len(batch') <= BatchSize
    BY <1>1, SMTT(30) DEF Connect, NewStream
  <2>3. /\ open' = TRUE /\ pc' = "select"
        /\ UNCHANGED <<produced, collector, queue, wait, wire, received>>
    BY <1>1 DEF Connect, NewStream
  <2> QED
    BY <2>1, <2>2, <2>3
<1>2. CASE ConnectFails
  <2>1. SleepThenRetry
    BY <1>2 DEF ConnectFails, ConnectError
  <2>2. refused' \in 0..MaxRefusals /\ UNCHANGED <<produced, collector, queue, batch, streamVars>>
    BY <1>2, SMTT(30) DEF ConnectFails, ConnectError
  <2> QED
    BY <2>1, <2>2, SleepTyped
<1>3. CASE Wake
  BY <1>3 DEF Wake
<1>4. CASE Recv
  <2> DEFINE b == Append(batch, Head(queue))
  <2>1. Head(queue) \in Numbers /\ Tail(queue) \in Seq(Numbers) /\ Len(Tail(queue)) <= QueueCapacity
    BY <1>4, SMTT(30) DEF Recv
  <2>2. b \in Seq(Numbers) /\ Len(b) = Len(batch) + 1 /\ b # <<>>
    <3>1. b \in Seq(Numbers) /\ Len(b) = Len(batch) + 1
      BY <2>1, AppendProperties
    <3>2. Len(b) # 0
      BY <3>1
    <3> QED
      BY <3>1, <3>2, EmptySeq
  <2>3. Len(batch) < BatchSize
    BY <1>4 DEF Recv
  <2>4. /\ queue' \in Seq(Numbers) /\ Len(queue') <= QueueCapacity
        /\ UNCHANGED <<produced, collector, refused, streamVars>>
    BY <1>4, <2>1 DEF Recv
  <2>5. CASE BatchIsFull(b) /\ batch' = b /\ pc' = "flush" /\ UNCHANGED <<backoff, wait>>
    <3>1. Len(b) <= BatchSize
      BY <2>2, <2>3, SMTT(30)
    <3> HIDE DEF b
    <3> QED
      BY <2>2, <2>4, <2>5, <3>1
  <2>6. CASE ~BatchIsFull(b) /\ CheckClosed(b)
    <3>1. Len(b) < BatchSize
      BY <2>2, <2>6, SMTT(30) DEF BatchIsFull
    <3> HIDE DEF b
    <3>2. /\ backoff' \in 1..MaxBackoff /\ wait' \in 0..MaxBackoff
          /\ pc' \in {"select", "sleeping"}
          /\ batch' \in Seq(Numbers) /\ Len(batch') < BatchSize /\ Len(batch') <= BatchSize
      BY <2>2, <2>6, <3>1, CheckTyped
    <3> QED
      BY <2>4, <3>2
  <2> QED
    BY <1>4, <2>5, <2>6 DEF Recv
<1>5. CASE RecvNone
  BY <1>5 DEF RecvNone
<1>6. CASE Tick
  BY <1>6 DEF Tick, TickFlushes
<1> <<>> \in Seq(Numbers) /\ Len(<<>>) < BatchSize
  BY SMTT(30)
<1>7. CASE IdleTick
  <2>1. /\ backoff' \in 1..MaxBackoff /\ wait' \in 0..MaxBackoff
        /\ pc' \in {"select", "sleeping"}
        /\ batch' \in Seq(Numbers) /\ Len(batch') < BatchSize /\ Len(batch') <= BatchSize
    BY <1>7, CheckTyped DEF IdleTick
  <2>2. UNCHANGED <<produced, collector, queue, refused, streamVars>>
    BY <1>7 DEF IdleTick
  <2> QED
    BY <2>1, <2>2
<1>8. CASE FlushSend
  <2>1. /\ Head(batch) \in Numbers
        /\ Tail(batch) \in Seq(Numbers) /\ Len(Tail(batch)) <= BatchSize
    <3>1. batch # <<>>
      BY <1>8 DEF FlushSend
    <3> QED
      BY <3>1, HeadTailProperties, SMTT(30)
  <2>2. channel' = Append(channel, Head(batch)) /\ Len(channel) < StreamCapacity
    BY <1>8 DEF FlushSend, Drain
  <2>3. channel' \in Seq(Numbers) /\ Len(channel') <= StreamCapacity
    <3>1. channel \in Seq(Numbers) /\ Len(channel) + 1 <= StreamCapacity
      BY <2>2, SMTT(30)
    <3> QED
      BY <2>1, <2>2, <3>1, AppendProperties
  <2>4. UNCHANGED <<produced, collector, queue, refused, streams, open, wire, received>>
    BY <1>8 DEF FlushSend
  <2>5. CASE Tail(batch) # <<>> /\ batch' = Tail(batch) /\ UNCHANGED <<pc, backoff, wait>>
    <3>1. pc \in {"flush", "lastflush"}
      BY <1>8 DEF FlushSend
    <3> QED
      BY <2>1, <2>3, <2>4, <2>5, <3>1
  <2>6. CASE CheckClosed(<<>>)
    <3>1. /\ backoff' \in 1..MaxBackoff /\ wait' \in 0..MaxBackoff
          /\ pc' \in {"select", "sleeping"}
          /\ batch' \in Seq(Numbers) /\ Len(batch') < BatchSize /\ Len(batch') <= BatchSize
      BY <2>6, CheckTyped
    <3> QED
      BY <2>3, <2>4, <3>1
  <2>7. CASE batch' = <<>> /\ pc' = "done" /\ UNCHANGED <<backoff, wait>>
    BY <2>3, <2>4, <2>7, SMTT(30)
  <2> QED
    BY <1>8, <2>5, <2>6, <2>7 DEF FlushSend, Drain
<1>9. CASE FlushFails
  <2>1. UNCHANGED <<produced, collector, queue, refused, streamVars>>
    BY <1>9 DEF FlushFails
  <2>2. CASE CheckClosed(<<>>)
    <3>1. /\ backoff' \in 1..MaxBackoff /\ wait' \in 0..MaxBackoff
          /\ pc' \in {"select", "sleeping"}
          /\ batch' \in Seq(Numbers) /\ Len(batch') < BatchSize /\ Len(batch') <= BatchSize
      BY <2>2, CheckTyped
    <3> QED
      BY <2>1, <3>1
  <2>3. CASE batch' = <<>> /\ pc' = "done" /\ UNCHANGED <<backoff, wait>>
    BY <2>1, <2>3, SMTT(30)
  <2> QED
    BY <1>9, <2>2, <2>3 DEF FlushFails
<1> QED
  BY <1>1, <1>2, <1>3, <1>4, <1>5, <1>6, <1>7, <1>8, <1>9 DEF Loop

LEMMA StepTyped ==
  ASSUME AgentAssumption, IInv, [Next]_vars
  PROVE  IInv'
<1>1. CASE Next
  BY <1>1, CollectorTyped, LoopTyped, StreamTyped DEF Next
<1>2. CASE UNCHANGED vars
  BY <1>2 DEF vars, loopVars, streamVars, IInv, TypeOK, PlaceInv
<1> QED
  BY <1>1, <1>2

LEMMA InvariantHolds == Spec => []IInv
BY InitTyped, StepTyped, AgentAssumption, PTL DEF Spec

\* The agent's vectors and channels never hold more than they were made for,
\* and the backoff stays within its limits, through any number of batches,
\* refusals and streams that end (client.rs:93-182).
THEOREM TypeCorrect == Spec => []TypeOK
BY InvariantHolds, PTL DEF IInv

-----------------------------------------------------------------------------
(* Order.  The agent's vectors, one behind the other, are one sequence; what *)
(* a step of the loop does to it is nothing, or dropping a part.             *)

\* t is s without a part of it.
Thins(s, t) == \E a, b, c \in Seq(Nat) : s = (a \o b) \o c /\ t = a \o c

\* No number in s is above n.
Below(s, n) == \A i \in 1..Len(s) : s[i] <= n

LEMMA IncreasingConcat ==
  ASSUME NEW s \in Seq(Nat), NEW t \in Seq(Nat)
  PROVE  Increasing(s \o t) <=> Increasing(s) /\ Increasing(t) /\ Before(s, t)
<1> DEFINE st == s \o t
<1>1. /\ Len(st) = Len(s) + Len(t) /\ Len(s) \in Nat /\ Len(t) \in Nat
      /\ \A i \in 1..Len(s) : st[i] = s[i] /\ i \in 1..Len(st)
      /\ \A i \in 1..Len(t) : st[Len(s) + i] = t[i] /\ Len(s) + i \in 1..Len(st)
  BY ConcatProperties, LenProperties
<1>2. \A i \in 1..Len(st) : i \in 1..Len(s) \/ i - Len(s) \in 1..Len(t)
  BY <1>1
<1>a. \A i \in 1..Len(st) : i \in 1..Len(s) => st[i] = s[i]
  BY <1>1
<1>b. \A i \in 1..Len(st) : i - Len(s) \in 1..Len(t) => st[i] = t[i - Len(s)]
  <2> TAKE i \in 1..Len(st)
  <2> HAVE i - Len(s) \in 1..Len(t)
  <2>1. Len(s) + (i - Len(s)) = i
    BY <1>1
  <2> QED
    BY <1>1, <2>1
<1> HIDE DEF st
<1>3. ASSUME Increasing(st) PROVE Increasing(s) /\ Increasing(t) /\ Before(s, t)
  <2>1. Increasing(s)
    BY <1>1, <1>3 DEF Increasing
  <2>2. Increasing(t)
    <3> SUFFICES ASSUME NEW i \in 1..Len(t), NEW j \in 1..Len(t), i < j PROVE t[i] < t[j]
      BY DEF Increasing
    <3>1. Len(s) + i < Len(s) + j
      BY <1>1
    <3> QED
      BY <1>1, <1>3, <3>1 DEF Increasing
  <2>3. Before(s, t)
    <3> SUFFICES ASSUME NEW i \in 1..Len(s), NEW j \in 1..Len(t) PROVE s[i] < t[j]
      BY DEF Before
    <3>1. i < Len(s) + j
      BY <1>1
    <3> QED
      BY <1>1, <1>3, <3>1 DEF Increasing
  <2> QED
    BY <2>1, <2>2, <2>3
<1>4. ASSUME Increasing(s), Increasing(t), Before(s, t) PROVE Increasing(st)
  <2> SUFFICES ASSUME NEW i \in 1..Len(st), NEW j \in 1..Len(st), i < j PROVE st[i] < st[j]
    BY DEF Increasing
  <2>1. CASE i \in 1..Len(s) /\ j \in 1..Len(s)
    BY <1>4, <1>a, <2>1 DEF Increasing
  <2>2. CASE i \in 1..Len(s) /\ j - Len(s) \in 1..Len(t)
    BY <1>4, <1>a, <1>b, <2>2 DEF Before
  <2>3. CASE i - Len(s) \in 1..Len(t) /\ j - Len(s) \in 1..Len(t)
    <3>1. i - Len(s) < j - Len(s)
      BY <1>1
    <3> QED
      BY <1>4, <1>b, <2>3, <3>1 DEF Increasing
  <2>4. ~(i - Len(s) \in 1..Len(t) /\ j \in 1..Len(s))
    BY <1>1
  <2> QED
    BY <1>2, <2>1, <2>2, <2>3, <2>4
<1> QED
  BY <1>3, <1>4 DEF st

\* The elements of a concatenation are those of its parts.
LEMMA ConcatElements ==
  ASSUME NEW s \in Seq(Nat), NEW t \in Seq(Nat)
  PROVE  LET st == s \o t
         IN /\ \A i \in 1..Len(s) : \E j \in 1..Len(st) : st[j] = s[i]
            /\ \A i \in 1..Len(t) : \E j \in 1..Len(st) : st[j] = t[i]
            /\ \A i \in 1..Len(st) : \/ \E j \in 1..Len(s) : st[i] = s[j]
                                     \/ \E j \in 1..Len(t) : st[i] = t[j]
<1> DEFINE st == s \o t
<1>1. /\ Len(st) = Len(s) + Len(t) /\ Len(s) \in Nat /\ Len(t) \in Nat
      /\ \A i \in 1..Len(st) : st[i] = IF i <= Len(s) THEN s[i] ELSE t[i - Len(s)]
  BY ConcatProperties, LenProperties
<1> HIDE DEF st
<1>2. ASSUME NEW i \in 1..Len(s) PROVE \E j \in 1..Len(st) : st[j] = s[i]
  <2>1. i \in 1..Len(st) /\ st[i] = s[i]
    BY <1>1
  <2> QED
    BY <2>1
<1>3. ASSUME NEW i \in 1..Len(t) PROVE \E j \in 1..Len(st) : st[j] = t[i]
  <2>1. /\ Len(s) + i \in 1..Len(st)
        /\ ~(Len(s) + i <= Len(s))
        /\ (Len(s) + i) - Len(s) = i
    BY <1>1
  <2>2. st[Len(s) + i] = t[i]
    BY <1>1, <2>1
  <2> QED
    BY <2>1, <2>2
<1>4. ASSUME NEW i \in 1..Len(st)
      PROVE  \/ \E j \in 1..Len(s) : st[i] = s[j]
             \/ \E j \in 1..Len(t) : st[i] = t[j]
  <2>1. CASE i <= Len(s)
    <3>1. i \in 1..Len(s) /\ st[i] = s[i]
      BY <1>1, <2>1
    <3> QED
      BY <3>1
  <2>2. CASE ~(i <= Len(s))
    <3>1. i - Len(s) \in 1..Len(t) /\ st[i] = t[i - Len(s)]
      BY <1>1, <2>2
    <3> QED
      BY <3>1
  <2> QED
    BY <2>1, <2>2
<1> QED
  BY <1>2, <1>3, <1>4 DEF st

\* A concatenation is before, or behind, what both its parts are.
LEMMA BeforeConcat ==
  ASSUME NEW s \in Seq(Nat), NEW t \in Seq(Nat), NEW u \in Seq(Nat)
  PROVE  /\ Before(s \o t, u) <=> Before(s, u) /\ Before(t, u)
         /\ Before(u, s \o t) <=> Before(u, s) /\ Before(u, t)
<1> DEFINE st == s \o t
<1>1. /\ \A i \in 1..Len(s) : \E j \in 1..Len(st) : st[j] = s[i]
      /\ \A i \in 1..Len(t) : \E j \in 1..Len(st) : st[j] = t[i]
      /\ \A i \in 1..Len(st) : \/ \E j \in 1..Len(s) : st[i] = s[j]
                               \/ \E j \in 1..Len(t) : st[i] = t[j]
  BY ConcatElements
<1> HIDE DEF st
<1>3. Before(st, u) <=> Before(s, u) /\ Before(t, u)
  BY <1>1 DEF Before
<1>4. Before(u, st) <=> Before(u, s) /\ Before(u, t)
  BY <1>1 DEF Before
<1> QED
  BY <1>3, <1>4 DEF st

LEMMA BelowConcat ==
  ASSUME NEW s \in Seq(Nat), NEW t \in Seq(Nat), NEW n \in Nat
  PROVE  Below(s \o t, n) <=> Below(s, n) /\ Below(t, n)
<1> DEFINE st == s \o t
<1>1. /\ \A i \in 1..Len(s) : \E j \in 1..Len(st) : st[j] = s[i]
      /\ \A i \in 1..Len(t) : \E j \in 1..Len(st) : st[j] = t[i]
      /\ \A i \in 1..Len(st) : \/ \E j \in 1..Len(s) : st[i] = s[j]
                               \/ \E j \in 1..Len(t) : st[i] = t[j]
  BY ConcatElements
<1> HIDE DEF st
<1>3. Below(st, n) <=> Below(s, n) /\ Below(t, n)
  BY <1>1 DEF Below
<1> QED
  BY <1>3 DEF st

\* A number above a sequence may be put behind it.
LEMMA Singleton ==
  ASSUME NEW n \in Nat
  PROVE  /\ <<n>> \in Seq(Nat) /\ Increasing(<<n>>)
         /\ \A s \in Seq(Nat), m \in Nat : Below(s, m) /\ m < n => Before(s, <<n>>)
         /\ \A m \in Nat : Below(<<n>>, m) <=> n <= m
<1>1. <<n>> \in Seq(Nat) /\ Len(<<n>>) = 1 /\ <<n>>[1] = n
  OBVIOUS
<1>2. Increasing(<<n>>)
  BY <1>1 DEF Increasing
<1>3. ASSUME NEW s \in Seq(Nat), NEW m \in Nat, Below(s, m), m < n PROVE Before(s, <<n>>)
  <2> SUFFICES ASSUME NEW i \in 1..Len(s) PROVE s[i] < n
    BY <1>1 DEF Before
  <2>1. s[i] \in Nat
    BY ElementOfSeq
  <2> QED
    BY <1>3, <2>1 DEF Below
<1> QED
  BY <1>1, <1>2, <1>3, SMTT(30) DEF Below

\* Dropping a part keeps the order of the rest.
LEMMA ThinnedInOrder ==
  ASSUME NEW s \in Seq(Nat), NEW t, Thins(s, t)
  PROVE  /\ t \in Seq(Nat)
         /\ Increasing(s) => Increasing(t)
         /\ \A u \in Seq(Nat) : Before(u, s) => Before(u, t)
         /\ \A u \in Seq(Nat) : Before(s, u) => Before(t, u)
         /\ \A n \in Nat : Below(s, n) => Below(t, n)
<1>1. PICK a \in Seq(Nat), b \in Seq(Nat), c \in Seq(Nat) : s = (a \o b) \o c /\ t = a \o c
  BY DEF Thins
<1>2. a \o b \in Seq(Nat) /\ t \in Seq(Nat)
  BY <1>1, ConcatProperties
<1>3. Increasing(s) => Increasing(t)
  BY <1>1, <1>2, IncreasingConcat, BeforeConcat
<1>4. ASSUME NEW u \in Seq(Nat)
      PROVE  /\ Before(u, s) => Before(u, t)
             /\ Before(s, u) => Before(t, u)
  BY <1>1, <1>2, BeforeConcat, ZenonT(30)
<1>5. ASSUME NEW n \in Nat PROVE Below(s, n) => Below(t, n)
  BY <1>1, <1>2, BelowConcat
<1> QED
  BY <1>2, <1>3, <1>4, <1>5

\* Concatenation, for sequences of numbers.  The two ways to bracket three of
\* them are named, so that the provers use Assoc only where it is meant.
FromLeft(s, t, u)  == (s \o t) \o u
FromRight(s, t, u) == s \o (t \o u)

LEMMA Closed == <<>> \in Seq(Nat) /\ \A s, t \in Seq(Nat) : s \o t \in Seq(Nat)
BY EmptySeq, ConcatProperties

LEMMA Unit == \A s \in Seq(Nat) : s \o <<>> = s /\ <<>> \o s = s
BY ConcatEmptySeq

LEMMA Assoc == \A s, t, u \in Seq(Nat) : FromLeft(s, t, u) = FromRight(s, t, u)
<1> SUFFICES ASSUME NEW s \in Seq(Nat), NEW t \in Seq(Nat), NEW u \in Seq(Nat)
             PROVE  (s \o t) \o u = s \o (t \o u)
  BY DEF FromLeft, FromRight
<1> QED
  BY ConcatAssociative, SMTT(60)

\* Moving the head of one sequence to the end of the one before it changes
\* nothing in the two.
LEMMA Shift ==
  ASSUME NEW s \in Seq(Nat), NEW t \in Seq(Nat), t # <<>>
  PROVE  /\ Head(t) \in Nat /\ Tail(t) \in Seq(Nat) /\ <<Head(t)>> \in Seq(Nat)
         /\ t = <<Head(t)>> \o Tail(t)
         /\ Append(s, Head(t)) = s \o <<Head(t)>>
         /\ Append(s, Head(t)) \o Tail(t) = s \o t
<1>1. Head(t) \in Nat /\ Tail(t) \in Seq(Nat) /\ <<Head(t)>> \in Seq(Nat)
  BY HeadTailProperties
<1>2. t = <<Head(t)>> \o Tail(t)
  <2> DEFINE w == <<Head(t)>> \o Tail(t)
  <2>1. w \in Seq(Nat) /\ Len(w) = 1 + Len(Tail(t))
    BY <1>1, ConcatProperties
  <2>2. Len(Tail(t)) = Len(t) - 1 /\ Len(t) \in Nat /\ Len(t) # 0
    BY HeadTailProperties, EmptySeq, LenProperties
  <2>3. ASSUME NEW i \in 1..Len(t) PROVE t[i] = w[i]
    <3>1. w[i] = IF i <= 1 THEN <<Head(t)>>[i] ELSE Tail(t)[i - 1]
      BY <1>1, <2>2, ConcatProperties
    <3>2. CASE i = 1
      BY <3>1, <3>2
    <3>3. CASE i # 1
      <4>1. i - 1 \in 1..Len(Tail(t)) /\ (i - 1) + 1 = i
        BY <2>2, <3>3
      <4> QED
        BY <3>1, <3>3, <4>1, HeadTailProperties
    <3> QED
      BY <3>2, <3>3
  <2> HIDE DEF w
  <2>4. t = w
    BY <2>1, <2>2, <2>3, SeqEqual
  <2> QED
    BY <2>4 DEF w
<1>3. Append(s, Head(t)) = s \o <<Head(t)>>
  BY <1>1, AppendIsConcat
<1>4. FromLeft(s, <<Head(t)>>, Tail(t)) = FromRight(s, <<Head(t)>>, Tail(t))
  BY <1>1, Assoc
<1> QED
  BY <1>1, <1>2, <1>3, <1>4 DEF FromLeft, FromRight

-----------------------------------------------------------------------------
(* The inductive invariant: InOrder, no number above the last one made, and  *)
(* nothing in streams that have not been opened.                             *)

OrderInv ==
  /\ InOrder
  /\ Below(Agent, produced)
  /\ \A k \in Streams : Below(Carried(k), produced)
  /\ \A k \in Streams : k > streams => wire[k] = <<>> /\ received[k] = <<>>

\* All these sequences are sequences of numbers.
LEMMA Numeric ==
  ASSUME AgentAssumption, TypeOK
  PROVE  /\ produced \in Nat
         /\ channel \in Seq(Nat) /\ batch \in Seq(Nat) /\ queue \in Seq(Nat)
         /\ InHand \in Seq(Nat)
         /\ Agent \in Seq(Nat)
         /\ \A k \in Streams : /\ wire[k] \in Seq(Nat) /\ received[k] \in Seq(Nat)
                               /\ Carried(k) \in Seq(Nat)
<1>1. Seq(Numbers) \subseteq Seq(Nat)
  <2>1. Numbers \subseteq Nat
    BY DEF Numbers
  <2> QED
    BY <2>1, SeqMonotonic
<1>2. produced \in Nat
  BY DEF TypeOK
<1>3. channel \in Seq(Nat) /\ batch \in Seq(Nat) /\ queue \in Seq(Nat)
  BY <1>1 DEF TypeOK
<1>4. InHand \in Seq(Nat)
  <2>1. <<produced>> \in Seq(Nat) /\ <<>> \in Seq(Nat)
    BY <1>2
  <2> QED
    BY <2>1 DEF InHand
<1>5. Agent \in Seq(Nat)
  BY <1>3, <1>4, ConcatProperties DEF Agent
<1>6. ASSUME NEW k \in Streams
      PROVE  wire[k] \in Seq(Nat) /\ received[k] \in Seq(Nat) /\ Carried(k) \in Seq(Nat)
  <2>1. wire[k] \in Seq(Nat) /\ received[k] \in Seq(Nat)
    BY <1>1 DEF TypeOK
  <2> QED
    BY <2>1, ConcatProperties DEF Carried
<1> QED
  BY <1>2, <1>3, <1>4, <1>5, <1>6

\* A step that leaves the streams alone and makes no event keeps the order if
\* it keeps what the agent holds or drops a part of it.
LEMMA AgentThins ==
  ASSUME AgentAssumption, TypeOK, OrderInv,
         Agent' = Agent \/ Thins(Agent, Agent'),
         produced' = produced, \A k \in Streams : Carried(k)' = Carried(k),
         \A k \in Streams : k > streams' => wire[k]' = <<>> /\ received[k]' = <<>>
  PROVE  OrderInv'
<1>1. /\ Agent \in Seq(Nat) /\ Agent' \in Seq(Nat) /\ produced \in Nat
      /\ \A k \in Streams : Carried(k) \in Seq(Nat)
  BY Numeric, ThinnedInOrder
<1>2. Increasing(Agent') /\ Below(Agent', produced)
  BY <1>1, ThinnedInOrder DEF OrderInv, InOrder
<1>3. \A k \in Streams : Before(Carried(k), Agent')
  BY <1>1, ThinnedInOrder DEF OrderInv, InOrder
<1>4. Below(Agent, produced)'
  BY <1>2 DEF Below
<1>5. \A k \in Streams : Below(Carried(k), produced)'
  BY DEF OrderInv, Below
<1>6. InOrder'
  <2>1. Increasing(Agent)'
    BY <1>2 DEF Increasing
  <2>2. \A k \in Streams : (Increasing(Carried(k)) /\ Before(Carried(k), Agent))'
    BY <1>3 DEF OrderInv, InOrder, Increasing, Before
  <2>3. \A k, l \in Streams : k < l => Before(Carried(k), Carried(l))'
    BY DEF OrderInv, InOrder, Before
  <2> QED
    BY <2>1, <2>2, <2>3 DEF InOrder
<1> QED
  BY <1>4, <1>5, <1>6 DEF OrderInv

\* Four sequences, one behind the other, as in Agent.
Row(a, b, c, d) == a \o b \o c \o d

\* What is in front of the first of four is in front of all.
LEMMA InFront ==
  ASSUME NEW e \in Seq(Nat), NEW a \in Seq(Nat), NEW b \in Seq(Nat), NEW c \in Seq(Nat),
         NEW d \in Seq(Nat)
  PROVE  /\ Row(e \o a, b, c, d) = e \o Row(a, b, c, d)
         /\ Row(a, b, c, d) \in Seq(Nat)
<1>1. PICK u \in Seq(Nat) : u = a \o b
  BY Closed
<1>2. PICK v \in Seq(Nat) : v = u \o c
  BY Closed
<1>3. (e \o a) \o b = e \o u
  <2>1. FromLeft(e, a, b) = FromRight(e, a, b)
    BY Assoc
  <2> QED
    BY <1>1, <2>1 DEF FromLeft, FromRight
<1>4. (e \o u) \o c = e \o v
  <2>1. FromLeft(e, u, c) = FromRight(e, u, c)
    BY Assoc
  <2> QED
    BY <1>2, <2>1 DEF FromLeft, FromRight
<1>5. (e \o v) \o d = e \o (v \o d)
  <2>1. FromLeft(e, v, d) = FromRight(e, v, d)
    BY Assoc
  <2> QED
    BY <2>1 DEF FromLeft, FromRight
<1>6. v \o d \in Seq(Nat)
  BY Closed
<1>7. Row(a, b, c, d) = v \o d
  BY <1>1, <1>2 DEF Row
<1>8. Row(e \o a, b, c, d) = e \o (v \o d)
  BY <1>3, <1>4, <1>5 DEF Row
<1> QED
  BY <1>6, <1>7, <1>8

LEMMA HeadOut ==
  ASSUME NEW a \in Seq(Nat), NEW b \in Seq(Nat), NEW c \in Seq(Nat), NEW d \in Seq(Nat),
         a # <<>>
  PROVE  /\ Row(a, b, c, d) = <<Head(a)>> \o Row(Tail(a), b, c, d)
         /\ Row(Tail(a), b, c, d) \in Seq(Nat)
<1>1. <<Head(a)>> \in Seq(Nat) /\ Tail(a) \in Seq(Nat) /\ a = <<Head(a)>> \o Tail(a)
  BY Shift
<1>2. PICK e \in Seq(Nat) : e = <<Head(a)>>
  BY <1>1
<1>3. PICK t \in Seq(Nat) : t = Tail(a)
  BY <1>1
<1>4. Row(e \o t, b, c, d) = e \o Row(t, b, c, d) /\ Row(t, b, c, d) \in Seq(Nat)
  BY InFront, SMTT(30)
<1> QED
  BY <1>1, <1>2, <1>3, <1>4

\* Moving the head of the third to the end of the second changes nothing.
LEMMA HeadMoves ==
  ASSUME NEW a \in Seq(Nat), NEW b \in Seq(Nat), NEW c \in Seq(Nat), NEW d \in Seq(Nat),
         c # <<>>
  PROVE  Row(a, b, c, d) = Row(a, Append(b, Head(c)), Tail(c), d)
<1>1. /\ Append(b, Head(c)) \in Seq(Nat) /\ Tail(c) \in Seq(Nat)
      /\ Append(b, Head(c)) \o Tail(c) = b \o c
  BY Shift, AppendProperties
<1>2. PICK e \in Seq(Nat) : e = Append(b, Head(c))
  BY <1>1
<1>3. PICK t \in Seq(Nat) : t = Tail(c)
  BY <1>1
<1>4. FromLeft(a, e, t) = FromRight(a, e, t) /\ FromLeft(a, b, c) = FromRight(a, b, c)
  BY Assoc
<1>5. (a \o e) \o t = (a \o b) \o c
  BY <1>1, <1>2, <1>3, <1>4 DEF FromLeft, FromRight
<1> QED
  BY <1>2, <1>3, <1>5 DEF Row

\* Steps that change neither the agent's vectors nor what was made.
LEMMA Untouched ==
  ASSUME AgentAssumption, TypeOK, OrderInv,
         UNCHANGED <<produced, collector, queue, batch, channel, wire, received, streams>>
  PROVE  OrderInv'
<1>1. Agent' = Agent /\ produced' = produced
  BY DEF Agent, InHand
<1>2. \A k \in Streams : Carried(k)' = Carried(k)
  BY DEF Carried
<1>3. \A k \in Streams : k > streams' => wire[k]' = <<>> /\ received[k]' = <<>>
  BY DEF OrderInv
<1> QED
  BY <1>1, <1>2, <1>3, AgentThins

\* The three ways the agent drops events: the stream's channel, the batch, or
\* the batch with the event just received.
LEMMA DropFront ==
  ASSUME NEW a \in Seq(Nat), NEW b \in Seq(Nat), NEW c \in Seq(Nat), NEW d \in Seq(Nat)
  PROVE  /\ Thins(a \o b \o c \o d, <<>> \o b \o c \o d)
         /\ Thins(a \o b \o c \o d, a \o <<>> \o c \o d)
         /\ Thins(a \o b \o c \o d, <<>> \o <<>> \o c \o d)
<1>1. PICK cd \in Seq(Nat) : cd = c \o d
  BY Closed
<1>2. PICK ab \in Seq(Nat) : ab = a \o b
  BY Closed
<1>3. /\ FromLeft(ab, c, d) = FromRight(ab, c, d)
      /\ FromLeft(b, c, d) = FromRight(b, c, d)
      /\ FromLeft(a, c, d) = FromRight(a, c, d)
      /\ FromLeft(a, b, cd) = FromRight(a, b, cd)
  BY Assoc
<1>a. (ab \o c) \o d = ab \o cd
  BY <1>1, <1>3 DEF FromLeft, FromRight
<1>b. (b \o c) \o d = b \o cd
  BY <1>1, <1>3 DEF FromLeft, FromRight
<1>c. (a \o c) \o d = a \o cd
  BY <1>1, <1>3 DEF FromLeft, FromRight
<1>d. ab \o cd = a \o (b \o cd)
  BY <1>2, <1>3 DEF FromLeft, FromRight
<1>e. b \o cd \in Seq(Nat)
  BY Closed
<1>4. /\ <<>> \o a = a /\ <<>> \o b = b /\ a \o <<>> = a /\ <<>> \o ab = ab
      /\ <<>> \o cd = cd /\ <<>> \o c = c /\ <<>> \o (b \o cd) = b \o cd
      /\ <<>> \o <<>> = <<>>
  BY <1>e, Closed, Unit
<1>5. Thins(ab \o cd, b \o cd)
  <2>1. ab \o cd = (<<>> \o a) \o (b \o cd) /\ b \o cd = <<>> \o (b \o cd)
    BY <1>d, <1>4
  <2> QED
    BY <1>e, <2>1, Closed DEF Thins
<1>6. Thins(ab \o cd, a \o cd)
  BY <1>2 DEF Thins
<1>7. Thins(ab \o cd, cd)
  <2>1. ab \o cd = (<<>> \o ab) \o cd /\ cd = <<>> \o cd
    BY <1>4
  <2> QED
    BY <2>1, Closed DEF Thins
<1>8. /\ ((<<>> \o b) \o c) \o d = b \o cd
      /\ ((a \o <<>>) \o c) \o d = a \o cd
      /\ ((<<>> \o <<>>) \o c) \o d = cd
  BY <1>1, <1>b, <1>c, <1>4
<1> QED
  BY <1>2, <1>a, <1>5, <1>6, <1>7, <1>8

\* A step that only moves or drops what the agent holds, and opens a stream
\* at most.
LEMMA AgentStep ==
  ASSUME AgentAssumption, TypeOK, OrderInv,
         Agent' = Agent \/ Thins(Agent, Agent'),
         produced' = produced, streams' >= streams, streams' \in Nat,
         UNCHANGED <<wire, received>>
  PROVE  OrderInv'
<1>1. \A k \in Streams : Carried(k)' = Carried(k)
  BY DEF Carried
<1>2. \A k \in Streams : k > streams' => wire[k]' = <<>> /\ received[k]' = <<>>
  BY SMTT(30) DEF OrderInv, TypeOK, Streams
<1> QED
  BY <1>1, <1>2, AgentThins

LEMMA CollectorInOrder ==
  ASSUME AgentAssumption, IInv, OrderInv, Collector
  PROVE  OrderInv'
<1> USE DEF IInv, streamVars
<1>0. streams' = streams /\ streams \in Nat
  BY DEF Collector, Collect, CollectorSend, CollectorEnds, TypeOK
<1>1. CASE Collect
  <2> DEFINE a == (channel \o batch) \o queue
             n == produced + 1
  <2>1. /\ a \in Seq(Nat) /\ n \in Nat /\ produced \in Nat /\ <<n>> \in Seq(Nat)
        /\ \A k \in Streams : Carried(k) \in Seq(Nat)
    BY Numeric, ConcatProperties
  <2>2. Agent = a /\ Agent' = a \o <<n>>
    <3>1. InHand = <<>> /\ InHand' = <<n>> /\ UNCHANGED <<channel, batch, queue>>
      BY <1>1 DEF Collect, InHand, loopVars
    <3> QED
      BY <2>1, <3>1, Unit DEF Agent
  <2>3. UNCHANGED <<wire, received>> /\ produced' = n
    BY <1>1 DEF Collect
  <2>4. produced < n
    BY <2>1
  <2> HIDE DEF a, n
  <2>5. /\ Before(a, <<n>>) /\ Below(<<n>>, n) /\ Increasing(<<n>>)
        /\ \A k \in Streams : Before(Carried(k), <<n>>)
    BY <2>1, <2>2, <2>4, Singleton DEF OrderInv
  <2>6. Increasing(a \o <<n>>) /\ \A k \in Streams : Before(Carried(k), a \o <<n>>)
    BY <2>1, <2>2, <2>5, IncreasingConcat, BeforeConcat DEF OrderInv, InOrder
  <2>7. Below(a, n) /\ \A k \in Streams : Below(Carried(k), n)
    <3>1. ASSUME NEW s \in Seq(Nat), Below(s, produced) PROVE Below(s, n)
      <4>1. \A i \in 1..Len(s) : s[i] \in Nat /\ s[i] <= produced
        BY <3>1, ElementOfSeq DEF Below
      <4> QED
        BY <2>1, <2>4, <4>1, SMTT(30) DEF Below
    <3> QED
      BY <2>1, <2>2, <3>1 DEF OrderInv
  <2>8. Below(a \o <<n>>, n)
    BY <2>1, <2>5, <2>7, BelowConcat
  <2>9. \A k \in Streams : Carried(k)' = Carried(k)
    BY <2>3 DEF Carried
  <2>10. InOrder'
    <3>1. Increasing(Agent)'
      BY <2>2, <2>6 DEF Increasing
    <3>2. \A k \in Streams : (Increasing(Carried(k)) /\ Before(Carried(k), Agent))'
      BY <2>2, <2>6, <2>9 DEF OrderInv, InOrder, Increasing, Before
    <3>3. \A k, l \in Streams : k < l => Before(Carried(k), Carried(l))'
      BY <2>9 DEF OrderInv, InOrder, Before
    <3> QED
      BY <3>1, <3>2, <3>3 DEF InOrder
  <2>11. Below(Agent, produced)' /\ \A k \in Streams : Below(Carried(k), produced)'
    BY <2>2, <2>3, <2>7, <2>8, <2>9 DEF Below
  <2> QED
    BY <1>0, <2>3, <2>10, <2>11 DEF OrderInv
<1>2. CASE CollectorSend
  <2>1. /\ channel \o batch \in Seq(Nat) /\ queue \in Seq(Nat) /\ produced \in Nat
        /\ <<produced>> \in Seq(Nat)
    BY Numeric, ConcatProperties
  <2>2. Agent = ((channel \o batch) \o queue) \o <<produced>>
    BY <1>2 DEF CollectorSend, Agent, InHand
  <2>3. Agent' = ((channel \o batch) \o Append(queue, produced)) \o <<>>
    <3>1. InHand' = <<>> /\ queue' = Append(queue, produced) /\ UNCHANGED <<channel, batch>>
      BY <1>2 DEF CollectorSend, InHand, loopVars
    <3> QED
      BY <3>1 DEF Agent
  <2>4. Append(queue, produced) = queue \o <<produced>> /\ Append(queue, produced) \in Seq(Nat)
    BY <2>1, AppendIsConcat, AppendProperties
  <2>5. Agent' = Agent
    <3>1. (channel \o batch) \o Append(queue, produced) \in Seq(Nat)
      BY <2>1, <2>4, ConcatProperties
    <3>2. Agent' = (channel \o batch) \o (queue \o <<produced>>)
      BY <2>3, <2>4, <3>1, Unit
    <3>3. FromLeft(channel \o batch, queue, <<produced>>)
            = FromRight(channel \o batch, queue, <<produced>>)
      BY <2>1, Assoc
    <3> QED
      BY <2>2, <3>2, <3>3 DEF FromLeft, FromRight
  <2>6. UNCHANGED <<produced, wire, received>>
    BY <1>2 DEF CollectorSend
  <2> QED
    BY <1>0, <2>5, <2>6, AgentStep
<1>3. CASE CollectorEnds
  <2>1. Agent' = Agent
    BY <1>3 DEF CollectorEnds, Agent, InHand, loopVars
  <2>2. UNCHANGED <<produced, wire, received>>
    BY <1>3 DEF CollectorEnds
  <2> QED
    BY <1>0, <2>1, <2>2, AgentStep
<1> QED
  BY <1>1, <1>2, <1>3 DEF Collector

\* What the test of is_closed does to the agent's vectors when the channel is c,
\* the collector's queue q and the batch before the test b.
LEMMA CheckThins ==
  ASSUME NEW c \in Seq(Nat), NEW b \in Seq(Nat), NEW q \in Seq(Nat),
         AgentAssumption, TypeOK, CheckClosed(b),
         channel' = c, queue' = q, InHand' = InHand,
         Agent = c \o b \o q \o InHand
  PROVE  Agent' = Agent \/ Thins(Agent, Agent')
<1>1. InHand \in Seq(Nat)
  BY Numeric
<1>2. CASE batch' = b
  BY <1>2 DEF Agent
<1>3. CASE batch' = <<>>
  <2>1. Agent' = c \o <<>> \o q \o InHand
    BY <1>3 DEF Agent
  <2> QED
    BY <1>1, <2>1, DropFront
<1> QED
  BY <1>2, <1>3 DEF CheckClosed

LEMMA LoopInOrder ==
  ASSUME AgentAssumption, IInv, OrderInv, Loop
  PROVE  OrderInv'
<1> USE DEF IInv
<1>0. /\ channel \in Seq(Nat) /\ batch \in Seq(Nat) /\ queue \in Seq(Nat)
      /\ InHand \in Seq(Nat) /\ streams \in Nat /\ streams >= streams
  BY Numeric, SMTT(30) DEF TypeOK
<1>1. CASE Connect
  <2>1. Agent' = <<>> \o <<>> \o queue \o InHand
    <3>1. channel' = <<>> /\ batch' = <<>> /\ UNCHANGED <<queue, collector, produced>>
      BY <1>1 DEF Connect, NewStream
    <3> QED
      BY <3>1 DEF Agent, InHand
  <2>2. Thins(Agent, Agent')
    BY <1>0, <2>1, DropFront DEF Agent
  <2>3. UNCHANGED <<produced, wire, received>> /\ streams' = streams + 1
    BY <1>1 DEF Connect, NewStream
  <2>4. streams' >= streams /\ streams' \in Nat
    BY <1>0, <2>3
  <2> QED
    BY <2>2, <2>3, <2>4, AgentStep
<1>2. CASE ConnectFails \/ Wake \/ RecvNone \/ Tick
  <2>1. UNCHANGED <<produced, collector, queue, batch, channel, wire, received, streams>>
    BY <1>2 DEF ConnectFails, ConnectError, Wake, RecvNone, Tick, streamVars
  <2> QED
    BY <2>1, Untouched
<1>3. CASE Recv
  <2> DEFINE b == Append(batch, Head(queue))
  <2>1. /\ queue # <<>> /\ queue' = Tail(queue)
        /\ UNCHANGED <<produced, collector, channel, wire, received, streams>>
    BY <1>3 DEF Recv, streamVars
  <2>2. /\ b \in Seq(Nat) /\ Tail(queue) \in Seq(Nat)
        /\ b \o Tail(queue) = batch \o queue
    BY <1>0, <2>1, Shift, AppendProperties
  <2>3. (BatchIsFull(b) /\ batch' = b) \/ CheckClosed(b)
    BY <1>3 DEF Recv
  <2> HIDE DEF b
  <2>4. Agent = channel \o b \o Tail(queue) \o InHand
    <3>1. Row(channel, batch, queue, InHand) = Row(channel, b, Tail(queue), InHand)
      BY <1>0, <2>1, HeadMoves, SMTT(30) DEF b
    <3> QED
      BY <3>1 DEF Agent, Row
  <2>5. InHand' = InHand
    BY <2>1 DEF InHand
  <2>6. Agent' = Agent \/ Thins(Agent, Agent')
    <3>1. CASE batch' = b
      BY <2>1, <2>4, <2>5, <3>1 DEF Agent
    <3>2. CASE CheckClosed(b)
      BY <1>0, <2>1, <2>2, <2>4, <2>5, <3>2, CheckThins
    <3> QED
      BY <2>3, <3>1, <3>2
  <2> QED
    BY <1>0, <2>1, <2>6, AgentStep
<1>4. CASE IdleTick
  <2>1. UNCHANGED <<produced, collector, queue, channel, wire, received, streams>>
    BY <1>4 DEF IdleTick, streamVars
  <2>2. batch' = batch
    BY <1>4 DEF IdleTick, IdleTickTests, CheckClosed
  <2> QED
    BY <2>1, <2>2, Untouched
<1>5. CASE FlushSend
  <2>1. UNCHANGED <<produced, collector, queue, wire, received, streams>>
    BY <1>5 DEF FlushSend
  <2>2. batch # <<>>
    BY <1>5 DEF FlushSend, PlaceInv
  <2>3. channel' = Append(channel, Head(batch))
    BY <1>5 DEF FlushSend, Drain
  <2>4. batch' = Tail(batch)
    BY <1>5 DEF FlushSend, Drain, CheckClosed
  <2>5. channel' \o batch' = channel \o batch
    BY <1>0, <2>2, <2>3, <2>4, Shift
  <2>6. Agent' = Agent
    BY <2>1, <2>5 DEF Agent, InHand
  <2> QED
    BY <1>0, <2>1, <2>6, AgentStep
<1>6. CASE FlushFails
  <2>1. UNCHANGED <<produced, collector, queue, channel, wire, received, streams>>
    BY <1>6 DEF FlushFails, streamVars
  <2>2. batch' = <<>>
    BY <1>6 DEF FlushFails, CheckClosed
  <2>3. Agent' = channel \o <<>> \o queue \o InHand
    BY <2>1, <2>2 DEF Agent, InHand
  <2>4. Thins(Agent, Agent')
    BY <1>0, <2>3, DropFront DEF Agent
  <2> QED
    BY <1>0, <2>1, <2>4, AgentStep
<1> QED
  BY <1>1, <1>2, <1>3, <1>4, <1>5, <1>6 DEF Loop

LEMMA StreamInOrder ==
  ASSUME AgentAssumption, IInv, OrderInv, Stream
  PROVE  OrderInv'
<1> USE DEF IInv
<1>0. /\ channel \in Seq(Nat) /\ batch \in Seq(Nat) /\ queue \in Seq(Nat)
      /\ InHand \in Seq(Nat) /\ streams \in Nat /\ streams >= streams /\ produced \in Nat
  BY Numeric, SMTT(30) DEF TypeOK
<1>1. CASE StreamEnds
  <2>1. /\ channel' = <<>>
        /\ UNCHANGED <<produced, collector, queue, batch, wire, received, streams>>
    BY <1>1 DEF StreamEnds, loopVars
  <2>2. Agent' = <<>> \o batch \o queue \o InHand
    BY <2>1 DEF Agent, InHand
  <2>3. Thins(Agent, Agent')
    BY <1>0, <2>2, DropFront DEF Agent
  <2> QED
    BY <1>0, <2>1, <2>3, AgentStep
<1>2. ASSUME NEW k \in Streams, Deliver(k) PROVE OrderInv'
  <2>1. UNCHANGED <<produced, collector, queue, batch, channel, streams>>
    BY <1>2 DEF Deliver, loopVars
  <2>2. Agent' = Agent
    BY <2>1 DEF Agent, InHand
  <2>3. \A l \in Streams : Carried(l)' = Carried(l)
    <3> SUFFICES ASSUME NEW l \in Streams PROVE Carried(l)' = Carried(l)
      OBVIOUS
    <3>1. CASE l = k
      <4>1. wire[k] # <<>> /\ wire[k] \in Seq(Nat) /\ received[k] \in Seq(Nat)
        BY <1>2, Numeric DEF Deliver
      <4>2. received'[k] = Append(received[k], Head(wire[k])) /\ wire'[k] = Tail(wire[k])
        BY <1>2 DEF Deliver, TypeOK
      <4>3. Append(received[k], Head(wire[k])) \o Tail(wire[k]) = received[k] \o wire[k]
        BY <4>1, Shift
      <4> QED
        BY <3>1, <4>2, <4>3 DEF Carried
    <3>2. CASE l # k
      BY <1>2, <3>2 DEF Deliver, TypeOK, Carried
    <3> QED
      BY <3>1, <3>2
  <2>4. \A l \in Streams : l > streams' => wire[l]' = <<>> /\ received[l]' = <<>>
    <3>1. k <= streams
      BY <1>2 DEF Deliver, OrderInv, TypeOK, Streams
    <3> QED
      BY <1>2, <2>1, <3>1 DEF Deliver, OrderInv, TypeOK
  <2> QED
    BY <2>1, <2>2, <2>3, <2>4, AgentThins
<1>3. ASSUME NEW k \in Streams, Vanish(k) PROVE OrderInv'
  <2>1. UNCHANGED <<produced, collector, queue, batch, channel, streams>>
    BY <1>3 DEF Vanish, loopVars
  <2>2. Agent' = Agent
    BY <2>1 DEF Agent, InHand
  <2>3. \A l \in Streams : l # k => Carried(l)' = Carried(l)
    BY <1>3 DEF Vanish, TypeOK, Carried
  <2>4. /\ wire[k] \in Seq(Nat) /\ received[k] \in Seq(Nat)
        /\ \A l \in Streams : Carried(l) \in Seq(Nat)
        /\ Agent \in Seq(Nat)
    BY Numeric
  <2>5. Carried(k) = received[k] \o wire[k] /\ Carried(k)' = received[k] \o <<>>
    BY <1>3 DEF Vanish, TypeOK, Carried
  <2>6. Thins(Carried(k), Carried(k)')
    <3>1. Carried(k) = (received[k] \o wire[k]) \o <<>>
      BY <2>4, <2>5, Unit
    <3> QED
      BY <2>4, <2>5, <3>1, Closed DEF Thins
  <2>7. /\ Increasing(Carried(k)') /\ Before(Carried(k)', Agent) /\ Below(Carried(k)', produced)
        /\ \A l \in Streams : /\ l < k => Before(Carried(l), Carried(k)')
                              /\ k < l => Before(Carried(k)', Carried(l))
    <3> DEFINE s == Carried(k)
               t == Carried(k)'
    <3>1. /\ Increasing(s) /\ Before(s, Agent) /\ Below(s, produced)
          /\ \A l \in Streams : /\ l < k => Before(Carried(l), s)
                                /\ k < l => Before(s, Carried(l))
      BY DEF OrderInv, InOrder
    <3>2. s \in Seq(Nat) /\ Thins(s, t)
      BY <2>4, <2>6
    <3> HIDE DEF s, t
    <3>3. Increasing(t) /\ Before(t, Agent) /\ Below(t, produced)
      BY <1>0, <2>4, <3>1, <3>2, ThinnedInOrder
    <3>4. \A l \in Streams : /\ l < k => Before(Carried(l), t)
                             /\ k < l => Before(t, Carried(l))
      BY <2>4, <3>1, <3>2, ThinnedInOrder
    <3> QED
      BY <3>3, <3>4 DEF t
  <2>8. InOrder'
    <3>1. Increasing(Agent)'
      BY <2>2 DEF OrderInv, InOrder, Increasing
    <3>2. ASSUME NEW l \in Streams PROVE (Increasing(Carried(l)) /\ Before(Carried(l), Agent))'
      <4>1. CASE l = k
        BY <2>2, <2>7, <4>1 DEF Increasing, Before
      <4>2. CASE l # k
        BY <2>2, <2>3, <4>2 DEF OrderInv, InOrder, Increasing, Before
      <4> QED
        BY <4>1, <4>2
    <3>3. ASSUME NEW l \in Streams, NEW m \in Streams, l < m
          PROVE  Before(Carried(l), Carried(m))'
      <4>1. CASE l # k /\ m # k
        BY <2>3, <3>3, <4>1 DEF OrderInv, InOrder, Before
      <4>2. CASE l = k
        <5>1. m # k
          BY <3>3, <4>2 DEF Streams
        <5> QED
          BY <2>3, <2>7, <3>3, <4>2, <5>1 DEF Before
      <4>3. CASE m = k
        <5>1. l # k
          BY <3>3, <4>3 DEF Streams
        <5> QED
          BY <2>3, <2>7, <3>3, <4>3, <5>1 DEF Before
      <4> QED
        BY <4>1, <4>2, <4>3
    <3> QED
      BY <3>1, <3>2, <3>3 DEF InOrder
  <2>9. Below(Agent, produced)' /\ \A l \in Streams : Below(Carried(l), produced)'
    <3>1. Below(Agent, produced)'
      BY <2>1, <2>2 DEF OrderInv, Below
    <3>2. ASSUME NEW l \in Streams PROVE Below(Carried(l), produced)'
      BY <2>1, <2>3, <2>7 DEF OrderInv, Below
    <3> QED
      BY <3>1, <3>2
  <2>10. \A l \in Streams : l > streams' => wire[l]' = <<>> /\ received[l]' = <<>>
    BY <1>3, <2>1 DEF Vanish, OrderInv, TypeOK
  <2> QED
    BY <2>8, <2>9, <2>10 DEF OrderInv
<1>4. CASE StreamTake
  <2> DEFINE h == Head(channel)
  <2>0. PICK k \in Streams : k = streams
    BY <1>4, OpenStream DEF StreamTake
  <2>1. /\ k \in Streams /\ channel # <<>> /\ channel' = Tail(channel)
        /\ UNCHANGED <<produced, collector, queue, batch, streams, received>>
    BY <1>4 DEF StreamTake, loopVars
  <2>2. wire' = [wire EXCEPT ![k] = Append(@, h)]
    BY <1>4, <2>0 DEF StreamTake
  <2>3. /\ h \in Nat /\ <<h>> \in Seq(Nat) /\ Tail(channel) \in Seq(Nat)
        /\ channel = <<h>> \o Tail(channel)
    BY <1>0, <2>1, Shift
  <2> HIDE DEF h
  <2>4. /\ \A l \in Streams : Carried(l) \in Seq(Nat)
        /\ wire[k] \in Seq(Nat) /\ received[k] \in Seq(Nat)
    BY <2>1, Numeric
  <2>5. Agent = <<h>> \o Agent' /\ Agent' \in Seq(Nat)
    <3>1. InHand' = InHand
      BY <2>1 DEF InHand
    <3>2. Agent' = Row(Tail(channel), batch, queue, InHand)
      BY <2>1, <3>1 DEF Agent, Row
    <3>3. Agent = Row(channel, batch, queue, InHand)
      BY DEF Agent, Row
    <3>4. channel # <<>>
      BY <2>1
    <3>5. /\ Row(channel, batch, queue, InHand)
                = <<Head(channel)>> \o Row(Tail(channel), batch, queue, InHand)
          /\ Row(Tail(channel), batch, queue, InHand) \in Seq(Nat)
      BY <1>0, <3>4, HeadOut
    <3> QED
      BY <3>2, <3>3, <3>5 DEF h
  <2>6. Carried(k)' = Carried(k) \o <<h>>
    <3>1. wire'[k] = Append(wire[k], h) /\ received'[k] = received[k]
      BY <2>1, <2>2 DEF TypeOK
    <3>2. Append(wire[k], h) = wire[k] \o <<h>>
      BY <2>3, <2>4, AppendIsConcat
    <3>3. FromLeft(received[k], wire[k], <<h>>) = FromRight(received[k], wire[k], <<h>>)
      BY <2>3, <2>4, Assoc
    <3>4. Carried(k) = received[k] \o wire[k] /\ Carried(k)' = received'[k] \o wire'[k]
      BY <2>1 DEF Carried
    <3> QED
      BY <3>1, <3>2, <3>3, <3>4 DEF FromLeft, FromRight
  <2>7. \A l \in Streams : l # k => Carried(l)' = Carried(l)
    BY <2>1, <2>2 DEF Carried, TypeOK
  <2>8. /\ Increasing(Agent') /\ Before(<<h>>, Agent')
        /\ Below(Agent', produced) /\ Below(<<h>>, produced)
        /\ \A l \in Streams : Before(Carried(l), <<h>>) /\ Before(Carried(l), Agent')
    BY <1>0, <2>3, <2>4, <2>5, IncreasingConcat, BeforeConcat, BelowConcat DEF OrderInv, InOrder
  <2>9. /\ Increasing(Carried(k)') /\ Before(Carried(k)', Agent') /\ Below(Carried(k)', produced)
        /\ \A l \in Streams : l < k => Before(Carried(l), Carried(k)')
    <3>1. /\ Increasing(Carried(k)) /\ Below(Carried(k), produced)
          /\ \A l \in Streams : l < k => Before(Carried(l), Carried(k))
      BY <2>1 DEF OrderInv, InOrder
    <3>2. Increasing(<<h>>)
      BY <2>3, Singleton
    <3>3. Carried(k) \in Seq(Nat) /\ Before(Carried(k), <<h>>) /\ Before(Carried(k), Agent')
      BY <2>1, <2>4, <2>8
    <3> DEFINE s == Carried(k)
    <3> HIDE DEF s
    <3>4. s \in Seq(Nat) /\ Increasing(s) /\ Before(s, <<h>>) /\ Before(s, Agent') /\ Below(s, produced)
      BY <3>1, <3>3 DEF s
    <3>5. Increasing(s \o <<h>>)
      BY <2>3, <3>2, <3>4, IncreasingConcat
    <3>6. Before(s \o <<h>>, Agent')
      BY <2>3, <2>5, <2>8, <3>4, BeforeConcat
    <3>7. Below(s \o <<h>>, produced)
      BY <1>0, <2>3, <2>8, <3>4, BelowConcat
    <3>8. ASSUME NEW l \in Streams, l < k PROVE Before(Carried(l), s \o <<h>>)
      <4>1. Before(Carried(l), s) /\ Before(Carried(l), <<h>>) /\ Carried(l) \in Seq(Nat)
        BY <2>4, <2>8, <3>1, <3>8 DEF s
      <4> QED
        BY <2>3, <3>4, <4>1, BeforeConcat
    <3> QED
      BY <2>6, <3>5, <3>6, <3>7, <3>8 DEF s
  <2>10. \A l \in Streams : l > k => Carried(l)' = <<>>
    <3> SUFFICES ASSUME NEW l \in Streams, l > k PROVE Carried(l)' = <<>>
      OBVIOUS
    <3>1. wire[l] = <<>> /\ received[l] = <<>> /\ l # k
      BY <1>0, <2>0, SMTT(60) DEF OrderInv, Streams
    <3>2. Carried(l) = <<>>
      BY <3>1, Closed, Unit DEF Carried
    <3> QED
      BY <2>7, <3>1, <3>2
  <2>11. InOrder'
    <3>1. Increasing(Agent)'
      BY <2>8 DEF Increasing
    <3>2. ASSUME NEW l \in Streams PROVE (Increasing(Carried(l)) /\ Before(Carried(l), Agent))'
      <4>1. CASE l = k
        BY <2>9, <4>1 DEF Increasing, Before
      <4>2. CASE l # k
        BY <2>7, <2>8, <4>2 DEF OrderInv, InOrder, Increasing, Before
      <4> QED
        BY <4>1, <4>2
    <3>3. ASSUME NEW l \in Streams, NEW m \in Streams, l < m
          PROVE  Before(Carried(l), Carried(m))'
      <4>0. k \in Nat /\ l \in Nat /\ m \in Nat
        BY <2>1 DEF Streams
      <4>1. CASE l # k /\ m # k
        BY <2>7, <3>3, <4>1 DEF OrderInv, InOrder, Before
      <4>2. CASE l = k
        <5>1. Carried(m)' = <<>>
          BY <2>10, <3>3, <4>0, <4>2
        <5> QED
          BY <5>1 DEF Before
      <4>3. CASE m = k /\ l # k
        BY <2>7, <2>9, <3>3, <4>3 DEF Before
      <4> QED
        BY <4>1, <4>2, <4>3
    <3> QED
      BY <3>1, <3>2, <3>3 DEF InOrder
  <2>12. Below(Agent, produced)' /\ \A l \in Streams : Below(Carried(l), produced)'
    <3>1. Below(Agent, produced)'
      BY <2>1, <2>8 DEF Below
    <3>2. ASSUME NEW l \in Streams PROVE Below(Carried(l), produced)'
      <4>1. CASE l = k
        BY <2>1, <2>9, <4>1 DEF Below
      <4>2. CASE l # k
        BY <2>1, <2>7, <4>2 DEF OrderInv, Below
      <4> QED
        BY <4>1, <4>2
    <3> QED
      BY <3>1, <3>2
  <2>13. \A l \in Streams : l > streams' => wire[l]' = <<>> /\ received[l]' = <<>>
    <3> SUFFICES ASSUME NEW l \in Streams, l > streams' PROVE wire[l]' = <<>> /\ received[l]' = <<>>
      OBVIOUS
    <3>1. l > streams /\ l # k
      BY <1>0, <2>0, <2>1 DEF Streams
    <3> QED
      BY <2>1, <2>2, <3>1 DEF OrderInv, TypeOK
  <2> QED
    BY <2>11, <2>12, <2>13 DEF OrderInv
<1> QED
  BY <1>1, <1>2, <1>3, <1>4 DEF Stream

LEMMA InitInOrder ==
  ASSUME AgentAssumption, Init
  PROVE  OrderInv
<1>1. Agent = <<>> /\ \A k \in Streams : Carried(k) = <<>>
  <2>1. <<>> \o <<>> = <<>>
    BY Closed, Unit
  <2> QED
    BY <2>1 DEF Init, Agent, Carried, InHand
<1>2. \A k \in Streams : wire[k] = <<>> /\ received[k] = <<>>
  BY DEF Init
<1> QED
  BY <1>1, <1>2 DEF OrderInv, InOrder, Increasing, Before, Below

LEMMA StepInOrder ==
  ASSUME AgentAssumption, IInv, OrderInv, [Next]_vars
  PROVE  OrderInv'
<1>1. CASE Next
  BY <1>1, CollectorInOrder, LoopInOrder, StreamInOrder DEF Next
<1>2. CASE UNCHANGED vars
  BY <1>2, Untouched DEF vars, loopVars, streamVars, IInv
<1> QED
  BY <1>1, <1>2

\* No event is sent twice and none overtakes another, for any capacities and
\* however often streams end and connections are refused (client.rs:93-182).
THEOREM EventsStayInOrder == Spec => []InOrder
<1>1. Init => OrderInv
  BY InitInOrder, AgentAssumption
<1>2. IInv /\ OrderInv /\ [Next]_vars => OrderInv'
  BY StepInOrder, AgentAssumption
<1>3. OrderInv => InOrder
  BY DEF OrderInv
<1> QED
  BY <1>1, <1>2, <1>3, InvariantHolds, PTL DEF Spec

-----------------------------------------------------------------------------
(* Losses.                                                                 *)

LEMMA ToSetEmpty == ToSet(<<>>) = {}
BY DEF ToSet

LEMMA ToSetAppend ==
  ASSUME NEW S, NEW s \in Seq(S), NEW x \in S
  PROVE  ToSet(Append(s, x)) = ToSet(s) \cup {x}
<1> DEFINE t == Append(s, x)
<1>1. /\ DOMAIN t = 1..Len(s) + 1 /\ DOMAIN s = 1..Len(s) /\ Len(s) \in Nat
      /\ \A i \in 1..Len(s) : t[i] = s[i]
      /\ t[Len(s) + 1] = x
  BY AppendProperties, LenProperties
<1> HIDE DEF t
<1>2. 1..Len(s) + 1 = 1..Len(s) \cup {Len(s) + 1}
  BY <1>1
<1>3. {t[i] : i \in DOMAIN t} = {s[i] : i \in DOMAIN s} \cup {x}
  BY <1>1, <1>2
<1> QED
  BY <1>3 DEF ToSet, t

LEMMA ToSetHead ==
  ASSUME NEW S, NEW s \in Seq(S), s # <<>>
  PROVE  ToSet(s) = {Head(s)} \cup ToSet(Tail(s))
<1>1. /\ DOMAIN s = 1..Len(s) /\ Len(s) \in Nat /\ Len(s) # 0
      /\ Head(s) = s[1]
      /\ DOMAIN Tail(s) = 1..Len(s) - 1
      /\ \A i \in 1..Len(s) - 1 : Tail(s)[i] = s[i + 1]
  BY HeadTailProperties, LenProperties, EmptySeq
<1>2. ToSet(s) \subseteq {Head(s)} \cup ToSet(Tail(s))
  <2>1. ToSet(s) = {s[i] : i \in 1..Len(s)}
    BY <1>1 DEF ToSet
  <2>2. ToSet(Tail(s)) = {Tail(s)[j] : j \in 1..Len(s) - 1}
    BY <1>1 DEF ToSet
  <2>3. SUFFICES ASSUME NEW x \in ToSet(s), x # Head(s)
                 PROVE  x \in ToSet(Tail(s))
    OBVIOUS
  <2>4. PICK i \in 1..Len(s) : x = s[i]
    BY <2>1
  <2>5. i - 1 \in 1..Len(s) - 1 /\ (i - 1) + 1 = i
    BY <1>1, <2>3, <2>4
  <2>6. Tail(s)[i - 1] = x
    BY <1>1, <2>4, <2>5
  <2> QED
    BY <2>2, <2>5, <2>6
<1>3. ToSet(Tail(s)) \subseteq ToSet(s)
  <2>1. SUFFICES ASSUME NEW i \in 1..Len(s) - 1 PROVE s[i + 1] \in ToSet(s)
    BY <1>1 DEF ToSet
  <2>2. i + 1 \in 1..Len(s)
    BY <1>1
  <2> QED
    BY <1>1, <2>2 DEF ToSet
<1>4. Head(s) \in ToSet(s)
  <2>1. 1 \in 1..Len(s)
    BY <1>1
  <2> QED
    BY <1>1, <2>1 DEF ToSet
<1> QED
  BY <1>2, <1>3, <1>4

LEMMA ToSetConcat ==
  ASSUME NEW s \in Seq(Nat), NEW t \in Seq(Nat)
  PROVE  ToSet(s \o t) = ToSet(s) \cup ToSet(t)
<1>1. s \o t \in Seq(Nat)
  BY Closed
<1>2. /\ ToSet(s) = {s[i] : i \in 1..Len(s)}
      /\ ToSet(t) = {t[i] : i \in 1..Len(t)}
      /\ ToSet(s \o t) = {(s \o t)[i] : i \in 1..Len(s \o t)}
  BY <1>1, LenProperties DEF ToSet
<1>3. ASSUME NEW x \in ToSet(s \o t)
      PROVE  x \in ToSet(s) \cup ToSet(t)
  BY <1>2, <1>3, ConcatElements
<1>4. ASSUME NEW x \in ToSet(s) \cup ToSet(t)
      PROVE  x \in ToSet(s \o t)
  <2>1. CASE x \in ToSet(s)
    BY <1>2, <2>1, ConcatElements
  <2>2. CASE x \in ToSet(t)
    <3>1. PICK i \in 1..Len(t) : x = t[i]
      BY <1>2, <2>2
    <3>2. \E j \in 1..Len(s \o t) : (s \o t)[j] = t[i]
      BY ConcatElements
    <3> QED
      BY <1>2, <3>1, <3>2
  <2> QED
    BY <1>4, <2>1, <2>2
<1> QED
  BY <1>3, <1>4

\* A sequence has no more elements than places.
LEMMA ToSetCount ==
  ASSUME NEW S, NEW s \in Seq(S)
  PROVE  /\ IsFiniteSet(ToSet(s))
         /\ Cardinality(ToSet(s)) \in Nat
         /\ Cardinality(ToSet(s)) <= Len(s)
<1>1. s \in [1..Len(s) -> S] /\ Len(s) \in Nat /\ DOMAIN s = 1..Len(s)
  BY LenProperties
<1> DEFINE f == [i \in 1..Len(s) |-> s[i]]
<1>2. f \in Surjection(1..Len(s), ToSet(s))
  BY <1>1 DEF Surjection, ToSet
<1>0. 1 \in Int /\ Len(s) \in Int /\ (1 > Len(s) => Len(s) = 0) /\ Len(s) - 1 + 1 = Len(s)
  BY <1>1
<1> HIDE DEF f
<1>3. IsFiniteSet(1..Len(s)) /\ Cardinality(1..Len(s)) = Len(s)
  BY <1>0, FS_Interval
<1>4. IsFiniteSet(ToSet(s)) /\ Cardinality(ToSet(s)) <= Cardinality(1..Len(s))
  BY <1>2, <1>3, FS_Surjection
<1> QED
  BY <1>3, <1>4, FS_CardinalityType

\* What is not lost and will not be with a stream that has ended: what the agent
\* holds, what the server has got, and what is under way in a stream that lives.
Landed == UNION {ToSet(received[k]) : k \in Streams}
Flying == IF open THEN ToSet(wire[streams]) ELSE {}
Safe   == ToSet(channel) \cup ToSet(batch) \cup ToSet(queue) \cup ToSet(InHand)
            \cup Landed \cup Flying
Gone   == (1..produced) \ Safe

\* The loop has yet to notice that its stream has ended, and to drop its batch.
Debt == IF ~open /\ pc \in {"select", "flush", "lastflush"} THEN BatchSize ELSE 0
Cost == Window + StreamCapacity + BatchSize

GoneBound == Cardinality(Gone) + Debt <= Ended * Cost

\* Nothing is in a vector when its owner is gone, and the connection takes no
\* more than its window.
EmptyInv ==
  /\ ~open => channel = <<>>
  /\ pc \in {"connecting", "sleeping"} => ~open /\ batch = <<>>
  /\ pc = "done" => batch = <<>>
  /\ pc \notin {"connecting", "sleeping"} => streams # 0
  /\ \A k \in Streams : Len(wire[k]) <= Window

LossInv == EmptyInv /\ GoneBound

LEMMA GoneFinite ==
  ASSUME AgentAssumption, TypeOK
  PROVE  /\ IsFiniteSet(Gone)
         /\ Cardinality(Gone) \in Nat
<1>1. IsFiniteSet(1..produced)
  BY FS_Interval, Numeric
<1>2. Gone \in SUBSET (1..produced)
  BY DEF Gone
<1> QED
  BY <1>1, <1>2, FS_Subset, FS_CardinalityType

LEMMA Multiples ==
  ASSUME NEW n \in Nat, NEW c \in Nat
  PROVE  n * c \in Nat /\ (n + 1) * c = n * c + c
OBVIOUS

\* How a step may add to the losses.
LEMMA LossStep ==
  ASSUME AgentAssumption, IInv, GoneBound,
         NEW X, IsFiniteSet(X),
         Safe \subseteq Safe' \cup X,
         produced' \in Nat, 1..produced' \subseteq 1..produced \cup Safe',
         Ended \in Nat,
         \/ Ended' = Ended /\ Cardinality(X) + Debt' <= Debt
         \/ Ended' = Ended + 1 /\ Cardinality(X) + Debt' <= Debt + Cost
  PROVE  GoneBound'
<1>1. IsFiniteSet(Gone) /\ Cardinality(Gone) \in Nat
  BY GoneFinite DEF IInv
<1>2. Gone' \in SUBSET (Gone \cup X)
  BY DEF Gone
<1>3. /\ Cardinality(X) \in Nat
      /\ IsFiniteSet(Gone \cup X)
      /\ Cardinality(Gone \cup X) = Cardinality(Gone) + Cardinality(X) - Cardinality(Gone \cap X)
  BY <1>1, FS_Union, FS_CardinalityType
<1>4. Gone \cap X \in SUBSET X
  OBVIOUS
<1>5. Cardinality(Gone \cap X) \in Nat
  BY <1>4, FS_Subset, FS_CardinalityType
<1>6. Cardinality(Gone') <= Cardinality(Gone \cup X) /\ Cardinality(Gone') \in Nat
  BY <1>2, <1>3, FS_Subset, FS_CardinalityType
<1>7. Debt \in Nat /\ Debt' \in Nat /\ Cost \in Nat /\ Cost' = Cost
  BY AgentAssumption DEF Debt, Cost
<1>8. Ended * Cost \in Nat /\ (Ended + 1) * Cost = Ended * Cost + Cost
  BY <1>7, Multiples
<1> DEFINE p == Ended * Cost
           q == (Ended + 1) * Cost
<1>9. Ended' * Cost' \in {p, q} /\ (Ended' = Ended => Ended' * Cost' = p)
                        /\ (Ended' = Ended + 1 => Ended' * Cost' = q)
  BY <1>7
<1>10. p \in Nat /\ q = p + Cost /\ Cardinality(Gone) + Debt <= p
  BY <1>8 DEF GoneBound
<1> HIDE DEF p, q
<1>11. Cardinality(Gone') + Debt' <= Ended' * Cost'
  BY <1>1, <1>3, <1>5, <1>6, <1>7, <1>9, <1>10
<1> QED
  BY <1>11 DEF GoneBound

LEMMA DebtIsNatural ==
  ASSUME AgentAssumption
  PROVE  Debt \in Nat /\ Cost \in Nat
BY DEF AgentAssumption, Debt, Cost

\* A step that lets nothing go.
LEMMA NoLoss ==
  ASSUME AgentAssumption, IInv, GoneBound,
         Safe \subseteq Safe',
         produced' \in Nat, 1..produced' \subseteq 1..produced \cup Safe',
         Ended' = Ended, Ended \in Nat,
         Debt' \in Nat, Debt' <= Debt
  PROVE  GoneBound'
<1>1. IsFiniteSet({}) /\ Cardinality({}) = 0
  BY FS_EmptySet
<1>2. Safe \subseteq Safe' \cup {}
  OBVIOUS
<1>3. Cardinality({}) + Debt' <= Debt
  BY <1>1
<1> QED
  BY <1>1, <1>2, <1>3, LossStep

\* A step of the loop that lets go what the batch held, because the stream has
\* ended, and forgets about that stream.
LEMMA BatchLost ==
  ASSUME AgentAssumption, IInv, GoneBound,
         NEW b \in Seq(Numbers), Len(b) <= BatchSize,
         Safe \subseteq Safe' \cup ToSet(b),
         UNCHANGED <<produced, open, streams>>,
         Debt = BatchSize, Debt' = 0
  PROVE  GoneBound'
<1>1. /\ IsFiniteSet(ToSet(b)) /\ Cardinality(ToSet(b)) \in Nat
      /\ Cardinality(ToSet(b)) <= Len(b) /\ Len(b) \in Nat
  BY ToSetCount, LenProperties
<1>2. Cardinality(ToSet(b)) + Debt' <= Debt
  BY <1>1 DEF AgentAssumption
<1>3. produced' \in Nat /\ 1..produced' \subseteq 1..produced \cup Safe'
  BY Numeric DEF IInv
<1>4. Ended' = Ended /\ Ended \in Nat
  BY DEF Ended, IInv, TypeOK, PlaceInv, AgentAssumption
<1> QED
  BY <1>1, <1>2, <1>3, <1>4, LossStep

LEMMA EndedIsNatural ==
  ASSUME AgentAssumption, IInv
  PROVE  Ended \in Nat /\ streams \in Nat /\ produced \in Nat
BY DEF Ended, IInv, TypeOK, PlaceInv, AgentAssumption

LEMMA CollectorLoses ==
  ASSUME AgentAssumption, IInv, LossInv, Collector
  PROVE  LossInv'
<1>1. UNCHANGED <<loopVars, streamVars>>
  BY DEF Collector, Collect, CollectorSend, CollectorEnds
<1>2. EmptyInv'
  BY <1>1 DEF LossInv, EmptyInv, loopVars, streamVars
<1>3. Ended' = Ended /\ Ended \in Nat /\ Debt' = Debt /\ Debt \in Nat /\ Debt' <= Debt
  BY <1>1, EndedIsNatural, DebtIsNatural DEF Ended, Debt, loopVars, streamVars
<1>4. Landed' = Landed /\ Flying' = Flying /\ ToSet(channel') = ToSet(channel)
      /\ ToSet(batch') = ToSet(batch)
  BY <1>1 DEF Landed, Flying, loopVars, streamVars
<1>5. produced' \in Nat /\ 1..produced' \subseteq 1..produced \cup ToSet(InHand')
  <2>1. CASE Collect
    <3>1. produced' = produced + 1 /\ InHand' = <<produced'>> /\ produced \in Nat
      BY <2>1, EndedIsNatural DEF Collect, InHand
    <3>2. ToSet(InHand') = {produced'}
      BY <3>1 DEF ToSet
    <3>3. 1..produced + 1 = 1..produced \cup {produced + 1}
      BY <3>1
    <3> QED
      BY <3>1, <3>2, <3>3
  <2>2. CASE produced' = produced
    BY <2>2, EndedIsNatural
  <2> QED
    BY <2>1, <2>2 DEF Collector, CollectorSend, CollectorEnds
<1>6. ToSet(queue) \cup ToSet(InHand) \subseteq ToSet(queue') \cup ToSet(InHand')
  <2>1. CASE Collect
    BY <2>1, ToSetEmpty DEF Collect, InHand
  <2>2. CASE CollectorSend
    <3>1. InHand = <<produced>> /\ queue' = Append(queue, produced)
      BY <2>2 DEF CollectorSend, InHand
    <3>2. ToSet(InHand) = {produced}
      BY <3>1 DEF ToSet
    <3>3. ToSet(queue') = ToSet(queue) \cup {produced}
      <4>1. queue \in Seq(Nat) /\ produced \in Nat
        BY Numeric DEF IInv
      <4> QED
        BY <3>1, <4>1, ToSetAppend
    <3> QED
      BY <3>2, <3>3
  <2>3. CASE CollectorEnds
    BY <2>3 DEF CollectorEnds, InHand
  <2> QED
    BY <2>1, <2>2, <2>3 DEF Collector
<1>7. Safe \subseteq Safe' /\ 1..produced' \subseteq 1..produced \cup Safe'
  BY <1>4, <1>5, <1>6 DEF Safe
<1> QED
  BY <1>2, <1>3, <1>5, <1>7, NoLoss DEF LossInv

\* The test of is_closed: it keeps b and sends the loop on, or drops b and with
\* it the loop's debt.
LEMMA CheckLoses ==
  ASSUME AgentAssumption, IInv, LossInv,
         pc \in {"select", "flush"},
         NEW b \in Seq(Numbers), Len(b) < BatchSize,
         CheckClosed(b),
         UNCHANGED streamVars, produced' = produced,
         Safe \subseteq Safe' \cup ToSet(b),
         batch' = b => Safe \subseteq Safe'
  PROVE  LossInv'
<1>1. CASE open
  <2>1. batch' = b /\ pc' = "select"
    BY <1>1 DEF CheckClosed, IsClosed
  <2>2. EmptyInv'
    BY <1>1, <2>1 DEF LossInv, EmptyInv, streamVars
  <2>3. Debt' = 0 /\ Debt = 0 /\ 0 <= 0
    BY <1>1 DEF Debt, streamVars
  <2>4. Ended' = Ended
    BY DEF Ended, streamVars
  <2>5. produced' \in Nat /\ 1..produced' \subseteq 1..produced \cup Safe'
    BY EndedIsNatural
  <2>6. Debt' \in Nat /\ Debt' <= Debt
    BY <2>3
  <2> QED
    BY <2>1, <2>2, <2>4, <2>5, <2>6, EndedIsNatural, NoLoss DEF LossInv
<1>2. CASE ~open
  <2>1. batch' = <<>> /\ pc' = "sleeping"
    BY <1>2 DEF CheckClosed, IsClosed, SleepThenRetry
  <2>2. EmptyInv'
    BY <1>2, <2>1 DEF LossInv, EmptyInv, streamVars
  <2>3. Debt' = 0 /\ Debt = BatchSize
    BY <1>2, <2>1 DEF Debt, streamVars
  <2>4. UNCHANGED <<produced, open, streams>>
    BY DEF streamVars
  <2>5. Len(b) <= BatchSize
    BY LenProperties DEF AgentAssumption
  <2> QED
    BY <2>2, <2>3, <2>4, <2>5, BatchLost DEF LossInv
<1> QED
  BY <1>1, <1>2

LEMMA LoopLoses ==
  ASSUME AgentAssumption, IInv, LossInv, Loop
  PROVE  LossInv'
<1>1. /\ produced' = produced /\ InHand' = InHand
      /\ produced' \in Nat /\ 1..produced' \subseteq 1..produced \cup Safe'
      /\ wire' = wire /\ received' = received /\ Landed' = Landed
  <2>1. produced' = produced /\ collector' = collector /\ wire' = wire /\ received' = received
    BY DEF Loop, Connect, ConnectFails, Wake, Recv, RecvNone, Tick, IdleTick,
           FlushSend, FlushFails, streamVars
  <2> QED
    BY <2>1, EndedIsNatural DEF InHand, Landed
<1>2. ASSUME UNCHANGED <<queue, batch, streamVars>>, Debt' <= Debt, EmptyInv'
      PROVE  LossInv'
  <2>1. Safe' = Safe
    BY <1>1, <1>2 DEF Safe, Flying, streamVars
  <2>2. Ended' = Ended
    BY <1>2 DEF Ended, streamVars
  <2>3. Debt' \in Nat
    BY <1>2, DebtIsNatural DEF Debt, AgentAssumption
  <2> QED
    BY <1>1, <1>2, <2>1, <2>2, <2>3, EndedIsNatural, NoLoss DEF LossInv
<1>3. CASE Connect
  <2>1. ~open /\ batch = <<>> /\ channel = <<>>
    BY <1>3 DEF LossInv, EmptyInv, Connect
  <2>2. /\ streams' = streams + 1 /\ open' /\ channel' = <<>> /\ batch' = <<>>
        /\ queue' = queue /\ pc' = "select"
    BY <1>3 DEF Connect, NewStream
  <2>3. EmptyInv'
    BY <1>1, <2>2, EndedIsNatural DEF LossInv, EmptyInv
  <2>4. Ended' = Ended
    BY <2>1, <2>2, EndedIsNatural DEF Ended
  <2>5. Safe \subseteq Safe'
    BY <1>1, <2>1, <2>2 DEF Safe, Flying
  <2>6. Debt' = 0 /\ Debt \in Nat
    BY <2>2, DebtIsNatural DEF Debt
  <2>7. Debt' \in Nat /\ Debt' <= Debt
    BY <2>6
  <2> QED
    BY <1>1, <2>3, <2>4, <2>5, <2>7, EndedIsNatural, NoLoss DEF LossInv
<1>4. CASE ConnectFails
  <2>1. pc = "connecting" /\ pc' = "sleeping" /\ UNCHANGED <<queue, batch, streamVars>>
    BY <1>4 DEF ConnectFails, SleepThenRetry
  <2>2. EmptyInv'
    BY <2>1 DEF LossInv, EmptyInv, streamVars
  <2>3. Debt' = 0 /\ Debt = 0 /\ 0 <= 0
    BY <2>1 DEF Debt
  <2>4. Debt' <= Debt
    BY <2>3
  <2> QED
    BY <1>2, <2>1, <2>2, <2>4
<1>5. CASE Wake
  <2>1. pc = "sleeping" /\ pc' = "connecting" /\ UNCHANGED <<queue, batch, streamVars>>
    BY <1>5 DEF Wake
  <2>2. EmptyInv'
    BY <2>1 DEF LossInv, EmptyInv, streamVars
  <2>3. Debt' = 0 /\ Debt = 0 /\ 0 <= 0
    BY <2>1 DEF Debt
  <2>4. Debt' <= Debt
    BY <2>3
  <2> QED
    BY <1>2, <2>1, <2>2, <2>4
<1>6. CASE RecvNone
  <2>1. /\ pc = "select" /\ UNCHANGED <<queue, batch, streamVars>>
        /\ pc' = "lastflush" \/ (pc' = "done" /\ batch = <<>>)
    BY <1>6 DEF RecvNone
  <2>2. EmptyInv'
    BY <2>1 DEF LossInv, EmptyInv, streamVars
  <2>3. Debt' \in {0, Debt} /\ Debt \in Nat
    BY <2>1, DebtIsNatural DEF Debt, streamVars
  <2>4. Debt' <= Debt
    BY <2>3
  <2> QED
    BY <1>2, <2>1, <2>2, <2>4
<1>7. CASE Tick
  <2>1. pc = "select" /\ pc' = "flush" /\ UNCHANGED <<queue, batch, streamVars>>
    BY <1>7 DEF Tick, TickFlushes
  <2>2. EmptyInv'
    BY <2>1 DEF LossInv, EmptyInv, streamVars
  <2>3. Debt' = Debt /\ Debt \in Nat
    BY <2>1, DebtIsNatural DEF Debt, streamVars
  <2>4. Debt' <= Debt
    BY <2>3
  <2> QED
    BY <1>2, <2>1, <2>2, <2>4
<1>8. <<>> \in Seq(Numbers) /\ Len(<<>>) < BatchSize
  BY DEF AgentAssumption
<1>9. CASE IdleTick
  <2>1. /\ pc = "select" /\ batch = <<>> /\ CheckClosed(<<>>)
        /\ UNCHANGED <<queue, streamVars>>
    BY <1>9 DEF IdleTick, IdleTickTests
  <2>2. batch' = <<>>
    BY <2>1 DEF CheckClosed
  <2>3. Safe' = Safe
    BY <1>1, <2>1, <2>2 DEF Safe, Flying, streamVars
  <2> QED
    BY <1>1, <1>8, <2>1, <2>3, CheckLoses
<1>10. CASE FlushFails
  <2>1. /\ ~open /\ batch' = <<>>
        /\ \/ pc = "flush" /\ pc' = "sleeping"
           \/ pc = "lastflush" /\ pc' = "done"
        /\ UNCHANGED <<queue, streamVars>>
    BY <1>10 DEF FlushFails, CheckClosed, IsClosed, SleepThenRetry
  <2>2. EmptyInv'
    BY <2>1 DEF LossInv, EmptyInv, streamVars
  <2>3. Debt = BatchSize /\ Debt' = 0
    BY <2>1 DEF Debt, streamVars
  <2>4. Safe \subseteq Safe' \cup ToSet(batch)
    BY <1>1, <2>1 DEF Safe, Flying, streamVars
  <2>5. batch \in Seq(Numbers) /\ Len(batch) <= BatchSize
    BY DEF IInv, TypeOK
  <2>6. UNCHANGED <<produced, open, streams>>
    BY <1>1, <2>1 DEF streamVars
  <2> QED
    BY <2>2, <2>3, <2>4, <2>5, <2>6, BatchLost DEF LossInv
<1>11. CASE Recv
  <2> DEFINE b == Append(batch, Head(queue))
  <2>1. /\ pc = "select" /\ queue # <<>> /\ queue' = Tail(queue)
        /\ UNCHANGED streamVars
        /\ \/ BatchIsFull(b) /\ batch' = b /\ pc' = "flush"
           \/ ~BatchIsFull(b) /\ CheckClosed(b)
    BY <1>11 DEF Recv
  <2>2. /\ Head(queue) \in Numbers /\ batch \in Seq(Numbers) /\ queue \in Seq(Numbers)
    BY <2>1, HeadTailProperties DEF IInv, TypeOK
  <2>3. b \in Seq(Numbers) /\ Len(b) \in Nat
    BY <2>2, AppendProperties
  <2>4. ToSet(b) = ToSet(batch) \cup {Head(queue)}
    BY <2>2, ToSetAppend
  <2>5. ToSet(queue) = {Head(queue)} \cup ToSet(queue')
    BY <2>1, <2>2, ToSetHead
  <2> HIDE DEF b
  <2>6. Safe \subseteq Safe' \cup ToSet(b)
    BY <1>1, <2>1, <2>4, <2>5 DEF Safe, Flying, streamVars
  <2>7. batch' = b => Safe \subseteq Safe'
    BY <2>6 DEF Safe
  <2>8. CASE BatchIsFull(b) /\ batch' = b /\ pc' = "flush"
    <3>1. EmptyInv'
      BY <2>1, <2>8 DEF LossInv, EmptyInv, streamVars
    <3>2. Debt' = Debt /\ Debt \in Nat
      BY <2>1, <2>8, DebtIsNatural DEF Debt, streamVars
    <3>3. Ended' = Ended
      BY <2>1 DEF Ended, streamVars
    <3>4. Debt' \in Nat /\ Debt' <= Debt
      BY <3>2
    <3> QED
      BY <1>1, <2>7, <2>8, <3>1, <3>3, <3>4, EndedIsNatural, NoLoss DEF LossInv
  <2>9. CASE ~BatchIsFull(b) /\ CheckClosed(b)
    <3>1. Len(b) < BatchSize
      BY <2>3, <2>9 DEF BatchIsFull, AgentAssumption
    <3> QED
      BY <1>1, <2>1, <2>3, <2>6, <2>7, <2>9, <3>1, CheckLoses
  <2> QED
    BY <2>1, <2>8, <2>9
<1>12. CASE FlushSend
  <2>1. /\ pc \in {"flush", "lastflush"} /\ open
        /\ channel' = Append(channel, Head(batch))
        /\ UNCHANGED <<queue, streams, open>>
        /\ batch' = Tail(batch)
        /\ pc' \in {"flush", "lastflush", "select", "done"}
        /\ pc' = "done" => batch' = <<>>
    BY <1>12 DEF FlushSend, Drain, CheckClosed, IsClosed
  <2>2. batch # <<>> /\ batch \in Seq(Nat) /\ channel \in Seq(Nat)
    BY <2>1, Numeric DEF IInv, PlaceInv
  <2>3. Head(batch) \in Nat
    BY <2>2, HeadTailProperties
  <2>4. ToSet(channel') = ToSet(channel) \cup {Head(batch)}
    BY <2>1, <2>2, <2>3, ToSetAppend
  <2>5. ToSet(batch) = {Head(batch)} \cup ToSet(batch')
    BY <2>1, <2>2, ToSetHead
  <2>6. Safe \subseteq Safe'
    BY <1>1, <2>1, <2>4, <2>5 DEF Safe, Flying
  <2>7. EmptyInv'
    BY <1>1, <2>1 DEF LossInv, EmptyInv
  <2>8. Debt' = 0 /\ Debt = 0 /\ Ended' = Ended
    BY <2>1 DEF Debt, Ended
  <2>9. Debt' \in Nat /\ Debt' <= Debt
    BY <2>8
  <2> QED
    BY <1>1, <2>6, <2>7, <2>8, <2>9, EndedIsNatural, NoLoss DEF LossInv
<1> QED
  BY <1>3, <1>4, <1>5, <1>6, <1>7, <1>9, <1>10, <1>11, <1>12 DEF Loop

LEMMA StreamLoses ==
  ASSUME AgentAssumption, IInv, LossInv, Stream
  PROVE  LossInv'
<1>1. /\ UNCHANGED <<produced, collector, queue, loopVars, streams>>
      /\ InHand' = InHand /\ batch' = batch /\ pc' = pc /\ queue' = queue
      /\ produced' \in Nat /\ 1..produced' \subseteq 1..produced \cup Safe'
  <2>1. UNCHANGED <<produced, collector, queue, loopVars, streams>>
    BY DEF Stream, StreamTake, StreamEnds, Deliver, Vanish
  <2> QED
    BY <2>1, EndedIsNatural DEF InHand, loopVars
<1>2. /\ wire \in [Streams -> Seq(Numbers)] /\ received \in [Streams -> Seq(Numbers)]
      /\ channel \in Seq(Numbers) /\ Len(channel) <= StreamCapacity
      /\ \A k \in Streams : wire[k] \in Seq(Nat) /\ received[k] \in Seq(Nat)
  BY Numeric DEF IInv, TypeOK
<1>3. ASSUME open' = open, EmptyInv', Safe \subseteq Safe'
      PROVE  LossInv'
  <2>1. Ended' = Ended /\ Debt' = Debt /\ Debt \in Nat
    BY <1>1, <1>3, DebtIsNatural DEF Ended, Debt
  <2>2. Debt' \in Nat /\ Debt' <= Debt
    BY <2>1
  <2> QED
    BY <1>1, <1>3, <2>1, <2>2, EndedIsNatural, NoLoss DEF LossInv
<1>4. CASE StreamTake
  <2>1. /\ open /\ open' = open /\ channel # <<>> /\ received' = received
        /\ wire' = [wire EXCEPT ![streams] = Append(@, Head(channel))]
        /\ channel' = Tail(channel)
        /\ Len(wire[streams]) < Window
    BY <1>4 DEF StreamTake
  <2>2. streams \in Streams
    BY <2>1, OpenStream
  <2>3. Head(channel) \in Numbers
    BY <1>2, <2>1, HeadTailProperties
  <2>4. /\ wire'[streams] = Append(wire[streams], Head(channel))
        /\ \A k \in Streams : k # streams => wire'[k] = wire[k]
    BY <1>2, <2>1, <2>2
  <2>5. /\ wire[streams] \in Seq(Numbers)
        /\ Len(wire'[streams]) = Len(wire[streams]) + 1 /\ Len(wire[streams]) \in Nat
        /\ ToSet(wire'[streams]) = ToSet(wire[streams]) \cup {Head(channel)}
    BY <1>2, <2>2, <2>3, <2>4, AppendProperties, LenProperties, ToSetAppend
  <2>6. \A k \in Streams : Len(wire'[k]) <= Window
    BY <2>1, <2>4, <2>5 DEF LossInv, EmptyInv, AgentAssumption
  <2>7. EmptyInv'
    BY <1>1, <2>1, <2>6 DEF LossInv, EmptyInv
  <2>8. ToSet(channel) = {Head(channel)} \cup ToSet(channel')
    BY <1>2, <2>1, ToSetHead
  <2>9. Safe \subseteq Safe'
    BY <1>1, <2>1, <2>5, <2>8 DEF Safe, Flying, Landed
  <2> QED
    BY <1>3, <2>1, <2>7, <2>9
<1>5. ASSUME NEW k \in Streams, Deliver(k)
      PROVE  LossInv'
  <2>1. /\ wire[k] # <<>> /\ open' = open /\ channel' = channel
        /\ received' = [received EXCEPT ![k] = Append(@, Head(wire[k]))]
        /\ wire' = [wire EXCEPT ![k] = Tail(@)]
    BY <1>5 DEF Deliver
  <2>2. /\ wire'[k] = Tail(wire[k]) /\ received'[k] = Append(received[k], Head(wire[k]))
        /\ \A l \in Streams : l # k => wire'[l] = wire[l] /\ received'[l] = received[l]
    BY <1>2, <2>1
  <2>3. Head(wire[k]) \in Nat /\ Len(Tail(wire[k])) = Len(wire[k]) - 1
        /\ Len(wire[k]) \in Nat
    BY <1>2, <2>1, HeadTailProperties, LenProperties
  <2>4. ToSet(wire[k]) = {Head(wire[k])} \cup ToSet(wire'[k])
    BY <1>2, <2>1, <2>2, ToSetHead
  <2>5. ToSet(received'[k]) = ToSet(received[k]) \cup {Head(wire[k])}
    BY <1>2, <2>2, <2>3, ToSetAppend
  <2>6. Landed \cup {Head(wire[k])} \subseteq Landed'
    <3>1. \A l \in Streams : ToSet(received[l]) \subseteq ToSet(received'[l])
      BY <2>2, <2>5
    <3> QED
      BY <2>5, <3>1 DEF Landed
  <2>7. Flying \subseteq Flying' \cup {Head(wire[k])}
    <3>1. CASE open
      <4>1. streams \in Streams /\ streams' = streams
        BY <1>1, <3>1, OpenStream
      <4> QED
        BY <2>1, <2>2, <2>4, <3>1, <4>1 DEF Flying
    <3>2. CASE ~open
      BY <3>2 DEF Flying
    <3> QED
      BY <3>1, <3>2
  <2>8. Safe \subseteq Safe'
    BY <1>1, <2>1, <2>6, <2>7 DEF Safe
  <2>9. \A l \in Streams : Len(wire'[l]) <= Window
    <3>1. Len(wire'[k]) <= Window
      BY <2>2, <2>3 DEF LossInv, EmptyInv, AgentAssumption
    <3> QED
      BY <2>2, <3>1 DEF LossInv, EmptyInv
  <2>10. EmptyInv'
    BY <1>1, <2>1, <2>9 DEF LossInv, EmptyInv
  <2> QED
    BY <1>3, <2>1, <2>8, <2>10
<1>6. ASSUME NEW k \in Streams, Vanish(k)
      PROVE  LossInv'
  <2>1. /\ k < streams \/ ~open
        /\ open' = open /\ channel' = channel /\ received' = received
        /\ wire' = [wire EXCEPT ![k] = <<>>]
    BY <1>6 DEF Vanish
  <2>2. /\ wire'[k] = <<>> /\ Len(<<>>) = 0
        /\ \A l \in Streams : l # k => wire'[l] = wire[l]
    BY <1>2, <2>1
  <2>3. Flying' = Flying
    <3>1. CASE open
      <4>1. streams \in Streams /\ streams' = streams /\ streams # k
        BY <1>1, <2>1, <3>1, OpenStream DEF Streams
      <4> QED
        BY <2>1, <2>2, <3>1, <4>1 DEF Flying
    <3>2. CASE ~open
      BY <2>1, <3>2 DEF Flying
    <3> QED
      BY <3>1, <3>2
  <2>4. Safe \subseteq Safe'
    BY <1>1, <2>1, <2>3 DEF Safe, Landed
  <2>5. \A l \in Streams : Len(wire'[l]) <= Window
    BY <2>2 DEF LossInv, EmptyInv, AgentAssumption
  <2>6. EmptyInv'
    BY <1>1, <2>1, <2>5 DEF LossInv, EmptyInv
  <2> QED
    BY <1>3, <2>1, <2>4, <2>6
<1>7. CASE StreamEnds
  <2> DEFINE X == ToSet(channel) \cup ToSet(wire[streams])
  <2>1. open /\ open' = FALSE /\ channel' = <<>> /\ wire' = wire /\ received' = received
    BY <1>7 DEF StreamEnds
  <2>2. streams \in Streams /\ streams' = streams
    BY <1>1, <2>1, OpenStream
  <2>3. /\ IsFiniteSet(ToSet(channel)) /\ Cardinality(ToSet(channel)) \in Nat
        /\ Cardinality(ToSet(channel)) <= Len(channel)
    BY <1>2, ToSetCount
  <2>4. /\ IsFiniteSet(ToSet(wire[streams])) /\ Cardinality(ToSet(wire[streams])) \in Nat
        /\ Cardinality(ToSet(wire[streams])) <= Len(wire[streams])
    BY <1>2, <2>2, ToSetCount
  <2>5. /\ IsFiniteSet(X)
        /\ Cardinality(X) = Cardinality(ToSet(channel)) + Cardinality(ToSet(wire[streams]))
                              - Cardinality(ToSet(channel) \cap ToSet(wire[streams]))
    BY <2>3, <2>4, FS_Union
  <2>6. Cardinality(ToSet(channel) \cap ToSet(wire[streams])) \in Nat
    <3>1. ToSet(channel) \cap ToSet(wire[streams]) \in SUBSET ToSet(channel)
      OBVIOUS
    <3> QED
      BY <2>3, <3>1, FS_Subset, FS_CardinalityType
  <2>7. /\ Len(channel) \in Nat /\ Len(channel) <= StreamCapacity
        /\ Len(wire[streams]) \in Nat /\ Len(wire[streams]) <= Window
    BY <1>2, <2>2, LenProperties DEF LossInv, EmptyInv
  <2>8. Cardinality(X) <= StreamCapacity + Window
    BY <2>3, <2>4, <2>5, <2>6, <2>7 DEF AgentAssumption
  <2>9. Safe \subseteq Safe' \cup X
    BY <1>1, <2>1 DEF Safe, Flying, Landed
  <2>10. IsFiniteSet(X) /\ Cardinality(X) \in Nat
    BY <2>5, FS_CardinalityType
  <2> HIDE DEF X
  <2>11. Debt = 0 /\ Debt' \in {0, BatchSize}
    BY <1>1, <2>1 DEF Debt
  <2>12. Ended' = Ended + 1
    BY <2>1, <2>2, EndedIsNatural DEF Ended
  <2>13. Cardinality(X) + Debt' <= Debt + Cost
    BY <2>8, <2>10, <2>11 DEF Cost, AgentAssumption
  <2>14. EmptyInv'
    BY <1>1, <2>1 DEF LossInv, EmptyInv, loopVars
  <2>15. GoneBound'
    BY <1>1, <2>9, <2>10, <2>12, <2>13, EndedIsNatural, LossStep DEF LossInv
  <2> QED
    BY <2>14, <2>15 DEF LossInv
<1> QED
  BY <1>4, <1>5, <1>6, <1>7 DEF Stream

LEMMA InitLoses ==
  ASSUME AgentAssumption, Init
  PROVE  LossInv
<1>1. produced = 0 /\ ~open /\ streams = 0 /\ pc = "connecting"
  BY DEF Init
<1>2. 1..produced = {}
  BY <1>1
<1>3. Gone = {} /\ Debt = 0 /\ Ended = 0
  BY <1>1, <1>2 DEF Gone, Debt, Ended
<1>4. Cardinality({}) = 0
  BY FS_EmptySet
<1>5. Cost \in Nat /\ 0 * Cost = 0
  BY DebtIsNatural
<1>6. GoneBound
  BY <1>3, <1>4, <1>5 DEF GoneBound
<1>7. Len(<<>>) = 0 /\ 0 <= Window
  BY DEF AgentAssumption
<1>8. EmptyInv
  BY <1>1, <1>7 DEF Init, EmptyInv
<1> QED
  BY <1>6, <1>8 DEF LossInv

LEMMA StepLoses ==
  ASSUME AgentAssumption, IInv, LossInv, [Next]_vars
  PROVE  LossInv'
<1>1. CASE Next
  BY <1>1, CollectorLoses, LoopLoses, StreamLoses DEF Next
<1>2. CASE UNCHANGED vars
  <2>1. Ended' = Ended /\ Debt' = Debt /\ Gone' = Gone /\ Cost' = Cost
    BY <1>2 DEF vars, loopVars, streamVars, Ended, Debt, Gone, Cost, Safe, Flying, Landed, InHand
  <2> QED
    BY <1>2, <2>1 DEF vars, loopVars, streamVars, LossInv, EmptyInv, GoneBound
<1> QED
  BY <1>1, <1>2

\* What is lost is neither with the agent nor in any stream, so it is gone.
\* The events that the agent holds or a stream has carried, vector by vector.
Aboard(k) == ToSet(received[k]) \cup ToSet(wire[k])
Pieces    == ToSet(channel) \cup ToSet(batch) \cup ToSet(queue) \cup ToSet(InHand)
               \cup UNION {Aboard(k) : k \in Streams}

LEMMA LostInPieces ==
  ASSUME AgentAssumption, IInv
  PROVE  Lost = (1..produced) \ Pieces
<1>1. /\ channel \in Seq(Nat) /\ batch \in Seq(Nat) /\ queue \in Seq(Nat) /\ InHand \in Seq(Nat)
      /\ \A k \in Streams : wire[k] \in Seq(Nat) /\ received[k] \in Seq(Nat)
  BY Numeric DEF IInv
<1>2. ToSet(Agent) = ToSet(channel) \cup ToSet(batch) \cup ToSet(queue) \cup ToSet(InHand)
  <2>1. channel \o batch \in Seq(Nat) /\ (channel \o batch) \o queue \in Seq(Nat)
    BY <1>1, Closed
  <2>2. ToSet(channel \o batch) = ToSet(channel) \cup ToSet(batch)
    BY <1>1, ToSetConcat
  <2>3. ToSet((channel \o batch) \o queue) = ToSet(channel \o batch) \cup ToSet(queue)
    BY <1>1, <2>1, ToSetConcat
  <2>4. ToSet(((channel \o batch) \o queue) \o InHand)
          = ToSet((channel \o batch) \o queue) \cup ToSet(InHand)
    BY <1>1, <2>1, ToSetConcat
  <2> QED
    BY <2>2, <2>3, <2>4 DEF Agent
<1>3. \A k \in Streams : ToSet(Carried(k)) = Aboard(k)
  BY <1>1, ToSetConcat DEF Carried, Aboard
<1> QED
  BY <1>2, <1>3 DEF Lost, Pieces

LEMMA LostIsGone ==
  ASSUME AgentAssumption, IInv, LossInv
  PROVE  LossIsBounded
<1>1. open => streams \in Streams
  BY OpenStream
<1>2. Safe \subseteq Pieces
  BY <1>1 DEF Safe, Landed, Flying, Pieces, Aboard
<1>3. Lost \in SUBSET Gone
  BY <1>2, LostInPieces DEF Gone
<1>4. /\ Cardinality(Lost) <= Cardinality(Gone)
      /\ Cardinality(Lost) \in Nat /\ Cardinality(Gone) \in Nat
  BY <1>3, GoneFinite, FS_Subset, FS_CardinalityType DEF IInv
<1>5. Debt \in Nat /\ Cost \in Nat /\ Ended \in Nat /\ Ended * Cost \in Nat
  BY DebtIsNatural, EndedIsNatural, Multiples
<1>6. Cardinality(Lost) <= Ended * Cost
  <2>1. PICK p \in Nat : p = Ended * Cost
    BY <1>5
  <2>2. Cardinality(Gone) + Debt <= p
    BY <2>1 DEF LossInv, GoneBound
  <2> QED
    BY <1>4, <1>5, <2>1, <2>2
<1> QED
  BY <1>6 DEF LossIsBounded, Cost

\* A stream that ends takes with it at most what it held and one batch, whatever
\* the capacities, and nothing else is ever lost: a loop that has not noticed
\* yet owes one batch, and drops none before it has (client.rs:129-182).
THEOREM LossesAreBounded == Spec => []LossIsBounded
<1>1. Init => LossInv
  BY InitLoses, AgentAssumption
<1>2. IInv /\ LossInv /\ [Next]_vars => LossInv'
  BY StepLoses, AgentAssumption
<1>3. IInv /\ LossInv => LossIsBounded
  BY LostIsGone, AgentAssumption
<1> QED
  BY <1>1, <1>2, <1>3, InvariantHolds, PTL DEF Spec

-----------------------------------------------------------------------------
(* The backoff. *)

\* What a power of two is.  The provers have no definition of ^, so the facts
\* below take this from arithmetic; nothing in it is about the agent.
PowersDouble == \A n \in Nat : 2^n \in Nat /\ 2^(n + 1) = 2 * 2^n

\* The next sleep is long enough for the refusals so far, the last one was for
\* those before it, and a loop with a stream has forgotten them all.
BackoffInv ==
  /\ backoff >= Longest(refused)
  /\ pc = "sleeping" /\ refused > 0 => wait >= Longest(refused - 1)
  /\ pc \notin {"connecting", "sleeping"} => refused = 0

\* A doubled sleep is long enough for one more refusal, and never shorter.
LEMMA Doubled ==
  ASSUME AgentAssumption, PowersDouble, NEW n \in Nat, NEW b \in 1..MaxBackoff
  PROVE  /\ b >= Longest(n) => NextBackoff(b) >= Longest(n + 1)
         /\ NextBackoff(b) \in Nat /\ NextBackoff(b) >= b
         /\ b >= Longest(0)
<1>1. MaxBackoff \in Nat /\ MaxBackoff >= 1
  BY DEF AgentAssumption
<1>2. PICK p \in Nat : p = 2^n /\ 2^(n + 1) = 2 * p
  BY DEF PowersDouble
<1>3. /\ Longest(n) = IF p < MaxBackoff THEN p ELSE MaxBackoff
      /\ Longest(n + 1) = IF 2 * p < MaxBackoff THEN 2 * p ELSE MaxBackoff
  BY <1>2 DEF Longest
<1>4. NextBackoff(b) = IF 2 * b < MaxBackoff THEN 2 * b ELSE MaxBackoff
  BY DEF NextBackoff
<1>5. Longest(0) = IF 1 < MaxBackoff THEN 1 ELSE MaxBackoff
  <2>1. 2^0 = 1
    OBVIOUS
  <2> QED
    BY <2>1 DEF Longest
<1>6. b \in Nat /\ 1 <= b /\ b <= MaxBackoff
  BY <1>1
<1>7. b >= Longest(n) => NextBackoff(b) >= Longest(n + 1)
  BY <1>1, <1>2, <1>3, <1>4, <1>6
<1>8. NextBackoff(b) \in Nat /\ NextBackoff(b) >= b
  BY <1>1, <1>4, <1>6
<1>9. b >= Longest(0)
  BY <1>1, <1>5, <1>6
<1> QED
  BY <1>7, <1>8, <1>9

LEMMA LongestIsNatural ==
  ASSUME AgentAssumption, PowersDouble, NEW n \in Nat
  PROVE  Longest(n) \in Nat
BY DEF AgentAssumption, PowersDouble, Longest

\* A sleep after which the loop has no more refusals than before: the one of a
\* stream that was found closed.
LEMMA SleepBacksOff ==
  ASSUME AgentAssumption, PowersDouble, IInv, BackoffInv, refused = 0,
         NEW b, CheckClosed(b), UNCHANGED refused
  PROVE  BackoffInv'
<1>1. backoff \in 1..MaxBackoff
  BY DEF IInv, TypeOK
<1>2. MaxBackoff \in Nat /\ backoff \in Nat
  BY <1>1 DEF AgentAssumption
<1>3. Longest(0) \in Nat /\ backoff >= Longest(0)
  BY <1>1, LongestIsNatural, Doubled
<1>4. CASE UNCHANGED backoff /\ pc' = "select"
  BY <1>3, <1>4 DEF BackoffInv, Longest
<1>5. CASE SleepThenRetry
  <2>1. NextBackoff(backoff) \in Nat /\ NextBackoff(backoff) >= backoff
    BY <1>1, Doubled
  <2>2. NextBackoff(backoff) >= Longest(0)
    BY <1>2, <1>3, <2>1
  <2> QED
    BY <1>5, <2>2 DEF SleepThenRetry, BackoffInv, Longest
<1> QED
  BY <1>4, <1>5 DEF CheckClosed

LEMMA LoopBacksOff ==
  ASSUME AgentAssumption, PowersDouble, IInv, BackoffInv, Loop
  PROVE  BackoffInv'
<1>1. /\ backoff \in 1..MaxBackoff /\ refused \in Nat
      /\ refused > 0 => refused - 1 \in Nat
  <2>1. refused \in 0..MaxRefusals /\ backoff \in 1..MaxBackoff
    BY DEF IInv, TypeOK
  <2>2. MaxRefusals \in Nat
    BY DEF AgentAssumption
  <2> QED
    BY <2>1, <2>2
<1>2. CASE Connect
  <2>1. 1 >= Longest(0)
    BY Doubled DEF AgentAssumption
  <2> QED
    BY <1>2, <2>1 DEF Connect, BackoffInv, Longest
<1>3. CASE ConnectFails
  <2>1. /\ refused' = refused + 1 /\ wait' = backoff /\ pc' = "sleeping"
        /\ backoff' = NextBackoff(backoff)
    BY <1>3 DEF ConnectFails, SleepThenRetry
  <2>2. NextBackoff(backoff) >= Longest(refused + 1)
    BY <1>1, Doubled DEF BackoffInv
  <2>3. refused' - 1 = refused
    BY <1>1, <2>1
  <2>4. backoff' >= Longest(refused')
    BY <2>1, <2>2
  <2>5. wait' >= Longest(refused' - 1)
    BY <2>1, <2>3 DEF BackoffInv, Longest
  <2> QED
    BY <2>1, <2>4, <2>5 DEF BackoffInv, Longest
<1>4. CASE Wake \/ RecvNone \/ Tick
  BY <1>4 DEF Wake, RecvNone, Tick, TickFlushes, BackoffInv, Longest
<1>5. CASE Recv
  <2>1. refused = 0 /\ UNCHANGED refused
    BY <1>5 DEF Recv, BackoffInv
  <2>2. CASE UNCHANGED backoff /\ pc' = "flush"
    BY <2>1, <2>2 DEF BackoffInv, Longest
  <2>3. CASE CheckClosed(Append(batch, Head(queue)))
    BY <2>1, <2>3, SleepBacksOff
  <2> QED
    BY <1>5, <2>2, <2>3 DEF Recv
<1>6. CASE IdleTick
  <2>1. refused = 0 /\ UNCHANGED refused /\ CheckClosed(<<>>)
    BY <1>6 DEF IdleTick, IdleTickTests, BackoffInv
  <2> QED
    BY <2>1, SleepBacksOff
<1>7. CASE FlushSend \/ FlushFails
  <2>1. refused = 0 /\ UNCHANGED refused
    BY <1>7 DEF FlushSend, FlushFails, BackoffInv
  <2>2. \/ UNCHANGED backoff /\ pc' \in {"flush", "lastflush", "done"}
        \/ CheckClosed(<<>>) \/ CheckClosed(Drain(batch)[2])
    BY <1>7 DEF FlushSend, FlushFails
  <2>3. CASE UNCHANGED backoff /\ pc' \in {"flush", "lastflush", "done"}
    BY <2>1, <2>3 DEF BackoffInv, Longest
  <2> QED
    BY <2>1, <2>2, <2>3, SleepBacksOff
<1> QED
  BY <1>2, <1>3, <1>4, <1>5, <1>6, <1>7 DEF Loop

\* With what 2^n means, for every MAX_BACKOFF: the n-th connection refused in a
\* row is followed by a sleep of at least 2^(n-1) seconds or the longest one,
\* whatever streams came before (client.rs:97-126).
THEOREM BackoffGrows ==
  ASSUME PowersDouble
  PROVE  Spec => []ConnectBackoffGrows
<1>1. Init => BackoffInv
  <2>1. 1 >= Longest(0)
    BY Doubled, AgentAssumption DEF AgentAssumption
  <2> QED
    BY <2>1 DEF Init, BackoffInv, Longest
<1>2. IInv /\ BackoffInv /\ [Next]_vars => BackoffInv'
  <2> SUFFICES ASSUME IInv, BackoffInv, [Next]_vars PROVE BackoffInv'
    OBVIOUS
  <2>1. CASE Loop
    BY <2>1, LoopBacksOff, AgentAssumption
  <2>2. CASE Collector \/ Stream \/ UNCHANGED vars
    <3>1. UNCHANGED loopVars
      BY <2>2 DEF Collector, Collect, CollectorSend, CollectorEnds, Stream, StreamTake,
                  StreamEnds, Deliver, Vanish, vars
    <3> QED
      BY <3>1 DEF loopVars, BackoffInv, Longest
  <2> QED
    BY <2>1, <2>2 DEF Next
<1>3. BackoffInv => ConnectBackoffGrows
  BY DEF BackoffInv, ConnectBackoffGrows
<1> QED
  BY <1>1, <1>2, <1>3, InvariantHolds, PTL DEF Spec

-----------------------------------------------------------------------------
(* What is lost stays lost.                                                  *)

\* Stated with all that is known of the agent by now, for its compositions.
Facts == IInv /\ OrderInv /\ Lost = (1..produced) \ Pieces

\* A step makes the next event, or brings none that was not there.
LEMMA NothingComesBack ==
  ASSUME AgentAssumption, IInv, [Next]_vars
  PROVE  \/ produced' = produced /\ Pieces' \subseteq Pieces
         \/ produced' = produced + 1 /\ Pieces' = Pieces \cup {produced'}
<1>1. /\ channel \in Seq(Nat) /\ batch \in Seq(Nat) /\ queue \in Seq(Nat)
      /\ produced \in Nat
      /\ \A k \in Streams : wire[k] \in Seq(Nat) /\ received[k] \in Seq(Nat)
  BY Numeric DEF IInv
<1>2. ASSUME UNCHANGED <<wire, received>>,
             ToSet(channel') \cup ToSet(batch') \cup ToSet(queue') \cup ToSet(InHand')
               \subseteq ToSet(channel) \cup ToSet(batch) \cup ToSet(queue) \cup ToSet(InHand)
      PROVE  Pieces' \subseteq Pieces
  BY <1>2 DEF Pieces, Aboard
<1>3. CASE UNCHANGED vars
  BY <1>2, <1>3 DEF vars, loopVars, streamVars, InHand
<1>4. CASE Collect
  <2>1. InHand = <<>> /\ InHand' = <<produced'>> /\ produced' = produced + 1
        /\ UNCHANGED <<channel, batch, queue, wire, received>>
    BY <1>4 DEF Collect, InHand, loopVars, streamVars
  <2>2. ToSet(InHand) = {} /\ ToSet(InHand') = {produced'}
    BY <2>1, ToSetEmpty DEF ToSet
  <2>3. Pieces' = Pieces \cup {produced'}
    BY <2>1, <2>2 DEF Pieces, Aboard
  <2> QED
    BY <2>1, <2>3
<1>5. CASE CollectorSend
  <2>1. /\ InHand = <<produced>> /\ InHand' = <<>> /\ queue' = Append(queue, produced)
        /\ UNCHANGED <<produced, channel, batch, wire, received>>
    BY <1>5 DEF CollectorSend, InHand, loopVars, streamVars
  <2>2. ToSet(InHand) = {produced} /\ ToSet(InHand') = {}
    BY <2>1, ToSetEmpty DEF ToSet
  <2>3. ToSet(queue') = ToSet(queue) \cup {produced}
    BY <1>1, <2>1, ToSetAppend
  <2> QED
    BY <1>2, <2>1, <2>2, <2>3
<1>6. CASE CollectorEnds
  BY <1>2, <1>6 DEF CollectorEnds, InHand, loopVars, streamVars
<1>7. CASE Connect \/ ConnectFails \/ Wake \/ RecvNone \/ Tick
  <2>1. /\ UNCHANGED <<produced, collector, queue, wire, received>>
        /\ channel' \in {channel, <<>>} /\ batch' \in {batch, <<>>}
    BY <1>7 DEF Connect, NewStream, ConnectFails, SleepThenRetry, Wake, RecvNone, Tick,
                streamVars
  <2>2. InHand' = InHand
    BY <2>1 DEF InHand
  <2> QED
    BY <1>2, <2>1, <2>2, ToSetEmpty
<1>8. CASE Recv
  <2>1. /\ queue # <<>> /\ queue' = Tail(queue)
        /\ batch' \in {Append(batch, Head(queue)), <<>>}
        /\ UNCHANGED <<produced, collector, channel, wire, received>>
    BY <1>8 DEF Recv, CheckClosed, streamVars
  <2>2. InHand' = InHand
    BY <2>1 DEF InHand
  <2>3. ToSet(queue) = {Head(queue)} \cup ToSet(queue')
    BY <1>1, <2>1, ToSetHead
  <2>4. ToSet(batch') \subseteq ToSet(batch) \cup {Head(queue)}
    <3>1. Head(queue) \in Nat
      BY <1>1, <2>1, HeadTailProperties
    <3> QED
      BY <1>1, <2>1, <3>1, ToSetAppend, ToSetEmpty
  <2> QED
    BY <1>2, <2>1, <2>2, <2>3, <2>4
<1>9. CASE IdleTick
  <2>1. batch' = <<>> /\ UNCHANGED <<produced, collector, queue, channel, wire, received>>
    BY <1>9 DEF IdleTick, CheckClosed, streamVars
  <2>2. InHand' = InHand
    BY <2>1 DEF InHand
  <2> QED
    BY <1>2, <2>1, <2>2, ToSetEmpty
<1>10. CASE FlushSend
  <2>1. /\ batch # <<>>
        /\ channel' = Append(channel, Head(batch)) /\ batch' = Tail(batch)
        /\ UNCHANGED <<produced, collector, queue, wire, received>>
    BY <1>10 DEF FlushSend, Drain, CheckClosed, IInv, PlaceInv
  <2>2. InHand' = InHand
    BY <2>1 DEF InHand
  <2>3. ToSet(batch) = {Head(batch)} \cup ToSet(batch')
    BY <1>1, <2>1, ToSetHead
  <2>4. ToSet(channel') = ToSet(channel) \cup {Head(batch)}
    <3>1. Head(batch) \in Nat
      BY <1>1, <2>1, HeadTailProperties
    <3> QED
      BY <1>1, <2>1, <3>1, ToSetAppend
  <2> QED
    BY <1>2, <2>1, <2>2, <2>3, <2>4
<1>11. CASE FlushFails
  <2>1. batch' = <<>> /\ UNCHANGED <<produced, collector, queue, channel, wire, received>>
    BY <1>11 DEF FlushFails, CheckClosed, streamVars
  <2>2. InHand' = InHand
    BY <2>1 DEF InHand
  <2> QED
    BY <1>2, <2>1, <2>2, ToSetEmpty
<1>12. CASE StreamEnds
  <2>1. channel' = <<>> /\ UNCHANGED <<produced, collector, queue, batch, wire, received>>
    BY <1>12 DEF StreamEnds, loopVars
  <2>2. InHand' = InHand
    BY <2>1 DEF InHand
  <2> QED
    BY <1>2, <2>1, <2>2, ToSetEmpty
<1>13. CASE StreamTake
  <2>1. /\ streams \in Streams /\ channel # <<>> /\ channel' = Tail(channel)
        /\ wire' = [wire EXCEPT ![streams] = Append(@, Head(channel))]
        /\ UNCHANGED <<produced, collector, queue, batch, received>>
    BY <1>13, OpenStream DEF StreamTake, loopVars
  <2>2. InHand' = InHand
    BY <2>1 DEF InHand
  <2>3. ToSet(channel) = {Head(channel)} \cup ToSet(channel')
    BY <1>1, <2>1, ToSetHead
  <2>4. ASSUME NEW k \in Streams
        PROVE  Aboard(k)' \subseteq Aboard(k) \cup {Head(channel)}
    <3>1. Head(channel) \in Nat
      BY <1>1, <2>1, HeadTailProperties
    <3>2. wire'[k] \in {wire[k], Append(wire[k], Head(channel))}
      BY <2>1 DEF IInv, TypeOK
    <3>3. ToSet(wire'[k]) \subseteq ToSet(wire[k]) \cup {Head(channel)}
      BY <1>1, <3>1, <3>2, ToSetAppend
    <3> QED
      BY <2>1, <3>3 DEF Aboard
  <2>5. Pieces' \subseteq Pieces
    BY <2>1, <2>2, <2>3, <2>4 DEF Pieces
  <2> QED
    BY <2>1, <2>5
<1>14. ASSUME NEW l \in Streams, Deliver(l) \/ Vanish(l)
       PROVE  produced' = produced /\ Pieces' \subseteq Pieces
  <2>1. /\ wire[l] # <<>>
        /\ UNCHANGED <<produced, collector, queue, batch, channel>>
        /\ \/ /\ received' = [received EXCEPT ![l] = Append(@, Head(wire[l]))]
              /\ wire' = [wire EXCEPT ![l] = Tail(@)]
           \/ received' = received /\ wire' = [wire EXCEPT ![l] = <<>>]
    BY <1>14 DEF Deliver, Vanish, loopVars
  <2>2. InHand' = InHand
    BY <2>1 DEF InHand
  <2>3. ToSet(wire[l]) = {Head(wire[l])} \cup ToSet(Tail(wire[l])) /\ Head(wire[l]) \in Nat
    BY <1>1, <2>1, ToSetHead, HeadTailProperties
  <2>4. ToSet(Append(received[l], Head(wire[l]))) = ToSet(received[l]) \cup {Head(wire[l])}
    <3>1. PICK h \in Nat : h = Head(wire[l])
      BY <2>3
    <3>2. received[l] \in Seq(Nat)
      BY <1>1
    <3>3. ToSet(Append(received[l], h)) = ToSet(received[l]) \cup {h}
      BY <3>2, ToSetAppend
    <3> QED
      BY <3>1, <3>3
  <2>5. ASSUME NEW k \in Streams
        PROVE  Aboard(k)' \subseteq Aboard(k)
    <3>1. CASE k # l
      <4>1. wire'[k] = wire[k] /\ received'[k] = received[k]
        BY <2>1, <3>1 DEF IInv, TypeOK
      <4> QED
        BY <4>1 DEF Aboard
    <3>2. CASE k = l
      <4>1. \/ wire'[l] = Tail(wire[l]) /\ received'[l] = Append(received[l], Head(wire[l]))
            \/ wire'[l] = <<>> /\ received'[l] = received[l]
        BY <2>1 DEF IInv, TypeOK
      <4> QED
        BY <2>3, <2>4, <3>2, <4>1, ToSetEmpty DEF Aboard
    <3> QED
      BY <3>1, <3>2
  <2>6. Pieces' \subseteq Pieces
    BY <2>1, <2>2, <2>5 DEF Pieces
  <2> QED
    BY <2>1, <2>6
<1> QED
  BY <1>3, <1>4, <1>5, <1>6, <1>7, <1>8, <1>9, <1>10, <1>11, <1>12, <1>13, <1>14
  DEF Next, Collector, Loop, Stream

LEMMA FactsHold == Spec => []Facts
<1>1. Init => OrderInv
  BY InitInOrder, AgentAssumption
<1>2. IInv /\ OrderInv /\ [Next]_vars => OrderInv'
  BY StepInOrder, AgentAssumption
<1>3. IInv /\ OrderInv => Facts
  BY LostInPieces, AgentAssumption DEF Facts
<1> QED
  BY <1>1, <1>2, <1>3, InvariantHolds, PTL DEF Spec

=============================================================================
