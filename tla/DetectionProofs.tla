-------------------------- MODULE DetectionProofs --------------------------
(***************************************************************************)
(* Proofs about Detection for every set of threads and keys, every         *)
(* threshold, window, cooldown and stall, and every bound.                 *)
(***************************************************************************)
EXTENDS Detection, SequenceTheorems, FiniteSetTheorems, TLAPS

-----------------------------------------------------------------------------
(* Maps.                                                                   *)

LEMMA PutIsMap ==
  ASSUME NEW K, NEW E, NEW m, IsMap(m, K, E), NEW k \in K, NEW e \in E
  PROVE  IsMap(Put(m, k, e), K, E)
BY DEF Put, IsMap

LEMMA DropIsMap ==
  ASSUME NEW K, NEW E, NEW m, IsMap(m, K, E), NEW k
  PROVE  IsMap(Drop(m, k), K, E)
BY DEF Drop, IsMap

LEMMA SizeIsNat ==
  ASSUME DetectionAssumption, TypeOK, NEW map
  PROVE  Size(map) \in Nat
<1>1. IsFiniteSet(DOMAIN bfState) /\ IsFiniteSet(DOMAIN psState)
  BY FS_Subset DEF DetectionAssumption, TypeOK, IsMap
<1> QED BY <1>1, FS_CardinalityType DEF Size

-----------------------------------------------------------------------------
(* Type correctness.                                                       *)

\* What UpdateBruteforce computes from the old entry e of its key.
BfOld(k, now) == IF k \in DOMAIN bfState THEN bfState[k]
                 ELSE [count |-> 0, start |-> now, last |-> {}]
BfOver(k, now) == WindowOver(now, BfOld(k, now).start, AuthWindow)
BfCount(k, now) == CountBefore(BfOld(k, now), BfOver(k, now)) + 1
BfAlert(k, now) == /\ ThresholdMet(BfCount(k, now), AuthThreshold)
                   /\ CooldownOver(now, BfOld(k, now).last, AuthCooldown)
BfNew(k, now) == [count |-> BfCount(k, now),
                  start |-> StartOf(BfOld(k, now), now, BfOver(k, now)),
                  last  |-> IF BfAlert(k, now) THEN {now} ELSE BfOld(k, now).last]

LEMMA BfUpdate ==
  ASSUME TypeOK, NEW t \in Threads, UpdateBruteforce(t)
  PROVE  \E k \in Keys, now \in Times :
           /\ call[t] = [kind |-> "bf", key |-> k, now |-> now]
           /\ bfState' = Put(bfState, k, BfNew(k, now))
           /\ bfHits' = [bfHits EXCEPT ![k] =
                           Append(@, [at |-> now, alert |-> BfAlert(k, now)])]
           /\ BfOld(k, now) \in [count : Nat, start : Times, last : Option(Times)]
           /\ BfNew(k, now) \in BfEntry
           /\ BfAlert(k, now) \in BOOLEAN
<1>1. PICK k \in Keys, now \in Times : call[t] = [kind |-> "bf", key |-> k, now |-> now]
  <2>1. call[t].kind = "bf" /\ call[t] \in Calls
    BY DEF UpdateBruteforce, TypeOK
  <2> QED
    BY <2>1, SMTT(30) DEF Calls, NoCall
<1>2. call[t].key = k /\ call[t].now = now
  BY <1>1
<1>3. /\ bfState' = Put(bfState, k, BfNew(k, now))
      /\ bfHits' = [bfHits EXCEPT ![k] =
                      Append(@, [at |-> now, alert |-> BfAlert(k, now)])]
  BY <1>2 DEF UpdateBruteforce, BfOld, BfOver, BfCount, BfAlert, BfNew
<1>4. BfOld(k, now) \in [count : Nat, start : Times, last : Option(Times)]
  BY DEF BfOld, TypeOK, IsMap, BfEntry, Option
<1>5. BfCount(k, now) \in Nat
  BY <1>4 DEF BfCount, CountBefore
<1>6. StartOf(BfOld(k, now), now, BfOver(k, now)) \in Times
  BY <1>4 DEF StartOf
<1>7. (IF BfAlert(k, now) THEN {now} ELSE BfOld(k, now).last) \in Option(Times)
  BY <1>4 DEF Option
<1>8. BfNew(k, now) \in BfEntry
  BY <1>5, <1>6, <1>7 DEF BfNew, BfEntry
<1>9. BfAlert(k, now) \in BOOLEAN
  BY DEF BfAlert, ThresholdMet, CooldownOver
<1> QED BY <1>1, <1>3, <1>4, <1>8, <1>9

\* The alert time that an update of k finds.
OldLast(m, k) == IF k \in DOMAIN m THEN m[k].last ELSE {}

\* UpdatePortscan of t makes e of the entry of its source s, and records h.
PsEffect(t, s, p, now, e, h) ==
  /\ call[t] = [kind |-> "ps", key |-> s, port |-> p, now |-> now]
  /\ psState' = Put(psState, s, e)
  /\ psHits' = [psHits EXCEPT ![s] = Append(@, h)]
  /\ h.at = now /\ h.port = p
  /\ e.last = IF h.alert THEN {now} ELSE OldLast(psState, s)
  /\ h.alert <=> /\ ThresholdMet(Cardinality(e.ports), ScanThreshold)
                 /\ CooldownOver(now, OldLast(psState, s), ScanCooldown)
  /\ IF s \in DOMAIN psState /\ ~WindowOver(now, psState[s].start, PortScanWindow)
       THEN /\ e.start = psState[s].start
            /\ e.ports = psState[s].ports \cup {AsU16(p)}
       ELSE e.start = now /\ e.ports = {AsU16(p)}

LEMMA PsUpdate ==
  ASSUME DetectionAssumption, TypeOK, NEW t \in Threads, UpdatePortscan(t)
  PROVE  \E s \in Sources, p \in Ports, now \in Times, e \in PsEntry, h \in PsHit :
           PsEffect(t, s, p, now, e, h)
<1>1. PICK s \in Sources, p \in Ports, now \in Times :
        call[t] = [kind |-> "ps", key |-> s, port |-> p, now |-> now]
  <2>1. call[t].kind = "ps" /\ call[t] \in Calls
    BY DEF UpdatePortscan, TypeOK
  <2> QED
    BY <2>1, SMTT(30) DEF Calls, NoCall
<1>2. call[t].key = s /\ call[t].now = now /\ call[t].port = p
  BY <1>1
<1> DEFINE old   == IF s \in DOMAIN psState THEN psState[s]
                    ELSE [ports |-> {}, start |-> now, last |-> {}]
           over  == WindowOver(now, old.start, PortScanWindow)
           ports == PortsKept(old, over) \cup {AsU16(p)}
           alert == /\ ThresholdMet(Cardinality(ports), ScanThreshold)
                    /\ CooldownOver(now, old.last, ScanCooldown)
           new   == [ports |-> ports, start |-> StartOf(old, now, over),
                     last  |-> IF alert THEN {now} ELSE old.last]
           hit   == [at |-> now, alert |-> alert, port |-> p]
<1>3. /\ psState' = Put(psState, s, new)
      /\ psHits' = [psHits EXCEPT ![s] = Append(@, hit)]
  BY <1>2 DEF UpdatePortscan
<1>4. old \in PsEntry /\ old.last = OldLast(psState, s)
  BY DEF TypeOK, IsMap, PsEntry, Option, OldLast
<1>5. AsU16(p) \in 0..U16 - 1
  BY DEF AsU16, DetectionAssumption
<1>6. ports \in SUBSET (0..U16 - 1)
  BY <1>4, <1>5 DEF PortsKept, PsEntry
<1>7. StartOf(old, now, over) \in Times
  BY <1>4 DEF StartOf, PsEntry
<1>8. (IF alert THEN {now} ELSE old.last) \in Option(Times)
  BY <1>4 DEF Option, PsEntry
<1>9. new \in PsEntry
  BY <1>6, <1>7, <1>8 DEF PsEntry
<1>10. alert \in BOOLEAN
  BY DEF ThresholdMet, CooldownOver
<1>11. hit \in PsHit /\ hit.at = now /\ hit.port = p /\ hit.alert = alert
  BY <1>10 DEF PsHit
<1>12. new.last = IF hit.alert THEN {now} ELSE OldLast(psState, s)
  BY <1>4, <1>11
<1>13. hit.alert <=> /\ ThresholdMet(Cardinality(new.ports), ScanThreshold)
                     /\ CooldownOver(now, OldLast(psState, s), ScanCooldown)
  BY <1>4, <1>11
<1>14. IF s \in DOMAIN psState /\ ~WindowOver(now, psState[s].start, PortScanWindow)
         THEN new.start = psState[s].start /\ new.ports = psState[s].ports \cup {AsU16(p)}
         ELSE new.start = now /\ new.ports = {AsU16(p)}
  BY DEF StartOf, PortsKept
<1> HIDE DEF old, over, ports, alert, new, hit
<1>15. PsEffect(t, s, p, now, new, hit)
  BY <1>1, <1>3, <1>11, <1>12, <1>13, <1>14 DEF PsEffect
<1> QED BY <1>9, <1>11, <1>15

LEMMA InitTyped == DetectionAssumption /\ Init => TypeOK
<1> SUFFICES ASSUME DetectionAssumption, Init PROVE TypeOK
  OBVIOUS
<1>1. 0 \in Times
  BY DEF Times, DetectionAssumption
<1>2. DOMAIN bfState = {} /\ DOMAIN psState = {}
  BY DEF Init
<1>3. IsMap(bfState, Keys, BfEntry) /\ IsMap(psState, Sources, PsEntry)
  BY <1>2 DEF Init, IsMap
<1>4. cleaner \in [at : CleanerStates, map : {"bf", "ps"}, now : Times,
                   before : Nat, todo : SUBSET (Keys \cup Sources)]
  BY <1>1 DEF Init, Asleep, CleanerStates
<1>5. bfHits \in [Keys -> Seq(BfHit)] /\ psHits \in [Sources -> Seq(PsHit)]
  BY EmptySeq DEF Init
<1> QED BY <1>1, <1>3, <1>4, <1>5 DEF Init, TypeOK, Calls, NoCall

LEMMA StepTyped ==
  ASSUME DetectionAssumption, TypeOK, [Next]_vars
  PROVE  TypeOK'
<1>1. CASE Tick
  <2>0. MaxTime \in Nat
    BY DEF DetectionAssumption
  <2>1. clock \in Nat /\ clock < MaxTime /\ clock' = clock + 1
    <3>1. clock \in Times
      BY DEF TypeOK
    <3> QED BY <1>1, <2>0, <3>1 DEF Tick, Times
  <2>2. clock' \in Times
    BY <2>0, <2>1 DEF Times
  <2> QED BY <1>1, <2>2 DEF Tick, TypeOK
<1>2. ASSUME NEW t \in Threads, Evaluate(t)
      PROVE  TypeOK'
  <2>1. ASSUME NEW k \in Keys, StartBruteforce(t, k)
        PROVE  TypeOK'
    <3>1. [kind |-> "bf", key |-> k, now |-> clock] \in Calls
      BY DEF Calls, TypeOK
    <3> QED BY <2>1, <3>1 DEF StartBruteforce, TypeOK
  <2>2. ASSUME NEW s \in Sources, NEW p \in Ports, StartPortscan(t, s, p)
        PROVE  TypeOK'
    <3>1. [kind |-> "ps", key |-> s, port |-> p, now |-> clock] \in Calls
      BY DEF Calls, TypeOK
    <3> QED BY <2>2, <3>1 DEF StartPortscan, TypeOK
  <2>3. CASE UpdateBruteforce(t)
    <3>1. PICK k \in Keys, now \in Times :
            /\ bfState' = Put(bfState, k, BfNew(k, now))
            /\ bfHits' = [bfHits EXCEPT ![k] =
                            Append(@, [at |-> now, alert |-> BfAlert(k, now)])]
            /\ BfNew(k, now) \in BfEntry
            /\ BfAlert(k, now) \in BOOLEAN
      BY <2>3, BfUpdate
    <3>2. IsMap(bfState', Keys, BfEntry)
      BY <3>1, PutIsMap DEF TypeOK
    <3>3. [at |-> now, alert |-> BfAlert(k, now)] \in BfHit
      BY <3>1 DEF BfHit
    <3>4. bfHits' \in [Keys -> Seq(BfHit)]
      BY <3>1, <3>3, AppendProperties DEF TypeOK
    <3>5. call' \in [Threads -> Calls]
      BY <2>3 DEF UpdateBruteforce, TypeOK, Calls
    <3> QED BY <2>3, <3>2, <3>4, <3>5 DEF UpdateBruteforce, TypeOK
  <2>4. CASE UpdatePortscan(t)
    <3>1. PICK s \in Sources, p \in Ports, now \in Times, e \in PsEntry, h \in PsHit :
            PsEffect(t, s, p, now, e, h)
      BY <2>4, PsUpdate
    <3>2. IsMap(psState', Sources, PsEntry)
      BY <3>1, PutIsMap DEF PsEffect, TypeOK
    <3>3. psHits' \in [Sources -> Seq(PsHit)]
      BY <3>1, AppendProperties DEF PsEffect, TypeOK
    <3>4. call' \in [Threads -> Calls]
      BY <2>4 DEF UpdatePortscan, TypeOK, Calls
    <3> QED BY <2>4, <3>2, <3>3, <3>4 DEF UpdatePortscan, TypeOK
  <2> QED BY <1>2, <2>1, <2>2, <2>3, <2>4 DEF Evaluate
<1>3. CASE Cleanup
  <2>1. CASE Wake
    BY <2>1 DEF Wake, CleanupNow, TypeOK, CleanerStates
  <2>2. CASE CountEntries
    <3>1. Size(cleaner.map) \in Nat
      BY SizeIsNat
    <3> QED BY <2>2, <3>1 DEF CountEntries, TypeOK, CleanerStates
  <2>3. ASSUME NEW k \in Keys \cup Sources, Retain(k)
        PROVE  TypeOK'
    <3>1. IsMap(bfState', Keys, BfEntry)
      BY <2>3, DropIsMap DEF Retain, TypeOK
    <3>2. IsMap(psState', Sources, PsEntry)
      BY <2>3, DropIsMap DEF Retain, TypeOK
    <3> QED BY <2>3, <3>1, <3>2 DEF Retain, TypeOK
  <2>4. CASE CountRemoved
    <3>1. Asleep \in [at : CleanerStates, map : {"bf", "ps"}, now : Times,
                      before : Nat, todo : SUBSET (Keys \cup Sources)]
      BY DEF Asleep, CleanerStates, Times, DetectionAssumption
    <3>2. cleaner' \in [at : CleanerStates, map : {"bf", "ps"}, now : Times,
                        before : Nat, todo : SUBSET (Keys \cup Sources)]
      BY <2>4, <3>1 DEF CountRemoved, TypeOK, CleanerStates
    <3> QED BY <2>4, <3>2 DEF CountRemoved, TypeOK
  <2> QED BY <1>3, <2>1, <2>2, <2>3, <2>4 DEF Cleanup, CleanupStep
<1>4. CASE UNCHANGED vars
  BY <1>4 DEF vars, TypeOK
<1> QED
  BY <1>1, <1>2, <1>3, <1>4 DEF Next

\* Every reachable state is well typed: in particular a port in the set fits
\* in 16 bits, and the cleanup task's count is taken from a finite map.
THEOREM TypeCorrect == Spec => []TypeOK
<1>1. Init => TypeOK
  BY InitTyped, DetectionAssumption
<1>2. TypeOK /\ [Next]_vars => TypeOK'
  BY StepTyped, DetectionAssumption
<1> QED BY <1>1, <1>2, PTL DEF Spec

-----------------------------------------------------------------------------
(* The count is true.                                                      *)

LEMMA NewWindow ==
  ASSUME NEW H, \A x \in H : x.at \in Int,
         NEW h \in Seq(H), NEW hit \in H, NEW w \in Nat
  PROVE  OneWindow(Append(h, hit), 1, hit.at, w)
<1>1. /\ Len(Append(h, hit)) = Len(h) + 1
      /\ Append(h, hit)[Len(h) + 1] = hit
      /\ Len(h) \in Nat
  BY AppendProperties, LenProperties
<1>2. hit.at \in Int
  OBVIOUS
<1>3. Len(h) + 1 - 1 + 1 = Len(h) + 1 /\ 1 \in 1..Len(h) + 1
  BY <1>1
<1>4. ASSUME NEW i \in Len(h) + 1 - 1 + 1..Len(h) + 1
      PROVE  i = Len(h) + 1
  BY <1>1
<1> QED BY <1>1, <1>2, <1>3, <1>4 DEF OneWindow, Latest

LEMMA LongerWindow ==
  ASSUME NEW H, NEW h \in Seq(H), NEW hit \in H, NEW w \in Nat, NEW n \in Nat,
         NEW start, OneWindow(h, n, start, w), hit.at <= start + w
  PROVE  OneWindow(Append(h, hit), n + 1, start, w)
<1> DEFINE h2 == Append(h, hit)
<1>1. /\ Len(h2) = Len(h) + 1
      /\ \A i \in 1..Len(h) : h2[i] = h[i]
      /\ h2[Len(h) + 1] = hit
      /\ Len(h) \in Nat
  BY AppendProperties, LenProperties
<1> HIDE DEF h2
<1>2. /\ n \in 1..Len(h)
      /\ h[Len(h) - n + 1].at = start
      /\ \A i \in Len(h) - n + 1..Len(h) : h[i].at <= start + w
  BY DEF OneWindow, Latest
<1>3. /\ n + 1 \in 1..Len(h) + 1
      /\ Len(h) + 1 - (n + 1) + 1 = Len(h) - n + 1
      /\ Len(h) - n + 1 \in 1..Len(h)
  BY <1>1, <1>2
<1>4. ASSUME NEW i \in Len(h) - n + 1..Len(h) + 1
      PROVE  h2[i].at <= start + w
  <2>1. CASE i = Len(h) + 1
    BY <1>1, <2>1
  <2>2. CASE i # Len(h) + 1
    <3>1. i \in Len(h) - n + 1..Len(h) /\ i \in 1..Len(h)
      BY <1>1, <1>3, <2>2
    <3> QED BY <1>1, <1>2, <3>1
  <2> QED BY <2>1, <2>2
<1>5. OneWindow(h2, n + 1, start, w)
  BY <1>1, <1>2, <1>3, <1>4 DEF OneWindow, Latest
<1> QED BY <1>5 DEF h2

\* One update keeps the count of its key true: a new window starts from this
\* hit alone, an old one is extended by it.
LEMMA UpdateCounts ==
  ASSUME AuthWindow \in Nat, TypeOK, CountIsTruthful,
         NEW t \in Threads, UpdateBruteforce(t)
  PROVE  CountIsTruthful'
<1>1. PICK k \in Keys, now \in Times :
        /\ bfState' = Put(bfState, k, BfNew(k, now))
        /\ bfHits' = [bfHits EXCEPT ![k] =
                        Append(@, [at |-> now, alert |-> BfAlert(k, now)])]
        /\ BfOld(k, now) \in [count : Nat, start : Times, last : Option(Times)]
        /\ BfNew(k, now) \in BfEntry
        /\ BfAlert(k, now) \in BOOLEAN
  BY BfUpdate
<1>2. PICK hit : hit = [at |-> now, alert |-> BfAlert(k, now)]
  OBVIOUS
<1>3. hit \in BfHit /\ hit.at = now
  BY <1>1, <1>2 DEF BfHit
<1>4. /\ bfHits'[k] = Append(bfHits[k], hit)
      /\ \A x \in Keys : x # k => bfHits'[x] = bfHits[x]
      /\ bfHits[k] \in Seq(BfHit)
  BY <1>1, <1>2 DEF TypeOK
<1>5. IsMap(bfState, Keys, BfEntry)
  BY DEF TypeOK
<1>6. /\ DOMAIN bfState' = DOMAIN bfState \cup {k}
      /\ bfState'[k] = BfNew(k, now)
      /\ \A x \in DOMAIN bfState : x # k => bfState'[x] = bfState[x]
  <2>1. /\ DOMAIN Put(bfState, k, BfNew(k, now)) = DOMAIN bfState \cup {k}
        /\ Put(bfState, k, BfNew(k, now))[k] = BfNew(k, now)
        /\ \A x \in DOMAIN bfState :
             x # k => Put(bfState, k, BfNew(k, now))[x] = bfState[x]
    BY DEF Put
  <2> QED BY <1>1, <2>1
<1>7. now \in Int /\ BfOld(k, now).start \in Int /\ BfOld(k, now).count \in Nat
  BY <1>1 DEF Times
<1>8. OneWindow(bfHits'[k], BfNew(k, now).count, BfNew(k, now).start, AuthWindow)
  <2>1. CASE BfOver(k, now) \/ k \notin DOMAIN bfState
    <3>1. \/ BfOld(k, now).count = 0 /\ BfOld(k, now).start = now
          \/ BfOver(k, now)
      BY <2>1 DEF BfOld
    <3>2. BfNew(k, now).count = 1 /\ BfNew(k, now).start = now
      BY <3>1 DEF BfNew, BfCount, CountBefore, StartOf
    <3>3. \A x \in BfHit : x.at \in Int
      BY DEF BfHit, Times
    <3> QED BY <1>3, <1>4, <3>2, <3>3, NewWindow
  <2>2. CASE ~BfOver(k, now) /\ k \in DOMAIN bfState
    <3>1. BfOld(k, now) = bfState[k]
      BY <2>2 DEF BfOld
    <3>2. /\ BfNew(k, now).count = bfState[k].count + 1
          /\ BfNew(k, now).start = bfState[k].start
      BY <2>2, <3>1 DEF BfNew, BfCount, CountBefore, StartOf
    <3>3. hit.at <= bfState[k].start + AuthWindow
      BY <1>3, <1>7, <2>2, <3>1 DEF BfOver, WindowOver
    <3>4. OneWindow(bfHits[k], bfState[k].count, bfState[k].start, AuthWindow)
      BY <2>2 DEF CountIsTruthful
    <3> QED BY <1>3, <1>4, <1>7, <3>1, <3>2, <3>3, <3>4, LongerWindow
  <2> QED BY <2>1, <2>2
<1>9. ASSUME NEW x \in DOMAIN bfState'
      PROVE  OneWindow(bfHits'[x], bfState'[x].count, bfState'[x].start, AuthWindow)
  <2>1. CASE x = k
    BY <1>6, <1>8, <2>1
  <2>2. CASE x # k
    <3>1. x \in DOMAIN bfState /\ x \in Keys
      BY <1>5, <1>6, <2>2 DEF IsMap
    <3> QED BY <1>4, <1>6, <2>2, <3>1 DEF CountIsTruthful
  <2> QED BY <2>1, <2>2
<1> QED BY <1>9 DEF CountIsTruthful

LEMMA StepCounts ==
  ASSUME DetectionAssumption, AuthWindow \in Nat, TypeOK, CountIsTruthful,
         [Next]_vars
  PROVE  CountIsTruthful'
<1>1. ASSUME NEW t \in Threads, Evaluate(t)
      PROVE  CountIsTruthful'
  <2>1. CASE UpdateBruteforce(t)
    BY <2>1, UpdateCounts
  <2>2. ASSUME ~UpdateBruteforce(t)
        PROVE  bfState' = bfState /\ bfHits' = bfHits
    BY <1>1, <2>2 DEF Evaluate, StartBruteforce, StartPortscan, UpdatePortscan
  <2> QED BY <2>1, <2>2 DEF CountIsTruthful
<1>2. ASSUME NEW k, Retain(k)
      PROVE  CountIsTruthful'
  <2>1. /\ DOMAIN bfState' \subseteq DOMAIN bfState
        /\ \A x \in DOMAIN bfState' : bfState'[x] = bfState[x]
    <3>1. CASE bfState' = bfState
      BY <3>1
    <3>2. CASE bfState' = Drop(bfState, k)
      <4>1. /\ DOMAIN Drop(bfState, k) = DOMAIN bfState \ {k}
            /\ \A x \in DOMAIN Drop(bfState, k) : Drop(bfState, k)[x] = bfState[x]
        BY DEF Drop
      <4> QED BY <3>2, <4>1
    <3> QED BY <1>2, <3>1, <3>2 DEF Retain
  <2> QED BY <1>2, <2>1 DEF Retain, CountIsTruthful
<1>3. CASE Tick \/ Wake \/ CountEntries \/ CountRemoved \/ UNCHANGED vars
  BY <1>3 DEF Tick, Wake, CountEntries, CountRemoved, vars, CountIsTruthful
<1> QED
  BY <1>1, <1>2, <1>3 DEF Next, Cleanup, CleanupStep

\* For every window that is not negative: the number of attempts in an alert
\* is the number of the key's latest hits that lie in one window.
THEOREM CountsAreTruthful ==
  ASSUME AuthWindow \in Nat
  PROVE  Spec => []CountIsTruthful
<1>1. Init => TypeOK /\ CountIsTruthful
  <2>1. Init => CountIsTruthful
    BY DEF Init, CountIsTruthful
  <2> QED BY <2>1, InitTyped, DetectionAssumption
<1>2. TypeOK /\ CountIsTruthful /\ [Next]_vars => (TypeOK /\ CountIsTruthful)'
  BY StepTyped, StepCounts, DetectionAssumption
<1> QED BY <1>1, <1>2, PTL DEF Spec

-----------------------------------------------------------------------------
(* The cooldown.                                                           *)

\* Readings are not from the future, and not older than MaxStall.
ReadingInv ==
  /\ cleaner.now <= clock
  /\ \A t \in Threads : call[t] # NoCall =>
       call[t].now <= clock /\ clock - call[t].now <= MaxStall

\* No alert of k is forgotten before its cooldown is over: the entry has a time
\* that is not before it, or it is older than the TTL.
Remembered(m, k, h, c) ==
  \A i \in DOMAIN h : h[i].alert =>
    (\E ts \in OldLast(m, k) : h[i].at <= ts) \/ c - h[i].at >= StateTTL

CooldownInv ==
  /\ \A k \in Keys : Remembered(bfState, k, bfHits[k], clock)
  /\ \A s \in Sources : Remembered(psState, s, psHits[s], clock)

\* What any update does to the history h of its key k: the times that it finds
\* are last, and those that it leaves are in m2.
LEMMA UpdateSpaced ==
  ASSUME NEW H, \A x \in H : x.at \in Int /\ x.alert \in BOOLEAN,
         NEW h \in Seq(H), NEW hit \in H,
         NEW c \in Int, NEW cooldown \in Nat, MaxStall \in Nat, StateTTL \in Nat,
         StateTTL > cooldown + MaxStall,
         hit.at <= c, c - hit.at <= MaxStall,
         NEW m, NEW m2, NEW k,
         OldLast(m, k) \subseteq Int,
         OldLast(m2, k) = IF hit.alert THEN {hit.at} ELSE OldLast(m, k),
         hit.alert => CooldownOver(hit.at, OldLast(m, k), cooldown),
         Remembered(m, k, h, c), Spaced(h, cooldown)
  PROVE  Spaced(Append(h, hit), cooldown) /\ Remembered(m2, k, Append(h, hit), c)
<1> DEFINE h2 == Append(h, hit)
<1>1. /\ DOMAIN h = 1..Len(h) /\ DOMAIN h2 = 1..Len(h) + 1
      /\ Len(h) \in Nat
      /\ \A i \in 1..Len(h) : h2[i] = h[i] /\ h[i] \in H
      /\ h2[Len(h) + 1] = hit
  BY AppendProperties, LenProperties, ElementOfSeq
<1> HIDE DEF h2
<1>2. hit.at \in Int
  OBVIOUS
<1>3. ASSUME NEW i \in 1..Len(h), h[i].alert, hit.alert
      PROVE  hit.at - h[i].at > cooldown
  <2>1. h[i].at \in Int
    BY <1>1
  <2>2. CASE \E ts \in OldLast(m, k) : h[i].at <= ts
    <3>1. PICK ts \in OldLast(m, k) : h[i].at <= ts
      BY <2>2
    <3>2. hit.at - ts > cooldown /\ ts \in Int
      BY <1>3, <3>1 DEF CooldownOver
    <3> QED
      BY <1>2, <2>1, <3>1, <3>2
  <2>3. CASE c - h[i].at >= StateTTL
    BY <1>2, <2>1, <2>3
  <2> QED
    BY <1>1, <1>3, <2>2, <2>3 DEF Remembered
<1>4. Spaced(h2, cooldown)
  <2> SUFFICES ASSUME NEW i \in 1..Len(h) + 1, NEW j \in 1..Len(h) + 1,
                      i < j, h2[i].alert, h2[j].alert
               PROVE  h2[j].at - h2[i].at > cooldown
    BY <1>1 DEF Spaced
  <2>1. i \in 1..Len(h)
    BY <1>1
  <2>2. CASE j = Len(h) + 1
    BY <1>1, <1>3, <2>1, <2>2
  <2>3. CASE j \in 1..Len(h)
    BY <1>1, <2>1, <2>3 DEF Spaced
  <2>4. j = Len(h) + 1 \/ j \in 1..Len(h)
    BY <1>1
  <2> QED
    BY <2>2, <2>3, <2>4
<1>5. Remembered(m2, k, h2, c)
  <2> SUFFICES ASSUME NEW i \in 1..Len(h) + 1, h2[i].alert
               PROVE  (\E ts \in OldLast(m2, k) : h2[i].at <= ts) \/ c - h2[i].at >= StateTTL
    BY <1>1 DEF Remembered
  <2>1. CASE hit.alert
    <3>1. h2[i].at <= hit.at
      <4>1. CASE i = Len(h) + 1
        BY <1>1, <1>2, <4>1
      <4>2. CASE i \in 1..Len(h)
        <5>1. hit.at - h[i].at > cooldown /\ h[i].at \in Int
          BY <1>1, <1>3, <2>1, <4>2
        <5> QED
          BY <1>1, <1>2, <4>2, <5>1
      <4> QED
        BY <1>1, <4>1, <4>2
    <3> QED
      BY <2>1, <3>1
  <2>2. CASE ~hit.alert
    <3>1. i \in 1..Len(h)
      BY <1>1, <2>2
    <3> QED
      BY <1>1, <2>2, <3>1 DEF Remembered
  <2> QED
    BY <2>1, <2>2
<1> QED
  BY <1>4, <1>5 DEF h2

\* Deleting an expired entry forgets only what is older than the TTL.
LEMMA DropRemembered ==
  ASSUME NEW H, \A x \in H : x.at \in Int, NEW h \in Seq(H),
         NEW m, NEW k, k \in DOMAIN m, m[k].last \in Option(Times),
         NEW c \in Int, NEW now \in Int, now <= c, StateTTL \in Nat,
         Expired(m[k], now), Remembered(m, k, h, c)
  PROVE  Remembered(Drop(m, k), k, h, c)
<1> SUFFICES ASSUME NEW i \in DOMAIN h, h[i].alert
             PROVE  c - h[i].at >= StateTTL
  BY DEF Remembered
<1>1. h[i].at \in Int
  BY ElementOfSeq
<1>2. CASE \E ts \in OldLast(m, k) : h[i].at <= ts
  <2>1. PICK ts \in m[k].last : h[i].at <= ts
    BY <1>2 DEF OldLast
  <2>2. m[k].last = {ts} /\ ts \in Int
    BY <2>1 DEF Option, Times
  <2>3. LastActivity(m[k]) = ts
    BY <2>2 DEF LastActivity
  <2>4. now - ts >= StateTTL
    BY <2>3 DEF Expired
  <2> QED
    BY <1>1, <2>1, <2>2, <2>4
<1> QED
  BY <1>2 DEF Remembered

\* An entry that is put or deleted leaves the alert times of the others alone.
LEMMA PutLast ==
  ASSUME NEW m, NEW k, NEW e
  PROVE  /\ OldLast(Put(m, k, e), k) = e.last
         /\ \A x : x # k => OldLast(Put(m, k, e), x) = OldLast(m, x)
BY DEF Put, OldLast

LEMMA DropLast ==
  ASSUME NEW m, NEW k
  PROVE  \A x : x # k => OldLast(Drop(m, k), x) = OldLast(m, x)
BY DEF Drop, OldLast

LEMMA OldLastType ==
  ASSUME TypeOK
  PROVE  /\ \A k : OldLast(bfState, k) \in Option(Times)
         /\ \A s : OldLast(psState, s) \in Option(Times)
BY DEF TypeOK, IsMap, BfEntry, PsEntry, OldLast, Option

LEMMA LaterRemembered ==
  ASSUME NEW H, \A x \in H : x.at \in Int, NEW h \in Seq(H),
         NEW m, NEW k, NEW c \in Int, StateTTL \in Nat, Remembered(m, k, h, c)
  PROVE  Remembered(m, k, h, c + 1)
<1> SUFFICES ASSUME NEW i \in DOMAIN h, h[i].alert
             PROVE  (\E ts \in OldLast(m, k) : h[i].at <= ts) \/ c + 1 - h[i].at >= StateTTL
  BY DEF Remembered
<1>1. h[i].at \in Int
  BY ElementOfSeq
<1> QED
  BY <1>1 DEF Remembered

LEMMA StepReads ==
  ASSUME DetectionAssumption, TypeOK, ReadingInv, [Next]_vars
  PROVE  ReadingInv'
<1>1. /\ clock \in Int /\ 0 <= clock /\ cleaner.now \in Int
      /\ MaxStall \in Nat
      /\ \A t \in Threads : call[t] # NoCall => call[t].now \in Int
      /\ DOMAIN call = Threads
  <2>1. clock \in Times /\ cleaner.now \in Times /\ DOMAIN call = Threads
    BY DEF TypeOK
  <2>2. ASSUME NEW t \in Threads, call[t] # NoCall
        PROVE  call[t].now \in Times
    <3>1. call[t] \in Calls
      BY DEF TypeOK
    <3> QED
      BY <2>2, <3>1, SMTT(30) DEF Calls
  <2>3. MaxStall \in Nat /\ MaxTime \in Nat
    BY DEF DetectionAssumption
  <2> QED
    BY <2>1, <2>2, <2>3 DEF Times
<1>2. CASE Tick
  BY <1>1, <1>2 DEF Tick, ReadingInv
<1>3. ASSUME NEW t \in Threads, Evaluate(t)
      PROVE  ReadingInv'
  <2>1. \E r : call' = [call EXCEPT ![t] = r] /\ (r = NoCall \/ r.now = clock)
    BY <1>3 DEF Evaluate, StartBruteforce, StartPortscan, UpdateBruteforce, UpdatePortscan
  <2>2. clock' = clock /\ cleaner' = cleaner
    BY <1>3 DEF Evaluate, StartBruteforce, StartPortscan, UpdateBruteforce, UpdatePortscan
  <2>3. ASSUME NEW u \in Threads, call'[u] # NoCall
        PROVE  call'[u].now = clock \/ (call[u] # NoCall /\ call'[u] = call[u])
    BY <1>1, <2>1, <2>3
  <2> QED
    BY <1>1, <2>2, <2>3 DEF ReadingInv
<1>4. CASE Cleanup
  <2>1. clock' = clock /\ call' = call
    BY <1>4 DEF Cleanup, CleanupStep, Wake, CountEntries, CountRemoved, Retain
  <2>2. cleaner'.now \in {cleaner.now, clock, 0}
    <3>1. cleaner \in [at : CleanerStates, map : {"bf", "ps"}, now : Times,
                       before : Nat, todo : SUBSET (Keys \cup Sources)]
      BY DEF TypeOK
    <3>2. CASE Wake
      BY <3>1, <3>2 DEF Wake, CleanupNow
    <3>3. CASE CountEntries
      BY <3>1, <3>3 DEF CountEntries
    <3>4. CASE CountRemoved
      BY <3>1, <3>4 DEF CountRemoved, Asleep
    <3>5. ASSUME NEW k, Retain(k)
          PROVE  cleaner'.now = cleaner.now
      BY <3>1, <3>5 DEF Retain
    <3> QED
      BY <1>4, <3>2, <3>3, <3>4, <3>5 DEF Cleanup, CleanupStep
  <2> QED
    BY <1>1, <2>1, <2>2 DEF ReadingInv
<1>5. CASE UNCHANGED vars
  BY <1>5 DEF vars, ReadingInv
<1> QED
  BY <1>2, <1>3, <1>4, <1>5 DEF Next

\* A detector's update raises no alert too early, and forgets none.
LEMMA BfUpdateCools ==
  ASSUME DetectionAssumption, TypeOK, ReadingInv, CooldownInv, CooldownHolds,
         NEW t \in Threads, UpdateBruteforce(t)
  PROVE  (CooldownInv /\ CooldownHolds)'
<1>1. PICK k \in Keys, now \in Times :
        /\ call[t] = [kind |-> "bf", key |-> k, now |-> now]
        /\ bfState' = Put(bfState, k, BfNew(k, now))
        /\ bfHits' = [bfHits EXCEPT ![k] =
                        Append(@, [at |-> now, alert |-> BfAlert(k, now)])]
        /\ BfOld(k, now) \in [count : Nat, start : Times, last : Option(Times)]
        /\ BfNew(k, now) \in BfEntry
        /\ BfAlert(k, now) \in BOOLEAN
  BY BfUpdate
<1>2. PICK hit \in BfHit : hit = [at |-> now, alert |-> BfAlert(k, now)]
  BY <1>1 DEF BfHit
<1>3. hit.at = now /\ hit.alert = BfAlert(k, now)
  BY <1>2
<1>4. /\ clock \in Int /\ hit.at <= clock /\ clock - hit.at <= MaxStall
  <2>1. call[t] # NoCall /\ call[t].now = now
    BY <1>1 DEF NoCall
  <2>2. now <= clock /\ clock - now <= MaxStall
    BY <2>1 DEF ReadingInv
  <2> QED
    BY <1>3, <2>2 DEF TypeOK, Times
<1>5. BfOld(k, now).last = OldLast(bfState, k)
  BY DEF BfOld, OldLast
<1>6. OldLast(bfState', k) = IF hit.alert THEN {hit.at} ELSE OldLast(bfState, k)
  <2>1. OldLast(bfState', k) = BfNew(k, now).last
    BY <1>1, PutLast
  <2> QED
    BY <1>3, <1>5, <2>1 DEF BfNew
<1>7. hit.alert => CooldownOver(hit.at, OldLast(bfState, k), AuthCooldown)
  BY <1>3, <1>5 DEF BfAlert
<1>8. /\ bfHits'[k] = Append(bfHits[k], hit) /\ bfHits[k] \in Seq(BfHit)
      /\ \A x \in Keys : x # k => bfHits'[x] = bfHits[x]
      /\ \A x : x # k => OldLast(bfState', x) = OldLast(bfState, x)
  <2>1. bfHits' = [bfHits EXCEPT ![k] = Append(@, hit)] /\ bfHits \in [Keys -> Seq(BfHit)]
    BY <1>1, <1>2 DEF TypeOK
  <2>2. \A x : x # k => OldLast(bfState', x) = OldLast(bfState, x)
    BY <1>1, PutLast
  <2> QED
    BY <2>1, <2>2
<1>9. /\ Spaced(bfHits'[k], AuthCooldown)
      /\ Remembered(bfState', k, bfHits'[k], clock)
  <2>1. \A x \in BfHit : x.at \in Int /\ x.alert \in BOOLEAN
    BY DEF BfHit, Times
  <2>2. /\ AuthCooldown \in Nat /\ MaxStall \in Nat /\ StateTTL \in Nat
        /\ StateTTL > AuthCooldown + MaxStall
    BY DEF DetectionAssumption
  <2>3. OldLast(bfState, k) \subseteq Int
    BY OldLastType DEF Option, Times
  <2>4. Remembered(bfState, k, bfHits[k], clock) /\ Spaced(bfHits[k], AuthCooldown)
    BY DEF CooldownInv, CooldownHolds
  <2> HIDE DEF BfHit
  <2>5. /\ Spaced(Append(bfHits[k], hit), AuthCooldown)
        /\ Remembered(bfState', k, Append(bfHits[k], hit), clock)
    BY <1>4, <1>6, <1>7, <1>8, <2>1, <2>2, <2>3, <2>4, UpdateSpaced
  <2> QED
    BY <1>8, <2>5
<1>10. clock' = clock /\ psState' = psState /\ psHits' = psHits
  BY DEF UpdateBruteforce
<1>11. ASSUME NEW x \in Keys, x # k
       PROVE  Spaced(bfHits'[x], AuthCooldown) /\ Remembered(bfState', x, bfHits'[x], clock)
  <2>1. bfHits'[x] = bfHits[x] /\ OldLast(bfState', x) = OldLast(bfState, x)
    BY <1>8, <1>11
  <2> QED
    BY <2>1 DEF CooldownInv, CooldownHolds, Remembered
<1> QED
  BY <1>9, <1>10, <1>11 DEF CooldownInv, CooldownHolds

LEMMA PsUpdateCools ==
  ASSUME DetectionAssumption, TypeOK, ReadingInv, CooldownInv, CooldownHolds,
         NEW t \in Threads, UpdatePortscan(t)
  PROVE  (CooldownInv /\ CooldownHolds)'
<1>1. PICK s \in Sources, p \in Ports, now \in Times, e \in PsEntry, hit \in PsHit :
        PsEffect(t, s, p, now, e, hit)
  BY PsUpdate
<1>2. hit.at = now
  BY <1>1 DEF PsEffect
<1>3. clock \in Int /\ hit.at <= clock /\ clock - hit.at <= MaxStall
  <2>1. call[t] # NoCall /\ call[t].now = now
    BY <1>1 DEF NoCall, PsEffect
  <2>2. now <= clock /\ clock - now <= MaxStall
    BY <2>1 DEF ReadingInv
  <2> QED
    BY <1>2, <2>2 DEF TypeOK, Times
<1>4. OldLast(psState', s) = IF hit.alert THEN {hit.at} ELSE OldLast(psState, s)
  BY <1>1, <1>2, PutLast DEF PsEffect
<1>5. hit.alert => CooldownOver(hit.at, OldLast(psState, s), ScanCooldown)
  BY <1>1, <1>2 DEF PsEffect
<1>6. /\ psHits'[s] = Append(psHits[s], hit) /\ psHits[s] \in Seq(PsHit)
      /\ \A x \in Sources : x # s => psHits'[x] = psHits[x]
      /\ \A x : x # s => OldLast(psState', x) = OldLast(psState, x)
  <2>1. psHits' = [psHits EXCEPT ![s] = Append(@, hit)] /\ psHits \in [Sources -> Seq(PsHit)]
    BY <1>1 DEF PsEffect, TypeOK
  <2>2. \A x : x # s => OldLast(psState', x) = OldLast(psState, x)
    BY <1>1, PutLast DEF PsEffect
  <2> QED
    BY <2>1, <2>2
<1>7. /\ Spaced(psHits'[s], ScanCooldown)
      /\ Remembered(psState', s, psHits'[s], clock)
  <2>1. \A x \in PsHit : x.at \in Int /\ x.alert \in BOOLEAN
    BY DEF PsHit, Times
  <2>2. /\ ScanCooldown \in Nat /\ MaxStall \in Nat /\ StateTTL \in Nat
        /\ StateTTL > ScanCooldown + MaxStall
    BY DEF DetectionAssumption
  <2>3. OldLast(psState, s) \subseteq Int
    BY OldLastType DEF Option, Times
  <2>4. Remembered(psState, s, psHits[s], clock) /\ Spaced(psHits[s], ScanCooldown)
    BY DEF CooldownInv, CooldownHolds
  <2>5. /\ Spaced(Append(psHits[s], hit), ScanCooldown)
        /\ Remembered(psState', s, Append(psHits[s], hit), clock)
    BY <1>3, <1>4, <1>5, <1>6, <2>1, <2>2, <2>3, <2>4, UpdateSpaced
  <2> QED
    BY <1>6, <2>5
<1>8. clock' = clock /\ bfState' = bfState /\ bfHits' = bfHits
  BY DEF UpdatePortscan
<1>9. ASSUME NEW x \in Sources, x # s
      PROVE  Spaced(psHits'[x], ScanCooldown) /\ Remembered(psState', x, psHits'[x], clock)
  <2>1. psHits'[x] = psHits[x] /\ OldLast(psState', x) = OldLast(psState, x)
    BY <1>6, <1>9
  <2> QED
    BY <2>1 DEF CooldownInv, CooldownHolds, Remembered
<1> QED
  BY <1>7, <1>8, <1>9 DEF CooldownInv, CooldownHolds

\* The cleanup task deletes an entry only after the cooldown of its last alert.
LEMMA RetainCools ==
  ASSUME DetectionAssumption, TypeOK, ReadingInv, CooldownInv, CooldownHolds,
         NEW k \in Keys \cup Sources, Retain(k)
  PROVE  (CooldownInv /\ CooldownHolds)'
<1>1. /\ clock \in Int /\ cleaner.now \in Int /\ cleaner.now <= clock
      /\ StateTTL \in Nat
  BY DEF TypeOK, Times, ReadingInv, DetectionAssumption
<1>2. /\ \A x \in BfHit : x.at \in Int
      /\ \A x \in PsHit : x.at \in Int
  BY DEF BfHit, PsHit, Times
<1>3. ASSUME NEW x \in Keys
      PROVE  Remembered(bfState', x, bfHits[x], clock)
  <2>1. Remembered(bfState, x, bfHits[x], clock)
    BY DEF CooldownInv
  <2>2. CASE /\ x = k /\ bfState' = Drop(bfState, k)
             /\ k \in DOMAIN bfState /\ Expired(bfState[k], cleaner.now)
    <3>1. bfState[k].last \in Option(Times) /\ bfHits[k] \in Seq(BfHit)
      BY <2>2 DEF TypeOK, IsMap, BfEntry
    <3> QED
      BY <1>1, <1>2, <2>1, <2>2, <3>1, DropRemembered
  <2>3. CASE x # k /\ bfState' = Drop(bfState, k)
    BY <2>1, <2>3, DropLast DEF Remembered
  <2>4. CASE bfState' = bfState
    BY <2>1, <2>4
  <2> QED
    BY <2>2, <2>3, <2>4 DEF Retain
<1>4. ASSUME NEW x \in Sources
      PROVE  Remembered(psState', x, psHits[x], clock)
  <2>1. Remembered(psState, x, psHits[x], clock)
    BY DEF CooldownInv
  <2>2. CASE /\ x = k /\ psState' = Drop(psState, k)
             /\ k \in DOMAIN psState /\ Expired(psState[k], cleaner.now)
    <3>1. psState[k].last \in Option(Times) /\ psHits[k] \in Seq(PsHit)
      BY <2>2 DEF TypeOK, IsMap, PsEntry
    <3> QED
      BY <1>1, <1>2, <2>1, <2>2, <3>1, DropRemembered
  <2>3. CASE x # k /\ psState' = Drop(psState, k)
    BY <2>1, <2>3, DropLast DEF Remembered
  <2>4. CASE psState' = psState
    BY <2>1, <2>4
  <2> QED
    BY <2>2, <2>3, <2>4 DEF Retain
<1>5. clock' = clock /\ bfHits' = bfHits /\ psHits' = psHits
  BY DEF Retain
<1> QED
  BY <1>3, <1>4, <1>5 DEF CooldownInv, CooldownHolds

LEMMA StepCools ==
  ASSUME DetectionAssumption, TypeOK, ReadingInv, CooldownInv, CooldownHolds,
         [Next]_vars
  PROVE  (CooldownInv /\ CooldownHolds)'
<1>1. CASE Tick
  <2>1. /\ clock' = clock + 1 /\ clock \in Int /\ StateTTL \in Nat
        /\ bfState' = bfState /\ bfHits' = bfHits
        /\ psState' = psState /\ psHits' = psHits
    BY <1>1 DEF Tick, TypeOK, Times, DetectionAssumption
  <2>2. /\ \A x \in BfHit : x.at \in Int
        /\ \A x \in PsHit : x.at \in Int
    BY DEF BfHit, PsHit, Times
  <2>3. ASSUME NEW k \in Keys
        PROVE  Remembered(bfState, k, bfHits[k], clock + 1)
    <3>1. bfHits[k] \in Seq(BfHit) /\ Remembered(bfState, k, bfHits[k], clock)
      BY DEF TypeOK, CooldownInv
    <3> QED
      BY <2>1, <2>2, <3>1, LaterRemembered
  <2>4. ASSUME NEW s \in Sources
        PROVE  Remembered(psState, s, psHits[s], clock + 1)
    <3>1. psHits[s] \in Seq(PsHit) /\ Remembered(psState, s, psHits[s], clock)
      BY DEF TypeOK, CooldownInv
    <3> QED
      BY <2>1, <2>2, <3>1, LaterRemembered
  <2> QED
    BY <2>1, <2>3, <2>4 DEF CooldownInv, CooldownHolds
<1>2. ASSUME NEW t \in Threads, Evaluate(t)
      PROVE  (CooldownInv /\ CooldownHolds)'
  <2>1. CASE UpdateBruteforce(t)
    BY <2>1, BfUpdateCools
  <2>2. CASE UpdatePortscan(t)
    BY <2>2, PsUpdateCools
  <2>3. ASSUME ~UpdateBruteforce(t), ~UpdatePortscan(t)
        PROVE  UNCHANGED <<clock, bfState, psState, bfHits, psHits>>
    BY <1>2, <2>3 DEF Evaluate, StartBruteforce, StartPortscan
  <2> QED
    BY <2>1, <2>2, <2>3 DEF CooldownInv, CooldownHolds
<1>3. ASSUME NEW k \in Keys \cup Sources, Retain(k)
      PROVE  (CooldownInv /\ CooldownHolds)'
  BY <1>3, RetainCools
<1>4. CASE Wake \/ CountEntries \/ CountRemoved \/ UNCHANGED vars
  <2>1. UNCHANGED <<clock, bfState, psState, bfHits, psHits>>
    BY <1>4 DEF Wake, CountEntries, CountRemoved, vars
  <2> QED
    BY <2>1 DEF CooldownInv, CooldownHolds
<1> QED
  BY <1>1, <1>2, <1>3, <1>4 DEF Next, Cleanup, CleanupStep

\* For every threshold, window and cooldown, however calls with stale readings
\* and the cleanup interleave: two alerts for a key, or for a source, are
\* further apart than the cooldown.
THEOREM CooldownsHold == Spec => []CooldownHolds
<1> DEFINE Inv == TypeOK /\ ReadingInv /\ CooldownInv /\ CooldownHolds
<1>1. Init => Inv
  <2>1. ASSUME Init
        PROVE  ReadingInv /\ CooldownInv /\ CooldownHolds
    BY <2>1 DEF Init, Asleep, ReadingInv, CooldownInv, CooldownHolds, Remembered, Spaced
  <2> QED
    BY <2>1, InitTyped, DetectionAssumption
<1>2. Inv /\ [Next]_vars => Inv'
  BY StepTyped, StepReads, StepCools, DetectionAssumption
<1> QED BY <1>1, <1>2, PTL DEF Spec
-----------------------------------------------------------------------------
(* The ports are true.                                                     *)

\* The ports of the last n hits of h are those in e, and the hits one window.
PortsOf(h, n, e) ==
  /\ OneWindow(h, n, e.start, PortScanWindow)
  /\ e.ports = {AsU16(h[i].port) : i \in Latest(h, n)}

LEMMA WithinWindow ==
  ASSUME NEW now \in Int, NEW start \in Int, NEW w \in Int, ~WindowOver(now, start, w)
  PROVE  now <= start + w
BY DEF WindowOver

LEMMA LongerIndex ==
  ASSUME NEW H, NEW h \in Seq(H), NEW x \in H, NEW n \in 1..Len(h)
  PROVE  n \in Nat /\ n + 1 \in 1..Len(Append(h, x))
<1>1. Len(h) \in Nat /\ Len(Append(h, x)) = Len(h) + 1
  BY AppendProperties, LenProperties
<1> QED
  BY <1>1

AllPorts(m, hits) ==
  \A s \in DOMAIN m : \E n \in 1..Len(hits[s]) : PortsOf(hits[s], n, m[s])

LEMMA PortsAsLemma ==
  PortsAreTruthful <=> AllPorts(psState, psHits)
BY DEF PortsAreTruthful, AllPorts, PortsOf

LEMMA NewPorts ==
  ASSUME PortScanWindow \in Nat, NEW h \in Seq(PsHit), NEW hit \in PsHit, NEW e,
         e.start = hit.at, e.ports = {AsU16(hit.port)}
  PROVE  PortsOf(Append(h, hit), 1, e)
<1>1. OneWindow(Append(h, hit), 1, e.start, PortScanWindow)
  <2>1. \A x \in PsHit : x.at \in Int
    BY DEF PsHit, Times
  <2> QED
    BY <2>1, NewWindow
<1>2. /\ Len(Append(h, hit)) = Len(h) + 1 /\ Len(h) \in Nat
      /\ Append(h, hit)[Len(h) + 1] = hit
  BY AppendProperties, LenProperties
<1>3. Latest(Append(h, hit), 1) = {Len(h) + 1}
  BY <1>2 DEF Latest
<1> QED
  BY <1>1, <1>2, <1>3 DEF PortsOf

LEMMA MorePorts ==
  ASSUME PortScanWindow \in Nat, NEW h \in Seq(PsHit), NEW hit \in PsHit,
         NEW n \in Nat, NEW e, NEW new, PortsOf(h, n, e),
         hit.at <= e.start + PortScanWindow,
         new.start = e.start, new.ports = e.ports \cup {AsU16(hit.port)}
  PROVE  PortsOf(Append(h, hit), n + 1, new)
<1>1. OneWindow(Append(h, hit), n + 1, new.start, PortScanWindow)
  BY LongerWindow DEF PortsOf
<1>2. /\ Len(Append(h, hit)) = Len(h) + 1
      /\ \A i \in 1..Len(h) : Append(h, hit)[i] = h[i]
      /\ Append(h, hit)[Len(h) + 1] = hit
      /\ Len(h) \in Nat /\ n \in 1..Len(h)
  BY AppendProperties, LenProperties DEF PortsOf, OneWindow
<1>3. /\ Latest(Append(h, hit), n + 1) = Latest(h, n) \cup {Len(h) + 1}
      /\ Latest(h, n) \subseteq 1..Len(h)
  BY <1>2 DEF Latest
<1>4. {AsU16(Append(h, hit)[i].port) : i \in Latest(h, n)} = e.ports
  <2>1. \A i \in Latest(h, n) : Append(h, hit)[i] = h[i]
    BY <1>2, <1>3
  <2> QED
    BY <2>1 DEF PortsOf
<1>5. {AsU16(Append(h, hit)[i].port) : i \in Latest(Append(h, hit), n + 1)}
        = e.ports \cup {AsU16(hit.port)}
  BY <1>2, <1>3, <1>4
<1> QED
  BY <1>1, <1>5 DEF PortsOf

LEMMA PortUpdate ==
  ASSUME DetectionAssumption, PortScanWindow \in Nat, TypeOK, AllPorts(psState, psHits),
         NEW t \in Threads, UpdatePortscan(t)
  PROVE  AllPorts(psState', psHits')
<1>1. PICK s \in Sources, p \in Ports, now \in Times, e \in PsEntry, hit \in PsHit :
        PsEffect(t, s, p, now, e, hit)
  BY PsUpdate
<1>2. hit.at = now /\ hit.port = p /\ now \in Int
  BY <1>1 DEF PsEffect, Times
<1>3. /\ psHits'[s] = Append(psHits[s], hit) /\ psHits[s] \in Seq(PsHit)
      /\ \A x \in Sources : x # s => psHits'[x] = psHits[x]
  BY <1>1 DEF PsEffect, TypeOK
<1>4. /\ DOMAIN psState' = DOMAIN psState \cup {s}
      /\ psState'[s] = e
      /\ \A x \in DOMAIN psState : x # s => psState'[x] = psState[x]
  <2>1. /\ DOMAIN Put(psState, s, e) = DOMAIN psState \cup {s}
        /\ Put(psState, s, e)[s] = e
        /\ \A x \in DOMAIN psState : x # s => Put(psState, s, e)[x] = psState[x]
    BY DEF Put
  <2> QED
    BY <1>1, <2>1 DEF PsEffect
<1>5. \E n \in 1..Len(psHits'[s]) : PortsOf(psHits'[s], n, e)
  <2>1. CASE s \in DOMAIN psState /\ ~WindowOver(now, psState[s].start, PortScanWindow)
    <3>1. PICK n \in 1..Len(psHits[s]) : PortsOf(psHits[s], n, psState[s])
      BY <2>1 DEF AllPorts
    <3>2. /\ e.start = psState[s].start
          /\ e.ports = psState[s].ports \cup {AsU16(p)}
      BY <1>1, <2>1 DEF PsEffect
    <3>3. psState[s].start \in Int
      BY <2>1 DEF TypeOK, IsMap, PsEntry, Times
    <3>4. hit.at <= psState[s].start + PortScanWindow
      BY <1>2, <2>1, <3>3, WithinWindow
    <3>5. n \in Nat /\ n + 1 \in 1..Len(Append(psHits[s], hit))
      BY <1>3, <3>1, LongerIndex
    <3>6. PortsOf(Append(psHits[s], hit), n + 1, e)
      BY <1>2, <1>3, <3>1, <3>2, <3>4, <3>5, MorePorts
    <3> QED
      BY <1>3, <3>5, <3>6
  <2>2. CASE ~(s \in DOMAIN psState /\ ~WindowOver(now, psState[s].start, PortScanWindow))
    <3>1. e.start = now /\ e.ports = {AsU16(p)}
      BY <1>1, <2>2 DEF PsEffect
    <3>2. 1 \in 1..Len(Append(psHits[s], hit))
      BY <1>3, AppendProperties, LenProperties
    <3>3. PortsOf(Append(psHits[s], hit), 1, e)
      BY <1>2, <1>3, <3>1, NewPorts
    <3> QED
      BY <1>3, <3>2, <3>3
  <2> QED
    BY <2>1, <2>2
<1>6. ASSUME NEW x \in DOMAIN psState'
      PROVE  \E n \in 1..Len(psHits'[x]) : PortsOf(psHits'[x], n, psState'[x])
  <2>1. CASE x = s
    BY <1>4, <1>5, <2>1
  <2>2. CASE x # s
    <3>1. x \in DOMAIN psState /\ x \in Sources
      BY <1>4, <2>2 DEF TypeOK, IsMap
    <3> QED
      BY <1>3, <1>4, <2>2, <3>1 DEF AllPorts
  <2> QED
    BY <2>1, <2>2
<1> QED
  BY <1>6 DEF AllPorts

LEMMA StepPorts ==
  ASSUME DetectionAssumption, PortScanWindow \in Nat, TypeOK, AllPorts(psState, psHits),
         [Next]_vars
  PROVE  AllPorts(psState', psHits')
<1>1. ASSUME NEW t \in Threads, Evaluate(t)
      PROVE  AllPorts(psState', psHits')
  <2>1. CASE UpdatePortscan(t)
    BY <2>1, PortUpdate
  <2>2. ASSUME ~UpdatePortscan(t)
        PROVE  psState' = psState /\ psHits' = psHits
    BY <1>1, <2>2 DEF Evaluate, StartBruteforce, StartPortscan, UpdateBruteforce
  <2> QED BY <2>1, <2>2
<1>2. ASSUME NEW k, Retain(k)
      PROVE  AllPorts(psState', psHits')
  <2>1. /\ DOMAIN Drop(psState, k) = DOMAIN psState \ {k}
        /\ \A x \in DOMAIN Drop(psState, k) : Drop(psState, k)[x] = psState[x]
    BY DEF Drop
  <2>2. /\ DOMAIN psState' \subseteq DOMAIN psState
        /\ \A x \in DOMAIN psState' : psState'[x] = psState[x]
    BY <1>2, <2>1 DEF Retain
  <2> QED BY <1>2, <2>2 DEF Retain, AllPorts
<1>3. CASE Tick \/ Wake \/ CountEntries \/ CountRemoved \/ UNCHANGED vars
  BY <1>3 DEF Tick, Wake, CountEntries, CountRemoved, vars
<1> QED
  BY <1>1, <1>2, <1>3 DEF Next, Cleanup, CleanupStep

\* For every window that is not negative: the ports of a source's entry are
\* those of its latest hits that lie in one window, each cut to 16 bits.
THEOREM PortsStayTruthful ==
  ASSUME PortScanWindow \in Nat
  PROVE  Spec => []PortsAreTruthful
<1>1. Init => TypeOK /\ PortsAreTruthful
  <2>1. Init => PortsAreTruthful
    BY DEF Init, PortsAreTruthful
  <2> QED BY <2>1, InitTyped, DetectionAssumption
<1>2. TypeOK /\ PortsAreTruthful /\ [Next]_vars => (TypeOK /\ PortsAreTruthful)'
  <2>1. (PortsAreTruthful <=> AllPorts(psState, psHits))'
    BY PortsAsLemma, PTL
  <2> QED
    BY <2>1, PortsAsLemma, StepTyped, StepPorts, DetectionAssumption
<1> QED BY <1>1, <1>2, PTL DEF Spec

-----------------------------------------------------------------------------
(* An entry moves forward.                                                 *)

\* No step moves an entry's start_time or last_alert back, however old the
\* reading is with which a call updates it.
Forward ==
  \A k \in Keys :
    k \in DOMAIN bfState /\ k \in DOMAIN bfState' =>
      /\ bfState[k].start <= bfState'[k].start
      /\ \A ts \in bfState[k].last : \E ts2 \in bfState'[k].last : ts <= ts2

LEMMA StepForward ==
  ASSUME DetectionAssumption, AuthWindow \in Nat, TypeOK, [Next]_vars
  PROVE  Forward
<1>1. ASSUME NEW k \in DOMAIN bfState
      PROVE  /\ bfState[k].start \in Int /\ bfState[k].last \subseteq Int
  <2>1. bfState[k] \in BfEntry
    BY DEF TypeOK, IsMap
  <2>2. bfState[k].start \in Times /\ bfState[k].last \in Option(Times)
    BY <2>1 DEF BfEntry
  <2>3. MaxTime \in Nat
    BY DEF DetectionAssumption
  <2> QED
    BY <2>2, <2>3 DEF Option, Times
<1>2. ASSUME \A k \in DOMAIN bfState' : k \in DOMAIN bfState => bfState'[k] = bfState[k]
      PROVE  Forward
  <2>1. ASSUME NEW k \in DOMAIN bfState, NEW ts \in bfState[k].last
        PROVE  ts <= ts /\ bfState[k].start <= bfState[k].start
    BY <1>1
  <2>2. \A k \in DOMAIN bfState : bfState[k].start <= bfState[k].start
    BY <1>1
  <2> QED
    BY <1>2, <2>1, <2>2 DEF Forward
<1>3. ASSUME NEW t \in Threads, UpdateBruteforce(t)
      PROVE  Forward
  <2>1. PICK k \in Keys, now \in Times :
          /\ call[t] = [kind |-> "bf", key |-> k, now |-> now]
          /\ bfState' = Put(bfState, k, BfNew(k, now))
          /\ bfHits' = [bfHits EXCEPT ![k] =
                          Append(@, [at |-> now, alert |-> BfAlert(k, now)])]
          /\ BfOld(k, now) \in [count : Nat, start : Times, last : Option(Times)]
          /\ BfNew(k, now) \in BfEntry
          /\ BfAlert(k, now) \in BOOLEAN
    BY <1>3, BfUpdate
  <2>2. /\ bfState'[k] = BfNew(k, now)
        /\ \A x \in DOMAIN bfState : x # k => bfState'[x] = bfState[x]
    BY <2>1 DEF Put
  <2>3. CASE k \in DOMAIN bfState
    <3>1. BfOld(k, now) = bfState[k] /\ now \in Int /\ AuthCooldown \in Nat
      BY <2>1, <2>3 DEF BfOld, Times, DetectionAssumption
    <3>2. bfState[k].start <= BfNew(k, now).start
      BY <1>1, <2>3, <3>1 DEF BfNew, StartOf, BfOver, WindowOver
    <3>3. ASSUME NEW ts \in bfState[k].last
          PROVE  \E ts2 \in BfNew(k, now).last : ts <= ts2
      <4>1. ts \in Int
        BY <1>1, <2>3
      <4>2. CASE BfAlert(k, now)
        <5>1. now - ts > AuthCooldown
          BY <3>1, <3>3, <4>2 DEF BfAlert, CooldownOver
        <5>2. BfNew(k, now).last = {now}
          BY <4>2 DEF BfNew
        <5> QED
          BY <3>1, <4>1, <5>1, <5>2
      <4>3. CASE ~BfAlert(k, now)
        <5>1. BfNew(k, now).last = bfState[k].last
          BY <3>1, <4>3 DEF BfNew
        <5>2. ts <= ts
          BY <4>1
        <5> QED
          BY <5>1, <5>2
      <4> QED
        BY <4>2, <4>3
    <3>4. ASSUME NEW x \in DOMAIN bfState, x # k
          PROVE  /\ bfState[x].start <= bfState'[x].start
                 /\ \A ts \in bfState[x].last : \E ts2 \in bfState'[x].last : ts <= ts2
      <4>1. bfState'[x] = bfState[x]
        BY <2>2, <3>4
      <4>2. bfState[x].start <= bfState[x].start
        BY <1>1
      <4>3. \A ts \in bfState[x].last : ts <= ts
        BY <1>1
      <4> QED
        BY <4>1, <4>2, <4>3
    <3> QED
      BY <2>2, <3>2, <3>3, <3>4 DEF Forward
  <2>4. CASE k \notin DOMAIN bfState
    BY <1>2, <2>2, <2>4
  <2> QED
    BY <2>3, <2>4
<1>4. ASSUME NEW k, Retain(k)
      PROVE  Forward
  <2>1. \A x \in DOMAIN Drop(bfState, k) : Drop(bfState, k)[x] = bfState[x]
    BY DEF Drop
  <2>2. \A x \in DOMAIN bfState' : bfState'[x] = bfState[x]
    BY <1>4, <2>1 DEF Retain
  <2> QED
    BY <1>2, <2>2
<1>5. CASE bfState' = bfState
  BY <1>2, <1>5
<1>6. \/ bfState' = bfState
      \/ \E t \in Threads : UpdateBruteforce(t)
      \/ \E k : Retain(k)
  BY DEF Next, Cleanup, CleanupStep, Evaluate, Tick, Wake, CountEntries, CountRemoved,
         StartBruteforce, StartPortscan, UpdatePortscan, vars
<1> QED
  BY <1>3, <1>4, <1>5, <1>6

\* For every window that is not negative: a brute-force entry's window and
\* last alert only move forward while the entry lives.
THEOREM EntriesMoveForward ==
  ASSUME AuthWindow \in Nat
  PROVE  Spec => EntryMovesForward
<1>1. TypeOK /\ [Next]_vars => [Forward]_vars
  BY StepForward, DetectionAssumption
<1> QED
  BY <1>1, TypeCorrect, PTL DEF Spec, EntryMovesForward, Forward

-----------------------------------------------------------------------------
(* No burst is missed.                                                     *)

\* The hits of h from i on are within span and nothing has come of them.
Unnoticed(h, i, span, cooldown) ==
  Burst(h, i, Len(h), span) /\ ~Noticed(h, i, Len(h), cooldown)

\* The entry's window was opened by hit j.  If that was before hit i, few hits
\* have come from i on.  If not, few have come from j on, and few were forgotten
\* between i and j: by a window that rolled over if at most p, otherwise by a
\* deletion before j as well, and the entry knows of no alert.
Behind(h, i, j, last, p, v) ==
  \/ j < i /\ Len(h) - i + 1 <= p
  \/ /\ i <= j
     /\ Len(h) - j + 1 <= v
     /\ j - i <= p \/ (last = {} /\ j - i <= p + v)

\* The entry has been deleted after few hits, or so late that no hit to come is
\* within span of those from i on.
Forgotten(h, i, c, span, p, v) ==
  \/ Len(h) - i + 1 <= p + v
  \/ /\ Len(h) - i + 1 <= p + v + v
     /\ \E x \in i..Len(h) : c - h[x].at > span + MaxStall

\* Every alert time in an entry is that of an alert in the history.
FromAlerts(last, h) == \A ts \in last : \E a \in DOMAIN h : h[a].alert /\ h[a].at = ts

\* What a hit adds to a history.
LEMMA OneMoreHit ==
  ASSUME NEW H, \A x \in H : x.at \in Int /\ x.alert \in BOOLEAN,
         NEW h \in Seq(H), NEW hit \in H
  PROVE  LET h2 == Append(h, hit)
         IN /\ Len(h) \in Nat /\ Len(h2) = Len(h) + 1
            /\ DOMAIN h = 1..Len(h) /\ DOMAIN h2 = 1..Len(h) + 1
            /\ \A x \in 1..Len(h) : h2[x] = h[x] /\ h[x].at \in Int /\ h[x].alert \in BOOLEAN
            /\ h2[Len(h) + 1] = hit
<1> DEFINE h2 == Append(h, hit)
<1>1. /\ DOMAIN h = 1..Len(h) /\ DOMAIN h2 = 1..Len(h) + 1
      /\ Len(h) \in Nat /\ Len(h2) = Len(h) + 1
      /\ \A i \in 1..Len(h) : h2[i] = h[i] /\ h[i] \in H
      /\ h2[Len(h) + 1] = hit
  BY AppendProperties, LenProperties, ElementOfSeq
<1> HIDE DEF h2
<1>2. \A i \in 1..Len(h) : h[i].at \in Int /\ h[i].alert \in BOOLEAN
  BY <1>1
<1> QED
  BY <1>1, <1>2 DEF h2

\* A hit that raises an alert, or would but for the cooldown, is noticed, and
\* with it every burst that it ends.
LEMMA HitIsNoticed ==
  ASSUME NEW H, \A x \in H : x.at \in Int /\ x.alert \in BOOLEAN,
         NEW h \in Seq(H), NEW hit \in H,
         NEW last, FromAlerts(last, h), NEW cooldown \in Nat,
         hit.alert \/ ~CooldownOver(hit.at, last, cooldown)
  PROVE  \A i \in 1..Len(h) + 1 : Noticed(Append(h, hit), i, Len(h) + 1, cooldown)
<1> DEFINE h2 == Append(h, hit)
           n2 == Len(h) + 1
<1>1. /\ Len(h) \in Nat /\ Len(h2) = Len(h) + 1
      /\ DOMAIN h = 1..Len(h) /\ DOMAIN h2 = 1..Len(h) + 1
      /\ \A x \in 1..Len(h) : h2[x] = h[x] /\ h[x].at \in Int /\ h[x].alert \in BOOLEAN
      /\ h2[n2] = hit
  BY OneMoreHit
<1>2. hit.at \in Int
  OBVIOUS
<1> HIDE DEF h2
<1>3. \E a \in 1..n2 : h2[a].alert /\ h2[n2].at - h2[a].at <= cooldown
  <2>1. CASE hit.alert
    <3>1. n2 \in 1..n2 /\ hit.at - hit.at <= cooldown
      BY <1>1, <1>2
    <3> QED
      BY <1>1, <2>1, <3>1
  <2>2. CASE ~CooldownOver(hit.at, last, cooldown)
    <3>1. PICK ts \in last : ~(hit.at - ts > cooldown)
      BY <2>2 DEF CooldownOver
    <3>2. PICK a \in 1..Len(h) : h[a].alert /\ h[a].at = ts
      BY <1>1, <3>1 DEF FromAlerts
    <3>3. h2[a] = h[a] /\ ts \in Int /\ a \in 1..n2
      BY <1>1, <3>2
    <3>4. hit.at - ts <= cooldown
      BY <1>2, <3>1, <3>3
    <3> QED
      BY <1>1, <3>2, <3>3, <3>4
  <2> QED
    BY <2>1, <2>2
<1>4. \A i \in 1..n2 : n2 \in i..n2
  BY <1>1
<1>5. \A i \in 1..n2 : Noticed(h2, i, n2, cooldown)
  BY <1>3, <1>4 DEF Noticed
<1> QED
  BY <1>5 DEF h2

\* A burst that a hit continues was one before, and the hit is within a window
\* of all of it.
LEMMA BurstGoesOn ==
  ASSUME NEW H, \A x \in H : x.at \in Int /\ x.alert \in BOOLEAN,
         NEW h \in Seq(H), NEW hit \in H,
         NEW window \in Int, NEW cooldown \in Nat,
         NEW i \in 1..Len(h) + 1,
         Unnoticed(Append(h, hit), i, window, cooldown)
  PROVE  /\ Unnoticed(h, i, window, cooldown)
         /\ \A x \in i..Len(h) : hit.at - h[x].at <= window
<1> DEFINE h2 == Append(h, hit)
           n2 == Len(h) + 1
<1>1. /\ Len(h) \in Nat /\ Len(h2) = n2
      /\ \A x \in 1..Len(h) : h2[x] = h[x]
      /\ h2[n2] = hit
  BY OneMoreHit
<1> HIDE DEF h2
<1>2. /\ Burst(h2, i, n2, window)
      /\ ~Noticed(h2, i, n2, cooldown)
  BY <1>1 DEF Unnoticed, h2
<1>3. n2 \in i..n2 /\ \A x \in i..Len(h) : x \in i..n2 /\ x \in 1..Len(h)
  BY <1>1
<1>4. \A x \in i..Len(h) : \A a \in 1..x : a \in 1..Len(h)
  BY <1>1
<1>5. Burst(h, i, Len(h), window)
  BY <1>1, <1>2, <1>3 DEF Burst
<1>6. ~Noticed(h, i, Len(h), cooldown)
  BY <1>1, <1>2, <1>3, <1>4 DEF Noticed
<1>7. \A x \in i..Len(h) : hit.at - h[x].at <= window
  BY <1>1, <1>2, <1>3 DEF Burst
<1> QED
  BY <1>5, <1>6, <1>7 DEF Unnoticed

\* Sums of times that are apart.
LEMMA Apart ==
  /\ \A a, b, span, window \in Int : a - b <= span /\ span <= window => a - b <= window
  /\ \A a, b, c, span, stall \in Int :
       a - b <= span /\ c - a <= stall => ~(c - b > span + stall)
OBVIOUS

\* A hit on an entry that is there: the window goes on, or a new one opens, and
\* then the old one was opened before the burst.
LEMMA HitBehind ==
  ASSUME NEW H, \A x \in H : x.at \in Int /\ x.alert \in BOOLEAN,
         NEW h \in Seq(H), NEW hit \in H,
         NEW window \in Int, NEW span \in Int, span <= window, NEW cooldown \in Nat,
         NEW i \in 1..Len(h) + 1, NEW j \in 1..Len(h),
         NEW last, NEW last2, NEW p \in Nat, NEW v \in Nat,
         Unnoticed(Append(h, hit), i, span, cooldown),
         Behind(h, i, j, last, p, v),
         last2 = last,
         NEW j2 \in 1..Len(h) + 1,
         IF WindowOver(hit.at, h[j].at, window) THEN j2 = Len(h) + 1 ELSE j2 = j,
         j2 < i => Len(h) + 1 - i + 1 <= p,
         i <= j2 => Len(h) + 1 - j2 + 1 <= v
  PROVE  Behind(Append(h, hit), i, j2, last2, p, v)
<1>1. Len(h) \in Nat /\ Len(Append(h, hit)) = Len(h) + 1 /\ h[j].at \in Int /\ hit.at \in Int
  BY OneMoreHit
<1>2. \A x \in i..Len(h) : hit.at - h[x].at <= window
  <2>1. \A x \in i..Len(h) : hit.at - h[x].at <= span
    BY BurstGoesOn
  <2>2. \A x \in i..Len(h) : x \in 1..Len(h)
    BY <1>1
  <2>3. \A x \in i..Len(h) : h[x].at \in Int
    BY <2>2, OneMoreHit
  <2> QED
    BY <1>1, <2>1, <2>3, Apart
<1>3. CASE WindowOver(hit.at, h[j].at, window)
  <2>1. j < i
    <3>1. ~(hit.at - h[j].at <= window)
      BY <1>1, <1>3 DEF WindowOver
    <3>2. j \notin i..Len(h)
      BY <1>2, <3>1
    <3> QED
      BY <1>1, <3>2
  <2>2. Len(h) - i + 1 <= p
    BY <1>1, <2>1 DEF Behind
  <2>3. j2 = Len(h) + 1 /\ j2 - i <= p
    BY <1>1, <1>3, <2>2
  <2> QED
    BY <1>1, <2>3 DEF Behind
<1>4. CASE ~WindowOver(hit.at, h[j].at, window)
  BY <1>1, <1>4 DEF Behind
<1> QED
  BY <1>3, <1>4

\* A hit on an entry that is not there: the first one of the window.
LEMMA HitAfterForgotten ==
  ASSUME NEW H, \A x \in H : x.at \in Int /\ x.alert \in BOOLEAN,
         NEW h \in Seq(H), NEW hit \in H,
         NEW window \in Int, NEW cooldown \in Nat,
         NEW i \in 1..Len(h) + 1, NEW p \in Nat, NEW v \in Nat,
         NEW c \in Int, MaxStall \in Nat, c - hit.at <= MaxStall,
         Unnoticed(Append(h, hit), i, window, cooldown),
         Forgotten(h, i, c, window, p, v),
         1 <= v
  PROVE  Behind(Append(h, hit), i, Len(h) + 1, {}, p, v)
<1>1. /\ Len(h) \in Nat /\ Len(Append(h, hit)) = Len(h) + 1 /\ hit.at \in Int
      /\ \A x \in 1..Len(h) : h[x].at \in Int
  BY OneMoreHit
<1>2. \A x \in i..Len(h) : hit.at - h[x].at <= window
  BY BurstGoesOn
<1>3. ASSUME NEW x \in i..Len(h), c - h[x].at > window + MaxStall
      PROVE  FALSE
  <2>1. h[x].at \in Int /\ hit.at - h[x].at <= window
    BY <1>1, <1>2
  <2>2. hit.at \in Int /\ MaxStall \in Int
    BY <1>1
  <2> QED
    BY <1>3, <2>1, <2>2, Apart
<1>4. Len(h) - i + 1 <= p + v
  BY <1>3 DEF Forgotten
<1>5. Len(h) + 1 - i <= p + v /\ i <= Len(h) + 1 /\ Len(h) + 1 - (Len(h) + 1) + 1 <= v
  BY <1>1, <1>4
<1> QED
  BY <1>1, <1>5 DEF Behind

\* The cleanup deletes an entry that has expired: if one deletion came before,
\* the entry has no alert, and the hit that opened its window is too old.
LEMMA DeletedBehind ==
  ASSUME NEW H, \A x \in H : x.at \in Int /\ x.alert \in BOOLEAN,
         NEW h \in Seq(H), NEW window \in Int,
         NEW i \in 1..Len(h) + 1, NEW j \in 1..Len(h),
         NEW e, e.start = h[j].at, NEW p \in Nat, NEW v \in Nat,
         NEW c \in Int, NEW now \in Int, now <= c,
         MaxStall \in Nat, StateTTL \in Nat, StateTTL > window + MaxStall,
         Expired(e, now),
         Behind(h, i, j, e.last, p, v)
  PROVE  Forgotten(h, i, c, window, p, v)
<1>1. Len(h) \in Nat /\ h[j].at \in Int
  BY LenProperties, ElementOfSeq
<1>2. CASE j < i /\ Len(h) - i + 1 <= p
  BY <1>1, <1>2 DEF Forgotten
<1>3. CASE i <= j /\ Len(h) - j + 1 <= v /\ j - i <= p
  BY <1>1, <1>3 DEF Forgotten
<1>4. CASE i <= j /\ Len(h) - j + 1 <= v /\ e.last = {} /\ j - i <= p + v
  <2>1. now - h[j].at >= StateTTL
    BY <1>4 DEF Expired, LastActivity
  <2>2. c - h[j].at > window + MaxStall
    BY <1>1, <2>1
  <2>3. j \in i..Len(h) /\ Len(h) - i + 1 <= p + v + v
    BY <1>1, <1>4
  <2> QED
    BY <2>2, <2>3 DEF Forgotten
<1> QED
  BY <1>2, <1>3, <1>4 DEF Behind

\* At no time are as many hits behind as make a burst.
LEMMA FewBehind ==
  ASSUME NEW h, Len(h) \in Nat, NEW i \in Nat, NEW j \in Nat,
         NEW last, NEW p \in Nat, NEW v \in Nat, Behind(h, i, j, last, p, v)
  PROVE  Len(h) - i + 1 <= p + v + v
BY DEF Behind

\* Indices of a history of n hits, and of one of n + 1.
LEMMA Indices ==
  ASSUME NEW n \in Nat
  PROVE  /\ n + 1..n = {}
         /\ \A j \in 1..n + 1 : j = n + 1 \/ j \in 1..n
OBVIOUS

LEMMA IndicesBetween ==
  ASSUME NEW n \in Nat, NEW i \in 1..n + 1, NEW j \in 1..n,
         NEW e \in Nat, e >= 1, j - i + 1 >= e
  PROVE  /\ i \in 1..n
         /\ \A x \in i..j : x \in 1..n /\ \A a \in 1..x : a \in 1..n
OBVIOUS

\* Fewer hits than the threshold since the window was opened, by hit j.
LEMMA CountBounds ==
  ASSUME NEW n \in Nat, NEW i \in 1..n + 1, NEW j \in 1..n + 1,
         NEW p \in Nat, NEW v \in Nat, v = p + 1, n + 1 - j + 1 < v + 1
  PROVE  /\ j < i => n + 1 - i + 1 <= p
         /\ i <= j => n + 1 - j + 1 <= v
OBVIOUS

LEMMA CountBelow ==
  ASSUME NEW n \in Nat, NEW j \in 1..n + 1, NEW t \in Nat, ~(n + 1 - j + 1 >= t)
  PROVE  n + 1 - j + 1 < t
OBVIOUS

\* The window of the entry was opened by hit j of h.
BfOpened(e, h, j) ==
  /\ j \in 1..Len(h)
  /\ e.start = h[j].at
  /\ e.count = Len(h) - j + 1

\* What the entry of key k in m knows of every burst in k's history h.
BurstTracked(m, k, h, c) ==
  \A i \in 1..Len(h) + 1 : Unnoticed(h, i, Span(AuthWindow), AuthCooldown) =>
    IF k \in DOMAIN m
      THEN \E j \in 1..Len(h) :
             /\ BfOpened(m[k], h, j)
             /\ Behind(h, i, j, m[k].last, AuthThreshold - 2, AuthThreshold - 1)
      ELSE Forgotten(h, i, c, Span(AuthWindow), AuthThreshold - 2, AuthThreshold - 1)

BurstInv ==
  \A k \in Keys :
    /\ FromAlerts(OldLast(bfState, k), bfHits[k])
    /\ AuthThreshold >= 2 => BurstTracked(bfState, k, bfHits[k], clock)

BurstsNoticed(h) ==
  \A i, j \in DOMAIN h :
    j - i + 1 >= Enough(AuthThreshold) /\ Burst(h, i, j, Span(AuthWindow))
      => Noticed(h, i, j, AuthCooldown)

LEMMA BurstNumbers ==
  ASSUME DetectionAssumption
  PROVE  /\ AuthThreshold \in Nat /\ AuthWindow \in Int /\ AuthCooldown \in Nat
         /\ MaxStall \in Nat /\ StateTTL \in Nat
         /\ Span(AuthWindow) \in Int /\ Span(AuthWindow) <= AuthWindow
         /\ StateTTL > Span(AuthWindow) + MaxStall
         /\ \A x \in BfHit : x.at \in Int /\ x.alert \in BOOLEAN
<1>1. U32 \in Nat \ {0} /\ AuthMaxAttempts \in Int
  BY DEF DetectionAssumption
<1>2. AuthThreshold \in Nat
  BY <1>1 DEF AuthThreshold
<1>3. /\ Span(AuthWindow) \in Int /\ Span(AuthWindow) <= AuthWindow
      /\ StateTTL > Span(AuthWindow) + MaxStall
  BY DEF DetectionAssumption, Span
<1> QED
  BY <1>2, <1>3 DEF DetectionAssumption, BfHit, Times

LEMMA BoundNumbers ==
  ASSUME DetectionAssumption, AuthThreshold >= 2
  PROVE  AuthThreshold - 2 \in Nat /\ AuthThreshold - 1 \in Nat
<1>1. AuthThreshold \in Nat
  BY BurstNumbers
<1> QED
  BY <1>1

\* A hit updates the last alert with its own.
LEMMA HitFromAlerts ==
  ASSUME NEW H, \A x \in H : x.at \in Int /\ x.alert \in BOOLEAN,
         NEW h \in Seq(H), NEW hit \in H, NEW last, FromAlerts(last, h),
         NEW last2, last2 = IF hit.alert THEN {hit.at} ELSE last
  PROVE  FromAlerts(last2, Append(h, hit))
<1> DEFINE h2 == Append(h, hit)
<1>1. /\ Len(h) \in Nat
      /\ DOMAIN h = 1..Len(h) /\ DOMAIN h2 = 1..Len(h) + 1
      /\ \A x \in 1..Len(h) : h2[x] = h[x]
      /\ h2[Len(h) + 1] = hit
  BY OneMoreHit
<1> HIDE DEF h2
<1>2. Len(h) + 1 \in DOMAIN h2 /\ \A a \in DOMAIN h : a \in DOMAIN h2
  BY <1>1
<1>3. FromAlerts(last2, h2)
  BY <1>1, <1>2 DEF FromAlerts
<1> QED
  BY <1>3 DEF h2

\* What a hit makes of the entry of k in m.
HitEffect(m, m2, k, hit) ==
  /\ k \in DOMAIN m2
  /\ IF k \in DOMAIN m /\ ~WindowOver(hit.at, m[k].start, AuthWindow)
       THEN m2[k].start = m[k].start /\ m2[k].count = m[k].count + 1
       ELSE m2[k].start = hit.at /\ m2[k].count = 1
  /\ m2[k].last = IF hit.alert THEN {hit.at} ELSE OldLast(m, k)
  /\ hit.alert <=> /\ m2[k].count >= AuthThreshold
                   /\ CooldownOver(hit.at, OldLast(m, k), AuthCooldown)

\* A hit opens a window, or goes on with the one there is.
LEMMA HitOpens ==
  ASSUME NEW h \in Seq(BfHit), NEW hit \in BfHit, AuthWindow \in Int,
         \A x \in BfHit : x.at \in Int /\ x.alert \in BOOLEAN,
         NEW m, NEW m2, NEW k, HitEffect(m, m2, k, hit)
  PROVE  /\ k \notin DOMAIN m => BfOpened(m2[k], Append(h, hit), Len(h) + 1)
         /\ \A j : k \in DOMAIN m /\ BfOpened(m[k], h, j) =>
              BfOpened(m2[k], Append(h, hit),
                       IF WindowOver(hit.at, h[j].at, AuthWindow) THEN Len(h) + 1 ELSE j)
<1> DEFINE h2 == Append(h, hit)
<1>1. /\ Len(h) \in Nat /\ Len(h2) = Len(h) + 1
      /\ \A x \in 1..Len(h) : h2[x] = h[x]
      /\ h2[Len(h) + 1] = hit
  BY OneMoreHit
<1> HIDE DEF h2
<1>2. Len(h) + 1 \in 1..Len(h) + 1 /\ Len(h) + 1 - (Len(h) + 1) + 1 = 1
  BY <1>1
<1>3. ASSUME m2[k].start = hit.at, m2[k].count = 1
      PROVE  BfOpened(m2[k], h2, Len(h) + 1)
  BY <1>1, <1>2, <1>3 DEF BfOpened
<1>4. k \notin DOMAIN m => BfOpened(m2[k], h2, Len(h) + 1)
  BY <1>3 DEF HitEffect
<1>5. ASSUME NEW j, k \in DOMAIN m, BfOpened(m[k], h, j)
      PROVE  BfOpened(m2[k], h2,
                      IF WindowOver(hit.at, h[j].at, AuthWindow) THEN Len(h) + 1 ELSE j)
  <2>1. j \in 1..Len(h) /\ m[k].start = h[j].at /\ m[k].count = Len(h) - j + 1
    BY <1>5 DEF BfOpened
  <2>2. CASE WindowOver(hit.at, h[j].at, AuthWindow)
    <3>1. BfOpened(m2[k], h2, Len(h) + 1)
      BY <1>3, <2>1, <2>2 DEF HitEffect
    <3> QED
      BY <2>2, <3>1
  <2>3. CASE ~WindowOver(hit.at, h[j].at, AuthWindow)
    <3>1. m2[k].start = h[j].at /\ m2[k].count = Len(h) - j + 1 + 1
      BY <1>5, <2>1, <2>3 DEF HitEffect
    <3>2. j \in 1..Len(h) + 1 /\ Len(h) - j + 1 + 1 = Len(h) + 1 - j + 1 /\ h2[j] = h[j]
      BY <1>1, <2>1
    <3>3. BfOpened(m2[k], h2, j)
      BY <1>1, <3>1, <3>2 DEF BfOpened
    <3> QED
      BY <2>3, <3>3
  <2> QED
    BY <2>2, <2>3
<1> QED
  BY <1>4, <1>5 DEF h2

\* After a hit the entry still knows of every burst.
LEMMA HitTracked ==
  ASSUME DetectionAssumption, AuthThreshold >= 2,
         NEW h \in Seq(BfHit), NEW hit \in BfHit,
         NEW m, NEW k, NEW c \in Int, c - hit.at <= MaxStall,
         FromAlerts(OldLast(m, k), h),
         BurstTracked(m, k, h, c),
         NEW m2, HitEffect(m, m2, k, hit)
  PROVE  BurstTracked(m2, k, Append(h, hit), c)
<1> DEFINE h2 == Append(h, hit)
           p  == AuthThreshold - 2
           v  == AuthThreshold - 1
<1>1. /\ Len(h) \in Nat /\ Len(h2) = Len(h) + 1
      /\ 1..Len(h2) = 1..Len(h) + 1 /\ 1..Len(h2) + 1 = 1..Len(h) + 2
      /\ Len(h) + 1 \in 1..Len(h) + 1 /\ Len(h) + 1..Len(h) = {}
  <2>1. Len(h) \in Nat /\ Len(h2) = Len(h) + 1
    BY BurstNumbers, OneMoreHit
  <2>2. Len(h) + 1..Len(h) = {}
    BY <2>1, Indices
  <2> HIDE DEF h2
  <2>3. Len(h2) + 1 = Len(h) + 2 /\ Len(h) + 1 \in 1..Len(h) + 1
    BY <2>1
  <2> QED
    BY <2>1, <2>2, <2>3
<1>2. AuthThreshold \in Nat /\ p \in Nat /\ v \in Nat /\ 1 <= v /\ v = p + 1 /\ AuthThreshold = v + 1
  <2>1. AuthThreshold \in Nat
    BY BurstNumbers
  <2> QED
    BY <2>1
<1> HIDE DEF h2, p, v
<1>3. /\ k \notin DOMAIN m => BfOpened(m2[k], h2, Len(h) + 1)
      /\ \A j : k \in DOMAIN m /\ BfOpened(m[k], h, j) =>
           BfOpened(m2[k], h2, IF WindowOver(hit.at, h[j].at, AuthWindow) THEN Len(h) + 1 ELSE j)
  BY BurstNumbers, HitOpens DEF h2
<1>4. ASSUME NEW i \in 1..Len(h) + 1, Unnoticed(h, i, Span(AuthWindow), AuthCooldown),
             k \in DOMAIN m
      PROVE  \E j \in 1..Len(h), j2 \in 1..Len(h) + 1 :
               /\ BfOpened(m2[k], h2, j2) /\ Behind(h, i, j, m[k].last, p, v)
               /\ IF WindowOver(hit.at, h[j].at, AuthWindow) THEN j2 = Len(h) + 1 ELSE j2 = j
  <2>1. PICK j \in 1..Len(h) : BfOpened(m[k], h, j) /\ Behind(h, i, j, m[k].last, p, v)
    BY <1>4 DEF BurstTracked, p, v
  <2>2. PICK j2 : j2 = IF WindowOver(hit.at, h[j].at, AuthWindow) THEN Len(h) + 1 ELSE j
    OBVIOUS
  <2>3. BfOpened(m2[k], h2, j2)
    BY <1>3, <1>4, <2>1, <2>2
  <2>4. j2 \in 1..Len(h) + 1
    BY <1>1, <2>3 DEF BfOpened
  <2> QED
    BY <2>1, <2>2, <2>3, <2>4
<1>5. ASSUME NEW i \in 1..Len(h) + 2, Unnoticed(h2, i, Span(AuthWindow), AuthCooldown)
      PROVE  \E j2 \in 1..Len(h) + 1 : BfOpened(m2[k], h2, j2) /\ Behind(h2, i, j2, m2[k].last, p, v)
  <2>1. CASE i = Len(h) + 2
    <3>1. Unnoticed(h, Len(h) + 1, Span(AuthWindow), AuthCooldown)
      BY <1>1 DEF Unnoticed, Burst, Noticed
    <3>2. PICK j2 \in 1..Len(h) + 1 : BfOpened(m2[k], h2, j2)
      BY <1>1, <1>3, <1>4, <3>1
    <3>3. Behind(h2, i, j2, m2[k].last, p, v)
      <4>1. j2 < i /\ Len(h2) - i + 1 <= p
        BY <1>1, <1>2, <2>1
      <4> QED
        BY <4>1 DEF Behind
    <3> QED
      BY <3>2, <3>3
  <2>2. CASE i \in 1..Len(h) + 1
    <3>1. ~Noticed(h2, i, Len(h) + 1, AuthCooldown)
      BY <1>1, <1>5 DEF Unnoticed
    <3>2. ~(hit.alert \/ ~CooldownOver(hit.at, OldLast(m, k), AuthCooldown))
      BY <2>2, <3>1, BurstNumbers, HitIsNoticed DEF h2
    <3>3. ~(m2[k].count >= AuthThreshold) /\ m2[k].last = OldLast(m, k)
      BY <3>2 DEF HitEffect
    <3>4. ASSUME NEW j2 \in 1..Len(h) + 1, BfOpened(m2[k], h2, j2)
          PROVE  /\ j2 < i => Len(h) + 1 - i + 1 <= p
                 /\ i <= j2 => Len(h) + 1 - j2 + 1 <= v
      <4>1. m2[k].count = Len(h) + 1 - j2 + 1
        <5>1. m2[k].count = Len(h2) - j2 + 1
          BY <3>4 DEF BfOpened
        <5>2. Len(h2) = Len(h) + 1
          BY <1>1
        <5> QED
          BY <5>1, <5>2
      <4>2. Len(h) + 1 - j2 + 1 < AuthThreshold
        <5>1. ~(Len(h) + 1 - j2 + 1 >= AuthThreshold)
          BY <3>3, <4>1
        <5>2. Len(h) \in Nat /\ AuthThreshold \in Nat
          BY <1>1, <1>2
        <5> QED
          BY <5>1, <5>2, CountBelow
      <4> QED
        BY <1>1, <1>2, <2>2, <4>2, CountBounds
    <3>5. Unnoticed(h, i, Span(AuthWindow), AuthCooldown)
      BY <1>5, <2>2, BurstNumbers, BurstGoesOn DEF h2
    <3>6. CASE k \in DOMAIN m
      <4>1. PICK j \in 1..Len(h), j2 \in 1..Len(h) + 1 :
              /\ BfOpened(m2[k], h2, j2) /\ Behind(h, i, j, m[k].last, p, v)
              /\ IF WindowOver(hit.at, h[j].at, AuthWindow) THEN j2 = Len(h) + 1 ELSE j2 = j
        BY <1>4, <2>2, <3>5, <3>6
      <4>2. m2[k].last = m[k].last
        BY <3>3, <3>6 DEF OldLast
      <4>3. /\ j2 < i => Len(h) + 1 - i + 1 <= p
            /\ i <= j2 => Len(h) + 1 - j2 + 1 <= v
        BY <3>4, <4>1
      <4>4. Behind(h2, i, j2, m2[k].last, p, v)
        BY <1>2, <1>5, <2>2, <4>1, <4>2, <4>3, BurstNumbers, HitBehind DEF h2
      <4> QED
        BY <4>1, <4>4
    <3>7. CASE k \notin DOMAIN m
      <4>1. m2[k].last = {}
        BY <3>3, <3>7 DEF OldLast
      <4>2. Forgotten(h, i, c, Span(AuthWindow), p, v)
        BY <2>2, <3>5, <3>7 DEF BurstTracked, p, v
      <4>3. Behind(h2, i, Len(h) + 1, {}, p, v)
        BY <1>2, <1>5, <2>2, <4>2, BurstNumbers, HitAfterForgotten DEF h2
      <4> QED
        BY <1>1, <1>3, <3>7, <4>1, <4>3
    <3> QED
      BY <3>6, <3>7
  <2>3. i = Len(h) + 2 \/ i \in 1..Len(h) + 1
    BY <1>1
  <2> QED
    BY <2>1, <2>2, <2>3
<1>6. k \in DOMAIN m2
  BY DEF HitEffect
<1>7. BurstTracked(m2, k, h2, c)
  BY <1>1, <1>5, <1>6 DEF BurstTracked, p, v
<1> QED
  BY <1>7 DEF h2

\* The bursts that a hit ends are noticed, the others were.
LEMMA HitBursts ==
  ASSUME DetectionAssumption,
         NEW h \in Seq(BfHit), NEW hit \in BfHit, BurstsNoticed(h),
         NEW m2, NEW k, k \in DOMAIN m2, NEW c,
         AuthThreshold >= 2 => BurstTracked(m2, k, Append(h, hit), c),
         AuthThreshold < 2 => \A i \in 1..Len(h) + 1 :
                                Noticed(Append(h, hit), i, Len(h) + 1, AuthCooldown)
  PROVE  BurstsNoticed(Append(h, hit))
<1> DEFINE h2 == Append(h, hit)
           n2 == Len(h) + 1
<1>1. /\ Len(h) \in Nat /\ Len(h2) = n2
      /\ DOMAIN h = 1..Len(h) /\ DOMAIN h2 = 1..n2
      /\ \A x \in 1..Len(h) : h2[x] = h[x]
  BY BurstNumbers, OneMoreHit
<1> HIDE DEF h2
<1>2. AuthThreshold \in Nat
  BY BurstNumbers
<1>3. ASSUME NEW i \in 1..n2, Burst(h2, i, n2, Span(AuthWindow)),
             n2 - i + 1 >= Enough(AuthThreshold)
      PROVE  Noticed(h2, i, n2, AuthCooldown)
  <2>1. CASE AuthThreshold < 2
    BY <2>1 DEF h2
  <2>2. CASE AuthThreshold >= 2
    <3>1. Enough(AuthThreshold) = 3 * (AuthThreshold - 1)
      BY <1>2, <2>2 DEF Enough
    <3> SUFFICES ASSUME ~Noticed(h2, i, n2, AuthCooldown) PROVE FALSE
      OBVIOUS
    <3>2. Unnoticed(h2, i, Span(AuthWindow), AuthCooldown) /\ i \in 1..Len(h2) + 1
      BY <1>1, <1>3 DEF Unnoticed
    <3>3. BurstTracked(m2, k, h2, c)
      BY <2>2 DEF h2
    <3>4. PICK j \in 1..Len(h2) :
            Behind(h2, i, j, m2[k].last, AuthThreshold - 2, AuthThreshold - 1)
      BY <3>2, <3>3 DEF BurstTracked
    <3>5. /\ AuthThreshold - 2 \in Nat /\ AuthThreshold - 1 \in Nat /\ Len(h2) \in Nat
          /\ i \in Nat /\ j \in Nat
      <4>1. AuthThreshold - 2 \in Nat /\ AuthThreshold - 1 \in Nat
        BY <2>2, BoundNumbers
      <4> QED
        BY <1>1, <4>1
    <3>6. n2 - i + 1 <= AuthThreshold - 2 + (AuthThreshold - 1) + (AuthThreshold - 1)
      BY <1>1, <3>4, <3>5, FewBehind
    <3> QED
      BY <1>1, <1>2, <1>3, <3>1, <3>6
  <2>3. AuthThreshold < 2 \/ AuthThreshold >= 2
    BY <1>2
  <2> QED
    BY <2>1, <2>2, <2>3
<1>4. ASSUME NEW i \in 1..n2, NEW j \in 1..Len(h), Burst(h2, i, j, Span(AuthWindow)),
             j - i + 1 >= Enough(AuthThreshold)
      PROVE  Noticed(h2, i, j, AuthCooldown)
  <2>1. Enough(AuthThreshold) \in Nat /\ Enough(AuthThreshold) >= 1
    BY <1>2 DEF Enough
  <2>2. /\ i \in 1..Len(h)
        /\ \A x \in i..j : x \in 1..Len(h) /\ \A a \in 1..x : a \in 1..Len(h)
    BY <1>1, <1>4, <2>1, IndicesBetween
  <2>4. Burst(h, i, j, Span(AuthWindow))
    BY <1>1, <1>4, <2>2 DEF Burst
  <2>5. Noticed(h, i, j, AuthCooldown)
    BY <1>1, <1>4, <2>2, <2>4 DEF BurstsNoticed
  <2> QED
    BY <1>1, <2>2, <2>5 DEF Noticed
<1>5. \A j \in 1..n2 : j = n2 \/ j \in 1..Len(h)
  BY <1>1, Indices
<1>6. BurstsNoticed(h2)
  BY <1>1, <1>3, <1>4, <1>5 DEF BurstsNoticed
<1> QED
  BY <1>6 DEF h2

LEMMA BfUpdateTracks ==
  ASSUME DetectionAssumption, TypeOK, ReadingInv, BurstInv, BurstIsNoticed,
         NEW t \in Threads, UpdateBruteforce(t)
  PROVE  (BurstInv /\ BurstIsNoticed)'
<1>1. PICK k \in Keys, now \in Times :
        /\ call[t] = [kind |-> "bf", key |-> k, now |-> now]
        /\ bfState' = Put(bfState, k, BfNew(k, now))
        /\ bfHits' = [bfHits EXCEPT ![k] =
                        Append(@, [at |-> now, alert |-> BfAlert(k, now)])]
        /\ BfOld(k, now) \in [count : Nat, start : Times, last : Option(Times)]
        /\ BfNew(k, now) \in BfEntry
        /\ BfAlert(k, now) \in BOOLEAN
  BY BfUpdate
<1>2. PICK hit \in BfHit : hit = [at |-> now, alert |-> BfAlert(k, now)]
  BY <1>1 DEF BfHit
<1>3. hit.at = now /\ hit.alert = BfAlert(k, now)
  BY <1>2
<1>4. clock \in Int /\ clock - hit.at <= MaxStall
  <2>1. call[t] # NoCall /\ call[t].now = now
    BY <1>1 DEF NoCall
  <2>2. clock - now <= MaxStall
    BY <2>1 DEF ReadingInv
  <2> QED
    BY <1>3, <2>2 DEF TypeOK, Times
<1>5. /\ bfHits'[k] = Append(bfHits[k], hit) /\ bfHits[k] \in Seq(BfHit)
      /\ \A x \in Keys : x # k => bfHits'[x] = bfHits[x]
  BY <1>1, <1>2 DEF TypeOK
<1>6. /\ DOMAIN bfState' = DOMAIN bfState \cup {k}
      /\ bfState'[k] = BfNew(k, now)
      /\ \A x \in DOMAIN bfState : x # k => bfState'[x] = bfState[x]
  <2>1. /\ DOMAIN Put(bfState, k, BfNew(k, now)) = DOMAIN bfState \cup {k}
        /\ Put(bfState, k, BfNew(k, now))[k] = BfNew(k, now)
        /\ \A x \in DOMAIN bfState :
             x # k => Put(bfState, k, BfNew(k, now))[x] = bfState[x]
    BY DEF Put
  <2> QED
    BY <1>1, <2>1
<1>7. BfOld(k, now).last = OldLast(bfState, k)
  BY DEF BfOld, OldLast
<1>8. bfState'[k].last = IF hit.alert THEN {hit.at} ELSE OldLast(bfState, k)
  BY <1>3, <1>6, <1>7 DEF BfNew
<1>9. IF k \in DOMAIN bfState /\ ~WindowOver(hit.at, bfState[k].start, AuthWindow)
        THEN bfState'[k].start = bfState[k].start /\ bfState'[k].count = bfState[k].count + 1
        ELSE bfState'[k].start = hit.at /\ bfState'[k].count = 1
  <2>1. CASE k \in DOMAIN bfState
    <3>1. BfOld(k, now) = bfState[k]
      BY <2>1 DEF BfOld
    <3> QED
      BY <1>3, <1>6, <2>1, <3>1 DEF BfNew, BfCount, CountBefore, StartOf, BfOver
  <2>2. CASE k \notin DOMAIN bfState
    <3>1. BfOld(k, now) = [count |-> 0, start |-> now, last |-> {}]
      BY <2>2 DEF BfOld
    <3> QED
      BY <1>3, <1>6, <2>2, <3>1 DEF BfNew, BfCount, CountBefore, StartOf, BfOver
  <2> QED
    BY <2>1, <2>2
<1>10. hit.alert <=> /\ bfState'[k].count >= AuthThreshold
                     /\ CooldownOver(hit.at, OldLast(bfState, k), AuthCooldown)
  BY <1>3, <1>6, <1>7 DEF BfNew, BfAlert, ThresholdMet
<1>a. HitEffect(bfState, bfState', k, hit)
  BY <1>6, <1>8, <1>9, <1>10 DEF HitEffect
<1>11. FromAlerts(OldLast(bfState, k), bfHits[k]) /\ BurstsNoticed(bfHits[k])
  BY DEF BurstInv, BurstIsNoticed, BurstsNoticed
<1>12. FromAlerts(bfState'[k].last, Append(bfHits[k], hit))
  BY <1>5, <1>8, <1>11, BurstNumbers, HitFromAlerts
<1>13. AuthThreshold >= 2 => BurstTracked(bfState', k, Append(bfHits[k], hit), clock)
  <2> SUFFICES ASSUME AuthThreshold >= 2
               PROVE  BurstTracked(bfState', k, Append(bfHits[k], hit), clock)
    OBVIOUS
  <2>1. BurstTracked(bfState, k, bfHits[k], clock) /\ k \in DOMAIN bfState'
    BY <1>6 DEF BurstInv
  <2> QED
    BY <1>4, <1>5, <1>a, <1>11, <2>1, HitTracked
<1>14. AuthThreshold < 2 => \A i \in 1..Len(bfHits[k]) + 1 :
         Noticed(Append(bfHits[k], hit), i, Len(bfHits[k]) + 1, AuthCooldown)
  <2> SUFFICES ASSUME AuthThreshold < 2
               PROVE  \A i \in 1..Len(bfHits[k]) + 1 :
                        Noticed(Append(bfHits[k], hit), i, Len(bfHits[k]) + 1, AuthCooldown)
    OBVIOUS
  <2>1. BfCount(k, now) \in Nat /\ BfCount(k, now) >= 1
    <3>1. CountBefore(BfOld(k, now), BfOver(k, now)) \in Nat
      BY <1>1 DEF CountBefore
    <3> QED
      BY <3>1 DEF BfCount
  <2>2. bfState'[k].count >= AuthThreshold
    <3>1. bfState'[k].count = BfCount(k, now)
      BY <1>6 DEF BfNew
    <3> QED
      BY <2>1, <3>1, BurstNumbers
  <2> QED
    BY <1>5, <1>10, <1>11, <2>2, BurstNumbers, HitIsNoticed
<1>15. BurstsNoticed(Append(bfHits[k], hit))
  BY <1>5, <1>6, <1>11, <1>13, <1>14, HitBursts
<1>16. clock' = clock
  BY DEF UpdateBruteforce
<1>17. ASSUME NEW x \in Keys
       PROVE  /\ FromAlerts(OldLast(bfState', x), bfHits'[x])
              /\ AuthThreshold >= 2 => BurstTracked(bfState', x, bfHits'[x], clock')
              /\ BurstsNoticed(bfHits'[x])
  <2>1. CASE x = k
    <3>1. OldLast(bfState', k) = bfState'[k].last
      BY <1>6 DEF OldLast
    <3> QED
      BY <1>5, <1>12, <1>13, <1>15, <1>16, <2>1, <3>1
  <2>2. CASE x # k
    <3>1. /\ bfHits'[x] = bfHits[x]
          /\ x \in DOMAIN bfState' <=> x \in DOMAIN bfState
          /\ x \in DOMAIN bfState => bfState'[x] = bfState[x]
      BY <1>5, <1>6, <2>2
    <3>2. OldLast(bfState', x) = OldLast(bfState, x)
      BY <3>1 DEF OldLast
    <3>3. /\ FromAlerts(OldLast(bfState, x), bfHits[x])
          /\ AuthThreshold >= 2 => BurstTracked(bfState, x, bfHits[x], clock)
          /\ BurstsNoticed(bfHits[x])
      BY DEF BurstInv, BurstIsNoticed, BurstsNoticed
    <3> QED
      BY <1>16, <3>1, <3>2, <3>3 DEF BurstTracked
  <2> QED
    BY <2>1, <2>2
<1> QED
  BY <1>17 DEF BurstInv, BurstIsNoticed, BurstsNoticed

LEMMA RetainTracks ==
  ASSUME DetectionAssumption, TypeOK, ReadingInv, BurstInv, BurstIsNoticed,
         NEW k \in Keys \cup Sources, Retain(k)
  PROVE  (BurstInv /\ BurstIsNoticed)'
<1>1. clock' = clock /\ bfHits' = bfHits
  BY DEF Retain
<1>2. /\ clock \in Int /\ cleaner.now \in Int /\ cleaner.now <= clock
  BY DEF TypeOK, Times, ReadingInv
<1>3. ASSUME NEW x \in Keys
      PROVE  /\ FromAlerts(OldLast(bfState', x), bfHits[x])
             /\ AuthThreshold >= 2 => BurstTracked(bfState', x, bfHits[x], clock)
  <2>1. /\ FromAlerts(OldLast(bfState, x), bfHits[x])
        /\ AuthThreshold >= 2 => BurstTracked(bfState, x, bfHits[x], clock)
        /\ bfHits[x] \in Seq(BfHit)
    BY DEF BurstInv, TypeOK
  <2>2. CASE bfState' = bfState
    BY <2>1, <2>2
  <2>3. CASE /\ x # k /\ bfState' = Drop(bfState, k)
    <3>1. /\ x \in DOMAIN bfState' <=> x \in DOMAIN bfState
          /\ x \in DOMAIN bfState => bfState'[x] = bfState[x]
      BY <2>3 DEF Drop
    <3> QED
      BY <2>1, <3>1 DEF OldLast, BurstTracked
  <2>4. CASE /\ x = k /\ k \in DOMAIN bfState /\ Expired(bfState[k], cleaner.now)
             /\ bfState' = Drop(bfState, k)
    <3>1. x \notin DOMAIN bfState'
      BY <2>4 DEF Drop
    <3>2. FromAlerts(OldLast(bfState', x), bfHits[x])
      BY <3>1 DEF OldLast, FromAlerts
    <3>3. ASSUME AuthThreshold >= 2
          PROVE  BurstTracked(bfState', x, bfHits[x], clock)
      <4> PICK h \in Seq(BfHit) : h = bfHits[x]
        BY <2>1
      <4> PICK e : e = bfState[x]
        OBVIOUS
      <4>1. ASSUME NEW i \in 1..Len(h) + 1, Unnoticed(h, i, Span(AuthWindow), AuthCooldown)
            PROVE  Forgotten(h, i, clock, Span(AuthWindow), AuthThreshold - 2, AuthThreshold - 1)
        <5>1. PICK j \in 1..Len(h) :
                /\ e.start = h[j].at
                /\ Behind(h, i, j, e.last, AuthThreshold - 2, AuthThreshold - 1)
          BY <2>1, <2>4, <3>3, <4>1 DEF BurstTracked, BfOpened
        <5>2. AuthThreshold - 2 \in Nat /\ AuthThreshold - 1 \in Nat
          BY <3>3, BoundNumbers
        <5>3. Expired(e, cleaner.now)
          BY <2>4
        <5> QED
          BY <1>2, <5>1, <5>2, <5>3, BurstNumbers, DeletedBehind
      <4> QED
        BY <3>1, <4>1 DEF BurstTracked
    <3> QED
      BY <3>2, <3>3
  <2> QED
    BY <2>2, <2>3, <2>4 DEF Retain
<1> QED
  BY <1>1, <1>3 DEF BurstInv, BurstIsNoticed

\* Time only makes what has been forgotten older.
LEMMA LaterForgotten ==
  ASSUME NEW H, \A x \in H : x.at \in Int /\ x.alert \in BOOLEAN,
         NEW h \in Seq(H), NEW i \in 1..Len(h) + 1, NEW c \in Int, NEW window \in Int,
         MaxStall \in Nat, NEW p, NEW v, Forgotten(h, i, c, window, p, v)
  PROVE  Forgotten(h, i, c + 1, window, p, v)
<1>1. \A x \in i..Len(h) : h[x].at \in Int
  <2>1. Len(h) \in Nat /\ \A x \in 1..Len(h) : h[x].at \in Int
    BY LenProperties, ElementOfSeq
  <2> QED
    BY <2>1
<1>2. \A x \in i..Len(h) : c - h[x].at > window + MaxStall => c + 1 - h[x].at > window + MaxStall
  BY <1>1
<1> QED
  BY <1>2 DEF Forgotten

LEMMA StepTracks ==
  ASSUME DetectionAssumption, TypeOK, ReadingInv, BurstInv, BurstIsNoticed,
         [Next]_vars
  PROVE  (BurstInv /\ BurstIsNoticed)'
<1>1. CASE Tick
  <2>1. clock' = clock + 1 /\ clock \in Int /\ bfState' = bfState /\ bfHits' = bfHits
    BY <1>1 DEF Tick, TypeOK, Times
  <2>2. ASSUME NEW k \in Keys, AuthThreshold >= 2
        PROVE  BurstTracked(bfState, k, bfHits[k], clock + 1)
    <3>1. bfHits[k] \in Seq(BfHit) /\ BurstTracked(bfState, k, bfHits[k], clock)
      BY <2>2 DEF TypeOK, BurstInv
    <3> PICK h \in Seq(BfHit) : h = bfHits[k]
      BY <3>1
    <3>2. \A i \in 1..Len(h) + 1 :
            Forgotten(h, i, clock, Span(AuthWindow), AuthThreshold - 2, AuthThreshold - 1)
            => Forgotten(h, i, clock + 1, Span(AuthWindow), AuthThreshold - 2, AuthThreshold - 1)
      BY <2>1, BurstNumbers, LaterForgotten
    <3> QED
      BY <3>1, <3>2 DEF BurstTracked
  <2> QED
    BY <2>1, <2>2 DEF BurstInv, BurstIsNoticed
<1>2. ASSUME NEW t \in Threads, Evaluate(t)
      PROVE  (BurstInv /\ BurstIsNoticed)'
  <2>1. CASE UpdateBruteforce(t)
    BY <2>1, BfUpdateTracks
  <2>2. ASSUME ~UpdateBruteforce(t)
        PROVE  UNCHANGED <<clock, bfState, bfHits>>
    BY <1>2, <2>2 DEF Evaluate, StartBruteforce, StartPortscan, UpdatePortscan
  <2> QED
    BY <2>1, <2>2 DEF BurstInv, BurstIsNoticed
<1>3. ASSUME NEW k \in Keys \cup Sources, Retain(k)
      PROVE  (BurstInv /\ BurstIsNoticed)'
  BY <1>3, RetainTracks
<1>4. CASE Wake \/ CountEntries \/ CountRemoved \/ UNCHANGED vars
  <2>1. UNCHANGED <<clock, bfState, bfHits>>
    BY <1>4 DEF Wake, CountEntries, CountRemoved, vars
  <2> QED
    BY <2>1 DEF BurstInv, BurstIsNoticed
<1> QED
  BY <1>1, <1>2, <1>3, <1>4 DEF Next, Cleanup, CleanupStep

LEMMA InitTracks ==
  ASSUME DetectionAssumption, Init
  PROVE  BurstInv /\ BurstIsNoticed
<1>1. bfState = <<>> /\ \A k \in Keys : bfHits[k] = <<>>
  BY DEF Init
<1>2. DOMAIN bfState = {}
  BY <1>1
<1>3. Len(<<>>) = 0 /\ DOMAIN <<>> = {}
  OBVIOUS
<1>4. ASSUME NEW k \in Keys, AuthThreshold >= 2
      PROVE  BurstTracked(bfState, k, <<>>, clock)
  <2>1. ASSUME NEW i \in 1..Len(<<>>) + 1
        PROVE  Forgotten(<<>>, i, clock, Span(AuthWindow), AuthThreshold - 2, AuthThreshold - 1)
    <3>1. PICK p \in Nat, v \in Nat : p = AuthThreshold - 2 /\ v = AuthThreshold - 1
      BY <1>4, BoundNumbers
    <3>2. Len(<<>>) - i + 1 <= p + v
      BY <1>3, <3>1
    <3> QED
      BY <3>1, <3>2 DEF Forgotten
  <2> QED
    BY <1>2, <2>1 DEF BurstTracked
<1>5. \A k \in Keys : FromAlerts(OldLast(bfState, k), bfHits[k])
  BY <1>2 DEF FromAlerts, OldLast
<1> QED
  BY <1>1, <1>3, <1>4, <1>5 DEF BurstInv, BurstIsNoticed

\* For every threshold, window, cooldown and stall, however calls with stale
\* readings and the cleanup interleave: of 3 * (AUTH_MAX_ATTEMPTS - 1) failed
\* logins on one key within the window, or within a stall less than STATE_TTL
\* where the window is longer than that, one raises an alert or comes within the
\* cooldown of one (detection.rs:36-58, 77-121).
THEOREM BurstsAreNoticed == Spec => []BurstIsNoticed
<1> DEFINE Inv == TypeOK /\ ReadingInv /\ BurstInv /\ BurstIsNoticed
<1>1. Init => Inv
  <2>1. ASSUME Init
        PROVE  ReadingInv
    BY <2>1 DEF Init, Asleep, ReadingInv
  <2> QED
    BY <2>1, InitTyped, InitTracks, DetectionAssumption
<1>2. Inv /\ [Next]_vars => Inv'
  BY StepTyped, StepReads, StepTracks, DetectionAssumption
<1> QED BY <1>1, <1>2, PTL DEF Spec

-----------------------------------------------------------------------------
(* No scan is missed.  The argument is that of bursts, with ports for hits: a *)
(* port is counted once, so the ports in the entry may be those of the burst  *)
(* and the window still have been opened before it.                          *)

\* The 16-bit ports of the hits of h from i on.
PortsFrom(h, i) == {AsU16(h[x].port) : x \in i..Len(h)}

Distinct(h, i, j) ==
  \A a, b \in i..j : a # b => AsU16(h[a].port) # AsU16(h[b].port)

PsOpened(e, h, j) ==
  /\ j \in 1..Len(h)
  /\ e.start = h[j].at
  /\ e.ports = PortsFrom(h, j)

ScanTracked(m, s, h, c) ==
  \A i \in 1..Len(h) + 1 :
    Unnoticed(h, i, Span(PortScanWindow), ScanCooldown) /\ Distinct(h, i, Len(h)) =>
      IF s \in DOMAIN m
        THEN \E j \in 1..Len(h) :
               /\ PsOpened(m[s], h, j)
               /\ Behind(h, i, j, m[s].last, ScanThreshold - 1, ScanThreshold - 1)
        ELSE Forgotten(h, i, c, Span(PortScanWindow), ScanThreshold - 1, ScanThreshold - 1)

ScanInv ==
  \A s \in Sources :
    /\ FromAlerts(OldLast(psState, s), psHits[s])
    /\ ScanThreshold >= 1 => ScanTracked(psState, s, psHits[s], clock)

ScansNoticed(h) ==
  \A i, j \in DOMAIN h :
    /\ j - i + 1 >= EnoughPorts(ScanThreshold)
    /\ Burst(h, i, j, Span(PortScanWindow))
    /\ Distinct(h, i, j)
    => Noticed(h, i, j, ScanCooldown)

LEMMA ScanAsLemma == ScanIsNoticed <=> \A s \in Sources : ScansNoticed(psHits[s])
BY DEF ScanIsNoticed, ScansNoticed, Distinct

LEMMA ScanNumbers ==
  ASSUME DetectionAssumption
  PROVE  /\ ScanThreshold \in Nat /\ PortScanWindow \in Int /\ ScanCooldown \in Nat
         /\ MaxStall \in Nat /\ StateTTL \in Nat
         /\ Span(PortScanWindow) \in Int /\ Span(PortScanWindow) <= PortScanWindow
         /\ StateTTL > Span(PortScanWindow) + MaxStall
         /\ \A x \in PsHit : x.at \in Int /\ x.alert \in BOOLEAN
<1>1. Usize \in Nat \ {0} /\ PortScanMaxPorts \in Int
  BY DEF DetectionAssumption
<1>2. ScanThreshold \in Nat
  BY <1>1 DEF ScanThreshold
<1>3. /\ Span(PortScanWindow) \in Int /\ Span(PortScanWindow) <= PortScanWindow
      /\ StateTTL > Span(PortScanWindow) + MaxStall
  BY DEF DetectionAssumption, Span
<1> QED
  BY <1>2, <1>3 DEF DetectionAssumption, PsHit, Times

LEMMA ScanBoundNumbers ==
  ASSUME DetectionAssumption, ScanThreshold >= 1
  PROVE  ScanThreshold - 1 \in Nat
<1>1. ScanThreshold \in Nat
  BY ScanNumbers
<1> QED
  BY <1>1

\* Hits on different ports are as many as their ports.
LEMMA PortCount ==
  ASSUME NEW h, NEW n \in Nat, Len(h) = n, NEW i \in 1..n + 1, Distinct(h, i, n)
  PROVE  /\ IsFiniteSet(PortsFrom(h, i))
         /\ Cardinality(PortsFrom(h, i)) = n - i + 1
<1> DEFINE f == [x \in i..n |-> AsU16(h[x].port)]
<1>1. f \in [i..n -> PortsFrom(h, i)]
  BY DEF PortsFrom
<1>2. \A a, b \in i..n : f[a] = f[b] => a = b
  BY DEF Distinct
<1>3. \A y \in PortsFrom(h, i) : \E x \in i..n : f[x] = y
  BY DEF PortsFrom
<1> HIDE DEF f
<1>4. f \in Bijection(i..n, PortsFrom(h, i))
  BY <1>1, <1>2, <1>3 DEF Bijection, Injection, Surjection, IsInjective
<1>5. ExistsBijection(i..n, PortsFrom(h, i))
  BY <1>4 DEF ExistsBijection
<1>6. i \in Int /\ n \in Int /\ (i > n => n - i + 1 = 0)
  OBVIOUS
<1>7. IsFiniteSet(i..n) /\ Cardinality(i..n) = n - i + 1
  <2>1. IsFiniteSet(i..n) /\ Cardinality(i..n) = IF i > n THEN 0 ELSE n - i + 1
    BY <1>6, FS_Interval
  <2> QED
    BY <1>6, <2>1
<1> QED
  BY <1>5, <1>7, FS_Bijection

\* Fewer ports than the threshold since the window was opened, by hit j.
LEMMA PortBounds ==
  ASSUME NEW h, NEW n \in Nat, Len(h) = n, NEW i \in 1..n, NEW j \in 1..n,
         NEW v \in Nat, NEW e, PsOpened(e, h, j), IsFiniteSet(e.ports),
         Distinct(h, i, n), ~(Cardinality(e.ports) >= v + 1)
  PROVE  /\ j < i => n - i + 1 <= v
         /\ i <= j => n - j + 1 <= v
<1>1. Cardinality(e.ports) \in Nat /\ Cardinality(e.ports) <= v
  <2>1. Cardinality(e.ports) \in Nat
    BY FS_CardinalityType
  <2> QED
    BY <2>1
<1>2. e.ports = PortsFrom(h, j)
  BY DEF PsOpened
<1>3. ASSUME j < i
      PROVE  n - i + 1 <= v
  <2>1. \A x \in i..n : x \in j..n
    BY <1>3
  <2>2. PortsFrom(h, i) \in SUBSET e.ports
    BY <1>2, <2>1 DEF PortsFrom
  <2>3. Cardinality(PortsFrom(h, i)) <= Cardinality(e.ports)
    BY <2>2, FS_Subset
  <2>4. Cardinality(PortsFrom(h, i)) = n - i + 1
    BY PortCount
  <2> QED
    BY <1>1, <2>3, <2>4
<1>4. ASSUME i <= j
      PROVE  n - j + 1 <= v
  <2>1. \A x \in j..n : x \in i..n
    BY <1>4
  <2>2. Distinct(h, j, n) /\ j \in 1..n + 1
    BY <2>1 DEF Distinct
  <2>3. Cardinality(e.ports) = n - j + 1
    BY <1>2, <2>2, PortCount
  <2> QED
    BY <1>1, <2>3
<1> QED
  BY <1>3, <1>4

PsHitEffect(m, m2, s, hit) ==
  /\ s \in DOMAIN m2
  /\ IsFiniteSet(m2[s].ports)
  /\ IF s \in DOMAIN m /\ ~WindowOver(hit.at, m[s].start, PortScanWindow)
       THEN m2[s].start = m[s].start /\ m2[s].ports = m[s].ports \cup {AsU16(hit.port)}
       ELSE m2[s].start = hit.at /\ m2[s].ports = {AsU16(hit.port)}
  /\ m2[s].last = IF hit.alert THEN {hit.at} ELSE OldLast(m, s)
  /\ hit.alert <=> /\ Cardinality(m2[s].ports) >= ScanThreshold
                   /\ CooldownOver(hit.at, OldLast(m, s), ScanCooldown)

LEMMA PsHitOpens ==
  ASSUME NEW h \in Seq(PsHit), NEW hit \in PsHit, PortScanWindow \in Int,
         \A x \in PsHit : x.at \in Int /\ x.alert \in BOOLEAN,
         NEW m, NEW m2, NEW s, PsHitEffect(m, m2, s, hit)
  PROVE  /\ s \notin DOMAIN m => PsOpened(m2[s], Append(h, hit), Len(h) + 1)
         /\ \A j : s \in DOMAIN m /\ PsOpened(m[s], h, j) =>
              PsOpened(m2[s], Append(h, hit),
                       IF WindowOver(hit.at, h[j].at, PortScanWindow) THEN Len(h) + 1 ELSE j)
<1> DEFINE h2 == Append(h, hit)
<1>1. /\ Len(h) \in Nat /\ Len(h2) = Len(h) + 1
      /\ \A x \in 1..Len(h) : h2[x] = h[x]
      /\ h2[Len(h) + 1] = hit
  BY OneMoreHit
<1> HIDE DEF h2
<1>2. Len(h) + 1 \in 1..Len(h) + 1 /\ Len(h) + 1..Len(h) + 1 = {Len(h) + 1}
  BY <1>1
<1>3. ASSUME m2[s].start = hit.at, m2[s].ports = {AsU16(hit.port)}
      PROVE  PsOpened(m2[s], h2, Len(h) + 1)
  <2>1. PortsFrom(h2, Len(h) + 1) = {AsU16(hit.port)}
    BY <1>1, <1>2 DEF PortsFrom
  <2> QED
    BY <1>1, <1>2, <1>3, <2>1 DEF PsOpened
<1>4. s \notin DOMAIN m => PsOpened(m2[s], h2, Len(h) + 1)
  BY <1>3 DEF PsHitEffect
<1>5. ASSUME NEW j, s \in DOMAIN m, PsOpened(m[s], h, j)
      PROVE  PsOpened(m2[s], h2,
                      IF WindowOver(hit.at, h[j].at, PortScanWindow) THEN Len(h) + 1 ELSE j)
  <2>1. j \in 1..Len(h) /\ m[s].start = h[j].at /\ m[s].ports = PortsFrom(h, j)
    BY <1>5 DEF PsOpened
  <2>2. CASE WindowOver(hit.at, h[j].at, PortScanWindow)
    <3>1. PsOpened(m2[s], h2, Len(h) + 1)
      BY <1>3, <2>1, <2>2 DEF PsHitEffect
    <3> QED
      BY <2>2, <3>1
  <2>3. CASE ~WindowOver(hit.at, h[j].at, PortScanWindow)
    <3>1. m2[s].start = h[j].at /\ m2[s].ports = PortsFrom(h, j) \cup {AsU16(hit.port)}
      BY <1>5, <2>1, <2>3 DEF PsHitEffect
    <3>2. /\ j \in 1..Len(h) + 1 /\ h2[j] = h[j]
          /\ j..Len(h) + 1 = j..Len(h) \cup {Len(h) + 1}
          /\ \A x \in j..Len(h) : h2[x] = h[x]
      BY <1>1, <2>1
    <3>3. PortsFrom(h2, j) = PortsFrom(h, j) \cup {AsU16(hit.port)}
      BY <1>1, <3>2 DEF PortsFrom
    <3>4. PsOpened(m2[s], h2, j)
      BY <1>1, <3>1, <3>2, <3>3 DEF PsOpened
    <3> QED
      BY <2>3, <3>4
  <2> QED
    BY <2>2, <2>3
<1> QED
  BY <1>4, <1>5 DEF h2

\* After a hit the entry still knows of every scan.
LEMMA PsHitTracked ==
  ASSUME DetectionAssumption, ScanThreshold >= 1,
         NEW h \in Seq(PsHit), NEW hit \in PsHit,
         NEW m, NEW s, NEW c \in Int, c - hit.at <= MaxStall,
         FromAlerts(OldLast(m, s), h),
         ScanTracked(m, s, h, c),
         NEW m2, PsHitEffect(m, m2, s, hit)
  PROVE  ScanTracked(m2, s, Append(h, hit), c)
<1> DEFINE h2 == Append(h, hit)
           v  == ScanThreshold - 1
<1>1. /\ Len(h) \in Nat /\ Len(h2) = Len(h) + 1
      /\ 1..Len(h2) = 1..Len(h) + 1 /\ 1..Len(h2) + 1 = 1..Len(h) + 2
      /\ Len(h) + 1 \in 1..Len(h) + 1 /\ Len(h) + 1..Len(h) = {}
      /\ \A x \in 1..Len(h) : h2[x] = h[x]
  <2>1. Len(h) \in Nat /\ Len(h2) = Len(h) + 1 /\ \A x \in 1..Len(h) : h2[x] = h[x]
    BY ScanNumbers, OneMoreHit
  <2>2. Len(h) + 1..Len(h) = {}
    BY <2>1, Indices
  <2> HIDE DEF h2
  <2>3. Len(h2) + 1 = Len(h) + 2 /\ Len(h) + 1 \in 1..Len(h) + 1
    BY <2>1
  <2> QED
    BY <2>1, <2>2, <2>3
<1>2. ScanThreshold \in Nat /\ v \in Nat /\ ScanThreshold = v + 1
  <2>1. ScanThreshold \in Nat
    BY ScanNumbers
  <2> QED
    BY <2>1
<1> HIDE DEF h2, v
<1>3. /\ s \notin DOMAIN m => PsOpened(m2[s], h2, Len(h) + 1)
      /\ \A j : s \in DOMAIN m /\ PsOpened(m[s], h, j) =>
           PsOpened(m2[s], h2, IF WindowOver(hit.at, h[j].at, PortScanWindow) THEN Len(h) + 1 ELSE j)
  BY ScanNumbers, PsHitOpens DEF h2
<1>4. ASSUME NEW i \in 1..Len(h) + 1, Unnoticed(h, i, Span(PortScanWindow), ScanCooldown),
             Distinct(h, i, Len(h)), s \in DOMAIN m
      PROVE  \E j \in 1..Len(h), j2 \in 1..Len(h) + 1 :
               /\ PsOpened(m2[s], h2, j2) /\ Behind(h, i, j, m[s].last, v, v)
               /\ IF WindowOver(hit.at, h[j].at, PortScanWindow) THEN j2 = Len(h) + 1 ELSE j2 = j
  <2>1. PICK j \in 1..Len(h) : PsOpened(m[s], h, j) /\ Behind(h, i, j, m[s].last, v, v)
    BY <1>4 DEF ScanTracked, v
  <2>2. PICK j2 : j2 = IF WindowOver(hit.at, h[j].at, PortScanWindow) THEN Len(h) + 1 ELSE j
    OBVIOUS
  <2>3. PsOpened(m2[s], h2, j2)
    BY <1>3, <1>4, <2>1, <2>2
  <2>4. j2 \in 1..Len(h) + 1
    BY <1>1, <2>3 DEF PsOpened
  <2> QED
    BY <2>1, <2>2, <2>3, <2>4
<1>5. ASSUME NEW i \in 1..Len(h) + 2, Unnoticed(h2, i, Span(PortScanWindow), ScanCooldown),
             Distinct(h2, i, Len(h2))
      PROVE  \E j2 \in 1..Len(h) + 1 : PsOpened(m2[s], h2, j2) /\ Behind(h2, i, j2, m2[s].last, v, v)
  <2>1. CASE i = Len(h) + 2
    <3>1. Unnoticed(h, Len(h) + 1, Span(PortScanWindow), ScanCooldown) /\ Distinct(h, Len(h) + 1, Len(h))
      BY <1>1 DEF Unnoticed, Burst, Noticed, Distinct
    <3>2. PICK j2 \in 1..Len(h) + 1 : PsOpened(m2[s], h2, j2)
      BY <1>1, <1>3, <1>4, <3>1
    <3>3. Behind(h2, i, j2, m2[s].last, v, v)
      <4>1. j2 < i /\ Len(h2) - i + 1 <= v
        BY <1>1, <1>2, <2>1
      <4> QED
        BY <4>1 DEF Behind
    <3> QED
      BY <3>2, <3>3
  <2>2. CASE i \in 1..Len(h) + 1
    <3>1. ~Noticed(h2, i, Len(h) + 1, ScanCooldown)
      BY <1>1, <1>5 DEF Unnoticed
    <3>2. ~(hit.alert \/ ~CooldownOver(hit.at, OldLast(m, s), ScanCooldown))
      BY <2>2, <3>1, ScanNumbers, HitIsNoticed DEF h2
    <3>3. ~(Cardinality(m2[s].ports) >= ScanThreshold) /\ m2[s].last = OldLast(m, s)
      BY <3>2 DEF PsHitEffect
    <3>4. ASSUME NEW j2 \in 1..Len(h) + 1, PsOpened(m2[s], h2, j2)
          PROVE  /\ j2 < i => Len(h) + 1 - i + 1 <= v
                 /\ i <= j2 => Len(h) + 1 - j2 + 1 <= v
      <4>1. PICK n \in Nat : n = Len(h) + 1
        BY <1>1
      <4>2. PICK e : e = m2[s]
        OBVIOUS
      <4>3. /\ Len(h2) = n /\ i \in 1..n /\ j2 \in 1..n /\ v \in Nat
            /\ PsOpened(e, h2, j2)
        BY <1>1, <1>2, <2>2, <3>4, <4>1, <4>2
      <4>4. IsFiniteSet(e.ports)
        BY <4>2 DEF PsHitEffect
      <4>5. Distinct(h2, i, n)
        BY <1>1, <1>5, <4>1
      <4>6. ~(Cardinality(e.ports) >= v + 1)
        BY <1>2, <3>3, <4>2
      <4>7. (j2 < i => n - i + 1 <= v) /\ (i <= j2 => n - j2 + 1 <= v)
        BY <4>3, <4>4, <4>5, <4>6, PortBounds
      <4> QED
        BY <4>1, <4>7
    <3>5. Unnoticed(h, i, Span(PortScanWindow), ScanCooldown)
      BY <1>5, <2>2, ScanNumbers, BurstGoesOn DEF h2
    <3>6. Distinct(h, i, Len(h))
      <4>1. \A x \in i..Len(h) : x \in i..Len(h2) /\ h2[x] = h[x]
        BY <1>1, <2>2
      <4> QED
        BY <1>5, <4>1 DEF Distinct
    <3>7. CASE s \in DOMAIN m
      <4>1. PICK j \in 1..Len(h), j2 \in 1..Len(h) + 1 :
              /\ PsOpened(m2[s], h2, j2) /\ Behind(h, i, j, m[s].last, v, v)
              /\ IF WindowOver(hit.at, h[j].at, PortScanWindow) THEN j2 = Len(h) + 1 ELSE j2 = j
        BY <1>4, <2>2, <3>5, <3>6, <3>7
      <4>2. m2[s].last = m[s].last
        BY <3>3, <3>7 DEF OldLast
      <4>3. /\ j2 < i => Len(h) + 1 - i + 1 <= v
            /\ i <= j2 => Len(h) + 1 - j2 + 1 <= v
        BY <3>4, <4>1
      <4>4. Behind(h2, i, j2, m2[s].last, v, v)
        BY <1>2, <1>5, <2>2, <4>1, <4>2, <4>3, ScanNumbers, HitBehind DEF h2
      <4> QED
        BY <4>1, <4>4
    <3>8. CASE s \notin DOMAIN m
      <4>1. m2[s].last = {}
        BY <3>3, <3>8 DEF OldLast
      <4>2. Forgotten(h, i, c, Span(PortScanWindow), v, v)
        BY <2>2, <3>5, <3>6, <3>8 DEF ScanTracked, v
      <4>3. 1 <= v
        <5>1. PsOpened(m2[s], h2, Len(h) + 1)
          BY <1>3, <3>8
        <5>2. i <= Len(h) + 1 /\ Len(h) + 1 - (Len(h) + 1) + 1 = 1
          BY <1>1, <2>2
        <5> QED
          BY <1>1, <3>4, <5>1, <5>2
      <4>4. Behind(h2, i, Len(h) + 1, {}, v, v)
        BY <1>2, <1>5, <2>2, <4>2, <4>3, ScanNumbers, HitAfterForgotten DEF h2
      <4> QED
        BY <1>1, <1>3, <3>8, <4>1, <4>4
    <3> QED
      BY <3>7, <3>8
  <2>3. i = Len(h) + 2 \/ i \in 1..Len(h) + 1
    BY <1>1
  <2> QED
    BY <2>1, <2>2, <2>3
<1>6. s \in DOMAIN m2
  BY DEF PsHitEffect
<1>7. ScanTracked(m2, s, h2, c)
  BY <1>1, <1>5, <1>6 DEF ScanTracked, v
<1> QED
  BY <1>7 DEF h2

\* A positive threshold is not the special case of the bound.
LEMMA EnoughForScan ==
  ASSUME NEW n \in Nat, n >= 1
  PROVE  EnoughPorts(n) = 3 * (n - 1) + 1
<1>1. n # 0
  OBVIOUS
<1> QED
  BY <1>1 DEF EnoughPorts

\* The scans that a hit ends are noticed, the others were.
LEMMA HitScans ==
  ASSUME DetectionAssumption,
         NEW h \in Seq(PsHit), NEW hit \in PsHit, ScansNoticed(h),
         NEW m2, NEW s, s \in DOMAIN m2, NEW c,
         ScanThreshold >= 1 => ScanTracked(m2, s, Append(h, hit), c),
         ScanThreshold < 1 => \A i \in 1..Len(h) + 1 :
                                Noticed(Append(h, hit), i, Len(h) + 1, ScanCooldown)
  PROVE  ScansNoticed(Append(h, hit))
<1> DEFINE h2 == Append(h, hit)
           n2 == Len(h) + 1
<1>1. /\ Len(h) \in Nat /\ Len(h2) = n2
      /\ DOMAIN h = 1..Len(h) /\ DOMAIN h2 = 1..n2
      /\ \A x \in 1..Len(h) : h2[x] = h[x]
  BY ScanNumbers, OneMoreHit
<1> HIDE DEF h2
<1>2. ScanThreshold \in Nat
  BY ScanNumbers
<1>3. ASSUME NEW i \in 1..n2, Burst(h2, i, n2, Span(PortScanWindow)), Distinct(h2, i, n2),
             n2 - i + 1 >= EnoughPorts(ScanThreshold)
      PROVE  Noticed(h2, i, n2, ScanCooldown)
  <2>1. CASE ScanThreshold < 1
    BY <2>1 DEF h2
  <2>2. CASE ScanThreshold >= 1
    <3>1. EnoughPorts(ScanThreshold) = 3 * (ScanThreshold - 1) + 1
      BY <1>2, <2>2, EnoughForScan
    <3> SUFFICES ASSUME ~Noticed(h2, i, n2, ScanCooldown) PROVE FALSE
      OBVIOUS
    <3>2. /\ Unnoticed(h2, i, Span(PortScanWindow), ScanCooldown) /\ Distinct(h2, i, Len(h2))
          /\ i \in 1..Len(h2) + 1
      BY <1>1, <1>3 DEF Unnoticed
    <3>3. ScanTracked(m2, s, h2, c)
      BY <2>2 DEF h2
    <3>4. PICK j \in 1..Len(h2) :
            Behind(h2, i, j, m2[s].last, ScanThreshold - 1, ScanThreshold - 1)
      BY <3>2, <3>3 DEF ScanTracked
    <3>5. /\ ScanThreshold - 1 \in Nat /\ Len(h2) \in Nat
          /\ i \in Nat /\ j \in Nat
      BY <1>1, <1>2, <2>2
    <3>6. n2 - i + 1 <= ScanThreshold - 1 + (ScanThreshold - 1) + (ScanThreshold - 1)
      BY <1>1, <3>4, <3>5, FewBehind
    <3> QED
      BY <1>1, <1>2, <1>3, <3>1, <3>6
  <2>3. ScanThreshold < 1 \/ ScanThreshold >= 1
    BY <1>2
  <2> QED
    BY <2>1, <2>2, <2>3
<1>4. ASSUME NEW i \in 1..n2, NEW j \in 1..Len(h), Burst(h2, i, j, Span(PortScanWindow)),
             Distinct(h2, i, j), j - i + 1 >= EnoughPorts(ScanThreshold)
      PROVE  Noticed(h2, i, j, ScanCooldown)
  <2>1. EnoughPorts(ScanThreshold) \in Nat /\ EnoughPorts(ScanThreshold) >= 1
    BY <1>2 DEF EnoughPorts
  <2>2. /\ i \in 1..Len(h)
        /\ \A x \in i..j : x \in 1..Len(h) /\ \A a \in 1..x : a \in 1..Len(h)
    BY <1>1, <1>4, <2>1, IndicesBetween
  <2>3. Burst(h, i, j, Span(PortScanWindow)) /\ Distinct(h, i, j)
    BY <1>1, <1>4, <2>2 DEF Burst, Distinct
  <2>4. Noticed(h, i, j, ScanCooldown)
    BY <1>1, <1>4, <2>2, <2>3 DEF ScansNoticed
  <2> QED
    BY <1>1, <2>2, <2>4 DEF Noticed
<1>5. \A j \in 1..n2 : j = n2 \/ j \in 1..Len(h)
  BY <1>1, Indices
<1>6. ScansNoticed(h2)
  BY <1>1, <1>3, <1>4, <1>5 DEF ScansNoticed
<1> QED
  BY <1>6 DEF h2

AllScans == \A s \in Sources : ScansNoticed(psHits[s])

LEMMA PsUpdateTracks ==
  ASSUME DetectionAssumption, TypeOK, ReadingInv, ScanInv, AllScans,
         NEW t \in Threads, UpdatePortscan(t)
  PROVE  (ScanInv /\ AllScans)'
<1>1. PICK s \in Sources, p \in Ports, now \in Times, e \in PsEntry, hit \in PsHit :
        PsEffect(t, s, p, now, e, hit)
  BY PsUpdate
<1>2. hit.at = now /\ hit.port = p
  BY <1>1 DEF PsEffect
<1>3. clock \in Int /\ clock - hit.at <= MaxStall
  <2>1. call[t] # NoCall /\ call[t].now = now
    BY <1>1 DEF NoCall, PsEffect
  <2>2. clock - now <= MaxStall
    BY <2>1 DEF ReadingInv
  <2> QED
    BY <1>2, <2>2 DEF TypeOK, Times
<1>4. /\ psHits'[s] = Append(psHits[s], hit) /\ psHits[s] \in Seq(PsHit)
      /\ \A x \in Sources : x # s => psHits'[x] = psHits[x]
  <2>1. psHits' = [psHits EXCEPT ![s] = Append(@, hit)] /\ psHits \in [Sources -> Seq(PsHit)]
    BY <1>1 DEF PsEffect, TypeOK
  <2> QED
    BY <2>1
<1>5. /\ DOMAIN psState' = DOMAIN psState \cup {s}
      /\ psState'[s] = e
      /\ \A x \in DOMAIN psState : x # s => psState'[x] = psState[x]
  <2>1. /\ DOMAIN Put(psState, s, e) = DOMAIN psState \cup {s}
        /\ Put(psState, s, e)[s] = e
        /\ \A x \in DOMAIN psState : x # s => Put(psState, s, e)[x] = psState[x]
    BY DEF Put
  <2> QED
    BY <1>1, <2>1 DEF PsEffect
<1>6. IsFiniteSet(e.ports) /\ Cardinality(e.ports) \in Nat
  <2>1. U16 - 1 \in Int
    BY DEF DetectionAssumption
  <2>2. IsFiniteSet(0..U16 - 1)
    BY <2>1, FS_Interval
  <2>3. e.ports \in SUBSET (0..U16 - 1)
    BY DEF PsEntry
  <2> QED
    BY <2>2, <2>3, FS_Subset, FS_CardinalityType
<1>7. PsHitEffect(psState, psState', s, hit)
  BY <1>1, <1>2, <1>5, <1>6 DEF PsHitEffect, PsEffect, ThresholdMet
<1>8. FromAlerts(OldLast(psState, s), psHits[s]) /\ ScansNoticed(psHits[s])
  BY DEF ScanInv, AllScans
<1>9. FromAlerts(psState'[s].last, Append(psHits[s], hit))
  <2>1. psState'[s].last = IF hit.alert THEN {hit.at} ELSE OldLast(psState, s)
    BY <1>7 DEF PsHitEffect
  <2> QED
    BY <1>4, <1>8, <2>1, ScanNumbers, HitFromAlerts
<1>10. ScanThreshold >= 1 => ScanTracked(psState', s, Append(psHits[s], hit), clock)
  <2> SUFFICES ASSUME ScanThreshold >= 1
               PROVE  ScanTracked(psState', s, Append(psHits[s], hit), clock)
    OBVIOUS
  <2>1. ScanTracked(psState, s, psHits[s], clock)
    BY DEF ScanInv
  <2> QED
    BY <1>3, <1>4, <1>7, <1>8, <2>1, PsHitTracked
<1>11. ScanThreshold < 1 => \A i \in 1..Len(psHits[s]) + 1 :
         Noticed(Append(psHits[s], hit), i, Len(psHits[s]) + 1, ScanCooldown)
  <2> SUFFICES ASSUME ScanThreshold < 1
               PROVE  \A i \in 1..Len(psHits[s]) + 1 :
                        Noticed(Append(psHits[s], hit), i, Len(psHits[s]) + 1, ScanCooldown)
    OBVIOUS
  <2>1. Cardinality(e.ports) >= ScanThreshold
    BY <1>6, ScanNumbers
  <2>2. hit.alert \/ ~CooldownOver(hit.at, OldLast(psState, s), ScanCooldown)
    BY <1>5, <1>7, <2>1 DEF PsHitEffect
  <2> QED
    BY <1>4, <1>8, <2>2, ScanNumbers, HitIsNoticed
<1>12. ScansNoticed(Append(psHits[s], hit))
  BY <1>4, <1>5, <1>8, <1>10, <1>11, HitScans
<1>13. clock' = clock
  BY DEF UpdatePortscan
<1>14. ASSUME NEW x \in Sources
       PROVE  /\ FromAlerts(OldLast(psState', x), psHits'[x])
              /\ ScanThreshold >= 1 => ScanTracked(psState', x, psHits'[x], clock')
              /\ ScansNoticed(psHits'[x])
  <2>1. CASE x = s
    <3>1. OldLast(psState', s) = psState'[s].last
      BY <1>5 DEF OldLast
    <3> QED
      BY <1>4, <1>9, <1>10, <1>12, <1>13, <2>1, <3>1
  <2>2. CASE x # s
    <3>1. /\ psHits'[x] = psHits[x]
          /\ x \in DOMAIN psState' <=> x \in DOMAIN psState
          /\ x \in DOMAIN psState => psState'[x] = psState[x]
      BY <1>4, <1>5, <2>2
    <3>2. OldLast(psState', x) = OldLast(psState, x)
      BY <3>1 DEF OldLast
    <3>3. /\ FromAlerts(OldLast(psState, x), psHits[x])
          /\ ScanThreshold >= 1 => ScanTracked(psState, x, psHits[x], clock)
          /\ ScansNoticed(psHits[x])
      BY DEF ScanInv, AllScans
    <3> QED
      BY <1>13, <3>1, <3>2, <3>3 DEF ScanTracked
  <2> QED
    BY <2>1, <2>2
<1> QED
  BY <1>14 DEF ScanInv, AllScans

LEMMA PsRetainTracks ==
  ASSUME DetectionAssumption, TypeOK, ReadingInv, ScanInv, AllScans,
         NEW k \in Keys \cup Sources, Retain(k)
  PROVE  (ScanInv /\ AllScans)'
<1>1. clock' = clock /\ psHits' = psHits
  BY DEF Retain
<1>2. /\ clock \in Int /\ cleaner.now \in Int /\ cleaner.now <= clock
  BY DEF TypeOK, Times, ReadingInv
<1>3. ASSUME NEW x \in Sources
      PROVE  /\ FromAlerts(OldLast(psState', x), psHits[x])
             /\ ScanThreshold >= 1 => ScanTracked(psState', x, psHits[x], clock)
  <2>1. /\ FromAlerts(OldLast(psState, x), psHits[x])
        /\ ScanThreshold >= 1 => ScanTracked(psState, x, psHits[x], clock)
        /\ psHits[x] \in Seq(PsHit)
    BY DEF ScanInv, TypeOK
  <2>2. CASE psState' = psState
    BY <2>1, <2>2
  <2>3. CASE /\ x # k /\ psState' = Drop(psState, k)
    <3>1. /\ x \in DOMAIN psState' <=> x \in DOMAIN psState
          /\ x \in DOMAIN psState => psState'[x] = psState[x]
      BY <2>3 DEF Drop
    <3> QED
      BY <2>1, <3>1 DEF OldLast, ScanTracked
  <2>4. CASE /\ x = k /\ k \in DOMAIN psState /\ Expired(psState[k], cleaner.now)
             /\ psState' = Drop(psState, k)
    <3>1. x \notin DOMAIN psState'
      BY <2>4 DEF Drop
    <3>2. FromAlerts(OldLast(psState', x), psHits[x])
      BY <3>1 DEF OldLast, FromAlerts
    <3>3. ASSUME ScanThreshold >= 1
          PROVE  ScanTracked(psState', x, psHits[x], clock)
      <4> PICK h \in Seq(PsHit) : h = psHits[x]
        BY <2>1
      <4> PICK e : e = psState[x]
        OBVIOUS
      <4>1. ASSUME NEW i \in 1..Len(h) + 1, Unnoticed(h, i, Span(PortScanWindow), ScanCooldown),
                   Distinct(h, i, Len(h))
            PROVE  Forgotten(h, i, clock, Span(PortScanWindow), ScanThreshold - 1, ScanThreshold - 1)
        <5>1. PICK j \in 1..Len(h) :
                /\ e.start = h[j].at
                /\ Behind(h, i, j, e.last, ScanThreshold - 1, ScanThreshold - 1)
          BY <2>1, <2>4, <3>3, <4>1 DEF ScanTracked, PsOpened
        <5>2. ScanThreshold - 1 \in Nat
          BY <3>3, ScanBoundNumbers
        <5>3. Expired(e, cleaner.now)
          BY <2>4
        <5> QED
          BY <1>2, <5>1, <5>2, <5>3, ScanNumbers, DeletedBehind
      <4> QED
        BY <3>1, <4>1 DEF ScanTracked
    <3> QED
      BY <3>2, <3>3
  <2> QED
    BY <2>2, <2>3, <2>4 DEF Retain
<1> QED
  BY <1>1, <1>3 DEF ScanInv, AllScans

LEMMA StepScans ==
  ASSUME DetectionAssumption, TypeOK, ReadingInv, ScanInv, AllScans, [Next]_vars
  PROVE  (ScanInv /\ AllScans)'
<1>1. CASE Tick
  <2>1. clock' = clock + 1 /\ clock \in Int /\ psState' = psState /\ psHits' = psHits
    BY <1>1 DEF Tick, TypeOK, Times
  <2>2. ASSUME NEW s \in Sources, ScanThreshold >= 1
        PROVE  ScanTracked(psState, s, psHits[s], clock + 1)
    <3>1. psHits[s] \in Seq(PsHit) /\ ScanTracked(psState, s, psHits[s], clock)
      BY <2>2 DEF TypeOK, ScanInv
    <3> PICK h \in Seq(PsHit) : h = psHits[s]
      BY <3>1
    <3>2. \A i \in 1..Len(h) + 1 :
            Forgotten(h, i, clock, Span(PortScanWindow), ScanThreshold - 1, ScanThreshold - 1)
            => Forgotten(h, i, clock + 1, Span(PortScanWindow), ScanThreshold - 1, ScanThreshold - 1)
      BY <2>1, ScanNumbers, LaterForgotten
    <3> QED
      BY <3>1, <3>2 DEF ScanTracked
  <2> QED
    BY <2>1, <2>2 DEF ScanInv, AllScans
<1>2. ASSUME NEW t \in Threads, Evaluate(t)
      PROVE  (ScanInv /\ AllScans)'
  <2>1. CASE UpdatePortscan(t)
    BY <2>1, PsUpdateTracks
  <2>2. ASSUME ~UpdatePortscan(t)
        PROVE  UNCHANGED <<clock, psState, psHits>>
    BY <1>2, <2>2 DEF Evaluate, StartBruteforce, StartPortscan, UpdateBruteforce
  <2> QED
    BY <2>1, <2>2 DEF ScanInv, AllScans
<1>3. ASSUME NEW k \in Keys \cup Sources, Retain(k)
      PROVE  (ScanInv /\ AllScans)'
  BY <1>3, PsRetainTracks
<1>4. CASE Wake \/ CountEntries \/ CountRemoved \/ UNCHANGED vars
  <2>1. UNCHANGED <<clock, psState, psHits>>
    BY <1>4 DEF Wake, CountEntries, CountRemoved, vars
  <2> QED
    BY <2>1 DEF ScanInv, AllScans
<1> QED
  BY <1>1, <1>2, <1>3, <1>4 DEF Next, Cleanup, CleanupStep

LEMMA InitScans ==
  ASSUME DetectionAssumption, Init
  PROVE  ScanInv /\ AllScans
<1>1. psState = <<>> /\ \A s \in Sources : psHits[s] = <<>>
  BY DEF Init
<1>2. DOMAIN psState = {}
  BY <1>1
<1>3. Len(<<>>) = 0 /\ DOMAIN <<>> = {}
  OBVIOUS
<1>4. ASSUME NEW s \in Sources, ScanThreshold >= 1
      PROVE  ScanTracked(psState, s, <<>>, clock)
  <2>1. ASSUME NEW i \in 1..Len(<<>>) + 1
        PROVE  Forgotten(<<>>, i, clock, Span(PortScanWindow), ScanThreshold - 1, ScanThreshold - 1)
    <3>1. PICK v \in Nat : v = ScanThreshold - 1
      BY <1>4, ScanBoundNumbers
    <3>2. Len(<<>>) - i + 1 <= v + v
      BY <1>3, <3>1
    <3> QED
      BY <3>1, <3>2 DEF Forgotten
  <2> QED
    BY <1>2, <2>1 DEF ScanTracked
<1>5. \A s \in Sources : FromAlerts(OldLast(psState, s), psHits[s])
  BY <1>2 DEF FromAlerts, OldLast
<1>6. ScansNoticed(<<>>)
  BY <1>3 DEF ScansNoticed
<1> QED
  BY <1>1, <1>4, <1>5, <1>6 DEF ScanInv, AllScans

\* For every threshold, window, cooldown and stall: of 3 * (n - 1) + 1 probes of
\* one source within the window, or within a stall less than STATE_TTL where the
\* window is longer than that, on ports that differ as 16-bit numbers, one raises
\* an alert or comes within the cooldown of one, where n is PORT_SCAN_MAX_PORTS
\* (detection.rs:36-58, 123-172).
THEOREM ScansAreNoticed == Spec => []ScanIsNoticed
<1> DEFINE Inv == TypeOK /\ ReadingInv /\ ScanInv /\ AllScans
<1>1. Init => Inv
  <2>1. ASSUME Init
        PROVE  ReadingInv
    BY <2>1 DEF Init, Asleep, ReadingInv
  <2> QED
    BY <2>1, InitTyped, InitScans, DetectionAssumption
<1>2. Inv /\ [Next]_vars => Inv'
  BY StepTyped, StepReads, StepScans, DetectionAssumption
<1>3. Inv => ScanIsNoticed
  BY ScanAsLemma DEF AllScans
<1> QED BY <1>1, <1>2, <1>3, PTL DEF Spec

=============================================================================
