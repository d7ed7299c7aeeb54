----------------------------- MODULE Detection -----------------------------
(***************************************************************************)
(* DetectionEngine (src/src/detection.rs): the brute-force and port-scan   *)
(* detectors that every request handler calls, the two concurrent maps     *)
(* they share, and the background task that cleans the maps up.            *)
(*                                                                         *)
(* A call reads the clock first and locks the map entry later, so the      *)
(* entry may be updated with a reading that is no longer the time: calls   *)
(* reach an entry in an order that is not the order of their readings.     *)
(*                                                                         *)
(* A definition directly above another, of the same shape and with a name  *)
(* that says what is wrong with it, is a plausible bug: PROJECT.json puts  *)
(* it in the place of the right one to show that a property notices.       *)
(***************************************************************************)
EXTENDS Integers, Sequences, FiniteSets, Functions

CONSTANTS
  Threads,           \* concurrent calls of evaluate
  Keys,              \* brute-force keys: source_ip:actor
  Sources,           \* port-scan keys: source_ip
  Ports,             \* the values of meta.target_port considered
  AuthMaxAttempts,   \* AUTH_MAX_ATTEMPTS, an i64
  AuthWindow,        \* AUTH_WINDOW_SECONDS
  PortScanMaxPorts,  \* PORT_SCAN_MAX_PORTS, an i64
  PortScanWindow,    \* PORT_SCAN_WINDOW_SECONDS
  AuthCooldown,      \* 60 s
  ScanCooldown,      \* 120 s
  StateTTL,          \* STATE_TTL, two hours
  MaxDuration,       \* the most seconds that chrono's Duration holds
  U16, U32, Usize,   \* 2^16, 2^32 and 2^64 (scaled down for TLC)
  OverflowChecks,    \* TRUE in a debug build: integer overflow panics
  MaxStall,          \* longest time between a call's reading and its update
  MaxTime,           \* bound: the clock stops here
  MaxHits            \* bound: updates of one entry

ASSUME DetectionAssumption ==
  /\ IsFiniteSet(Keys) /\ IsFiniteSet(Sources)    \* strings of bounded length
  /\ Ports \subseteq Nat
  /\ {AuthMaxAttempts, AuthWindow, PortScanMaxPorts, PortScanWindow} \subseteq Int
  /\ {AuthCooldown, ScanCooldown, StateTTL, MaxDuration} \subseteq Nat
  /\ {MaxStall, MaxTime, MaxHits} \subseteq Nat
  /\ {U16, U32, Usize} \subseteq Nat \ {0}
  /\ OverflowChecks \in BOOLEAN
  \* Two hours is longer than either cooldown and a stall.  The windows are as
  \* config.rs lets them through: negative, or longer than the state lives.
  /\ StateTTL > AuthCooldown + MaxStall /\ StateTTL > ScanCooldown + MaxStall

VARIABLES
  clock,     \* Utc::now()
  call,      \* call[t]: the evaluation that thread t is in, or NoCall
  bfState,   \* key |-> (count, start_time, last_alert), for the keys present
  psState,   \* source |-> (ports, start_time, last_alert)
  cleaner,   \* the cleanup task: where it is, and its local variables
  bfHits,    \* history: the updates of each key, in order
  psHits     \* history: the updates of each source, in order

vars == <<clock, call, bfState, psState, cleaner, bfHits, psHits>>

NoCall == [kind |-> "none"]

Times == 0..MaxTime

\* An Option is a set of at most one element.
Option(S) == {{}} \cup {{x} : x \in S}

BfEntry == [count : Nat, start : Times, last : Option(Times)]
PsEntry == [ports : SUBSET (0..U16 - 1), start : Times, last : Option(Times)]

\* m maps some of the keys K to entries in E.
IsMap(m, K, E) == DOMAIN m \subseteq K /\ m \in [DOMAIN m -> E]
Put(m, k, e) == [x \in DOMAIN m \cup {k} |-> IF x = k THEN e ELSE m[x]]
Drop(m, k) == [x \in DOMAIN m \ {k} |-> m[x]]

\* The cleanup task between two rounds; its locals are gone.
Asleep == [at |-> "asleep", map |-> "bf", now |-> 0, before |-> 0, todo |-> {}]

Init ==
  /\ clock = 0
  /\ call = [t \in Threads |-> NoCall]
  /\ bfState = <<>>
  /\ psState = <<>>
  /\ cleaner = Asleep
  /\ bfHits = [k \in Keys |-> <<>>]
  /\ psHits = [s \in Sources |-> <<>>]

\* Time passes, but no call stays behind its reading for longer than MaxStall.
Tick ==
  /\ clock < MaxTime
  /\ \A t \in Threads : call[t] # NoCall => clock - call[t].now < MaxStall
  /\ clock' = clock + 1
  /\ UNCHANGED <<call, bfState, psState, cleaner, bfHits, psHits>>

-----------------------------------------------------------------------------
(* evaluate.                                                               *)

\* `x as u32` and the like: the low bits.
AuthThreshold == AuthMaxAttempts % U32
ScanThreshold == PortScanMaxPorts % Usize
NotTruncated(p) == p
AsU16(p) == p % U16

\* Duration::seconds panics on a window that it cannot hold.
Holds(window) == window \in -MaxDuration..MaxDuration

\* A call starts: it computes its key and reads the clock.  Events of other
\* types, scans without a port, and calls that panic at their window change
\* nothing.
StartBruteforce(t, k) ==
  /\ call[t] = NoCall
  /\ Holds(AuthWindow)
  /\ Len(bfHits[k]) < MaxHits
  /\ call' = [call EXCEPT ![t] = [kind |-> "bf", key |-> k, now |-> clock]]
  /\ UNCHANGED <<clock, bfState, psState, cleaner, bfHits, psHits>>

StartPortscan(t, s, p) ==
  /\ call[t] = NoCall
  /\ Holds(PortScanWindow)
  /\ Len(psHits[s]) < MaxHits
  /\ call' = [call EXCEPT ![t] = [kind |-> "ps", key |-> s, port |-> p, now |-> clock]]
  /\ UNCHANGED <<clock, bfState, psState, cleaner, bfHits, psHits>>

\* The window that began at start is over.
WindowOver(now, start, window) == now - start > window

\* The alert time, if there is one, is longer ago than the cooldown.
CooldownForgotten(now, last, cooldown) == TRUE
CooldownOver(now, last, cooldown) == \A ts \in last : now - ts > cooldown

OneAbove(n, threshold) == n > threshold
ThresholdMet(n, threshold) == n >= threshold

\* start_time after a hit within the window, and after one that opens a new one.
Sliding(e, now, over) == now
StartOf(e, now, over) == IF over THEN now ELSE e.start

NotCleared(e, over) == e.ports
AlwaysCleared(e, over) == {}
PortsKept(e, over) == IF over THEN {} ELSE e.ports

CountKept(e, over) == e.count
CountBefore(e, over) == IF over THEN 0 ELSE e.count

\* The entry of key k is locked, created if absent, and updated.
UpdateBruteforce(t) ==
  /\ call[t].kind = "bf"
  /\ LET k     == call[t].key
         now   == call[t].now
         e     == IF k \in DOMAIN bfState THEN bfState[k]
                  ELSE [count |-> 0, start |-> now, last |-> {}]
         over  == WindowOver(now, e.start, AuthWindow)
         n     == CountBefore(e, over) + 1
         alert == /\ ThresholdMet(n, AuthThreshold)
                  /\ CooldownOver(now, e.last, AuthCooldown)
     IN /\ bfState' = Put(bfState, k, [count |-> n,
                                       start |-> StartOf(e, now, over),
                                       last  |-> IF alert THEN {now} ELSE e.last])
        /\ bfHits' = [bfHits EXCEPT ![k] = Append(@, [at |-> now, alert |-> alert])]
  /\ call' = [call EXCEPT ![t] = NoCall]
  /\ UNCHANGED <<clock, psState, cleaner, psHits>>

UpdatePortscan(t) ==
  /\ call[t].kind = "ps"
  /\ LET s     == call[t].key
         now   == call[t].now
         e     == IF s \in DOMAIN psState THEN psState[s]
                  ELSE [ports |-> {}, start |-> now, last |-> {}]
         over  == WindowOver(now, e.start, PortScanWindow)
         ports == PortsKept(e, over) \cup {AsU16(call[t].port)}
         alert == /\ ThresholdMet(Cardinality(ports), ScanThreshold)
                  /\ CooldownOver(now, e.last, ScanCooldown)
     IN /\ psState' = Put(psState, s, [ports |-> ports,
                                       start |-> StartOf(e, now, over),
                                       last  |-> IF alert THEN {now} ELSE e.last])
        /\ psHits' = [psHits EXCEPT ![s] = Append(@, [at |-> now, alert |-> alert,
                                                      port |-> call[t].port])]
  /\ call' = [call EXCEPT ![t] = NoCall]
  /\ UNCHANGED <<clock, bfState, cleaner, bfHits>>

-----------------------------------------------------------------------------
(* The cleanup task: for each map, count it, drop expired entries one      *)
(* lock at a time while the detectors go on, and count it again.           *)

Size(map) == IF map = "bf" THEN Cardinality(DOMAIN bfState)
                           ELSE Cardinality(DOMAIN psState)

\* The alert time if there is one, the start of the window if not.
LastActivity(e) == IF e.last = {} THEN e.start ELSE CHOOSE ts \in e.last : TRUE

EagerlyExpired(e, now) == now - LastActivity(e) >= 0
Expired(e, now) == now - LastActivity(e) >= StateTTL

ReadOnce == 0
CleanupNow == clock

\* The interval fires (at once, then every half hour).
Wake ==
  /\ cleaner.at = "asleep"
  /\ cleaner' = [cleaner EXCEPT !.at = "len", !.now = CleanupNow]
  /\ UNCHANGED <<clock, call, bfState, psState, bfHits, psHits>>

CountEntries ==
  /\ cleaner.at = "len"
  /\ cleaner' = [cleaner EXCEPT !.at = "retain", !.before = Size(cleaner.map),
                                !.todo = IF cleaner.map = "bf" THEN Keys ELSE Sources]
  /\ UNCHANGED <<clock, call, bfState, psState, bfHits, psHits>>

\* retain reaches entry k, if it is there.
Retain(k) ==
  /\ cleaner.at = "retain"
  /\ k \in cleaner.todo
  /\ cleaner' = [cleaner EXCEPT !.todo = @ \ {k}]
  /\ bfState' = IF cleaner.map = "bf" /\ k \in DOMAIN bfState
                     /\ Expired(bfState[k], cleaner.now)
                  THEN Drop(bfState, k) ELSE bfState
  /\ psState' = IF cleaner.map = "ps" /\ k \in DOMAIN psState
                     /\ Expired(psState[k], cleaner.now)
                  THEN Drop(psState, k) ELSE psState
  /\ UNCHANGED <<clock, call, bfHits, psHits>>

\* before - len(), in usize: when entries have been added meanwhile this
\* panics in a debug build, and wraps (only a log line shows it) otherwise.
CountRemoved ==
  /\ cleaner.at = "retain"
  /\ cleaner.todo = {}
  /\ cleaner' =
       IF OverflowChecks /\ Size(cleaner.map) > cleaner.before
         THEN [Asleep EXCEPT !.at = "panicked"]
         ELSE IF cleaner.map = "bf"
                THEN [cleaner EXCEPT !.at = "len", !.map = "ps", !.before = 0]
                ELSE Asleep
  /\ UNCHANGED <<clock, call, bfState, psState, bfHits, psHits>>

-----------------------------------------------------------------------------
Evaluate(t) == \/ \E k \in Keys : StartBruteforce(t, k)
               \/ \E s \in Sources, p \in Ports : StartPortscan(t, s, p)
               \/ UpdateBruteforce(t)
               \/ UpdatePortscan(t)

CleanupStep == CountEntries \/ CountRemoved \/ \E k \in Keys \cup Sources : Retain(k)

Cleanup == Wake \/ CleanupStep

Next == Tick \/ Cleanup \/ \E t \in Threads : Evaluate(t)

Spec == Init /\ [][Next]_vars

\* The timer keeps firing and the runtime keeps polling the cleanup task.
FairSpec == Spec /\ WF_vars(Wake) /\ WF_vars(CleanupStep)

-----------------------------------------------------------------------------
(* Properties.                                                             *)

CleanerStates == {"asleep", "len", "retain", "panicked"}

Calls == {NoCall}
         \cup [kind : {"bf"}, key : Keys, now : Times]
         \cup [kind : {"ps"}, key : Sources, port : Ports, now : Times]

BfHit == [at : Times, alert : BOOLEAN]
PsHit == [at : Times, alert : BOOLEAN, port : Ports]

\* Every variable has its type; a map holds only keys that were evaluated.
TypeOK ==
  /\ clock \in Times
  /\ call \in [Threads -> Calls]
  /\ IsMap(bfState, Keys, BfEntry)
  /\ IsMap(psState, Sources, PsEntry)
  /\ cleaner \in [at : CleanerStates, map : {"bf", "ps"}, now : Times,
                  before : Nat, todo : SUBSET (Keys \cup Sources)]
  /\ bfHits \in [Keys -> Seq(BfHit)]
  /\ psHits \in [Sources -> Seq(PsHit)]

\* The last n hits of h, by index.
Latest(h, n) == Len(h) - n + 1..Len(h)

\* The last n hits of h are one window: the oldest of them opened it at start,
\* and none of them came after its end.
OneWindow(h, n, start, window) ==
  /\ n \in 1..Len(h)
  /\ h[Len(h) - n + 1].at = start
  /\ \A i \in Latest(h, n) : h[i].at <= start + window

\* The count that an alert reports is true: the last `count` hits on the key
\* are one window, however calls and cleanups interleave.
CountIsTruthful ==
  \A k \in DOMAIN bfState :
    OneWindow(bfHits[k], bfState[k].count, bfState[k].start, AuthWindow)

\* The same for ports: the set holds the ports of the hits since the window
\* opened, each cut to 16 bits, and nothing from an earlier window.
PortsAreTruthful ==
  \A s \in DOMAIN psState :
    LET h == psHits[s]  e == psState[s] IN
      \E n \in 1..Len(h) : /\ OneWindow(h, n, e.start, PortScanWindow)
                          /\ e.ports = {AsU16(h[i].port) : i \in Latest(h, n)}

Spaced(h, cooldown) ==
  \A i, j \in DOMAIN h : i < j /\ h[i].alert /\ h[j].alert => h[j].at - h[i].at > cooldown

\* Two alerts for one key are further apart than the cooldown, although calls
\* race with stale readings and the cleanup deletes the time of the last alert.
CooldownHolds ==
  /\ \A k \in Keys : Spaced(bfHits[k], AuthCooldown)
  /\ \A s \in Sources : Spaced(psHits[s], ScanCooldown)

\* How far apart two hits may be and still be counted together, whatever the
\* cleanup does: a window, or what STATE_TTL leaves of it.  The state of a source
\* that has raised no alert goes two hours after its window has opened, so hits
\* spread over a longer window than that may never be counted together.
Span(window) == IF StateTTL > window + MaxStall THEN window ELSE StateTTL - MaxStall - 1

\* The hits i..j of h were read within that time of each other.
Burst(h, i, j, span) == \A a, b \in i..j : h[a].at - h[b].at <= span

\* Of the hits i..j of h one raised an alert, or came within the cooldown of
\* an earlier alert.
Noticed(h, i, j, cooldown) ==
  \E b \in i..j : \E a \in 1..b : h[a].alert /\ h[b].at - h[a].at <= cooldown

\* How many hits are enough.  In a burst the window may roll over once, when
\* the entry has counted one hit or more before it, and the cleanup may delete
\* the entry once: at most (n - 2) + (n - 1) hits are then forgotten before n
\* are counted together.
Enough(n) == IF n <= 1 THEN 1 ELSE 3 * (n - 1)

\* For ports it takes one more: the hit before the burst may have been on a port
\* that the burst comes to later.
EnoughPorts(n) == IF n = 0 THEN 1 ELSE 3 * (n - 1) + 1

\* An attack is not missed: a burst of enough failed logins on one key, within
\* the window and within what the state's two hours leave of it, raises an alert
\* or falls into the cooldown of one, whatever window is configured.  (The
\* detector that a negative window, a threshold of -1 or a window that no
\* Duration holds turns off has no such bursts.)
BurstIsNoticed ==
  \A k \in Keys : LET h == bfHits[k] IN
    \A i, j \in DOMAIN h :
      j - i + 1 >= Enough(AuthThreshold) /\ Burst(h, i, j, Span(AuthWindow))
        => Noticed(h, i, j, AuthCooldown)

\* The same for scans: EnoughPorts(...) hits, on ports that are all different as
\* 16-bit numbers.
ScanIsNoticed ==
  \A s \in Sources : LET h == psHits[s] IN
    \A i, j \in DOMAIN h :
      /\ j - i + 1 >= EnoughPorts(ScanThreshold)
      /\ Burst(h, i, j, Span(PortScanWindow))
      /\ \A a, b \in i..j : a # b => AsU16(h[a].port) # AsU16(h[b].port)
      => Noticed(h, i, j, ScanCooldown)

\* start_time and last_alert of an entry never move back while the entry
\* lives, even when a call with an old reading updates it last.
EntryMovesForward ==
  [][\A k \in Keys :
       k \in DOMAIN bfState /\ k \in DOMAIN bfState' =>
         /\ bfState[k].start <= bfState'[k].start
         /\ \A ts \in bfState[k].last : \E ts2 \in bfState'[k].last : ts <= ts2]_vars

Stale(m, k) == k \in DOMAIN m /\ Expired(m[k], clock)

\* Entries that have expired do not stay: they are removed, or used again.
\* The comment at detection.rs:29-30 promises this of the cleanup task.
ExpiredStateIsRemoved ==
  /\ \A k \in Keys : Stale(bfState, k) ~> ~Stale(bfState, k)
  /\ \A s \in Sources : Stale(psState, s) ~> ~Stale(psState, s)
=============================================================================
