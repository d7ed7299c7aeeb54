----------------------------- MODULE EventSink -----------------------------
(***************************************************************************)
(* What the ingestion path promises, with the channel, the worker and the  *)
(* SQL left out.  Accepted events wait in order; they leave only from the  *)
(* front, in groups of at most MaxGroup, and a group is stored as a whole  *)
(* or lost as a whole.  When the process ends, everything still waiting is *)
(* lost, except that the group being committed at that moment may have     *)
(* reached the database.                                                   *)
(***************************************************************************)
EXTENDS Naturals, Sequences, Functions

CONSTANTS Events,    \* the events that may ever be submitted
          MaxGroup   \* the most events one database transaction covers

VARIABLES pending,   \* accepted events, oldest first
          stored,    \* events with a row in the database
          lost       \* accepted events that have none and never will

vars == <<pending, stored, lost>>

TypeOK == /\ pending \in Seq(Events)
          /\ stored \subseteq Events
          /\ lost \subseteq Events

Init == /\ pending = <<>>
        /\ stored = {}
        /\ lost = {}

\* The first n pending events, and the ones behind them.
Front(n) == Range(SubSeq(pending, 1, n))
Rest(n)  == SubSeq(pending, n + 1, Len(pending))

\* An event enters once, at the back.
Accept(e) ==
  /\ e \notin Range(pending) \cup stored \cup lost
  /\ pending' = Append(pending, e)
  /\ UNCHANGED <<stored, lost>>

\* A group of n events is committed.
Store(n) ==
  /\ n <= Len(pending)
  /\ stored' = stored \cup Front(n)
  /\ pending' = Rest(n)
  /\ UNCHANGED lost

\* A group of n events is given up.
Lose(n) ==
  /\ n <= Len(pending)
  /\ lost' = lost \cup Front(n)
  /\ pending' = Rest(n)
  /\ UNCHANGED stored

\* The process ends: the group of n events in its last transaction is in the
\* database, the rest of memory is gone.
Collapse(n) ==
  /\ n <= Len(pending)
  /\ stored' = stored \cup Front(n)
  /\ lost' = lost \cup Range(Rest(n))
  /\ pending' = <<>>

Next == \/ \E e \in Events : Accept(e)
        \/ \E n \in 0..MaxGroup : Store(n) \/ Lose(n) \/ Collapse(n)

Spec == Init /\ [][Next]_vars
=============================================================================
