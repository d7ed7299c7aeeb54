----------------------------- MODULE AtMostOnce -----------------------------
(***************************************************************************)
(* What the way from an agent to the topic promises, and all that it       *)
(* promises: events are made one after the other, each ends in the log at  *)
(* most once, what is in the log stays where it is, and an event that was  *)
(* given up never turns up in it.  No order is promised, and nothing keeps *)
(* an event from being given up.                                           *)
(***************************************************************************)
EXTENDS Naturals, Sequences, SequencesExt

VARIABLES
  made,  \* the events 1, ..., made exist
  log,   \* the topic, as its consumers will read it
  lost   \* events given up

vars == <<made, log, lost>>

Init ==
  /\ made = 0
  /\ log = <<>>
  /\ lost = {}

\* An event is made.
Make ==
  /\ made' = made + 1
  /\ UNCHANGED <<log, lost>>

\* Some events reach the end of the log, some are given up.
Settle ==
  /\ UNCHANGED made
  /\ IsPrefix(log, log')
  /\ lost \subseteq lost'
  /\ IsInjective(log')
  /\ ToSet(log') \cup lost' \subseteq 1..made
  /\ ToSet(log') \cap lost' = {}

Spec == Init /\ [][Make \/ Settle]_vars
=============================================================================
