-------------------------- MODULE MetricsContract --------------------------
(***************************************************************************)
(* What the metrics path promises about each sample, whatever the table,   *)
(* the tasks and the channel look like: a sample is kept until it has been *)
(* handed to a connection or has outlived its retention, and nothing       *)
(* reaches the gateway that was not handed over.  What was handed over may *)
(* be lost in transit, and may be handed over again.                       *)
(*                                                                         *)
(* A sample is its identity, and an identity is used once.                 *)
(***************************************************************************)
CONSTANT Samples

VARIABLES
  kept,       \* samples the agent still owes the gateway
  expired,    \* samples dropped by retention while they were kept
  handed,     \* samples given to a connection at least once
  transit,    \* samples of which a copy is on its way
  delivered   \* samples the gateway has received

vars == <<kept, expired, handed, transit, delivered>>

Known == kept \cup expired \cup handed

Init ==
  /\ kept = {}
  /\ expired = {}
  /\ handed = {}
  /\ transit = {}
  /\ delivered = {}

Sample(i) ==
  /\ i \notin Known
  /\ kept' = kept \cup {i}
  /\ UNCHANGED <<expired, handed, transit, delivered>>

HandOver(S) ==
  /\ handed' = handed \cup S
  /\ transit' = transit \cup S
  /\ UNCHANGED <<kept, expired, delivered>>

\* The agent stops owing only what it handed over.
Release(S) ==
  /\ S \subseteq handed
  /\ kept' = kept \ S
  /\ UNCHANGED <<expired, handed, transit, delivered>>

Expire(S) ==
  /\ kept' = kept \ S
  /\ expired' = expired \cup S
  /\ UNCHANGED <<handed, transit, delivered>>

\* Another copy of a delivered sample may still be on its way.
Deliver(S) ==
  /\ delivered' = delivered \cup S
  /\ transit' \subseteq transit
  /\ transit \ S \subseteq transit'
  /\ UNCHANGED <<kept, expired, handed>>

Lose ==
  /\ transit' \subseteq transit
  /\ UNCHANGED <<kept, expired, handed, delivered>>

Next ==
  \/ \E i \in Samples : Sample(i)
  \/ \E S \in SUBSET Known : HandOver(S)
  \/ \E S \in SUBSET kept : Release(S)
  \/ \E S \in SUBSET kept : Expire(S)
  \/ \E S \in SUBSET transit : Deliver(S)
  \/ Lose

Spec == Init /\ [][Next]_vars

=============================================================================
