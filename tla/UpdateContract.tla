--------------------------- MODULE UpdateContract ---------------------------
(***************************************************************************)
(* What self-update promises of the binary, however many updaters there    *)
(* are and wherever they fail or are killed: the binary is replaced as a   *)
(* whole, by a version that was published, or is being copied over; and    *)
(* the agent runs what was installed when it started, as long as it runs.  *)
(*                                                                         *)
(* All that is off when updaters replaced the binary at once, or a copy    *)
(* was cut short: then it is spoilt.                                       *)
(***************************************************************************)
EXTENDS Naturals

CONSTANT MaxVersion

VARIABLES
  published,  \* the newest version there is
  installed,  \* the version that is installed, 0 for none
  copying,    \* a version is being copied over the installed one
  running,    \* the version the agent runs, 0 if it does not
  spoilt

vars == <<published, installed, copying, running, spoilt>>

Init ==
  /\ published = 1
  /\ installed = 1
  /\ copying = FALSE
  /\ running = 0
  /\ spoilt = FALSE

Publish ==
  /\ published < MaxVersion
  /\ published' = published + 1
  /\ UNCHANGED <<installed, copying, running, spoilt>>

\* Of the published versions any: a slow updater may bring an older one.
Install ==
  /\ installed' \in 1..published
  /\ copying' = FALSE
  /\ UNCHANGED <<published, running, spoilt>>

BeginCopy ==
  /\ ~copying
  /\ installed' = 0 /\ copying' = TRUE
  /\ UNCHANGED <<published, running, spoilt>>

Start ==
  /\ running = 0 /\ installed # 0
  /\ running' = installed
  /\ UNCHANGED <<published, installed, copying, spoilt>>

Stop ==
  /\ running' = 0
  /\ UNCHANGED <<published, installed, copying, spoilt>>

Spoil == spoilt' = TRUE

Next == Publish \/ Install \/ BeginCopy \/ Start \/ Stop \/ Spoil

Spec == Init /\ [][Next]_vars

=============================================================================
