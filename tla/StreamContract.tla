--------------------------- MODULE StreamContract ---------------------------
(***************************************************************************)
(* What a stream promises the gateway, whatever reads it, however full the *)
(* channel is and whoever else writes: the output of each of its pipes     *)
(* arrives chunk by chunk, without a gap and without repetition; the end   *)
(* comes after all of it and says how: an end, if all there was to give    *)
(* has arrived, or a failure, if there was one.  That it comes is not      *)
(* promised here: the connection may be lost.                              *)
(*                                                                         *)
(* A stream is spoilt when a read of its source failed or the source was   *)
(* changed under it: it may then end short, or have more to give.          *)
(***************************************************************************)
EXTENDS Naturals

CONSTANTS Requests, Channels, MaxOutput

VARIABLES
  offered,    \* chunks each pipe of a stream has to give so far
  received,   \* chunks of it the gateway has received
  ended,      \* how the stream has ended, for the gateway
  spoilt      \* streams whose source failed or changed

vars == <<offered, received, ended, spoilt>>

Init ==
  /\ offered = [s \in Requests |-> [c \in Channels |-> 0]]
  /\ received = [s \in Requests |-> [c \in Channels |-> 0]]
  /\ ended = [s \in Requests |-> "no"]
  /\ spoilt = {}

\* A stream that came to its end has nothing more to give.
Offer(s, c) ==
  /\ ended[s] = "end" => s \in spoilt
  /\ \E n \in (offered[s][c] + 1)..MaxOutput :
       offered' = [offered EXCEPT ![s][c] = n]
  /\ UNCHANGED <<received, ended, spoilt>>

Receive(s, c) ==
  /\ ended[s] = "no"
  /\ received[s][c] < offered[s][c] \/ s \in spoilt
  /\ received' = [received EXCEPT ![s][c] = @ + 1]
  /\ UNCHANGED <<offered, ended, spoilt>>

End(s) ==
  /\ ended[s] = "no"
  /\ received[s] = offered[s] \/ s \in spoilt
  /\ ended' = [ended EXCEPT ![s] = "end"]
  /\ UNCHANGED <<offered, received, spoilt>>

\* No stream is called a failure that was none.
FailedEnd(s) ==
  /\ ended[s] = "no" /\ s \in spoilt
  /\ ended' = [ended EXCEPT ![s] = "failed_end"]
  /\ UNCHANGED <<offered, received, spoilt>>

Spoil(S) ==
  /\ spoilt' = spoilt \cup S
  /\ UNCHANGED <<offered, received, ended>>

Next ==
  \/ \E s \in Requests :
       \/ \E c \in Channels : Offer(s, c) \/ Receive(s, c)
       \/ End(s) \/ FailedEnd(s)
  \/ \E S \in SUBSET Requests : Spoil(S)

Spec == Init /\ [][Next]_vars

=============================================================================
