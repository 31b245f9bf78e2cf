-------------------------- MODULE AgentConnection --------------------------
(***************************************************************************)
(* The agent's credentials, in memory and on disk, through registration,   *)
(* reconnection, key rotation, failing saves and crashes, and the backoff  *)
(* of the connection loop (src/src/connection.rs, config.rs,               *)
(* dispatcher.rs, main.rs).                                                *)
(*                                                                         *)
(* Keys are numbered in the order the gateway issues them; 0 is the empty  *)
(* string.  The gateway is external and modelled by what the agent relies  *)
(* on: a registration token is good once; a rotation is sent only when the *)
(* one before it on the same connection has been answered; old and new key *)
(* are both good until the answer has come.                                *)
(***************************************************************************)
EXTENDS Naturals, Sequences, FiniteSetsExt

CONSTANTS
  MaxBackoff,     \* connection.reconnect_max_delay_secs
  MaxKeys,        \* bound: keys the gateway issues
  MaxFaults,      \* bound: failed dials, connection losses and crashes
  MaxSaveErrors   \* bound: failing saves of the configuration file

ASSUME BackoffAssumption == MaxBackoff \in Nat
ASSUME ConnectionBounds ==
  MaxKeys \in Nat /\ MaxFaults \in Nat /\ MaxSaveErrors \in Nat

VARIABLES
  mem,          \* the credentials of the shared configuration
  disk,         \* the credentials of the configuration file
  phase,        \* where the connection loop is
  snapshot,     \* the credentials connect_and_run copied out of mem
  backoff,      \* backoff_secs
  long,         \* this attempt has lasted for more than 30 seconds
  rotations,    \* rotate_key requests being handled, one task each
  up,           \* messages to the gateway on this connection
  down,         \* messages from the gateway on this connection
  \* the gateway
  issued,       \* keys issued so far
  accepted,     \* keys it lets in
  tokenUsed,    \* the registration token has been traded for a key
  session,      \* what it has made of this connection
  rotating,     \* it waits for the answer to a rotation
  \* history, read by no action's guard
  failures,     \* attempts ended since the backoff was last at its start
  spoilt,       \* what may have spoilt the credentials
  faults,
  saveErrors

credentialVars == <<mem, disk>>
loopVars == <<phase, snapshot, backoff, long, failures>>
linkVars == <<up, down>>
gatewayVars == <<issued, accepted, tokenUsed, session, rotating>>
boundVars == <<faults, saveErrors>>
vars == <<credentialVars, loopVars, rotations, linkVars, gatewayVars,
          spoilt, boundVars>>

NoKey == 0
Keys == 1..MaxKeys
Credentials == [key : Keys \cup {NoKey}, token : BOOLEAN]
Rotation == [key : Keys, live : BOOLEAN, step : {"apply", "ok", "fail"}]
ToGateway ==
  [type : {"register", "reconnect", "ok", "fail"}, key : Keys \cup {NoKey}]
ToAgent ==
  [type : {"registered", "welcome", "refused", "rotate"},
   key : Keys \cup {NoKey}]
Message(type, key) == [type |-> type, key |-> key]

TypeOK ==
  /\ mem \in Credentials
  /\ disk \in Credentials
  /\ phase \in {"down", "idle", "dialing", "open", "waiting"}
  /\ snapshot \in Credentials
  /\ backoff \in {1} \cup 0..MaxBackoff
  /\ long \in BOOLEAN
  /\ rotations \subseteq Rotation
  /\ up \in Seq(ToGateway)
  /\ down \in Seq(ToAgent)
  /\ issued \in 0..MaxKeys
  /\ accepted \subseteq 1..issued
  /\ tokenUsed \in BOOLEAN
  /\ session \in {"none", "auth", "refused"}
  /\ rotating \in BOOLEAN
  /\ failures \in Nat
  /\ spoilt \subseteq {"issue_lost", "overtaken", "registration_unsaved",
                       "rotation_unsaved"}
  /\ faults \in Nat
  /\ saveErrors \in Nat

\* install.sh has written a configuration with a registration token.
Fresh == [key |-> NoKey, token |-> TRUE]

Init ==
  /\ mem = Fresh
  /\ disk = Fresh
  /\ phase = "idle"
  /\ snapshot = Fresh
  /\ backoff = 1
  /\ long = FALSE
  /\ rotations = {}
  /\ up = << >>
  /\ down = << >>
  /\ issued = 0
  /\ accepted = {}
  /\ tokenUsed = FALSE
  /\ session = "none"
  /\ rotating = FALSE
  /\ failures = 0
  /\ spoilt = {}
  /\ faults = 0
  /\ saveErrors = 0

Fault ==
  /\ faults < MaxFaults
  /\ faults' = faults + 1

SaveError ==
  /\ saveErrors < MaxSaveErrors
  /\ saveErrors' = saveErrors + 1

-----------------------------------------------------------------------------
(* The configuration.                                                      *)

Loadable(c) == c.key # NoKey \/ c.token

NeedsRegistration(c) == c.key = NoKey

SetCredentialsKeyLost(c, k) == [c EXCEPT !.token = FALSE]
SetCredentials(c, k) == [key |-> k, token |-> FALSE]

\* Temp file and rename: the file has the new content or the old.  mem has
\* the new one either way; cause names what a failure may spoil.
Save(cause) ==
  \/ /\ disk' = mem'
     /\ spoilt' = spoilt \ {cause}
     /\ UNCHANGED saveErrors
  \/ /\ SaveError
     /\ spoilt' = spoilt \cup {cause}
     /\ UNCHANGED disk

-----------------------------------------------------------------------------
(* The connection loop.                                                    *)

DialWithOldSnapshot ==
  /\ phase = "idle"
  /\ phase' = "dialing"
  /\ long' = FALSE
  /\ UNCHANGED <<credentialVars, snapshot, backoff, failures, rotations,
                 linkVars, gatewayVars, spoilt, boundVars>>

\* connect_and_run copies the credentials and lets go of the lock.
Dial ==
  /\ phase = "idle"
  /\ phase' = "dialing"
  /\ snapshot' = mem
  /\ long' = FALSE
  /\ UNCHANGED <<credentialVars, backoff, failures, rotations, linkVars,
                 gatewayVars, spoilt, boundVars>>

Greeting(c) ==
  IF NeedsRegistration(c) THEN Message("register", NoKey)
  ELSE Message("reconnect", c.key)

Connected ==
  /\ phase = "dialing"
  /\ phase' = "open"
  /\ up' = <<Greeting(snapshot)>>
  /\ UNCHANGED <<credentialVars, snapshot, backoff, long, failures,
                 rotations, down, gatewayVars, spoilt, boundVars>>

\* More than 30 seconds since the attempt began, connected or not.
AttemptIsLong ==
  /\ phase \in {"dialing", "open"}
  /\ long' = TRUE
  /\ UNCHANGED <<credentialVars, phase, snapshot, backoff, failures,
                 rotations, linkVars, gatewayVars, spoilt, boundVars>>

IssueInFlight == \E n \in DOMAIN down : down[n].type = "registered"

\* Nothing on the connection arrives any more; the tasks of its requests run
\* on, but their answers have no channel left to go to.
HangUp ==
  /\ up' = << >>
  /\ down' = << >>
  /\ session' = "none"
  /\ rotating' = FALSE
  /\ UNCHANGED <<issued, accepted, tokenUsed>>

StrayRotations == {[r EXCEPT !.live = FALSE] : r \in
                     {q \in rotations : q.step = "apply"}}

EndAttemptKeepsBackoff ==
  /\ Fault
  /\ phase \in {"dialing", "open"}
  /\ phase' = "waiting"
  /\ failures' = IF long THEN 1 ELSE failures + 1
  /\ rotations' = StrayRotations
  /\ spoilt' = IF IssueInFlight THEN spoilt \cup {"issue_lost"} ELSE spoilt
  /\ HangUp
  /\ UNCHANGED <<credentialVars, snapshot, backoff, long,
                 saveErrors>>

\* The dial fails or the connection is lost: connect_and_run returns Err.
EndAttempt ==
  /\ Fault
  /\ phase \in {"dialing", "open"}
  /\ phase' = "waiting"
  /\ backoff' = IF long THEN 1 ELSE backoff
  /\ failures' = IF long THEN 1 ELSE failures + 1
  /\ rotations' = StrayRotations
  /\ spoilt' = IF IssueInFlight THEN spoilt \cup {"issue_lost"} ELSE spoilt
  /\ HangUp
  /\ UNCHANGED <<credentialVars, snapshot, long, saveErrors>>

DoubledUncapped == backoff * 2
Doubled == Min({backoff * 2, MaxBackoff})

Wake ==
  /\ phase = "waiting"
  /\ phase' = "idle"
  /\ backoff' = Doubled
  /\ UNCHANGED <<credentialVars, snapshot, long, failures, rotations,
                 linkVars, gatewayVars, spoilt, boundVars>>

\* The memory is lost with the process; a registration that is not on disk
\* is lost with it.
Crash ==
  /\ Fault
  /\ phase # "down"
  /\ phase' = "down"
  /\ rotations' = {}
  /\ spoilt' =
       (IF IssueInFlight \/ "registration_unsaved" \in spoilt
        THEN spoilt \cup {"issue_lost"} ELSE spoilt)
       \ {"rotation_unsaved"}
  /\ HangUp
  /\ UNCHANGED <<credentialVars, snapshot, backoff, long, failures,
                 saveErrors>>

\* main loads and checks the file; systemd tries again for as long as it fails.
Start ==
  /\ phase = "down"
  /\ Loadable(disk)
  /\ phase' = "idle"
  /\ mem' = disk
  /\ backoff' = 1
  /\ failures' = 0
  /\ UNCHANGED <<disk, snapshot, long, rotations, linkVars,
                 gatewayVars, spoilt, boundVars>>

-----------------------------------------------------------------------------
(* The receive loop and the tasks it spawns.                               *)

Take(type) ==
  /\ phase = "open"
  /\ down # << >>
  /\ Head(down).type = type
  /\ down' = Tail(down)

\* Awaited by the receive loop; the lock is held until the save is over.
ReceiveRegistered ==
  /\ Take("registered")
  /\ mem' = SetCredentials(mem, Head(down).key)
  /\ Save("registration_unsaved")
  /\ UNCHANGED <<loopVars, rotations, up, gatewayVars, faults>>

ReceiveWelcome ==
  /\ Take("welcome")
  /\ UNCHANGED <<credentialVars, loopVars, rotations, up, gatewayVars,
                 spoilt, boundVars>>

\* Logged, whatever the error code says; the connection stays.
ReceiveRefused ==
  /\ Take("refused")
  /\ UNCHANGED <<credentialVars, loopVars, rotations, up, gatewayVars, spoilt,
                 boundVars>>

ReceiveRotate ==
  /\ Take("rotate")
  /\ rotations' = rotations \cup
       {[key |-> Head(down).key, live |-> TRUE, step |-> "apply"]}
  /\ UNCHANGED <<credentialVars, loopVars, up, gatewayVars, spoilt,
                 boundVars>>

AnswerTo(r, outcome) == IF r.live THEN {[r EXCEPT !.step = outcome]} ELSE {}

RotateKeyAnswersFirst(r) ==
  /\ r.step = "apply"
  /\ r.live
  /\ rotations' = (rotations \ {r}) \cup AnswerTo(r, "ok")
                    \cup {[r EXCEPT !.live = FALSE]}
  /\ UNCHANGED <<credentialVars, loopVars, linkVars, gatewayVars,
                 spoilt, boundVars>>

RotateKeyUnsaved(r) ==
  /\ r.step = "apply"
  /\ mem' = [mem EXCEPT !.key = r.key]
  /\ rotations' = (rotations \ {r}) \cup AnswerTo(r, "ok")
  /\ UNCHANGED <<disk, loopVars, linkVars, gatewayVars, spoilt,
                 boundVars>>

\* Under the write lock: memory first, then the file.
RotateKey(r) ==
  /\ r.step = "apply"
  /\ mem' = [mem EXCEPT !.key = r.key]
  /\ \/ /\ disk' = mem'
        /\ rotations' = (rotations \ {r}) \cup AnswerTo(r, "ok")
        /\ spoilt' = (spoilt \ {"registration_unsaved", "rotation_unsaved"})
                       \cup (IF Max({mem.key, disk.key}) > r.key
                             THEN {"overtaken"} ELSE {})
        /\ UNCHANGED saveErrors
     \/ /\ SaveError
        /\ rotations' = (rotations \ {r}) \cup AnswerTo(r, "fail")
        /\ spoilt' = spoilt \cup {"rotation_unsaved"}
        /\ UNCHANGED disk
  /\ UNCHANGED <<loopVars, linkVars, gatewayVars, faults>>

AnswerRotation(r) ==
  /\ r.step \in {"ok", "fail"}
  /\ up' = Append(up, Message(r.step, r.key))
  /\ rotations' = rotations \ {r}
  /\ UNCHANGED <<credentialVars, loopVars, down, gatewayVars, spoilt,
                 boundVars>>

-----------------------------------------------------------------------------
(* The gateway.                                                            *)

Hear(type) ==
  /\ up # << >>
  /\ Head(up).type = type
  /\ up' = Tail(up)
  /\ UNCHANGED <<credentialVars, loopVars, rotations, spoilt,
                 boundVars>>

GatewayRegisters ==
  /\ Hear("register")
  /\ ~tokenUsed
  /\ issued < MaxKeys
  /\ tokenUsed' = TRUE
  /\ issued' = issued + 1
  /\ accepted' = {issued'}
  /\ session' = "auth"
  /\ down' = Append(down, Message("registered", issued'))
  /\ UNCHANGED rotating

GatewayWelcomes ==
  /\ Hear("reconnect")
  /\ Head(up).key \in accepted
  /\ session' = "auth"
  /\ down' = Append(down, Message("welcome", NoKey))
  /\ UNCHANGED <<issued, accepted, tokenUsed, rotating>>

GatewayRefuses ==
  /\ \/ Hear("register") /\ tokenUsed
     \/ Hear("reconnect") /\ Head(up).key \notin accepted
  /\ session' = "refused"
  /\ down' = Append(down, Message("refused", NoKey))
  /\ UNCHANGED <<issued, accepted, tokenUsed, rotating>>

GatewayRotates ==
  /\ session = "auth"
  /\ ~rotating
  /\ issued < MaxKeys
  /\ issued' = issued + 1
  /\ accepted' = accepted \cup {issued'}
  /\ rotating' = TRUE
  /\ down' = Append(down, Message("rotate", issued'))
  /\ UNCHANGED <<credentialVars, loopVars, rotations, up, tokenUsed, session,
                 spoilt, boundVars>>

GatewayHearsAnswer ==
  /\ \/ Hear("ok") /\ accepted' = {Head(up).key}
     \/ Hear("fail") /\ accepted' = accepted \ {Head(up).key}
  /\ rotating' = FALSE
  /\ UNCHANGED <<down, issued, tokenUsed, session>>

-----------------------------------------------------------------------------
ConnectionLoop ==
  \/ Dial \/ Connected \/ AttemptIsLong
  \/ EndAttempt \/ Wake \/ Crash \/ Start

Agent ==
  \/ ReceiveRegistered \/ ReceiveWelcome \/ ReceiveRefused \/ ReceiveRotate
  \/ \E r \in rotations : RotateKey(r) \/ AnswerRotation(r)

Gateway ==
  \/ GatewayRegisters \/ GatewayWelcomes \/ GatewayRefuses \/ GatewayRotates
  \/ GatewayHearsAnswer

Next == ConnectionLoop \/ Agent \/ Gateway

Spec == Init /\ [][Next]_vars

\* Tasks that can run do, and the gateway answers what it is sent.
Fairness ==
  /\ WF_vars(Dial) /\ WF_vars(Connected) /\ WF_vars(Wake) /\ WF_vars(Start)
  /\ WF_vars(ReceiveRegistered) /\ WF_vars(ReceiveWelcome)
  /\ WF_vars(ReceiveRefused) /\ WF_vars(ReceiveRotate)
  /\ WF_vars(GatewayRegisters) /\ WF_vars(GatewayWelcomes)
  /\ WF_vars(GatewayRefuses) /\ WF_vars(GatewayHearsAnswer)

FairSpec == Spec /\ Fairness

-----------------------------------------------------------------------------
\* Credentials that get the agent in: a key the gateway accepts, or the token
\* while it is good or the key traded for it is on its way.
Admitted(c) ==
  \/ c.key \in accepted
  \/ NeedsRegistration(c) /\ c.token /\ (~tokenUsed \/ IssueInFlight)

\* The running agent can always get back in, whatever connections are lost
\* around registrations and rotations, unless a registration was lost on its
\* way, a rotation could not be saved, or a rotation of an earlier connection
\* overtook a later one.
NotLockedOut ==
  /\ phase # "down"
  /\ spoilt \cap {"issue_lost", "overtaken", "rotation_unsaved"} = {}
  => Admitted(mem)

\* A crash at any moment leaves a configuration file that gets the agent back in,
\* unless it takes a registration with it that is on its way.  A rotation that
\* could not be saved does no harm here: the file still has the old key, and the
\* gateway was told so.
RestartSafe ==
  spoilt \cap {"issue_lost", "overtaken", "registration_unsaved"} = {}
  => Admitted(disk)

\* A restart finds a configuration that load accepts, so that systemd does not
\* restart a process that exits at once for ever.
LoadableAlways == Loadable(disk)

PowerOfTwo[n \in Nat] == IF n = 0 THEN 1 ELSE 2 * PowerOfTwo[n - 1]

\* Exponential backoff ("1s, doubling, capped"): after n attempts that ended
\* early the loop waits the smaller of 2^(n-1) seconds and the cap, one second
\* the first time even with a cap of 0.
BackoffDoubles ==
  phase = "waiting" =>
    backoff = IF failures = 1 THEN 1
              ELSE Min({PowerOfTwo[failures - 1], MaxBackoff})

\* What the agent presents on this connection or will on the next one.
Presents ==
  CASE phase = "down" -> disk
    [] phase \in {"dialing", "open"} -> snapshot
    [] OTHER -> mem

\* Once faults are over an agent with good credentials is let in, unless they
\* are spoilt on the way.  (One that is refused keeps the connection open and
\* does not try again, even when a late rotation has given it a good key.)
ComesBack ==
  faults = MaxFaults /\ Admitted(Presents)
    ~> session = "auth" \/ spoilt # {}
=============================================================================
