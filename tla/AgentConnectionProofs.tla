----------------------- MODULE AgentConnectionProofs -----------------------
(***************************************************************************)
(* Proofs about AgentConnection for any number of keys, faults and failing *)
(* saves, and for every cap of the backoff.                                *)
(***************************************************************************)
EXTENDS AgentConnection, LeastNumber, SequenceTheorems, TLAPS

\* Keys are natural numbers in the order in which they are issued; nobody has a
\* key that was not issued.
KeysAreIssued ==
  /\ mem.key <= issued /\ disk.key <= issued
  /\ \A r \in rotations : r.key <= issued
  /\ \A n \in DOMAIN up : up[n].type \in {"ok", "fail"} => up[n].key \in 1..issued
  /\ \A n \in DOMAIN down :
       down[n].type \in {"registered", "rotate"} => down[n].key \in 1..issued

\* Neither copy of the credentials is without key and token.
BothLoadable == Loadable(mem) /\ Loadable(disk)

\* The first layer of the inductive invariant.
Typed == TypeOK /\ KeysAreIssued /\ BothLoadable

\* Each side sends its greeting first; the gateway has its rotation answered before
\* it sends another, so that a connection carries at most one message to it.
SessionShape ==
  /\ phase # "open" => session = "none" /\ up = << >>
  /\ session = "none" => down = << >>
  /\ rotating => session = "auth" /\ issued \in accepted
  /\ Len(up) <= 1
  /\ \A n \in DOMAIN up :
       IF session = "none" THEN up[n].type \in {"register", "reconnect"}
       ELSE up[n].type \in {"ok", "fail"} /\ up[n].key = issued /\ rotating
  /\ \A n \in DOMAIN down :
       /\ n > 1 => down[n].type = "rotate"
       /\ down[n].type = "rotate" => rotating /\ n = Len(down) /\ down[n].key = issued

\* The rotation of this connection is for the newest key and in one place; those of
\* earlier connections are for older keys.
OneRotation ==
  /\ \A r \in rotations :
       IF r.live THEN rotating /\ r.key = issued
       ELSE r.step = "apply" /\ (rotating => r.key < issued)
  /\ \A r, s \in rotations : r.live /\ s.live => r = s
  /\ (\E n \in DOMAIN down : down[n].type = "rotate") =>
       up = << >> /\ \A r \in rotations : ~r.live
  /\ up # << >> => \A r \in rotations : ~r.live

\* There is nothing to rotate before the registration has arrived.
Registering ==
  /\ ~tokenUsed => accepted = {} /\ rotations = {} /\ session # "auth"
  /\ \A n \in DOMAIN down : down[n].type = "registered" =>
       /\ rotations = {} /\ up = << >>
       /\ down[n].key \in accepted
       /\ rotating => down[n].key < issued

\* The second layer.
Ordered == SessionShape /\ OneRotation /\ Registering

\* The rotation of this connection has been applied, with this outcome, and the
\* gateway has not heard of it.
Answering(outcome) ==
  \/ \E r \in rotations : r.live /\ r.step = outcome
  \/ \E n \in DOMAIN up : up[n].type = outcome

\* What spoils credentials for good.
Sound == spoilt \cap {"issue_lost", "overtaken"} = {}

\* Both copies get the agent in, but for a save that failed; a rotation of an earlier
\* connection either has a key that is good or is behind the file; and the file
\* tells what the gateway is about to be told.
KeysAreGood ==
  /\ phase # "down" /\ "rotation_unsaved" \notin spoilt => Admitted(mem)
  /\ "registration_unsaved" \notin spoilt => Admitted(disk)
  /\ phase = "down" => "registration_unsaved" \notin spoilt
  /\ \A r \in rotations : ~r.live => r.key \in accepted \/ r.key < disk.key
  /\ rotating /\ Answering("ok") =>
       disk.key = issued /\ (mem.key = issued \/ "rotation_unsaved" \in spoilt)
  /\ rotating /\ ~Answering("ok") =>
       disk.key < issued /\ (mem.key < issued \/ "rotation_unsaved" \in spoilt)

-----------------------------------------------------------------------------
(* Facts about the operators.                                              *)

\* Min and Max of two numbers are what their names say.
LEMMA MinMax ==
  ASSUME NEW a \in Nat, NEW b \in Nat
  PROVE  /\ Min({a, b}) = IF a <= b THEN a ELSE b
         /\ Max({a, b}) = IF a >= b THEN a ELSE b
<1>1. \E x \in {a, b} : \A y \in {a, b} : x =< y
  <2>1. CASE a <= b
    BY <2>1
  <2>2. CASE b <= a
    BY <2>2
  <2> QED BY <2>1, <2>2
<1>2. \E x \in {a, b} : \A y \in {a, b} : x >= y
  <2>1. CASE a >= b
    BY <2>1
  <2>2. CASE b >= a
    BY <2>2
  <2> QED BY <2>1, <2>2
<1>3. /\ Min({a, b}) \in {a, b} /\ \A y \in {a, b} : Min({a, b}) =< y
      /\ Max({a, b}) \in {a, b} /\ \A y \in {a, b} : Max({a, b}) >= y
  BY <1>1, <1>2 DEF Min, Max
<1> QED BY <1>3

\* Taking a message off the connection shifts the ones behind it.
LEMMA Taken ==
  ASSUME TypeOK, NEW type, Take(type)
  PROVE  /\ phase = "open" /\ Len(down) >= 1
         /\ Head(down) = down[1] /\ down[1] \in ToAgent /\ down[1].type = type
         /\ down' \in Seq(ToAgent) /\ Len(down') = Len(down) - 1
         /\ \A n \in DOMAIN down' : n + 1 \in DOMAIN down /\ down'[n] = down[n + 1]
<1>1. down \in Seq(ToAgent) /\ down # << >> /\ down' = Tail(down)
  BY DEF TypeOK, Take
<1>2. /\ down' \in Seq(ToAgent) /\ Len(down') = Len(down) - 1
      /\ \A n \in 1..Len(down') : down'[n] = down[n + 1]
  BY <1>1, HeadTailProperties
<1>3. Len(down) \in Nat /\ Len(down) # 0 /\ Head(down) = down[1]
      /\ DOMAIN down = 1..Len(down) /\ DOMAIN down' = 1..Len(down')
  BY <1>1, <1>2, LenProperties, EmptySeq
<1> QED BY <1>1, <1>2, <1>3, ElementOfSeq DEF Take

\* The same for the gateway.
LEMMA Heard ==
  ASSUME TypeOK, NEW type, Hear(type)
  PROVE  /\ Len(up) >= 1
         /\ Head(up) = up[1] /\ up[1] \in ToGateway /\ up[1].type = type
         /\ up' \in Seq(ToGateway) /\ Len(up') = Len(up) - 1
         /\ \A n \in DOMAIN up' : n + 1 \in DOMAIN up /\ up'[n] = up[n + 1]
<1>1. up \in Seq(ToGateway) /\ up # << >> /\ up' = Tail(up)
  BY DEF TypeOK, Hear
<1>2. /\ up' \in Seq(ToGateway) /\ Len(up') = Len(up) - 1
      /\ \A n \in 1..Len(up') : up'[n] = up[n + 1]
  BY <1>1, HeadTailProperties
<1>3. Len(up) \in Nat /\ Len(up) # 0 /\ Head(up) = up[1]
      /\ DOMAIN up = 1..Len(up) /\ DOMAIN up' = 1..Len(up')
  BY <1>1, <1>2, LenProperties, EmptySeq
<1> QED BY <1>1, <1>2, <1>3, ElementOfSeq DEF Hear

\* A message that is sent comes behind the ones under way.
LEMMA Sent ==
  ASSUME NEW S, NEW s \in Seq(S), NEW m \in S
  PROVE  /\ Append(s, m) \in Seq(S) /\ Len(Append(s, m)) = Len(s) + 1
         /\ Append(s, m) # << >>
         /\ DOMAIN Append(s, m) = DOMAIN s \cup {Len(s) + 1}
         /\ \A n \in DOMAIN s : Append(s, m)[n] = s[n]
         /\ Append(s, m)[Len(s) + 1] = m
<1>1. Len(s) \in Nat /\ DOMAIN s = 1..Len(s)
  BY LenProperties
<1>2. DOMAIN Append(s, m) = 1..Len(Append(s, m))
  BY AppendProperties, LenProperties
<1> QED BY <1>1, <1>2, AppendProperties

-----------------------------------------------------------------------------
(* Type correctness, issued keys, loadable credentials.                    *)

\* Nothing on the connection, and what its end leaves of the rotations.
LEMMA HungUp ==
  ASSUME Typed, HangUp,
         rotations' \subseteq StrayRotations
  PROVE  /\ up' = << >> /\ down' = << >> /\ up' \in Seq(ToGateway)
         /\ down' \in Seq(ToAgent) /\ DOMAIN up' = {} /\ DOMAIN down' = {}
         /\ rotations' \subseteq Rotation
         /\ \A r \in rotations' :
              /\ ~r.live /\ r.step = "apply" /\ r.key <= issued
              /\ \E q \in rotations : q.step = "apply" /\ q.key = r.key
<1>1. ASSUME NEW r \in rotations'
      PROVE  /\ r \in Rotation /\ ~r.live /\ r.step = "apply" /\ r.key <= issued
             /\ \E q \in rotations : q.step = "apply" /\ q.key = r.key
  <2>1. PICK q \in rotations : q.step = "apply" /\ r = [q EXCEPT !.live = FALSE]
    BY <1>1 DEF StrayRotations
  <2>2. q \in Rotation /\ q.key <= issued
    BY DEF Typed, TypeOK, KeysAreIssued
  <2>3. r \in Rotation /\ ~r.live /\ r.step = "apply" /\ r.key = q.key
    BY <2>1, <2>2 DEF Rotation
  <2> QED BY <2>1, <2>2, <2>3
<1> QED BY <1>1, EmptySeq DEF HangUp

\* The agent's steps that leave connection and credentials alone.
LEMMA TypedLoop ==
  ASSUME Typed, Dial \/ AttemptIsLong \/ Wake \/ Start \/ UNCHANGED vars
  PROVE  Typed'
<1>1. backoff' \in {1} \cup 0..MaxBackoff
  <2>1. CASE Wake
    <3>1. backoff \in Nat /\ backoff' = Min({backoff * 2, MaxBackoff})
      BY <2>1, BackoffAssumption DEF Typed, TypeOK, Wake, Doubled
    <3>2. backoff' = IF backoff * 2 <= MaxBackoff THEN backoff * 2 ELSE MaxBackoff
      BY <3>1, MinMax, BackoffAssumption
    <3> QED BY <3>1, <3>2, BackoffAssumption
  <2>2. CASE ~Wake
    BY <2>2
    DEF Typed, TypeOK, Dial, AttemptIsLong, Start, vars, loopVars
  <2> QED BY <2>1, <2>2
<1>2. ASSUME Start PROVE Typed'
  BY <1>1, <1>2
  DEF Typed, TypeOK, KeysAreIssued, BothLoadable, Start, linkVars, gatewayVars,
      boundVars
<1>3. ASSUME Dial \/ AttemptIsLong \/ Wake \/ UNCHANGED vars PROVE Typed'
  BY <1>1, <1>3
  DEF Typed, TypeOK, KeysAreIssued, BothLoadable, Dial, AttemptIsLong, Wake, vars,
      credentialVars, loopVars, linkVars, gatewayVars, boundVars
<1> QED BY <1>2, <1>3

\* Connections and processes that come and go.
LEMMA TypedLink ==
  ASSUME Typed, Connected \/ EndAttempt \/ Crash
  PROVE  Typed'
<1>1. ASSUME Connected PROVE Typed'
  <2>1. Greeting(snapshot) \in ToGateway
    BY DEF Typed, TypeOK, Greeting, Message, Credentials, ToGateway
  <2>2. /\ up' = <<Greeting(snapshot)>> /\ up' \in Seq(ToGateway)
        /\ \A n \in DOMAIN up' : up'[n].type \notin {"ok", "fail"}
    BY <1>1, <2>1 DEF Connected, Greeting, Message
  <2> QED
    BY <1>1, <2>2
    DEF Typed, TypeOK, KeysAreIssued, BothLoadable, Connected, credentialVars,
        gatewayVars, boundVars
<1>2. ASSUME EndAttempt \/ Crash PROVE Typed'
  <2>1. HangUp /\ rotations' \subseteq StrayRotations
    BY <1>2 DEF EndAttempt, Crash
  <2>2. spoilt' \subseteq {"issue_lost", "overtaken", "registration_unsaved",
                           "rotation_unsaved"}
    BY <1>2 DEF EndAttempt, Crash, Typed, TypeOK
  <2>3. /\ backoff' \in {1} \cup 0..MaxBackoff /\ failures' \in Nat
        /\ faults' \in Nat /\ saveErrors' \in Nat
    BY <1>2 DEF EndAttempt, Crash, Typed, TypeOK, Fault
  <2> QED
    BY <1>2, <2>1, <2>2, <2>3, HungUp
    DEF Typed, TypeOK, KeysAreIssued, BothLoadable, EndAttempt, Crash, HangUp,
        credentialVars
<1> QED BY <1>1, <1>2

\* The messages of the gateway as the receive loop takes them.
LEMMA TypedReceive ==
  ASSUME Typed, ReceiveRegistered \/ ReceiveWelcome \/ ReceiveRefused \/ ReceiveRotate
  PROVE  Typed'
<1>1. PICK type \in {"registered", "welcome", "refused", "rotate"} : Take(type)
  BY DEF ReceiveRegistered, ReceiveWelcome, ReceiveRefused, ReceiveRotate
<1>2. /\ down' \in Seq(ToAgent) /\ down[1] \in ToAgent /\ Head(down) = down[1]
      /\ down[1].type = type /\ 1 \in DOMAIN down
      /\ \A n \in DOMAIN down' : n + 1 \in DOMAIN down /\ down'[n] = down[n + 1]
  <2>1. DOMAIN down = 1..Len(down) /\ Len(down) \in Nat
    BY LenProperties DEF Typed, TypeOK
  <2>2. /\ down' \in Seq(ToAgent) /\ down[1] \in ToAgent /\ Head(down) = down[1]
        /\ down[1].type = type /\ Len(down) >= 1
        /\ \A n \in DOMAIN down' : n + 1 \in DOMAIN down /\ down'[n] = down[n + 1]
    <3>1. TypeOK
      BY DEF Typed
    <3> QED BY <1>1, <3>1, Taken
  <2> QED BY <2>1, <2>2
<1>3. type \in {"registered", "rotate"} => down[1].key \in 1..issued
  BY <1>2 DEF Typed, KeysAreIssued
<1>4. \A n \in DOMAIN down' :
        down'[n].type \in {"registered", "rotate"} => down'[n].key \in 1..issued
  BY <1>2 DEF Typed, KeysAreIssued
<1>5. down[1].key \in Keys \cup {NoKey} /\ issued \in 0..MaxKeys
  BY <1>2 DEF ToAgent, Typed, TypeOK
<1>6. ASSUME ReceiveRegistered PROVE Typed'
  <2>1. type = "registered"
    BY <1>2, <1>6 DEF ReceiveRegistered, Take
  <2>2. mem' = [key |-> down[1].key, token |-> FALSE] /\ down[1].key # NoKey
    BY <1>2, <1>3, <1>6, <2>1 DEF ReceiveRegistered, SetCredentials, NoKey
  <2>3. mem' \in Credentials /\ mem'.key \in 1..issued /\ Loadable(mem')
    BY <1>3, <1>5, <2>1, <2>2 DEF Credentials, Loadable
  <2>4. disk' \in {mem', disk} /\ saveErrors' \in Nat
        /\ spoilt' \subseteq spoilt \cup {"registration_unsaved"}
    BY <1>6 DEF ReceiveRegistered, Save, SaveError, Typed, TypeOK
  <2> QED
    BY <1>2, <1>4, <1>5, <1>6, <2>3, <2>4
    DEF Typed, TypeOK, KeysAreIssued, BothLoadable, ReceiveRegistered, loopVars,
        gatewayVars
<1>7. ASSUME ReceiveWelcome \/ ReceiveRefused PROVE Typed'
  BY <1>2, <1>4, <1>7, ZenonT(60)
  DEF Typed, TypeOK, KeysAreIssued, BothLoadable, ReceiveWelcome, ReceiveRefused,
      credentialVars, loopVars, gatewayVars, boundVars
<1>8. ASSUME ReceiveRotate PROVE Typed'
  <2>1. type = "rotate"
    BY <1>2, <1>8 DEF ReceiveRotate, Take
  <2>2. PICK q : /\ q = [key |-> down[1].key, live |-> TRUE, step |-> "apply"]
                 /\ rotations' = rotations \cup {q}
    BY <1>2, <1>8 DEF ReceiveRotate
  <2>3. q \in Rotation /\ q.key <= issued
    BY <1>3, <1>5, <2>1, <2>2 DEF Rotation, Keys, NoKey
  <2>4. rotations' \subseteq Rotation /\ \A r \in rotations' : r.key <= issued
    <3>1. \A r \in rotations : r \in Rotation /\ r.key <= issued
      BY DEF Typed, TypeOK, KeysAreIssued
    <3>2. \A r \in rotations' \ rotations : r \in Rotation /\ r.key <= issued
      BY <2>2, <2>3
    <3> QED BY <3>1, <3>2
  <2> QED
    BY <1>2, <1>4, <1>8, <2>4
    DEF Typed, TypeOK, KeysAreIssued, BothLoadable, ReceiveRotate, credentialVars,
        loopVars, gatewayVars, boundVars
<1> QED BY <1>6, <1>7, <1>8

\* What a rotation leaves of itself.
LEMMA Answered ==
  ASSUME NEW r \in Rotation, NEW o \in {"ok", "fail"}
  PROVE  /\ AnswerTo(r, o) \subseteq Rotation
         /\ \A q \in AnswerTo(r, o) : r.live /\ q.live /\ q.key = r.key /\ q.step = o
         /\ r.live => AnswerTo(r, o) # {}
BY DEF AnswerTo, Rotation

\* A rotation and its answer.
LEMMA TypedRotate ==
  ASSUME Typed, NEW r \in rotations, RotateKey(r) \/ AnswerRotation(r)
  PROVE  Typed'
<1>1. r \in Rotation /\ r.key <= issued /\ r.key \in Keys
  BY DEF Typed, TypeOK, KeysAreIssued, Rotation
<1>2. ASSUME RotateKey(r) PROVE Typed'
  <2>1. mem' = [mem EXCEPT !.key = r.key]
    BY <1>2 DEF RotateKey
  <2>a. mem \in Credentials
    BY DEF Typed, TypeOK
  <2>b. mem' \in Credentials /\ mem'.key = r.key
    BY <1>1, <2>1, <2>a DEF Credentials
  <2>2. mem' \in Credentials /\ mem'.key <= issued /\ Loadable(mem')
    BY <1>1, <2>b DEF Loadable, Keys, NoKey
  <2>3. PICK o \in {"ok", "fail"} : rotations' = (rotations \ {r}) \cup AnswerTo(r, o)
    BY <1>2 DEF RotateKey
  <2>4. rotations' \subseteq Rotation /\ \A q \in rotations' : q.key <= issued
    BY <1>1, <2>3, Answered DEF Typed, TypeOK, KeysAreIssued
  <2>5. disk' \in {mem', disk} /\ saveErrors' \in Nat
    BY <1>2 DEF RotateKey, SaveError, Typed, TypeOK
  <2>6. spoilt' \subseteq spoilt \cup {"overtaken", "rotation_unsaved"}
    BY <1>2 DEF RotateKey
  <2>7. /\ UNCHANGED <<loopVars, linkVars, gatewayVars, faults>>
        /\ TypeOK /\ KeysAreIssued /\ BothLoadable
    BY <1>2 DEF RotateKey, Typed
  <2>8. disk' \in Credentials /\ disk'.key <= issued /\ Loadable(disk')
    BY <2>2, <2>5, <2>7 DEF TypeOK, KeysAreIssued, BothLoadable
  <2>9. TypeOK'
    BY <2>2, <2>4, <2>5, <2>6, <2>7, <2>8 DEF TypeOK, loopVars, linkVars, gatewayVars
  <2>10. KeysAreIssued' /\ BothLoadable'
    BY <2>2, <2>4, <2>7, <2>8 DEF KeysAreIssued, BothLoadable, linkVars, gatewayVars
  <2> QED  BY <2>9, <2>10 DEF Typed
<1>3. ASSUME AnswerRotation(r) PROVE Typed'
  <2>1. r.step \in {"ok", "fail"} /\ up' = Append(up, Message(r.step, r.key))
    BY <1>3 DEF AnswerRotation
  <2>2. Message(r.step, r.key) \in ToGateway /\ Message(r.step, r.key).key = r.key
    BY <1>1, <2>1 DEF Message, ToGateway
  <2>3. r.key \in 1..issued
    BY <1>1 DEF Keys, Typed, TypeOK
  <2>4. /\ up' \in Seq(ToGateway)
        /\ \A n \in DOMAIN up' : up'[n].type \in {"ok", "fail"} => up'[n].key \in 1..issued
    BY <2>1, <2>2, <2>3, Sent DEF Typed, TypeOK, KeysAreIssued
  <2> QED
    BY <1>3, <2>4
    DEF Typed, TypeOK, KeysAreIssued, BothLoadable, AnswerRotation, credentialVars,
        loopVars, gatewayVars, boundVars
<1> QED BY <1>2, <1>3

\* The gateway.
LEMMA TypedGateway ==
  ASSUME Typed, Gateway
  PROVE  Typed'
<1> USE DEF Typed, TypeOK
<1>1. ASSUME NEW type, Hear(type)
      PROVE  /\ Len(up) >= 1 /\ Head(up) = up[1] /\ up[1].type = type
             /\ up' \in Seq(ToGateway) /\ 1 \in DOMAIN up
             /\ \A n \in DOMAIN up' :
                  up'[n].type \in {"ok", "fail"} => up'[n].key \in 1..issued
             /\ UNCHANGED <<credentialVars, loopVars, rotations, spoilt, boundVars>>
  <2>1. DOMAIN up = 1..Len(up) /\ Len(up) \in Nat
    BY LenProperties
  <2>2. /\ Len(up) >= 1 /\ Head(up) = up[1] /\ up[1].type = type
        /\ up' \in Seq(ToGateway)
        /\ \A n \in DOMAIN up' : n + 1 \in DOMAIN up /\ up'[n] = up[n + 1]
    BY <1>1, Heard
  <2>3. UNCHANGED <<credentialVars, loopVars, rotations, spoilt, boundVars>>
    BY <1>1 DEF Hear
  <2> QED BY <2>1, <2>2, <2>3 DEF KeysAreIssued
<1>2. ASSUME NEW type \in {"registered", "welcome", "refused", "rotate"},
             NEW k \in Keys \cup {NoKey}, down' = Append(down, Message(type, k)),
             issued' \in Nat, issued' >= issued,
             type \in {"registered", "rotate"} => k \in 1..issued'
      PROVE  /\ down' \in Seq(ToAgent)
             /\ \A n \in DOMAIN down' :
                  down'[n].type \in {"registered", "rotate"} => down'[n].key \in 1..issued'
  <2>1. Message(type, k) \in ToAgent
    BY DEF Message, ToAgent
  <2>2. \A n \in DOMAIN down :
          down[n].type \in {"registered", "rotate"} => down[n].key \in 1..issued'
    BY <1>2 DEF KeysAreIssued
  <2>3. Message(type, k).type = type /\ Message(type, k).key = k
    BY DEF Message
  <2> QED BY <1>2, <2>1, <2>2, <2>3, Sent
<1>3. /\ issued \in Nat /\ MaxKeys \in Nat
      /\ mem.key \in Nat /\ disk.key \in Nat /\ \A r \in rotations : r.key \in Nat
  BY ConnectionBounds DEF Credentials, Rotation, Keys, NoKey
<1>4. ASSUME GatewayRegisters PROVE Typed'
  <2>1. issued' = issued + 1 /\ issued' \in 1..MaxKeys /\ accepted' = {issued'}
        /\ down' = Append(down, Message("registered", issued')) /\ Hear("register")
    BY <1>3, <1>4 DEF GatewayRegisters
  <2>2. /\ down' \in Seq(ToAgent)
        /\ \A n \in DOMAIN down' :
             down'[n].type \in {"registered", "rotate"} => down'[n].key \in 1..issued'
    BY <1>2, <1>3, <2>1 DEF Keys
  <2>3. KeysAreIssued'
    BY <1>1, <1>3, <1>4, <2>1, <2>2, SMTT(60)
    DEF KeysAreIssued, credentialVars
  <2>4. UNCHANGED <<credentialVars, loopVars, rotations, spoilt, boundVars>>
    BY <1>1, <2>1
  <2>5. accepted' \subseteq 1..issued' /\ tokenUsed' /\ session' = "auth"
        /\ UNCHANGED rotating
    BY <1>4, <2>1 DEF GatewayRegisters
  <2>6. up' \in Seq(ToGateway)
    BY <1>1, <2>1
  <2>7. TypeOK'
    BY <1>3, <2>1, <2>2, <2>4, <2>5, <2>6 DEF credentialVars, loopVars, boundVars
  <2> QED BY <2>3, <2>4, <2>7 DEF BothLoadable, credentialVars
<1>5. ASSUME GatewayWelcomes PROVE Typed'
  <2>1. down' = Append(down, Message("welcome", NoKey)) /\ issued' = issued
    BY <1>5 DEF GatewayWelcomes
  <2>2. /\ down' \in Seq(ToAgent)
        /\ \A n \in DOMAIN down' :
             down'[n].type \in {"registered", "rotate"} => down'[n].key \in 1..issued'
    BY <1>2, <1>3, <2>1
  <2> QED
    BY <1>1, <1>5, <2>2
    DEF KeysAreIssued, BothLoadable, GatewayWelcomes, credentialVars, loopVars, boundVars
<1>6. ASSUME GatewayRefuses PROVE Typed'
  <2>1. down' = Append(down, Message("refused", NoKey)) /\ issued' = issued
    BY <1>6 DEF GatewayRefuses
  <2>2. /\ down' \in Seq(ToAgent)
        /\ \A n \in DOMAIN down' :
             down'[n].type \in {"registered", "rotate"} => down'[n].key \in 1..issued'
    BY <1>2, <1>3, <2>1
  <2>3. PICK type \in {"register", "reconnect"} : Hear(type)
    BY <1>6 DEF GatewayRefuses
  <2> QED
    BY <1>1, <1>6, <2>2, <2>3
    DEF KeysAreIssued, BothLoadable, GatewayRefuses, credentialVars, loopVars, boundVars
<1>7. ASSUME GatewayRotates PROVE Typed'
  <2>1. issued' = issued + 1 /\ issued' \in 1..MaxKeys
        /\ accepted' = accepted \cup {issued'}
        /\ down' = Append(down, Message("rotate", issued'))
    BY <1>3, <1>7 DEF GatewayRotates
  <2>2. /\ down' \in Seq(ToAgent)
        /\ \A n \in DOMAIN down' :
             down'[n].type \in {"registered", "rotate"} => down'[n].key \in 1..issued'
    BY <1>2, <1>3, <2>1 DEF Keys
  <2>3. UNCHANGED <<credentialVars, loopVars, rotations, up, tokenUsed, session,
                    spoilt, boundVars>>
    BY <1>7 DEF GatewayRotates
  <2>4. KeysAreIssued'
    BY <1>3, <2>1, <2>2, <2>3 DEF KeysAreIssued, credentialVars
  <2> QED
    BY <1>3, <1>7, <2>1, <2>2, <2>3, <2>4
    DEF BothLoadable, GatewayRotates, credentialVars, loopVars, boundVars
<1>8. ASSUME GatewayHearsAnswer PROVE Typed'
  <2>1. PICK type \in {"ok", "fail"} :
          /\ Hear(type)
          /\ accepted' = IF type = "ok" THEN {Head(up).key} ELSE accepted \ {Head(up).key}
    BY <1>8 DEF GatewayHearsAnswer
  <2>2. up[1].key \in 1..issued
    BY <1>1, <2>1 DEF KeysAreIssued
  <2>3. accepted' \subseteq 1..issued
    BY <1>1, <2>1, <2>2
  <2> QED
    BY <1>1, <1>8, <2>1, <2>3
    DEF KeysAreIssued, BothLoadable, GatewayHearsAnswer, credentialVars, loopVars,
        boundVars
<1> QED BY <1>4, <1>5, <1>6, <1>7, <1>8 DEF Gateway

\* Every step keeps the invariant of this section.
LEMMA TypedStep == Typed /\ [Next]_vars => Typed'
BY TypedLoop, TypedLink, TypedReceive, TypedRotate, TypedGateway
DEF Next, ConnectionLoop, Agent

\* It holds in every state.
LEMMA TypedAlways == Spec => []Typed
<1>1. Init => Typed
  <2> SUFFICES ASSUME Init PROVE Typed
    OBVIOUS
  <2>1. /\ up \in Seq(ToGateway) /\ down \in Seq(ToAgent)
        /\ DOMAIN up = {} /\ DOMAIN down = {}
    BY EmptySeq DEF Init
  <2>2. Fresh \in Credentials /\ Fresh.key = NoKey /\ Fresh.token
    BY DEF Fresh, Credentials
  <2>3. KeysAreIssued
    BY <2>1, <2>2 DEF Init, KeysAreIssued, NoKey
  <2>4. /\ issued \in 0..MaxKeys /\ accepted \subseteq 1..issued
        /\ rotations \subseteq Rotation /\ spoilt = {}
    BY ConnectionBounds DEF Init
  <2>5. TypeOK
    BY <2>1, <2>2, <2>4 DEF Init, TypeOK
  <2> QED BY <2>2, <2>3, <2>5 DEF Init, Typed, BothLoadable, Loadable
<1> QED BY <1>1, TypedStep, PTL DEF Spec

\* Type correctness, for any number of keys, faults and failing saves.
THEOREM TypeCorrect == Spec => []TypeOK
<1>1. Typed => TypeOK
  BY DEF Typed
<1> QED BY <1>1, TypedAlways, PTL

\* The configuration file never loses both key and token: a restart always loads.
THEOREM FileStaysLoadable == Spec => []LoadableAlways
<1>1. Typed => LoadableAlways
  BY DEF Typed, BothLoadable, LoadableAlways
<1> QED BY <1>1, TypedAlways, PTL

-----------------------------------------------------------------------------
(* The order of messages.                                                  *)

\* Steps that touch neither the connection nor the rotations.
LEMMA OrderedLoop ==
  ASSUME Typed, Ordered, Dial \/ AttemptIsLong \/ Wake \/ Start \/ UNCHANGED vars
  PROVE  Ordered'
<1>1. /\ UNCHANGED <<linkVars, rotations, gatewayVars>>
      /\ phase = "open" <=> phase' = "open"
  BY DEF Dial, AttemptIsLong, Wake, Start, vars, loopVars
<1> QED
  BY <1>1
  DEF Ordered, SessionShape, OneRotation, Registering, linkVars, gatewayVars

\* Connections and processes that come and go.
LEMMA OrderedLink ==
  ASSUME Typed, Ordered, Connected \/ EndAttempt \/ Crash
  PROVE  Ordered'
<1> USE DEF Ordered, SessionShape, OneRotation, Registering
<1>1. ASSUME Connected PROVE Ordered'
  <2>1. PICK g \in ToGateway : g.type \in {"register", "reconnect"} /\ up' = <<g>>
    <3>1. Greeting(snapshot) \in ToGateway
      BY DEF Typed, TypeOK, Greeting, Message, Credentials, ToGateway
    <3>2. Greeting(snapshot).type \in {"register", "reconnect"}
      BY DEF Greeting, Message
    <3> QED BY <1>1, <3>1, <3>2 DEF Connected
  <2>2. Len(up') = 1 /\ \A n \in DOMAIN up' : up'[n] = g
    BY <2>1
  <2>3. phase = "dialing" /\ phase' = "open" /\ UNCHANGED <<rotations, down, gatewayVars>>
    BY <1>1 DEF Connected
  <2>4. session = "none" /\ down = << >> /\ ~rotating /\ DOMAIN down = {}
    BY <2>3, EmptySeq
  <2> QED BY <2>1, <2>2, <2>3, <2>4 DEF gatewayVars
<1>2. ASSUME EndAttempt \/ Crash PROVE Ordered'
  <2>1. HangUp /\ rotations' \subseteq StrayRotations
    BY <1>2 DEF EndAttempt, Crash
  <2>2. /\ up' = << >> /\ DOMAIN up' = {} /\ down' = << >> /\ DOMAIN down' = {}
        /\ Len(up') = 0
        /\ \A r \in rotations' : ~r.live /\ r.step = "apply"
        /\ rotations = {} => rotations' = {}
    <3>1. rotations = {} => rotations' = {}
      BY <2>1 DEF StrayRotations
    <3> QED BY <2>1, <3>1, HungUp
  <2>3. session' = "none" /\ ~rotating' /\ UNCHANGED <<issued, accepted, tokenUsed>>
    BY <2>1 DEF HangUp
  <2> QED BY <2>2, <2>3
<1> QED BY <1>1, <1>2

\* The messages of the gateway as the receive loop takes them.
LEMMA OrderedReceive ==
  ASSUME Typed, Ordered,
         ReceiveRegistered \/ ReceiveWelcome \/ ReceiveRefused \/ ReceiveRotate
  PROVE  Ordered'
<1>1. PICK type \in {"registered", "welcome", "refused", "rotate"} : Take(type)
  BY DEF ReceiveRegistered, ReceiveWelcome, ReceiveRefused, ReceiveRotate
<1>2. TypeOK /\ DOMAIN down = 1..Len(down) /\ Len(down) \in Nat
  BY LenProperties DEF Typed, TypeOK
<1>3. /\ phase = "open" /\ Len(down) >= 1 /\ down[1].type = type
      /\ Head(down) = down[1]
      /\ down' \in Seq(ToAgent) /\ Len(down') = Len(down) - 1
      /\ \A n \in DOMAIN down' : n + 1 \in DOMAIN down /\ down'[n] = down[n + 1]
  BY <1>1, <1>2, Taken
<1>4. DOMAIN down' = 1..Len(down')
  BY <1>3, LenProperties
<1>5. UNCHANGED <<phase, up, gatewayVars>>
  BY DEF ReceiveRegistered, ReceiveWelcome, ReceiveRefused, ReceiveRotate, loopVars
<1>6. SessionShape'
  BY <1>2, <1>3, <1>4, <1>5 DEF Ordered, SessionShape, gatewayVars
<1>7. \A n \in DOMAIN down' : down'[n].type = "rotate"
  BY <1>2, <1>3, <1>4 DEF Ordered, SessionShape
<1>8. ASSUME ReceiveRotate PROVE Ordered'
  <2>1. type = "rotate" /\ Len(down) = 1 /\ down' = << >> /\ DOMAIN down' = {}
    <3>1. type = "rotate"
      BY <1>3, <1>8 DEF ReceiveRotate, Take
    <3> QED BY <1>2, <1>3, <1>4, <3>1, EmptySeq DEF Ordered, SessionShape
  <2>2. PICK q : /\ q = [key |-> down[1].key, live |-> TRUE, step |-> "apply"]
                 /\ rotations' = rotations \cup {q}
    BY <1>3, <1>8 DEF ReceiveRotate
  <2>3. /\ q.key = issued /\ q.live /\ rotating /\ up = << >> /\ session = "auth"
        /\ \A r \in rotations : ~r.live
    BY <1>2, <1>3, <2>1, <2>2 DEF Ordered, SessionShape, OneRotation
  <2>4. OneRotation'
    BY <1>5, <2>1, <2>2, <2>3 DEF Ordered, OneRotation, gatewayVars
  <2>5. Registering'
    BY <1>5, <2>1, <2>2, <2>3 DEF Ordered, Registering, gatewayVars
  <2> QED BY <1>6, <2>4, <2>5 DEF Ordered
<1>9. ASSUME ~ReceiveRotate PROVE Ordered'
  <2>1. UNCHANGED rotations
    BY <1>9 DEF ReceiveRegistered, ReceiveWelcome, ReceiveRefused
  <2>2. OneRotation'
    BY <1>3, <1>5, <2>1 DEF Ordered, OneRotation, gatewayVars
  <2>3. Registering'
    BY <1>5, <1>7, <2>1 DEF Ordered, Registering, gatewayVars
  <2> QED BY <1>6, <2>2, <2>3 DEF Ordered
<1> QED BY <1>8, <1>9

\* A rotation and its answer.
LEMMA OrderedRotate ==
  ASSUME Typed, Ordered, NEW r \in rotations, RotateKey(r) \/ AnswerRotation(r)
  PROVE  Ordered'
<1> USE DEF Ordered
<1>1. r \in Rotation /\ tokenUsed
  BY DEF Typed, TypeOK, Registering
<1>2. \A n \in DOMAIN down : down[n].type # "registered"
  BY DEF Registering
<1>3. ASSUME RotateKey(r) PROVE Ordered'
  <2>1. UNCHANGED <<phase, linkVars, gatewayVars>> /\ r.step = "apply"
    BY <1>3 DEF RotateKey, loopVars
  <2>2. PICK o \in {"ok", "fail"} : rotations' = (rotations \ {r}) \cup AnswerTo(r, o)
    BY <1>3 DEF RotateKey
  <2>3. /\ \A q \in AnswerTo(r, o) : r.live /\ q.live /\ q.key = r.key /\ q.step = o
        /\ \A p, q \in AnswerTo(r, o) : p = q
    BY <1>1, Answered DEF AnswerTo
  <2>4. OneRotation'
    BY <2>1, <2>2, <2>3 DEF OneRotation, linkVars, gatewayVars
  <2>5. Registering'
    BY <1>1, <1>2, <2>1 DEF Registering, linkVars, gatewayVars
  <2>6. SessionShape'
    BY <2>1 DEF SessionShape, linkVars, gatewayVars
  <2> QED BY <2>4, <2>5, <2>6
<1>4. ASSUME AnswerRotation(r) PROVE Ordered'
  <2>1. /\ up' = Append(up, Message(r.step, r.key)) /\ rotations' = rotations \ {r}
        /\ UNCHANGED <<phase, down, gatewayVars>> /\ r.step \in {"ok", "fail"}
    BY <1>4 DEF AnswerRotation, loopVars
  <2>2. r.live /\ r.key = issued /\ rotating /\ up = << >> /\ session = "auth"
        /\ phase = "open"
    BY <2>1 DEF OneRotation, SessionShape
  <2>3. Message(r.step, r.key).type = r.step /\ Message(r.step, r.key).key = r.key
    BY DEF Message
  <2>4. up' = <<Message(r.step, r.key)>>
    BY <2>1, <2>2
  <2>5. Len(up') = 1 /\ \A n \in DOMAIN up' : up'[n] = Message(r.step, r.key)
    BY <2>4
  <2>6. SessionShape'
    BY <2>1, <2>2, <2>3, <2>5 DEF SessionShape, gatewayVars
  <2>7. /\ \A q \in rotations' : ~q.live
        /\ \A n \in DOMAIN down : down[n].type # "rotate"
    BY <2>1, <2>2 DEF OneRotation
  <2>8. OneRotation'
    BY <2>1, <2>7 DEF OneRotation, gatewayVars
  <2>9. Registering'
    BY <1>1, <1>2, <2>1 DEF Registering, gatewayVars
  <2> QED BY <2>6, <2>8, <2>9
<1> QED BY <1>3, <1>4

\* A message the gateway hears is the only one on its way to it.
LEMMA HeardAlone ==
  ASSUME Typed, Ordered, NEW type, Hear(type)
  PROVE  /\ Head(up) = up[1] /\ up[1].type = type /\ 1 \in DOMAIN up /\ up # << >>
         /\ up' = << >> /\ DOMAIN up' = {} /\ Len(up') = 0
         /\ phase = "open" /\ phase' = phase /\ rotations' = rotations
<1>1. TypeOK /\ Len(up) \in Nat /\ DOMAIN up = 1..Len(up)
  BY LenProperties DEF Typed, TypeOK
<1>2. /\ Len(up) >= 1 /\ Head(up) = up[1] /\ up[1].type = type
      /\ up' \in Seq(ToGateway) /\ Len(up') = Len(up) - 1
  BY <1>1, Heard
<1>3. Len(up) <= 1 /\ (phase # "open" => up = << >>)
  BY DEF Ordered, SessionShape
<1>4. up # << >> /\ UNCHANGED <<loopVars, rotations>>
  BY DEF Hear
<1> QED BY <1>1, <1>2, <1>3, <1>4, EmptySeq DEF loopVars

\* The gateway.
LEMMA OrderedGateway ==
  ASSUME Typed, Ordered, Gateway
  PROVE  Ordered'
<1> USE DEF Ordered
<1>1. down \in Seq(ToAgent) /\ Len(down) \in Nat /\ DOMAIN down = 1..Len(down)
      /\ issued \in 0..MaxKeys /\ issued \in Nat
  BY LenProperties, ConnectionBounds DEF Typed, TypeOK
<1>2. ASSUME NEW type \in {"registered", "welcome", "refused", "rotate"},
             NEW k \in Keys \cup {NoKey}, down' = Append(down, Message(type, k))
      PROVE  /\ DOMAIN down' = 1..(Len(down) + 1) /\ Len(down') = Len(down) + 1
             /\ \A n \in DOMAIN down : down'[n] = down[n]
             /\ down'[Len(down) + 1].type = type /\ down'[Len(down) + 1].key = k
  <2>1. Message(type, k) \in ToAgent
    BY DEF Message, ToAgent
  <2>2. Message(type, k).type = type /\ Message(type, k).key = k
    BY DEF Message
  <2> QED BY <1>1, <1>2, <2>1, <2>2, Sent
<1>3. ASSUME GatewayRegisters \/ GatewayWelcomes \/ GatewayRefuses
      PROVE  Ordered'
  <2>1. PICK heard \in {"register", "reconnect"} : Hear(heard)
    BY <1>3 DEF GatewayRegisters, GatewayWelcomes, GatewayRefuses
  <2>2. /\ up[1].type = heard /\ 1 \in DOMAIN up /\ up' = << >> /\ DOMAIN up' = {}
        /\ Len(up') = 0 /\ phase = "open" /\ phase' = phase /\ rotations' = rotations
    BY <2>1, HeardAlone
  <2>3. session = "none" /\ down = << >> /\ ~rotating /\ DOMAIN down = {}
    BY <2>1, <2>2, EmptySeq DEF SessionShape
  <2>4. rotating' = rotating /\ session' \in {"auth", "refused"}
    BY <1>3 DEF GatewayRegisters, GatewayWelcomes, GatewayRefuses
  <2>5. PICK type \in {"registered", "welcome", "refused"}, k \in Keys \cup {NoKey} :
          /\ down' = Append(down, Message(type, k))
          /\ type = "registered" =>
               ~tokenUsed /\ tokenUsed' /\ accepted' = {k}
          /\ type # "registered" => UNCHANGED <<issued, accepted, tokenUsed>>
          /\ type = "welcome" => accepted # {}
          /\ type = "refused" => session' = "refused"
    <3>1. ASSUME GatewayRegisters PROVE issued' \in Keys
      BY <1>1, <3>1, ConnectionBounds DEF GatewayRegisters, Keys
    <3> QED BY <1>3, <3>1 DEF GatewayRegisters, GatewayWelcomes, GatewayRefuses
  <2>6. /\ DOMAIN down' = {1} /\ Len(down') = 1
        /\ down'[1].type = type /\ down'[1].key = k
    BY <1>1, <1>2, <2>3, <2>5, EmptySeq
  <2>7. SessionShape' /\ OneRotation'
    BY <2>2, <2>3, <2>4, <2>5, <2>6 DEF SessionShape, OneRotation
  <2>8. Registering'
    BY <2>2, <2>3, <2>4, <2>5, <2>6 DEF Registering
  <2> QED BY <2>7, <2>8
<1>4. ASSUME GatewayRotates PROVE Ordered'
  <2>1. /\ session = "auth" /\ ~rotating /\ rotating' /\ issued' = issued + 1
        /\ accepted' = accepted \cup {issued'} /\ issued' \in Keys
        /\ down' = Append(down, Message("rotate", issued'))
        /\ UNCHANGED <<phase, rotations, up, tokenUsed, session>>
    BY <1>1, <1>4, ConnectionBounds DEF GatewayRotates, loopVars, Keys
  <2>2. /\ DOMAIN down' = 1..(Len(down) + 1) /\ Len(down') = Len(down) + 1
        /\ \A n \in DOMAIN down : down'[n] = down[n]
        /\ down'[Len(down) + 1].type = "rotate" /\ down'[Len(down) + 1].key = issued'
    BY <1>2, <2>1
  <2>3. /\ \A n \in DOMAIN down : n = 1 /\ down[n].type # "rotate"
        /\ \A r \in rotations : ~r.live
        /\ up = << >> /\ DOMAIN up = {}
        /\ phase = "open"
    <3>1. \A n \in DOMAIN down : n = 1 /\ down[n].type # "rotate"
      BY <1>1, <2>1 DEF SessionShape
    <3>2. up = << >>
      <4>1. up \in Seq(ToGateway) /\ Len(up) \in Nat /\ DOMAIN up = 1..Len(up)
        BY LenProperties DEF Typed, TypeOK
      <4>2. DOMAIN up = {}
        BY <2>1 DEF SessionShape
      <4> QED BY <4>1, <4>2, EmptySeq
    <3>3. phase = "open" /\ \A r \in rotations : ~r.live
      BY <2>1 DEF SessionShape, OneRotation
    <3> QED BY <3>1, <3>2, <3>3, EmptySeq
  <2>4. \A r \in rotations : r.key \in Nat /\ r.key <= issued
    BY DEF Typed, TypeOK, KeysAreIssued, Rotation, Keys
  <2>5. SessionShape'
    BY <1>1, <2>1, <2>2, <2>3 DEF SessionShape
  <2>6. OneRotation'
    BY <1>1, <2>1, <2>2, <2>3, <2>4 DEF OneRotation
  <2>7. \A n \in DOMAIN down : down[n].type = "registered" => down[n].key \in 1..issued
    BY DEF Typed, KeysAreIssued
  <2>8. Registering'
    <3>1. tokenUsed
      BY <2>1 DEF Registering
    <3> QED BY <1>1, <2>1, <2>2, <2>3, <2>7, <3>1 DEF Registering
  <2> QED BY <2>5, <2>6, <2>8
<1>5. ASSUME GatewayHearsAnswer PROVE Ordered'
  <2>1. PICK type \in {"ok", "fail"} : Hear(type)
    BY <1>5 DEF GatewayHearsAnswer
  <2>2. /\ up[1].type = type /\ 1 \in DOMAIN up /\ up' = << >> /\ DOMAIN up' = {}
        /\ Len(up') = 0 /\ phase = "open" /\ phase' = phase /\ rotations' = rotations
        /\ up # << >>
    BY <2>1, HeardAlone
  <2>3. /\ ~rotating' /\ UNCHANGED <<down, issued, tokenUsed, session>>
    BY <1>5 DEF GatewayHearsAnswer
  <2>4. /\ rotating /\ session = "auth" /\ tokenUsed
        /\ \A r \in rotations : ~r.live
        /\ \A n \in DOMAIN down : down[n].type \notin {"rotate", "registered"}
    BY <2>1, <2>2 DEF SessionShape, OneRotation, Registering
  <2> QED BY <2>2, <2>3, <2>4 DEF SessionShape, OneRotation, Registering
<1> QED BY <1>3, <1>4, <1>5 DEF Gateway

\* Messages and rotations are in order in every state.
LEMMA OrderedAlways == Spec => []Ordered
<1>1. Init => Ordered
  <2> SUFFICES ASSUME Init PROVE Ordered
    OBVIOUS
  <2>1. DOMAIN up = {} /\ DOMAIN down = {} /\ Len(up) = 0
    BY EmptySeq DEF Init
  <2> QED
    BY <2>1 DEF Init, Ordered, SessionShape, OneRotation, Registering
<1>2. Typed /\ Ordered /\ [Next]_vars => Ordered'
  BY OrderedLoop, OrderedLink, OrderedReceive, OrderedRotate, OrderedGateway
  DEF Next, ConnectionLoop, Agent
<1> QED BY <1>1, <1>2, TypedAlways, PTL DEF Spec

-----------------------------------------------------------------------------
(* The keys.                                                               *)

\* Keys can be compared.
Numbers ==
  /\ issued \in Nat /\ mem.key \in Nat /\ disk.key \in Nat
  /\ accepted \subseteq 1..issued
  /\ \A r \in rotations : r.key \in Nat

\* They can, by their types.
LEMMA KeysAreNumbers == Typed => Numbers
BY ConnectionBounds
DEF Typed, TypeOK, Numbers, Credentials, Rotation, Keys, NoKey

\* The inductive invariant about the keys.
SoundKeys == Sound => KeysAreGood

\* Steps that touch neither the connection nor the rotations.
LEMMA KeysLoop ==
  ASSUME Typed, Ordered, SoundKeys,
         Dial \/ AttemptIsLong \/ Wake \/ Start \/ UNCHANGED vars
  PROVE  SoundKeys'
<1>1. UNCHANGED <<disk, linkVars, rotations, gatewayVars, spoilt>>
  BY DEF Dial, AttemptIsLong, Wake, Start, vars, credentialVars, loopVars
<1>2. ASSUME Start PROVE SoundKeys'
  <2>1. phase = "down" /\ phase' = "idle" /\ mem' = disk /\ ~rotating
    BY <1>2 DEF Start, Ordered, SessionShape
  <2> QED
    BY <1>1, <2>1
    DEF SoundKeys, Sound, KeysAreGood, Admitted, IssueInFlight, linkVars, gatewayVars
<1>3. ASSUME ~Start PROVE SoundKeys'
  <2>1. UNCHANGED mem /\ (phase = "down" <=> phase' = "down")
    BY <1>3 DEF Dial, AttemptIsLong, Wake, vars, credentialVars, loopVars
  <2> QED
    BY <1>1, <2>1
    DEF SoundKeys, Sound, KeysAreGood, Admitted, IssueInFlight, Answering, linkVars,
        gatewayVars
<1> QED BY <1>2, <1>3

\* Connections and processes that come and go.  A registration on its way is lost
\* with them; a rotation on its way may still be applied, and its key is good then.
LEMMA KeysLink ==
  ASSUME Typed, Ordered, SoundKeys, Connected \/ EndAttempt \/ Crash
  PROVE  SoundKeys'
<1>1. ASSUME Connected PROVE SoundKeys'
  <2>1. phase = "dialing" /\ phase' = "open" /\ ~rotating
        /\ UNCHANGED <<mem, disk, spoilt, down, rotations, gatewayVars>>
    BY <1>1 DEF Connected, credentialVars, Ordered, SessionShape
  <2> QED
    BY <2>1 DEF SoundKeys, Sound, KeysAreGood, Admitted, IssueInFlight, gatewayVars
<1>2. ASSUME EndAttempt \/ Crash, Sound' PROVE KeysAreGood'
  <2>1. HangUp /\ rotations' \subseteq StrayRotations /\ UNCHANGED <<mem, disk>>
    BY <1>2 DEF EndAttempt, Crash, credentialVars
  <2>2. ~rotating' /\ UNCHANGED <<issued, accepted, tokenUsed>>
    BY <2>1 DEF HangUp
  <2>3. ~IssueInFlight /\ Sound
    BY <1>2 DEF EndAttempt, Crash, Sound
  <2>4. KeysAreGood
    BY <2>3 DEF SoundKeys
  <2>5. Admitted(disk) => Admitted(disk)'
    BY <2>1, <2>2, <2>3 DEF Admitted
  <2>6. Admitted(mem) => Admitted(mem)'
    BY <2>1, <2>2, <2>3 DEF Admitted
  <2>7. "registration_unsaved" \notin spoilt' => "registration_unsaved" \notin spoilt
    BY <1>2 DEF EndAttempt, Crash
  <2>8. ASSUME phase' = "down" PROVE "registration_unsaved" \notin spoilt'
    BY <1>2, <2>8 DEF EndAttempt, Crash, Sound
  <2>9. ASSUME phase' # "down", "rotation_unsaved" \notin spoilt' PROVE Admitted(mem)'
    BY <1>2, <2>4, <2>6, <2>9 DEF EndAttempt, Crash, KeysAreGood
  <2>10. ASSUME NEW r \in rotations' PROVE r.key \in accepted \/ r.key < disk.key
    <3>1. PICK q \in rotations : q.key = r.key
      BY <2>1, HungUp
    <3>2. q.live => q.key \in accepted
      BY DEF Ordered, SessionShape, OneRotation
    <3> QED BY <2>4, <3>1, <3>2 DEF KeysAreGood
  <2> QED
    BY <2>1, <2>2, <2>4, <2>5, <2>7, <2>8, <2>9, <2>10 DEF KeysAreGood
<1> QED BY <1>1, <1>2 DEF SoundKeys

\* The messages of the gateway as the receive loop takes them.
LEMMA KeysReceive ==
  ASSUME Typed, Ordered, SoundKeys,
         ReceiveRegistered \/ ReceiveWelcome \/ ReceiveRefused \/ ReceiveRotate
  PROVE  SoundKeys'
<1>1. PICK type \in {"registered", "welcome", "refused", "rotate"} : Take(type)
  BY DEF ReceiveRegistered, ReceiveWelcome, ReceiveRefused, ReceiveRotate
<1>2. TypeOK /\ DOMAIN down = 1..Len(down) /\ Len(down) \in Nat /\ Numbers
  BY LenProperties, KeysAreNumbers DEF Typed, TypeOK
<1>3. /\ phase = "open" /\ Len(down) >= 1 /\ down[1].type = type
      /\ Head(down) = down[1] /\ 1 \in DOMAIN down
      /\ \A n \in DOMAIN down' : n + 1 \in DOMAIN down /\ down'[n] = down[n + 1]
      /\ DOMAIN down' = 1..Len(down')
  <2>1. /\ phase = "open" /\ Len(down) >= 1 /\ down[1].type = type
        /\ Head(down) = down[1] /\ down' \in Seq(ToAgent)
        /\ \A n \in DOMAIN down' : n + 1 \in DOMAIN down /\ down'[n] = down[n + 1]
    BY <1>1, <1>2, Taken
  <2> QED BY <1>2, <2>1, LenProperties
<1>4. UNCHANGED <<phase, up, gatewayVars>>
  BY DEF ReceiveRegistered, ReceiveWelcome, ReceiveRefused, ReceiveRotate, loopVars
<1>5. \A n \in DOMAIN down' : down'[n].type = "rotate"
  BY <1>2, <1>3 DEF Ordered, SessionShape
<1>6. ~IssueInFlight'
  BY <1>5 DEF IssueInFlight
<1>7. ASSUME ReceiveRegistered, Sound' PROVE KeysAreGood'
  <2>1. type = "registered"
    BY <1>3, <1>7 DEF ReceiveRegistered, Take
  <2>2. /\ rotations = {} /\ rotations' = {} /\ up = << >> /\ down[1].key \in accepted
        /\ rotating => down[1].key < issued
    BY <1>3, <1>7, <2>1 DEF ReceiveRegistered, Ordered, Registering
  <2>3. mem' = [key |-> down[1].key, token |-> FALSE] /\ mem'.key = down[1].key
    BY <1>3, <1>7 DEF ReceiveRegistered, SetCredentials
  <2>4. Admitted(mem)'
    BY <1>4, <2>2, <2>3 DEF Admitted, gatewayVars
  <2>5. ~Answering("ok") /\ ~Answering("ok")'
    BY <1>4, <2>2, EmptySeq DEF Answering
  <2>6. Sound /\ KeysAreGood
    BY <1>7 DEF ReceiveRegistered, Save, Sound, SoundKeys
  <2>7. rotating => disk'.key < issued /\ mem'.key < issued
    BY <1>7, <2>2, <2>3, <2>5, <2>6 DEF ReceiveRegistered, Save, KeysAreGood
  <2>8. "registration_unsaved" \notin spoilt' => disk' = mem'
    BY <1>7 DEF ReceiveRegistered, Save
  <2>9. "registration_unsaved" \notin spoilt' => Admitted(disk)'
    BY <2>4, <2>8 DEF Admitted
  <2> QED
    BY <1>3, <1>4, <2>2, <2>4, <2>5, <2>7, <2>9 DEF KeysAreGood, gatewayVars
<1>8. ASSUME ReceiveWelcome \/ ReceiveRefused \/ ReceiveRotate, Sound'
      PROVE  KeysAreGood'
  <2>1. type # "registered" /\ UNCHANGED <<mem, disk, spoilt>>
    BY <1>3, <1>8 DEF ReceiveWelcome, ReceiveRefused, ReceiveRotate, Take, credentialVars
  <2>2. ~IssueInFlight
    BY <1>2, <1>3, <2>1 DEF IssueInFlight, Ordered, SessionShape
  <2>3. Sound /\ KeysAreGood
    BY <1>8, <2>1 DEF Sound, SoundKeys
  <2>4. ASSUME NEW r \in rotations', r \notin rotations
        PROVE  r.live /\ r.step = "apply"
    <3>1. ASSUME ReceiveRotate
          PROVE  \A p \in rotations' \ rotations : p.live /\ p.step = "apply"
      <4>1. PICK q : /\ q = [key |-> down[1].key, live |-> TRUE, step |-> "apply"]
                     /\ rotations' = rotations \cup {q}
        BY <1>3, <3>1 DEF ReceiveRotate
      <4> QED BY <4>1
    <3>2. ASSUME ReceiveWelcome \/ ReceiveRefused PROVE rotations' = rotations
      BY <3>2 DEF ReceiveWelcome, ReceiveRefused
    <3> QED BY <1>8, <2>4, <3>1, <3>2
  <2>5. rotations \subseteq rotations'
    BY <1>8 DEF ReceiveWelcome, ReceiveRefused, ReceiveRotate
  <2>6. Answering("ok") <=> Answering("ok")'
    BY <1>4, <2>4, <2>5 DEF Answering
  <2>7. Admitted(mem) => Admitted(mem)'
    BY <1>4, <2>1, <2>2 DEF Admitted, gatewayVars
  <2>8. Admitted(disk) => Admitted(disk)'
    BY <1>4, <2>1, <2>2 DEF Admitted, gatewayVars
  <2> QED
    BY <1>4, <2>1, <2>3, <2>4, <2>6, <2>7, <2>8 DEF KeysAreGood, gatewayVars
<1> QED BY <1>7, <1>8 DEF SoundKeys

\* A rotation and its answer.  A rotation of an earlier connection whose key is not
\* good any more is behind the file, so that applying it is noticed as overtaking.
LEMMA KeysRotate ==
  ASSUME Typed, Ordered, SoundKeys, NEW r \in rotations,
         RotateKey(r) \/ AnswerRotation(r)
  PROVE  SoundKeys'
<1>1. r \in Rotation /\ r.key <= issued /\ Numbers /\ r.key \in Nat
  BY KeysAreNumbers DEF Typed, TypeOK, KeysAreIssued, Numbers
<1>2. ASSUME RotateKey(r)
      PROVE  /\ UNCHANGED <<phase, up, down, gatewayVars>> /\ r.step = "apply"
             /\ mem' = [mem EXCEPT !.key = r.key] /\ mem'.key = r.key
  BY <1>2 DEF RotateKey, loopVars, linkVars, Typed, TypeOK, Credentials
<1>3. r.live => r.key = issued /\ rotating /\ issued \in accepted
  BY DEF Ordered, OneRotation, SessionShape
<1>4. ~r.live /\ rotating => r.key < issued
  BY DEF Ordered, OneRotation
<1>5. ASSUME RotateKey(r), disk' = mem',
             rotations' = (rotations \ {r}) \cup AnswerTo(r, "ok"),
             spoilt' = (spoilt \ {"registration_unsaved", "rotation_unsaved"})
                         \cup (IF Max({mem.key, disk.key}) > r.key
                               THEN {"overtaken"} ELSE {}),
             Sound'
      PROVE  KeysAreGood'
  <2>1. Sound /\ KeysAreGood
    BY <1>5 DEF Sound, SoundKeys
  <2>2. Max({mem.key, disk.key}) = IF mem.key >= disk.key THEN mem.key ELSE disk.key
    BY <1>1, MinMax DEF Numbers
  <2>3. r.key >= disk.key
    BY <1>1, <1>5, <2>2 DEF Sound, Numbers
  <2>4. r.key \in accepted
    BY <1>1, <1>3, <2>1, <2>3 DEF KeysAreGood, Numbers
  <2>5. mem'.key = r.key /\ disk'.key = r.key /\ UNCHANGED <<phase, up, down, gatewayVars>>
    BY <1>2, <1>5
  <2>6. Admitted(mem)' /\ Admitted(disk)'
    BY <2>4, <2>5 DEF Admitted, gatewayVars
  <2>7. /\ \A q \in AnswerTo(r, "ok") : r.live /\ q.live /\ q.step = "ok"
        /\ r.live => AnswerTo(r, "ok") # {}
    BY <1>1, Answered
  <2>8. ASSUME NEW q \in rotations', ~q.live
        PROVE  q.key \in accepted \/ q.key < r.key
    <3>1. q \in rotations
      BY <1>5, <2>7, <2>8
    <3> QED BY <1>1, <2>1, <2>3, <2>8, <3>1 DEF KeysAreGood, Numbers
  <2>9. ASSUME rotating, ~r.live PROVE r.key < issued /\ ~Answering("ok")'
    <3>1. r.key < issued /\ disk.key < issued
      BY <1>1, <1>4, <2>3, <2>9 DEF Numbers
    <3>2. ~Answering("ok")
      BY <1>1, <2>1, <2>9, <3>1 DEF KeysAreGood, Numbers
    <3>3. rotations' \subseteq rotations
      BY <1>5, <2>7, <2>9
    <3> QED BY <2>5, <3>1, <3>2, <3>3 DEF Answering
  <2>10. ASSUME r.live PROVE r.key = issued /\ Answering("ok")'
    BY <1>3, <1>5, <2>7, <2>10 DEF Answering
  <2>11. phase' # "down" \/ "registration_unsaved" \notin spoilt'
    BY <1>5
  <2> QED
    BY <2>5, <2>6, <2>8, <2>9, <2>10, <2>11 DEF KeysAreGood, gatewayVars
<1>6. ASSUME RotateKey(r), disk' = disk, spoilt' = spoilt \cup {"rotation_unsaved"},
             rotations' = (rotations \ {r}) \cup AnswerTo(r, "fail"), Sound'
      PROVE  KeysAreGood'
  <2>1. Sound /\ KeysAreGood
    BY <1>6 DEF Sound, SoundKeys
  <2>2. \A q \in AnswerTo(r, "fail") : q.live /\ q.step = "fail"
    BY <1>1, Answered
  <2>3. \A q \in rotations' : ~q.live => q \in rotations
    BY <1>6, <2>2
  <2>4. Answering("ok")' <=> Answering("ok")
    BY <1>2, <1>6, <2>2 DEF Answering
  <2>5. Admitted(disk) => Admitted(disk)'
    BY <1>2, <1>6 DEF Admitted, IssueInFlight, gatewayVars
  <2>6. "rotation_unsaved" \in spoilt'
        /\ ("registration_unsaved" \in spoilt' <=> "registration_unsaved" \in spoilt)
    BY <1>6
  <2> QED
    BY <1>2, <1>6, <2>1, <2>3, <2>4, <2>5, <2>6 DEF KeysAreGood, gatewayVars
<1>7. ASSUME AnswerRotation(r) PROVE SoundKeys'
  <2>1. /\ up' = Append(up, Message(r.step, r.key)) /\ rotations' = rotations \ {r}
        /\ UNCHANGED <<phase, down, mem, disk, gatewayVars, spoilt>>
        /\ r.step \in {"ok", "fail"}
    BY <1>7 DEF AnswerRotation, loopVars, credentialVars
  <2>2. r.live /\ up = << >> /\ \A q \in rotations : q.live => q = r
    BY <2>1 DEF Ordered, OneRotation
  <2>3. up' = <<Message(r.step, r.key)>> /\ Message(r.step, r.key).type = r.step
    BY <2>1, <2>2 DEF Message
  <2>4. DOMAIN up' = {1} /\ up'[1].type = r.step /\ DOMAIN up = {}
    BY <2>2, <2>3, EmptySeq
  <2>5. Answering("ok")' <=> Answering("ok")
    BY <2>1, <2>2, <2>4 DEF Answering
  <2> QED
    BY <2>1, <2>5
    DEF SoundKeys, Sound, KeysAreGood, Admitted, IssueInFlight, gatewayVars
<1>8. RotateKey(r) => SoundKeys'
  BY <1>5, <1>6 DEF RotateKey, SoundKeys
<1> QED BY <1>7, <1>8

\* The gateway.  It drops the old keys only when it hears of a rotation, and by then
\* the agent has the new one in the file; or has said that it has not.
LEMMA KeysGateway ==
  ASSUME Typed, Ordered, SoundKeys, Gateway
  PROVE  SoundKeys'
<1>1. /\ down \in Seq(ToAgent) /\ Len(down) \in Nat /\ DOMAIN down = 1..Len(down)
      /\ Numbers
  BY LenProperties, KeysAreNumbers DEF Typed, TypeOK
<1>2. ASSUME NEW m \in ToAgent, down' = Append(down, m)
      PROVE  /\ \A n \in DOMAIN down : n \in DOMAIN down' /\ down'[n] = down[n]
             /\ Len(down) + 1 \in DOMAIN down' /\ down'[Len(down) + 1] = m
  BY <1>1, <1>2, Sent
<1>3. ASSUME GatewayRegisters PROVE SoundKeys'
  <2>1. Hear("register") /\ ~tokenUsed /\ tokenUsed' /\ rotating' = rotating
        /\ down' = Append(down, Message("registered", issued')) /\ issued' \in Keys
        /\ UNCHANGED <<mem, disk, phase, spoilt>>
    BY <1>1, <1>3, ConnectionBounds
    DEF GatewayRegisters, Hear, credentialVars, loopVars, Numbers, Keys
  <2>2. /\ Message("registered", issued') \in ToAgent
        /\ Message("registered", issued').type = "registered"
    BY <2>1 DEF Message, ToAgent
  <2>3. IssueInFlight'
    BY <1>2, <2>1, <2>2 DEF IssueInFlight
  <2>4. accepted = {} /\ rotations = {} /\ rotations' = {} /\ ~rotating
    BY <2>1, HeardAlone DEF Ordered, Registering, SessionShape
  <2>5. Admitted(mem) => Admitted(mem)'
    BY <2>1, <2>3, <2>4 DEF Admitted
  <2>6. Admitted(disk) => Admitted(disk)'
    BY <2>1, <2>3, <2>4 DEF Admitted
  <2> QED BY <2>1, <2>4, <2>5, <2>6 DEF SoundKeys, Sound, KeysAreGood
<1>4. ASSUME GatewayWelcomes \/ GatewayRefuses PROVE SoundKeys'
  <2>1. PICK heard \in {"register", "reconnect"} : Hear(heard)
    BY <1>4 DEF GatewayWelcomes, GatewayRefuses
  <2>2. PICK type \in {"welcome", "refused"} : down' = Append(down, Message(type, NoKey))
    BY <1>4 DEF GatewayWelcomes, GatewayRefuses
  <2>3. UNCHANGED <<mem, disk, phase, spoilt, rotations, issued, accepted, tokenUsed,
                    rotating>>
    BY <1>4, <2>1 DEF GatewayWelcomes, GatewayRefuses, Hear, credentialVars, loopVars
  <2>4. Message(type, NoKey) \in ToAgent
    BY DEF Message, ToAgent
  <2>5. IssueInFlight => IssueInFlight'
    BY <1>2, <2>2, <2>4 DEF IssueInFlight
  <2>6. ~rotating
    <3>1. 1 \in DOMAIN up /\ up[1].type = heard
      BY <2>1, HeardAlone
    <3>2. session = "none"
      BY <3>1 DEF Ordered, SessionShape
    <3> QED BY <3>2 DEF Ordered, SessionShape
  <2> QED
    BY <2>3, <2>5, <2>6 DEF SoundKeys, Sound, KeysAreGood, Admitted
<1>5. ASSUME GatewayRotates PROVE SoundKeys'
  <2>1. /\ ~rotating /\ issued' = issued + 1 /\ accepted' = accepted \cup {issued'}
        /\ down' = Append(down, Message("rotate", issued')) /\ issued' \in Keys
        /\ UNCHANGED <<mem, disk, phase, spoilt, rotations, up, tokenUsed, session>>
    BY <1>1, <1>5, ConnectionBounds
    DEF GatewayRotates, credentialVars, loopVars, Numbers, Keys
  <2>2. Message("rotate", issued') \in ToAgent
    BY <2>1 DEF Message, ToAgent
  <2>3. IssueInFlight => IssueInFlight'
    BY <1>2, <2>1, <2>2 DEF IssueInFlight
  <2>4. session = "auth" /\ mem.key < issued' /\ disk.key < issued'
    BY <1>1, <1>5, <2>1 DEF GatewayRotates, Typed, KeysAreIssued, Numbers
  <2>5. ~Answering("ok")'
    BY <2>1, <2>4 DEF Answering, Ordered, OneRotation, SessionShape
  <2>6. (Admitted(mem) => Admitted(mem)') /\ (Admitted(disk) => Admitted(disk)')
    BY <2>1, <2>3 DEF Admitted
  <2> QED BY <2>1, <2>4, <2>5, <2>6 DEF SoundKeys, Sound, KeysAreGood
<1>6. ASSUME GatewayHearsAnswer, Sound' PROVE KeysAreGood'
  <2>1. PICK type \in {"ok", "fail"} :
          /\ Hear(type)
          /\ accepted' = IF type = "ok" THEN {Head(up).key} ELSE accepted \ {Head(up).key}
    BY <1>6 DEF GatewayHearsAnswer
  <2>2. ~rotating' /\ UNCHANGED <<mem, disk, phase, spoilt, rotations, down, issued, tokenUsed>>
    BY <1>6, <2>1 DEF GatewayHearsAnswer, Hear, credentialVars, loopVars
  <2>3. /\ Head(up).key = issued /\ rotating /\ 1 \in DOMAIN up /\ up[1].type = type
        /\ DOMAIN up = {1} /\ up # << >>
    <3>1. Head(up) = up[1] /\ up[1].type = type /\ 1 \in DOMAIN up /\ up # << >>
      BY <2>1, HeardAlone
    <3>2. up \in Seq(ToGateway) /\ Len(up) \in Nat /\ DOMAIN up = 1..Len(up)
      BY LenProperties DEF Typed, TypeOK
    <3> QED BY <3>1, <3>2 DEF Ordered, SessionShape
  <2>4. \A r \in rotations : ~r.live /\ r.key < issued
    BY <2>3 DEF Ordered, OneRotation
  <2>5. Answering("ok") <=> type = "ok"
    BY <2>3, <2>4 DEF Answering
  <2>6. Sound /\ KeysAreGood
    BY <1>6, <2>2 DEF Sound, SoundKeys
  <2>7. IssueInFlight' <=> IssueInFlight
    BY <2>2 DEF IssueInFlight
  <2>8. CASE type = "ok"
    BY <2>1, <2>2, <2>3, <2>4, <2>5, <2>6, <2>8 DEF KeysAreGood, Admitted
  <2>9. CASE type = "fail"
    <3>1. disk.key < issued /\ (mem.key < issued \/ "rotation_unsaved" \in spoilt)
      BY <2>3, <2>5, <2>6, <2>9 DEF KeysAreGood
    <3>2. accepted' = accepted \ {issued}
      BY <2>1, <2>3, <2>9
    <3>3. Admitted(disk) => Admitted(disk)'
      BY <1>1, <2>2, <2>7, <3>1, <3>2 DEF Admitted, Numbers
    <3>4. mem.key < issued /\ Admitted(mem) => Admitted(mem)'
      BY <1>1, <2>2, <2>7, <3>2 DEF Admitted, Numbers
    <3>5. \A r \in rotations : r.key \in accepted' \/ r.key < disk.key
      BY <1>1, <2>4, <2>6, <3>2 DEF KeysAreGood, Numbers
    <3> QED BY <2>2, <2>6, <3>1, <3>3, <3>4, <3>5 DEF KeysAreGood
  <2> QED BY <2>8, <2>9
<1> QED BY <1>3, <1>4, <1>5, <1>6 DEF Gateway, SoundKeys

\* While nothing has spoilt the credentials for good, the keys are.
LEMMA SoundKeysAlways == Spec => []SoundKeys
<1>1. Init => SoundKeys
  BY DEF Init, SoundKeys, KeysAreGood, Admitted, NeedsRegistration, Fresh
<1>2. Typed /\ Ordered /\ SoundKeys /\ [Next]_vars => SoundKeys'
  BY KeysLoop, KeysLink, KeysReceive, KeysRotate, KeysGateway
  DEF Next, ConnectionLoop, Agent
<1> QED BY <1>1, <1>2, TypedAlways, OrderedAlways, PTL DEF Spec

\* The running agent can get back in, unless its registration was lost, its last
\* rotation could not be saved, or a rotation was overtaken.
THEOREM AgentIsNotLockedOut == Spec => []NotLockedOut
<1>1. SoundKeys => NotLockedOut
  BY DEF SoundKeys, Sound, KeysAreGood, NotLockedOut
<1> QED BY <1>1, SoundKeysAlways, PTL

\* The configuration file gets a restarted agent back in, whenever the crash comes,
\* unless a registration is lost or unsaved or a rotation was overtaken.
THEOREM FileGetsBackIn == Spec => []RestartSafe
<1>1. SoundKeys => RestartSafe
  BY DEF SoundKeys, Sound, KeysAreGood, RestartSafe
<1> QED BY <1>1, SoundKeysAlways, PTL

-----------------------------------------------------------------------------
(***************************************************************************)
(* The backoff.  That the recursive function PowerOfTwo exists is proved   *)
(* by building it from its initial segments.                               *)
(***************************************************************************)

\* g gives the first n powers of two.
Doubles(g, n) ==
  g \in [0..n -> Nat] /\ g[0] = 1 /\ \A k \in 1..n : g[k] = 2 * g[k - 1]

\* There are as many of them as one likes.
LEMMA DoublesExists == \A n \in Nat : \E g : Doubles(g, n)
<1>. DEFINE T == {n \in Nat : ~ \E g : Doubles(g, n)}
<1>. SUFFICES ASSUME T # {} PROVE FALSE
  OBVIOUS
<1>1. PICK m \in T : \A n \in T : m <= n
  <2>1. T \in SUBSET Nat
    OBVIOUS
  <2>. HIDE DEF T
  <2>. QED  BY <2>1, HasLeast
<1>2. m # 0
  <2>1. Doubles([k \in 0..0 |-> 1], 0)
    BY DEF Doubles
  <2>. QED  BY <2>1
<1>3. m - 1 \in Nat /\ ~(m <= m - 1)
  BY <1>2
<1>4. PICK g : Doubles(g, m - 1)
  BY <1>1, <1>3
<1>5. Doubles([k \in 0..m |-> IF k = m THEN 2 * g[m - 1] ELSE g[k]], m)
  BY <1>2, <1>3, <1>4 DEF Doubles
<1>. QED  BY <1>5

\* Two initial segments agree where both are defined.
LEMMA DoublesUnique ==
  ASSUME NEW g, NEW h, NEW m \in Nat, NEW n \in Nat, m <= n,
         Doubles(g, m), Doubles(h, n)
  PROVE  \A k \in 0..m : g[k] = h[k]
<1>. DEFINE T == {k \in 0..m : g[k] # h[k]}
<1>. SUFFICES ASSUME T # {} PROVE FALSE
  OBVIOUS
<1>1. PICK k \in T : \A j \in T : k <= j
  <2>1. T \in SUBSET Nat
    OBVIOUS
  <2>. HIDE DEF T
  <2>. QED  BY <2>1, HasLeast
<1>2. k # 0
  BY DEF Doubles
<1>3. k - 1 \in 0..m /\ k - 1 \notin T /\ k \in 1..m /\ k \in 1..n
  BY <1>1, <1>2
<1>. QED  BY <1>3 DEF Doubles

\* PowerOfTwo is the function its recursive definition describes.
LEMMA PowerOfTwoDef ==
  /\ PowerOfTwo \in [Nat -> Nat]
  /\ PowerOfTwo[0] = 1
  /\ \A n \in Nat : PowerOfTwo[n + 1] = 2 * PowerOfTwo[n]
<1>. DEFINE G(n) == CHOOSE g : Doubles(g, n)
            f == [n \in Nat |-> G(n)[n]]
            Def(h) == [n \in Nat |-> IF n = 0 THEN 1 ELSE 2 * h[n - 1]]
<1>1. \A n \in Nat : Doubles(G(n), n)
  BY DoublesExists
<1>. HIDE DEF G
<1>2. ASSUME NEW n \in Nat PROVE f[n] \in Nat /\ f[n] = IF n = 0 THEN 1 ELSE 2 * f[n - 1]
  <2>1. Doubles(G(n), n)
    BY <1>1
  <2>2. CASE n = 0
    BY <2>1, <2>2 DEF Doubles
  <2>3. CASE n # 0
    <3>1. n - 1 \in Nat /\ n - 1 <= n /\ n - 1 \in 0..n - 1 /\ n \in 1..n /\ n \in 0..n
      BY <2>3
    <3>2. Doubles(G(n - 1), n - 1)
      BY <1>1, <3>1
    <3>3. G(n - 1)[n - 1] = G(n)[n - 1]
      BY <2>1, <3>1, <3>2, DoublesUnique
    <3>4. G(n)[n] = 2 * G(n)[n - 1] /\ G(n)[n] \in Nat
      BY <2>1, <3>1 DEF Doubles
    <3>. QED  BY <2>3, <3>1, <3>3, <3>4
  <2>. QED  BY <2>2, <2>3
<1>3. f = Def(f)
  BY <1>2
<1>. HIDE DEF f
<1>4. PowerOfTwo = Def(PowerOfTwo)
  <2>1. PowerOfTwo = CHOOSE h : h = Def(h)
    BY DEF PowerOfTwo
  <2>. HIDE DEF Def
  <2>. QED  BY <1>3, <2>1
<1>5. \A n \in Nat : PowerOfTwo[n] = IF n = 0 THEN 1 ELSE 2 * PowerOfTwo[n - 1]
  BY <1>4, Zenon
<1>6. PowerOfTwo[0] = 1
  BY <1>5
<1>7. \A n \in Nat : PowerOfTwo[n + 1] = 2 * PowerOfTwo[n]
  BY <1>5
<1>8. \A n \in Nat : PowerOfTwo[n] \in Nat
  <2>. DEFINE T == {n \in Nat : PowerOfTwo[n] \notin Nat}
  <2>. SUFFICES ASSUME T # {} PROVE FALSE
    OBVIOUS
  <2>1. PICK n \in T : \A j \in T : n <= j
    <3>1. T \in SUBSET Nat
      OBVIOUS
    <3>. HIDE DEF T
    <3>. QED  BY <3>1, HasLeast
  <2>2. n # 0
    BY <1>6
  <2>3. n - 1 \in Nat /\ ~(n <= n - 1)
    BY <2>2
  <2>4. PowerOfTwo[n - 1] \in Nat
    BY <2>1, <2>3
  <2>. QED  BY <1>5, <2>2, <2>4
<1>9. DOMAIN PowerOfTwo = Nat
  BY <1>4
<1>. QED  BY <1>4, <1>6, <1>7, <1>8

\* Outside of the wait the backoff is the next one to be waited, doubled already.
Backoff ==
  /\ phase = "waiting" => failures >= 1 /\ BackoffDoubles
  /\ phase \in {"idle", "dialing", "open"} =>
       backoff = IF failures = 0 THEN 1 ELSE Min({PowerOfTwo[failures], MaxBackoff})

\* Doubling under the cap and capping what was doubled are the same.
LEMMA CappedDoubling ==
  ASSUME NEW n \in Nat
  PROVE  /\ Min({2 * Min({PowerOfTwo[n], MaxBackoff}), MaxBackoff})
             = Min({PowerOfTwo[n + 1], MaxBackoff})
         /\ PowerOfTwo[1] = 2
<1>1. /\ PowerOfTwo[n] \in Nat /\ PowerOfTwo[n + 1] \in Nat
      /\ PowerOfTwo[n + 1] = 2 * PowerOfTwo[n]
  BY PowerOfTwoDef
<1>2. PowerOfTwo[0 + 1] = 2 * PowerOfTwo[0]
  BY PowerOfTwoDef
<1>3. Min({PowerOfTwo[n], MaxBackoff})
        = IF PowerOfTwo[n] <= MaxBackoff THEN PowerOfTwo[n] ELSE MaxBackoff
  BY <1>1, MinMax, BackoffAssumption
<1>4. Min({PowerOfTwo[n + 1], MaxBackoff})
        = IF PowerOfTwo[n + 1] <= MaxBackoff THEN PowerOfTwo[n + 1] ELSE MaxBackoff
  BY <1>1, MinMax, BackoffAssumption
<1>. DEFINE capped == Min({PowerOfTwo[n], MaxBackoff})
<1>5. capped \in Nat
  BY <1>1, <1>3, BackoffAssumption
<1>. HIDE DEF capped
<1>6. Min({2 * capped, MaxBackoff})
        = IF 2 * capped <= MaxBackoff THEN 2 * capped ELSE MaxBackoff
  BY <1>5, MinMax, BackoffAssumption
<1>7. Min({2 * capped, MaxBackoff}) = Min({PowerOfTwo[n + 1], MaxBackoff})
  BY <1>1, <1>3, <1>4, <1>6, BackoffAssumption DEF capped
<1>. QED  BY <1>2, <1>7, PowerOfTwoDef DEF capped

\* Every action keeps the backoff what it should be.
LEMMA BackoffStep == Typed /\ Backoff /\ [Next]_vars => Backoff'
<1>. SUFFICES ASSUME Typed, Backoff, [Next]_vars PROVE Backoff'
  OBVIOUS
<1>0. failures \in Nat /\ backoff \in Nat
  BY BackoffAssumption DEF Typed, TypeOK
<1>1. CASE EndAttempt
  <2>1. /\ phase \in {"dialing", "open"} /\ phase' = "waiting"
        /\ backoff' = IF long THEN 1 ELSE backoff
        /\ failures' = IF long THEN 1 ELSE failures + 1
    BY <1>1 DEF EndAttempt
  <2>. QED  BY <1>0, <2>1 DEF Backoff, BackoffDoubles
<1>2. CASE Wake
  <2>1. /\ phase = "waiting" /\ phase' = "idle" /\ failures' = failures
        /\ backoff' = Min({backoff * 2, MaxBackoff}) /\ failures >= 1
    BY <1>2 DEF Wake, Doubled, Backoff
  <2>2. CASE failures = 1
    <3>1. backoff = 1 /\ PowerOfTwo[1] = 2
      BY <2>1, <2>2, CappedDoubling DEF Backoff, BackoffDoubles
    <3>2. backoff' = Min({PowerOfTwo[failures], MaxBackoff})
      BY <2>1, <2>2, <3>1
    <3>. QED  BY <2>1, <2>2, <3>2 DEF Backoff
  <2>3. CASE failures # 1
    <3>1. backoff = Min({PowerOfTwo[failures - 1], MaxBackoff})
      BY <2>1, <2>3 DEF Backoff, BackoffDoubles
    <3>2. failures - 1 \in Nat /\ (failures - 1) + 1 = failures /\ backoff * 2 = 2 * backoff
      BY <1>0, <2>1
    <3>3. backoff' = Min({PowerOfTwo[failures], MaxBackoff})
      BY <2>1, <3>1, <3>2, CappedDoubling
    <3>. QED  BY <1>0, <2>1, <3>3 DEF Backoff
  <2>. QED  BY <2>2, <2>3
<1>3. CASE Start \/ Crash
  BY <1>3 DEF Start, Crash, Backoff
<1>4. CASE Dial \/ Connected \/ AttemptIsLong
  BY <1>4 DEF Dial, Connected, AttemptIsLong, Backoff
<1>5. CASE Agent \/ Gateway \/ UNCHANGED vars
  <2>1. UNCHANGED loopVars
    BY <1>5
    DEF Agent, Gateway, vars, ReceiveRegistered, ReceiveWelcome, ReceiveRefused,
        ReceiveRotate, RotateKey, AnswerRotation, Hear, GatewayRegisters,
        GatewayWelcomes, GatewayRefuses, GatewayRotates, GatewayHearsAnswer
  <2>. QED  BY <2>1 DEF loopVars, Backoff, BackoffDoubles
<1>. QED  BY <1>1, <1>2, <1>3, <1>4, <1>5 DEF Next, ConnectionLoop

\* After n attempts that ended early the loop waits the smaller of 2^(n-1)
\* seconds and the cap, whatever the cap and however often it connects.
THEOREM BackoffIsExponential == Spec => []BackoffDoubles
<1>1. Init => Backoff
  BY DEF Init, Backoff
<1>2. Backoff => BackoffDoubles
  BY DEF Backoff, BackoffDoubles
<1>. QED  BY <1>1, <1>2, BackoffStep, TypedAlways, PTL DEF Spec
=============================================================================
