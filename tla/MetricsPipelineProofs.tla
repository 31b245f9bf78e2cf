----------------------- MODULE MetricsPipelineProofs -----------------------
(***************************************************************************)
(* Proofs about MetricsPipeline for every value of its constants: type     *)
(* correctness, the safety invariants, the order of what is sent, that     *)
(* backfill drains the table, and that the pipeline implements             *)
(* MetricsContract.  None of them uses the bounds on faults, errors or     *)
(* time.                                                                   *)
(***************************************************************************)
EXTENDS MetricsPipeline, LeastNumber, FiniteSetTheorems, TLAPS

-----------------------------------------------------------------------------
(* What the operators of the table do to its domain and its unsent rows.   *)

\* mark_sent takes the ids out of the unsent rows and touches nothing else.
LEMMA MarkTable ==
  ASSUME NEW table, IsTable(table), NEW S
  PROVE  /\ IsTable(MarkSent(table, S))
         /\ DOMAIN MarkSent(table, S) = DOMAIN table
         /\ Unsent(MarkSent(table, S)) = Unsent(table) \ S
BY DEF MarkSent, Unsent, Row, IsTable

\* A restriction of the table keeps the rows it keeps as they are.
LEMMA RestrictTable ==
  ASSUME NEW table, IsTable(table), NEW S, S \subseteq DOMAIN table
  PROVE  /\ IsTable(Restrict(table, S))
         /\ DOMAIN Restrict(table, S) = S
         /\ Unsent(Restrict(table, S)) = Unsent(table) \cap S
BY DEF Restrict, Unsent, Row, IsTable

\* The rows that get_unsent can return are rows of the table.
LEMMA UnsentInTable ==
  ASSUME NEW table
  PROVE  Unsent(table) \subseteq DOMAIN table
BY DEF Unsent

\* cleanup deletes the rows beyond the retention.
LEMMA CleanupTable ==
  ASSUME NEW table, IsTable(table), NEW now, NEW age
  PROVE  /\ IsTable(Cleanup(table, now, age))
         /\ DOMAIN Cleanup(table, now, age) \subseteq DOMAIN table
         /\ DOMAIN table \ DOMAIN Cleanup(table, now, age)
              \subseteq Old(table, now, age)
         /\ Unsent(Cleanup(table, now, age))
              = Unsent(table) \cap DOMAIN Cleanup(table, now, age)
<1>1. DOMAIN table \ Old(table, now, age) \subseteq DOMAIN table
  OBVIOUS
<1>. QED  BY <1>1, UnsentInTable, RestrictTable DEF Cleanup

\* cleanup_sent deletes no unsent row.
LEMMA CleanupSentTable ==
  ASSUME NEW table, IsTable(table), NEW now, NEW age
  PROVE  /\ IsTable(CleanupSent(table, now, age))
         /\ DOMAIN CleanupSent(table, now, age) \subseteq DOMAIN table
         /\ Unsent(CleanupSent(table, now, age)) = Unsent(table)
         /\ Unsent(table) \subseteq DOMAIN CleanupSent(table, now, age)
<1>. DEFINE S == DOMAIN table \ (Old(table, now, age) \ Unsent(table))
<1>1. S \subseteq DOMAIN table /\ Unsent(table) \subseteq S
  BY UnsentInTable
<1>2. CleanupSent(table, now, age) = Restrict(table, S)
  BY DEF CleanupSent
<1>. HIDE DEF S
<1>. QED  BY <1>1, <1>2, RestrictTable

-----------------------------------------------------------------------------
(* The rows a queue of messages carries.                                   *)

\* A channel or socket just opened carries no row.
LEMMA CarriedEmpty == Carried(<< >>) = {}
BY DEF Carried, Range

\* Sending a batch adds its rows, and nothing else, to what a queue carries.
LEMMA CarriedAppend ==
  ASSUME NEW queue \in Seq(Message), NEW S \in Message
  PROVE  Carried(Append(queue, S)) = Carried(queue) \cup S
<1>. DEFINE longer == Append(queue, S)
<1>1. /\ DOMAIN longer = DOMAIN queue \cup {Len(queue) + 1}
      /\ \A k \in DOMAIN queue : longer[k] = queue[k]
      /\ longer[Len(queue) + 1] = S
  OBVIOUS
<1>2. Range(longer) = Range(queue) \cup {S}
  BY <1>1 DEF Range
<1>. QED  BY <1>2 DEF Carried

\* What the head carries and what the tail carries make up the queue.
LEMMA CarriedTail ==
  ASSUME NEW queue \in Seq(Message), queue # << >>
  PROVE  Carried(queue) = Head(queue) \cup Carried(Tail(queue))
<1>. DEFINE rest == Tail(queue)
<1>1. /\ Len(queue) \in Nat \ {0}
      /\ DOMAIN queue = 1..Len(queue)
      /\ DOMAIN rest = 1..Len(queue) - 1
      /\ \A k \in DOMAIN rest : rest[k] = queue[k + 1]
      /\ Head(queue) = queue[1]
  OBVIOUS
<1>2. Range(queue) = {Head(queue)} \cup Range(rest)
  <2>1. ASSUME NEW k \in DOMAIN queue
        PROVE  queue[k] \in {Head(queue)} \cup Range(rest)
    <3>1. CASE k = 1
      BY <3>1, <1>1
    <3>2. CASE k # 1
      <4>1. k - 1 \in DOMAIN rest /\ rest[k - 1] = queue[k]
        BY <3>2, <1>1
      <4>. QED  BY <4>1 DEF Range
    <3>. QED  BY <3>1, <3>2
  <2>2. ASSUME NEW k \in DOMAIN rest
        PROVE  rest[k] \in Range(queue)
    <3>1. k + 1 \in DOMAIN queue /\ rest[k] = queue[k + 1]
      BY <1>1
    <3>. QED  BY <3>1 DEF Range
  <2>3. Head(queue) \in Range(queue)
    BY <1>1 DEF Range
  <2>. HIDE DEF rest
  <2>. QED  BY <2>1, <2>2, <2>3 DEF Range
<1>. HIDE DEF rest
<1>3. Carried(queue) = Head(queue) \cup Carried(rest)
  BY <1>2 DEF Carried
<1>. QED  BY <1>3 DEF rest

-----------------------------------------------------------------------------
(* Type correctness.                                                       *)

\* GetUnsent returns unsent rows.
LEMMA GetUnsentIsUnsent ==
  ASSUME NEW table, NEW limit
  PROVE  GetUnsent(table, limit) \subseteq Unsent(table)
BY DEF GetUnsent, Oldest

\* The tick of the collection task stays below the period of the cleanup.
LEMMA TickType ==
  TypeOK /\ NextTick => /\ cleanupTick' \in 0..CleanupEvery - 1
                       /\ collector' \in {"tick", "cleanup", "cleanup_sent"}
<1>1. ASSUME NEW a \in Nat, NEW b \in Nat \ {0}
      PROVE  a % b \in 0..b - 1
  OBVIOUS
<1>2. SUFFICES ASSUME TypeOK, NextTick
               PROVE  cleanupTick' \in 0..CleanupEvery - 1
  BY DEF NextTick
<1>3. cleanupTick + 1 \in Nat /\ CleanupEvery \in Nat \ {0}
  BY <1>2, AgesAssumption DEF TypeOK
<1>. QED  BY <1>1, <1>2, <1>3 DEF NextTick

\* A stored sample is one more unsent row, under the next id.
LEMMA StoreSampleTable ==
  ASSUME TypeOK, StoreSample
  PROVE  /\ IsTable(rows')
         /\ DOMAIN rows' = DOMAIN rows \cup {nextId}
         /\ Unsent(rows') = Unsent(rows) \cup {nextId}
<1>1. PICK parses \in BOOLEAN : rows' = Store(rows, nextId, clock, parses)
  BY DEF StoreSample, NewId
<1>2. IsTable(rows) /\ nextId \notin DOMAIN rows /\ clock \in Nat
  BY BoundsAssumption DEF TypeOK
<1>3. /\ IsTable(Store(rows, nextId, clock, parses))
      /\ DOMAIN Store(rows, nextId, clock, parses) = DOMAIN rows \cup {nextId}
      /\ Unsent(Store(rows, nextId, clock, parses)) = Unsent(rows) \cup {nextId}
  BY <1>2 DEF Store, Unsent, Row, IsTable
<1>. QED  BY <1>1, <1>3

\* Zero, where the tick starts, is below the period of the cleanup.
LEMMA FirstTick == 0 \in 0..CleanupEvery - 1
BY AgesAssumption

\*\* An empty channel or socket is a queue of messages.
LEMMA EmptyQueue == << >> \in Seq(Message)
OBVIOUS

\* The empty table and queues have their types.
LEMMA TypeInit == Init => TypeOK
<1>. SUFFICES ASSUME Init PROVE TypeOK
  OBVIOUS
<1>1. DOMAIN rows = {} /\ IsTable(rows)
  BY DEF Init, IsTable
<1>2. /\ chan \in Seq(Message) /\ wire \in Seq(Message)
      /\ cleanupTick \in 0..CleanupEvery - 1
  BY FirstTick, EmptyQueue DEF Init
<1>3. /\ nextId \in 1..MaxSamples + 1 /\ DOMAIN rows \subseteq 1..nextId - 1
      /\ clock \in Nat /\ faults \in Nat /\ dbErrors \in Nat
  BY <1>1, BoundsAssumption DEF Init
<1>4. /\ collector \in {"tick", "cleanup", "cleanup_sent"}
      /\ push \in {"off", "ended"} \cup Reading \cup Sending \cup Marking
      /\ link \in {"down", "up", "broken"}
      /\ batch \subseteq Ids /\ jobs \subseteq SUBSET Ids
      /\ expired \subseteq Ids /\ handed \subseteq Ids
      /\ connSent \subseteq Ids /\ received \subseteq Ids
      /\ chanOpen \in BOOLEAN /\ markFailed \in BOOLEAN
  BY DEF Init
<1>. QED
  BY <1>1, <1>2, <1>3, <1>4 DEF TypeOK

\* Every action keeps the types.
LEMMA TypeStep == TypeOK /\ [Next]_vars => TypeOK'
<1>. SUFFICES ASSUME TypeOK, [Next]_vars
              PROVE  TypeOK'
  OBVIOUS
<1>. USE BoundsAssumption
<1>a. Unsent(rows) \subseteq Ids
  BY DEF TypeOK, Unsent, Ids
<1>b. IsTable(rows) /\ nextId \notin DOMAIN rows
  BY DEF TypeOK
<1>1. CASE TimePasses
  BY <1>1 DEF TimePasses, TypeOK, tableVars, collectorVars, pushVars, netVars,
     historyVars
<1>2. CASE StoreSample
  <2>2. /\ IsTable(rows')
        /\ DOMAIN rows' = DOMAIN rows \cup {nextId}
    BY <1>2, StoreSampleTable
  <2>3. /\ nextId' \in 1..MaxSamples + 1
        /\ DOMAIN rows' \subseteq 1..nextId' - 1
    BY <1>2, <2>2 DEF StoreSample, TypeOK
  <2>. QED
    BY <1>2, <2>2, <2>3, TickType DEF StoreSample, TypeOK, pushVars, netVars,
       historyVars
<1>3. CASE StoreFails
  BY <1>3, TickType DEF StoreFails, DbError, TypeOK, tableVars, pushVars,
     netVars, historyVars
<1>4. CASE RunCleanup
  <2>1. /\ IsTable(rows')
        /\ DOMAIN rows' \subseteq DOMAIN rows
    BY <1>4, <1>b, CleanupTable DEF RunCleanup
  <2>2. expired' \subseteq Ids
    BY <1>4, <1>a DEF RunCleanup, TypeOK
  <2>. QED
    BY <1>4, <2>1, <2>2 DEF RunCleanup, TypeOK, pushVars, netVars, historyVars
<1>5. CASE RunCleanupSent
  <2>1. /\ IsTable(rows')
        /\ DOMAIN rows' \subseteq DOMAIN rows
    BY <1>5, <1>b, CleanupSentTable DEF RunCleanupSent
  <2>. QED
    BY <1>5, <2>1 DEF RunCleanupSent, TypeOK, pushVars, netVars, historyVars
<1>6. CASE BackfillRead
  <2>1. batch' \subseteq Ids
    BY <1>6, <1>a, GetUnsentIsUnsent DEF BackfillRead
  <2>. QED
    BY <1>6, <2>1 DEF BackfillRead, TypeOK, Reading, Sending, tableVars,
       collectorVars, netVars, historyVars
<1>7. CASE BackfillReadFails
  BY <1>7 DEF BackfillReadFails, DbError, TypeOK, Reading, tableVars,
     collectorVars, netVars, historyVars
<1>8. CASE SteadyRead
  <2>1. batch' \subseteq Ids
    BY <1>8, <1>a, GetUnsentIsUnsent DEF SteadyRead
  <2>. QED
    BY <1>8, <2>1 DEF SteadyRead, TypeOK, Sending, tableVars, collectorVars,
       netVars, historyVars
<1>9. CASE SteadyReadFails
  BY <1>9 DEF SteadyReadFails, DbError, TypeOK, tableVars, collectorVars,
     pushVars, netVars, historyVars
<1>10. CASE BackfillSend \/ SteadySend
  <2>1. PICK from \in Sending, to \in Marking : Enqueue(from, to)
    BY <1>10 DEF BackfillSend, SteadySend, Sending, Marking
  <2>2. chan' \in Seq(Message)
    BY <2>1 DEF Enqueue, TypeOK, Message
  <2>. QED
    BY <2>1, <2>2 DEF Enqueue, TypeOK, Marking, tableVars, collectorVars
<1>11. CASE BackfillSendClosed \/ SteadySendClosed
  BY <1>11 DEF BackfillSendClosed, SteadySendClosed, SendClosed, TypeOK,
     Reading, tableVars, collectorVars, netVars, historyVars
<1>12. CASE Mark
  <2>1. IsTable(rows') /\ DOMAIN rows' = DOMAIN rows
    BY <1>12, <1>b, MarkTable DEF Mark
  <2>. QED
    BY <1>12, <2>1 DEF Mark, AfterMark, TypeOK, Reading, collectorVars,
       netVars, historyVars
<1>13. CASE MarkFails
  BY <1>13 DEF MarkFails, DbError, AfterMark, TypeOK, Reading, tableVars,
     collectorVars, netVars
<1>14. CASE \E S \in jobs : DetachedMark(S)
  <2>1. PICK S \in jobs : DetachedMark(S)
    BY <1>14
  <2>2. IsTable(rows') /\ DOMAIN rows' = DOMAIN rows
    BY <2>1, <1>b, MarkTable DEF DetachedMark
  <2>. QED
    BY <2>1, <2>2 DEF DetachedMark, TypeOK, collectorVars, netVars, historyVars
<1>15. CASE \E S \in jobs : DetachedMarkFails(S)
  BY <1>15 DEF DetachedMarkFails, DbError, TypeOK, tableVars, collectorVars,
     netVars, historyVars
<1>16. CASE OtherTraffic
  <2>1. chan' \in Seq(Message)
    BY <1>16 DEF OtherTraffic, TypeOK, Message
  <2>. QED
    BY <1>16, <2>1 DEF OtherTraffic, TypeOK, tableVars, collectorVars,
       pushVars, historyVars
<1>17. CASE SenderWrites
  <2>1. chan' \in Seq(Message) /\ wire' \in Seq(Message)
    BY <1>17 DEF SenderWrites, TypeOK
  <2>. QED
    BY <1>17, <2>1 DEF SenderWrites, TypeOK, tableVars, collectorVars,
       pushVars, historyVars
<1>18. CASE SenderWritesInVain
  <2>1. chan' \in Seq(Message)
    BY <1>18 DEF SenderWritesInVain, TypeOK
  <2>. QED
    BY <1>18, <2>1 DEF SenderWritesInVain, TypeOK, tableVars, collectorVars,
       pushVars, historyVars
<1>19. CASE SenderFails
  BY <1>19, EmptyQueue DEF SenderFails, TypeOK, tableVars, collectorVars, pushVars,
     historyVars
<1>20. CASE GatewayReceives
  <2>1. wire' \in Seq(Message) /\ Head(wire) \in SUBSET Ids
    BY <1>20 DEF GatewayReceives, TypeOK, Message
  <2>. QED
    BY <1>20, <2>1 DEF GatewayReceives, TypeOK, tableVars, collectorVars,
       pushVars
<1>21. CASE Connect
  BY <1>21 DEF Connect, TypeOK, Reading, tableVars, collectorVars
<1>22. CASE LinkBreaks
  BY <1>22 DEF LinkBreaks, Fault, TypeOK, tableVars, collectorVars, pushVars,
     historyVars
<1>23. CASE GatewayCloses \/ ReadErrors
  <2>1. EndConnection /\ faults' \in Nat
    BY <1>23 DEF GatewayCloses, ReadErrors, Fault, TypeOK
  <2>. QED
    BY <2>1, EmptyQueue DEF EndConnection, DropConnection, TypeOK, tableVars,
       collectorVars, historyVars
<1>24. CASE Crash
  <2>1. /\ chan' \in Seq(Message) /\ wire' \in Seq(Message)
        /\ cleanupTick' \in 0..CleanupEvery - 1
    BY <1>24, FirstTick, EmptyQueue DEF Crash, DropConnection
  <2>2. /\ collector' \in {"tick", "cleanup", "cleanup_sent"}
        /\ push' \in {"off", "ended"} \cup Reading \cup Sending \cup Marking
        /\ batch' \subseteq Ids /\ jobs' \subseteq SUBSET Ids
        /\ chanOpen' \in BOOLEAN /\ link' \in {"down", "up", "broken"}
    BY <1>24 DEF Crash, DropConnection
  <2>3. /\ nextId' \in 1..MaxSamples + 1 /\ DOMAIN rows' \subseteq 1..nextId' - 1
        /\ IsTable(rows') /\ clock' \in Nat
        /\ faults' \in Nat /\ dbErrors' \in Nat
        /\ expired' \subseteq Ids /\ handed' \subseteq Ids
        /\ connSent' \subseteq Ids /\ received' \subseteq Ids
        /\ markFailed' \in BOOLEAN
    BY <1>24 DEF Crash, Fault, TypeOK, tableVars, historyVars
  <2>. QED
    BY <2>1, <2>2, <2>3 DEF TypeOK
<1>25. CASE UNCHANGED vars
  BY <1>25 DEF vars, TypeOK, tableVars, collectorVars, pushVars, netVars,
     historyVars
<1>. QED
  BY <1>1, <1>2, <1>3, <1>4, <1>5, <1>6, <1>7, <1>8, <1>9, <1>10, <1>11,
     <1>12, <1>13, <1>14, <1>15, <1>16, <1>17, <1>18, <1>19, <1>20, <1>21,
     <1>22, <1>23, <1>24, <1>25 DEF Next, CollectorRuns, PushRuns, NetRuns

\* Every variable keeps its type: ids are drawn in order, table, batches and
\* queues hold only drawn ids, and the cleanup tick stays below its period.
THEOREM TypeCorrect == Spec => []TypeOK
<1>. QED  BY TypeInit, TypeStep, PTL DEF Spec

-----------------------------------------------------------------------------
(***************************************************************************)
(* The inductive invariant.  SentWasHandedOver and NoRowVanishes are about *)
(* the table; they are kept by a mark_sent because whatever may still run  *)
(* one - the waiting push task, a detached job - holds only ids that went  *)
(* into a channel, and by a new row because its id is beyond every id in   *)
(* use.  NoResendOnConnection is kept by a read because the rows sent on   *)
(* this connection are no longer unsent, but for the batch being marked.   *)
(***************************************************************************)

\* Ids beyond the sequence appear nowhere.
Drawn == handed \cup expired \cup batch \cup connSent \subseteq 1..nextId - 1

\* What is marked, about to be marked, under way or received was handed over.
HandedOver ==
  /\ DOMAIN rows \ Unsent(rows) \subseteq handed
  /\ push \in Marking => batch \subseteq handed
  /\ \A S \in jobs : S \subseteq handed
  /\ InFlight \cup received \subseteq handed

\* The unsent rows that went out on this connection are being marked.
SentIsMarked ==
  push # "off" /\ ~markFailed
    => connSent \cap Unsent(rows) \subseteq (IF push \in Marking THEN batch ELSE {})

\* Every id below nextId is in the table, was handed over, or was deleted.
Accounted == 1..nextId - 1 \subseteq DOMAIN rows \cup handed \cup expired

\* The inductive invariant of the safety theorems.
IInv ==
  /\ TypeOK
  /\ Drawn
  /\ HandedOver
  /\ Accounted
  /\ SentIsMarked
  /\ NoResendOnConnection
  /\ OnlyFaultsLose

\* The empty table, with no connection yet, satisfies the invariant.
LEMMA IInvInit == Init => IInv
<1>. SUFFICES ASSUME Init PROVE IInv
  OBVIOUS
<1>1. DOMAIN rows = {} /\ Unsent(rows) = {} /\ InFlight = {}
  BY CarriedEmpty DEF Init, Unsent, InFlight
<1>2. 1..nextId - 1 = {}
  BY DEF Init
<1>. QED
  BY <1>1, <1>2, TypeInit DEF Init, IInv, Drawn, HandedOver, Accounted,
     SentIsMarked, NoResendOnConnection, OnlyFaultsLose, Marking, Sending

\* Every action keeps the invariant.
LEMMA IInvStep == IInv /\ [Next]_vars => IInv'
<1>. SUFFICES ASSUME IInv, [Next]_vars
              PROVE  (Drawn /\ HandedOver /\ Accounted /\ SentIsMarked
                      /\ NoResendOnConnection /\ OnlyFaultsLose)'
  BY TypeStep DEF IInv
<1>. USE DEF IInv, Drawn, HandedOver, Accounted, SentIsMarked,
         NoResendOnConnection, OnlyFaultsLose, InFlight
<1>a. IsTable(rows) /\ nextId \notin DOMAIN rows /\ nextId \in Nat
  BY BoundsAssumption DEF TypeOK
<1>b. Unsent(rows) \subseteq DOMAIN rows
  BY UnsentInTable
<1>c. DOMAIN rows \subseteq 1..nextId - 1
  BY DEF TypeOK
<1>d. chan \in Seq(Message) /\ wire \in Seq(Message) /\ batch \in Message
  BY DEF TypeOK, Message
<1>1. CASE TimePasses \/ StoreFails \/ UNCHANGED vars
  BY <1>1 DEF TimePasses, StoreFails, vars, tableVars, pushVars, netVars,
     historyVars
<1>2. CASE StoreSample
  <2>2. /\ DOMAIN rows' = DOMAIN rows \cup {nextId}
        /\ Unsent(rows') = Unsent(rows) \cup {nextId}
    BY <1>2, StoreSampleTable
  <2>3. /\ nextId' = nextId + 1
        /\ UNCHANGED <<expired, pushVars, netVars, historyVars>>
    BY <1>2 DEF StoreSample
  <2>4. 1..nextId' - 1 = (1..nextId - 1) \cup {nextId}
    BY <2>3, <1>a, BoundsAssumption DEF TypeOK
  <2>5. nextId \notin 1..nextId - 1
    BY <1>a
  <2>. QED
    BY <2>2, <2>3, <2>4, <2>5, <1>b DEF pushVars, netVars, historyVars
<1>3. CASE RunCleanup
  <2>1. /\ DOMAIN rows' \subseteq DOMAIN rows
        /\ Unsent(rows') = Unsent(rows) \cap DOMAIN rows'
    BY <1>3, <1>a, CleanupTable DEF RunCleanup
  <2>2. /\ expired' = expired \cup (Unsent(rows) \ DOMAIN rows')
        /\ UNCHANGED <<nextId, pushVars, netVars, historyVars>>
    BY <1>3 DEF RunCleanup
  <2>. QED
    BY <2>1, <2>2, <1>b, <1>c DEF pushVars, netVars, historyVars
<1>4. CASE RunCleanupSent
  <2>1. /\ DOMAIN rows' \subseteq DOMAIN rows
        /\ Unsent(rows') = Unsent(rows)
        /\ Unsent(rows) \subseteq DOMAIN rows'
    BY <1>4, <1>a, CleanupSentTable DEF RunCleanupSent
  <2>2. UNCHANGED <<nextId, expired, pushVars, netVars, historyVars>>
    BY <1>4 DEF RunCleanupSent
  <2>. QED
    BY <2>1, <2>2 DEF pushVars, netVars, historyVars
<1>5. CASE BackfillRead \/ SteadyRead
  <2>1. /\ push \in Reading /\ push' \in Reading \cup Sending
        /\ batch' \subseteq Unsent(rows)
    BY <1>5, GetUnsentIsUnsent DEF BackfillRead, SteadyRead, Reading, Sending
  <2>2. UNCHANGED <<tableVars, jobs, netVars, historyVars>>
    BY <1>5 DEF BackfillRead, SteadyRead
  <2>3. push # "off" /\ push \notin Marking /\ push' \notin Marking
    BY <2>1 DEF Reading, Sending, Marking
  <2>. QED
    BY <2>1, <2>2, <2>3, <1>b, <1>c DEF tableVars, netVars, historyVars
<1>6. CASE BackfillReadFails \/ SteadyReadFails
  <2>1. /\ push \in Reading /\ push' \in Reading
        /\ UNCHANGED <<tableVars, batch, jobs, netVars, historyVars>>
    BY <1>6 DEF BackfillReadFails, SteadyReadFails, Reading, pushVars
  <2>2. /\ push # "off" /\ push \notin Marking
        /\ push' \notin Marking \cup Sending
    BY <2>1 DEF Reading, Sending, Marking
  <2>. QED
    BY <2>1, <2>2 DEF tableVars, netVars, historyVars
<1>7. CASE BackfillSend \/ SteadySend
  <2>1. PICK from \in Sending, to \in Marking : Enqueue(from, to)
    BY <1>7 DEF BackfillSend, SteadySend, Sending, Marking
  <2>2. /\ push \in Sending /\ push # "off" /\ push \notin Marking
        /\ push' \in Marking /\ push' \notin Sending
    BY <2>1 DEF Enqueue, Sending, Marking
  <2>3. Carried(chan') = Carried(chan) \cup batch
    BY <2>1, <1>d, CarriedAppend DEF Enqueue
  <2>4. /\ handed' = handed \cup batch /\ connSent' = connSent \cup batch
        /\ UNCHANGED <<tableVars, batch, jobs, wire, link, markFailed, received>>
    BY <2>1 DEF Enqueue
  <2>. QED
    BY <2>2, <2>3, <2>4 DEF tableVars
<1>8. CASE BackfillSendClosed \/ SteadySendClosed
  <2>1. /\ push \in Sending /\ push' \in Reading \cup {"ended"}
        /\ batch' = {}
        /\ UNCHANGED <<tableVars, jobs, netVars, historyVars>>
    BY <1>8 DEF BackfillSendClosed, SteadySendClosed, SendClosed, Sending,
       Reading
  <2>2. /\ push # "off" /\ push \notin Marking
        /\ push' \notin Marking \cup Sending
    BY <2>1 DEF Reading, Sending, Marking
  <2>. QED
    BY <2>1, <2>2 DEF tableVars, netVars, historyVars
<1>9. CASE Mark
  <2>1. /\ DOMAIN rows' = DOMAIN rows
        /\ Unsent(rows') = Unsent(rows) \ batch
    BY <1>9, <1>a, MarkTable DEF Mark
  <2>2. /\ push \in Marking /\ push' \in Reading /\ batch' = {}
        /\ UNCHANGED <<nextId, expired, jobs, netVars, historyVars>>
    BY <1>9 DEF Mark, AfterMark, Reading
  <2>3. push # "off" /\ push' \notin Marking \cup Sending
    BY <2>2 DEF Reading, Sending, Marking
  <2>. QED
    BY <2>1, <2>2, <2>3 DEF netVars, historyVars
<1>10. CASE MarkFails
  <2>1. /\ push \in Marking /\ push' \in Reading /\ batch' = {} /\ markFailed'
        /\ UNCHANGED <<tableVars, jobs, netVars, handed, connSent, received>>
    BY <1>10 DEF MarkFails, AfterMark, Reading
  <2>2. push' \notin Marking \cup Sending
    BY <2>1 DEF Reading, Sending, Marking
  <2>. QED
    BY <2>1, <2>2 DEF tableVars, netVars
<1>11. CASE \E S \in jobs : DetachedMark(S)
  <2>1. PICK S \in jobs : DetachedMark(S)
    BY <1>11
  <2>2. /\ DOMAIN rows' = DOMAIN rows
        /\ Unsent(rows') = Unsent(rows) \ S
    BY <2>1, <1>a, MarkTable DEF DetachedMark
  <2>3. /\ jobs' \subseteq jobs
        /\ UNCHANGED <<nextId, expired, push, batch, netVars, historyVars>>
    BY <2>1 DEF DetachedMark
  <2>4. S \subseteq handed
    BY <2>1
  <2>. QED
    BY <2>2, <2>3, <2>4 DEF netVars, historyVars
<1>12. CASE \E S \in jobs : DetachedMarkFails(S)
  BY <1>12 DEF DetachedMarkFails, tableVars, netVars, historyVars
<1>13. CASE OtherTraffic
  <2>1. Carried(chan') = Carried(chan)
    <3>1. {} \in Message
      BY DEF Message
    <3>2. Carried(Append(chan, {})) = Carried(chan) \cup {}
      BY <1>d, <3>1, CarriedAppend
    <3>. QED  BY <1>13, <3>2 DEF OtherTraffic
  <2>. QED
    BY <1>13, <2>1 DEF OtherTraffic, tableVars, pushVars, historyVars
<1>14. CASE SenderWrites
  <2>1. Head(chan) \in Message
    BY <1>14, <1>d DEF SenderWrites
  <2>2. /\ Carried(chan) = Head(chan) \cup Carried(chan')
        /\ Carried(wire') = Carried(wire) \cup Head(chan)
    BY <1>14, <1>d, <2>1, CarriedTail, CarriedAppend DEF SenderWrites
  <2>. QED
    BY <1>14, <2>2 DEF SenderWrites, tableVars, pushVars, historyVars
<1>15. CASE SenderWritesInVain
  <2>1. Carried(chan') \subseteq Carried(chan)
    BY <1>15, <1>d, CarriedTail DEF SenderWritesInVain
  <2>. QED
    BY <1>15, <2>1 DEF SenderWritesInVain, tableVars, pushVars, historyVars
<1>16. CASE SenderFails
  <2>1. Carried(chan') = {}
    BY <1>16, CarriedEmpty DEF SenderFails
  <2>. QED
    BY <1>16, <2>1 DEF SenderFails, tableVars, pushVars, historyVars
<1>17. CASE GatewayReceives
  <2>1. Carried(wire) = Head(wire) \cup Carried(wire')
    BY <1>17, <1>d, CarriedTail DEF GatewayReceives
  <2>. QED
    BY <1>17, <2>1 DEF GatewayReceives, tableVars, pushVars
<1>18. CASE Connect
  <2>1. /\ push' \notin Marking \cup Sending /\ connSent' = {}
        /\ UNCHANGED <<tableVars, batch, jobs, chan, wire, handed, received>>
    BY <1>18 DEF Connect, Marking, Sending
  <2>. QED
    BY <2>1 DEF tableVars
<1>19. CASE LinkBreaks
  <2>1. Carried(wire') = {}
    BY <1>19, CarriedEmpty DEF LinkBreaks
  <2>. QED
    BY <1>19, <2>1 DEF LinkBreaks, tableVars, pushVars, historyVars
<1>20. CASE GatewayCloses \/ ReadErrors \/ Crash
  <2>1. /\ DropConnection
        /\ jobs' \subseteq jobs \cup (IF push \in Marking THEN {batch} ELSE {})
        /\ UNCHANGED <<tableVars, historyVars>>
    BY <1>20 DEF GatewayCloses, ReadErrors, EndConnection, Crash
  <2>2. Carried(chan') = {} /\ Carried(wire') = {}
    BY <2>1, CarriedEmpty DEF DropConnection
  <2>3. push' = "off" /\ batch' = {} /\ link' = "down"
    BY <2>1 DEF DropConnection
  <2>4. "off" \notin Marking \cup Sending
    BY DEF Marking, Sending
  <2>. QED
    BY <2>1, <2>2, <2>3, <2>4 DEF tableVars, historyVars
<1>. QED
  BY <1>1, <1>2, <1>3, <1>4, <1>5, <1>6, <1>7, <1>8, <1>9, <1>10, <1>11,
     <1>12, <1>13, <1>14, <1>15, <1>16, <1>17, <1>18, <1>19, <1>20
     DEF Next, CollectorRuns, PushRuns, NetRuns

\* Every reachable state of the pipeline satisfies the invariant.
LEMMA Invariance == Spec => []IInv
<1>. QED  BY IInvInit, IInvStep, PTL DEF Spec

\* No row is marked sent on the strength of a send that did not happen, and no
\* row leaves the table that was neither handed over nor expired.
THEOREM SentRowsWereHandedOver == Spec => []SentWasHandedOver
<1>1. IInv => SentWasHandedOver
  BY DEF IInv, HandedOver, SentWasHandedOver, Unsent
<1>. QED  BY <1>1, Invariance, PTL

\* Every sample ever stored is accounted for: in the table, handed over, or
\* expired.
THEOREM RowsDoNotVanish == Spec => []NoRowVanishes
<1>1. IInv => NoRowVanishes
  BY DEF IInv, Accounted, NoRowVanishes
<1>. QED  BY <1>1, Invariance, PTL

\* The push task never sends a row twice on one connection unless a mark_sent
\* failed.
THEOREM OneSendPerConnection == Spec => []NoResendOnConnection
<1>1. IInv => NoResendOnConnection
  BY DEF IInv
<1>. QED  BY <1>1, Invariance, PTL

\* While a connection lives, every row it took in is received or under way.
THEOREM LiveConnectionsLoseNothing == Spec => []OnlyFaultsLose
<1>1. IInv => OnlyFaultsLose
  BY DEF IInv
<1>. QED  BY <1>1, Invariance, PTL

-----------------------------------------------------------------------------
(***************************************************************************)
(* Refinement.  Each action of the pipeline is a step of the contract or   *)
(* leaves the contract's variables alone.                                  *)
(***************************************************************************)

\* An agent with an empty table owes nothing, as the contract starts.
LEMMA ContractInit == Init => Contract!Init
<1>. SUFFICES ASSUME Init PROVE Contract!Init
  OBVIOUS
<1>1. Unsent(rows) = {} /\ InFlight = {}
  BY CarriedEmpty DEF Init, Unsent, InFlight
<1>. QED  BY <1>1 DEF Init, Contract!Init

\* Every id the table ever gave out is known to the contract.
LEMMA DrawnIsKnown ==
  IInv => 1..nextId - 1 = Contract!Known
<1>. SUFFICES ASSUME IInv PROVE 1..nextId - 1 = Contract!Known
  OBVIOUS
<1>. DEFINE drawn == 1..nextId - 1
<1>1. DOMAIN rows \subseteq drawn /\ Unsent(rows) \subseteq DOMAIN rows
  BY UnsentInTable DEF IInv, TypeOK
<1>2. handed \cup expired \subseteq drawn
  BY DEF IInv, Drawn
<1>3. /\ drawn \subseteq DOMAIN rows \cup handed \cup expired
      /\ DOMAIN rows \ Unsent(rows) \subseteq handed
  BY DEF IInv, Accounted, HandedOver
<1>. HIDE DEF drawn
<1>4. drawn = Contract!Known
  BY <1>1, <1>2, <1>3 DEF Contract!Known
<1>. QED  BY <1>4 DEF drawn

\* Every step of the pipeline is a step of the contract or changes nothing in it.
LEMMA ContractStep == IInv /\ [Next]_vars => [Contract!Next]_(Contract!vars)
<1>. SUFFICES ASSUME IInv, [Next]_vars
              PROVE  Contract!Next \/ UNCHANGED Contract!vars
  OBVIOUS
<1>a. TypeOK
  BY DEF IInv
<1>b. IsTable(rows) /\ chan \in Seq(Message) /\ wire \in Seq(Message)
      /\ batch \in Message
  BY <1>a DEF TypeOK, Message
<1>c. 1..nextId - 1 = Contract!Known
  BY DrawnIsKnown
<1>1. CASE \/ TimePasses \/ StoreFails \/ BackfillRead \/ SteadyRead
           \/ BackfillReadFails \/ SteadyReadFails
           \/ BackfillSendClosed \/ SteadySendClosed
           \/ MarkFails \/ (\E S \in jobs : DetachedMarkFails(S))
           \/ Connect \/ UNCHANGED vars
  <2>1. UNCHANGED <<rows, expired, handed, chan, wire, received>>
    BY <1>1 DEF TimePasses, StoreFails, BackfillRead, SteadyRead,
       BackfillReadFails, SteadyReadFails, BackfillSendClosed,
       SteadySendClosed, SendClosed, MarkFails, DetachedMarkFails, Connect,
       vars, tableVars, netVars, historyVars
  <2>. QED  BY <2>1 DEF Contract!vars, InFlight
<1>2. CASE StoreSample
  <2>1. Unsent(rows') = Unsent(rows) \cup {nextId}
    BY <1>a, <1>2, StoreSampleTable
  <2>2. nextId \in Ids /\ nextId \notin 1..nextId - 1
    BY <1>2, <1>a, BoundsAssumption DEF StoreSample, TypeOK, Ids
  <2>3. UNCHANGED <<expired, handed, chan, wire, received>>
    BY <1>2 DEF StoreSample, netVars, historyVars
  <2>4. Contract!Sample(nextId)
    BY <2>1, <2>2, <2>3, <1>c DEF Contract!Sample, InFlight
  <2>. QED  BY <2>2, <2>4 DEF Contract!Next
<1>3. CASE RunCleanup
  <2>. DEFINE gone == Unsent(rows) \ DOMAIN rows'
  <2>1. Unsent(rows') = Unsent(rows) \cap DOMAIN rows'
    BY <1>3, <1>b, CleanupTable DEF RunCleanup
  <2>2. /\ expired' = expired \cup gone
        /\ UNCHANGED <<handed, chan, wire, received>>
    BY <1>3 DEF RunCleanup, netVars, historyVars
  <2>3. Contract!Expire(gone)
    BY <2>1, <2>2 DEF Contract!Expire, InFlight
  <2>. QED  BY <2>3 DEF Contract!Next
<1>4. CASE RunCleanupSent
  <2>1. Unsent(rows') = Unsent(rows)
    BY <1>4, <1>b, CleanupSentTable DEF RunCleanupSent
  <2>2. UNCHANGED <<expired, handed, chan, wire, received>>
    BY <1>4 DEF RunCleanupSent, netVars, historyVars
  <2>. QED  BY <2>1, <2>2 DEF Contract!vars, InFlight
<1>5. CASE BackfillSend \/ SteadySend
  <2>1. PICK from, to : Enqueue(from, to)
    BY <1>5 DEF BackfillSend, SteadySend
  <2>2. Carried(chan') = Carried(chan) \cup batch
    BY <2>1, <1>b, CarriedAppend DEF Enqueue
  <2>3. batch \subseteq Contract!Known
    BY <1>c DEF IInv, Drawn
  <2>4. Contract!HandOver(batch)
    BY <2>1, <2>2 DEF Enqueue, Contract!HandOver, InFlight, tableVars
  <2>. QED  BY <2>3, <2>4 DEF Contract!Next
<1>6. ASSUME NEW S, S \subseteq handed, rows' = MarkSent(rows, S),
             UNCHANGED <<expired, handed, chan, wire, received>>
      PROVE  Contract!Next
  <2>. DEFINE released == S \cap Unsent(rows)
  <2>1. Unsent(rows') = Unsent(rows) \ released
    BY <1>6, <1>b, MarkTable
  <2>2. Contract!Release(released)
    BY <1>6, <2>1 DEF Contract!Release, InFlight
  <2>. QED  BY <2>2 DEF Contract!Next
<1>7. CASE Mark
  <2>1. batch \subseteq handed
    BY <1>7 DEF Mark, IInv, HandedOver
  <2>. QED  BY <1>6, <1>7, <2>1 DEF Mark, netVars, historyVars
<1>8. CASE \E S \in jobs : DetachedMark(S)
  <2>1. PICK S \in jobs : DetachedMark(S)
    BY <1>8
  <2>2. S \subseteq handed
    BY DEF IInv, HandedOver
  <2>. QED  BY <1>6, <2>1, <2>2 DEF DetachedMark, netVars, historyVars
<1>9. CASE OtherTraffic
  <2>1. {} \in Message
    BY DEF Message
  <2>2. Carried(Append(chan, {})) = Carried(chan) \cup {}
    BY <1>b, <2>1, CarriedAppend
  <2>3. InFlight' = InFlight
    BY <1>9, <2>2 DEF OtherTraffic, InFlight
  <2>. QED
    BY <1>9, <2>3 DEF OtherTraffic, Contract!vars, tableVars, historyVars
<1>10. CASE SenderWrites
  <2>1. Head(chan) \in Message
    BY <1>10, <1>b DEF SenderWrites
  <2>2. /\ Carried(chan) = Head(chan) \cup Carried(chan')
        /\ Carried(wire') = Carried(wire) \cup Head(chan)
    BY <1>10, <1>b, <2>1, CarriedTail, CarriedAppend DEF SenderWrites
  <2>3. InFlight' = InFlight
    BY <2>2 DEF InFlight
  <2>. QED
    BY <1>10, <2>3 DEF SenderWrites, Contract!vars, tableVars, historyVars
<1>11. CASE GatewayReceives
  <2>1. Carried(wire) = Head(wire) \cup Carried(wire')
    BY <1>11, <1>b, CarriedTail DEF GatewayReceives
  <2>2. /\ received' = received \cup Head(wire)
        /\ UNCHANGED <<rows, expired, handed, chan>>
    BY <1>11 DEF GatewayReceives, tableVars
  <2>3. Head(wire) \subseteq InFlight
    BY <2>1 DEF InFlight
  <2>4. Contract!Deliver(Head(wire))
    BY <2>1, <2>2 DEF Contract!Deliver, InFlight
  <2>. QED  BY <2>3, <2>4 DEF Contract!Next
<1>12. CASE \/ SenderWritesInVain \/ SenderFails \/ LinkBreaks
            \/ GatewayCloses \/ ReadErrors \/ Crash
  <2>1. UNCHANGED <<rows, expired, handed, received>>
    BY <1>12 DEF SenderWritesInVain, SenderFails, LinkBreaks, GatewayCloses,
       ReadErrors, EndConnection, Crash, tableVars, historyVars
  <2>2. /\ chan' \in {chan, << >>} \/ (chan # << >> /\ chan' = Tail(chan))
        /\ wire' \in {wire, << >>}
    BY <1>12 DEF SenderWritesInVain, SenderFails, LinkBreaks, GatewayCloses,
       ReadErrors, EndConnection, Crash, DropConnection
  <2>3. Carried(chan') \subseteq Carried(chan)
    BY <2>2, <1>b, CarriedTail, CarriedEmpty
  <2>4. Carried(wire') \subseteq Carried(wire)
    BY <2>2, CarriedEmpty
  <2>5. Contract!Lose
    BY <2>1, <2>3, <2>4 DEF Contract!Lose, InFlight
  <2>. QED  BY <2>5 DEF Contract!Next
<1>. QED
  BY <1>1, <1>2, <1>3, <1>4, <1>5, <1>7, <1>8, <1>9, <1>10, <1>11, <1>12
     DEF Next, CollectorRuns, PushRuns, NetRuns

\* The pipeline implements the contract: a sample is owed to the gateway until
\* it was handed to a connection or expired, under an identity used once.
THEOREM PipelineImplementsContract == Spec => ContractSpec
<1>. QED
  BY Invariance, ContractInit, ContractStep, PTL DEF Spec, ContractSpec,
     Contract!Spec

\* The table is written by the store, the two clean-ups and mark_sent.
LEMMA TableKept ==
  ASSUME [Next]_vars,
         ~(\/ StoreSample \/ RunCleanup \/ RunCleanupSent \/ Mark
           \/ \E S \in jobs : DetachedMark(S))
  PROVE  UNCHANGED rows
BY DEF Next, CollectorRuns, PushRuns, NetRuns, TimePasses, StoreFails,
   BackfillRead, SteadyRead, BackfillReadFails, SteadyReadFails, BackfillSend,
   SteadySend, Enqueue, BackfillSendClosed, SteadySendClosed, SendClosed,
   MarkFails, DetachedMarkFails, OtherTraffic, SenderWrites,
   SenderWritesInVain, SenderFails, GatewayReceives, Connect, LinkBreaks,
   GatewayCloses, ReadErrors, EndConnection, Crash, vars, tableVars

\* Retention takes an unsent row only when it is older than the retention.
THEOREM ExpiryOnlyByAge == Spec => ExpiryIsByAge
<1>1. IInv /\ [Next]_vars
        => [\A i \in Unsent(rows) \ DOMAIN rows' :
              rows[i].ts + Retention < clock]_vars
  <2>. SUFFICES ASSUME IInv, Next, NEW i \in Unsent(rows) \ DOMAIN rows'
                PROVE  rows[i].ts + Retention < clock
    OBVIOUS
  <2>1. IsTable(rows) /\ TypeOK /\ i \in DOMAIN rows
    BY UnsentInTable DEF IInv, TypeOK
  <2>2. CASE RunCleanup
    <3>1. i \in Old(rows, clock, Retention)
      BY <2>1, <2>2, CleanupTable DEF RunCleanup
    <3>. QED  BY <3>1 DEF Old
  <2>3. CASE RunCleanupSent
    BY <2>1, <2>3, CleanupSentTable DEF RunCleanupSent
  <2>4. CASE StoreSample
    BY <2>1, <2>4, StoreSampleTable
  <2>5. CASE Mark \/ \E S \in jobs : DetachedMark(S)
    BY <2>1, <2>5, MarkTable DEF Mark, DetachedMark
  <2>6. CASE ~(\/ RunCleanup \/ RunCleanupSent \/ StoreSample \/ Mark
               \/ \E S \in jobs : DetachedMark(S))
    <3>1. UNCHANGED rows
      BY <2>6, TableKept
    <3>. QED  BY <2>1, <3>1
  <2>. QED  BY <2>2, <2>3, <2>4, <2>5, <2>6
<1>. QED  BY <1>1, Invariance, PTL DEF Spec, ExpiryIsByAge

-----------------------------------------------------------------------------
(***************************************************************************)
(* The order of what is under way.  A read takes the oldest readable rows, *)
(* so what is left is younger; what a connection has sent stays behind     *)
(* what it may still send as long as no mark_sent fails, whatever detached *)
(* marks, cleanups and new samples do to the table meanwhile.              *)
(***************************************************************************)

\* The rows that get_unsent returns sooner or later.
Readable(table) == {i \in Unsent(table) : table[i].ok}

\* Every id of one set is older than every id of another.
Before(S, T) == \A i \in S, j \in T : i < j

\* The messages of a queue are in order.
Sorted(queue) == \A m, n \in DOMAIN queue : m < n => Before(queue[m], queue[n])

\* What is under way was sent on this connection.
OfThisConnection ==
  /\ InFlight \subseteq connSent
  /\ link = "down" => ~chanOpen /\ chan = << >> /\ wire = << >>

\* What was sent comes before what is to be sent: the batch, and the rows that
\* are not being marked.
SentComesFirst ==
  push # "off" /\ ~markFailed =>
    /\ push \in Sending =>
         Before(connSent, batch) /\ Before(batch, Readable(rows) \ batch)
    /\ Before(connSent, Readable(rows) \ (IF push \in Marking THEN batch ELSE {}))

\* The queues are in order, and what is written is before what is to be written.
QueuesSorted ==
  ~markFailed => Sorted(wire) /\ Sorted(chan) /\ Before(Carried(wire), Carried(chan))

\* The order of all that was sent and of what is under way.
InOrder == OfThisConnection /\ SentComesFirst /\ QueuesSorted

\* mark_sent keeps what it does not mark as it is.
LEMMA MarkReadable ==
  ASSUME NEW table, IsTable(table), NEW S
  PROVE  Readable(MarkSent(table, S)) \subseteq Readable(table) \ S
BY DEF MarkSent, Readable, Unsent, Row, IsTable

\* Deleting rows makes none readable.
LEMMA RestrictReadable ==
  ASSUME NEW table, NEW S, S \subseteq DOMAIN table
  PROVE  Readable(Restrict(table, S)) \subseteq Readable(table)
BY DEF Restrict, Readable, Unsent

\* A sample that is stored is the only new row.
LEMMA StoreReadable ==
  ASSUME TypeOK, StoreSample
  PROVE  Readable(rows') \subseteq Readable(rows) \cup {nextId}
<1>1. PICK parses \in BOOLEAN : rows' = Store(rows, nextId, clock, parses)
  BY DEF StoreSample, NewId
<1>. QED  BY <1>1 DEF Store, Readable, Unsent

\* get_unsent leaves no readable row that is older than one it returns.
LEMMA OldestFirst ==
  ASSUME NEW table, NEW top \in Nat, DOMAIN table \subseteq 1..top, NEW limit \in Nat
  PROVE  /\ GetUnsent(table, limit) \subseteq Readable(table)
         /\ Before(GetUnsent(table, limit), Readable(table) \ GetUnsent(table, limit))
<1>. DEFINE U == Unsent(table)
            older(i) == {j \in U : j < i}
<1>1. GetUnsent(table, limit) \subseteq Readable(table)
  BY DEF GetUnsent, Oldest, Readable
<1>2. IsFiniteSet(U) /\ U \subseteq Nat
  <2>1. IsFiniteSet(1..top)
    BY FS_Interval
  <2>2. U \subseteq 1..top
    BY UnsentInTable
  <2>. QED  BY <2>1, <2>2, FS_Subset
<1>3. ASSUME NEW i \in GetUnsent(table, limit),
             NEW j \in Readable(table) \ GetUnsent(table, limit)
      PROVE  i < j
  <2>1. /\ i \in U /\ j \in U
        /\ Cardinality(older(i)) < limit /\ ~(Cardinality(older(j)) < limit)
    BY <1>3 DEF GetUnsent, Oldest, Readable
  <2>. SUFFICES ASSUME ~(i < j) PROVE FALSE
    OBVIOUS
  <2>2. older(j) \subseteq older(i)
    BY <1>2, <2>1
  <2>3. IsFiniteSet(older(i))
    BY <1>2, FS_Subset
  <2>4. /\ Cardinality(older(i)) \in Nat /\ Cardinality(older(j)) \in Nat
        /\ Cardinality(older(j)) <= Cardinality(older(i))
    <3>. HIDE DEF older
    <3>1. IsFiniteSet(older(j)) /\ Cardinality(older(j)) <= Cardinality(older(i))
      BY <2>2, <2>3, FS_Subset
    <3>. QED  BY <2>3, <3>1, FS_CardinalityType
  <2>. HIDE DEF older
  <2>. QED  BY <2>1, <2>4
<1>. QED  BY <1>1, <1>3 DEF Before

\* A message of a queue is part of what it carries.
LEMMA CarriedMessages ==
  ASSUME NEW queue \in Seq(Message), NEW m \in DOMAIN queue
  PROVE  queue[m] \subseteq Carried(queue)
BY DEF Carried, Range

\* A queue with nothing in it is in order.
LEMMA SortedEmpty == Sorted(<< >>)
BY DEF Sorted

\* So is one to which a message is added that comes after all it carries.
LEMMA SortedAppend ==
  ASSUME NEW queue \in Seq(Message), NEW S \in Message,
         Sorted(queue), Before(Carried(queue), S)
  PROVE  Sorted(Append(queue, S))
<1>. DEFINE longer == Append(queue, S)
<1>1. /\ DOMAIN queue = 1..Len(queue) /\ Len(queue) \in Nat
      /\ DOMAIN longer = 1..(Len(queue) + 1)
      /\ \A k \in DOMAIN queue : longer[k] = queue[k]
      /\ longer[Len(queue) + 1] = S
  OBVIOUS
<1>. HIDE DEF longer
<1>2. ASSUME NEW m \in DOMAIN longer, NEW n \in DOMAIN longer, m < n
      PROVE  Before(longer[m], longer[n])
  <2>1. m \in DOMAIN queue /\ longer[m] = queue[m]
    BY <1>1, <1>2
  <2>2. CASE n \in DOMAIN queue
    BY <1>1, <1>2, <2>1, <2>2 DEF Sorted
  <2>3. CASE n \notin DOMAIN queue
    <3>1. longer[n] = S
      BY <1>1, <1>2, <2>3
    <3>2. queue[m] \subseteq Carried(queue)
      BY <2>1, CarriedMessages
    <3>. QED  BY <2>1, <3>1, <3>2 DEF Before
  <2>. QED  BY <2>2, <2>3
<1>. QED  BY <1>2 DEF Sorted, longer

\* What is taken from a queue in order comes before what is left of it.
LEMMA SortedTail ==
  ASSUME NEW queue \in Seq(Message), queue # << >>, Sorted(queue)
  PROVE  Sorted(Tail(queue)) /\ Before(Head(queue), Carried(Tail(queue)))
<1>. DEFINE rest == Tail(queue)
<1>1. /\ Len(queue) \in Nat \ {0} /\ DOMAIN queue = 1..Len(queue)
      /\ DOMAIN rest = 1..Len(queue) - 1
      /\ \A k \in DOMAIN rest : rest[k] = queue[k + 1]
      /\ Head(queue) = queue[1]
  OBVIOUS
<1>. HIDE DEF rest
<1>2. ASSUME NEW m \in DOMAIN rest, NEW n \in DOMAIN rest, m < n
      PROVE  Before(rest[m], rest[n])
  <2>1. m + 1 \in DOMAIN queue /\ n + 1 \in DOMAIN queue /\ m + 1 < n + 1
    BY <1>1, <1>2
  <2>2. Before(queue[m + 1], queue[n + 1])
    BY <2>1 DEF Sorted
  <2>. QED  BY <1>1, <2>2
<1>3. ASSUME NEW n \in DOMAIN rest
      PROVE  Before(Head(queue), rest[n])
  <2>1. 1 \in DOMAIN queue /\ n + 1 \in DOMAIN queue /\ 1 < n + 1
    BY <1>1
  <2>2. Before(queue[1], queue[n + 1])
    BY <2>1 DEF Sorted
  <2>. QED  BY <1>1, <2>2
<1>. QED  BY <1>2, <1>3 DEF Sorted, Before, Carried, Range, rest

\* No row is under way at first.
LEMMA OrderInit == Init => InOrder
BY CarriedEmpty, SortedEmpty
   DEF Init, InOrder, OfThisConnection, SentComesFirst, QueuesSorted, InFlight, Before

\* New samples are younger than all that was sent; fewer rows are in order too.
LEMMA OrderKept ==
  ASSUME IInv, InOrder, Readable(rows') \subseteq Readable(rows) \cup {nextId},
         UNCHANGED <<push, batch, netVars, connSent, markFailed>>
  PROVE  InOrder'
<1>1. connSent \cup batch \subseteq 1..nextId - 1 /\ nextId \in Nat
  BY BoundsAssumption DEF IInv, Drawn, TypeOK
<1>2. Before(connSent, {nextId}) /\ Before(batch, {nextId})
  BY <1>1 DEF Before
<1>3. OfThisConnection' /\ QueuesSorted'
  BY DEF InOrder, OfThisConnection, QueuesSorted, InFlight, netVars
<1>4. SentComesFirst'
  BY <1>2 DEF InOrder, SentComesFirst, Before
<1>. QED  BY <1>3, <1>4 DEF InOrder

\* A step of the push task that sends nothing.
LEMMA OrderReading ==
  ASSUME IInv, InOrder, UNCHANGED <<netVars, connSent, markFailed>>, push # "off",
         push' \notin Marking, Readable(rows') \subseteq Readable(rows),
         push \in Marking => Readable(rows') \subseteq Readable(rows) \ batch,
         push' \in Sending =>
           /\ push \notin Marking
           /\ batch' \subseteq Readable(rows)
           /\ Before(batch', Readable(rows') \ batch')
  PROVE  InOrder'
<1>1. OfThisConnection' /\ QueuesSorted'
  BY DEF InOrder, OfThisConnection, QueuesSorted, InFlight, netVars
<1>2. SentComesFirst'
  BY DEF InOrder, SentComesFirst, Before
<1>. QED  BY <1>1, <1>2 DEF InOrder

\* The batch goes behind all that was sent, before the rows that are left.
LEMMA OrderEnqueue ==
  ASSUME IInv, InOrder, NEW from \in Sending, NEW to \in Marking, Enqueue(from, to)
  PROVE  InOrder'
<1>1. /\ chan' = Append(chan, batch) /\ connSent' = connSent \cup batch
      /\ UNCHANGED <<rows, batch, wire, link, markFailed>>
      /\ push \in Sending /\ push' \in Marking
      /\ chan \in Seq(Message) /\ batch \in Message
  BY DEF Enqueue, IInv, TypeOK, Message, tableVars
<1>2. push # "off" /\ push \notin Marking /\ push' \notin Sending
  BY <1>1 DEF Sending, Marking
<1>3. Carried(chan') = Carried(chan) \cup batch
  BY <1>1, CarriedAppend
<1>4. Carried(chan) \cup Carried(wire) \subseteq connSent
  BY DEF InOrder, OfThisConnection, InFlight
<1>5. OfThisConnection'
  <2>1. link # "down"
    BY DEF InOrder, OfThisConnection, Enqueue
  <2>. QED  BY <1>1, <1>3, <1>4, <2>1 DEF OfThisConnection, InFlight
<1>6. SentComesFirst'
  BY <1>1, <1>2 DEF InOrder, SentComesFirst, Before
<1>7. QueuesSorted'
  <2>. SUFFICES ASSUME ~markFailed
                PROVE  Sorted(wire) /\ Sorted(chan') /\ Before(Carried(wire), Carried(chan'))
    BY <1>1 DEF QueuesSorted
  <2>1. Before(connSent, batch)
    BY <1>1, <1>2 DEF InOrder, SentComesFirst
  <2>2. Before(Carried(chan), batch) /\ Before(Carried(wire), batch)
    BY <1>4, <2>1 DEF Before
  <2>3. Sorted(wire) /\ Sorted(chan) /\ Before(Carried(wire), Carried(chan))
    BY DEF InOrder, QueuesSorted
  <2>4. Sorted(chan')
    BY <1>1, <2>2, <2>3, SortedAppend
  <2>. QED  BY <1>3, <2>2, <2>3, <2>4 DEF Before
<1>. QED  BY <1>5, <1>6, <1>7 DEF InOrder

\* Messages that move from the channel to the socket, arrive or are lost.
LEMMA OrderNet ==
  ASSUME IInv, InOrder,
         \/ OtherTraffic \/ SenderWrites \/ SenderWritesInVain \/ SenderFails
         \/ GatewayReceives \/ LinkBreaks
  PROVE  InOrder'
<1>0. /\ chan \in Seq(Message) /\ wire \in Seq(Message) /\ {} \in Message
      /\ Carried(chan) \cup Carried(wire) \subseteq connSent
      /\ UNCHANGED <<rows, push, batch, connSent, markFailed>>
  BY DEF IInv, TypeOK, Message, InOrder, OfThisConnection, InFlight, OtherTraffic,
     SenderWrites, SenderWritesInVain, SenderFails, GatewayReceives, LinkBreaks,
     tableVars, pushVars, historyVars
<1>1. SentComesFirst'
  BY <1>0 DEF InOrder, SentComesFirst
<1>2. ASSUME Carried(chan') \subseteq Carried(chan) \cup Carried(wire),
             Carried(wire') \subseteq Carried(chan) \cup Carried(wire),
             link # "down", link' # "down",
             Sorted(wire) /\ Sorted(chan) /\ Before(Carried(wire), Carried(chan)) =>
               Sorted(wire') /\ Sorted(chan') /\ Before(Carried(wire'), Carried(chan'))
      PROVE  InOrder'
  <2>1. OfThisConnection'
    BY <1>0, <1>2 DEF OfThisConnection, InFlight
  <2>2. QueuesSorted'
    BY <1>0, <1>2 DEF InOrder, QueuesSorted
  <2>. QED  BY <1>1, <2>1, <2>2 DEF InOrder
<1>3. CASE OtherTraffic
  <2>1. chan' = Append(chan, {}) /\ wire' = wire /\ link # "down" /\ link' = link
    BY <1>3 DEF OtherTraffic, InOrder, OfThisConnection
  <2>2. Carried(chan') = Carried(chan)
    <3>1. Carried(Append(chan, {})) = Carried(chan) \cup {}
      BY <1>0, CarriedAppend
    <3>. QED  BY <2>1, <3>1
  <2>3. Sorted(chan) => Sorted(chan')
    BY <1>0, <2>1, SortedAppend DEF Before
  <2>. QED  BY <1>2, <2>1, <2>2, <2>3
<1>4. CASE SenderWrites
  <2>1. /\ chan # << >> /\ chan' = Tail(chan) /\ wire' = Append(wire, Head(chan))
        /\ link = "up" /\ link' = link
    BY <1>4 DEF SenderWrites
  <2>2. Head(chan) \in Message
    BY <1>0, <2>1
  <2>3. /\ Carried(chan) = Head(chan) \cup Carried(chan')
        /\ Carried(wire') = Carried(wire) \cup Head(chan)
    BY <1>0, <2>1, <2>2, CarriedTail, CarriedAppend
  <2>4. ASSUME Sorted(wire), Sorted(chan), Before(Carried(wire), Carried(chan))
        PROVE  Sorted(wire') /\ Sorted(chan') /\ Before(Carried(wire'), Carried(chan'))
    <3>1. Sorted(chan') /\ Before(Head(chan), Carried(chan'))
      BY <1>0, <2>1, <2>4, SortedTail
    <3>2. Before(Carried(wire), Head(chan)) /\ Before(Carried(wire), Carried(chan'))
      BY <2>3, <2>4 DEF Before
    <3>3. Sorted(wire')
      BY <1>0, <2>1, <2>2, <2>4, <3>2, SortedAppend
    <3>. QED  BY <2>3, <3>1, <3>2, <3>3 DEF Before
  <2>. QED  BY <1>2, <2>1, <2>3, <2>4
<1>5. CASE SenderWritesInVain
  <2>1. /\ chan # << >> /\ chan' = Tail(chan) /\ wire' = wire
        /\ link = "broken" /\ link' = link
    BY <1>5 DEF SenderWritesInVain
  <2>2. Carried(chan) = Head(chan) \cup Carried(chan')
    BY <1>0, <2>1, CarriedTail
  <2>3. Sorted(chan) => Sorted(chan')
    BY <1>0, <2>1, SortedTail
  <2>. QED  BY <1>2, <2>1, <2>2, <2>3 DEF Before
<1>6. CASE SenderFails
  <2>1. chan' = << >> /\ wire' = wire /\ link = "broken" /\ link' = link
    BY <1>6 DEF SenderFails
  <2>. QED  BY <1>2, <2>1, CarriedEmpty, SortedEmpty DEF Before
<1>7. CASE GatewayReceives
  <2>1. /\ wire # << >> /\ wire' = Tail(wire) /\ chan' = chan
        /\ link = "up" /\ link' = link
    BY <1>7 DEF GatewayReceives
  <2>2. Carried(wire) = Head(wire) \cup Carried(wire')
    BY <1>0, <2>1, CarriedTail
  <2>3. Sorted(wire) => Sorted(wire')
    BY <1>0, <2>1, SortedTail
  <2>. QED  BY <1>2, <2>1, <2>2, <2>3 DEF Before
<1>8. CASE LinkBreaks
  <2>1. wire' = << >> /\ chan' = chan /\ link = "up" /\ link' = "broken"
    BY <1>8 DEF LinkBreaks
  <2>. QED  BY <1>2, <2>1, CarriedEmpty, SortedEmpty DEF Before
<1>. QED  BY <1>3, <1>4, <1>5, <1>6, <1>7, <1>8

\* Every action keeps the order.
LEMMA OrderStep == IInv /\ InOrder /\ [Next]_vars => InOrder'
<1>. SUFFICES ASSUME IInv, InOrder, [Next]_vars PROVE InOrder'
  OBVIOUS
<1>0. IsTable(rows) /\ DOMAIN rows \subseteq 1..nextId - 1 /\ nextId - 1 \in Nat
  BY BoundsAssumption DEF IInv, TypeOK
<1>1. CASE TimePasses \/ StoreFails \/ SteadyReadFails \/ UNCHANGED vars
           \/ \E S \in jobs : DetachedMarkFails(S)
  BY <1>1, OrderKept DEF TimePasses, StoreFails, SteadyReadFails, DetachedMarkFails,
     vars, tableVars, pushVars, historyVars
<1>2. CASE StoreSample
  <2>1. TypeOK
    BY DEF IInv
  <2>. QED  BY <1>2, <2>1, StoreReadable, OrderKept DEF StoreSample, pushVars, historyVars
<1>3. CASE RunCleanup \/ RunCleanupSent
  <2>1. PICK S \in SUBSET DOMAIN rows : rows' = Restrict(rows, S)
    <3>1. DOMAIN rows \ Old(rows, clock, Retention) \subseteq DOMAIN rows
      OBVIOUS
    <3>2. DOMAIN rows \ (Old(rows, clock, SentKeep) \ Unsent(rows)) \subseteq DOMAIN rows
      OBVIOUS
    <3>. QED  BY <1>3, <3>1, <3>2 DEF RunCleanup, RunCleanupSent, Cleanup, CleanupSent
  <2>2. Readable(rows') \subseteq Readable(rows)
    BY <2>1, RestrictReadable
  <2>. QED  BY <1>3, <2>2, OrderKept DEF RunCleanup, RunCleanupSent, pushVars, historyVars
<1>4. CASE \E S \in jobs : DetachedMark(S)
  <2>1. PICK S \in jobs : DetachedMark(S)
    BY <1>4
  <2>2. Readable(rows') \subseteq Readable(rows)
    BY <1>0, <2>1, MarkReadable DEF DetachedMark
  <2>. QED  BY <2>1, <2>2, OrderKept DEF DetachedMark, historyVars
<1>5. CASE BackfillRead \/ SteadyRead
  <2>1. PICK limit \in Nat : batch' = GetUnsent(rows, limit)
    BY <1>5, LimitsAssumption DEF BackfillRead, SteadyRead
  <2>2. /\ push \in Reading /\ push' \in Reading \cup Sending
        /\ rows' = rows /\ UNCHANGED <<netVars, connSent, markFailed>>
    BY <1>5 DEF BackfillRead, SteadyRead, Reading, Sending, tableVars, historyVars
  <2>3. push # "off" /\ push \notin Marking /\ push' \notin Marking
    BY <2>2 DEF Reading, Sending, Marking
  <2>4. batch' \subseteq Readable(rows) /\ Before(batch', Readable(rows) \ batch')
    BY <1>0, <2>1, OldestFirst
  <2>. QED  BY <2>2, <2>3, <2>4, OrderReading
<1>6. CASE BackfillReadFails \/ BackfillSendClosed \/ SteadySendClosed
  <2>1. /\ push \in Reading \cup Sending /\ push' \in Reading \cup {"ended"}
        /\ rows' = rows /\ UNCHANGED <<netVars, connSent, markFailed>>
    BY <1>6 DEF BackfillReadFails, BackfillSendClosed, SteadySendClosed, SendClosed,
       Reading, Sending, tableVars, historyVars
  <2>2. push # "off" /\ push \notin Marking /\ push' \notin Marking \cup Sending
    BY <2>1 DEF Reading, Sending, Marking
  <2>. QED  BY <2>1, <2>2, OrderReading
<1>7. CASE BackfillSend \/ SteadySend
  <2>1. PICK from \in Sending, to \in Marking : Enqueue(from, to)
    BY <1>7 DEF BackfillSend, SteadySend, Sending, Marking
  <2>. QED  BY <2>1, OrderEnqueue
<1>8. CASE Mark
  <2>1. /\ push \in Marking /\ push' \in Reading
        /\ rows' = MarkSent(rows, batch) /\ UNCHANGED <<netVars, connSent, markFailed>>
    BY <1>8 DEF Mark, AfterMark, Reading, historyVars
  <2>2. push # "off" /\ push' \notin Marking \cup Sending
    BY <2>1 DEF Reading, Sending, Marking
  <2>3. Readable(rows') \subseteq Readable(rows) \ batch
    BY <1>0, <2>1, MarkReadable
  <2>. QED  BY <2>1, <2>2, <2>3, OrderReading
<1>9. CASE MarkFails
  <2>1. markFailed' /\ UNCHANGED <<netVars, connSent>>
    BY <1>9 DEF MarkFails
  <2>. QED
    BY <2>1 DEF InOrder, OfThisConnection, SentComesFirst, QueuesSorted, InFlight, netVars
<1>10. CASE \/ OtherTraffic \/ SenderWrites \/ SenderWritesInVain \/ SenderFails
            \/ GatewayReceives \/ LinkBreaks
  BY <1>10, OrderNet
<1>11. CASE Connect
  <2>1. /\ connSent' = {} /\ push' = "b_read" /\ link' = "up"
        /\ chan' = << >> /\ wire' = << >>
    BY <1>11 DEF Connect, InOrder, OfThisConnection
  <2>2. push' \notin Marking \cup Sending
    BY <2>1 DEF Sending, Marking
  <2>. QED
    BY <2>1, <2>2, CarriedEmpty, SortedEmpty
       DEF InOrder, OfThisConnection, SentComesFirst, QueuesSorted, InFlight, Before
<1>12. CASE GatewayCloses \/ ReadErrors \/ Crash
  <2>1. /\ push' = "off" /\ link' = "down" /\ ~chanOpen'
        /\ chan' = << >> /\ wire' = << >>
    BY <1>12 DEF GatewayCloses, ReadErrors, EndConnection, Crash, DropConnection
  <2>. QED
    BY <2>1, CarriedEmpty, SortedEmpty
       DEF InOrder, OfThisConnection, SentComesFirst, QueuesSorted, InFlight, Before
<1>. QED
  BY <1>1, <1>2, <1>3, <1>4, <1>5, <1>6, <1>7, <1>8, <1>9, <1>10, <1>11, <1>12
     DEF Next, CollectorRuns, PushRuns, NetRuns

\* Two queues in order, one before the other, are in order one behind the other.
LEMMA SortedConcat ==
  ASSUME NEW first \in Seq(Message), NEW second \in Seq(Message),
         Sorted(first), Sorted(second), Before(Carried(first), Carried(second))
  PROVE  Sorted(first \o second)
<1>. DEFINE queue == first \o second
<1>1. /\ Len(first) \in Nat /\ DOMAIN first = 1..Len(first)
      /\ Len(second) \in Nat /\ DOMAIN second = 1..Len(second)
      /\ DOMAIN queue = 1..(Len(first) + Len(second))
      /\ \A k \in DOMAIN queue :
           queue[k] = IF k <= Len(first) THEN first[k] ELSE second[k - Len(first)]
  OBVIOUS
<1>. HIDE DEF queue
<1>2. ASSUME NEW m \in DOMAIN queue, NEW n \in DOMAIN queue, m < n
      PROVE  Before(queue[m], queue[n])
  <2>1. CASE n <= Len(first)
    <3>1. /\ m \in DOMAIN first /\ n \in DOMAIN first
          /\ queue[m] = first[m] /\ queue[n] = first[n]
      BY <1>1, <1>2, <2>1
    <3>. QED  BY <1>2, <3>1 DEF Sorted
  <2>2. CASE m <= Len(first) /\ ~(n <= Len(first))
    <3>1. /\ m \in DOMAIN first /\ n - Len(first) \in DOMAIN second
          /\ queue[m] = first[m] /\ queue[n] = second[n - Len(first)]
      BY <1>1, <1>2, <2>2
    <3>2. queue[m] \subseteq Carried(first) /\ queue[n] \subseteq Carried(second)
      BY <3>1, CarriedMessages
    <3>. QED  BY <3>2 DEF Before
  <2>3. CASE ~(m <= Len(first))
    <3>1. /\ m - Len(first) \in DOMAIN second /\ n - Len(first) \in DOMAIN second
          /\ m - Len(first) < n - Len(first)
          /\ queue[m] = second[m - Len(first)] /\ queue[n] = second[n - Len(first)]
      BY <1>1, <1>2, <2>3
    <3>. QED  BY <3>1 DEF Sorted
  <2>. QED  BY <1>1, <1>2, <2>1, <2>2, <2>3
<1>. QED  BY <1>2 DEF Sorted, queue

\* Unless a mark_sent failed, what is under way on a connection is in the order
\* in which the samples were taken.
THEOREM SentInOrder == Spec => []InFlightInOrder
<1>1. IInv /\ InOrder => InFlightInOrder
  <2>. SUFFICES ASSUME IInv, InOrder, ~markFailed
                PROVE  \A m, n \in DOMAIN (wire \o chan) :
                         m < n => \A i \in (wire \o chan)[m], j \in (wire \o chan)[n] : i < j
    BY DEF InFlightInOrder
  <2>1. chan \in Seq(Message) /\ wire \in Seq(Message)
    BY DEF IInv, TypeOK
  <2>2. Sorted(wire) /\ Sorted(chan) /\ Before(Carried(wire), Carried(chan))
    BY DEF InOrder, QueuesSorted
  <2>3. Sorted(wire \o chan)
    BY <2>1, <2>2, SortedConcat
  <2>. QED  BY <2>3 DEF Sorted, Before
<1>2. Init /\ [][Next]_vars => [](IInv /\ InOrder)
  BY IInvInit, IInvStep, OrderInit, OrderStep, PTL
<1>. QED  BY <1>1, <1>2, PTL DEF Spec

-----------------------------------------------------------------------------
(***************************************************************************)
(* The end of the backfill.  An empty result of get_unsent says that the   *)
(* oldest rows do not parse, which is not that none is left: it is only    *)
(* when too few rows fail to parse to fill the LIMIT.                      *)
(***************************************************************************)

\* The oldest readable row has only rows before it that do not parse, so that it
\* is among the first rows when these are fewer than the LIMIT.
LEMMA DrainedWhenEmpty ==
  ASSUME NEW table, NEW top \in Nat, DOMAIN table \subseteq 1..top, NEW limit \in Nat,
         Cardinality({i \in DOMAIN table : ~table[i].ok}) < limit,
         GetUnsent(table, limit) = {}
  PROVE  Readable(table) = {}
<1>. DEFINE bad == {i \in DOMAIN table : ~table[i].ok}
            older(i) == {j \in Unsent(table) : j < i}
<1>. SUFFICES ASSUME Readable(table) # {} PROVE FALSE
  OBVIOUS
<1>1. IsFiniteSet(bad)
  <2>1. IsFiniteSet(1..top)
    BY FS_Interval
  <2>. QED  BY <2>1, FS_Subset
<1>2. Readable(table) \subseteq Nat
  BY DEF Readable, Unsent
<1>3. PICK i \in Readable(table) : \A j \in Readable(table) : i <= j
  BY <1>2, HasLeast
<1>4. older(i) \subseteq bad
  BY <1>2, <1>3 DEF Readable, Unsent
<1>5. Cardinality(older(i)) < limit
  <2>. HIDE DEF bad, older
  <2>1. /\ IsFiniteSet(older(i)) /\ Cardinality(older(i)) <= Cardinality(bad)
    BY <1>1, <1>4, FS_Subset
  <2>2. Cardinality(older(i)) \in Nat /\ Cardinality(bad) \in Nat
    BY <1>1, <2>1, FS_CardinalityType
  <2>. QED  BY <2>1, <2>2 DEF bad
<1>6. i \in GetUnsent(table, limit)
  BY <1>3, <1>5 DEF GetUnsent, Oldest, Readable
<1>. QED  BY <1>6

\* The rows of the table that do not parse are as few as the bound says.
CorruptBounded == Cardinality(Corrupt) <= MaxCorrupt

\* Every action keeps it so: only a store adds a row.
LEMMA CorruptStep == IInv /\ CorruptBounded /\ [Next]_vars => CorruptBounded'
<1>. SUFFICES ASSUME IInv, CorruptBounded, [Next]_vars PROVE CorruptBounded'
  OBVIOUS
<1>1. IsFiniteSet(Corrupt) /\ IsTable(rows) /\ nextId \in Nat
  <2>1. /\ IsTable(rows) /\ nextId \in Nat /\ DOMAIN rows \subseteq 1..nextId - 1
        /\ Corrupt \subseteq 1..nextId - 1
    BY BoundsAssumption DEF IInv, TypeOK, Corrupt
  <2>2. IsFiniteSet(1..nextId - 1)
    BY <2>1, FS_Interval
  <2>. QED  BY <2>1, <2>2, FS_Subset
<1>2. ASSUME Corrupt' \subseteq Corrupt PROVE CorruptBounded'
  <2>1. IsFiniteSet(Corrupt') /\ Cardinality(Corrupt') <= Cardinality(Corrupt)
    BY <1>1, <1>2, FS_Subset
  <2>. QED
    BY <1>1, <2>1, FS_CardinalityType, BoundsAssumption DEF CorruptBounded
<1>3. CASE StoreSample
  <2>1. PICK parses \in BOOLEAN :
          /\ parses \/ Cardinality(Corrupt) < MaxCorrupt
          /\ rows' = Store(rows, nextId, clock, parses)
    BY <1>3 DEF StoreSample, NewId
  <2>2. CASE parses
    <3>1. Corrupt' \subseteq Corrupt
      BY <2>1, <2>2 DEF Corrupt, Store
    <3>. QED  BY <1>2, <3>1
  <2>3. CASE ~parses
    <3>1. Corrupt' \subseteq Corrupt \cup {nextId}
      BY <2>1 DEF Corrupt, Store
    <3>2. /\ IsFiniteSet(Corrupt \cup {nextId})
          /\ Cardinality(Corrupt \cup {nextId}) <= Cardinality(Corrupt) + 1
      BY <1>1, FS_AddElement, FS_CardinalityType
    <3>3. /\ IsFiniteSet(Corrupt')
          /\ Cardinality(Corrupt') <= Cardinality(Corrupt \cup {nextId})
      BY <3>1, <3>2, FS_Subset
    <3>4. /\ Cardinality(Corrupt) \in Nat /\ Cardinality(Corrupt') \in Nat
          /\ Cardinality(Corrupt \cup {nextId}) \in Nat
      BY <1>1, <3>2, <3>3, FS_CardinalityType
    <3>5. Cardinality(Corrupt) < MaxCorrupt
      BY <2>1, <2>3
    <3>. QED  BY <3>2, <3>3, <3>4, <3>5, BoundsAssumption DEF CorruptBounded
  <2>. QED  BY <2>2, <2>3
<1>4. CASE RunCleanup \/ RunCleanupSent
  <2>1. PICK S \in SUBSET DOMAIN rows : rows' = Restrict(rows, S)
    <3>1. DOMAIN rows \ Old(rows, clock, Retention) \subseteq DOMAIN rows
      OBVIOUS
    <3>2. DOMAIN rows \ (Old(rows, clock, SentKeep) \ Unsent(rows)) \subseteq DOMAIN rows
      OBVIOUS
    <3>. QED  BY <1>4, <3>1, <3>2 DEF RunCleanup, RunCleanupSent, Cleanup, CleanupSent
  <2>2. Corrupt' \subseteq Corrupt
    BY <2>1 DEF Corrupt, Restrict
  <2>. QED  BY <1>2, <2>2
<1>5. CASE Mark \/ \E S \in jobs : DetachedMark(S)
  <2>1. PICK S : rows' = MarkSent(rows, S)
    BY <1>5 DEF Mark, DetachedMark
  <2>2. Corrupt' \subseteq Corrupt
    BY <1>1, <2>1 DEF Corrupt, MarkSent, IsTable, Row
  <2>. QED  BY <1>2, <2>2
<1>6. CASE ~(\/ StoreSample \/ RunCleanup \/ RunCleanupSent \/ Mark
             \/ \E S \in jobs : DetachedMark(S))
  <2>1. UNCHANGED rows
    BY <1>6, TableKept
  <2>. QED  BY <1>2, <2>1 DEF Corrupt
<1>. QED  BY <1>3, <1>4, <1>5, <1>6

\* Backfill ends, other than by an error, with no row left that could be sent, as
\* long as fewer rows of the table do not parse than a chunk has places.  The
\* condition is needed: with as many, a chunk can be full of rows that are skipped.
THEOREM BackfillDrainsTheTable ==
  ASSUME MaxCorrupt < Chunk
  PROVE  Spec => BackfillDrains
<1>1. Init => CorruptBounded
  <2>. SUFFICES ASSUME Init PROVE CorruptBounded
    OBVIOUS
  <2>1. Corrupt = {}
    BY DEF Init, Corrupt
  <2>. QED  BY <2>1, FS_EmptySet, BoundsAssumption DEF CorruptBounded
<1>2. ASSUME IInv, CorruptBounded, [Next]_vars,
             push = "b_read", push' = "s_read", dbErrors' = dbErrors
      PROVE  \A i \in Unsent(rows) : ~rows[i].ok
  <2>1. BackfillRead
    <3>1. ~ BackfillReadFails
      BY <1>2, BoundsAssumption DEF BackfillReadFails, DbError, IInv, TypeOK
    <3>2. ~ (BackfillSendClosed \/ SteadySendClosed \/ Mark \/ MarkFails)
      BY <1>2 DEF BackfillSendClosed, SteadySendClosed, SendClosed, Mark, MarkFails, Marking
    <3>. QED
      BY <1>2, <3>1, <3>2
         DEF Next, CollectorRuns, PushRuns, NetRuns, TimePasses, StoreSample, StoreFails,
         RunCleanup, RunCleanupSent, SteadyRead, SteadyReadFails, BackfillSend,
         SteadySend, Enqueue, DetachedMark, DetachedMarkFails, OtherTraffic,
         SenderWrites, SenderWritesInVain, SenderFails, GatewayReceives, Connect,
         LinkBreaks, GatewayCloses, ReadErrors, EndConnection, Crash,
         DropConnection, vars, pushVars
  <2>2. GetUnsent(rows, Chunk) = {}
    BY <1>2, <2>1 DEF BackfillRead
  <2>3. /\ DOMAIN rows \subseteq 1..nextId - 1 /\ nextId - 1 \in Nat
        /\ Chunk \in Nat /\ MaxCorrupt \in Nat
    BY <1>2, LimitsAssumption, BoundsAssumption DEF IInv, TypeOK
  <2>4. Cardinality({i \in DOMAIN rows : ~rows[i].ok}) < Chunk
    <3>1. Corrupt \subseteq 1..nextId - 1 /\ IsFiniteSet(1..nextId - 1)
      BY <2>3, FS_Interval DEF Corrupt
    <3>2. Cardinality(Corrupt) \in Nat
      BY <3>1, FS_Subset, FS_CardinalityType
    <3>. QED  BY <1>2, <2>3, <3>2 DEF CorruptBounded, Corrupt
  <2>5. Readable(rows) = {}
    BY <2>2, <2>3, <2>4, DrainedWhenEmpty
  <2>. QED  BY <2>5 DEF Readable
<1>3. IInv /\ CorruptBounded /\ [Next]_vars => CorruptBounded'
  BY CorruptStep
<1>. QED  BY <1>1, <1>2, <1>3, Invariance, PTL DEF Spec, BackfillDrains
=============================================================================
