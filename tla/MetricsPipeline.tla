-------------------------- MODULE MetricsPipeline --------------------------
(***************************************************************************)
(* The path of a metrics sample from the collection task to the gateway:   *)
(* the table (MetricsBuffer), the collection task that outlives every      *)
(* connection, and per connection the push task, the bounded channel it    *)
(* shares with every other sender, the task that writes the channel to the *)
(* WebSocket, and the socket (src/src/connection.rs).                      *)
(*                                                                         *)
(* A message is the set of row ids it carries: {} for a heartbeat or a     *)
(* response.  Sleeps and interval ticks are not timed; a task waiting for  *)
(* one takes its next step at any later moment.                            *)
(***************************************************************************)
EXTENDS MetricsBuffer, Sequences

CONSTANTS
  Chunk,          \* metrics.backfill_chunk_size
  PushLimit,      \* max(metrics.push_interval_secs, 5)
  ChanCap,        \* capacity of the mpsc channel (256)
  WireCap,        \* frames the socket takes before the writer has to wait
  Retention,      \* metrics.buffer_retention_hours
  SentKeep,       \* the five minutes a sent row stays in the table
  CleanupEvery,   \* ticks between two cleanups (300)
  MaxSamples,     \* bound: samples stored
  MaxCorrupt,     \* bound: rows in the table that do not parse
  MaxClock,       \* bound: the clock
  MaxFaults,      \* bound: connection losses and crashes
  MaxDbErrors     \* bound: failing buffer calls

ASSUME LimitsAssumption == Chunk \in Nat \ {0} /\ PushLimit \in Nat \ {0}
ASSUME CapsAssumption == ChanCap \in Nat \ {0} /\ WireCap \in Nat \ {0}
ASSUME AgesAssumption ==
  Retention \in Nat /\ SentKeep \in Nat /\ CleanupEvery \in Nat \ {0}
ASSUME BoundsAssumption ==
  /\ MaxSamples \in Nat /\ MaxCorrupt \in Nat /\ MaxClock \in Nat
  /\ MaxFaults \in Nat /\ MaxDbErrors \in Nat

VARIABLES
  rows,         \* the table, a function from id to row
  nextId,       \* AUTOINCREMENT: the id of the next row
  clock,        \* wall-clock time
  collector,    \* where the collection task is
  cleanupTick,  \* ticks since the last cleanup
  push,         \* where the push task of this connection is
  batch,        \* ids the push task has read and not yet marked
  jobs,         \* mark_sent closures of aborted push tasks, still to run
  chan,         \* the mpsc channel, oldest message first
  chanOpen,     \* its receiver exists
  wire,         \* frames written and not yet received
  link,         \* the WebSocket
  \* history, read by no action's guard
  expired,      \* ids deleted before they were marked sent
  handed,       \* ids put into a channel at least once
  connSent,     \* ids put into the channel of this connection
  markFailed,   \* a mark_sent of this connection's push task has failed
  received,     \* ids the gateway has received
  faults,       \* connection losses and crashes so far
  dbErrors      \* failed buffer calls so far

tableVars == <<rows, nextId, expired>>
collectorVars == <<collector, cleanupTick>>
pushVars == <<push, batch, jobs>>
netVars == <<chan, chanOpen, wire, link>>
historyVars == <<handed, connSent, markFailed, received>>
vars == <<tableVars, clock, collectorVars, pushVars, netVars, historyVars,
          faults, dbErrors>>

Ids == 1..MaxSamples
Message == SUBSET Ids
Reading == {"b_read", "s_read"}
Sending == {"b_send", "s_send"}
Marking == {"b_mark", "s_mark"}

TypeOK ==
  /\ nextId \in 1..MaxSamples + 1
  /\ DOMAIN rows \subseteq 1..nextId - 1
  /\ IsTable(rows)
  /\ clock \in Nat
  /\ collector \in {"tick", "cleanup", "cleanup_sent"}
  /\ cleanupTick \in 0..CleanupEvery - 1
  /\ push \in {"off", "ended"} \cup Reading \cup Sending \cup Marking
  /\ batch \subseteq Ids
  /\ jobs \subseteq SUBSET Ids
  /\ chan \in Seq(Message)
  /\ chanOpen \in BOOLEAN
  /\ wire \in Seq(Message)
  /\ link \in {"down", "up", "broken"}
  /\ expired \subseteq Ids
  /\ handed \subseteq Ids
  /\ connSent \subseteq Ids
  /\ markFailed \in BOOLEAN
  /\ received \subseteq Ids
  /\ faults \in Nat
  /\ dbErrors \in Nat

Init ==
  /\ rows = << >>
  /\ nextId = 1
  /\ clock = 0
  /\ collector = "tick"
  /\ cleanupTick = 0
  /\ push = "off"
  /\ batch = {}
  /\ jobs = {}
  /\ chan = << >>
  /\ chanOpen = FALSE
  /\ wire = << >>
  /\ link = "down"
  /\ expired = {}
  /\ handed = {}
  /\ connSent = {}
  /\ markFailed = FALSE
  /\ received = {}
  /\ faults = 0
  /\ dbErrors = 0

DbError ==
  /\ dbErrors < MaxDbErrors
  /\ dbErrors' = dbErrors + 1

TimePasses ==
  /\ clock < MaxClock
  /\ clock' = clock + 1
  /\ UNCHANGED <<tableVars, collectorVars, pushVars, netVars, historyVars,
                 faults, dbErrors>>

-----------------------------------------------------------------------------
(* The collection task.                                                    *)

NextTick ==
  /\ cleanupTick' = (cleanupTick + 1) % CleanupEvery
  /\ collector' = IF cleanupTick' = 0 THEN "cleanup" ELSE "tick"

Corrupt == {i \in DOMAIN rows : ~rows[i].ok}

ReusedId == 1 + Cardinality({i \in Ids : \E j \in DOMAIN rows : i <= j})
IdAhead == nextId + 1
\* AUTOINCREMENT: never an id that was used before, deleted rows included.
NewId == nextId

StoreSample ==
  /\ collector = "tick"
  /\ nextId <= MaxSamples
  /\ \E parses \in BOOLEAN :
       /\ parses \/ Cardinality(Corrupt) < MaxCorrupt
       /\ rows' = Store(rows, NewId, clock, parses)
  /\ nextId' = nextId + 1
  /\ NextTick
  /\ UNCHANGED <<expired, clock, pushVars, netVars, historyVars, faults,
                 dbErrors>>

\* The sample is gone: the inner Result of the blocking task is not looked at.
StoreFails ==
  /\ collector = "tick"
  /\ DbError
  /\ NextTick
  /\ UNCHANGED <<tableVars, clock, pushVars, netVars, historyVars, faults>>

RunCleanup ==
  /\ collector = "cleanup"
  /\ collector' = "cleanup_sent"
  /\ rows' = Cleanup(rows, clock, Retention)
  /\ expired' = expired \cup (Unsent(rows) \ DOMAIN rows')
  /\ UNCHANGED <<nextId, clock, cleanupTick, pushVars, netVars, historyVars,
                 faults, dbErrors>>

RunCleanupSent ==
  /\ collector = "cleanup_sent"
  /\ collector' = "tick"
  /\ rows' = CleanupSent(rows, clock, SentKeep)
  /\ UNCHANGED <<nextId, expired, clock, cleanupTick, pushVars, netVars,
                 historyVars, faults, dbErrors>>

-----------------------------------------------------------------------------
(* The push task: backfill (b_...) until a read comes back empty, then the *)
(* steady state (s_...).  Between a read and the use of its result other   *)
(* tasks run.                                                              *)

BackfillReadStopsShort ==
  /\ push = "b_read"
  /\ batch' = GetUnsent(rows, Chunk)
  /\ push' = IF Cardinality(batch') < Chunk THEN "s_read" ELSE "b_send"
  /\ UNCHANGED <<tableVars, clock, collectorVars, jobs, netVars, historyVars,
                 faults, dbErrors>>

BackfillRead ==
  /\ push = "b_read"
  /\ batch' = GetUnsent(rows, Chunk)
  /\ push' = IF batch' = {} THEN "s_read" ELSE "b_send"
  /\ UNCHANGED <<tableVars, clock, collectorVars, jobs, netVars, historyVars,
                 faults, dbErrors>>

BackfillReadFails ==
  /\ push = "b_read"
  /\ DbError
  /\ push' = "s_read"
  /\ UNCHANGED <<tableVars, clock, collectorVars, batch, jobs, netVars,
                 historyVars, faults>>

SteadyReadStopsOnEmpty ==
  /\ push = "s_read"
  /\ batch' = GetUnsent(rows, PushLimit)
  /\ push' = IF batch' = {} THEN "ended" ELSE "s_send"
  /\ UNCHANGED <<tableVars, clock, collectorVars, jobs, netVars, historyVars,
                 faults, dbErrors>>

\* An empty result waits for the next tick.
SteadyRead ==
  /\ push = "s_read"
  /\ batch' = GetUnsent(rows, PushLimit)
  /\ batch' # {}
  /\ push' = "s_send"
  /\ UNCHANGED <<tableVars, clock, collectorVars, jobs, netVars, historyVars,
                 faults, dbErrors>>

SteadyReadFails ==
  /\ push = "s_read"
  /\ DbError
  /\ UNCHANGED <<tableVars, clock, collectorVars, pushVars, netVars,
                 historyVars, faults>>

\* send().await takes a slot of the channel; in the same poll the task starts
\* mark_sent on a blocking thread, so no abort falls between the two.
Enqueue(from, to) ==
  /\ push = from
  /\ chanOpen
  /\ Len(chan) < ChanCap
  /\ chan' = Append(chan, batch)
  /\ push' = to
  /\ handed' = handed \cup batch
  /\ connSent' = connSent \cup batch
  /\ UNCHANGED <<tableVars, clock, collectorVars, batch, jobs, chanOpen, wire,
                 link, markFailed, received, faults, dbErrors>>

BackfillSend == Enqueue("b_send", "b_mark")
SteadySend == Enqueue("s_send", "s_mark")

\* The send reports a closed channel: backfill gives way to the steady state,
\* the steady state ends the task.
SendClosed(from, to) ==
  /\ push = from
  /\ ~chanOpen
  /\ push' = to
  /\ batch' = {}
  /\ UNCHANGED <<tableVars, clock, collectorVars, jobs, netVars, historyVars,
                 faults, dbErrors>>

SendClosedFallsThrough ==
  /\ push = "b_send"
  /\ ~chanOpen
  /\ push' = "b_mark"
  /\ UNCHANGED <<tableVars, clock, collectorVars, batch, jobs, netVars,
                 historyVars, faults, dbErrors>>

BackfillSendClosed == SendClosed("b_send", "s_read")
SteadySendClosed == SendClosed("s_send", "ended")

AfterMark == IF push = "b_mark" THEN "b_read" ELSE "s_read"

Mark ==
  /\ push \in Marking
  /\ rows' = MarkSent(rows, batch)
  /\ push' = AfterMark
  /\ batch' = {}
  /\ UNCHANGED <<nextId, expired, clock, collectorVars, jobs, netVars,
                 historyVars, faults, dbErrors>>

\* The error is discarded and the rows stay unsent.
MarkFails ==
  /\ push \in Marking
  /\ DbError
  /\ markFailed' = TRUE
  /\ push' = AfterMark
  /\ batch' = {}
  /\ UNCHANGED <<tableVars, clock, collectorVars, jobs, netVars, handed,
                 connSent, received, faults>>

DetachedMark(S) ==
  /\ rows' = MarkSent(rows, S)
  /\ jobs' = jobs \ {S}
  /\ UNCHANGED <<nextId, expired, clock, collectorVars, push, batch, netVars,
                 historyVars, faults, dbErrors>>

DetachedMarkFails(S) ==
  /\ DbError
  /\ jobs' = jobs \ {S}
  /\ UNCHANGED <<tableVars, clock, collectorVars, push, batch, netVars,
                 historyVars, faults>>

-----------------------------------------------------------------------------
(* The channel and the socket.                                             *)

\* Heartbeats and responses compete for the same channel.
OtherTraffic ==
  /\ chanOpen
  /\ Len(chan) < ChanCap
  /\ chan' = Append(chan, {})
  /\ UNCHANGED <<tableVars, clock, collectorVars, pushVars, chanOpen, wire,
                 link, historyVars, faults, dbErrors>>

SenderDropsWhenFull ==
  /\ link = "up"
  /\ chan # << >>
  /\ chan' = Tail(chan)
  /\ wire' = IF Len(wire) < WireCap THEN Append(wire, Head(chan)) ELSE wire
  /\ UNCHANGED <<tableVars, clock, collectorVars, pushVars, chanOpen, link,
                 historyVars, faults, dbErrors>>

SenderWrites ==
  /\ link = "up"
  /\ chan # << >>
  /\ Len(wire) < WireCap
  /\ chan' = Tail(chan)
  /\ wire' = Append(wire, Head(chan))
  /\ UNCHANGED <<tableVars, clock, collectorVars, pushVars, chanOpen, link,
                 historyVars, faults, dbErrors>>

\* The kernel takes the frame; the peer never will.
SenderWritesInVain ==
  /\ link = "broken"
  /\ chan # << >>
  /\ chan' = Tail(chan)
  /\ UNCHANGED <<tableVars, clock, collectorVars, pushVars, chanOpen, wire,
                 link, historyVars, faults, dbErrors>>

\* The write errors, the sender task ends, its receiver is dropped with
\* everything still in the channel.  The receive loop runs on.
SenderFails ==
  /\ link = "broken"
  /\ chan # << >>
  /\ chan' = << >>
  /\ chanOpen' = FALSE
  /\ UNCHANGED <<tableVars, clock, collectorVars, pushVars, wire, link,
                 historyVars, faults, dbErrors>>

GatewayReceives ==
  /\ link = "up"
  /\ wire # << >>
  /\ received' = received \cup Head(wire)
  /\ wire' = Tail(wire)
  /\ UNCHANGED <<tableVars, clock, collectorVars, pushVars, chan, chanOpen,
                 link, handed, connSent, markFailed, faults, dbErrors>>

-----------------------------------------------------------------------------
(* Connections come and go, and so does the process.                       *)

Connect ==
  /\ link = "down"
  /\ link' = "up"
  /\ chanOpen' = TRUE
  /\ push' = "b_read"
  /\ connSent' = {}
  /\ markFailed' = FALSE
  /\ UNCHANGED <<tableVars, clock, collectorVars, batch, jobs, chan, wire,
                 handed, received, faults, dbErrors>>

Fault ==
  /\ faults < MaxFaults
  /\ faults' = faults + 1

\* Half-open: what is on the wire is lost, the agent does not know yet.
LinkBreaks ==
  /\ link = "up"
  /\ Fault
  /\ link' = "broken"
  /\ wire' = << >>
  /\ UNCHANGED <<tableVars, clock, collectorVars, pushVars, chan, chanOpen,
                 historyVars, dbErrors>>

DropConnection ==
  /\ link' = "down"
  /\ chan' = << >>
  /\ chanOpen' = FALSE
  /\ wire' = << >>
  /\ push' = "off"
  /\ batch' = {}

\* The receive loop ends and aborts the tasks.  A mark_sent already handed to
\* the blocking pool is not aborted with the task that waits for it.
EndConnection ==
  /\ DropConnection
  /\ jobs' = IF push \in Marking THEN jobs \cup {batch} ELSE jobs
  /\ UNCHANGED <<tableVars, clock, collectorVars, historyVars, dbErrors>>

GatewayCloses == link = "up" /\ Fault /\ EndConnection
ReadErrors == link = "broken" /\ EndConnection /\ UNCHANGED faults

\* The process dies and systemd starts it again: only the table survives.
Crash ==
  /\ Fault
  /\ DropConnection
  /\ jobs' = {}
  /\ collector' = "tick"
  /\ cleanupTick' = 0
  /\ UNCHANGED <<tableVars, clock, historyVars, dbErrors>>

-----------------------------------------------------------------------------
PushRuns ==
  \/ BackfillRead \/ BackfillReadFails \/ SteadyRead \/ SteadyReadFails
  \/ BackfillSend \/ SteadySend \/ BackfillSendClosed \/ SteadySendClosed
  \/ Mark \/ MarkFails
  \/ \E S \in jobs : DetachedMark(S) \/ DetachedMarkFails(S)

CollectorRuns ==
  StoreSample \/ StoreFails \/ RunCleanup \/ RunCleanupSent

NetRuns ==
  \/ OtherTraffic \/ SenderWrites \/ SenderWritesInVain \/ SenderFails
  \/ GatewayReceives
  \/ Connect \/ LinkBreaks \/ GatewayCloses \/ ReadErrors \/ Crash

Next == TimePasses \/ CollectorRuns \/ PushRuns \/ NetRuns

Spec == Init /\ [][Next]_vars

\* The runtime runs every task that can run; the channel's semaphore is first
\* in, first out, so a waiting sender is not overtaken for ever; the gateway
\* reads; a broken socket errors in the end, for heartbeats keep writing to it;
\* and the gateway takes a connection sooner or later.
Fairness ==
  /\ WF_vars(BackfillRead) /\ WF_vars(SteadyRead)
  /\ SF_vars(BackfillSend) /\ SF_vars(SteadySend)
  /\ WF_vars(BackfillSendClosed) /\ WF_vars(SteadySendClosed)
  /\ WF_vars(Mark)
  /\ WF_vars(\E S \in jobs : DetachedMark(S))
  /\ WF_vars(SenderWrites) /\ WF_vars(GatewayReceives)
  /\ WF_vars(ReadErrors) /\ WF_vars(Connect)

FairSpec == Spec /\ Fairness

-----------------------------------------------------------------------------
Carried(queue) == UNION Range(queue)
InFlight == Carried(chan) \cup Carried(wire)

\* A row marked sent has been handed to a connection: no row is given up on
\* the strength of a send that did not happen, in whatever order the reads,
\* aborts, detached marks and crashes fall (mark_sent after the send).
SentWasHandedOver ==
  \A i \in DOMAIN rows : rows[i].sent => i \in handed

\* Every sample the table ever took is still in it, or was handed over, or
\* fell to the retention: neither pruning of sent rows nor a reused id makes an
\* unsent row vanish (cleanup_sent, AUTOINCREMENT).
NoRowVanishes ==
  \A i \in 1..nextId - 1 : i \in DOMAIN rows \cup handed \cup expired

\* On one connection the push task never offers a row twice, unless marking it
\* failed: it waits for mark_sent before it reads again.
NoResendOnConnection ==
  push \in Sending /\ ~markFailed => batch \cap connSent = {}

\* The batches under way on a connection are in the order the samples were
\* taken, as get_unsent's ORDER BY promises, unless a failed mark made the
\* push task send a batch again.
InFlightInOrder ==
  LET queue == wire \o chan
  IN  ~markFailed =>
        \A m, n \in DOMAIN queue :
          m < n => \A i \in queue[m], j \in queue[n] : i < j

\* While a connection lives, what it took in and did not lose is received or
\* still under way: only a fault loses a batch, neither a full channel nor
\* backpressure from the socket does.
OnlyFaultsLose ==
  link = "up" => connSent \subseteq received \cup InFlight

\* A row leaves the table before it is marked sent only when it has outlived
\* the retention (cleanup).
ExpiryIsByAge ==
  [][\A i \in Unsent(rows) \ DOMAIN rows' : rows[i].ts + Retention < clock]_vars

\* Backfill ends, other than by an error, only when no unsent row is left that
\* could be sent ("Metrics backfill complete - no unsent data remaining").
BackfillDrains ==
  [][push = "b_read" /\ push' = "s_read" /\ dbErrors' = dbErrors
       => \A i \in Unsent(rows) : ~rows[i].ok]_vars

\* "The metrics path is designed to never lose data across disconnects": a
\* readable sample is in the table unsent, under way, received or expired.
NeverLose ==
  \A i \in 1..nextId - 1 :
    \/ i \in received \cup expired \cup InFlight
    \/ i \in DOMAIN rows /\ (~rows[i].sent \/ ~rows[i].ok)

\* Once the faults are over and a connection is up, every readable unsent row
\* reaches the gateway or expires, through a full channel, resends and failing
\* reads; but for a row that a mark_sent of an earlier connection is about to
\* mark though its batch may be lost.
Drains ==
  \A i \in Ids :
    (/\ faults = MaxFaults /\ link = "up"
     /\ i \in Unsent(rows) \ UNION jobs
     /\ rows[i].ok)
      ~> i \in received \cup expired

\* The pipeline implements the contract: what is owed are the unsent rows.
Contract == INSTANCE MetricsContract WITH
  Samples <- Ids,
  kept <- Unsent(rows),
  transit <- InFlight,
  delivered <- received

ContractSpec == Contract!Spec
=============================================================================
