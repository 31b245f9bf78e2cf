------------------------------ MODULE Streams ------------------------------
(***************************************************************************)
(* What runs commands and streams their output: exec and exec.stream       *)
(* (src/src/handlers/exec.rs), docker.logs (docker.rs) and fs.download     *)
(* (fs.rs), over one connection.  A request is handled by a task of its    *)
(* own; a stream goes on in a second task, and for exec.stream in a reader *)
(* of each pipe as well.  All of them send to the connection's channel,    *)
(* which is bounded; the sender task empties it.                           *)
(*                                                                         *)
(* Output is numbered chunk by chunk, and read by the chunk.  "run" stands *)
(* for exec, "collect" for docker.logs without follow, "logs" with it.  A  *)
(* download under sudo reads the file through cat, in the same steps.      *)
(*                                                                         *)
(* External, from Unix: a writer waits while its pipe is full, and is      *)
(* ended when it writes to a pipe nobody reads; a pipe is at its end when  *)
(* no process has it open for writing, those a command has left in the     *)
(* background included.  The "command" of logs is docker's answer.         *)
(***************************************************************************)
EXTENDS Naturals, Sequences, FiniteSets

CONSTANTS
  Requests,     \* requests of the gateway, each with a stream_id of its own
  Capacity,     \* messages the channel holds
  PipeSize,     \* chunks a pipe holds
  MaxOutput,    \* bound: chunks written to a pipe, or in the file
  MaxFaults     \* bound: failing calls

ASSUME StreamBounds ==
  /\ Capacity \in Nat \ {0} /\ PipeSize \in Nat \ {0}
  /\ MaxOutput \in Nat /\ MaxFaults \in Nat

VARIABLES
  connected,  \* the connection that brought the requests is up
  channel,    \* messages on their way to the sender task
  kind,       \* what each request asks for
  handler,    \* the task that answers it
  task,       \* the task that ends its stream
  reader,     \* who reads each of its pipes, or the file
  writers,    \* the processes that write to its pipes
  written,    \* chunks written to each pipe
  taken,      \* chunks read from it
  size,       \* the size announced for a download
  file,       \* the file downloads are from
  faults,
  \* history, read by no action's guard
  got,        \* what the gateway has received for each request
  faulty,     \* requests with a failed read
  changed     \* downloads whose file has changed since its size was read

process == <<kind, handler, task, reader>>
pipes == <<writers, written, taken>>
history == <<got, faulty, changed>>
vars == <<connected, channel, process, pipes, size, file, faults, history>>

Channels == {"stdout", "stderr"}
Kinds == {"run", "collect", "exec", "logs", "download"}
Streaming(s) == kind[s] \in {"exec", "logs", "download"}
ChannelsOf(k) == IF k \in {"run", "exec"} THEN Channels ELSE {"stdout"}

Other == [what |-> "other"]

Messages ==
  [request : Requests, what : Channels, chunk : 1..MaxOutput]
    \cup [request : Requests,
          what : {"ok", "error", "streaming", "end", "failed_end"}]
    \cup {Other}

TypeOK ==
  /\ connected \in BOOLEAN
  /\ channel \in Seq(Messages) /\ Len(channel) <= Capacity
  /\ kind \in [Requests -> Kinds \cup {"none"}]
  /\ handler \in [Requests -> {"idle", "new", "collecting", "ok", "error",
                               "streaming", "done"}]
  /\ task \in [Requests -> {"none", "opening", "reading", "waiting", "end",
                            "failed_end", "done"}]
  /\ reader \in [Requests -> [Channels -> {"none", "reading", "sending", "done"}]]
  /\ writers \in [Requests -> SUBSET {"command", "background"}]
  /\ written \in [Requests -> [Channels -> 0..MaxOutput]]
  /\ taken \in [Requests -> [Channels -> 0..MaxOutput]]
  /\ size \in [Requests -> 0..MaxOutput]
  /\ file \in [exists : BOOLEAN, length : 0..MaxOutput]
  /\ faults \in 0..MaxFaults
  /\ got \in [Requests -> [answered : BOOLEAN, ended : {"no", "end", "failed_end"},
                           data : [Channels -> 0..MaxOutput]]]
  /\ faulty \subseteq Requests
  /\ changed \subseteq Requests

Nothing == [c \in Channels |-> 0]

Init ==
  /\ connected = TRUE
  /\ channel = << >>
  /\ kind = [s \in Requests |-> "none"]
  /\ handler = [s \in Requests |-> "idle"]
  /\ task = [s \in Requests |-> "none"]
  /\ reader = [s \in Requests |-> [c \in Channels |-> "none"]]
  /\ writers = [s \in Requests |-> {}]
  /\ written = [s \in Requests |-> Nothing]
  /\ taken = [s \in Requests |-> Nothing]
  /\ size = [s \in Requests |-> 0]
  /\ file = [exists |-> TRUE, length |-> MaxOutput]
  /\ faults = 0
  /\ got = [s \in Requests |->
              [answered |-> FALSE, ended |-> "no", data |-> Nothing]]
  /\ faulty = {}
  /\ changed = {}

Fault == faults < MaxFaults /\ faults' = faults + 1
Reads(s, c, r) == reader' = [reader EXCEPT ![s][c] = r]

SendsUnbounded(m) ==
  channel' = IF connected THEN Append(channel, m) ELSE channel

SendsForever(m) ==
  connected /\ Len(channel) < Capacity /\ channel' = Append(channel, m)

\* tx.send(m).await: it waits for room, and fails when the connection is gone.
Sends(m) ==
  /\ Len(channel) < Capacity \/ ~connected
  /\ channel' = IF connected THEN Append(channel, m) ELSE channel

-----------------------------------------------------------------------------
(* The gateway, the connection and the sender task.                        *)

Ask(s, k) ==
  /\ connected /\ handler[s] = "idle"
  /\ kind' = [kind EXCEPT ![s] = k]
  /\ handler' = [handler EXCEPT ![s] = "new"]
  /\ UNCHANGED <<connected, channel, task, reader, pipes, size, file, faults,
                 history>>

Receives(m) ==
  CASE m = Other -> got
    [] m.what \in Channels -> [got EXCEPT ![m.request].data[m.what] = m.chunk]
    [] m.what \in {"end", "failed_end"} -> [got EXCEPT ![m.request].ended = m.what]
    [] OTHER -> [got EXCEPT ![m.request].answered = TRUE]

\* Heartbeats, metrics, shells.
OtherTraffic ==
  /\ connected
  /\ Sends(Other)
  /\ UNCHANGED <<connected, process, pipes, size, file, faults, history>>

Deliver ==
  /\ channel # << >>
  /\ channel' = Tail(channel)
  /\ got' = Receives(Head(channel))
  /\ UNCHANGED <<connected, process, pipes, size, file, faults, faulty, changed>>

\* The sender task is aborted and the channel closed.
Disconnect ==
  /\ connected
  /\ connected' = FALSE
  /\ channel' = << >>
  /\ UNCHANGED <<process, pipes, size, file, faults, history>>

-----------------------------------------------------------------------------
(* Handlers.                                                               *)

\* A command is spawned, and may leave a process in the background; docker
\* is asked for logs.
Spawns(s) ==
  writers' \in {[writers EXCEPT ![s] = {"command"}]}
    \cup (IF kind[s] \in {"run", "exec"}
          THEN {[writers EXCEPT ![s] = {"command", "background"}]} ELSE {})

Begin(s) ==
  /\ handler[s] = "new" /\ kind[s] # "download"
  /\ Spawns(s)
  /\ reader' = [reader EXCEPT ![s] =
       [c \in Channels |-> IF c \in ChannelsOf(kind[s]) THEN "reading" ELSE "none"]]
  /\ handler' = [handler EXCEPT ![s] =
                   IF Streaming(s) THEN "streaming" ELSE "collecting"]
  /\ task' = [task EXCEPT ![s] = IF Streaming(s) THEN "reading" ELSE "none"]
  /\ UNCHANGED <<connected, channel, kind, written, taken, size, file, faults,
                 history>>

\* The size is read before the file is opened.
BeginDownload(s) ==
  /\ handler[s] = "new" /\ kind[s] = "download" /\ file.exists
  /\ size' = [size EXCEPT ![s] = file.length]
  /\ handler' = [handler EXCEPT ![s] = "streaming"]
  /\ task' = [task EXCEPT ![s] = "opening"]
  /\ UNCHANGED <<connected, channel, kind, reader, pipes, file, faults, history>>

CannotBegin(s) ==
  /\ handler[s] = "new"
  /\ IF kind[s] = "download" /\ ~file.exists THEN UNCHANGED faults ELSE Fault
  /\ handler' = [handler EXCEPT ![s] = "error"]
  /\ UNCHANGED <<connected, channel, kind, task, reader, pipes, size, file, history>>

Answer(s) ==
  /\ handler[s] \in {"ok", "error", "streaming"}
  /\ Sends([request |-> s, what |-> handler[s]])
  /\ handler' = [handler EXCEPT ![s] = "done"]
  /\ UNCHANGED <<connected, kind, task, reader, pipes, size, file, faults, history>>

-----------------------------------------------------------------------------
(* exec, and docker.logs without follow: the handler collects the output.  *)

AtEndUndrained(s, c) ==
  IF kind[s] = "download" THEN taken[s][c] >= file.length ELSE writers[s] = {}

AtEnd(s, c) ==
  IF kind[s] = "download" THEN taken[s][c] >= file.length
  ELSE writers[s] = {} /\ taken[s][c] = written[s][c]

Collect(s, c) ==
  /\ handler[s] = "collecting" /\ taken[s][c] < written[s][c]
  /\ taken' = [taken EXCEPT ![s][c] = @ + 1]
  /\ UNCHANGED <<connected, channel, process, writers, written, size, file,
                 faults, history>>

Collected(s) ==
  /\ handler[s] = "collecting"
  /\ \A c \in ChannelsOf(kind[s]) : AtEnd(s, c)
  /\ handler' = [handler EXCEPT ![s] = "ok"]
  /\ UNCHANGED <<connected, channel, kind, task, reader, pipes, size, file,
                 faults, history>>

\* output() fails, or docker does, which is not told.
CollectFails(s) ==
  /\ handler[s] = "collecting"
  /\ Fault
  /\ handler' = [handler EXCEPT ![s] = IF kind[s] = "run" THEN "error" ELSE "ok"]
  /\ reader' = [reader EXCEPT ![s] = [c \in Channels |-> "done"]]
  /\ faulty' = faulty \cup {s}
  /\ UNCHANGED <<connected, channel, kind, task, pipes, size, file, got, changed>>

TimesOutAndWaits(s) ==
  /\ handler[s] = "collecting" /\ kind[s] = "run" /\ writers[s] = {}
  /\ handler' = [handler EXCEPT ![s] = "error"]
  /\ reader' = [reader EXCEPT ![s] = [c \in Channels |-> "done"]]
  /\ UNCHANGED <<connected, channel, kind, task, pipes, size, file, faults, history>>

\* The future is dropped, and its ends of the pipes; the command is not.
TimesOut(s) ==
  /\ handler[s] = "collecting" /\ kind[s] = "run"
  /\ handler' = [handler EXCEPT ![s] = "error"]
  /\ reader' = [reader EXCEPT ![s] = [c \in Channels |-> "done"]]
  /\ UNCHANGED <<connected, channel, kind, task, pipes, size, file, faults, history>>

-----------------------------------------------------------------------------
(* Readers: tasks of their own for exec.stream, the stream's task for the  *)
(* others.                                                                 *)

OpenFile(s) ==
  /\ task[s] = "opening"
  /\ IF file.exists
     THEN /\ task' = [task EXCEPT ![s] = "reading"]
          /\ Reads(s, "stdout", "reading")
     ELSE task' = [task EXCEPT ![s] = "failed_end"] /\ UNCHANGED reader
  /\ UNCHANGED <<connected, channel, kind, handler, pipes, size, file, faults,
                 history>>

Available(s, c) ==
  IF kind[s] = "download" THEN taken[s][c] < file.length
  ELSE taken[s][c] < written[s][c]

Read(s, c) ==
  /\ task[s] = "reading" /\ reader[s][c] = "reading"
  /\ \/ /\ Available(s, c)
        /\ taken' = [taken EXCEPT ![s][c] = @ + 1]
        /\ Reads(s, c, "sending")
     \/ /\ AtEnd(s, c)
        /\ Reads(s, c, "done")
        /\ UNCHANGED taken
  /\ UNCHANGED <<connected, channel, kind, handler, task, writers, written, size,
                 file, faults, history>>

\* A download is the only one to tell.
ReadFails(s, c) ==
  /\ task[s] = "reading" /\ reader[s][c] = "reading"
  /\ Fault
  /\ Reads(s, c, "done")
  /\ task' = IF kind[s] = "download" THEN [task EXCEPT ![s] = "failed_end"] ELSE task
  /\ faulty' = faulty \cup {s}
  /\ UNCHANGED <<connected, channel, kind, handler, pipes, size, file, got, changed>>

SendDataIfRoom(s, c) ==
  /\ reader[s][c] = "sending"
  /\ IF Len(channel) = Capacity THEN UNCHANGED channel
     ELSE Sends([request |-> s, what |-> c, chunk |-> taken[s][c]])
  /\ Reads(s, c, IF connected THEN "reading" ELSE "done")
  /\ UNCHANGED <<connected, kind, handler, task, pipes, size, file, faults, history>>

SendDataStays(s, c) ==
  /\ reader[s][c] = "sending"
  /\ Sends([request |-> s, what |-> c, chunk |-> taken[s][c]])
  /\ Reads(s, c, IF connected THEN "reading" ELSE "sending")
  /\ UNCHANGED <<connected, kind, handler, task, pipes, size, file, faults, history>>

SendData(s, c) ==
  /\ reader[s][c] = "sending"
  /\ Sends([request |-> s, what |-> c, chunk |-> taken[s][c]])
  /\ Reads(s, c, IF connected THEN "reading" ELSE "done")
  /\ task' = IF connected \/ kind[s] # "download" THEN task
             ELSE [task EXCEPT ![s] = "failed_end"]
  /\ UNCHANGED <<connected, kind, handler, pipes, size, file, faults, history>>

JoinAny(s) ==
  /\ task[s] = "reading"
  /\ \E c \in ChannelsOf(kind[s]) : reader[s][c] = "done"
  /\ task' = [task EXCEPT ![s] = IF kind[s] = "exec" THEN "waiting" ELSE "end"]
  /\ UNCHANGED <<connected, channel, kind, handler, reader, pipes, size, file,
                 faults, history>>

\* All readers are done.
Join(s) ==
  /\ task[s] = "reading"
  /\ \A c \in ChannelsOf(kind[s]) : reader[s][c] = "done"
  /\ task' = [task EXCEPT ![s] = IF kind[s] = "exec" THEN "waiting" ELSE "end"]
  /\ UNCHANGED <<connected, channel, kind, handler, reader, pipes, size, file,
                 faults, history>>

WaitForChild(s) ==
  /\ task[s] = "waiting" /\ "command" \notin writers[s]
  /\ task' = [task EXCEPT ![s] = "end"]
  /\ UNCHANGED <<connected, channel, kind, handler, reader, pipes, size, file,
                 faults, history>>

SendEnd(s) ==
  /\ task[s] \in {"end", "failed_end"}
  /\ Sends([request |-> s, what |-> task[s]])
  /\ task' = [task EXCEPT ![s] = "done"]
  /\ UNCHANGED <<connected, kind, handler, reader, pipes, size, file, faults, history>>

-----------------------------------------------------------------------------
(* Commands, what they leave in the background, containers; the file.      *)

Write(s, w, c) ==
  /\ w \in writers[s] /\ c \in ChannelsOf(kind[s])
  /\ written[s][c] < MaxOutput
  /\ \/ /\ reader[s][c] # "done"
        /\ written[s][c] - taken[s][c] < PipeSize
        /\ written' = [written EXCEPT ![s][c] = @ + 1]
        /\ UNCHANGED writers
     \/ /\ reader[s][c] = "done"
        /\ writers' = [writers EXCEPT ![s] = @ \ {w}]
        /\ UNCHANGED written
  /\ UNCHANGED <<connected, channel, process, taken, size, file, faults, history>>

Exit(s, w) ==
  /\ w \in writers[s]
  /\ writers' = [writers EXCEPT ![s] = @ \ {w}]
  /\ UNCHANGED <<connected, channel, process, written, taken, size, file, faults,
                 history>>

\* Looked at while there is a download.
ChangeFile ==
  /\ file.exists /\ \E s \in Requests : kind[s] = "download"
  /\ \/ file' = [file EXCEPT !.exists = FALSE]
     \/ \E n \in 0..MaxOutput \ {file.length} : file' = [file EXCEPT !.length = n]
  /\ changed' = changed \cup
       {s \in Requests : kind[s] = "download" /\ handler[s] \notin {"idle", "new"}}
  /\ UNCHANGED <<connected, channel, process, pipes, size, faults, got, faulty>>

-----------------------------------------------------------------------------
Handler(s) ==
  \/ Begin(s) \/ BeginDownload(s) \/ CannotBegin(s) \/ Answer(s)
  \/ \E c \in Channels : Collect(s, c)
  \/ Collected(s)

StreamTask(s) == OpenFile(s) \/ Join(s) \/ WaitForChild(s) \/ SendEnd(s)
Reader(s, c) == Read(s, c) \/ SendData(s, c)

Next ==
  \/ \E s \in Requests :
       \/ \E k \in Kinds : Ask(s, k)
       \/ Handler(s) \/ CollectFails(s) \/ TimesOut(s)
       \/ StreamTask(s)
       \/ \E c \in Channels : Reader(s, c) \/ ReadFails(s, c)
       \/ \E w \in {"command", "background"} :
            Exit(s, w) \/ \E c \in Channels : Write(s, w, c)
  \/ OtherTraffic \/ Deliver \/ Disconnect \/ ChangeFile

Spec == Init /\ [][Next]_vars

\* Tasks go on, time passes and the gateway reads; the channel gives room in
\* the order it was asked for.  No command has to end.
Fairness ==
  /\ \A s \in Requests :
       /\ WF_vars(Handler(s)) /\ WF_vars(TimesOut(s)) /\ WF_vars(StreamTask(s))
       /\ SF_vars(Answer(s)) /\ SF_vars(SendEnd(s))
       /\ \A c \in Channels : WF_vars(Reader(s, c)) /\ SF_vars(SendData(s, c))
  /\ WF_vars(Deliver)

FairSpec == Spec /\ Fairness

-----------------------------------------------------------------------------
\* Nothing of a stream comes after its end: when stream.end is sent, no reader
\* has a chunk in its hands or will read another one.
EndIsLast ==
  [][\A s \in Requests :
       got[s].ended # "no" => got'[s].data = got[s].data]_vars

\* Chunks come in the order they were written, none twice and none left out.
InOrder ==
  [][\A s \in Requests, c \in Channels :
       got'[s].data[c] # got[s].data[c] => got'[s].data[c] = got[s].data[c] + 1]_vars

\* A stream that has ended was complete: all that the command and the processes
\* it left behind wrote, and as much of a file as was announced.  Not so when a
\* read failed, which only a download tells, or the file was changed.
EndIsComplete ==
  \A s \in Requests \ faulty :
    got[s].ended = "end" =>
      IF kind[s] = "download" THEN s \in changed \/ got[s].data["stdout"] = size[s]
      ELSE \A c \in Channels : got[s].data[c] = written[s][c]

\* A stream ends when nobody writes to it any more, the channel full or not,
\* the connection up or not; a download always does.
StreamsEnd ==
  \A s \in Requests :
    (Streaming(s) /\ task[s] # "none" /\ (kind[s] = "download" \/ writers[s] = {}))
      ~> task[s] = "done"

\* Whatever else is streaming, a request that does not wait for docker is
\* answered, a command that does not end by the timeout.
Answered ==
  \A s \in Requests :
    handler[s] = "new" /\ kind[s] # "collect"
      ~> got[s].answered \/ ~connected

\* A command that goes on writing after the connection is gone is ended: no
\* writer waits for a reader that has gone.
NobodyWaits ==
  \A s \in Requests, c \in Channels :
    (~connected /\ kind[s] = "exec" /\ written[s][c] - taken[s][c] = PipeSize)
      ~> reader[s][c] = "done"

\* What a pipe has to give: what was written to it; of a file, what was announced.
Offered(s, c) ==
  IF kind[s] # "download" THEN written[s][c]
  ELSE IF c = "stdout" /\ task[s] # "none" THEN size[s] ELSE 0

\* The contract of the streams of all requests.
Contract == INSTANCE StreamContract WITH
  offered <- [s \in Requests |-> [c \in Channels |-> Offered(s, c)]],
  received <- [s \in Requests |-> got[s].data],
  ended <- [s \in Requests |-> got[s].ended],
  spoilt <- faulty \cup changed

\* Streams keep it: chunk by chunk, the end behind all of it, and an end or a
\* failure according to what happened.
KeepsContract == Contract!Spec
=============================================================================
