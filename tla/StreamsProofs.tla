--------------------------- MODULE StreamsProofs ---------------------------
(***************************************************************************)
(* Proofs about Streams for any set of requests, any capacity of the       *)
(* channel and the pipes, any amount of output and any number of faults.   *)
(***************************************************************************)
EXTENDS Streams, SequenceTheorems, TLAPS

\* A reader has a chunk in its hands.
Holds(s, c) == reader[s][c] = "sending"

\* What ends a stream.
Ending == {"end", "failed_end"}
\* The message is a chunk of this pipe.
IsData(n, s, c) == channel[n].what = c /\ channel[n].request = s
\* The message ends this stream.
IsEnd(n, s) == channel[n].what \in Ending /\ channel[n].request = s

\* How far the reader of a pipe has sent what it has read.
SentUpTo(s, c) == IF Holds(s, c) THEN taken[s][c] - 1 ELSE taken[s][c]

\* Where a request stands.
Stands(s) ==
  /\ handler[s] = "idle" <=> kind[s] = "none"
  /\ handler[s] \in {"idle", "new"} =>
       /\ task[s] = "none" /\ writers[s] = {}
       /\ \A c \in Channels :
            reader[s][c] = "none" /\ taken[s][c] = 0 /\ written[s][c] = 0
  /\ handler[s] = "collecting" => kind[s] \in {"run", "collect"}
  /\ task[s] # "none" => Streaming(s)
  /\ task[s] = "opening" => kind[s] = "download"
  /\ kind[s] = "download" => writers[s] = {}
  /\ \A c \in Channels :
       /\ Holds(s, c) => task[s] = "reading" /\ taken[s][c] > 0
       /\ reader[s][c] \in {"reading", "sending"} => c \in ChannelsOf(kind[s])
       /\ task[s] \in {"waiting", "end", "failed_end", "done"} =>
            reader[s][c] \in {"none", "done"}
       /\ c \notin ChannelsOf(kind[s]) => taken[s][c] = 0 /\ written[s][c] = 0
       /\ task[s] = "opening" => reader[s][c] = "none" /\ taken[s][c] = 0
       /\ kind[s] # "download" => taken[s][c] <= written[s][c]

\* Requests stand somewhere, and nothing is under way on a lost connection.
Progress == (~connected => channel = << >>) /\ \A s \in Requests : Stands(s)

\* The chunks of a pipe that are under way follow what has arrived, and each
\* other; the last of them is the last its reader has sent.
ChainOf(s, c) ==
  /\ task[s] = "none" => got[s].data[c] = 0
  /\ \A n \in DOMAIN channel : IsData(n, s, c) =>
       /\ task[s] # "none"
       /\ got[s].data[c] < channel[n].chunk /\ channel[n].chunk <= SentUpTo(s, c)
       /\ \A m \in 1..(n - 1) : IsData(m, s, c) => channel[m].chunk < channel[n].chunk
       /\ \/ channel[n].chunk = got[s].data[c] + 1
          \/ \E m \in 1..(n - 1) :
               IsData(m, s, c) /\ channel[m].chunk = channel[n].chunk - 1
  /\ connected /\ Streaming(s) =>
       \/ SentUpTo(s, c) = got[s].data[c]
       \/ \E n \in DOMAIN channel : IsData(n, s, c) /\ channel[n].chunk = SentUpTo(s, c)

\* So for every pipe of every request.
Chained == \A s \in Requests, c \in Channels : ChainOf(s, c)

\* Nothing of a stream is behind its end, which comes once.
EndOf(s) ==
  /\ \A n \in DOMAIN channel : IsEnd(n, s) =>
       /\ task[s] = "done"
       /\ \A m \in DOMAIN channel : IsEnd(m, s) => m = n
       /\ \A m \in DOMAIN channel, c \in Channels : IsData(m, s, c) => m < n
  /\ got[s].ended # "no" =>
       /\ task[s] = "done"
       /\ \A m \in DOMAIN channel : ~IsEnd(m, s)
       /\ \A m \in DOMAIN channel, c \in Channels : ~IsData(m, s, c)

\* So for every request.
EndsBehind == \A s \in Requests : EndOf(s)

\* All there is to read has been read.
Drained(s) ==
  IF kind[s] = "download" THEN s \in changed \/ taken[s]["stdout"] = size[s]
  ELSE writers[s] = {} /\ \A c \in Channels : taken[s][c] = written[s][c]

\* A file is as long as announced, until it is changed.
Announced(s) ==
  kind[s] = "download" /\ task[s] # "none" /\ s \notin changed =>
    size[s] = file.length /\ taken[s]["stdout"] <= size[s]

\* A reader that is done has read all: the connection is up and no read has failed.
ReadersDrain(s) ==
  connected /\ s \notin faulty /\ Streaming(s) =>
    \A c \in Channels : reader[s][c] = "done" =>
      IF kind[s] = "download" THEN s \in changed \/ taken[s][c] = size[s]
      ELSE writers[s] = {} /\ taken[s][c] = written[s][c]

\* So has a stream that is about to end, whose end is under way, or has arrived.
EndsDrained(s) ==
  /\ connected /\ s \notin faulty /\ Streaming(s) =>
       /\ task[s] \in {"waiting", "end"} => Drained(s)
       /\ \A n \in DOMAIN channel :
            channel[n].what = "end" /\ channel[n].request = s => Drained(s)
  /\ s \notin faulty /\ got[s].ended = "end" =>
       Drained(s) /\ \A c \in Channels : got[s].data[c] = taken[s][c]

\* What ends a stream that was complete.
DrainOf(s) == Announced(s) /\ ReadersDrain(s) /\ EndsDrained(s)
\* So for every request.
DrainedAtEnd == \A s \in Requests : DrainOf(s)

-----------------------------------------------------------------------------
(* Type correctness, and where requests stand.                             *)

\* The invariant that type correctness needs.
Typed == TypeOK /\ Progress

\* A message that is sent comes behind the ones under way, if the connection is up.
LEMMA Sending ==
  ASSUME TypeOK, NEW m \in Messages, Sends(m)
  PROVE  /\ channel' \in Seq(Messages) /\ Len(channel') <= Capacity
         /\ ~connected => channel' = channel
         /\ connected =>
              /\ Len(channel') = Len(channel) + 1 /\ channel'[Len(channel) + 1] = m
              /\ DOMAIN channel' = 1..(Len(channel) + 1)
              /\ \A n \in DOMAIN channel : channel'[n] = channel[n]
         /\ DOMAIN channel = 1..Len(channel) /\ Len(channel) \in Nat
<1>1. channel \in Seq(Messages) /\ Len(channel) <= Capacity /\ Capacity \in Nat
  BY StreamBounds DEF TypeOK
<1>2. DOMAIN channel = 1..Len(channel) /\ Len(channel) \in Nat
  BY <1>1, LenProperties
<1>3. CASE connected
  <2>1. channel' = Append(channel, m) /\ Len(channel) < Capacity
    BY <1>3 DEF Sends
  <2>2. channel' \in Seq(Messages) /\ Len(channel') = Len(channel) + 1
        /\ (\A n \in 1..Len(channel) : channel'[n] = channel[n])
        /\ channel'[Len(channel) + 1] = m
    BY <1>1, <2>1, AppendProperties
  <2>3. DOMAIN channel' = 1..Len(channel')
    BY <2>2, LenProperties
  <2> QED BY <1>1, <1>2, <1>3, <2>1, <2>2, <2>3
<1>4. CASE ~connected
  BY <1>1, <1>2, <1>4 DEF Sends
<1> QED BY <1>3, <1>4

\* The messages of requests.
LEMMA MessageTypes ==
  ASSUME NEW s \in Requests
  PROVE  /\ \A what \in {"ok", "error", "streaming", "end", "failed_end"} :
              [request |-> s, what |-> what] \in Messages
         /\ \A c \in Channels, n \in 1..MaxOutput :
              [request |-> s, what |-> c, chunk |-> n] \in Messages
BY DEF Messages

\* What a message of each kind has.
LEMMA Fields ==
  ASSUME NEW m \in Messages
  PROVE  /\ m.what \in Channels => m.request \in Requests /\ m.chunk \in 1..MaxOutput
         /\ m.what \in {"end", "failed_end"} => m.request \in Requests
         /\ m = Other \/ m.request \in Requests
         /\ m.what \in Channels \cup {"end", "failed_end"} => m # Other
BY DEF Messages, Channels, Other

\* The part of the state that belongs to one request is as it was.
Untouched(s) ==
  /\ kind'[s] = kind[s] /\ handler'[s] = handler[s] /\ task'[s] = task[s]
  /\ reader'[s] = reader[s] /\ writers'[s] = writers[s]
  /\ taken'[s] = taken[s] /\ written'[s] = written[s]

\* It stands where it stood.
LEMMA StandsStill ==
  ASSUME NEW s, Stands(s), Untouched(s)
  PROVE  Stands(s)'
BY DEF Stands, Untouched, Holds, Streaming

\* What a request does by itself.
LEMMA AskTyped ==
  ASSUME Typed, NEW s \in Requests, NEW k \in Kinds, Ask(s, k)
  PROVE  Typed'
<1> USE DEF Ask, Typed, TypeOK, Progress, process, pipes, history
<1>1. TypeOK'
  <2>1. kind' \in [Requests -> Kinds \cup {"none"}] /\ handler' \in [Requests ->
          {"idle", "new", "collecting", "ok", "error", "streaming", "done"}]
    OBVIOUS
  <2> QED BY <2>1
<1>2. ASSUME NEW r \in Requests PROVE Stands(r)'
  <2>1. CASE r # s
    BY <2>1, StandsStill DEF Untouched
  <2>2. CASE r = s
    BY <2>2 DEF Stands, Holds, Streaming, ChannelsOf, Kinds
  <2> QED BY <2>1, <2>2
<1> QED BY <1>1, <1>2

\* A stream that begins with its pipes open.
LEMMA BeginTyped ==
  ASSUME Typed, NEW s \in Requests, Begin(s)
  PROVE  Typed'
<1> USE DEF Begin, Spawns, Typed, TypeOK, Progress, process, pipes, history
<1>1. TypeOK'
  <2>0. PICK W \in SUBSET {"command", "background"} :
          writers' = [writers EXCEPT ![s] = W]
    OBVIOUS
  <2>1. writers' \in [Requests -> SUBSET {"command", "background"}]
    BY <2>0
  <2>2. [c \in Channels |-> IF c \in ChannelsOf(kind[s]) THEN "reading" ELSE "none"]
          \in [Channels -> {"none", "reading", "sending", "done"}]
    OBVIOUS
  <2>3. reader' \in [Requests -> [Channels -> {"none", "reading", "sending", "done"}]]
    BY <2>2
  <2>4. handler' \in [Requests ->
          {"idle", "new", "collecting", "ok", "error", "streaming", "done"}]
    OBVIOUS
  <2>5. task' \in [Requests -> {"none", "opening", "reading", "waiting", "end",
                            "failed_end", "done"}]
    OBVIOUS
  <2> QED BY <2>1, <2>3, <2>4, <2>5
<1>2. ASSUME NEW r \in Requests PROVE Stands(r)'
  <2>1. CASE r # s
    BY <2>1, StandsStill DEF Untouched
  <2>2. CASE r = s
    BY <2>2 DEF Stands, Holds, Streaming, ChannelsOf, Kinds
  <2> QED BY <2>1, <2>2
<1> QED BY <1>1, <1>2

\* A download that begins.
LEMMA BeginDownloadTyped ==
  ASSUME Typed, NEW s \in Requests, BeginDownload(s)
  PROVE  Typed'
<1> USE DEF BeginDownload, Typed, TypeOK, Progress, process, pipes, history
<1>1. TypeOK'
  OBVIOUS
<1>2. ASSUME NEW r \in Requests PROVE Stands(r)'
  <2>1. CASE r # s
    BY <2>1, StandsStill DEF Untouched
  <2>2. CASE r = s
    BY <2>2 DEF Stands, Holds, Streaming, ChannelsOf, Kinds
  <2> QED BY <2>1, <2>2
<1> QED BY <1>1, <1>2

\* A stream that cannot begin is refused.
LEMMA CannotBeginTyped ==
  ASSUME Typed, NEW s \in Requests, CannotBegin(s)
  PROVE  Typed'
<1> USE DEF CannotBegin, Typed, TypeOK, Progress, process, pipes, history
<1>1. TypeOK'
  <2>1. faults' \in 0..MaxFaults
    BY StreamBounds DEF Fault
  <2> QED BY <2>1
<1>2. ASSUME NEW r \in Requests PROVE Stands(r)'
  <2>1. CASE r # s
    BY <2>1, StandsStill DEF Untouched
  <2>2. CASE r = s
    BY <2>2 DEF Stands, Holds, Streaming, ChannelsOf, Kinds
  <2> QED BY <2>1, <2>2
<1> QED BY <1>1, <1>2

\* The answer is queued.
LEMMA AnswerTyped ==
  ASSUME Typed, NEW s \in Requests, Answer(s)
  PROVE  Typed'
<1> USE DEF Answer, Typed, TypeOK, Progress, process, pipes, history
<1>0. channel' \in Seq(Messages) /\ Len(channel') <= Capacity
      /\ (~connected => channel' = channel)
  BY Sending, MessageTypes
<1>1. TypeOK'
  BY <1>0
<1>2. ASSUME NEW r \in Requests PROVE Stands(r)'
  <2>1. CASE r # s
    BY <2>1, StandsStill DEF Untouched
  <2>2. CASE r = s
    BY <2>2 DEF Stands, Holds, Streaming, ChannelsOf, Kinds
  <2> QED BY <2>1, <2>2
<1> QED BY <1>0, <1>1, <1>2

\* A command whose output is collected.
LEMMA CollectTyped ==
  ASSUME Typed, NEW s \in Requests, NEW c \in Channels, Collect(s, c)
  PROVE  Typed'
<1> USE DEF Collect, Typed, TypeOK, Progress, process, pipes, history
<1>1. TypeOK'
  <2>1. taken[s][c] + 1 \in 0..MaxOutput
    BY StreamBounds
  <2>2. taken' \in [Requests -> [Channels -> 0..MaxOutput]]
    BY <2>1
  <2> QED BY <2>2
<1>2. ASSUME NEW r \in Requests PROVE Stands(r)'
  <2>1. CASE r # s
    BY <2>1, StandsStill DEF Untouched
  <2>2. CASE r = s
    BY <2>2 DEF Stands, Holds, Streaming, ChannelsOf, Kinds
  <2> QED BY <2>1, <2>2
<1> QED BY <1>1, <1>2

\* All output is collected and the command has ended.
LEMMA CollectedTyped ==
  ASSUME Typed, NEW s \in Requests, Collected(s)
  PROVE  Typed'
<1> USE DEF Collected, Typed, TypeOK, Progress, process, pipes, history
<1>1. TypeOK'
  OBVIOUS
<1>2. ASSUME NEW r \in Requests PROVE Stands(r)'
  <2>1. CASE r # s
    BY <2>1, StandsStill DEF Untouched
  <2>2. CASE r = s
    BY <2>2 DEF Stands, Holds, Streaming, ChannelsOf, Kinds
  <2> QED BY <2>1, <2>2
<1> QED BY <1>1, <1>2

\* Collecting fails.
LEMMA CollectFailsTyped ==
  ASSUME Typed, NEW s \in Requests, CollectFails(s)
  PROVE  Typed'
<1> USE DEF CollectFails, Typed, TypeOK, Progress, process, pipes, history
<1>1. TypeOK'
  <2>1. faults' \in 0..MaxFaults
    BY StreamBounds DEF Fault
  <2>2. reader' \in [Requests -> [Channels -> {"none", "reading", "sending", "done"}]]
    OBVIOUS
  <2>3. handler' \in [Requests ->
          {"idle", "new", "collecting", "ok", "error", "streaming", "done"}]
    OBVIOUS
  <2> QED BY <2>1, <2>2, <2>3
<1>2. ASSUME NEW r \in Requests PROVE Stands(r)'
  <2>1. CASE r # s
    BY <2>1, StandsStill DEF Untouched
  <2>2. CASE r = s
    BY <2>2 DEF Stands, Holds, Streaming, ChannelsOf, Kinds
  <2> QED BY <2>1, <2>2
<1> QED BY <1>1, <1>2

\* A command is given up after its timeout.
LEMMA TimesOutTyped ==
  ASSUME Typed, NEW s \in Requests, TimesOut(s)
  PROVE  Typed'
<1> USE DEF TimesOut, Typed, TypeOK, Progress, process, pipes, history
<1>1. TypeOK'
  <2>2. reader' \in [Requests -> [Channels -> {"none", "reading", "sending", "done"}]]
    OBVIOUS
  <2>3. handler' \in [Requests ->
          {"idle", "new", "collecting", "ok", "error", "streaming", "done"}]
    OBVIOUS
  <2> QED BY <2>2, <2>3
<1>2. ASSUME NEW r \in Requests PROVE Stands(r)'
  <2>1. CASE r # s
    BY <2>1, StandsStill DEF Untouched
  <2>2. CASE r = s
    <3>1. handler'[s] = "error" /\ reader'[s] = [c \in Channels |-> "done"]
          /\ kind[s] = "run" /\ handler[s] = "collecting" /\ Stands(s)
          /\ UNCHANGED <<kind, task, writers, taken, written>>
      OBVIOUS
    <3> HIDE DEF TimesOut, TypeOK, Progress
    <3> QED BY <2>2, <3>1 DEF Stands, Holds, Streaming
  <2> QED BY <2>1, <2>2
<1> QED BY <1>1, <1>2

\* The task of a download opens its file, or cannot.
LEMMA OpenFileTyped ==
  ASSUME Typed, NEW s \in Requests, OpenFile(s)
  PROVE  Typed'
<1> USE DEF Typed, TypeOK, Progress, process, pipes, history
<1>0. "stdout" \in Channels /\ UNCHANGED <<connected, channel, kind, handler,
        writers, written, taken, size, file, faults, got, faulty, changed>>
  BY DEF Channels, OpenFile
<1>1. CASE file.exists
  <2>0. task[s] = "opening" /\ task' = [task EXCEPT ![s] = "reading"]
        /\ reader' = [reader EXCEPT ![s]["stdout"] = "reading"]
    BY <1>1 DEF OpenFile, Reads
  <2>1. TypeOK'
    BY <1>0, <2>0
  <2>2. ASSUME NEW r \in Requests PROVE Stands(r)'
    <3>1. CASE r # s
      BY <1>0, <2>0, <3>1, StandsStill DEF Untouched
    <3>2. CASE r = s
      BY <1>0, <2>0, <3>2 DEF Stands, Holds, Streaming, ChannelsOf, Channels
    <3> QED BY <3>1, <3>2
  <2> QED BY <1>0, <2>1, <2>2
<1>2. CASE ~file.exists
  <2>0. task[s] = "opening" /\ task' = [task EXCEPT ![s] = "failed_end"]
        /\ reader' = reader
    BY <1>2 DEF OpenFile
  <2>1. TypeOK'
    BY <1>0, <2>0
  <2>2. ASSUME NEW r \in Requests PROVE Stands(r)'
    <3>1. CASE r # s
      BY <1>0, <2>0, <3>1, StandsStill DEF Untouched
    <3>2. CASE r = s
      BY <1>0, <2>0, <3>2 DEF Stands, Holds, Streaming, ChannelsOf, Channels
    <3> QED BY <3>1, <3>2
  <2> QED BY <1>0, <2>1, <2>2
<1> QED BY <1>1, <1>2

\* A reader takes the next chunk, or is done.
LEMMA ReadTyped ==
  ASSUME Typed, NEW s \in Requests, NEW c \in Channels, Read(s, c)
  PROVE  Typed'
<1> USE DEF Read, Reads, Typed, TypeOK, Progress, process, pipes, history
<1>1. CASE Available(s, c) /\ taken' = [taken EXCEPT ![s][c] = @ + 1]
           /\ Reads(s, c, "sending")
  <2>1. TypeOK'
    <3>1. taken[s][c] + 1 \in 0..MaxOutput
      BY <1>1, StreamBounds DEF Available
    <3>2. taken' \in [Requests -> [Channels -> 0..MaxOutput]]
      BY <1>1, <3>1
    <3>3. reader' \in [Requests -> [Channels -> {"none", "reading", "sending", "done"}]]
      BY <1>1
    <3> QED BY <1>1, <3>2, <3>3
  <2>2. ASSUME NEW r \in Requests PROVE Stands(r)'
    <3>1. CASE r # s
      BY <1>1, <3>1, StandsStill DEF Untouched
    <3>2. CASE r = s
      BY <1>1, <3>2, SMTT(30) DEF Stands, Holds, Streaming, ChannelsOf, Channels, Available
    <3> QED BY <3>1, <3>2
  <2> QED BY <2>1, <2>2
<1>2. CASE Reads(s, c, "done") /\ taken' = taken
  <2>1. TypeOK'
    <3>1. reader' \in [Requests -> [Channels -> {"none", "reading", "sending", "done"}]]
      BY <1>2
    <3> QED BY <1>2, <3>1
  <2>2. ASSUME NEW r \in Requests PROVE Stands(r)'
    <3>1. CASE r # s
      BY <1>2, <3>1, StandsStill DEF Untouched
    <3>2. CASE r = s
      BY <1>2, <3>2 DEF Stands, Holds, Streaming, ChannelsOf, Channels
    <3> QED BY <3>1, <3>2
  <2> QED BY <2>1, <2>2
<1> QED BY <1>1, <1>2

\* A read fails.
LEMMA ReadFailsTyped ==
  ASSUME Typed, NEW s \in Requests, NEW c \in Channels, ReadFails(s, c)
  PROVE  Typed'
<1> USE DEF ReadFails, Reads, Typed, TypeOK, Progress, process, pipes, history
<1>1. TypeOK'
  <2>1. faults' \in 0..MaxFaults
    BY StreamBounds DEF Fault
  <2>2. reader' \in [Requests -> [Channels -> {"none", "reading", "sending", "done"}]]
    OBVIOUS
  <2>3. task' \in [Requests -> {"none", "opening", "reading", "waiting", "end",
                            "failed_end", "done"}]
    OBVIOUS
  <2> QED BY <2>1, <2>2, <2>3
<1>2. ASSUME NEW r \in Requests PROVE Stands(r)'
  <2>1. CASE r # s
    BY <2>1, StandsStill DEF Untouched
  <2>2. CASE r = s
    <3>1. reader'[s] = [reader[s] EXCEPT ![c] = "done"] /\ reader[s][c] = "reading"
          /\ task[s] = "reading" /\ task'[s] \in {"reading", "failed_end"}
          /\ (task'[s] = "failed_end" => kind[s] = "download") /\ Stands(s)
          /\ UNCHANGED <<kind, handler, writers, taken, written>>
      OBVIOUS
    <3>2. reader[s] \in [Channels -> {"none", "reading", "sending", "done"}]
      OBVIOUS
    <3> HIDE DEF ReadFails, TypeOK, Progress
    <3> QED BY <2>2, <3>1, <3>2 DEF Stands, Holds, Streaming, ChannelsOf, Channels
  <2> QED BY <2>1, <2>2
<1> QED BY <1>1, <1>2

\* A reader queues its chunk, or drops it when the connection is lost.
LEMMA SendDataTyped ==
  ASSUME Typed, NEW s \in Requests, NEW c \in Channels, SendData(s, c)
  PROVE  Typed'
<1> USE DEF SendData, Reads, Typed, TypeOK, Progress, process, pipes, history
<1>0. channel' \in Seq(Messages) /\ Len(channel') <= Capacity
      /\ (~connected => channel' = channel)
  <2>1. taken[s][c] \in 1..MaxOutput
    BY StreamBounds DEF Stands, Holds
  <2> QED BY <2>1, Sending, MessageTypes
<1>1. TypeOK'
  <2>1. reader' \in [Requests -> [Channels -> {"none", "reading", "sending", "done"}]]
    OBVIOUS
  <2>2. task' \in [Requests -> {"none", "opening", "reading", "waiting", "end",
                            "failed_end", "done"}]
    OBVIOUS
  <2> QED BY <1>0, <2>1, <2>2
<1>2. ASSUME NEW r \in Requests PROVE Stands(r)'
  <2>1. CASE r # s
    BY <2>1, StandsStill DEF Untouched
  <2>2. CASE r = s
    BY <2>2 DEF Stands, Holds, Streaming, ChannelsOf, Kinds
  <2> QED BY <2>1, <2>2
<1> QED BY <1>0, <1>1, <1>2

\* Both readers are joined.
LEMMA JoinTyped ==
  ASSUME Typed, NEW s \in Requests, Join(s)
  PROVE  Typed'
<1> USE DEF Join, Typed, TypeOK, Progress, process, pipes, history
<1>1. TypeOK'
  OBVIOUS
<1>2. ASSUME NEW r \in Requests PROVE Stands(r)'
  <2>1. CASE r # s
    BY <2>1, StandsStill DEF Untouched
  <2>2. CASE r = s
    BY <2>2 DEF Stands, Holds, Streaming, ChannelsOf, Kinds
  <2> QED BY <2>1, <2>2
<1> QED BY <1>1, <1>2

\* The child is waited for.
LEMMA WaitForChildTyped ==
  ASSUME Typed, NEW s \in Requests, WaitForChild(s)
  PROVE  Typed'
<1> USE DEF WaitForChild, Typed, TypeOK, Progress, process, pipes, history
<1>1. TypeOK'
  OBVIOUS
<1>2. ASSUME NEW r \in Requests PROVE Stands(r)'
  <2>1. CASE r # s
    BY <2>1, StandsStill DEF Untouched
  <2>2. CASE r = s
    BY <2>2 DEF Stands, Holds, Streaming, ChannelsOf, Kinds
  <2> QED BY <2>1, <2>2
<1> QED BY <1>1, <1>2

\* The end of the stream is queued.
LEMMA SendEndTyped ==
  ASSUME Typed, NEW s \in Requests, SendEnd(s)
  PROVE  Typed'
<1> USE DEF SendEnd, Typed, TypeOK, Progress, process, pipes, history
<1>0. channel' \in Seq(Messages) /\ Len(channel') <= Capacity
      /\ (~connected => channel' = channel)
  BY Sending, MessageTypes
<1>1. TypeOK'
  BY <1>0
<1>2. ASSUME NEW r \in Requests PROVE Stands(r)'
  <2>1. CASE r # s
    BY <2>1, StandsStill DEF Untouched
  <2>2. CASE r = s
    BY <2>2 DEF Stands, Holds, Streaming, ChannelsOf, Kinds
  <2> QED BY <2>1, <2>2
<1> QED BY <1>0, <1>1, <1>2

\* A process writes to its pipe.
LEMMA WriteTyped ==
  ASSUME Typed, NEW s \in Requests, NEW c \in Channels,
         NEW w \in {"command", "background"}, Write(s, w, c)
  PROVE  Typed'
<1> USE DEF Write, Typed, TypeOK, Progress, process, pipes, history
<1>1. CASE written' = [written EXCEPT ![s][c] = @ + 1] /\ writers' = writers
  <2>1. TypeOK'
    <3>1. written[s][c] + 1 \in 0..MaxOutput
      BY StreamBounds
    <3>2. written' \in [Requests -> [Channels -> 0..MaxOutput]]
      BY <1>1, <3>1
    <3> QED BY <1>1, <3>2
  <2>2. ASSUME NEW r \in Requests PROVE Stands(r)'
    <3>1. CASE r # s
      BY <1>1, <3>1, StandsStill DEF Untouched
    <3>2. CASE r = s
      BY <1>1, <3>2 DEF Stands, Holds, Streaming
    <3> QED BY <3>1, <3>2
  <2> QED BY <2>1, <2>2
<1>2. CASE writers' = [writers EXCEPT ![s] = @ \ {w}] /\ written' = written
  <2>1. TypeOK'
    BY <1>2
  <2>2. ASSUME NEW r \in Requests PROVE Stands(r)'
    <3>1. CASE r # s
      BY <1>2, <3>1, StandsStill DEF Untouched
    <3>2. CASE r = s
      BY <1>2, <3>2 DEF Stands, Holds, Streaming
    <3> QED BY <3>1, <3>2
  <2> QED BY <2>1, <2>2
<1> QED BY <1>1, <1>2

\* A process exits and closes its pipes.
LEMMA ExitTyped ==
  ASSUME Typed, NEW s \in Requests, NEW w \in {"command", "background"}, Exit(s, w)
  PROVE  Typed'
<1> USE DEF Exit, Typed, TypeOK, Progress, process, pipes, history
<1>1. TypeOK'
  OBVIOUS
<1>2. ASSUME NEW r \in Requests PROVE Stands(r)'
  <2>1. CASE r # s
    BY <2>1, StandsStill DEF Untouched
  <2>2. CASE r = s
    BY <2>2 DEF Stands, Holds, Streaming, ChannelsOf, Kinds
  <2> QED BY <2>1, <2>2
<1> QED BY <1>1, <1>2

\* What is delivered was at the head; the rest moves up by one.
LEMMA Delivery ==
  ASSUME TypeOK, Deliver
  PROVE  /\ channel' \in Seq(Messages) /\ Len(channel') <= Capacity
         /\ DOMAIN channel = 1..Len(channel) /\ Len(channel) \in Nat
         /\ 1 \in DOMAIN channel /\ channel[1] \in Messages
         /\ got' = Receives(channel[1])
         /\ DOMAIN channel' = 1..(Len(channel) - 1)
         /\ \A n \in DOMAIN channel' :
              n + 1 \in DOMAIN channel /\ channel'[n] = channel[n + 1]
<1>1. channel \in Seq(Messages) /\ Len(channel) <= Capacity /\ Capacity \in Nat
      /\ channel # << >>
  BY StreamBounds DEF TypeOK, Deliver
<1>2. DOMAIN channel = 1..Len(channel) /\ Len(channel) \in Nat
  BY <1>1, LenProperties
<1>3. Len(channel) > 0
  BY <1>1, EmptySeq
<1>4. channel[1] \in Messages /\ Head(channel) = channel[1]
  BY <1>1, <1>2, <1>3, ElementOfSeq, HeadTailProperties
<1>5. channel' \in Seq(Messages) /\ Len(channel') = Len(channel) - 1
      /\ \A n \in 1..Len(channel') : channel'[n] = channel[n + 1]
  BY <1>1, HeadTailProperties DEF Deliver
<1>6. DOMAIN channel' = 1..Len(channel')
  BY <1>5, LenProperties
<1> QED BY <1>1, <1>2, <1>3, <1>4, <1>5, <1>6 DEF Deliver

\* What a message changes at the gateway.
LEMMA Receiving ==
  ASSUME TypeOK, NEW m \in Messages, got' = Receives(m)
  PROVE  /\ got' \in [Requests -> [answered : BOOLEAN,
                                   ended : {"no", "end", "failed_end"},
                                   data : [Channels -> 0..MaxOutput]]]
         /\ \A s \in Requests :
              /\ \A c \in Channels : got'[s].data[c] =
                   IF m.what = c /\ m.request = s THEN m.chunk ELSE got[s].data[c]
              /\ got'[s].ended = IF m.what \in Ending /\ m.request = s THEN m.what
                                 ELSE got[s].ended
<1>0. got \in [Requests -> [answered : BOOLEAN, ended : {"no", "end", "failed_end"},
                           data : [Channels -> 0..MaxOutput]]]
  BY DEF TypeOK
<1>1. CASE m = Other
  <2>1. got' = got /\ m.what = "other"
    BY <1>1 DEF Receives, Other, Channels
  <2> QED BY <1>0, <2>1 DEF Channels, Ending
<1>2. CASE m.what \in Channels /\ m # Other
  <2>1. m.request \in Requests /\ m.chunk \in 0..MaxOutput /\ m.what \notin Ending
    BY <1>2, Fields DEF Channels, Ending
  <2>2. got' = [got EXCEPT ![m.request].data[m.what] = m.chunk]
    BY <1>2, <2>1 DEF Receives, Ending
  <2>3. got' \in [Requests -> [answered : BOOLEAN, ended : {"no", "end", "failed_end"},
                            data : [Channels -> 0..MaxOutput]]]
    BY <1>0, <1>2, <2>1, <2>2, SMTT(60)
  <2>4. ASSUME NEW s \in Requests
        PROVE  /\ got'[s].ended = got[s].ended
               /\ \A c \in Channels : got'[s].data[c] =
                    IF m.what = c /\ m.request = s THEN m.chunk ELSE got[s].data[c]
    BY <1>0, <1>2, <2>1, <2>2, SMTT(60)
  <2> QED BY <2>1, <2>3, <2>4
<1>3. CASE m.what \in Ending /\ m # Other
  <2>1. m.request \in Requests /\ m.what \notin Channels
    BY <1>3, Fields DEF Channels, Ending
  <2>2. got' = [got EXCEPT ![m.request].ended = m.what]
    BY <1>3, <2>1 DEF Receives, Ending
  <2>3. got' \in [Requests -> [answered : BOOLEAN, ended : {"no", "end", "failed_end"},
                            data : [Channels -> 0..MaxOutput]]]
    BY <1>0, <1>3, <2>1, <2>2, ZenonT(60) DEF Ending
  <2>4. ASSUME NEW s \in Requests
        PROVE  /\ got'[s].data = got[s].data
               /\ got'[s].ended = IF m.request = s THEN m.what ELSE got[s].ended
    BY <1>0, <2>1, <2>2
  <2> QED BY <1>3, <2>1, <2>3, <2>4
<1>4. CASE m # Other /\ m.what \notin Channels /\ m.what \notin Ending
  <2>1. m.request \in Requests
    BY <1>4, Fields
  <2>2. got' = [got EXCEPT ![m.request].answered = TRUE]
    BY <1>4, <2>1 DEF Receives, Ending
  <2>3. got' \in [Requests -> [answered : BOOLEAN, ended : {"no", "end", "failed_end"},
                            data : [Channels -> 0..MaxOutput]]]
    BY <1>0, <2>1, <2>2
  <2>4. ASSUME NEW s \in Requests
        PROVE  got'[s].data = got[s].data /\ got'[s].ended = got[s].ended
    BY <1>0, <2>1, <2>2
  <2> QED BY <1>4, <2>1, <2>3, <2>4
<1> QED BY <1>1, <1>2, <1>3, <1>4

\* The connection, its sender task, the other tasks and the file.
LEMMA SurroundingsTyped ==
  ASSUME Typed, OtherTraffic \/ Deliver \/ Disconnect \/ ChangeFile
  PROVE  Typed'
<1> USE DEF Typed, Progress, process, pipes, history
<1>1. ASSUME NEW r \in Requests PROVE Stands(r)'
  BY StandsStill DEF Untouched, OtherTraffic, Deliver, Disconnect, ChangeFile
<1>2. ASSUME OtherTraffic PROVE Typed'
  <2>1. channel' \in Seq(Messages) /\ Len(channel') <= Capacity
        /\ (~connected => channel' = channel)
    BY <1>2, Sending DEF OtherTraffic, Messages
  <2> QED BY <1>1, <1>2, <2>1 DEF OtherTraffic, TypeOK
<1>3. ASSUME Deliver PROVE Typed'
  <2>1. channel' \in Seq(Messages) /\ Len(channel') <= Capacity
        /\ channel[1] \in Messages /\ got' = Receives(channel[1])
    BY <1>3, Delivery
  <2>2. TypeOK'
    BY <1>3, <2>1, Receiving DEF Deliver, TypeOK
  <2> QED BY <1>1, <1>3, <2>2 DEF Deliver
<1>4. ASSUME Disconnect PROVE Typed'
  <2>1. channel' \in Seq(Messages) /\ Len(channel') = 0 /\ channel' = << >>
    BY <1>4, EmptySeq DEF Disconnect
  <2>2. Len(channel') <= Capacity
    BY <2>1, StreamBounds
  <2> QED BY <1>1, <1>4, <2>1, <2>2 DEF Disconnect, TypeOK
<1>5. ASSUME ChangeFile PROVE Typed'
  <2>1. file' \in [exists : BOOLEAN, length : 0..MaxOutput]
    BY <1>5 DEF ChangeFile, TypeOK
  <2> QED BY <1>1, <1>5, <2>1 DEF ChangeFile, TypeOK
<1> QED BY <1>2, <1>3, <1>4, <1>5

\* Every step keeps the types and where requests stand.
LEMMA TypedStep ==
  ASSUME Typed, [Next]_vars
  PROVE  Typed'
<1>1. CASE vars' = vars
  BY <1>1 DEF vars, Typed, TypeOK, Progress, Stands, Streaming, Holds, process,
              pipes, history
<1>2. ASSUME NEW s \in Requests, NEW k \in Kinds, Ask(s, k) PROVE Typed'
  BY <1>2, AskTyped
<1>3. ASSUME NEW s \in Requests, Handler(s) \/ CollectFails(s) \/ TimesOut(s)
      PROVE  Typed'
  BY <1>3, BeginTyped, BeginDownloadTyped, CannotBeginTyped, AnswerTyped, CollectTyped,
     CollectedTyped, CollectFailsTyped, TimesOutTyped DEF Handler
<1>4. ASSUME NEW s \in Requests, StreamTask(s) PROVE Typed'
  BY <1>4, OpenFileTyped, JoinTyped, WaitForChildTyped, SendEndTyped DEF StreamTask
<1>5. ASSUME NEW s \in Requests, NEW c \in Channels, Reader(s, c) \/ ReadFails(s, c)
      PROVE  Typed'
  BY <1>5, ReadTyped, SendDataTyped, ReadFailsTyped DEF Reader
<1>6. ASSUME NEW s \in Requests, NEW w \in {"command", "background"},
             Exit(s, w) \/ \E c \in Channels : Write(s, w, c)
      PROVE  Typed'
  BY <1>6, ExitTyped, WriteTyped
<1>7. ASSUME OtherTraffic \/ Deliver \/ Disconnect \/ ChangeFile PROVE Typed'
  BY <1>7, SurroundingsTyped
<1> QED BY <1>1, <1>2, <1>3, <1>4, <1>5, <1>6, <1>7 DEF Next

\* Nothing has been asked for at first.
LEMMA TypedInitially == Init => Typed
<1> SUFFICES ASSUME Init PROVE Typed
  OBVIOUS
<1>1. channel \in Seq(Messages) /\ Len(channel) = 0
  BY EmptySeq DEF Init
<1>2. Nothing \in [Channels -> 0..MaxOutput]
  BY StreamBounds DEF Nothing
<1>3. TypeOK
  BY <1>1, <1>2, StreamBounds DEF Init, TypeOK
<1>4. ASSUME NEW s \in Requests PROVE Stands(s)
  BY DEF Init, Stands, Streaming, Holds, Nothing
<1> QED BY <1>3, <1>4 DEF Typed, Progress, Init

\* Every variable keeps its type; the channel never holds more than its capacity.
THEOREM TypeCorrect == Spec => []TypeOK
<1>1. Typed => TypeOK
  BY DEF Typed
<1> QED BY <1>1, TypedInitially, TypedStep, PTL DEF Spec

-----------------------------------------------------------------------------
(* Chunks arrive in order.                                                 *)

\* What a step leaves of the channel that sends no chunk of a pipe.
NoChunk(s, c) ==
  /\ DOMAIN channel \subseteq DOMAIN channel'
  /\ \A n \in DOMAIN channel' :
       IF n \in DOMAIN channel THEN channel'[n] = channel[n] ELSE ~IsData(n, s, c)'

\* A step that sends nothing of a pipe, and takes nothing from it to be sent.
Quiet(s, c) ==
  /\ NoChunk(s, c)
  /\ got'[s] = got[s] /\ (connected' => connected)
  /\ task'[s] = "none" => task[s] = "none"
  /\ \/ SentUpTo(s, c)' = SentUpTo(s, c) /\ (Streaming(s)' => Streaming(s))
     \/ task[s] = "none" /\ (SentUpTo(s, c)' = 0 \/ ~Streaming(s)')

\* What is quiet for a pipe keeps its chunks chained.
LEMMA QuietChained ==
  ASSUME Typed, NEW s \in Requests, NEW c \in Channels, ChainOf(s, c), Quiet(s, c)
  PROVE  ChainOf(s, c)'
<1>1. DOMAIN channel = 1..Len(channel) /\ Len(channel) \in Nat
  BY LenProperties DEF Typed, TypeOK
<1>2. ASSUME NEW n \in DOMAIN channel', IsData(n, s, c)'
      PROVE  n \in DOMAIN channel /\ IsData(n, s, c) /\ channel'[n] = channel[n]
  BY <1>2 DEF Quiet, NoChunk, IsData
<1>3. ASSUME NEW n \in DOMAIN channel, NEW m \in 1..(n - 1)
      PROVE  m \in DOMAIN channel /\ channel'[m] = channel[m]
  BY <1>1, <1>3 DEF Quiet, NoChunk
<1> QED BY <1>1, <1>2, <1>3 DEF Quiet, NoChunk, ChainOf, IsData

\* A message that is no chunk of a pipe adds none to it.
LEMMA NoChunkSent ==
  ASSUME TypeOK, NEW m \in Messages, Sends(m), NEW s \in Requests, NEW c \in Channels,
         m.what = c => m.request # s
  PROVE  NoChunk(s, c)
BY Sending DEF NoChunk, IsData

\* Every step but SendData and Deliver is quiet for every pipe.
LEMMA QuietSteps ==
  ASSUME Typed, NEW s \in Requests,
         \/ \E k \in Kinds : Ask(s, k)
         \/ Handler(s) \/ CollectFails(s) \/ TimesOut(s) \/ StreamTask(s)
         \/ \E c \in Channels : Read(s, c) \/ ReadFails(s, c)
         \/ \E w \in {"command", "background"} :
              Exit(s, w) \/ \E c \in Channels : Write(s, w, c),
         NEW r \in Requests, NEW d \in Channels
  PROVE  Quiet(r, d)
<1> USE DEF Quiet, Typed, SentUpTo, Holds, Streaming, process, pipes, history
<1>1. ASSUME NEW k \in Kinds, Ask(s, k) PROVE Quiet(r, d)
  BY <1>1 DEF Ask, NoChunk, Reads, TypeOK, Progress, Stands, ChannelsOf
<1>2. ASSUME Begin(s) PROVE Quiet(r, d)
  BY <1>2 DEF Begin, NoChunk, Reads, TypeOK, Progress, Stands, ChannelsOf
<1>3. ASSUME BeginDownload(s) PROVE Quiet(r, d)
  BY <1>3 DEF BeginDownload, NoChunk, Reads, TypeOK, Progress, Stands, ChannelsOf
<1>4. ASSUME CannotBegin(s) PROVE Quiet(r, d)
  BY <1>4 DEF CannotBegin, NoChunk, Reads, TypeOK, Progress, Stands, ChannelsOf
<1>5. ASSUME NEW c \in Channels, Collect(s, c) PROVE Quiet(r, d)
  <2>1. NoChunk(r, d) /\ UNCHANGED <<got, connected, kind, task, reader>>
    BY <1>5 DEF Collect, NoChunk
  <2>2. CASE r = s
    <3>1. task[s] = "none" /\ ~Streaming(s)
      BY <1>5 DEF Collect, Progress, Stands
    <3> QED BY <2>1, <2>2, <3>1
  <2>3. CASE r # s
    BY <1>5, <2>1, <2>3 DEF Collect, TypeOK
  <2> QED BY <2>2, <2>3
<1>6. ASSUME Collected(s) PROVE Quiet(r, d)
  BY <1>6 DEF Collected, NoChunk, Reads, TypeOK, Progress, Stands, ChannelsOf
<1>7. ASSUME CollectFails(s) PROVE Quiet(r, d)
  BY <1>7 DEF CollectFails, NoChunk, Reads, TypeOK, Progress, Stands, ChannelsOf
<1>8. ASSUME TimesOut(s) PROVE Quiet(r, d)
  BY <1>8 DEF TimesOut, NoChunk, Reads, TypeOK, Progress, Stands, ChannelsOf
<1>9. ASSUME OpenFile(s) PROVE Quiet(r, d)
  <2>1. NoChunk(r, d) /\ UNCHANGED <<got, connected, kind, taken>>
    BY <1>9 DEF OpenFile, NoChunk
  <2>2. Holds(r, d)' = Holds(r, d)
    <3>1. CASE file.exists
      <4>1. /\ reader' = [reader EXCEPT ![s]["stdout"] = "reading"]
            /\ reader[s]["stdout"] = "none"
        BY <1>9, <3>1 DEF OpenFile, Reads, Progress, Stands, Channels
      <4> QED BY <4>1 DEF TypeOK
    <3>2. CASE ~file.exists
      BY <1>9, <3>2 DEF OpenFile
    <3> QED BY <3>1, <3>2
  <2>3. task'[r] = "none" => task[r] = "none"
    BY <1>9 DEF OpenFile, TypeOK
  <2> QED BY <2>1, <2>2, <2>3
<1>10. ASSUME Join(s) PROVE Quiet(r, d)
  BY <1>10 DEF Join, NoChunk, Reads, TypeOK, Progress, Stands, ChannelsOf
<1>11. ASSUME WaitForChild(s) PROVE Quiet(r, d)
  BY <1>11 DEF WaitForChild, NoChunk, Reads, TypeOK, Progress, Stands, ChannelsOf
<1>12. ASSUME NEW c \in Channels, Read(s, c) PROVE Quiet(r, d)
  <2>1. NoChunk(r, d) /\ UNCHANGED <<got, connected, kind, task>>
    BY <1>12 DEF Read, NoChunk
  <2>2. SentUpTo(r, d)' = SentUpTo(r, d)
    <3>1. CASE Reads(s, c, "sending") /\ taken' = [taken EXCEPT ![s][c] = @ + 1]
      <4>1. /\ reader' = [reader EXCEPT ![s][c] = "sending"]
            /\ reader[s][c] = "reading" /\ taken[s][c] \in Nat
        BY <1>12, <3>1 DEF Read, Reads, TypeOK
      <4>2. CASE r = s /\ d = c
        BY <3>1, <4>1, <4>2 DEF TypeOK
      <4>3. CASE r # s \/ d # c
        BY <3>1, <4>1, <4>3 DEF TypeOK
      <4> QED BY <4>2, <4>3
    <3>2. CASE Reads(s, c, "done") /\ taken' = taken
      BY <1>12, <3>2 DEF Read, Reads, TypeOK
    <3> QED BY <1>12, <3>1, <3>2 DEF Read
  <2> QED BY <2>1, <2>2
<1>13. ASSUME NEW c \in Channels, ReadFails(s, c) PROVE Quiet(r, d)
  <2>1. NoChunk(r, d) /\ UNCHANGED <<got, connected, kind, taken>>
    BY <1>13 DEF ReadFails, NoChunk
  <2>2. Holds(r, d)' = Holds(r, d)
    <3>1. reader' = [reader EXCEPT ![s][c] = "done"] /\ reader[s][c] = "reading"
      BY <1>13 DEF ReadFails, Reads
    <3> QED BY <3>1 DEF TypeOK
  <2>3. task'[r] = "none" => task[r] = "none"
    BY <1>13 DEF ReadFails, TypeOK
  <2> QED BY <2>1, <2>2, <2>3
<1>14. ASSUME NEW w \in {"command", "background"}, Exit(s, w) PROVE Quiet(r, d)
  BY <1>14 DEF Exit, NoChunk, Reads, TypeOK, Progress, Stands, ChannelsOf
<1>15. ASSUME NEW w \in {"command", "background"}, NEW c \in Channels, Write(s, w, c) PROVE Quiet(r, d)
  BY <1>15 DEF Write, NoChunk, Reads, TypeOK, Progress, Stands, ChannelsOf
<1>16. ASSUME Answer(s) PROVE Quiet(r, d)
  <2>1. NoChunk(r, d)
    BY <1>16, NoChunkSent, MessageTypes DEF Answer, Channels
  <2> QED BY <1>16, <2>1 DEF Answer, TypeOK, Progress, Stands
<1>17. ASSUME SendEnd(s) PROVE Quiet(r, d)
  <2>1. NoChunk(r, d)
    BY <1>17, NoChunkSent, MessageTypes DEF SendEnd, Channels
  <2> QED BY <1>17, <2>1 DEF SendEnd, TypeOK, Progress, Stands
<1> QED BY <1>1, <1>2, <1>3, <1>4, <1>5, <1>6, <1>7, <1>8, <1>9, <1>10, <1>11, <1>12, <1>13, <1>14, <1>15, <1>16, <1>17 DEF Handler, StreamTask

\* Chunks that are sent and delivered keep the order.
LEMMA SendDataChained ==
  ASSUME Typed, Chained, NEW s \in Requests, NEW c \in Channels, SendData(s, c)
  PROVE  Chained'
<1> USE DEF Typed
<1>1. taken[s][c] \in 1..MaxOutput /\ Holds(s, c) /\ task[s] = "reading"
  BY StreamBounds DEF SendData, TypeOK, Progress, Stands, Holds
<1>2. SentUpTo(s, c)' = taken[s][c] /\ SentUpTo(s, c) = taken[s][c] - 1
  BY <1>1 DEF SendData, Reads, pipes, SentUpTo, Holds, TypeOK
<1>3. task'[s] \in {"reading", "failed_end"}
      /\ UNCHANGED <<got, connected, kind>>
      /\ \A r \in Requests : task'[r] = "none" => task[r] = "none"
  BY <1>1 DEF SendData, pipes, history, TypeOK
<1>4. ASSUME NEW r \in Requests, NEW d \in Channels, r # s \/ d # c
      PROVE  ChainOf(r, d)'
  <2>1. NoChunk(r, d)
    BY <1>1, <1>4, NoChunkSent, MessageTypes DEF SendData
  <2>2. SentUpTo(r, d)' = SentUpTo(r, d)
    BY <1>4 DEF SendData, Reads, pipes, SentUpTo, Holds, TypeOK
  <2> QED BY <1>3, <2>1, <2>2, QuietChained DEF Quiet, Chained, Streaming
<1>5. ChainOf(s, c)'
  <2>1. DOMAIN channel = 1..Len(channel) /\ Len(channel) \in Nat
    BY LenProperties DEF TypeOK
  <2>2. CASE connected
    <3>0. PICK last \in Nat : last = Len(channel) + 1
      BY <2>1
    <3> DEFINE new == [request |-> s, what |-> c, chunk |-> taken[s][c]]
    <3>1. /\ channel'[last] = new
          /\ DOMAIN channel' = 1..last /\ DOMAIN channel = 1..(last - 1)
          /\ \A n \in DOMAIN channel : channel'[n] = channel[n]
      <4>1. new \in Messages /\ Sends(new)
        BY <1>1, MessageTypes DEF SendData
      <4> HIDE DEF new
      <4>2. /\ channel'[Len(channel) + 1] = new
            /\ DOMAIN channel' = 1..(Len(channel) + 1)
            /\ \A n \in DOMAIN channel : channel'[n] = channel[n]
        BY <2>2, <4>1, Sending
      <4> QED BY <2>1, <3>0, <4>2
    <3>2. IsData(last, s, c)' /\ channel'[last].chunk = taken[s][c]
      <4>1. new.what = c /\ new.request = s /\ new.chunk = taken[s][c]
        OBVIOUS
      <4> HIDE DEF new
      <4> QED BY <3>1, <4>1 DEF IsData
    <3> HIDE DEF new
    <3>3. ASSUME NEW n \in DOMAIN channel
          PROVE  IsData(n, s, c)' <=> IsData(n, s, c)
      BY <3>1 DEF IsData
    <3>4. ASSUME NEW n \in DOMAIN channel, IsData(n, s, c)
          PROVE  got[s].data[c] < channel[n].chunk /\ channel[n].chunk < taken[s][c]
                 /\ channel[n].chunk \in Nat
      <4>1. channel[n].chunk \in Nat
        BY <3>4, Fields, ElementOfSeq, <2>1 DEF IsData, TypeOK
      <4> QED BY <1>1, <1>2, <3>4, <4>1 DEF Chained, ChainOf
    <3>5. Streaming(s)
      BY <1>1 DEF Progress, Stands
    <3>6. got[s].data[c] \in Nat
      BY DEF TypeOK
    <3>7. \/ taken[s][c] = got[s].data[c] + 1
          \/ \E n \in DOMAIN channel :
               IsData(n, s, c) /\ channel[n].chunk = taken[s][c] - 1
      BY <1>1, <1>2, <2>2, <3>5, <3>6 DEF Chained, ChainOf
    <3>8. got[s].data[c] < taken[s][c]
      BY <1>1, <3>4, <3>6, <3>7
    <3>9. ASSUME NEW n \in DOMAIN channel, IsData(n, s, c)
          PROVE  /\ \A m \in 1..(n - 1) : IsData(m, s, c)' => channel'[m].chunk < channel'[n].chunk
                 /\ \/ channel'[n].chunk = got'[s].data[c] + 1
                    \/ \E m \in 1..(n - 1) :
                         IsData(m, s, c)' /\ channel'[m].chunk = channel'[n].chunk - 1
      <4>1. ChainOf(s, c) /\ got'[s].data[c] = got[s].data[c]
        BY <1>3, <2>1 DEF Chained
      <4>2. /\ channel'[n] = channel[n] /\ n \in Nat
            /\ \A m \in 1..(n - 1) :
                 m \in DOMAIN channel /\ channel'[m] = channel[m]
        BY <3>1
      <4>3. \A m \in 1..(n - 1) : IsData(m, s, c)' <=> IsData(m, s, c)
        BY <3>3, <4>2
      <4>4. /\ \A m \in 1..(n - 1) : IsData(m, s, c) => channel[m].chunk < channel[n].chunk
            /\ \/ channel[n].chunk = got[s].data[c] + 1
               \/ \E m \in 1..(n - 1) :
                    IsData(m, s, c) /\ channel[m].chunk = channel[n].chunk - 1
        BY <3>9, <4>1 DEF ChainOf
      <4> QED BY <4>1, <4>2, <4>3, <4>4
    <3>10. ASSUME NEW n \in DOMAIN channel', IsData(n, s, c)'
           PROVE  /\ got'[s].data[c] < channel'[n].chunk
                  /\ channel'[n].chunk <= SentUpTo(s, c)'
                  /\ \A m \in 1..(n - 1) :
                       IsData(m, s, c)' => channel'[m].chunk < channel'[n].chunk
                  /\ \/ channel'[n].chunk = got'[s].data[c] + 1
                     \/ \E m \in 1..(n - 1) :
                          IsData(m, s, c)' /\ channel'[m].chunk = channel'[n].chunk - 1
      <4>1. CASE n \in DOMAIN channel
        <5>1. IsData(n, s, c) /\ channel'[n] = channel[n]
          BY <3>1, <3>3, <3>10, <4>1
        <5> QED BY <1>1, <1>2, <1>3, <3>4, <3>9, <4>1, <5>1
      <4>2. CASE n = last
        <5>1. 1..(n - 1) = DOMAIN channel
          BY <3>1, <4>2
        <5>2. \A m \in DOMAIN channel : IsData(m, s, c)' => channel'[m].chunk < taken[s][c]
          BY <3>1, <3>3, <3>4
        <5>3. \/ taken[s][c] = got[s].data[c] + 1
              \/ \E m \in DOMAIN channel :
                   IsData(m, s, c)' /\ channel'[m].chunk = taken[s][c] - 1
          BY <3>1, <3>3, <3>7
        <5> QED BY <1>1, <1>2, <1>3, <3>2, <3>8, <4>2, <5>1, <5>2, <5>3
      <4> QED BY <3>0, <3>1, <4>1, <4>2
    <3>11. \E n \in DOMAIN channel' :
             IsData(n, s, c)' /\ channel'[n].chunk = SentUpTo(s, c)'
      BY <1>2, <2>1, <3>0, <3>1, <3>2
    <3>12. task'[s] # "none"
      BY <1>3
    <3> QED BY <3>10, <3>11, <3>12 DEF ChainOf
  <2>3. CASE ~connected
    <3>1. channel' = << >> /\ ~connected'
      BY <1>1, <2>3, Sending, MessageTypes DEF SendData, Progress
    <3> QED BY <1>3, <3>1 DEF ChainOf
  <2> QED BY <2>2, <2>3
<1> QED BY <1>4, <1>5 DEF Chained

\* Delivery takes the first message: the next chunk of its pipe, if it is one.
LEMMA DeliverChained ==
  ASSUME Typed, Chained, Deliver
  PROVE  Chained'
<1> SUFFICES ASSUME NEW s \in Requests, NEW c \in Channels PROVE ChainOf(s, c)'
  BY DEF Chained
<1> USE DEF Typed
<1>1. ChainOf(s, c)
  BY DEF Chained
<1>2. /\ DOMAIN channel = 1..Len(channel) /\ Len(channel) \in Nat
      /\ 1 \in DOMAIN channel /\ channel[1] \in Messages
      /\ DOMAIN channel' = 1..(Len(channel) - 1)
      /\ \A n \in DOMAIN channel' :
           n + 1 \in DOMAIN channel /\ channel'[n] = channel[n + 1]
  BY Delivery
<1>3. got'[s].data[c] = IF IsData(1, s, c) THEN channel[1].chunk ELSE got[s].data[c]
  BY <1>2, Delivery, Receiving DEF IsData
<1>4. UNCHANGED <<connected, task>> /\ SentUpTo(s, c)' = SentUpTo(s, c)
      /\ Streaming(s)' = Streaming(s)
  BY DEF Deliver, process, pipes, SentUpTo, Holds, Streaming
<1>5. \A n \in DOMAIN channel' : IsData(n, s, c)' <=> IsData(n + 1, s, c)
  BY <1>2 DEF IsData
<1>6. ASSUME NEW n \in DOMAIN channel, IsData(n, s, c)
      PROVE  channel[n].chunk \in Nat
  BY <1>2, <1>6, Fields, ElementOfSeq DEF IsData, TypeOK
<1>7. got[s].data[c] \in Nat
  BY DEF TypeOK
<1>8. task[s] = "none" => got'[s].data[c] = 0
  BY <1>1, <1>2, <1>3 DEF ChainOf
<1>9. ASSUME NEW n \in DOMAIN channel', IsData(n, s, c)'
      PROVE  /\ task[s] # "none"
             /\ got'[s].data[c] < channel'[n].chunk
             /\ channel'[n].chunk <= SentUpTo(s, c)
             /\ \A m \in 1..(n - 1) :
                  IsData(m, s, c)' => channel'[m].chunk < channel'[n].chunk
             /\ \/ channel'[n].chunk = got'[s].data[c] + 1
                \/ \E m \in 1..(n - 1) :
                     IsData(m, s, c)' /\ channel'[m].chunk = channel'[n].chunk - 1
  <2>1. n + 1 \in DOMAIN channel /\ IsData(n + 1, s, c) /\ channel'[n] = channel[n + 1]
        /\ n \in Nat /\ n > 0
    BY <1>2, <1>5, <1>9
  <2>2. /\ task[s] # "none"
        /\ got[s].data[c] < channel[n + 1].chunk
        /\ channel[n + 1].chunk <= SentUpTo(s, c)
        /\ \A m \in 1..n : IsData(m, s, c) => channel[m].chunk < channel[n + 1].chunk
        /\ \/ channel[n + 1].chunk = got[s].data[c] + 1
           \/ \E m \in 1..n :
                IsData(m, s, c) /\ channel[m].chunk = channel[n + 1].chunk - 1
    BY <1>1, <2>1 DEF ChainOf
  <2>3. got'[s].data[c] < channel[n + 1].chunk
    BY <1>3, <2>1, <2>2
  <2>4. \A m \in 1..(n - 1) : m + 1 \in 1..n /\ m \in DOMAIN channel'
    BY <1>2, <2>1
  <2>5. \A m \in 1..(n - 1) :
          IsData(m, s, c)' => channel'[m].chunk < channel'[n].chunk
    BY <1>2, <1>5, <2>1, <2>2, <2>4
  <2>6. CASE IsData(1, s, c)
    <3>1. got[s].data[c] < channel[1].chunk
      BY <1>1, <1>2, <2>6 DEF ChainOf
    <3>2. PICK m \in 1..n : IsData(m, s, c) /\ channel[m].chunk = channel[n + 1].chunk - 1
      BY <1>2, <1>3, <1>6, <1>7, <2>1, <2>2, <2>3, <2>6, <3>1, SMTT(60)
    <3>3. CASE m = 1
      BY <1>3, <1>6, <1>2, <2>1, <2>2, <2>3, <2>5, <2>6, <3>2, <3>3
    <3>4. CASE m # 1
      <4>1. m - 1 \in 1..(n - 1) /\ m - 1 \in DOMAIN channel' /\ (m - 1) + 1 = m
        BY <1>2, <2>1, <3>4
      <4>2. IsData(m - 1, s, c)' /\ channel'[m - 1].chunk = channel'[n].chunk - 1
        BY <1>2, <1>5, <2>1, <3>2, <4>1
      <4> QED BY <2>1, <2>2, <2>3, <2>5, <4>1, <4>2
    <3> QED BY <3>3, <3>4
  <2>7. CASE ~IsData(1, s, c)
    <3>1. CASE channel[n + 1].chunk = got[s].data[c] + 1
      BY <1>3, <2>1, <2>2, <2>3, <2>5, <2>7, <3>1
    <3>2. CASE \E m \in 1..n :
                 IsData(m, s, c) /\ channel[m].chunk = channel[n + 1].chunk - 1
      <4>1. PICK m \in 1..n : IsData(m, s, c) /\ channel[m].chunk = channel[n + 1].chunk - 1
        BY <3>2
      <4>2. m - 1 \in 1..(n - 1) /\ m - 1 \in DOMAIN channel' /\ (m - 1) + 1 = m
        BY <1>2, <2>1, <2>7, <4>1
      <4>3. IsData(m - 1, s, c)' /\ channel'[m - 1].chunk = channel'[n].chunk - 1
        BY <1>2, <1>5, <2>1, <4>1, <4>2
      <4> QED BY <2>1, <2>2, <2>3, <2>5, <4>2, <4>3
    <3> QED BY <2>2, <3>1, <3>2
  <2> QED BY <2>6, <2>7
<1>10. ASSUME connected, Streaming(s), SentUpTo(s, c) # got'[s].data[c]
       PROVE  \E n \in DOMAIN channel' :
                IsData(n, s, c)' /\ channel'[n].chunk = SentUpTo(s, c)
  <2>1. CASE \E n \in DOMAIN channel :
               IsData(n, s, c) /\ channel[n].chunk = SentUpTo(s, c)
    <3>1. PICK n \in DOMAIN channel : IsData(n, s, c) /\ channel[n].chunk = SentUpTo(s, c)
      BY <2>1
    <3>2. n # 1
      BY <1>3, <1>10, <3>1
    <3>3. n - 1 \in DOMAIN channel' /\ (n - 1) + 1 = n
      BY <1>2, <3>2
    <3> QED BY <1>2, <1>5, <3>1, <3>3
  <2>2. CASE SentUpTo(s, c) = got[s].data[c]
    <3>1. IsData(1, s, c)
      BY <1>3, <1>10, <2>2
    <3>2. got[s].data[c] < channel[1].chunk /\ channel[1].chunk <= SentUpTo(s, c)
      BY <1>1, <1>2, <3>1 DEF ChainOf
    <3> QED BY <1>2, <1>6, <1>7, <2>2, <3>1, <3>2
  <2> QED BY <1>1, <1>10, <2>1, <2>2 DEF ChainOf
<1> QED BY <1>4, <1>8, <1>9, <1>10 DEF ChainOf

\* Every step keeps the chunks chained.
LEMMA ChainedStep ==
  ASSUME Typed, Chained, [Next]_vars
  PROVE  Chained'
<1>1. CASE vars' = vars
  BY <1>1 DEF vars, Chained, ChainOf, SentUpTo, IsData, Holds, Streaming, process,
              pipes, history
<1>2. ASSUME NEW s \in Requests,
             \/ \E k \in Kinds : Ask(s, k)
             \/ Handler(s) \/ CollectFails(s) \/ TimesOut(s) \/ StreamTask(s)
             \/ \E c \in Channels : Read(s, c) \/ ReadFails(s, c)
             \/ \E w \in {"command", "background"} :
                  Exit(s, w) \/ \E c \in Channels : Write(s, w, c)
      PROVE  Chained'
  <2>1. ASSUME NEW r \in Requests, NEW d \in Channels PROVE ChainOf(r, d)'
    <3>1. Quiet(r, d)
      BY <1>2, QuietSteps
    <3> QED BY <3>1, QuietChained DEF Chained
  <2> QED BY <2>1 DEF Chained
<1>3. ASSUME NEW s \in Requests, NEW c \in Channels, SendData(s, c) PROVE Chained'
  BY <1>3, SendDataChained
<1>4. ASSUME OtherTraffic \/ ChangeFile PROVE Chained'
  <2>1. ASSUME NEW r \in Requests, NEW d \in Channels PROVE ChainOf(r, d)'
    <3>1. CASE ChangeFile
      BY <3>1, QuietChained DEF ChangeFile, Quiet, NoChunk, Chained, SentUpTo, Holds,
         Streaming, process, pipes
    <3>2. CASE OtherTraffic
      <4>1. NoChunk(r, d)
        BY <3>2, NoChunkSent DEF OtherTraffic, Messages, Other, Channels, Typed
      <4> QED BY <3>2, <4>1, QuietChained DEF OtherTraffic, Quiet, Chained, SentUpTo,
                 Holds, Streaming, process, pipes, history
    <3> QED BY <1>4, <3>1, <3>2
  <2> QED BY <2>1 DEF Chained
<1>5. ASSUME Deliver PROVE Chained'
  BY <1>5, DeliverChained
<1>6. ASSUME Disconnect PROVE Chained'
  BY <1>6 DEF Disconnect, Chained, ChainOf, process, pipes, history
<1> QED BY <1>1, <1>2, <1>3, <1>4, <1>5, <1>6 DEF Next, Reader

\* Nothing but Deliver changes what has been received.
LEMMA OnlyDeliverReceives ==
  ASSUME [Next]_vars, got' # got
  PROVE  Deliver
<1> USE DEF process, pipes, history
<1>1. CASE UNCHANGED vars
  BY <1>1 DEF vars
<1>2. ASSUME NEW s \in Requests, \E k \in Kinds : Ask(s, k) PROVE got' = got
  BY <1>2 DEF Ask
<1>3. ASSUME NEW s \in Requests, Handler(s) PROVE got' = got
  BY <1>3 DEF Handler, Begin, BeginDownload, CannotBegin, Answer, Collect, Collected
<1>4. ASSUME NEW s \in Requests, CollectFails(s) \/ TimesOut(s) \/ StreamTask(s)
      PROVE  got' = got
  BY <1>4 DEF CollectFails, TimesOut, StreamTask, OpenFile, Join, WaitForChild, SendEnd
<1>5. ASSUME NEW s \in Requests, NEW c \in Channels, Reader(s, c) \/ ReadFails(s, c)
      PROVE  got' = got
  BY <1>5 DEF Reader, Read, SendData, ReadFails
<1>6. ASSUME NEW s \in Requests, NEW w \in {"command", "background"},
             Exit(s, w) \/ \E c \in Channels : Write(s, w, c)
      PROVE  got' = got
  BY <1>6 DEF Exit, Write
<1>7. ASSUME OtherTraffic \/ Disconnect \/ ChangeFile PROVE got' = got
  BY <1>7 DEF OtherTraffic, Disconnect, ChangeFile
<1> QED BY <1>1, <1>2, <1>3, <1>4, <1>5, <1>6, <1>7 DEF Next

\* There are none at first.
LEMMA ChainedInitially == Init => Chained
BY DEF Init, Chained, ChainOf, SentUpTo, Holds, Nothing, Streaming

\* Chunks come in the order they were written, none twice and none left out.
THEOREM ChunksInOrder == Spec => InOrder
<1>1. ASSUME Typed, Chained, [Next]_vars
      PROVE  [\A s \in Requests, c \in Channels :
                got'[s].data[c] # got[s].data[c]
                  => got'[s].data[c] = got[s].data[c] + 1]_vars
  <2>1. ASSUME NEW s \in Requests, NEW c \in Channels, got'[s].data[c] # got[s].data[c]
        PROVE  got'[s].data[c] = got[s].data[c] + 1
    <3>1. Deliver
      BY <1>1, <2>1, OnlyDeliverReceives
    <3>2. 1 \in DOMAIN channel /\ channel[1] \in Messages /\ got' = Receives(channel[1])
      BY <1>1, <3>1, Delivery DEF Typed
    <3>3. IsData(1, s, c) /\ got'[s].data[c] = channel[1].chunk
      BY <1>1, <2>1, <3>2, Receiving DEF Typed, IsData
    <3>4. ~\E m \in 1..(1 - 1) : IsData(m, s, c)
      OBVIOUS
    <3> QED BY <1>1, <3>2, <3>3, <3>4 DEF Chained, ChainOf
  <2> QED BY <2>1
<1>2. Init /\ [][Next]_vars => [](Typed /\ Chained)
  BY TypedInitially, ChainedInitially, TypedStep, ChainedStep, PTL
<1> QED BY <1>1, <1>2, PTL DEF Spec, InOrder

-----------------------------------------------------------------------------
(* Nothing of a stream comes after its end.                                *)

\* A step that sends nothing of a stream, or only what is neither a chunk nor an end.
Unsent(s) ==
  /\ DOMAIN channel \subseteq DOMAIN channel'
  /\ \A n \in DOMAIN channel' :
       IF n \in DOMAIN channel THEN channel'[n] = channel[n]
       ELSE ~IsEnd(n, s)' /\ \A c \in Channels : ~IsData(n, s, c)'
  /\ got'[s] = got[s]
  /\ task[s] = "done" => task'[s] = "done"

\* What sends neither a chunk nor an end keeps the end last.
LEMMA UnsentEndsBehind ==
  ASSUME NEW s \in Requests, EndOf(s), Unsent(s)
  PROVE  EndOf(s)'
<1>1. ASSUME NEW n \in DOMAIN channel', IsEnd(n, s)' \/ \E c \in Channels : IsData(n, s, c)'
      PROVE  n \in DOMAIN channel /\ channel'[n] = channel[n]
  BY <1>1 DEF Unsent
<1> QED BY <1>1 DEF Unsent, EndOf, IsEnd, IsData

\* A task that is done stays so.
LEMMA DoneStays ==
  ASSUME Typed, [Next]_vars, NEW s \in Requests, task[s] = "done"
  PROVE  task'[s] = "done"
<1> USE DEF process, Typed
<1>1. CASE UNCHANGED vars
  BY <1>1 DEF vars
<1>2. ASSUME NEW r \in Requests, \E k \in Kinds : Ask(r, k) PROVE task'[s] = "done"
  BY <1>2 DEF Ask
<1>3. ASSUME NEW r \in Requests, Handler(r) PROVE task'[s] = "done"
  BY <1>3 DEF Handler, Begin, BeginDownload, CannotBegin, Answer, Collect, Collected,
              TypeOK, Progress, Stands
<1>4. ASSUME NEW r \in Requests, CollectFails(r) \/ TimesOut(r) \/ StreamTask(r)
      PROVE  task'[s] = "done"
  BY <1>4 DEF CollectFails, TimesOut, StreamTask, OpenFile, Join, WaitForChild, SendEnd,
              TypeOK
<1>5. ASSUME NEW r \in Requests, NEW c \in Channels, Reader(r, c) \/ ReadFails(r, c)
      PROVE  task'[s] = "done"
  BY <1>5 DEF Reader, Read, SendData, ReadFails, TypeOK, Progress, Stands, Holds
<1>6. ASSUME NEW r \in Requests, NEW w \in {"command", "background"},
             Exit(r, w) \/ \E c \in Channels : Write(r, w, c)
      PROVE  task'[s] = "done"
  BY <1>6 DEF Exit, Write
<1>7. ASSUME OtherTraffic \/ Deliver \/ Disconnect \/ ChangeFile PROVE task'[s] = "done"
  BY <1>7 DEF OtherTraffic, Deliver, Disconnect, ChangeFile
<1> QED BY <1>1, <1>2, <1>3, <1>4, <1>5, <1>6, <1>7 DEF Next

\* What the channel is left with by a step that sends nothing about a stream.
LEMMA SentElsewhere ==
  ASSUME TypeOK, NEW m \in Messages, Sends(m), got' = got, NEW s \in Requests,
         m.what \in Channels \cup Ending => m.request # s,
         task[s] = "done" => task'[s] = "done"
  PROVE  Unsent(s)
BY Sending DEF Unsent, IsEnd, IsData

\* An end is queued when no reader has anything left to send.
LEMMA SendEndBehind ==
  ASSUME Typed, EndsBehind, NEW s \in Requests, SendEnd(s)
  PROVE  EndsBehind'
<1> USE DEF Typed
<1>1. task[s] \in Ending /\ Sends([request |-> s, what |-> task[s]]) /\ got' = got
      /\ [request |-> s, what |-> task[s]] \in Messages
      /\ task' = [task EXCEPT ![s] = "done"]
  BY MessageTypes DEF SendEnd, Ending, history
<1>2. ASSUME NEW r \in Requests, r # s PROVE EndOf(r)'
  <2>1. Unsent(r)
    BY <1>1, <1>2, SentElsewhere DEF TypeOK
  <2> QED BY <2>1, UnsentEndsBehind DEF EndsBehind
<1>3. EndOf(s)'
  <2>1. task'[s] = "done" /\ task[s] # "done"
    BY <1>1 DEF Ending, TypeOK
  <2>2. got'[s].ended = "no" /\ \A n \in DOMAIN channel : ~IsEnd(n, s)
    BY <1>1, <2>1 DEF EndsBehind, EndOf
  <2>3. CASE connected
    <3>1. PICK m \in Messages : m = [request |-> s, what |-> task[s]]
      BY <1>1
    <3>2. m.what \notin Channels
      BY <1>1, <3>1 DEF Channels, Ending
    <3>3. /\ Len(channel) \in Nat /\ channel'[Len(channel) + 1] = m
          /\ DOMAIN channel' = 1..(Len(channel) + 1) /\ DOMAIN channel = 1..Len(channel)
          /\ \A n \in DOMAIN channel : channel'[n] = channel[n]
      BY <1>1, <2>3, <3>1, Sending
    <3>4. ASSUME NEW n \in DOMAIN channel', IsEnd(n, s)' PROVE n = Len(channel) + 1
      BY <2>2, <3>3, <3>4 DEF IsEnd
    <3>5. ASSUME NEW n \in DOMAIN channel', NEW c \in Channels, IsData(n, s, c)'
          PROVE  n < Len(channel) + 1
      BY <3>2, <3>3, <3>5 DEF IsData
    <3> QED BY <2>1, <2>2, <3>4, <3>5 DEF EndOf
  <2>4. CASE ~connected
    <3>1. channel' = << >>
      BY <1>1, <2>4, Sending DEF Progress
    <3> QED BY <2>1, <2>2, <3>1 DEF EndOf
  <2> QED BY <2>3, <2>4
<1> QED BY <1>2, <1>3 DEF EndsBehind

\* Delivery keeps the order.
LEMMA DeliverEndsBehind ==
  ASSUME Typed, EndsBehind, Deliver
  PROVE  EndsBehind'
<1> SUFFICES ASSUME NEW s \in Requests PROVE EndOf(s)'
  BY DEF EndsBehind
<1>1. EndOf(s) /\ task' = task
  BY DEF EndsBehind, Deliver, process
<1>2. /\ DOMAIN channel = 1..Len(channel) /\ Len(channel) \in Nat
      /\ 1 \in DOMAIN channel /\ channel[1] \in Messages
      /\ DOMAIN channel' = 1..(Len(channel) - 1)
      /\ \A n \in DOMAIN channel' :
           n + 1 \in DOMAIN channel /\ channel'[n] = channel[n + 1]
  BY Delivery DEF Typed
<1>3. got'[s].ended = IF IsEnd(1, s) THEN channel[1].what ELSE got[s].ended
  BY <1>2, Delivery, Receiving DEF IsEnd, Typed
<1>4. \A n \in DOMAIN channel' :
        /\ IsEnd(n, s)' <=> IsEnd(n + 1, s)
        /\ \A c \in Channels : IsData(n, s, c)' <=> IsData(n + 1, s, c)
  BY <1>2 DEF IsEnd, IsData
<1>5. ASSUME NEW n \in DOMAIN channel', IsEnd(n, s)'
      PROVE  /\ task[s] = "done"
             /\ \A m \in DOMAIN channel' : IsEnd(m, s)' => m = n
             /\ \A m \in DOMAIN channel', c \in Channels : IsData(m, s, c)' => m < n
  <2>1. n + 1 \in DOMAIN channel /\ IsEnd(n + 1, s)
    BY <1>2, <1>4, <1>5
  <2>2. \A m \in DOMAIN channel' : IsEnd(m, s)' => m + 1 = n + 1
    BY <1>1, <1>2, <1>4, <2>1 DEF EndOf
  <2>3. \A m \in DOMAIN channel', c \in Channels : IsData(m, s, c)' => m + 1 < n + 1
    BY <1>1, <1>2, <1>4, <2>1 DEF EndOf
  <2> QED BY <1>1, <1>2, <2>1, <2>2, <2>3 DEF EndOf
<1>6. ASSUME got'[s].ended # "no"
      PROVE  /\ task[s] = "done"
             /\ \A m \in DOMAIN channel' : ~IsEnd(m, s)'
             /\ \A m \in DOMAIN channel', c \in Channels : ~IsData(m, s, c)'
  <2>1. CASE IsEnd(1, s)
    BY <1>1, <1>2, <1>4, <2>1 DEF EndOf
  <2>2. CASE ~IsEnd(1, s)
    BY <1>1, <1>2, <1>3, <1>4, <1>6, <2>2 DEF EndOf
  <2> QED BY <2>1, <2>2
<1> QED BY <1>1, <1>5, <1>6 DEF EndOf

\* Every step keeps the end last.
LEMMA EndsBehindStep ==
  ASSUME Typed, EndsBehind, [Next]_vars
  PROVE  EndsBehind'
<1> USE DEF process, pipes, history
<1>1. \A s \in Requests : task[s] = "done" => task'[s] = "done"
  BY DoneStays
<1>2. ASSUME UNCHANGED <<channel, got>> PROVE EndsBehind'
  <2>1. \A s \in Requests : Unsent(s)
    BY <1>1, <1>2 DEF Unsent
  <2> QED BY <2>1, UnsentEndsBehind DEF EndsBehind
<1>3. CASE UNCHANGED vars
  BY <1>2, <1>3 DEF vars
<1>4. ASSUME NEW s \in Requests,
             \/ \E k \in Kinds : Ask(s, k)
             \/ Begin(s) \/ BeginDownload(s) \/ CannotBegin(s) \/ Collected(s)
             \/ \E c \in Channels : Collect(s, c)
             \/ CollectFails(s) \/ TimesOut(s)
             \/ OpenFile(s) \/ Join(s) \/ WaitForChild(s)
             \/ \E c \in Channels : Read(s, c) \/ ReadFails(s, c)
      PROVE  EndsBehind'
  BY <1>2, <1>4 DEF Ask, Begin, BeginDownload, CannotBegin, Collected, Collect,
     CollectFails, TimesOut, OpenFile, Join, WaitForChild, Read, ReadFails
<1>5. ASSUME NEW s \in Requests, NEW w \in {"command", "background"},
             Exit(s, w) \/ \E c \in Channels : Write(s, w, c)
      PROVE  EndsBehind'
  BY <1>2, <1>5 DEF Exit, Write
<1>6. ASSUME NEW s \in Requests, Answer(s) PROVE EndsBehind'
  <2>1. PICK m \in Messages : m = [request |-> s, what |-> handler[s]]
    BY <1>6, MessageTypes DEF Answer
  <2>2. Sends(m) /\ got' = got /\ m.what \notin Channels \cup Ending
    BY <1>6, <2>1 DEF Answer, Channels, Ending
  <2>3. \A r \in Requests : Unsent(r)
    BY <1>1, <2>2, SentElsewhere DEF Typed
  <2> QED BY <2>3, UnsentEndsBehind DEF EndsBehind
<1>7. ASSUME OtherTraffic PROVE EndsBehind'
  <2>1. Other \in Messages /\ Other.what \notin Channels \cup Ending
    BY DEF Messages, Other, Channels, Ending
  <2>2. \A r \in Requests : Unsent(r)
    BY <1>1, <1>7, <2>1, SentElsewhere DEF Typed, OtherTraffic
  <2> QED BY <2>2, UnsentEndsBehind DEF EndsBehind
<1>8. ASSUME NEW s \in Requests, NEW c \in Channels, SendData(s, c) PROVE EndsBehind'
  <2>1. taken[s][c] \in 1..MaxOutput /\ task[s] = "reading"
    BY <1>8, StreamBounds DEF SendData, Typed, TypeOK, Progress, Stands, Holds
  <2>2. PICK m \in Messages : m = [request |-> s, what |-> c, chunk |-> taken[s][c]]
    BY <2>1, MessageTypes
  <2>3. Sends(m) /\ got' = got /\ m.what = c /\ m.request = s
    BY <1>8, <2>2 DEF SendData
  <2>4. ASSUME NEW r \in Requests, r # s PROVE EndOf(r)'
    <3>1. Unsent(r)
      BY <1>1, <2>3, <2>4, SentElsewhere DEF Typed
    <3> QED BY <3>1, UnsentEndsBehind DEF EndsBehind
  <2>5. got[s].ended = "no" /\ \A n \in DOMAIN channel : ~IsEnd(n, s)
    BY <2>1 DEF EndsBehind, EndOf
  <2>6. \A n \in DOMAIN channel' : ~IsEnd(n, s)'
    BY <2>3, <2>5, Sending DEF IsEnd, Channels, Ending, Typed
  <2> QED BY <2>3, <2>4, <2>5, <2>6 DEF EndsBehind, EndOf
<1>9. ASSUME NEW s \in Requests, SendEnd(s) PROVE EndsBehind'
  BY <1>9, SendEndBehind
<1>10. ASSUME Deliver PROVE EndsBehind'
  BY <1>10, DeliverEndsBehind
<1>11. ASSUME Disconnect PROVE EndsBehind'
  BY <1>11 DEF Disconnect, EndsBehind, EndOf
<1>12. ASSUME ChangeFile PROVE EndsBehind'
  BY <1>2, <1>12 DEF ChangeFile
<1> QED BY <1>3, <1>4, <1>5, <1>6, <1>7, <1>8, <1>9, <1>10, <1>11, <1>12
        DEF Next, Handler, StreamTask, Reader

\* There is none at first.
LEMMA EndsBehindInitially == Init => EndsBehind
BY DEF Init, EndsBehind, EndOf

\* Nothing of a stream comes after its end: when stream.end is sent, no reader
\* has a chunk in its hands or will read another one.
THEOREM EndComesLast == Spec => EndIsLast
<1>1. ASSUME Typed, EndsBehind, [Next]_vars
      PROVE  [\A s \in Requests :
                got[s].ended # "no" => got'[s].data = got[s].data]_vars
  <2>1. ASSUME NEW s \in Requests, got[s].ended # "no"
        PROVE  got'[s].data = got[s].data
    <3>1. CASE Deliver
      <4>1. 1 \in DOMAIN channel /\ channel[1] \in Messages /\ got' = Receives(channel[1])
        BY <1>1, <3>1, Delivery DEF Typed
      <4>2. \A c \in Channels : ~IsData(1, s, c)
        BY <1>1, <2>1, <4>1 DEF EndsBehind, EndOf
      <4>3. \A c \in Channels : got'[s].data[c] = got[s].data[c]
        BY <1>1, <4>1, <4>2, Receiving DEF Typed, IsData
      <4>4. /\ got[s].data \in [Channels -> 0..MaxOutput]
            /\ got'[s].data \in [Channels -> 0..MaxOutput]
        BY <1>1, <4>1, Receiving DEF Typed, TypeOK
      <4> QED BY <4>3, <4>4
    <3>2. CASE got' = got
      BY <3>2
    <3> QED BY <1>1, <3>1, <3>2, OnlyDeliverReceives
  <2> QED BY <2>1
<1>2. Init /\ [][Next]_vars => [](Typed /\ EndsBehind)
  BY TypedInitially, EndsBehindInitially, TypedStep, EndsBehindStep, PTL
<1> QED BY <1>1, <1>2, PTL DEF Spec, EndIsLast

-----------------------------------------------------------------------------
(* A stream that has ended was complete.                                   *)

\* A step that does nothing for a request, and sends no end of its stream.
NoEndSent(s) ==
  \A n \in DOMAIN channel' : channel'[n].what = "end" /\ channel'[n].request = s =>
    \E m \in DOMAIN channel : channel[m] = channel'[n]

\* A step that does nothing for a request, nor undoes what it relies on.
Undisturbed(s) ==
  /\ Untouched(s) /\ size'[s] = size[s] /\ got'[s] = got[s]
  /\ (connected' => connected) /\ NoEndSent(s)
  /\ s \in faulty' <=> s \in faulty
  /\ s \in changed => s \in changed'
  /\ \/ file' = file \/ s \in changed'
     \/ kind[s] # "download" \/ task[s] = "none"

\* What a request has drained it has drained after such a step.
LEMMA UndisturbedDrained ==
  ASSUME NEW s \in Requests, DrainOf(s), Undisturbed(s)
  PROVE  DrainOf(s)'
<1> USE DEF Undisturbed, Untouched, Streaming
<1>1. Announced(s)' /\ ReadersDrain(s)'
  BY DEF DrainOf, Announced, ReadersDrain
<1>2. Drained(s) => Drained(s)'
  BY DEF Drained
<1>3. EndsDrained(s)'
  BY <1>2 DEF DrainOf, EndsDrained, NoEndSent
<1> QED BY <1>1, <1>3 DEF DrainOf

\* Before the end is sent only the readers matter.
LEMMA BeforeTheEnd ==
  ASSUME NEW s \in Requests, EndsBehind',
         task'[s] \notin {"waiting", "end", "done"}, Announced(s)', ReadersDrain(s)'
  PROVE  DrainOf(s)'
BY DEF DrainOf, EndsDrained, EndsBehind, EndOf, IsEnd, Ending

\* A message that is no end of this stream adds none.
LEMMA SendingNoEnd ==
  ASSUME TypeOK, NEW m \in Messages, Sends(m), NEW s \in Requests,
         m.what = "end" => m.request # s
  PROVE  NoEndSent(s)
BY Sending DEF NoEndSent

\* Requests do nothing for each other.
LEMMA OthersUndisturbed ==
  ASSUME Typed, NEW s \in Requests, NEW r \in Requests, r # s,
         \/ \E k \in Kinds : Ask(s, k)
         \/ Handler(s) \/ CollectFails(s) \/ TimesOut(s) \/ StreamTask(s)
         \/ \E c \in Channels : Reader(s, c) \/ ReadFails(s, c)
         \/ \E w \in {"command", "background"} :
              Exit(s, w) \/ \E c \in Channels : Write(s, w, c)
  PROVE  Undisturbed(r)
<1> USE DEF process, pipes, history, Typed, TypeOK, Undisturbed, Untouched
<1>1. ASSUME NEW k \in Kinds, Ask(s, k) PROVE Undisturbed(r)
  BY <1>1 DEF Ask, NoEndSent
<1>2. ASSUME Begin(s) PROVE Undisturbed(r)
  BY <1>2 DEF Begin, NoEndSent, Spawns
<1>3. ASSUME BeginDownload(s) PROVE Undisturbed(r)
  BY <1>3 DEF BeginDownload, NoEndSent
<1>4. ASSUME CannotBegin(s) PROVE Undisturbed(r)
  BY <1>4 DEF CannotBegin, NoEndSent
<1>5. ASSUME NEW c \in Channels, Collect(s, c) PROVE Undisturbed(r)
  BY <1>5 DEF Collect, NoEndSent
<1>6. ASSUME Collected(s) PROVE Undisturbed(r)
  BY <1>6 DEF Collected, NoEndSent
<1>7. ASSUME CollectFails(s) PROVE Undisturbed(r)
  BY <1>7 DEF CollectFails, NoEndSent
<1>8. ASSUME TimesOut(s) PROVE Undisturbed(r)
  BY <1>8 DEF TimesOut, NoEndSent
<1>9. ASSUME OpenFile(s) PROVE Undisturbed(r)
  BY <1>9 DEF OpenFile, NoEndSent, Reads
<1>10. ASSUME Join(s) PROVE Undisturbed(r)
  BY <1>10 DEF Join, NoEndSent
<1>11. ASSUME WaitForChild(s) PROVE Undisturbed(r)
  BY <1>11 DEF WaitForChild, NoEndSent
<1>12. ASSUME NEW c \in Channels, Read(s, c) PROVE Undisturbed(r)
  BY <1>12 DEF Read, NoEndSent, Reads
<1>13. ASSUME NEW c \in Channels, ReadFails(s, c) PROVE Undisturbed(r)
  BY <1>13 DEF ReadFails, NoEndSent, Reads
<1>14. ASSUME NEW w \in {"command", "background"}, Exit(s, w) PROVE Undisturbed(r)
  BY <1>14 DEF Exit, NoEndSent
<1>15. ASSUME NEW w \in {"command", "background"}, NEW c \in Channels, Write(s, w, c) PROVE Undisturbed(r)
  BY <1>15 DEF Write, NoEndSent
<1>16. ASSUME Answer(s) PROVE Undisturbed(r)
  <2>1. NoEndSent(r)
    BY <1>16, SendingNoEnd, MessageTypes DEF Answer
  <2> QED BY <1>16, <2>1 DEF Answer
<1>17. ASSUME SendEnd(s) PROVE Undisturbed(r)
  <2>1. NoEndSent(r)
    BY <1>17, SendingNoEnd, MessageTypes DEF SendEnd
  <2> QED BY <1>17, <2>1 DEF SendEnd
<1>18. ASSUME NEW c \in Channels, SendData(s, c) PROVE Undisturbed(r)
  <2>0. taken[s][c] \in 1..MaxOutput
    BY <1>18, StreamBounds DEF SendData, Progress, Stands, Holds
  <2>1. NoEndSent(r)
    <3>1. PICK m \in Messages : m = [request |-> s, what |-> c, chunk |-> taken[s][c]]
      BY <2>0, MessageTypes
    <3> QED BY <1>18, <3>1, SendingNoEnd DEF SendData
  <2> QED BY <1>18, <2>1 DEF SendData, Reads
<1> QED BY <1>1, <1>2, <1>3, <1>4, <1>5, <1>6, <1>7, <1>8, <1>9, <1>10, <1>11, <1>12, <1>13, <1>14, <1>15, <1>16, <1>17, <1>18
        DEF Handler, StreamTask, Reader

\* A request that has not come to its end.
LEMMA StartsDrained ==
  ASSUME Typed, Typed', EndsBehind, EndsBehind', NEW s \in Requests, DrainOf(s),
         \/ \E k \in Kinds : Ask(s, k)
         \/ Begin(s) \/ BeginDownload(s) \/ CannotBegin(s) \/ Collected(s)
         \/ \E c \in Channels : Collect(s, c)
         \/ CollectFails(s) \/ TimesOut(s)
  PROVE  DrainOf(s)'
<1> USE DEF process, pipes, history, Typed, TypeOK, Progress, Stands
<1>1. ASSUME NEW k \in Kinds, Ask(s, k) PROVE DrainOf(s)'
  <2>1. /\ handler[s] = "idle" /\ task' = task /\ reader' = reader /\ taken' = taken
    BY <1>1 DEF Ask
  <2>2. task[s] = "none" /\ \A c \in Channels : reader[s][c] = "none"
    BY <2>1
  <2> HIDE DEF Typed, TypeOK, Progress, Stands
  <2> QED BY <2>1, <2>2, BeforeTheEnd DEF Announced, ReadersDrain
<1>2. ASSUME Begin(s) PROVE DrainOf(s)'
  BY <1>2, BeforeTheEnd DEF Begin, Announced, ReadersDrain
<1>3. ASSUME BeginDownload(s) PROVE DrainOf(s)'
  <2>1. /\ task'[s] = "opening" /\ size'[s] = file.length /\ file' = file
        /\ file.length \in Nat /\ UNCHANGED <<reader, taken>>
    BY <1>3, StreamBounds DEF BeginDownload
  <2>2. \A c \in Channels : reader[s][c] = "none" /\ taken[s][c] = 0
    BY <1>3 DEF BeginDownload
  <2>3. taken[s]["stdout"] = 0
    BY <2>2 DEF Channels
  <2> HIDE DEF Typed, TypeOK, Progress, Stands
  <2> QED BY <2>1, <2>2, <2>3, BeforeTheEnd DEF Announced, ReadersDrain
<1>4. ASSUME CannotBegin(s) PROVE DrainOf(s)'
  <2>1. /\ handler[s] = "new" /\ task' = task /\ reader' = reader /\ taken' = taken
    BY <1>4 DEF CannotBegin
  <2>2. task[s] = "none" /\ \A c \in Channels : reader[s][c] = "none"
    BY <2>1
  <2> HIDE DEF Typed, TypeOK, Progress, Stands
  <2> QED BY <2>1, <2>2, BeforeTheEnd DEF Announced, ReadersDrain
<1>5. ASSUME Collected(s) PROVE DrainOf(s)'
  BY <1>5, BeforeTheEnd DEF Collected, Announced, ReadersDrain, Streaming
<1>6. ASSUME NEW c \in Channels, Collect(s, c) PROVE DrainOf(s)'
  BY <1>6, BeforeTheEnd DEF Collect, Announced, ReadersDrain, Streaming
<1>7. ASSUME CollectFails(s) PROVE DrainOf(s)'
  BY <1>7, BeforeTheEnd DEF CollectFails, Announced, ReadersDrain, Streaming
<1>8. ASSUME TimesOut(s) PROVE DrainOf(s)'
  BY <1>8, BeforeTheEnd DEF TimesOut, Announced, ReadersDrain, Streaming
<1> QED BY <1>1, <1>2, <1>3, <1>4, <1>5, <1>6, <1>7, <1>8

\* The readers, what they read, and the task that waits for them.
LEMMA ReadsDrained ==
  ASSUME Typed, Typed', EndsBehind, EndsBehind', NEW s \in Requests, DrainOf(s),
         \/ OpenFile(s) \/ Join(s) \/ WaitForChild(s)
         \/ \E c \in Channels : Read(s, c) \/ SendData(s, c) \/ ReadFails(s, c)
         \/ \E w \in {"command", "background"} :
              Exit(s, w) \/ \E c \in Channels : Write(s, w, c)
  PROVE  DrainOf(s)'
<1> USE DEF process, pipes, history, Typed, TypeOK, Progress, Stands
<1>1. ASSUME OpenFile(s) PROVE DrainOf(s)'
  <2>1. task'[s] \in {"reading", "failed_end"} /\ task[s] = "opening"
    BY <1>1 DEF OpenFile
  <2>2. UNCHANGED <<connected, kind, faulty, writers, written, size, file, changed, taken>>
    BY <1>1 DEF OpenFile
  <2>3. \A c \in Channels : reader'[s][c] # "done"
    <3>1. CASE file.exists
      <4>1. reader' = [reader EXCEPT ![s]["stdout"] = "reading"]
        BY <1>1, <3>1 DEF OpenFile, Reads
      <4>2. reader[s] \in [Channels -> {"none", "reading", "sending", "done"}]
            /\ \A c \in Channels : reader[s][c] = "none"
        BY <2>1
      <4>3. reader'[s] = [reader[s] EXCEPT !["stdout"] = "reading"]
        BY <4>1
      <4> HIDE DEF Typed, TypeOK, Progress, Stands
      <4> QED BY <4>2, <4>3
    <3>2. CASE ~file.exists
      BY <1>1, <2>1, <3>2 DEF OpenFile
    <3> QED BY <3>1, <3>2
  <2> HIDE DEF Typed, TypeOK, Progress, Stands
  <2>4. Announced(s)' /\ ReadersDrain(s)'
    BY <2>1, <2>2, <2>3 DEF Announced, ReadersDrain, DrainOf
  <2> QED BY <2>1, <2>4, BeforeTheEnd
<1>2. ASSUME NEW c \in Channels, Read(s, c) PROVE DrainOf(s)'
  <2>1. task'[s] = "reading" /\ task[s] = "reading" /\ reader[s][c] = "reading"
        /\ UNCHANGED <<connected, kind, faulty, writers, written, size, file, changed>>
    BY <1>2 DEF Read
  <2>2. CASE Available(s, c) /\ taken' = [taken EXCEPT ![s][c] = @ + 1]
             /\ Reads(s, c, "sending")
    <3>0. kind[s] = "download" => c = "stdout"
      <4>1. c \in ChannelsOf(kind[s])
        BY <2>1
      <4> HIDE DEF Typed, TypeOK, Progress, Stands
      <4> QED BY <4>1 DEF ChannelsOf, Channels
    <3>1. /\ taken[s][c] \in Nat /\ taken'[s][c] = taken[s][c] + 1
          /\ \A d \in Channels : d # c =>
               taken'[s][d] = taken[s][d] /\ reader'[s][d] = reader[s][d]
          /\ reader'[s][c] = "sending" /\ file.length \in Nat
          /\ kind[s] = "download" => c = "stdout"
      BY <2>1, <2>2, <3>0, StreamBounds, SMTT(30) DEF Reads
    <3> HIDE DEF Typed, TypeOK, Progress, Stands
    <3>2. Announced(s)'
      BY <2>1, <2>2, <3>1 DEF Announced, DrainOf, Available
    <3>3. ReadersDrain(s)'
      BY <2>1, <2>2, <3>1 DEF ReadersDrain, DrainOf, Streaming
    <3> QED BY <2>1, <3>2, <3>3, BeforeTheEnd
  <2>3. CASE AtEnd(s, c) /\ taken' = taken /\ Reads(s, c, "done")
    <3>0. kind[s] = "download" => c = "stdout"
      <4>1. c \in ChannelsOf(kind[s])
        BY <2>1
      <4> HIDE DEF Typed, TypeOK, Progress, Stands
      <4> QED BY <4>1 DEF ChannelsOf, Channels
    <3>1. /\ taken[s][c] \in Nat /\ size[s] \in Nat /\ reader'[s][c] = "done"
          /\ \A d \in Channels : d # c => reader'[s][d] = reader[s][d]
          /\ kind[s] = "download" => c = "stdout"
      BY <2>1, <2>3, <3>0, StreamBounds DEF Reads
    <3> HIDE DEF Typed, TypeOK, Progress, Stands
    <3>2. Announced(s)'
      BY <2>1, <2>3 DEF Announced, DrainOf
    <3>3. ReadersDrain(s)'
      BY <2>1, <2>3, <3>1 DEF ReadersDrain, Announced, DrainOf, Streaming, AtEnd
    <3> QED BY <2>1, <3>2, <3>3, BeforeTheEnd
  <2> QED BY <1>2, <2>2, <2>3 DEF Read
<1>3. ASSUME NEW c \in Channels, SendData(s, c) PROVE DrainOf(s)'
  <2>1. /\ task[s] = "reading" /\ task'[s] \in {"reading", "failed_end"}
        /\ reader'[s][c] = IF connected THEN "reading" ELSE "done"
        /\ \A d \in Channels : d # c => reader'[s][d] = reader[s][d]
        /\ UNCHANGED <<connected, kind, faulty, writers, written, taken, size, file,
                       changed>>
    BY <1>3, SMTT(30) DEF SendData, Reads, Holds
  <2> HIDE DEF Typed, TypeOK, Progress, Stands
  <2>2. Announced(s)' /\ ReadersDrain(s)'
    BY <2>1 DEF Announced, ReadersDrain, DrainOf, Streaming
  <2> QED BY <2>1, <2>2, BeforeTheEnd
<1>4. ASSUME NEW c \in Channels, ReadFails(s, c) PROVE DrainOf(s)'
  <2>1. /\ task[s] = "reading" /\ task'[s] \in {"reading", "failed_end"}
        /\ s \in faulty'
        /\ UNCHANGED <<kind, taken, size, file, changed>>
    BY <1>4 DEF ReadFails
  <2> HIDE DEF Typed, TypeOK, Progress, Stands
  <2>2. Announced(s)' /\ ReadersDrain(s)'
    BY <2>1 DEF Announced, ReadersDrain, DrainOf
  <2> QED BY <2>1, <2>2, BeforeTheEnd
<1>5. ASSUME Join(s) \/ WaitForChild(s) PROVE DrainOf(s)'
  <2>1. /\ task[s] \in {"reading", "waiting"} /\ task'[s] \in {"waiting", "end"}
        /\ UNCHANGED <<connected, channel, kind, faulty, reader, writers, written, taken,
                       size, file, changed, got>>
    BY <1>5 DEF Join, WaitForChild
  <2>2. got'[s].ended = "no" /\ \A n \in DOMAIN channel : ~IsEnd(n, s)
    BY <2>1 DEF EndsBehind, EndOf
  <2>3. connected /\ s \notin faulty /\ Streaming(s) => Drained(s)
    <3>1. CASE WaitForChild(s)
      BY <3>1 DEF WaitForChild, DrainOf, EndsDrained
    <3>2. CASE Join(s)
      <4>1. \A c \in Channels : c \notin ChannelsOf(kind[s]) =>
              taken[s][c] = 0 /\ written[s][c] = 0
        OBVIOUS
      <4>2. \A c \in ChannelsOf(kind[s]) : c \in Channels /\ reader[s][c] = "done"
        BY <3>2 DEF Join, ChannelsOf, Channels
      <4>3. "stdout" \in ChannelsOf(kind[s])
        BY DEF ChannelsOf, Channels
      <4> HIDE DEF Typed, TypeOK, Progress, Stands
      <4> QED BY <4>1, <4>2, <4>3 DEF DrainOf, ReadersDrain, Drained
    <3> QED BY <1>5, <3>1, <3>2
  <2> HIDE DEF Typed, TypeOK, Progress, Stands
  <2>4. Announced(s)' /\ ReadersDrain(s)'
    BY <2>1 DEF Announced, ReadersDrain, DrainOf, Streaming
  <2>5. EndsDrained(s)'
    BY <2>1, <2>2, <2>3 DEF EndsDrained, Drained, Streaming, IsEnd, Ending
  <2> QED BY <2>4, <2>5 DEF DrainOf
<1>6. ASSUME NEW w \in {"command", "background"}, NEW c \in Channels,
             Exit(s, w) \/ Write(s, w, c)
      PROVE  DrainOf(s)'
  <2>1. /\ w \in writers[s] /\ kind[s] # "download"
        /\ UNCHANGED <<connected, channel, kind, task, reader, faulty, taken, size, got>>
    BY <1>6 DEF Exit, Write
  <2>2. ~Drained(s)
    BY <2>1 DEF Drained
  <2> HIDE DEF Typed, TypeOK, Progress, Stands
  <2>3. Announced(s)'
    BY <2>1 DEF Announced
  <2>4. \A d \in Channels : ~(connected /\ s \notin faulty /\ Streaming(s)
                                /\ reader[s][d] = "done")
    BY <2>1 DEF DrainOf, ReadersDrain
  <2>5. ReadersDrain(s)'
    BY <2>1, <2>4 DEF ReadersDrain, Streaming
  <2>6. EndsDrained(s)'
    BY <2>1, <2>2 DEF EndsDrained, DrainOf, Streaming
  <2> QED BY <2>3, <2>5, <2>6 DEF DrainOf
<1> QED BY <1>1, <1>2, <1>3, <1>4, <1>5, <1>6 DEF Channels

\* A stream that sends its end was drained before.
LEMMA SendEndDrained ==
  ASSUME Typed, EndsBehind, NEW s \in Requests, DrainOf(s), SendEnd(s)
  PROVE  DrainOf(s)'
<1>1. /\ task[s] \in Ending /\ task' = [task EXCEPT ![s] = "done"]
      /\ Sends([request |-> s, what |-> task[s]])
      /\ UNCHANGED <<connected, kind, reader, writers, written, taken, size, file, got,
                     faulty, changed>>
  BY DEF SendEnd, process, pipes, history, Ending
<1>2. task'[s] = "done" /\ task[s] # "none"
  BY <1>1 DEF Typed, TypeOK, Ending
<1>3. Announced(s)' /\ ReadersDrain(s)'
  BY <1>1, <1>2 DEF DrainOf, Announced, ReadersDrain, Streaming
<1>4. got[s].ended = "no"
  BY <1>1 DEF EndsBehind, EndOf, Ending
<1>5. ASSUME NEW n \in DOMAIN channel', channel'[n].what = "end", channel'[n].request = s,
             connected', s \notin faulty', Streaming(s)'
      PROVE  Drained(s)
  <2>1. CASE task[s] = "end"
    BY <1>1, <1>5, <2>1 DEF DrainOf, EndsDrained, Streaming
  <2>2. CASE task[s] = "failed_end"
    <3>1. PICK m \in Messages : m = [request |-> s, what |-> task[s]]
      BY <1>1, MessageTypes DEF Ending
    <3>2. NoEndSent(s)
      BY <1>1, <2>2, <3>1, SendingNoEnd DEF Typed
    <3> QED BY <1>1, <1>5, <3>2 DEF NoEndSent, DrainOf, EndsDrained, Streaming
  <2> QED BY <1>1, <2>1, <2>2 DEF Ending
<1>6. Drained(s) => Drained(s)'
  BY <1>1 DEF Drained
<1> QED BY <1>1, <1>2, <1>3, <1>4, <1>5, <1>6 DEF DrainOf, EndsDrained

\* By the time the end is delivered all chunks have been.
LEMMA DeliverDrained ==
  ASSUME Typed, Chained, EndsBehind, NEW s \in Requests, DrainOf(s), Deliver
  PROVE  DrainOf(s)'
<1>1. UNCHANGED <<connected, kind, task, reader, writers, written, taken, size, file,
                  faulty, changed>>
  BY DEF Deliver, process, pipes
<1>2. /\ DOMAIN channel = 1..Len(channel) /\ Len(channel) \in Nat
      /\ 1 \in DOMAIN channel /\ channel[1] \in Messages
      /\ \A n \in DOMAIN channel' :
           n + 1 \in DOMAIN channel /\ channel'[n] = channel[n + 1]
  BY Delivery DEF Typed
<1>3. Announced(s)' /\ ReadersDrain(s)' /\ Drained(s)' = Drained(s)
  BY <1>1 DEF DrainOf, Announced, ReadersDrain, Streaming, Drained
<1>4. connected
  BY <1>2 DEF Typed, Progress
<1>5. ASSUME s \notin faulty, got'[s].ended = "end"
      PROVE  Drained(s) /\ \A c \in Channels : got'[s].data[c] = taken[s][c]
  <2>1. CASE IsEnd(1, s)
    <3>1. channel[1].what = "end" /\ channel[1].request = s
      BY <1>2, <1>5, <2>1, Delivery, Receiving DEF IsEnd, Typed
    <3>2. task[s] = "done" /\ \A m \in DOMAIN channel, c \in Channels : ~IsData(m, s, c)
      BY <1>2, <2>1 DEF EndsBehind, EndOf
    <3>3. Streaming(s) /\ \A c \in Channels : ~Holds(s, c)
      BY <3>2 DEF Typed, Progress, Stands
    <3>4. Drained(s)
      BY <1>2, <1>4, <1>5, <3>1, <3>3 DEF DrainOf, EndsDrained
    <3>5. \A c \in Channels : got[s].data[c] = taken[s][c]
      BY <1>4, <3>2, <3>3 DEF Chained, ChainOf, SentUpTo
    <3>6. \A c \in Channels : got'[s].data[c] = got[s].data[c]
      BY <1>2, <3>2, Delivery, Receiving DEF IsData, Typed
    <3> QED BY <3>4, <3>5, <3>6
  <2>2. CASE ~IsEnd(1, s)
    <3>1. got[s].ended = "end"
      BY <1>2, <1>5, <2>2, Delivery, Receiving DEF IsEnd, Typed
    <3>2. \A c \in Channels : ~IsData(1, s, c)
      BY <1>2, <3>1 DEF EndsBehind, EndOf
    <3>3. \A c \in Channels : got'[s].data[c] = got[s].data[c]
      BY <1>2, <3>2, Delivery, Receiving DEF IsData, Typed
    <3> QED BY <1>5, <3>1, <3>3 DEF DrainOf, EndsDrained
  <2> QED BY <2>1, <2>2
<1>6. EndsDrained(s)'
  BY <1>1, <1>2, <1>3, <1>5 DEF DrainOf, EndsDrained, Streaming
<1> QED BY <1>3, <1>6 DEF DrainOf

\* The other traffic and the file system leave requests alone.
LEMMA SurroundingsUndisturbing ==
  ASSUME Typed, NEW s \in Requests, UNCHANGED vars \/ OtherTraffic \/ ChangeFile
  PROVE  Undisturbed(s)
<1> USE DEF process, pipes, history, Undisturbed, Untouched
<1>1. CASE UNCHANGED vars
  BY <1>1 DEF vars, NoEndSent
<1>2. CASE OtherTraffic
  <2>1. NoEndSent(s)
    BY <1>2, SendingNoEnd DEF OtherTraffic, Other, Messages, Typed
  <2> QED BY <1>2, <2>1 DEF OtherTraffic
<1>3. CASE ChangeFile
  <2>1. kind[s] # "download" \/ task[s] = "none" \/ s \in changed'
    BY <1>3 DEF ChangeFile, Typed, Progress, Stands
  <2> QED BY <1>3, <2>1 DEF ChangeFile, NoEndSent
<1> QED BY <1>1, <1>2, <1>3

\* Every step keeps it.
LEMMA DrainedStep ==
  ASSUME Typed, Chained, EndsBehind, DrainedAtEnd, [Next]_vars
  PROVE  DrainedAtEnd'
<1> SUFFICES ASSUME NEW r \in Requests PROVE DrainOf(r)'
  BY DEF DrainedAtEnd
<1>1. Typed' /\ EndsBehind' /\ DrainOf(r)
  BY TypedStep, EndsBehindStep DEF DrainedAtEnd
<1>2. CASE UNCHANGED vars \/ OtherTraffic \/ ChangeFile
  BY <1>1, <1>2, SurroundingsUndisturbing, UndisturbedDrained
<1>3. CASE Deliver
  BY <1>1, <1>3, DeliverDrained
<1>4. CASE Disconnect
  BY <1>1, <1>4 DEF Disconnect, process, pipes, history, DrainOf, Announced,
     ReadersDrain, EndsDrained, Drained
<1>5. ASSUME NEW s \in Requests,
             \/ \E k \in Kinds : Ask(s, k)
             \/ Handler(s) \/ CollectFails(s) \/ TimesOut(s) \/ StreamTask(s)
             \/ \E c \in Channels : Reader(s, c) \/ ReadFails(s, c)
             \/ \E w \in {"command", "background"} :
                  Exit(s, w) \/ \E c \in Channels : Write(s, w, c)
      PROVE  DrainOf(r)'
  <2>1. CASE r # s
    BY <1>1, <1>5, <2>1, OthersUndisturbed, UndisturbedDrained
  <2>2. CASE r = s /\ Answer(s)
    <3>1. NoEndSent(s)
      BY <2>2, SendingNoEnd, MessageTypes DEF Answer, Typed
    <3>2. UNCHANGED <<connected, kind, task, reader, writers, written, taken, size, file,
                      faulty, changed, got>>
      BY <2>2 DEF Answer, pipes, history
    <3> QED BY <1>1, <2>2, <3>1, <3>2 DEF DrainOf, Announced, ReadersDrain, EndsDrained,
               NoEndSent, Drained, Streaming
  <2>3. CASE r = s /\ SendEnd(s)
    BY <1>1, <2>3, SendEndDrained
  <2>4. CASE r = s /\ ~Answer(s) /\ ~SendEnd(s)
    BY <1>1, <1>5, <2>4, StartsDrained, ReadsDrained DEF Handler, StreamTask, Reader
  <2> QED BY <2>1, <2>2, <2>3, <2>4
<1> QED BY <1>2, <1>3, <1>4, <1>5 DEF Next

\* No stream has begun at first.
LEMMA DrainedInitially == Init => DrainedAtEnd
BY DEF Init, DrainedAtEnd, DrainOf, Announced, ReadersDrain, EndsDrained, Streaming

\* A stream that has ended was complete: all that the command and the processes
\* it left behind wrote, and as much of a file as was announced.
THEOREM EndedIsComplete == Spec => []EndIsComplete
<1>1. ASSUME Typed, DrainedAtEnd PROVE EndIsComplete
  BY <1>1 DEF DrainedAtEnd, DrainOf, EndsDrained, Drained, EndIsComplete, Channels
<1>2. Init /\ [][Next]_vars => [](Typed /\ Chained /\ EndsBehind /\ DrainedAtEnd)
  BY TypedInitially, ChainedInitially, EndsBehindInitially, DrainedInitially,
     TypedStep, ChainedStep, EndsBehindStep, DrainedStep, PTL
<1> QED BY <1>1, <1>2, PTL DEF Spec
-----------------------------------------------------------------------------
(* Streams keep their contract.                                            *)

\* A read of the stream has failed, or its file was changed.
Spoilt(s) == s \in faulty \cup changed

\* A stream that failed, or whose failed end is under way or has arrived, is
\* spoilt; so is a download whose file is gone before it is opened.
FailureOf(s) ==
  /\ connected /\ task[s] = "failed_end" => Spoilt(s)
  /\ task[s] = "opening" => file.exists \/ s \in changed
  /\ \A n \in DOMAIN channel :
       channel[n].what = "failed_end" /\ channel[n].request = s => Spoilt(s)
  /\ got[s].ended = "failed_end" => Spoilt(s)

\* So for every request.
FailuresAreReal == \A s \in Requests : FailureOf(s)

\* What is spoilt stays so, and only three actions spoil a stream.
LEMMA SpoiltStays ==
  ASSUME [Next]_vars
  PROVE  /\ faulty \subseteq faulty' /\ changed \subseteq changed'
         /\ \/ faulty' = faulty /\ changed' = changed
            \/ ChangeFile
            \/ \E s \in Requests :
                 CollectFails(s) \/ \E c \in Channels : ReadFails(s, c)
<1> USE DEF process, pipes, history
<1>1. CASE UNCHANGED vars
  BY <1>1 DEF vars
<1>2. ASSUME NEW s \in Requests, (\E k \in Kinds : Ask(s, k)) \/ TimesOut(s)
      PROVE  faulty' = faulty /\ changed' = changed
  BY <1>2 DEF Ask, TimesOut
<1>3. ASSUME NEW s \in Requests, Handler(s)
      PROVE  faulty' = faulty /\ changed' = changed
  BY <1>3 DEF Handler, Begin, BeginDownload, CannotBegin, Answer, Collect, Collected
<1>4. ASSUME NEW s \in Requests, StreamTask(s)
      PROVE  faulty' = faulty /\ changed' = changed
  BY <1>4 DEF StreamTask, OpenFile, Join, WaitForChild, SendEnd
<1>5. ASSUME NEW s \in Requests, NEW c \in Channels, Reader(s, c)
      PROVE  faulty' = faulty /\ changed' = changed
  BY <1>5 DEF Reader, Read, SendData
<1>6. ASSUME NEW s \in Requests, NEW w \in {"command", "background"},
             Exit(s, w) \/ \E c \in Channels : Write(s, w, c)
      PROVE  faulty' = faulty /\ changed' = changed
  BY <1>6 DEF Exit, Write
<1>7. ASSUME OtherTraffic \/ Deliver \/ Disconnect
      PROVE  faulty' = faulty /\ changed' = changed
  BY <1>7 DEF OtherTraffic, Deliver, Disconnect
<1>8. ASSUME NEW s \in Requests, CollectFails(s) \/ \E c \in Channels : ReadFails(s, c)
      PROVE  faulty \subseteq faulty' /\ changed' = changed
  BY <1>8 DEF CollectFails, ReadFails
<1>9. ASSUME ChangeFile
      PROVE  faulty' = faulty /\ changed \subseteq changed'
  BY <1>9 DEF ChangeFile
<1> QED BY <1>1, <1>2, <1>3, <1>4, <1>5, <1>6, <1>7, <1>8, <1>9 DEF Next

\* A task fails for a reason, and a file is there when it is to be opened.
LEMMA TaskFailures ==
  ASSUME Typed, NEW s \in Requests, FailureOf(s), [Next]_vars
  PROVE  /\ connected' /\ task'[s] = "failed_end" => Spoilt(s)'
         /\ task'[s] = "opening" => file'.exists \/ s \in changed'
<1> USE DEF process, pipes, history
<1>0. (Spoilt(s) => Spoilt(s)') /\ changed \subseteq changed'
  BY SpoiltStays DEF Spoilt
<1>1. ASSUME UNCHANGED <<connected, task, file>>
      PROVE  /\ connected' /\ task'[s] = "failed_end" => Spoilt(s)'
             /\ task'[s] = "opening" => file'.exists \/ s \in changed'
  BY <1>0, <1>1 DEF FailureOf
<1>2. CASE UNCHANGED vars
  BY <1>1, <1>2 DEF vars
<1>3. ASSUME NEW r \in Requests,
             \/ \E k \in Kinds : Ask(r, k)
             \/ CannotBegin(r) \/ Answer(r) \/ Collected(r)
             \/ \E c \in Channels : Collect(r, c) \/ Read(r, c)
             \/ CollectFails(r) \/ TimesOut(r)
             \/ \E w \in {"command", "background"} :
                  Exit(r, w) \/ \E c \in Channels : Write(r, w, c)
      PROVE  UNCHANGED <<connected, task, file>>
  BY <1>3 DEF Ask, CannotBegin, Answer, Collected, Collect, Read, CollectFails,
     TimesOut, Exit, Write
<1>4. CASE OtherTraffic \/ Deliver
  BY <1>1, <1>4 DEF OtherTraffic, Deliver
<1>5. CASE Disconnect
  BY <1>0, <1>5 DEF Disconnect, FailureOf
<1>6. CASE ChangeFile
  <2>1. task[s] = "opening" => kind[s] = "download" /\ handler[s] \notin {"idle", "new"}
    BY DEF Typed, Progress, Stands
  <2>2. task[s] = "opening" => s \in changed'
    BY <1>6, <2>1 DEF ChangeFile
  <2> QED BY <1>0, <1>6, <2>2 DEF ChangeFile, FailureOf
<1>7. ASSUME NEW r \in Requests, r # s,
             \/ Begin(r) \/ BeginDownload(r) \/ OpenFile(r) \/ Join(r)
             \/ WaitForChild(r) \/ SendEnd(r)
             \/ \E c \in Channels : SendData(r, c) \/ ReadFails(r, c)
      PROVE  UNCHANGED <<connected, file>> /\ task'[s] = task[s]
  <2>1. UNCHANGED <<connected, file>>
    BY <1>7 DEF Begin, BeginDownload, OpenFile, Join, WaitForChild, SendEnd, SendData,
       ReadFails
  <2>2. task' = task \/ \E to : task' = [task EXCEPT ![r] = to]
    <3>1. CASE Begin(r) \/ BeginDownload(r) \/ OpenFile(r)
      BY <3>1 DEF Begin, BeginDownload, OpenFile
    <3>2. CASE Join(r) \/ WaitForChild(r) \/ SendEnd(r)
      BY <3>2 DEF Join, WaitForChild, SendEnd
    <3>3. ASSUME NEW c \in Channels, SendData(r, c) \/ ReadFails(r, c)
          PROVE  task' = task \/ \E to : task' = [task EXCEPT ![r] = to]
      BY <3>3 DEF SendData, ReadFails
    <3> QED BY <1>7, <3>1, <3>2, <3>3
  <2> QED BY <1>7, <2>1, <2>2 DEF Typed, TypeOK
<1>8. CASE Begin(s) \/ Join(s) \/ WaitForChild(s) \/ SendEnd(s)
  <2>1. task'[s] \notin {"failed_end", "opening"}
    BY <1>8 DEF Begin, Join, WaitForChild, SendEnd, Typed, TypeOK
  <2> QED BY <2>1
<1>9. CASE BeginDownload(s)
  BY <1>9 DEF BeginDownload, Typed, TypeOK
<1>10. CASE OpenFile(s)
  <2>1. ~file.exists => s \in changed
    BY <1>10 DEF OpenFile, FailureOf
  <2>2. task'[s] = IF file.exists THEN "reading" ELSE "failed_end"
    BY <1>10 DEF OpenFile, Typed, TypeOK
  <2> QED BY <1>0, <2>1, <2>2 DEF Spoilt
<1>11. ASSUME NEW c \in Channels, SendData(s, c)
       PROVE  /\ connected' /\ task'[s] = "failed_end" => Spoilt(s)'
              /\ task'[s] = "opening" => file'.exists \/ s \in changed'
  <2>1. connected' = connected /\ file' = file
    BY <1>11 DEF SendData
  <2>2. CASE connected
    BY <1>1, <1>11, <2>1, <2>2 DEF SendData
  <2>3. CASE ~connected
    <3>1. task[s] = "reading"
      BY <1>11 DEF SendData, Typed, Progress, Stands, Holds
    <3>2. task'[s] \in {"reading", "failed_end"}
      BY <1>11, <3>1 DEF SendData, Typed, TypeOK
    <3> QED BY <2>1, <2>3, <3>2
  <2> QED BY <2>2, <2>3
<1>12. ASSUME NEW c \in Channels, ReadFails(s, c)
       PROVE  /\ connected' /\ task'[s] = "failed_end" => Spoilt(s)'
              /\ task'[s] = "opening" => file'.exists \/ s \in changed'
  <2>1. Spoilt(s)' /\ task[s] = "reading"
    BY <1>12 DEF ReadFails, Spoilt
  <2>2. task'[s] \in {"reading", "failed_end"}
    BY <1>12, <2>1 DEF ReadFails, Typed, TypeOK
  <2> QED BY <2>1, <2>2
<1>13. ASSUME NEW r \in Requests,
             \/ Begin(r) \/ BeginDownload(r) \/ OpenFile(r) \/ Join(r)
             \/ WaitForChild(r) \/ SendEnd(r)
             \/ \E c \in Channels : SendData(r, c) \/ ReadFails(r, c)
       PROVE  /\ connected' /\ task'[s] = "failed_end" => Spoilt(s)'
              /\ task'[s] = "opening" => file'.exists \/ s \in changed'
  <2>1. CASE r = s
    BY <1>8, <1>9, <1>10, <1>11, <1>12, <1>13, <2>1
  <2>2. CASE r # s
    <3>1. UNCHANGED <<connected, file>> /\ task'[s] = task[s]
      BY <1>7, <1>13, <2>2
    <3> QED BY <1>0, <3>1 DEF FailureOf
  <2> QED BY <2>1, <2>2
<1> QED BY <1>1, <1>2, <1>3, <1>4, <1>5, <1>6, <1>13
        DEF Next, Handler, StreamTask, Reader

\* What tells of a failure comes from a task that failed.
LEMMA FailuresTold ==
  ASSUME Typed, NEW s \in Requests, [Next]_vars,
         NEW n \in DOMAIN channel',
         channel'[n].what = "failed_end", channel'[n].request = s
  PROVE  \/ \E m \in DOMAIN channel : channel[m] = channel'[n]
         \/ connected /\ task[s] = "failed_end"
<1> USE DEF process, pipes, history
<1>1. ASSUME NEW m \in Messages, Sends(m), m.what # "failed_end" \/ m.request # s
      PROVE  \E k \in DOMAIN channel : channel[k] = channel'[n]
  BY <1>1, Sending DEF Typed
<1>2. ASSUME channel' = channel
      PROVE  \E m \in DOMAIN channel : channel[m] = channel'[n]
  BY <1>2
<1>3. ASSUME NEW r \in Requests,
             \/ \E k \in Kinds : Ask(r, k)
             \/ Begin(r) \/ BeginDownload(r) \/ CannotBegin(r) \/ Collected(r)
             \/ \E c \in Channels : Collect(r, c)
             \/ CollectFails(r) \/ TimesOut(r)
             \/ OpenFile(r) \/ Join(r) \/ WaitForChild(r)
             \/ \E c \in Channels : Read(r, c) \/ ReadFails(r, c)
             \/ \E w \in {"command", "background"} :
                  Exit(r, w) \/ \E c \in Channels : Write(r, w, c)
      PROVE  channel' = channel
  BY <1>3 DEF Ask, Begin, BeginDownload, CannotBegin, Collected, Collect,
     CollectFails, TimesOut, OpenFile, Join, WaitForChild, Read, ReadFails, Exit, Write
<1>4. CASE UNCHANGED vars \/ ChangeFile
  BY <1>2, <1>4 DEF vars, ChangeFile
<1>5. ASSUME NEW r \in Requests, Answer(r)
      PROVE  \E m \in DOMAIN channel : channel[m] = channel'[n]
  <2>1. PICK m \in Messages : m = [request |-> r, what |-> handler[r]]
    BY <1>5, MessageTypes DEF Answer
  <2> QED BY <1>1, <1>5, <2>1 DEF Answer
<1>6. CASE OtherTraffic
  BY <1>1, <1>6 DEF OtherTraffic, Messages, Other
<1>7. ASSUME NEW r \in Requests, NEW c \in Channels, SendData(r, c)
      PROVE  \E m \in DOMAIN channel : channel[m] = channel'[n]
  <2>1. taken[r][c] \in 1..MaxOutput
    BY <1>7, StreamBounds DEF SendData, Typed, TypeOK, Progress, Stands, Holds
  <2>2. PICK m \in Messages : m = [request |-> r, what |-> c, chunk |-> taken[r][c]]
    BY <2>1, MessageTypes
  <2>3. m.what = c /\ c # "failed_end"
    BY <2>2 DEF Channels
  <2> QED BY <1>1, <1>7, <2>2, <2>3 DEF SendData
<1>8. ASSUME NEW r \in Requests, SendEnd(r)
      PROVE  \/ \E m \in DOMAIN channel : channel[m] = channel'[n]
             \/ connected /\ task[s] = "failed_end"
  <2>1. PICK m \in Messages : m = [request |-> r, what |-> task[r]]
    BY <1>8, MessageTypes DEF SendEnd
  <2>2. Sends(m)
    BY <1>8, <2>1 DEF SendEnd
  <2>3. CASE m.what # "failed_end" \/ m.request # s
    BY <1>1, <2>2, <2>3
  <2>4. CASE connected /\ m.what = "failed_end" /\ m.request = s
    BY <2>1, <2>4
  <2>5. CASE ~connected
    BY <1>2, <2>2, <2>5 DEF Sends
  <2> QED BY <2>3, <2>4, <2>5
<1>9. CASE Deliver
  BY <1>9, Delivery DEF Typed
<1>10. CASE Disconnect
  BY <1>10 DEF Disconnect
<1> QED BY <1>2, <1>3, <1>4, <1>5, <1>6, <1>7, <1>8, <1>9, <1>10
        DEF Next, Handler, StreamTask, Reader

\* Every step keeps failures real.
LEMMA FailuresStep ==
  ASSUME Typed, FailuresAreReal, [Next]_vars
  PROVE  FailuresAreReal'
<1> SUFFICES ASSUME NEW s \in Requests PROVE FailureOf(s)'
  BY DEF FailuresAreReal
<1>1. FailureOf(s) /\ (Spoilt(s) => Spoilt(s)')
  BY SpoiltStays DEF FailuresAreReal, Spoilt
<1>2. /\ connected' /\ task'[s] = "failed_end" => Spoilt(s)'
      /\ task'[s] = "opening" => file'.exists \/ s \in changed'
  BY <1>1, TaskFailures
<1>3. ASSUME NEW n \in DOMAIN channel',
             channel'[n].what = "failed_end", channel'[n].request = s
      PROVE  Spoilt(s)'
  BY <1>1, <1>3, FailuresTold DEF FailureOf
<1>4. ASSUME got'[s].ended = "failed_end" PROVE Spoilt(s)'
  <2>1. CASE got' = got
    BY <1>1, <1>4, <2>1 DEF FailureOf
  <2>2. CASE Deliver
    <3>1. 1 \in DOMAIN channel /\ channel[1] \in Messages /\ got' = Receives(channel[1])
      BY <2>2, Delivery DEF Typed
    <3>2. \/ got[s].ended = "failed_end"
          \/ channel[1].what = "failed_end" /\ channel[1].request = s
      BY <1>4, <3>1, Receiving DEF Typed
    <3> QED BY <1>1, <3>1, <3>2 DEF FailureOf
  <2> QED BY <2>1, <2>2, OnlyDeliverReceives
<1> QED BY <1>2, <1>3, <1>4 DEF FailureOf

\* Nothing has failed at first.
LEMMA NoFailureInitially == Init => FailuresAreReal
BY DEF Init, FailuresAreReal, FailureOf

\* What a request has to give changes when a download begins and when something
\* is written, and not otherwise.
LEMMA OfferKept ==
  ASSUME Typed, [Next]_vars,
         ~\E s \in Requests :
            \/ BeginDownload(s)
            \/ \E w \in {"command", "background"}, c \in Channels : Write(s, w, c)
  PROVE  \A r \in Requests, c \in Channels : Offered(r, c)' = Offered(r, c)
<1> SUFFICES ASSUME NEW r \in Requests, NEW c \in Channels
             PROVE  Offered(r, c)' = Offered(r, c)
  OBVIOUS
<1> USE DEF process, pipes, history
<1>1. ASSUME UNCHANGED <<kind, written, size>>, task'[r] = "none" <=> task[r] = "none"
      PROVE  Offered(r, c)' = Offered(r, c)
  BY <1>1 DEF Offered
<1>2. CASE UNCHANGED vars
  BY <1>1, <1>2 DEF vars
<1>3. CASE OtherTraffic \/ Deliver \/ Disconnect \/ ChangeFile
  BY <1>1, <1>3 DEF OtherTraffic, Deliver, Disconnect, ChangeFile
<1>4. ASSUME NEW s \in Requests, NEW k \in Kinds, Ask(s, k)
      PROVE  Offered(r, c)' = Offered(r, c)
  <2>1. UNCHANGED <<task, written, size>>
    BY <1>4 DEF Ask
  <2>2. CASE r = s
    <3>1. task[r] = "none" /\ written[r][c] = 0
      BY <1>4, <2>2 DEF Ask, Typed, Progress, Stands
    <3> QED BY <2>1, <3>1 DEF Offered
  <2>3. CASE r # s
    <3>1. kind'[r] = kind[r]
      BY <1>4, <2>3 DEF Ask, Typed, TypeOK
    <3> QED BY <2>1, <3>1 DEF Offered
  <2> QED BY <2>2, <2>3
<1>5. ASSUME NEW s \in Requests,
             \/ CannotBegin(s) \/ Answer(s) \/ Collected(s)
             \/ \E d \in Channels : Collect(s, d) \/ Read(s, d)
             \/ CollectFails(s) \/ TimesOut(s)
             \/ \E w \in {"command", "background"} : Exit(s, w)
      PROVE  UNCHANGED <<kind, written, size, task>>
  BY <1>5 DEF CannotBegin, Answer, Collected, Collect, Read, CollectFails, TimesOut, Exit
<1>6. ASSUME NEW s \in Requests, Begin(s)
      PROVE  Offered(r, c)' = Offered(r, c)
  <2>1. UNCHANGED <<kind, written, size>> /\ kind[s] # "download"
    BY <1>6 DEF Begin
  <2>2. r # s => task'[r] = task[r]
    BY <1>6 DEF Begin, Typed, TypeOK
  <2> QED BY <2>1, <2>2 DEF Offered
<1>7. ASSUME NEW s \in Requests,
             \/ OpenFile(s) \/ Join(s) \/ WaitForChild(s) \/ SendEnd(s)
             \/ \E d \in Channels : SendData(s, d) \/ ReadFails(s, d)
      PROVE  UNCHANGED <<kind, written, size>> /\ (task'[r] = "none" <=> task[r] = "none")
  <2>1. UNCHANGED <<kind, written, size>> /\ task[s] # "none"
    BY <1>7 DEF OpenFile, Join, WaitForChild, SendEnd, SendData, ReadFails, Typed,
       Progress, Stands, Holds
  <2>2. \/ task' = task
        \/ \E to \in {"reading", "failed_end", "waiting", "end", "done"} :
             task' = [task EXCEPT ![s] = to]
    BY <1>7 DEF OpenFile, Join, WaitForChild, SendEnd, SendData, ReadFails
  <2> QED BY <2>1, <2>2 DEF Typed, TypeOK
<1> QED BY <1>1, <1>2, <1>3, <1>4, <1>5, <1>6, <1>7
        DEF Next, Handler, StreamTask, Reader

\* Where nothing is given, received or spoilt the contract stutters.
LEMMA ContractStutters ==
  ASSUME got' = got, faulty' = faulty, changed' = changed,
         \A r \in Requests, c \in Channels : Offered(r, c)' = Offered(r, c)
  PROVE  UNCHANGED Contract!vars
BY DEF Contract!vars

\* A pipe that has more to give.
LEMMA ContractOffers ==
  ASSUME NEW s \in Requests, NEW c \in Channels,
         got[s].ended = "end" => Spoilt(s),
         Offered(s, c)' \in (Offered(s, c) + 1)..MaxOutput,
         got' = got, faulty' = faulty, changed' = changed,
         \A r \in Requests, d \in Channels :
           r # s \/ d # c => Offered(r, d)' = Offered(r, d)
  PROVE  Contract!Offer(s, c)
<1> DEFINE offer == [r \in Requests |-> [d \in Channels |-> Offered(r, d)]]
           offerN == [r \in Requests |-> [d \in Channels |-> Offered(r, d)']]
<1>1. offerN = [offer EXCEPT ![s][c] = Offered(s, c)']
  OBVIOUS
<1>2. offer[s][c] = Offered(s, c)
  OBVIOUS
<1> QED BY <1>1, <1>2 DEF Contract!Offer, Spoilt

\* A download that begins offers what it announces.
LEMMA BeginDownloadOffers ==
  ASSUME Typed, EndsBehind, NEW s \in Requests, BeginDownload(s)
  PROVE  Contract!Next \/ UNCHANGED Contract!vars
<1>1. /\ kind[s] = "download" /\ task[s] = "none" /\ got[s].ended = "no"
      /\ size'[s] = file.length /\ task'[s] = "opening" /\ file.length \in 0..MaxOutput
      /\ UNCHANGED <<kind, written, got, faulty, changed>>
      /\ \A r \in Requests : r # s => size'[r] = size[r] /\ task'[r] = task[r]
  BY DEF BeginDownload, pipes, history, Typed, TypeOK, Progress, Stands, EndsBehind, EndOf
<1>2. /\ Offered(s, "stdout") = 0 /\ Offered(s, "stdout")' = file.length
      /\ \A r \in Requests, d \in Channels :
           r # s \/ d # "stdout" => Offered(r, d)' = Offered(r, d)
  BY <1>1 DEF Offered
<1>3. CASE file.length = 0
  BY <1>1, <1>2, <1>3, ContractStutters
<1>4. CASE file.length # 0
  <2>1. file.length \in (0 + 1)..MaxOutput
    BY <1>1, <1>4, StreamBounds
  <2>2. "stdout" \in Channels
    BY DEF Channels
  <2>3. Contract!Offer(s, "stdout")
    BY <1>1, <1>2, <2>1, <2>2, ContractOffers
  <2> QED BY <2>2, <2>3 DEF Contract!Next
<1> QED BY <1>3, <1>4

\* What is written is offered; nothing is once a stream has ended.
LEMMA WriteOffers ==
  ASSUME Typed, DrainedAtEnd, NEW s \in Requests,
         NEW w \in {"command", "background"}, NEW c \in Channels, Write(s, w, c)
  PROVE  Contract!Next \/ UNCHANGED Contract!vars
<1>1. /\ w \in writers[s] /\ written[s][c] < MaxOutput /\ written[s][c] \in Nat
      /\ UNCHANGED <<kind, task, size, got, faulty, changed>>
  BY StreamBounds DEF Write, process, history, Typed, TypeOK
<1>2. kind[s] # "download"
  BY <1>1 DEF Typed, Progress, Stands
<1>3. CASE written' = written
  BY <1>1, <1>3, ContractStutters DEF Offered
<1>4. CASE written' = [written EXCEPT ![s][c] = @ + 1]
  <2>1. /\ written'[s][c] = written[s][c] + 1
        /\ \A r \in Requests, d \in Channels :
             r # s \/ d # c => written'[r][d] = written[r][d]
    BY <1>4 DEF Typed, TypeOK
  <2>2. got[s].ended = "end" => Spoilt(s)
    BY <1>1, <1>2 DEF DrainedAtEnd, DrainOf, EndsDrained, Drained, Spoilt
  <2>3. Offered(s, c)' \in (Offered(s, c) + 1)..MaxOutput
    BY <1>1, <1>2, <2>1, StreamBounds DEF Offered
  <2>4. \A r \in Requests, d \in Channels :
          r # s \/ d # c => Offered(r, d)' = Offered(r, d)
    BY <1>1, <2>1 DEF Offered
  <2>5. Contract!Offer(s, c)
    BY <1>1, <2>2, <2>3, <2>4, ContractOffers
  <2> QED BY <2>5 DEF Contract!Next
<1> QED BY <1>3, <1>4 DEF Write

\* A failed read or a change of the file spoils streams.
LEMMA ContractSpoils ==
  ASSUME NEW S \in SUBSET Requests, faulty' \cup changed' = (faulty \cup changed) \cup S,
         got' = got,
         \A r \in Requests, c \in Channels : Offered(r, c)' = Offered(r, c)
  PROVE  Contract!Next
<1>1. Contract!Spoil(S)
  BY DEF Contract!Spoil
<1> QED BY <1>1 DEF Contract!Next

\* A chunk that arrives is the next one of its pipe.
LEMMA ContractReceives ==
  ASSUME Typed, Chained, EndsBehind, DrainedAtEnd, Deliver,
         NEW s \in Requests, NEW c \in Channels, IsData(1, s, c)
  PROVE  Contract!Receive(s, c)
<1>1. /\ 1 \in DOMAIN channel /\ channel[1] \in Messages /\ got' = Receives(channel[1])
      /\ channel[1].what = c /\ channel[1].request = s /\ connected
  BY Delivery DEF Typed, Progress, IsData
<1>2. got[s].data[c] \in Nat /\ taken[s][c] \in Nat
  BY DEF Typed, TypeOK
<1>3. /\ channel[1].chunk = got[s].data[c] + 1 /\ channel[1].chunk <= SentUpTo(s, c)
      /\ task[s] # "none"
  <2>1. ~\E m \in 1..(1 - 1) : TRUE
    OBVIOUS
  <2> QED BY <1>1, <2>1 DEF Chained, ChainOf
<1>4. got[s].data[c] < taken[s][c]
  BY <1>2, <1>3 DEF SentUpTo
<1>5. got[s].ended = "no"
  BY <1>1 DEF EndsBehind, EndOf
<1>6. got[s].data[c] < Offered(s, c) \/ Spoilt(s)
  <2>1. CASE kind[s] # "download"
    <3>1. taken[s][c] <= written[s][c] /\ written[s][c] \in Nat
      BY <2>1 DEF Typed, TypeOK, Progress, Stands
    <3> QED BY <1>2, <1>4, <2>1, <3>1 DEF Offered
  <2>2. CASE kind[s] = "download" /\ s \notin changed
    <3>1. c = "stdout"
      <4>1. c \in ChannelsOf(kind[s])
        BY <1>2, <1>4 DEF Typed, Progress, Stands
      <4> QED BY <2>2, <4>1 DEF ChannelsOf
    <3>2. taken[s]["stdout"] <= size[s] /\ size[s] \in Nat
      BY <1>3, <2>2 DEF DrainedAtEnd, DrainOf, Announced, Typed, TypeOK
    <3> QED BY <1>2, <1>3, <1>4, <2>2, <3>1, <3>2 DEF Offered
  <2> QED BY <2>1, <2>2 DEF Spoilt
<1>7. /\ \A r \in Requests : got'[r].ended = got[r].ended
      /\ got'[s].data[c] = got[s].data[c] + 1
      /\ \A r \in Requests, d \in Channels :
           r # s \/ d # c => got'[r].data[d] = got[r].data[d]
  BY <1>1, <1>3, Receiving DEF Typed, Channels, Ending
<1>8. \A r \in Requests : /\ got[r].data \in [Channels -> 0..MaxOutput]
                          /\ got'[r].data \in [Channels -> 0..MaxOutput]
  BY <1>1, Receiving DEF Typed, TypeOK
<1> DEFINE received == [r \in Requests |-> got[r].data]
<1>9. [r \in Requests |-> got'[r].data] = [received EXCEPT ![s][c] = @ + 1]
  <2>1. ASSUME NEW r \in Requests
        PROVE  got'[r].data = [received EXCEPT ![s][c] = @ + 1][r]
    <3>1. CASE r = s
      <4>1. got'[s].data = [got[s].data EXCEPT ![c] = @ + 1]
        BY <1>7, <1>8
      <4> QED BY <3>1, <4>1
    <3>2. CASE r # s
      <4>1. got'[r].data = got[r].data
        BY <1>7, <1>8, <3>2
      <4> QED BY <3>2, <4>1
    <3> QED BY <3>1, <3>2
  <2> QED BY <2>1
<1>10. UNCHANGED <<faulty, changed>>
       /\ \A r \in Requests, d \in Channels : Offered(r, d)' = Offered(r, d)
  BY DEF Deliver, process, pipes, Offered
<1> QED BY <1>5, <1>6, <1>7, <1>9, <1>10 DEF Contract!Receive, Spoilt

\* An end that arrives is the first; what was promised has arrived before it.
LEMMA ContractEnds ==
  ASSUME Typed, EndsBehind, DrainedAtEnd, DrainedAtEnd', FailuresAreReal, Deliver,
         NEW s \in Requests, IsEnd(1, s)
  PROVE  Contract!End(s) \/ Contract!FailedEnd(s)
<1>1. /\ 1 \in DOMAIN channel /\ channel[1] \in Messages /\ got' = Receives(channel[1])
      /\ channel[1].what \in Ending /\ channel[1].request = s
  BY Delivery DEF Typed, IsEnd
<1>2. got[s].ended = "no" /\ task[s] = "done"
  BY <1>1 DEF EndsBehind, EndOf
<1>3. /\ got'[s].ended = channel[1].what
      /\ \A r \in Requests : r # s => got'[r].ended = got[r].ended
      /\ \A r \in Requests, d \in Channels : got'[r].data[d] = got[r].data[d]
  BY <1>1, Receiving DEF Typed, Channels, Ending
<1>4. \A r \in Requests : got'[r].data = got[r].data
  <2>1. \A r \in Requests : /\ got[r].data \in [Channels -> 0..MaxOutput]
                            /\ got'[r].data \in [Channels -> 0..MaxOutput]
    BY <1>1, Receiving DEF Typed, TypeOK
  <2> QED BY <1>3, <2>1
<1>5. UNCHANGED <<kind, task, writers, written, taken, size, faulty, changed>>
      /\ \A r \in Requests, d \in Channels : Offered(r, d)' = Offered(r, d)
  BY DEF Deliver, process, pipes, Offered
<1>6. CASE channel[1].what = "end"
  <2>1. ASSUME ~Spoilt(s) PROVE got[s].data = [d \in Channels |-> Offered(s, d)]
    <3>1. /\ got'[s].ended = "end" /\ s \notin faulty'
      BY <1>3, <1>5, <1>6, <2>1 DEF Spoilt
    <3>2. Drained(s)' /\ \A d \in Channels : got'[s].data[d] = taken[s][d]
      BY <1>5, <3>1 DEF DrainedAtEnd, DrainOf, EndsDrained
    <3>3. \A d \in Channels : taken[s][d] = Offered(s, d)
      <4>1. CASE kind[s] # "download"
        BY <1>5, <3>2, <4>1 DEF Drained, Offered
      <4>2. CASE kind[s] = "download"
        <5>1. taken[s]["stdout"] = size[s]
          BY <1>5, <2>1, <3>2, <4>2 DEF Drained, Spoilt
        <5>2. \A d \in Channels : d # "stdout" => taken[s][d] = 0
          BY <4>2 DEF Typed, Progress, Stands, ChannelsOf
        <5> QED BY <1>2, <4>2, <5>1, <5>2 DEF Offered
      <4> QED BY <4>1, <4>2
    <3>4. got[s].data \in [Channels -> 0..MaxOutput]
      BY DEF Typed, TypeOK
    <3> QED BY <1>4, <3>2, <3>3, <3>4
  <2>2. [r \in Requests |-> got'[r].ended]
          = [[r \in Requests |-> got[r].ended] EXCEPT ![s] = "end"]
    BY <1>3, <1>6
  <2> QED BY <1>2, <1>4, <1>5, <2>1, <2>2 DEF Contract!End, Spoilt
<1>7. CASE channel[1].what = "failed_end"
  <2>1. Spoilt(s)
    BY <1>1, <1>7 DEF FailuresAreReal, FailureOf
  <2>2. [r \in Requests |-> got'[r].ended]
          = [[r \in Requests |-> got[r].ended] EXCEPT ![s] = "failed_end"]
    BY <1>3, <1>7
  <2> QED BY <1>2, <1>4, <1>5, <2>1, <2>2 DEF Contract!FailedEnd, Spoilt
<1> QED BY <1>1, <1>6, <1>7 DEF Ending

\* A delivery is a step of the contract, or of no stream: an answer, or other traffic.
LEMMA DeliverContract ==
  ASSUME Typed, Chained, EndsBehind, DrainedAtEnd, DrainedAtEnd', FailuresAreReal, Deliver
  PROVE  Contract!Next \/ UNCHANGED Contract!vars
<1>1. 1 \in DOMAIN channel /\ channel[1] \in Messages /\ got' = Receives(channel[1])
  BY Delivery DEF Typed
<1>2. CASE channel[1].what \in Channels
  <2>1. PICK s \in Requests, c \in Channels : IsData(1, s, c)
    BY <1>1, <1>2, Fields DEF IsData
  <2>2. Contract!Receive(s, c)
    BY <2>1, ContractReceives
  <2> QED BY <2>2 DEF Contract!Next
<1>3. CASE channel[1].what \in Ending
  <2>1. PICK s \in Requests : IsEnd(1, s)
    BY <1>1, <1>3, Fields DEF IsEnd, Ending
  <2>2. Contract!End(s) \/ Contract!FailedEnd(s)
    BY <2>1, ContractEnds
  <2> QED BY <2>2 DEF Contract!Next
<1>4. CASE channel[1].what \notin Channels \cup Ending
  <2>1. \A s \in Requests : /\ got'[s].ended = got[s].ended
                            /\ \A c \in Channels : got'[s].data[c] = got[s].data[c]
    BY <1>1, <1>4, Receiving DEF Typed
  <2>2. \A s \in Requests : /\ got[s].data \in [Channels -> 0..MaxOutput]
                            /\ got'[s].data \in [Channels -> 0..MaxOutput]
    BY <1>1, Receiving DEF Typed, TypeOK
  <2>3. \A s \in Requests : got'[s].data = got[s].data
    BY <2>1, <2>2
  <2>4. UNCHANGED <<faulty, changed>>
        /\ \A r \in Requests, d \in Channels : Offered(r, d)' = Offered(r, d)
    BY DEF Deliver, process, pipes, Offered
  <2> QED BY <2>1, <2>3, <2>4 DEF Contract!vars
<1> QED BY <1>2, <1>3, <1>4

\* Every step is one of the contract or leaves its variables alone.
LEMMA ContractStep ==
  ASSUME Typed, Chained, EndsBehind, DrainedAtEnd, DrainedAtEnd', FailuresAreReal,
         [Next]_vars
  PROVE  [Contract!Next]_(Contract!vars)
<1>1. CASE Deliver
  BY <1>1, DeliverContract
<1>2. CASE \E s \in Requests : BeginDownload(s)
  BY <1>2, BeginDownloadOffers
<1>3. CASE \E s \in Requests, w \in {"command", "background"}, c \in Channels : Write(s, w, c)
  BY <1>3, WriteOffers
<1>4. ASSUME ~Deliver,
             ~\E s \in Requests :
                \/ BeginDownload(s)
                \/ \E w \in {"command", "background"}, c \in Channels : Write(s, w, c)
      PROVE  Contract!Next \/ UNCHANGED Contract!vars
  <2>1. got' = got /\ \A r \in Requests, c \in Channels : Offered(r, c)' = Offered(r, c)
    BY <1>4, OfferKept, OnlyDeliverReceives
  <2>2. CASE faulty' = faulty /\ changed' = changed
    BY <2>1, <2>2, ContractStutters
  <2>3. CASE ChangeFile
    <3>1. PICK S \in SUBSET Requests : changed' = changed \cup S /\ faulty' = faulty
      BY <2>3 DEF ChangeFile
    <3>2. faulty' \cup changed' = (faulty \cup changed) \cup S
      BY <3>1
    <3> QED BY <2>1, <3>2, ContractSpoils
  <2>4. ASSUME NEW s \in Requests, CollectFails(s) \/ \E c \in Channels : ReadFails(s, c)
        PROVE  Contract!Next
    <3>1. changed' = changed /\ faulty' = faulty \cup {s}
      BY <2>4 DEF CollectFails, ReadFails
    <3>2. faulty' \cup changed' = (faulty \cup changed) \cup {s} /\ {s} \in SUBSET Requests
      BY <3>1
    <3> QED BY <2>1, <3>2, ContractSpoils
  <2> QED BY <2>2, <2>3, <2>4, SpoiltStays
<1> QED BY <1>1, <1>2, <1>3, <1>4

\* Nothing is offered, received or spoilt at first.
LEMMA ContractInitially == Init => Contract!Init
BY DEF Init, Contract!Init, Offered, Nothing

\* The streams implement the contract: the output of every pipe arrives chunk by
\* chunk, the end behind all of it, and no failure is told but a real one.
THEOREM StreamsKeepContract == Spec => KeepsContract
<1>1. Init /\ [][Next]_vars =>
        [](Typed /\ Chained /\ EndsBehind /\ DrainedAtEnd /\ FailuresAreReal)
  BY TypedInitially, ChainedInitially, EndsBehindInitially, DrainedInitially,
     NoFailureInitially, TypedStep, ChainedStep, EndsBehindStep, DrainedStep,
     FailuresStep, PTL
<1> QED BY <1>1, ContractInitially, ContractStep, PTL
        DEF Spec, KeepsContract, Contract!Spec
=============================================================================
