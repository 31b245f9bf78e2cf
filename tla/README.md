# nobase-agent: TLA+ models and proofs

nobase-agent is a Rust daemon. It keeps one WebSocket to a gateway, samples
metrics into a local SQLite table and pushes them, and executes requests of the
gateway: commands, shells, file transfers, Docker queries, key rotation,
self-update. This directory models the parts of it that keep state and run
concurrently, checks them with TLC, and proves the central results with TLAPS.
Paths are relative to the directory above this one: the repository is `src/`, so
the crate's own sources are `src/src/*.rs`.

## 1. Inventory

| Component | State | Operations | Interacts with | Hard because |
|---|---|---|---|---|
| Metrics buffer (`metrics_buffer.rs`) | SQLite table: id, timestamp, payload, sent | `store`, `get_unsent`, `mark_sent`, `cleanup`, `cleanup_sent` | collection task and push task, one mutex | rows deleted, marked and read by tasks that do not wait for one another |
| Collection task (`connection.rs:38-80`) | cleanup tick | sample and store each second, clean up every 300 ticks | buffer | outlives connections; a failing store is not seen |
| Push task (`connection.rs:241-357`) | the batch in hand | backfill in chunks, then steady state | buffer, channel | state read before an await and used after it; aborted with the connection, its blocking closures are not |
| Channel and sender task (`connection.rs:152, 360-366`) | 256 messages | send, write to the socket | push task, heartbeats, handlers, streams | bounded, shared, lost with the connection |
| Connection loop (`connection.rs:82-190, 368-423`) | backoff, snapshot of the credentials | dial, register or reconnect, receive, hang up | everything | losses, half-open connections, timeouts, restarts |
| Credentials (`config.rs`, `handle_response`, `handle_rotate_key`) | memory (RwLock) and file | load, register, rotate, save | receive loop, request tasks, gateway | three copies (memory, file, gateway) that crashes, failed saves and lost answers pull apart |
| Shells (`handlers/shell.rs`) | map of sessions, PTY fds, bash, read thread | open, data, resize, close | channel | handlers, an OS thread and a child, with ids that are used again |
| Uploads (`handlers/fs.rs:785-942`) | map of transfers, file, running hash | start, chunk, end | file system | chunks handled concurrently; a lock held across awaits |
| Streams (`exec.stream`, `docker.logs`, `fs.download`) | child, readers | data, end, answer | channel | order of messages of several tasks; end of the connection |
| Self-update (`updater.rs`) | temp file, binary | check, download, replace, restart | backend, systemd | several updaters, one path, a restart in the middle |
| Probe caches (`handlers/metrics.rs`) | GPU and Docker caches, network snapshot | collect | collection task, `metrics.collect` | check-then-act on shared caches |
| Dispatch, protocol types, file and Docker queries, command line, installer | none | - | - | no state of their own to get wrong |

What makes each of them correct: no sample is marked sent that was not handed
over and none vanishes (pipeline); the agent can always get back in (credentials,
connection loop); the map of shells is exact and closed shells are let go (shells); a
finished upload is the file that was sent (uploads); `stream.end` is last and comes
(streams); the binary is never a mixture of two downloads (update). The list
`hazards` of `PROJECT.json` has each difficulty at its line.

## 2. Modules

| Module | What it is |
|---|---|
| `MetricsBuffer` | the table as a partial function from id to row, one operator per method of `MetricsBuffer` |
| `MetricsPipeline` | collection task, push task, channel, sender, socket, connection and process faults, over that table |
| `MetricsContract` | the abstract specification: kept, expired, handed over, in transit, delivered |
| `MetricsPipelineProofs`, `AgentConnectionProofs`, `ShellSessionsProofs`, `UploadsProofs`, `UpdaterProofs`, `StreamsProofs` | the theorems about the module each is named after, proved by TLAPS (section 4) |
| `LeastNumber` | the least-number principle, which the proofs use instead of induction |
| `AgentConnection` | connection loop, backoff, credentials in memory and on disk, registration, rotation, and the gateway they depend on |
| `ShellSessions` | the map of shells with the handlers, threads and children around it |
| `Uploads` | chunked uploads: the map of transfers and its lock, the request tasks, worker threads, blocking writes |
| `Updater` | self-update: every caller of `check_and_update`, the two paths, the processes that execute the binary, systemd |
| `Streams` | `exec`, `exec.stream`, `docker.logs`, `fs.download`: request tasks, stream tasks, readers, channel, commands |
| `StreamContract` | the abstract specification of streams: offered, received, ended, spoilt |
| `UpdateContract` | the abstract specification of self-update: published, installed, copying, running, spoilt |
| `MC...` | the module TLC runs; constants are in the `.cfg` files |

Each module also has definitions no action uses, placed right before the one
they resemble (`Newest` before `Oldest`, `RotateKeyUnsaved` before `RotateKey`). They
are faulty variants: put in the place of the real definition, each makes TLC
report the property `PROJECT.json` names under `mutants`. They show that the
property depends on that piece of code.

### MetricsPipeline

A row is its timestamp, its `sent` flag and whether its payload parses again (a
NaN, serialised as `null`, does not). A message is the set of row ids it carries,
the empty set for heartbeats and answers. Each SQL statement is one action.

* Collection task: `StoreSample`, `StoreFails`, `RunCleanup`, `RunCleanupSent`; `collector`
  and `cleanupTick` say where it is.
* Push task: `push` says where it is (`b_...` backfill, `s_...` steady state) and
  `batch` what it has read. `BackfillRead`/`SteadyRead`, `BackfillSend`/`SteadySend`,
  the closed channel, `Mark`, and the failing read and mark. Between a read, the
  send and the mark everything else may happen.
* `EndConnection` aborts the push task. When it waits for `mark_sent`, the closure
  is already on the blocking pool and runs on: it moves to `jobs` and is executed
  by `DetachedMark` at any later time, under a later connection too.
* Link: `Connect`, `SenderWrites`, `GatewayReceives`; `LinkBreaks` makes it half-open
  (writes vanish, `SenderWritesInVain`, until the sender's write or the read errors);
  `GatewayCloses`; `Crash` loses everything but the table.

Not timed: sleeps and intervals are "some later moment". Taking the time stamp
and storing the sample are one step, since only the collection task stores.

### AgentConnection

Keys are numbered as the gateway issues them. `mem`, `disk` and `snapshot` are
the three places the agent has credentials in. `phase` is the connection loop.
A `rotate_key` request is a task of its own (`rotations`) which outlives its
connection; then its answer has nowhere to go (`live`). `Save` writes the temp file
and renames it, so the file has the old content or the new one.

The gateway is external. It is assumed to trade a token once, to send the
next rotation of a connection after the answer to the one before, to accept old
and new key until then, and to treat a lost connection's messages as lost. Nothing
else about it matters to the results. `spoilt` is a history variable that names the
known ways credentials go bad; the properties say that there is no other.

### ShellSessions

A session is numbered and keeps its `shell_id`. Per session: how far the opening
handler has come, the two descriptors of the PTY's master side, the read thread
(`check` the flag, `poll`, `send`, `cleanup`, `remove`), bash, and whether there is
output or no room for input. `writers` hold a reference into the map, which is a
read lock on a shard; `Insert`, `CloseRemoves` and `ReaderRemoves` need it exclusively.
All ids are put in one shard, the worst case. bash may ignore SIGTERM, which
interactive shells do, and it survives the close of the agent's two master
descriptors: `openpty` does not make the master close-on-exec and `pre_exec`
(shell.rs:79-88) does not close it, so that bash inherits a copy of its own master
and is never hung up. No action ends it, therefore, but `ChildExits` and the SIGTERM
of `CloseSignals`. The read thread hangs up when bash has exited and the handler has
dropped the slave descriptors of its `Command` (`HungUp`); output not read by then is
lost. It also ends when its poll or read fails (`ReaderFails`). `StartFails` has the three
ways the opening handler gives up, with what each leaves open.
`shell.resize` is no action: it changes the window size in the kernel and nothing
here, and `FdsInUseAreOpen` says that the descriptor it would find is open.

### Uploads

An upload is numbered and brings its own content; request 0 of it is
`fs.upload.start`, 1..Chunks are its chunks, the last one is `fs.upload.end`.
`task` says where each request is, `uploads` is the map, `transfer` the
`UploadTransfer` (hash, file, and the write tokio has handed to a blocking
thread), `files` and `data` the file system.

* `CreateFile`, `InsertTransfer`: start, first the file and then the map.
* `TakeTransfer`, `WriteChunk`, `SeekFails`: a chunk takes its entry, and with it
  the lock of the shard (`locked`), waits for the write before, reports that
  one's error in its own place (`failed`), hands over its own and is hashed.
* `EndTakesOut`, `EndFlushes`, `EndMoves`, `EndCopies`, `EndDiscards`: end. The `mv` of a
  sudo upload renames the temporary file, or, to another filesystem, puts a new file
  in the destination's place, copies into it (`moving`) and unlinks the temporary one.
  It may break off in between; then a part is at the destination. `EndDiscards` removes
  the file, or does not: the code ignores the error. Both are noted in `left`.
* `Blocks`: whoever needs the map while it is locked blocks its worker thread;
  with `Workers` of them blocked no task is polled (`CanRun`).
* `WriteLands`, `WriteFails`: the blocking thread.

All ids are put in one shard, as in `ShellSessions`. `raced`, `lost` and `left` are
history: uploads to one path at the same time, writes that failed, and uploads whose
`mv` broke off or whose file could not be removed.

### Updater

`step` is where each updater is in `check_and_update`: the check after a
connection, a `self_update`, `nobase update`. Files have contents in blocks, so
that a file can be a mixture; `path` says what `/tmp/nobase-update` and the
installed binary are; `exe` which file the agent and the command execute, which
decides whether a copy may open the binary (`Executed`) and whether it can be
started (`Written`, `Startable`). Each system call is one action (`write` and `copy`
two: open and truncate, then data). `Restart` is `systemctl restart`: it ends the
agent's process with all its updaters, and systemd (`AgentStarts`) starts
whatever is installed by then. `AgentDies`, `CliDies` kill a process anywhere.

`UpdateContract` is what the comment "Atomic replace" (updater.rs:145) promises: it
has no files or updaters, only versions. A version is installed at once, or by a copy
that makes the binary unusable while it lasts; an agent starts with what is
installed and runs it until it stops. `VersionOf` is the version a file is, if any;
`spoilt` is `raced` or `torn`. Only a published version is installed, but not always a
newer one: an updater that was slow may bring back the one it has downloaded.

### Streams

A request has a `kind` and up to three tasks: the `handler` that answers it, the
`task` that ends the stream, and for `exec.stream` a `reader` per pipe. All of them
send to one bounded `channel` (`Sends` waits for room and, when the connection is
gone, fails at once). The command and what it leaves in the background are the
`writers` of its pipes; a pipe is at its end when there are none. `exec` and
`docker.logs` without follow collect in the handler (`Collect`, `Collected`,
`TimesOut`). A download reads the size, opens the file and reads it, in three steps,
while the file may change (`ChangeFile`). `got` is what the gateway has received.

`StreamContract` knows no tasks, channel or connection: a pipe offers more, its next
chunk is received, the stream ends or fails, its source is spoilt. Under the mapping
a pipe offers what was written to it (a file what was announced: `Offered`), and
what is spoilt are the requests in `faulty` and `changed`. It says at once what
`EndIsLast`, `InOrder` and `EndIsComplete` say singly, and besides that nothing more is
written to a stream that has ended and that `failed_end` is told only of a stream
whose read failed or whose file changed.

## 3. Runs

| Run | Shows | Bounds |
|---|---|---|
| `pipeline` | `TypeOK`, `SentWasHandedOver`, `NoRowVanishes`, `OnlyFaultsLose`, `InFlightInOrder`, `NoResendOnConnection`, the action properties `ExpiryIsByAge`, `BackfillDrains`, implements `MetricsContract`, and under fairness `Drains` | 3 samples, one unparsable, clock 0..1, retention 0, one fault, one failing buffer call, channel and socket of one message, chunks of 2 |
| `agent` | `TypeOK`, `NotLockedOut`, `RestartSafe`, `LoadableAlways`, `BackoffDoubles`, and under fairness `ComesBack` | 4 keys, 4 faults, 2 failing saves, backoff cap 5 |
| `shells` | `TypeOK`, `FdsInUseAreOpen`, `RegistryIsExact`, and under fairness `ClosedShellsAreLetGo`, `ExitedShellsLeave` | 2 sessions with one id, one lost connection |
| `uploads` | `TypeOK`, `HashedOnce`, `CompleteStays`, `RefusedLeavesNothing`, the action property `CompleteIsOnDisk`, and under fairness `RequestsAnswered` | 2 uploads of 2 chunks with one id and one path, 2 requests under way, 2 workers, 1 failing call |
| `updater` | `TypeOK`, `InstalledIsWhole`, implements `UpdateContract`, and under fairness `UpdateTakesEffect`, `ReachesLatest` | the check and `nobase update`, 3 versions of 1, 2, 1 blocks, 1 failing call or killed process |
| `streams` | `TypeOK`, `EndIsComplete`, the action properties `EndIsLast`, `InOrder`, implements `StreamContract`, and under fairness `StreamsEnd`, `Answered`, `NobodyWaits` | one request of any kind, channel and pipes of 1, 3 chunks a pipe, 1 failing call |
| `never_lose` | violation: rows are marked sent at the channel, not at the gateway (README:123) | 2 samples, 1 fault |
| `backfill_corrupt` | violation: backfill reports completion with readable rows left | chunk of 1, one unparsable row, no fault |
| `shell_reopen` | violation: a read thread removes a newer session (shell.rs:179) | as `shells` |
| `upload_stall` | violation: a chunk that holds its entry across an await stops the runtime (fs.rs:851) | 1 worker, 2 requests under way, no error |
| `update_fallback` | violation: the copy that stands in for the rename is refused (updater.rs:151) | 2 versions, no error |
| `update_answer` | violation: a `self_update` is ended by its restart before it answers (dispatcher.rs:136) | 2 versions, 2 updaters of the agent, no error |

Why the bounds are enough to be interesting: a fault lets a `mark_sent` of the
first connection meet the batch of the second; three samples and chunks of two
make partial chunks and two batches in flight; a channel of one message makes
every send wait. Four faults let the backoff go 1, 2, 4, 5 (capped), and two
rotations of lost connections race a third. Two sessions are all the rivals the
code distinguishes. A larger instance of `pipeline` for its safety properties (two
faults, clock 0..2, retention 1; a million states) and larger ones of `agent` (five
keys or faults) were run with the same result; and what is proved of them (section 4)
holds whatever the bounds. The constants are
scaled down from 300 (chunk), 256 (channel), 24 h (retention), 300 s (backoff);
the code compares and counts with them and does nothing else.

In `uploads` two uploads with one id are all the rivals there are, and two
workers are one for each request under way, the least that `RequestsAnswered`
needs; `upload_stall` has one less. In `updater` the second version is longer than
its neighbours, so that writing over a file that was not truncated would show; a
third updater adds only more of the races that `raced` already excuses. In
`streams` a single request already meets every interleaving of its own tasks, and
other requests reach it only through the channel, where `OtherTraffic` puts a
message whenever there is room; three chunks against places for one make every
writer and reader wait.

Deadlock checking is off in `agent`, `shells`, `uploads` and `streams`: when the
bounds on faults, sessions and uploads are used up, an idle agent has nothing
to do. In `updater` it is on: the agent can always check again.

Each violated property states what a comment, or the repository's README, says of the
program; `PROJECT.json` quotes the line under `findings`.

The passing runs excuse some outcomes by name, in history variables that no guard
reads. These outcomes do happen, in the models as in the code, and the properties do
not cover them: what they say is that nothing else goes wrong.

| Excuse | What it stands for |
|---|---|
| `spoilt` (agent) | a registration lost or not saved before it was on disk; a rotation that was not saved and is in memory only; one that was overtaken by a later one (connection.rs:386, 447, dispatcher.rs:120) |
| `raced` (shells) | two sessions with one id at once; a session that was over before it entered the map and stays in it (shell.rs:40, 187) |
| `raced` (uploads) | two uploads with one id or path at once (fs.rs:834) |
| `lost`, `left` (uploads) | a write that failed behind an answer that had accepted its chunk, so that the upload is complete for the gateway and not on disk (fs.rs:862); an `mv` that broke off, a file that could not be removed (fs.rs:904, 915) |
| `raced`, `torn` (updater) | two updaters that share the temporary file, so that one installs what the other has truncated; a copy cut short (updater.rs:148, 151) |
| `unrestarted` (updater) | "updated" although the restart was refused; no later check makes up for it (updater.rs:109, 166) |
| `faulty`, `changed` (streams) | a read that failed; a file that changed during its download (fs.rs:980) |

Others are conditions of a property: bash reads its input (shell.rs:223), the pipes
of a command close (exec.rs:235), the backoff starts anew with the age of the attempt,
the dial included (connection.rs:95), a refused connection stays open (connection.rs:427).
`hazards` in `PROJECT.json` says of each which it is.

### Fairness

* Tasks of the runtime that can run do run: weak fairness of each step of the
  push task, of `Mark`, of the sender, of the read thread. A failing call is
  never fair.
* Sending into the channel is strongly fair: tokio's mpsc hands out capacity
  first in, first out, so that heartbeats and streams cannot overtake a waiting
  push for ever.
* The lock on a shard is strongly fair to `Insert` and `ReaderRemoves` (`shells`).
* The outside: the gateway reads and answers, accepts a connection sooner or
  later, a broken socket errors sooner or later (heartbeats keep writing to it),
  and bash reads its input sooner or later. The last is an assumption that nothing
  in the code justifies: without it a write keeps the map locked and a closed shell is
  never let go (hazard at `shell.rs:223`). With one id there is one write at a time; with
  more, writers that overlap for ever could keep the lock shared, which the strong
  fairness of `Insert` and `ReaderRemoves` rules out.
* `uploads`: a request that can go on does, and so does a blocking thread. This
  presumes a free worker: it is what `CanRun` says and what `upload_stall` lacks.
* `updater`: an updater goes on, systemd starts the agent when it can
  (`Restart=always`), and a started agent connects and checks once.
* `streams`: tasks and readers go on, the timeout of `exec` expires, the gateway
  reads (`Deliver`), and room in the channel is handed out in turn (strong
  fairness of the sends). No command has to end and nothing has to be written.
* Faults are bounded, so "once faults are over" is `faults = MaxFaults`.

## 4. What is proved

`MetricsPipelineProofs` proves, for every value of the constants allowed by the
four named assumptions of `MetricsPipeline` (positive limits and capacities,
natural ages and bounds):

* `TypeCorrect`: `TypeOK`;
* `SentRowsWereHandedOver`, `RowsDoNotVanish`, `OneSendPerConnection`,
  `LiveConnectionsLoseNothing`: the four safety invariants;
* `ExpiryOnlyByAge`: the action property `ExpiryIsByAge`;
* `PipelineImplementsContract`: every behaviour of the pipeline is one of
  `MetricsContract`, with kept = unsent rows, transit = rows in channel and socket.

The inductive invariant `IInv` strengthens them. `SentWasHandedOver` alone is not
inductive: a `Mark` or `DetachedMark` marks whatever `batch` or `jobs` hold, so
`IInv` says that a batch being marked, and every detached one, was handed over,
and that a batch read and every carried id was drawn from the table
(`Drawn`, `HandedOver`). `Accounted` is `NoRowVanishes` for the ids below `nextId`.
`NoResendOnConnection` needs that what this connection was sent is marked by the
time it reads again unless a mark failed (`SentIsMarked`). The refinement step uses
`IInv` for `Release` (only what was handed over is released) and for `Sample` (a new
id is unknown, which is what AUTOINCREMENT gives).

`AgentConnectionProofs` proves, for every bound that is a natural number:

* `TypeCorrect`: `TypeOK`;
* `FileStaysLoadable`: `LoadableAlways`;
* `AgentIsNotLockedOut`: `NotLockedOut`;
* `FileGetsBackIn`: `RestartSafe`.

The inductive invariant has three layers, each proved with the help of the ones
before. `Typed`: types, and nobody has a key that was not issued. `Ordered`: a
connection carries at most one message to the gateway, the rotation of this
connection is for the newest key and in one place, and there is nothing to rotate
before the registration has arrived. `KeysAreGood`, as long as nothing was lost or
overtaken (`Sound`): both copies get the agent in but for a failed save; a rotation
of an earlier connection has a good key or an older one than the file, so that
applying it either does no harm or is noticed as overtaking; and what the gateway is
about to be told is what the file says. Without the last part the two theorems are
not inductive: hearing "ok" makes the gateway drop every other key.

The proofs use the gateway's assumed behaviour (section 2), above all that it
waits for an answer before it rotates again on the connection.

`ShellSessionsProofs` proves, for any number of sessions and lost connections and any
set of ids but the empty one:

* `TypeCorrect`: `TypeOK`;
* `DescriptorsInUseAreOpen`: `FdsInUseAreOpen`;
* `TheMapIsExact`: `RegistryIsExact`.

`FdsInUseAreOpen` alone is not inductive: a session enters the map when its handler
inserts it, so `FdsAreOpen` says that the master is open from the start of the
session on, and that a session about to be closed is neither in the map nor being
written to. `RegistryIsExact` needs that a read thread which finds another session
under its id belongs to a raced one: `RivalsAreRaced` says that two sessions of an
id that are alive together are both in `raced`.

`UploadsProofs` proves, for any number of uploads, chunks, workers and failing calls,
and any set of `transfer_id`s but the empty one of which the destination is none
(`/tmp/<id>` and the destination are different files):

* `TypeCorrect`: `TypeOK`;
* `EachChunkHashedOnce`: `HashedOnce`;
* `CompleteUploadOnDisk`: the action property `CompleteIsOnDisk`;
* `RefusedUploadLeavesNothing`: `RefusedLeavesNothing`.

The type invariant needs to know which requests have been answered when another is
sent (`Ordered`) and that the map has started uploads only (`Started`): a transfer
without a file is never written to. The invariant of the others is about an upload
that is open and has met no other (`Sole`). It is the only one under way; the map has
it until its end takes it out (`Mapped`); its path names its file (`Filed`); the
hash has each accepted chunk once and nothing else (`Hashed`, whose size follows from
a bijection); and each of them is in the file, or is the one write that tokio has
still to do, or an earlier write failed (`Landed`). The last is what
`CompleteIsOnDisk` needs: the end flushes before it answers, so that the one
outstanding write is over. For an `mv` that copies it also needs that the source of
the copy is the file of the upload and the new file is in place (`Moving`), and that no
two paths name one file (`Apart`), whoever races.

`RefusedLeavesNothing` speaks of every path at every later moment, so its invariant
(`Contained`) goes on after the upload has met others: its chunks are in no file that
can still be reached (`Live`: by a path, or as the source of an `mv`) but its own, and
in none once it is refused; and no write of one is under way once its end has
flushed. Other uploads do not spread them: a step either adds no such chunk to a
live file (`Shrinks`), or copies a live file, which has none.

`UpdaterProofs` proves, for any set of updaters of the agent, any number and sizes of
versions, and any number of failures and killed processes:

* `TypeCorrect`: `TypeOK`;
* `InstalledStaysWhole`: `InstalledIsWhole`;
* `UpdatesKeepContract`: every behaviour is one of `UpdateContract` (`InstallsAtomically`).

`InstalledIsWhole` is not inductive: a rename installs whatever `/tmp/nobase-update`
is. `Intact` says that, unless updaters raced or a copy was cut short, one updater at
most replaces the binary (`Alone`) and what its file is at each step (`Stage`): empty
when it is opened, a whole version once it is written, executable when it is moved,
and still there while it is copied. Type correctness needs that the temporary path
never names the installed file: the rename moves the name away. `Files` bounds how
many files can be in use at once; when there are as many, `OpenTmp` waits.

The contract needs two invariants more, which hold even if updaters race. `TextBusy`:
a file that is open for writing, or that the temporary path names, is not executed;
this is why what the agent runs does not change under it, and why `ChmodBinary`, the
one step that may touch an executed file, must find it executable already
(`Intact`). `OnlyPublished`: every block of every file is of a published version. The
refinement then goes by what an updater does (`PreparesUnseen`, `InstallsSeen`) and
what leaves the files alone (`HarmlessSeen`); a step that races or tears is `Spoil`.

`StreamsProofs` proves, for any requests, capacities, amount of output and failures:

* `TypeCorrect`: `TypeOK`, which says that the channel keeps to its capacity;
* `ChunksInOrder`, `EndComesLast`: the action properties `InOrder`, `EndIsLast`;
* `EndedIsComplete`: `EndIsComplete`;
* `StreamsKeepContract`: every behaviour is one of `StreamContract` (`KeepsContract`).

These speak of what arrives, so the invariant has to say what is under way. `Stands`
relates a request's handler, task and readers. `ChainOf`: the chunks of a pipe in the
channel follow what has arrived and each other without a gap, and while the
connection is up they reach as far as the reader has sent. `EndOf`: no chunk of a
stream is behind its end, of which there is one, and its task is over. `DrainOf`: while the connection is up
and no read has failed, a reader that is done has read all there will ever be, so
has a task about to send the end, and this stays so until the end has arrived. The
condition on the connection is essential: without one the sends fail at once and
the readers stop early, but no end can arrive any more. The refinement also needs
that a failure is real (`FailuresAreReal`): a task that failed on a live connection, and
so every `failed_end` under way, has its stream in `faulty` or `changed`; a download
about to open its file finds it unless it was changed since the size was read. Then
each step is mapped: a write and the start of a download are `Offer`, a failed read
and a change of the file `Spoil`, a delivery `Receive`, `End` or `FailedEnd`, according to
the message, and all others leave the contract's variables alone (`ContractStep`).

Two more results need the least number of a set (`LeastNumber`), which stands in for
induction, since the library's induction theorems are out of the provers' reach:

* `MetricsPipelineProofs!BackfillDrainsTheTable`: `BackfillDrains`, if `MaxCorrupt` is
  less than `Chunk`. Backfill stops when `get_unsent` returns nothing, that is when
  the first `Chunk` unsent rows all fail to parse. If a readable row were left, the
  least of them would have only rows before it that do not parse, fewer than `Chunk`,
  and would have been returned. The invariant it needs is `CorruptBounded`. Run
  `backfill_corrupt` has as many such rows as the chunk has places and violates it, so
  that the condition is exactly what the code relies on without saying so.
* `AgentConnectionProofs!BackoffIsExponential`: `BackoffDoubles`. The provers know
  nothing of exponentiation, so the property has a recursive function, `PowerOfTwo`,
  whose existence is proved first (`PowerOfTwoDef`) from its initial segments. The
  invariant `Backoff` adds that outside of the wait the backoff has been doubled
  already, and that capping before or after doubling is the same (`CappedDoubling`).

`MetricsPipelineProofs!SentInOrder` proves `InFlightInOrder`. Its invariant `InOrder`
says that what a connection was sent is older than the batch in hand, and that
older than every readable row not yet marked (`SentComesFirst`). This holds because a
read returns no row while an older readable one is left (`OldestFirst`, by counting
the older rows), new rows have greater ids, and a detached mark, a clean-up or a
deletion only takes rows away. It fails with a failed mark, which the property
excuses: the rows are read again and go out behind younger ones.

TLC checked each invariant, the strengthenings too, before it was proved. Every
invariant but `CompleteStays` and every action property of the passing runs is stated
by a theorem, and so are the refinements of `MetricsContract`, `StreamContract` and `UpdateContract`. Only
model-checked are the liveness properties
(`Drains`, `ComesBack`, `ClosedShellsAreLetGo`, `ExitedShellsLeave`, `RequestsAnswered`,
`UpdateTakesEffect`, `ReachesLatest`, `StreamsEnd`, `Answered`, `NobodyWaits`), which are
out of the proof system's reach. `CompleteStays` is model-checked too. `BackfillDrains` has the condition named above.

## 5. What the models leave out

* Power loss: SQLite in WAL mode with `synchronous=NORMAL` may lose the last
  transactions, and a renamed binary may be empty (`updater.rs` does not sync);
  `Crash`, `AgentDies` are the death of the process.
* A clock that goes backwards, and timestamps compared as strings.
* A poisoned mutex and panicking tasks.
* Contents of samples, commands and files; configuration other than credentials.
* A rotation to an empty key (the agent would store it); process ids.
* Several concurrent writes to one shell, background processes that keep the PTY
  open after bash, and slave descriptors that another bash has inherited.
* Rates: a backlog that the steady state sends as fast as samples come in.
* Files that an upload's path names besides the uploads' own; an upload whose
  offsets overlap; a transfer that is never ended (its entry stays for good).

### Not modelled

* Metrics sampling (`handlers/metrics.rs`): reads /proc and the output of tools. Its
  caches are replaced as a whole under a lock; concurrent collections may probe
  twice and leave the older result, and nothing promises otherwise.
* File operations, Docker queries: sequences of system calls or API calls, answered
  once, with no state in the agent.
* Dispatch and protocol types: a table and serialisable records.
* `nobase start`, `stop`, `uninstall`, `metrics`: run `systemctl` or print.
* The installer and the release workflow: used for the unit and the initial file.

## 6. Plan

All components that keep state are modelled, and every safety property but
`CompleteStays` is proved.
What is left, in order:

1. An abstract upload (started, complete or refused) that `Uploads` implements, with
   the refinement proved.
2. A composition of `MetricsPipeline` and `AgentConnection`, for pushes before the
   gateway has accepted the key.
