------------------------------ MODULE Uploads ------------------------------
(***************************************************************************)
(* Chunked uploads (src/src/handlers/fs.rs): the map of transfers, the     *)
(* tasks that handle fs.upload.start, fs.upload.chunk and fs.upload.end,   *)
(* the files they write, and the worker threads they run on.               *)
(*                                                                         *)
(* An upload is numbered; it brings its own content, chunk by chunk, to    *)
(* the one path Target.  Request 0 of an upload is its start, requests     *)
(* 1..Chunks its chunks, the last one its end.  UPLOADS is a DashMap: a    *)
(* chunk keeps its entry, and with it the shard, locked across its awaits, *)
(* and whoever else needs the shard blocks a worker thread.                *)
(*                                                                         *)
(* External, from tokio: write_all on a file returns when the data is      *)
(* handed to a blocking thread; whether that write fails is found out by   *)
(* the next write or flush, and the next operation waits for it.  And from *)
(* mv: within a filesystem it renames; to another one, which /tmp may be,  *)
(* it replaces the destination by a new file, copies into it and unlinks.  *)
(***************************************************************************)
EXTENDS Naturals, Sequences, FiniteSets, Functions

CONSTANTS
  Ids,          \* the transfer_ids, all in one shard
  Target,       \* the path all uploads go to
  Chunks,       \* chunks of an upload
  Workers,      \* worker threads of the runtime
  Window,       \* requests the gateway leaves unanswered at a time
  MaxUploads,   \* bound: uploads
  MaxErrors     \* bound: failing system calls

ASSUME UploadPaths == Target \notin Ids /\ Ids # {}
ASSUME UploadBounds ==
  /\ Chunks \in Nat \ {0} /\ Workers \in Nat \ {0} /\ Window \in Nat
  /\ MaxUploads \in Nat /\ MaxErrors \in Nat

VARIABLES
  uploads,    \* UPLOADS: from transfer_id to upload
  transfer,   \* the UploadTransfer of each upload
  task,       \* the requests of each upload
  files,      \* the file (inode) each path names, 0 for none
  data,       \* the content of each file: whose chunk is at which place
  errors,
  \* history, read by no action's guard
  raced,      \* uploads that met requests or writes of another one
  lost,       \* uploads of which a write has failed
  left        \* uploads whose mv broke off, or that could not be removed

vars == <<uploads, transfer, task, files, data, errors, raced, lost, left>>

Uploads == 1..MaxUploads
End == Chunks + 1
Requests == 0..End
Paths == Ids \cup {Target}
Chunk == Uploads \X (1..Chunks)
NoChunk == <<0, 0>>

\* The files: one that the start of an upload may make, one that its mv may.
Files == 1..(2 * MaxUploads)
MovedFile(n) == MaxUploads + n

Transfer == [
  id      : Ids,
  sudo    : BOOLEAN,
  file    : Files \cup {0},
  hasher  : Seq(Chunk),
  writing : Chunk \cup {NoChunk},   \* handed to a blocking thread
  failed  : BOOLEAN,                \* an error nobody has been told of
  ending  : 0..MaxUploads,          \* the upload fs.upload.end took out
  source  : Files \cup {0}]         \* the file its mv copies

Answered == {"ok", "error", "unflushed"}
Step == {"unsent", "new", "created", "blocked", "locked", "flush", "move",
         "moving", "mismatch", "unmoved"} \cup Answered

TypeOK ==
  /\ uploads \in [DOMAIN uploads -> Uploads]
  /\ DOMAIN uploads \subseteq Ids
  /\ transfer \in [Uploads -> Transfer]
  /\ task \in [Uploads -> [Requests -> Step]]
  /\ files \in [Paths -> Files \cup {0}]
  /\ data \in [Files -> [1..Chunks -> 0..MaxUploads]]
  /\ errors \in 0..MaxErrors
  /\ raced \subseteq Uploads /\ lost \subseteq Uploads /\ left \subseteq Uploads

Empty == [k \in 1..Chunks |-> 0]

Init ==
  /\ uploads = << >>
  /\ transfer = [n \in Uploads |->
       [id |-> CHOOSE id \in Ids : TRUE, sudo |-> FALSE, file |-> 0,
        hasher |-> << >>, writing |-> NoChunk, failed |-> FALSE, ending |-> 0,
        source |-> 0]]
  /\ task = [n \in Uploads |-> [k \in Requests |-> "unsent"]]
  /\ files = [p \in Paths |-> 0]
  /\ data = [f \in Files |-> Empty]
  /\ errors = 0
  /\ raced = {} /\ lost = {} /\ left = {}

WritePath(n) == IF transfer[n].sudo THEN transfer[n].id ELSE Target
Outstanding(n, k) == task[n][k] \notin {"unsent"} \cup Answered
Goes(n, k, s) == task' = [task EXCEPT ![n][k] = s]
Error == errors < MaxErrors /\ errors' = errors + 1

BlockedWorkers ==
  Cardinality({r \in Uploads \X Requests : task[r[1]][r[2]] = "blocked"})

CanRunWithOneLess == BlockedWorkers + 1 < Workers

\* A worker thread is free to poll the task.
CanRun == BlockedWorkers < Workers

\* A chunk holds its entry of the map.
Locked == \E n \in Uploads, k \in 1..Chunks : task[n][k] = "locked"

-----------------------------------------------------------------------------
(* The gateway.  It waits for the answer to the start, sends the chunks in *)
(* order, sends again what was refused, and ends when all are accepted.    *)

Open(n) == task[n][0] # "unsent" /\ task[n][End] \notin Answered

Busy(n) ==
  (\E k \in Requests : Outstanding(n, k)) \/ transfer[n].writing # NoChunk

Send(n, k) ==
  /\ Cardinality({r \in Uploads \X Requests : Outstanding(r[1], r[2])})
       < Window
  /\ Goes(n, k, "new")
  /\ raced' = raced \cup {m \in Uploads \ {n} : Open(m)}
                    \cup (IF \E m \in Uploads \ {n} : Busy(m) THEN {n} ELSE {})
  /\ UNCHANGED <<uploads, files, data, errors, lost, left>>

SendStart(n, id, sudo) ==
  /\ \A m \in Uploads : task[m][0] = "unsent" <=> m >= n
  /\ Send(n, 0)
  /\ transfer' = [transfer EXCEPT ![n].id = id, ![n].sudo = sudo]

SendChunk(n, k) ==
  /\ task[n][0] = "ok" /\ task[n][End] = "unsent"
  /\ task[n][k] \in {"unsent", "error"}
  /\ \A j \in 1..(k - 1) : task[n][j] = "ok" \/ Outstanding(n, j)
  /\ Send(n, k)
  /\ UNCHANGED transfer

SendEnd(n) ==
  /\ \A k \in 0..Chunks : task[n][k] = "ok"
  /\ task[n][End] = "unsent"
  /\ Send(n, End)
  /\ UNCHANGED transfer

-----------------------------------------------------------------------------
(* The lock of the shard.                                                  *)

\* Where a request first needs the map: a start when its file is there.
AtMap(n, k) == task[n][k] = (IF k = 0 THEN "created" ELSE "new")

Blocks(n, k) ==
  /\ AtMap(n, k) /\ CanRun /\ Locked
  /\ Goes(n, k, "blocked")
  /\ UNCHANGED <<uploads, transfer, files, data, errors, raced, lost, left>>

\* A blocked task has a worker of its own.
GetsMap(n, k) ==
  ~Locked /\ (task[n][k] = "blocked" \/ (AtMap(n, k) /\ CanRun))

-----------------------------------------------------------------------------
(* fs.upload.start                                                         *)

\* File::create truncates the file the path names, or makes a new one.
CreateFile(n) ==
  /\ task[n][0] = "new" /\ CanRun
  /\ LET p == WritePath(n)
         f == IF files[p] = 0 THEN n ELSE files[p]
     IN  /\ files' = [files EXCEPT ![p] = f]
         /\ data' = [data EXCEPT ![f] = Empty]
         /\ transfer' = [transfer EXCEPT ![n].file = f]
  /\ Goes(n, 0, "created")
  /\ UNCHANGED <<uploads, errors, raced, lost, left>>

CreateFails(n) ==
  /\ task[n][0] = "new" /\ CanRun
  /\ Error
  /\ Goes(n, 0, "error")
  /\ UNCHANGED <<uploads, transfer, files, data, raced, lost, left>>

\* A transfer of the same id is replaced; its last write goes on.
InsertTransfer(n) ==
  /\ GetsMap(n, 0)
  /\ uploads' = [i \in DOMAIN uploads \cup {transfer[n].id} |->
                   IF i = transfer[n].id THEN n ELSE uploads[i]]
  /\ Goes(n, 0, "ok")
  /\ UNCHANGED <<transfer, files, data, errors, raced, lost, left>>

-----------------------------------------------------------------------------
(* fs.upload.chunk                                                         *)

Active(n) == transfer[n].id \in DOMAIN uploads
TransferFor(n) == uploads[transfer[n].id]

TakeTransfer(n, k) ==
  /\ GetsMap(n, k)
  /\ Goes(n, k, IF Active(n) THEN "locked" ELSE "error")
  /\ UNCHANGED <<uploads, transfer, files, data, errors, raced, lost, left>>

\* The seek waits for the write before; the write reports that one's error.
WriteChunkHashedFirst(n, k) ==
  /\ task[n][k] = "locked" /\ CanRun
  /\ LET m == TransferFor(n) IN
     /\ transfer[m].writing = NoChunk
     /\ transfer' = [transfer EXCEPT
          ![m].hasher = Append(@, <<n, k>>), ![m].failed = FALSE,
          ![m].writing = IF transfer[m].failed THEN NoChunk ELSE <<n, k>>]
     /\ Goes(n, k, IF transfer[m].failed THEN "error" ELSE "ok")
  /\ UNCHANGED <<uploads, files, data, errors, raced, lost, left>>

WriteChunkPastItsPlace(n, k) ==
  /\ task[n][k] = "locked" /\ CanRun
  /\ LET m == TransferFor(n) IN
     /\ transfer[m].writing = NoChunk /\ ~transfer[m].failed
     /\ transfer' = [transfer EXCEPT ![m].hasher = Append(@, <<n, k>>),
                                     ![m].writing = <<n, k + 1>>]
  /\ Goes(n, k, "ok")
  /\ UNCHANGED <<uploads, files, data, errors, raced, lost, left>>

WriteChunk(n, k) ==
  /\ task[n][k] = "locked" /\ CanRun
  /\ LET m == TransferFor(n) IN
     /\ transfer[m].writing = NoChunk
     /\ \/ /\ ~transfer[m].failed
           /\ transfer' = [transfer EXCEPT ![m].hasher = Append(@, <<n, k>>),
                                           ![m].writing = <<n, k>>]
           /\ Goes(n, k, "ok")
        \/ /\ transfer[m].failed
           /\ transfer' = [transfer EXCEPT ![m].failed = FALSE]
           /\ Goes(n, k, "error")
  /\ UNCHANGED <<uploads, files, data, errors, raced, lost, left>>

SeekFails(n, k) ==
  /\ task[n][k] = "locked" /\ CanRun
  /\ transfer[TransferFor(n)].writing = NoChunk
  /\ Error
  /\ Goes(n, k, "error")
  /\ UNCHANGED <<uploads, transfer, files, data, raced, lost, left>>

-----------------------------------------------------------------------------
(* fs.upload.end                                                           *)

EndTakesOut(n) ==
  /\ GetsMap(n, End)
  /\ IF Active(n)
     THEN /\ uploads' = Restrict(uploads, DOMAIN uploads \ {transfer[n].id})
          /\ transfer' = [transfer EXCEPT ![n].ending = TransferFor(n)]
          /\ Goes(n, End, "flush")
     ELSE /\ Goes(n, End, "error")
          /\ UNCHANGED <<uploads, transfer>>
  /\ UNCHANGED <<files, data, errors, raced, lost, left>>

Content(n) == [k \in 1..Chunks |-> <<n, k>>]

\* flush, sync_all, and the comparison of the hash.
Verified(n, t) ==
  CASE t.hasher # Content(n) -> "mismatch"
    [] t.sudo -> "move"
    [] OTHER -> "ok"

\* The hasher is finalized when the checksum is compared, or dropped.
EndsHash(n) ==
  transfer' = [transfer EXCEPT ![transfer[n].ending].hasher = << >>]

EndDoesNotFlush(n) ==
  /\ task[n][End] = "flush" /\ CanRun
  /\ Goes(n, End, Verified(n, transfer[transfer[n].ending]))
  /\ EndsHash(n)
  /\ UNCHANGED <<uploads, files, data, errors, raced, lost, left>>

EndFlushes(n) ==
  /\ task[n][End] = "flush" /\ CanRun
  /\ LET t == transfer[transfer[n].ending] IN
     /\ t.writing = NoChunk
     /\ \/ ~t.failed /\ Goes(n, End, Verified(n, t)) /\ UNCHANGED errors
        \/ t.failed /\ Goes(n, End, "unflushed") /\ UNCHANGED errors
        \/ ~t.failed /\ Error /\ Goes(n, End, "unflushed")
  /\ EndsHash(n)
  /\ UNCHANGED <<uploads, files, data, raced, lost, left>>

EndMovesOrLeaves(n) ==
  /\ task[n][End] = "move" /\ CanRun
  /\ \/ /\ files[transfer[n].id] # 0
        /\ files' = [files EXCEPT ![Target] = files[transfer[n].id],
                                  ![transfer[n].id] = 0]
        /\ Goes(n, End, "ok")
        /\ UNCHANGED errors
     \/ Error /\ Goes(n, End, "error") /\ UNCHANGED files
  /\ UNCHANGED <<uploads, transfer, data, raced, lost, left>>

\* sudo mv.  Without a temporary file it fails; it may fail anyway.
EndMoves(n) ==
  /\ task[n][End] = "move" /\ CanRun
  /\ LET f == files[transfer[n].id] IN
     \/ /\ f # 0
        /\ files' = [files EXCEPT ![Target] = f, ![transfer[n].id] = 0]
        /\ Goes(n, End, "ok")
        /\ UNCHANGED <<transfer, data, errors>>
     \/ /\ f # 0
        /\ files' = [files EXCEPT ![Target] = MovedFile(n)]
        /\ data' = [data EXCEPT ![MovedFile(n)] = Empty]
        /\ transfer' = [transfer EXCEPT ![n].source = f]
        /\ Goes(n, End, "moving")
        /\ UNCHANGED errors
     \/ /\ (f = 0 /\ UNCHANGED errors) \/ Error
        /\ Goes(n, End, "unmoved")
        /\ UNCHANGED <<files, transfer, data>>
  /\ UNCHANGED <<uploads, raced, lost, left>>

\* The first k chunks are copied.
Copied(n, k) ==
  data' = [data EXCEPT ![MovedFile(n)] =
             [j \in 1..Chunks |-> IF j > k THEN 0 ELSE data[transfer[n].source][j]]]

\* mv copies it all and unlinks the temporary file; or breaks off.
EndCopies(n) ==
  /\ task[n][End] = "moving" /\ CanRun
  /\ \/ /\ files[transfer[n].id] # 0
        /\ Copied(n, Chunks)
        /\ files' = [files EXCEPT ![transfer[n].id] = 0]
        /\ Goes(n, End, "ok")
        /\ UNCHANGED <<errors, left>>
     \/ /\ \/ files[transfer[n].id] = 0 /\ Copied(n, Chunks) /\ UNCHANGED errors
           \/ Error /\ \E k \in 0..Chunks : Copied(n, k)
        /\ Goes(n, End, "unmoved")
        /\ left' = left \cup {n}
        /\ UNCHANGED files
  /\ UNCHANGED <<uploads, transfer, raced, lost>>

DiscardsTarget(n) ==
  /\ task[n][End] \in {"mismatch", "unmoved"} /\ CanRun
  /\ files' = [files EXCEPT ![Target] = 0]
  /\ Goes(n, End, "error")
  /\ UNCHANGED <<uploads, transfer, data, errors, raced, lost, left>>

\* What the path names by now is removed, or nothing is said if that fails.
EndDiscards(n) ==
  /\ task[n][End] \in {"mismatch", "unmoved"} /\ CanRun
  /\ \/ /\ files' = [files EXCEPT ![WritePath(transfer[n].ending)] = 0]
        /\ UNCHANGED <<errors, left>>
     \/ Error /\ left' = left \cup {n} /\ UNCHANGED files
  /\ Goes(n, End, "error")
  /\ UNCHANGED <<uploads, transfer, data, raced, lost>>

-----------------------------------------------------------------------------
(* The blocking thread that writes.                                        *)

WriteLands(m) ==
  /\ transfer[m].writing # NoChunk
  /\ LET c == transfer[m].writing IN
       data' = [data EXCEPT ![transfer[m].file][c[2]] = c[1]]
  /\ transfer' = [transfer EXCEPT ![m].writing = NoChunk]
  /\ UNCHANGED <<uploads, task, files, errors, raced, lost, left>>

WriteFails(m) ==
  /\ transfer[m].writing # NoChunk
  /\ Error
  /\ transfer' = [transfer EXCEPT ![m].writing = NoChunk, ![m].failed = TRUE]
  /\ lost' = lost \cup {transfer[m].writing[1]}
  /\ UNCHANGED <<uploads, task, files, data, raced, left>>

-----------------------------------------------------------------------------
Serve(n, k) ==
  \/ k = 0 /\ (CreateFile(n) \/ CreateFails(n) \/ InsertTransfer(n))
  \/ k \in 1..Chunks /\ (TakeTransfer(n, k) \/ WriteChunk(n, k) \/ SeekFails(n, k))
  \/ k = End /\ \/ EndTakesOut(n) \/ EndFlushes(n)
                \/ EndMoves(n) \/ EndCopies(n) \/ EndDiscards(n)
  \/ Blocks(n, k)

Next ==
  \E n \in Uploads :
    \/ \E id \in Ids, sudo \in BOOLEAN : SendStart(n, id, sudo)
    \/ \E k \in 1..Chunks : SendChunk(n, k)
    \/ SendEnd(n)
    \/ \E k \in Requests : Serve(n, k)
    \/ WriteLands(n) \/ WriteFails(n)

Spec == Init /\ [][Next]_vars

\* Tasks are polled when a worker is free, a free shard is handed out, and a
\* blocking thread gets its write done or fails.
Fairness ==
  \A n \in Uploads :
    /\ \A k \in Requests : WF_vars(Serve(n, k))
    /\ WF_vars(WriteLands(n) \/ WriteFails(n))

FairSpec == Spec /\ Fairness

-----------------------------------------------------------------------------
Whole(n) == [k \in 1..Chunks |-> n]
OnDisk(n) == files[Target] # 0 /\ data[files[Target]] = Whole(n)

\* An upload that is answered as complete is on disk, whole, under its path:
\* all its writes have landed by then.  Not so when a write failed behind an
\* answer that had already accepted its chunk, or when another upload to the
\* same path or with the same id was under way.
CompleteIsOnDisk ==
  [][\A n \in Uploads \ (raced \cup lost) :
       task[n][End] # "ok" /\ task'[n][End] = "ok" => OnDisk(n)']_vars

\* Upload m may have touched what Target names: directly, or by its mv.
LetAtTarget(m) ==
  /\ task[m][0] # "unsent"
  /\ transfer[m].sudo =>
       task[m][End] \in {"moving", "ok"} \/ m \in left

\* A complete upload stays where it is until another one is let at its path.  One
\* with sudo is not before its mv: whatever is refused until then, and removed
\* after that, spares the file it was to replace.
CompleteStays ==
  \A n \in Uploads \ (raced \cup lost) :
    /\ task[n][End] = "ok"
    /\ \A m \in Uploads \ {n} : IF m < n THEN ~Open(m) ELSE ~LetAtTarget(m)
    => OnDisk(n)

\* Each chunk goes into the hash once, whatever was refused and sent again: a
\* checksum that does not match has been computed in another order than sent.
HashedOnce ==
  \A n \in Uploads \ raced :
    task[n][End] \in {"new", "blocked", "flush"} =>
      /\ Len(transfer[n].hasher) = Chunks
      /\ Range(transfer[n].hasher) = {<<n, k>> : k \in 1..Chunks}

\* An upload that is refused once its file is flushed leaves nothing of itself
\* under any path, neither at once nor later, unless its mv broke off (which
\* leaves a part at the destination) or the file could not be removed (which
\* nobody is told), or another upload was under way.
RefusedLeavesNothing ==
  \A n \in Uploads \ (raced \cup left) :
    task[n][End] = "error" =>
      \A p \in Paths : files[p] # 0 => \A k \in 1..Chunks : data[files[p]][k] # n

\* Every request is answered.  This needs a worker for every request that may
\* be under way: with fewer, a chunk that waits for its seek is never polled
\* again when the others wait for its lock.
RequestsAnswered ==
  \A n \in Uploads, k \in Requests :
    Outstanding(n, k) ~> ~Outstanding(n, k)
=============================================================================
