--------------------------- MODULE UploadsProofs ---------------------------
(***************************************************************************)
(* Proofs about Uploads for any transfer_ids, any number of uploads, of    *)
(* chunks, of workers and of failures, and any window.                     *)
(***************************************************************************)
EXTENDS Uploads, SequenceTheorems, FiniteSetTheorems, TLAPS

\* Where a request of an upload can be, and after which others.
Ordered(n) ==
  /\ task[n][0] \in {"unsent", "new", "created", "blocked", "ok", "error"}
  /\ \A k \in 1..Chunks :
       /\ task[n][k] \in {"unsent", "new", "blocked", "locked", "ok", "error"}
       /\ task[n][k] # "unsent" => task[n][0] = "ok"
       /\ task[n][k] = "locked" => Active(n)
  /\ task[n][End] \in {"unsent", "new", "blocked", "flush", "move", "moving",
                       "mismatch", "unmoved"} \cup Answered
  /\ task[n][End] # "unsent" => \A k \in 0..Chunks : task[n][k] = "ok"
  /\ task[n][0] # "ok" => transfer[n].hasher = << >> /\ transfer[n].writing = NoChunk
  /\ task[n][End] = "moving" => transfer[n].source # 0

\* The map has uploads that were started.
Started == \A i \in DOMAIN uploads : task[uploads[i]][0] = "ok"

\* The invariant that type correctness needs.
Typed == TypeOK /\ Started /\ \A n \in Uploads : Ordered(n)

\* An end that has come to its mv, or past it.
MoveBegun == {"moving", "unmoved"} \cup Answered

\* No file has two paths, nor one before the upload that makes it gets that far.
Apart ==
  /\ \A p, q \in Paths : files[p] = files[q] /\ files[p] # 0 => p = q
  /\ \A p \in Paths, m \in Uploads :
       /\ files[p] = m => task[m][0] \notin {"unsent", "new"}
       /\ files[p] = MovedFile(m) => task[m][End] \in MoveBegun

\* An upload that is under way and has met no other.
Sole(n) == n \notin raced /\ Open(n)

\* The chunks that have been accepted.
OkChunks(n) == {<<n, k>> : k \in {j \in 1..Chunks : task[n][j] = "ok"}}

\* The map has it, until its end takes it out for itself.
Mapped(n) ==
  /\ task[n][0] = "ok" /\ task[n][End] \in {"unsent", "new", "blocked"} =>
       Active(n) /\ TransferFor(n) = n
  /\ task[n][End] \in {"flush", "move", "moving", "mismatch", "unmoved"} =>
       transfer[n].ending = n

\* Its path names the file it writes.
Filed(n) ==
  task[n][0] \in {"created", "blocked", "ok"} =>
    transfer[n].file # 0 /\ files[WritePath(n)] = transfer[n].file

\* Chunks are hashed once when they are accepted.
Hashed(n) ==
  task[n][End] \in {"unsent", "new", "blocked", "flush"} =>
    LET h == transfer[n].hasher IN
      /\ \A i, j \in DOMAIN h : h[i] = h[j] => i = j
      /\ \A i \in DOMAIN h : h[i] \in OkChunks(n)
      /\ \A c \in OkChunks(n) : \E i \in DOMAIN h : h[i] = c

\* They are in the file by the time the next one is written, or the end has flushed.
Landed(n) ==
  /\ transfer[n].writing \in {NoChunk} \cup OkChunks(n)
  /\ n \notin lost =>
       \A k \in 1..Chunks : task[n][k] = "ok" =>
         data[transfer[n].file][k] = n \/ transfer[n].writing = <<n, k>>
  /\ task[n][End] \in {"move", "moving"} =>
       transfer[n].writing = NoChunk /\ transfer[n].sudo

\* While its mv copies, it copies this file to a new one that is in place already.
Moving(n) ==
  task[n][End] = "moving" =>
    transfer[n].source = transfer[n].file /\ files[Target] = MovedFile(n)

\* It has the map, its file, its hash and its writes for itself.
Undisturbed(n) ==
  /\ \A m \in Uploads \ {n} : ~Busy(m)
  /\ Mapped(n) /\ Filed(n) /\ Hashed(n) /\ Landed(n) /\ Moving(n)

\* So for every such upload.
SoleUndisturbed == \A n \in Uploads : Sole(n) => Undisturbed(n)

-----------------------------------------------------------------------------
(* Type correctness, and where the requests are.                           *)

\* A transfer whose fields are changed to others of their types stays one.
LEMMA TransferKept ==
  ASSUME TypeOK, NEW m \in Uploads
  PROVE  /\ \A id \in Ids, b \in BOOLEAN :
              [transfer EXCEPT ![m].id = id, ![m].sudo = b] \in [Uploads -> Transfer]
         /\ \A f \in Files \cup {0} :
              /\ [transfer EXCEPT ![m].file = f] \in [Uploads -> Transfer]
              /\ [transfer EXCEPT ![m].source = f] \in [Uploads -> Transfer]
         /\ \A h \in Seq(Chunk) : [transfer EXCEPT ![m].hasher = h] \in [Uploads -> Transfer]
         /\ \A h \in Seq(Chunk), w \in Chunk :
              [transfer EXCEPT ![m].hasher = h, ![m].writing = w] \in [Uploads -> Transfer]
         /\ \A b \in BOOLEAN : /\ [transfer EXCEPT ![m].failed = b] \in [Uploads -> Transfer]
                               /\ [transfer EXCEPT ![m].writing = NoChunk, ![m].failed = b]
                                    \in [Uploads -> Transfer]
         /\ [transfer EXCEPT ![m].writing = NoChunk] \in [Uploads -> Transfer]
         /\ \A e \in 0..MaxUploads :
              [transfer EXCEPT ![m].ending = e] \in [Uploads -> Transfer]
<1>1. transfer \in [Uploads -> Transfer]
  BY DEF TypeOK
<1>2. \A id \in Ids, b \in BOOLEAN :
        [transfer EXCEPT ![m].id = id, ![m].sudo = b] \in [Uploads -> Transfer]
  BY <1>1, ZenonT(60) DEF Transfer
<1>3. /\ \A f \in Files \cup {0} :
           /\ [transfer EXCEPT ![m].file = f] \in [Uploads -> Transfer]
           /\ [transfer EXCEPT ![m].source = f] \in [Uploads -> Transfer]
      /\ \A h \in Seq(Chunk) : [transfer EXCEPT ![m].hasher = h] \in [Uploads -> Transfer]
  BY <1>1 DEF Transfer
<1>4. \A h \in Seq(Chunk), w \in Chunk :
        [transfer EXCEPT ![m].hasher = h, ![m].writing = w] \in [Uploads -> Transfer]
  BY <1>1, ZenonT(60) DEF Transfer
<1>5. \A b \in BOOLEAN : /\ [transfer EXCEPT ![m].failed = b] \in [Uploads -> Transfer]
                         /\ [transfer EXCEPT ![m].writing = NoChunk, ![m].failed = b]
                              \in [Uploads -> Transfer]
  BY <1>1, ZenonT(60) DEF Transfer
<1>6. [transfer EXCEPT ![m].writing = NoChunk] \in [Uploads -> Transfer]
  BY <1>1 DEF Transfer
<1>7. \A e \in 0..MaxUploads : [transfer EXCEPT ![m].ending = e] \in [Uploads -> Transfer]
  BY <1>1 DEF Transfer
<1> QED BY <1>2, <1>3, <1>4, <1>5, <1>6, <1>7

\* A request goes on to another of the steps.
LEMMA StepTaken ==
  ASSUME TypeOK, NEW n \in Uploads, NEW k \in Requests, NEW s \in Step, Goes(n, k, s)
  PROVE  /\ task' \in [Uploads -> [Requests -> Step]]
         /\ task'[n][k] = s
         /\ \A m \in Uploads, j \in Requests : m # n \/ j # k => task'[m][j] = task[m][j]
BY DEF TypeOK, Goes

\* It goes to one of them only.
LEMMA GoesTo ==
  ASSUME TypeOK, NEW n \in Uploads, NEW k \in Requests, NEW s, NEW t,
         Goes(n, k, s), Goes(n, k, t)
  PROVE  s = t
BY DEF TypeOK, Goes

\* The numbers of the requests of an upload.
LEMMA RequestNumbers ==
  /\ 0 \in Requests /\ End \in Requests /\ 0 # End
  /\ \A k \in 1..Chunks : k \in Requests /\ k # 0 /\ k # End
  /\ \A k \in Requests : k = 0 \/ k \in 1..Chunks \/ k = End
  /\ 0..Chunks = {0} \cup 1..Chunks
BY UploadBounds DEF Requests, End

\* No upload is under way at first.
LEMMA TypedInitially == Init => Typed
<1> SUFFICES ASSUME Init PROVE Typed
  OBVIOUS
<1>1. uploads \in [{} -> Uploads] /\ DOMAIN uploads = {}
  BY DEF Init
<1>2. transfer \in [Uploads -> Transfer]
  <2>1. << >> \in Seq(Chunk) /\ (CHOOSE id \in Ids : TRUE) \in Ids /\ 0 \in 0..MaxUploads
    BY UploadPaths, UploadBounds, EmptySeq
  <2> QED BY <2>1 DEF Init, Transfer
<1>3. task \in [Uploads -> [Requests -> Step]]
  BY DEF Init, Step
<1>4. data \in [Files -> [1..Chunks -> 0..MaxUploads]]
  BY UploadBounds DEF Init, Empty
<1>5. files \in [Paths -> Files \cup {0}] /\ errors \in 0..MaxErrors
  BY UploadBounds DEF Init
<1>6. TypeOK
  BY <1>1, <1>2, <1>3, <1>4, <1>5 DEF Init, TypeOK
<1>7. Started /\ \A n \in Uploads : Ordered(n)
  BY <1>1, RequestNumbers DEF Init, Started, Ordered
<1> QED BY <1>6, <1>7 DEF Typed

\* An upload that nothing is done for is where it was.
LEMMA OrderedKept ==
  ASSUME NEW m \in Uploads, Ordered(m), \A k \in Requests : task'[m][k] = task[m][k],
         \/ task[m][0] = "ok"
         \/ transfer'[m].hasher = transfer[m].hasher
              /\ transfer'[m].writing = transfer[m].writing,
         transfer'[m].source = transfer[m].source,
         \A k \in 1..Chunks : task[m][k] = "locked" => Active(m)'
  PROVE  Ordered(m)'
BY RequestNumbers DEF Ordered

\* No map lookup succeeds while a chunk holds its entry.
LEMMA NoneLocked ==
  ASSUME ~Locked, NEW m \in Uploads, NEW k \in 1..Chunks
  PROVE  task[m][k] # "locked"
BY DEF Locked

\* A start that has been answered "ok" is not taken back.
LEMMA StartedKept ==
  ASSUME TypeOK, Started, uploads' = uploads,
         \A m \in Uploads : task[m][0] = "ok" => task'[m][0] = "ok"
  PROVE  Started'
BY DEF Started, TypeOK

\* The gateway sends.
LEMMA SendTyped ==
  ASSUME Typed, NEW n \in Uploads,
         \/ \E id \in Ids, sudo \in BOOLEAN : SendStart(n, id, sudo)
         \/ \E k \in 1..Chunks : SendChunk(n, k)
         \/ SendEnd(n)
  PROVE  Typed'
<1>0. TypeOK /\ Started /\ (\A m \in Uploads : Ordered(m)) /\ "new" \in Step
      /\ n \in Nat
  BY DEF Typed, Step, Uploads
<1>1. ASSUME NEW k \in Requests, Goes(n, k, "new"), raced' \subseteq Uploads,
             transfer' \in [Uploads -> Transfer], UNCHANGED <<uploads, files, data, errors, lost, left>>,
             \A m \in Uploads \ {n} : transfer'[m] = transfer[m],
             Ordered(n)', task[n][k] # "ok"
      PROVE  Typed'
  <2>1. task' \in [Uploads -> [Requests -> Step]] /\ TypeOK'
    BY <1>0, <1>1, StepTaken DEF TypeOK
  <2>2. \A m \in Uploads, j \in Requests : m # n \/ j # k => task'[m][j] = task[m][j]
    BY <1>0, <1>1, StepTaken
  <2>3. ASSUME NEW m \in Uploads, m # n PROVE Ordered(m)'
    <3>1. Active(m)' = Active(m)
      BY <1>1, <2>3 DEF Active
    <3> QED BY <1>0, <1>1, <2>2, <2>3, <3>1, OrderedKept DEF Ordered
  <2>4. Started'
    BY <1>0, <1>1, <2>2, RequestNumbers, StartedKept
  <2> QED BY <1>1, <2>1, <2>3, <2>4 DEF Typed
<1>2. ASSUME NEW k \in Requests, Send(n, k)
      PROVE  raced' \subseteq Uploads /\ Goes(n, k, "new")
             /\ UNCHANGED <<uploads, files, data, errors, lost, left>>
  BY <1>0, <1>2 DEF Send, TypeOK
<1>3. ASSUME NEW id \in Ids, NEW sudo \in BOOLEAN, SendStart(n, id, sudo) PROVE Typed'
  <2>1. task[n][0] = "unsent"
    BY <1>0, <1>3 DEF SendStart
  <2>2. transfer' = [transfer EXCEPT ![n].id = id, ![n].sudo = sudo]
    BY <1>3 DEF SendStart
  <2>3. transfer' \in [Uploads -> Transfer]
        /\ \A m \in Uploads \ {n} : transfer'[m] = transfer[m]
    BY <1>0, <2>2, TransferKept DEF TypeOK
  <2>4. transfer'[n].hasher = transfer[n].hasher /\ transfer'[n].writing = transfer[n].writing
    BY <1>0, <2>2 DEF TypeOK, Transfer
  <2>5. \A k \in 1..Chunks : task[n][k] = "unsent"
    BY <1>0, <2>1 DEF Ordered
  <2>6. task[n][End] = "unsent"
    BY <1>0, <2>1, RequestNumbers DEF Ordered
  <2>7. Goes(n, 0, "new") /\ 0 \in Requests
    BY <1>2, <1>3, RequestNumbers DEF SendStart
  <2>8. task'[n][0] = "new" /\ \A k \in Requests \ {0} : task'[n][k] = task[n][k]
    BY <1>0, <2>7, StepTaken
  <2>9. Ordered(n)'
    <3>1. transfer'[n].hasher = << >> /\ transfer'[n].writing = NoChunk
      BY <1>0, <2>1, <2>4 DEF Ordered
    <3> QED BY <2>5, <2>6, <2>8, <3>1, RequestNumbers DEF Ordered
  <2> QED BY <1>1, <1>2, <1>3, <2>1, <2>3, <2>7, <2>9 DEF SendStart
<1>4. ASSUME NEW k \in 1..Chunks, SendChunk(n, k) PROVE Typed'
  <2>1. k \in Requests /\ task[n][0] = "ok" /\ task[n][End] = "unsent"
        /\ task[n][k] \in {"unsent", "error"} /\ transfer' = transfer /\ uploads' = uploads
    BY <1>4, RequestNumbers DEF SendChunk, Send
  <2>2. task'[n][k] = "new" /\ \A j \in Requests \ {k} : task'[n][j] = task[n][j]
    BY <1>0, <1>2, <1>4, <2>1, StepTaken DEF SendChunk
  <2>3. Ordered(n)'
    BY <1>0, <2>1, <2>2, RequestNumbers DEF Ordered, Active
  <2> QED BY <1>0, <1>1, <1>2, <1>4, <2>1, <2>3 DEF SendChunk, TypeOK
<1>5. ASSUME SendEnd(n) PROVE Typed'
  <2>1. End \in Requests /\ (\A k \in 0..Chunks : task[n][k] = "ok")
        /\ task[n][End] = "unsent" /\ transfer' = transfer /\ uploads' = uploads
    BY <1>5, RequestNumbers DEF SendEnd, Send
  <2>2. task'[n][End] = "new" /\ \A j \in Requests \ {End} : task'[n][j] = task[n][j]
    BY <1>0, <1>2, <1>5, <2>1, StepTaken DEF SendEnd
  <2>3. Ordered(n)'
    BY <1>0, <2>1, <2>2, RequestNumbers DEF Ordered, Active
  <2> QED BY <1>0, <1>1, <1>2, <1>5, <2>1, <2>3 DEF SendEnd, TypeOK
<1> QED BY <1>3, <1>4, <1>5

\* A step that leaves the map alone, and the hasher of an upload not started.
LEMMA ServedTyped ==
  ASSUME Typed, NEW n \in Uploads, NEW k \in Requests, NEW s \in Step, Goes(n, k, s),
         uploads' = uploads, transfer' \in [Uploads -> Transfer],
         files' \in [Paths -> Files \cup {0}],
         data' \in [Files -> [1..Chunks -> 0..MaxUploads]],
         errors' \in 0..MaxErrors, raced' = raced, lost' = lost,
         left' = left \/ left' = left \cup {n},
         \A m \in Uploads : transfer'[m].id = transfer[m].id,
         \A m \in Uploads :
           \/ task[m][0] = "ok"
           \/ transfer'[m].hasher = transfer[m].hasher
                /\ transfer'[m].writing = transfer[m].writing,
         \A m \in Uploads \ {n} : transfer'[m].source = transfer[m].source,
         s = "moving" => transfer'[n].source # 0,
         task[n][k] \notin {"unsent", "ok"},
         k = 0 => s \in {"created", "blocked", "error"},
         k \in 1..Chunks =>
           s \in {"blocked", "ok", "error"} \/ (s = "locked" /\ Active(n)),
         k = End => s \in {"blocked", "flush", "move", "moving", "mismatch", "unmoved"}
                          \cup Answered
  PROVE  Typed'
<1>0. TypeOK /\ Started /\ (\A m \in Uploads : Ordered(m))
  BY DEF Typed
<1>1. task' \in [Uploads -> [Requests -> Step]] /\ TypeOK'
  BY <1>0, StepTaken DEF TypeOK
<1>2. task'[n][k] = s
      /\ \A m \in Uploads, j \in Requests : m # n \/ j # k => task'[m][j] = task[m][j]
  BY <1>0, StepTaken
<1>3. \A m \in Uploads : Active(m)' = Active(m)
  BY DEF Active
<1>4. ASSUME NEW m \in Uploads, m # n PROVE Ordered(m)'
  <2>1. Ordered(m) /\ \A j \in Requests : task'[m][j] = task[m][j]
    BY <1>0, <1>2, <1>4
  <2>2. \/ task[m][0] = "ok"
        \/ transfer'[m].hasher = transfer[m].hasher
             /\ transfer'[m].writing = transfer[m].writing
    OBVIOUS
  <2>3. \A j \in 1..Chunks : task[m][j] = "locked" => Active(m)'
    BY <1>3, <2>1 DEF Ordered
  <2>4. transfer'[m].source = transfer[m].source
    BY <1>4
  <2> QED BY <2>1, <2>2, <2>3, <2>4, OrderedKept
<1>5. Started'
  BY <1>0, <1>2, RequestNumbers, StartedKept
<1>6. Ordered(n)'
  <2>1. CASE k = 0
    <3>1. task'[n][0] \in {"created", "blocked", "error"} /\ task[n][0] # "ok"
      BY <1>2, <2>1
    <3>2. \A j \in Requests \ {0} : task'[n][j] = task[n][j] /\ task[n][j] = "unsent"
      BY <1>0, <1>2, <2>1, <3>1, RequestNumbers DEF Ordered
    <3>3. transfer'[n].hasher = << >> /\ transfer'[n].writing = NoChunk
      BY <1>0, <3>1 DEF Ordered
    <3> QED BY <3>1, <3>2, <3>3, RequestNumbers DEF Ordered
  <2>2. CASE k \in 1..Chunks
    <3>1. task'[n][k] \in {"blocked", "ok", "error", "locked"}
          /\ (task'[n][k] = "locked" => Active(n))
      BY <1>2, <2>2
    <3>2. task[n][0] = "ok" /\ task[n][End] = "unsent"
      BY <1>0, <2>2, RequestNumbers DEF Ordered
    <3>3. task'[n][0] = "ok" /\ task'[n][End] = "unsent"
      BY <1>2, <2>2, <3>2, RequestNumbers
    <3>4. ASSUME NEW j \in 1..Chunks
          PROVE  /\ task'[n][j] \in {"unsent", "new", "blocked", "locked", "ok", "error"}
                 /\ task'[n][j] = "locked" => Active(n)'
      <4>1. CASE j = k
        BY <1>3, <3>1, <4>1
      <4>2. CASE j # k
        BY <1>0, <1>2, <1>3, <4>2, RequestNumbers DEF Ordered
      <4> QED BY <4>1, <4>2
    <3> QED BY <3>3, <3>4 DEF Ordered
  <2>3. CASE k = End
    <3>1. task'[n][End] \in {"blocked", "flush", "move", "moving", "mismatch", "unmoved"}
                             \cup Answered
      BY <1>2, <2>3, RequestNumbers
    <3>2. \A j \in 0..Chunks : task'[n][j] = task[n][j] /\ task[n][j] = "ok"
      BY <1>0, <1>2, <2>3, RequestNumbers DEF Ordered
    <3>3. task'[n][0] = "ok" /\ \A j \in 1..Chunks : task'[n][j] = "ok"
      BY <3>2, RequestNumbers
    <3>4. task'[n][End] # "unsent" /\ \A j \in 0..Chunks : task'[n][j] = "ok"
      BY <3>1, <3>2 DEF Answered
    <3>5. task'[n][End] = "moving" => transfer'[n].source # 0
      BY <1>2, <2>3, RequestNumbers
    <3> QED BY <3>1, <3>3, <3>4, <3>5 DEF Ordered
  <2> QED BY <2>1, <2>2, <2>3, RequestNumbers
<1> QED BY <1>1, <1>4, <1>5, <1>6 DEF Typed

\* fs.upload.start.
LEMMA StartTyped ==
  ASSUME Typed, NEW n \in Uploads,
         CreateFile(n) \/ CreateFails(n) \/ InsertTransfer(n)
  PROVE  Typed'
<1>0. TypeOK /\ Started /\ (\A m \in Uploads : Ordered(m))
      /\ {"created", "error", "ok"} \subseteq Step
  BY DEF Typed, Step, Answered
<1>1. CASE CreateFile(n)
  <2> DEFINE p == WritePath(n)
             f == IF files[p] = 0 THEN n ELSE files[p]
  <2>1. p \in Paths
    BY <1>0 DEF WritePath, Paths, TypeOK, Transfer
  <2>2. f \in Files
    BY <1>0, <2>1, UploadBounds DEF TypeOK, Uploads, Files
  <2>3. /\ files' = [files EXCEPT ![p] = f] /\ data' = [data EXCEPT ![f] = Empty]
        /\ transfer' = [transfer EXCEPT ![n].file = f] /\ Goes(n, 0, "created")
        /\ UNCHANGED <<uploads, errors, raced, lost, left>> /\ task[n][0] = "new"
    BY <1>1 DEF CreateFile
  <2> HIDE DEF p, f
  <2>4. Empty \in [1..Chunks -> 0..MaxUploads]
    BY UploadBounds DEF Empty
  <2>5. /\ files' \in [Paths -> Files \cup {0}]
        /\ data' \in [Files -> [1..Chunks -> 0..MaxUploads]]
    BY <1>0, <2>2, <2>3, <2>4 DEF TypeOK
  <2>6. transfer' \in [Uploads -> Transfer]
    BY <1>0, <2>2, <2>3, TransferKept
  <2>7. \A m \in Uploads :
          /\ transfer'[m].id = transfer[m].id
          /\ transfer'[m].hasher = transfer[m].hasher
          /\ transfer'[m].writing = transfer[m].writing
          /\ transfer'[m].source = transfer[m].source
    BY <1>0, <2>3 DEF TypeOK, Transfer
  <2>8. errors' \in 0..MaxErrors
    BY <1>0, <2>3 DEF TypeOK
  <2> QED BY <1>0, <2>3, <2>5, <2>6, <2>7, <2>8, ServedTyped, RequestNumbers
<1>2. CASE CreateFails(n)
  <2>1. errors' \in 0..MaxErrors
    BY <1>0, <1>2, UploadBounds DEF CreateFails, Error, TypeOK
  <2>2. /\ Goes(n, 0, "error") /\ task[n][0] = "new"
        /\ UNCHANGED <<uploads, transfer, files, data, raced, lost, left>>
    BY <1>2 DEF CreateFails
  <2>3. /\ transfer' \in [Uploads -> Transfer] /\ files' \in [Paths -> Files \cup {0}]
        /\ data' \in [Files -> [1..Chunks -> 0..MaxUploads]]
    BY <1>0, <2>2 DEF TypeOK
  <2> QED BY <1>0, <2>1, <2>2, <2>3, ServedTyped, RequestNumbers
<1>3. CASE InsertTransfer(n)
  <2>1. /\ ~Locked /\ task[n][0] \in {"created", "blocked"} /\ Goes(n, 0, "ok")
        /\ UNCHANGED <<transfer, files, data, errors, raced, lost, left>>
    BY <1>3 DEF InsertTransfer, GetsMap, AtMap
  <2>2. task' \in [Uploads -> [Requests -> Step]] /\ task'[n][0] = "ok"
        /\ \A m \in Uploads, j \in Requests : m # n \/ j # 0 => task'[m][j] = task[m][j]
    BY <1>0, <2>1, StepTaken, RequestNumbers
  <2>3. /\ uploads' \in [DOMAIN uploads' -> Uploads] /\ DOMAIN uploads' \subseteq Ids
        /\ \A i \in DOMAIN uploads' : uploads'[i] = n \/ (i \in DOMAIN uploads
                                                          /\ uploads'[i] = uploads[i])
    BY <1>0, <1>3 DEF InsertTransfer, TypeOK, Transfer
  <2>4. TypeOK'
    BY <1>0, <2>1, <2>2, <2>3 DEF TypeOK
  <2>5. ASSUME NEW i \in DOMAIN uploads' PROVE task'[uploads'[i]][0] = "ok"
    <3>1. CASE uploads'[i] = n
      BY <2>2, <3>1
    <3>2. CASE uploads'[i] # n
      <4>1. i \in DOMAIN uploads /\ uploads'[i] = uploads[i] /\ uploads[i] \in Uploads
        BY <1>0, <2>3, <3>2 DEF TypeOK
      <4>2. task[uploads[i]][0] = "ok" /\ task'[uploads[i]][0] = task[uploads[i]][0]
        BY <1>0, <2>2, <3>2, <4>1, RequestNumbers DEF Started
      <4> QED BY <4>1, <4>2
    <3> QED BY <3>1, <3>2
  <2>6. ASSUME NEW m \in Uploads PROVE Ordered(m)'
    <3>1. \A k \in 1..Chunks : task[m][k] # "locked"
      BY <2>1, NoneLocked
    <3>2. CASE m # n
      BY <1>0, <2>1, <2>2, <3>1, <3>2, OrderedKept
    <3>3. CASE m = n
      BY <1>0, <2>1, <2>2, <3>1, <3>3, RequestNumbers DEF Ordered
    <3> QED BY <3>2, <3>3
  <2> QED BY <2>4, <2>5, <2>6 DEF Typed, Started
<1> QED BY <1>1, <1>2, <1>3

\* What a chunk has locked is the entry of an upload that was started.
LEMMA LockedEntry ==
  ASSUME Typed, NEW n \in Uploads, NEW k \in 1..Chunks, task[n][k] = "locked"
  PROVE  /\ TransferFor(n) \in Uploads /\ task[TransferFor(n)][0] = "ok"
         /\ Active(n) /\ task[n][0] = "ok" /\ task[n][End] = "unsent"
<1>1. Active(n) /\ task[n][0] = "ok" /\ task[n][End] = "unsent"
  BY RequestNumbers DEF Typed, Ordered, TypeOK
<1> QED BY <1>1 DEF Typed, Started, TypeOK, Active, TransferFor

\* fs.upload.chunk.
LEMMA ChunkTyped ==
  ASSUME Typed, NEW n \in Uploads, NEW k \in 1..Chunks,
         TakeTransfer(n, k) \/ WriteChunk(n, k) \/ SeekFails(n, k)
  PROVE  Typed'
<1>0. /\ TypeOK /\ Started /\ (\A m \in Uploads : Ordered(m)) /\ k \in Requests
      /\ {"locked", "error", "ok"} \subseteq Step
      /\ transfer \in [Uploads -> Transfer] /\ files \in [Paths -> Files \cup {0}]
      /\ data \in [Files -> [1..Chunks -> 0..MaxUploads]] /\ errors \in 0..MaxErrors
  BY RequestNumbers DEF Typed, TypeOK, Step, Answered
<1>1. CASE TakeTransfer(n, k)
  <2>1. PICK s \in {"locked", "error"} : Goes(n, k, s) /\ (s = "locked" => Active(n))
    BY <1>1 DEF TakeTransfer
  <2>2. /\ task[n][k] \in {"new", "blocked"}
        /\ UNCHANGED <<uploads, transfer, files, data, errors, raced, lost, left>>
    BY <1>1, RequestNumbers DEF TakeTransfer, GetsMap, AtMap
  <2> QED BY <1>0, <2>1, <2>2, ServedTyped, RequestNumbers
<1>2. CASE WriteChunk(n, k)
  <2>1. /\ task[n][k] = "locked" /\ UNCHANGED <<uploads, files, data, errors, raced, lost, left>>
    BY <1>2 DEF WriteChunk
  <2> DEFINE m == TransferFor(n)
             h == Append(transfer[m].hasher, <<n, k>>)
  <2>2. m \in Uploads /\ task[m][0] = "ok"
    BY <2>1, LockedEntry
  <2>3. <<n, k>> \in Chunk /\ h \in Seq(Chunk)
    BY <1>0, <2>2, AppendProperties DEF Chunk, Transfer
  <2>4. CASE transfer' = [transfer EXCEPT ![m].hasher = h, ![m].writing = <<n, k>>]
             /\ Goes(n, k, "ok")
    <3> HIDE DEF m, h
    <3>1. transfer' \in [Uploads -> Transfer]
      BY <1>0, <2>2, <2>3, <2>4, TransferKept
    <3>2. \A w \in Uploads :
            /\ transfer'[w].id = transfer[w].id /\ transfer'[w].source = transfer[w].source
            /\ w # m => transfer'[w] = transfer[w]
      BY <1>0, <2>2, <2>4 DEF Transfer
    <3> QED BY <1>0, <2>1, <2>2, <2>4, <3>1, <3>2, ServedTyped, RequestNumbers
  <2>5. CASE transfer' = [transfer EXCEPT ![m].failed = FALSE] /\ Goes(n, k, "error")
    <3> HIDE DEF m, h
    <3>1. transfer' \in [Uploads -> Transfer]
      BY <1>0, <2>2, <2>5, TransferKept
    <3>2. \A w \in Uploads :
            /\ transfer'[w].id = transfer[w].id /\ transfer'[w].source = transfer[w].source
            /\ w # m => transfer'[w] = transfer[w]
      BY <1>0, <2>2, <2>5 DEF Transfer
    <3> QED BY <1>0, <2>1, <2>2, <2>5, <3>1, <3>2, ServedTyped, RequestNumbers
  <2> QED BY <1>2, <2>4, <2>5 DEF WriteChunk
<1>3. CASE SeekFails(n, k)
  <2>1. /\ task[n][k] = "locked" /\ Goes(n, k, "error")
        /\ UNCHANGED <<uploads, transfer, files, data, raced, lost, left>>
    BY <1>3 DEF SeekFails
  <2>2. errors' \in 0..MaxErrors
    BY <1>0, <1>3, UploadBounds DEF SeekFails, Error
  <2> QED BY <1>0, <2>1, <2>2, ServedTyped, RequestNumbers
<1> QED BY <1>1, <1>2, <1>3

\* The worker of a task that needs the map waits for it.
LEMMA BlocksTyped ==
  ASSUME Typed, NEW n \in Uploads, NEW k \in Requests, Blocks(n, k)
  PROVE  Typed'
<1>1. /\ task[n][k] \in {"created", "new"} /\ Goes(n, k, "blocked")
      /\ UNCHANGED <<uploads, transfer, files, data, errors, raced, lost, left>>
  BY DEF Blocks, AtMap
<1>2. /\ "blocked" \in Step
      /\ transfer \in [Uploads -> Transfer] /\ files \in [Paths -> Files \cup {0}]
      /\ data \in [Files -> [1..Chunks -> 0..MaxUploads]] /\ errors \in 0..MaxErrors
  BY DEF Step, Typed, TypeOK
<1> QED BY <1>1, <1>2, ServedTyped, RequestNumbers

\* fs.upload.end takes the transfer out of the map.
LEMMA EndTakesOutTyped ==
  ASSUME Typed, NEW n \in Uploads, EndTakesOut(n)
  PROVE  Typed'
<1>0. /\ TypeOK /\ Started /\ (\A m \in Uploads : Ordered(m))
      /\ {"flush", "error"} \subseteq Step /\ End \in Requests
  BY RequestNumbers DEF Typed, Step, Answered
<1>1. /\ task[n][End] \in {"new", "blocked"} /\ ~Locked
      /\ UNCHANGED <<files, data, errors, raced, lost, left>>
  BY RequestNumbers DEF EndTakesOut, GetsMap, AtMap
<1>2. PICK s \in {"flush", "error"} : Goes(n, End, s)
  BY DEF EndTakesOut
<1>3. /\ task' \in [Uploads -> [Requests -> Step]] /\ task'[n][End] \in {"flush", "error"}
      /\ \A m \in Uploads, j \in Requests : m # n \/ j # End => task'[m][j] = task[m][j]
  BY <1>0, <1>2, StepTaken
<1>4. /\ uploads' \in [DOMAIN uploads' -> Uploads] /\ DOMAIN uploads' \subseteq DOMAIN uploads
      /\ \A i \in DOMAIN uploads' : uploads'[i] = uploads[i]
  BY <1>0 DEF EndTakesOut, TypeOK, Restrict
<1>5. transfer' \in [Uploads -> Transfer]
  <2>1. CASE Active(n)
    <3>1. TransferFor(n) \in 0..MaxUploads
      BY <1>0, <2>1, UploadBounds DEF TypeOK, Active, TransferFor, Uploads
    <3>2. transfer' = [transfer EXCEPT ![n].ending = TransferFor(n)]
      BY <2>1 DEF EndTakesOut
    <3> QED BY <1>0, <3>1, <3>2, TransferKept
  <2>2. CASE ~Active(n)
    BY <1>0, <2>2 DEF EndTakesOut, TypeOK
  <2> QED BY <2>1, <2>2
<1>6. \A m \in Uploads : transfer'[m].hasher = transfer[m].hasher
                        /\ transfer'[m].writing = transfer[m].writing
                        /\ transfer'[m].source = transfer[m].source
  <2>1. PICK e : transfer' = transfer \/ transfer' = [transfer EXCEPT ![n].ending = e]
    BY DEF EndTakesOut
  <2>2. transfer \in [Uploads -> Transfer]
    BY <1>0 DEF TypeOK
  <2>3. \A m \in Uploads : transfer'[m] = transfer[m]
                         \/ transfer'[m] = [transfer[m] EXCEPT !.ending = e]
    BY <2>1, <2>2
  <2> QED BY <2>2, <2>3, ZenonT(60) DEF Transfer
<1>7. TypeOK'
  BY <1>0, <1>1, <1>3, <1>4, <1>5 DEF TypeOK
<1>8. Started'
  <2>1. \A i \in DOMAIN uploads' :
          uploads'[i] \in Uploads /\ task[uploads'[i]][0] = "ok"
    BY <1>0, <1>4 DEF Started, TypeOK
  <2> QED BY <1>3, <2>1, RequestNumbers DEF Started
<1>9. ASSUME NEW m \in Uploads PROVE Ordered(m)'
  <2>1. \A k \in 1..Chunks : task[m][k] # "locked"
    BY <1>1, NoneLocked
  <2>2. CASE m # n
    BY <1>0, <1>3, <1>6, <2>1, <2>2, OrderedKept
  <2>3. CASE m = n
    <3>1. task'[n][0] = "ok" /\ \A j \in 0..Chunks : task'[n][j] = "ok"
      BY <1>0, <1>1, <1>3, RequestNumbers DEF Ordered
    <3>2. \A j \in 1..Chunks : task'[n][j] = "ok"
      BY <3>1, RequestNumbers
    <3> QED BY <1>3, <2>3, <3>1, <3>2 DEF Ordered, Answered
  <2> QED BY <2>2, <2>3
<1> QED BY <1>7, <1>8, <1>9 DEF Typed

\* As much of a file as its mv has copied is chunks, too.
LEMMA CopiedType ==
  ASSUME TypeOK, NEW n \in Uploads, Ordered(n), task[n][End] = "moving",
         NEW k \in 0..Chunks, Copied(n, k)
  PROVE  data' \in [Files -> [1..Chunks -> 0..MaxUploads]]
<1>1. data[transfer[n].source] \in [1..Chunks -> 0..MaxUploads]
  BY DEF TypeOK, Transfer, Ordered
<1>2. [j \in 1..Chunks |-> IF j > k THEN 0 ELSE data[transfer[n].source][j]]
        \in [1..Chunks -> 0..MaxUploads]
  BY <1>1, UploadBounds
<1> QED BY <1>2 DEF TypeOK, Copied

\* The rest of fs.upload.end.
LEMMA EndTyped ==
  ASSUME Typed, NEW n \in Uploads, EndFlushes(n) \/ EndMoves(n) \/ EndCopies(n) \/ EndDiscards(n)
  PROVE  Typed'
<1>0. /\ TypeOK /\ End \in Requests
      /\ Answered \cup {"move", "moving", "mismatch", "unmoved"} \subseteq Step
      /\ transfer \in [Uploads -> Transfer] /\ files \in [Paths -> Files \cup {0}]
      /\ data \in [Files -> [1..Chunks -> 0..MaxUploads]] /\ errors \in 0..MaxErrors
      /\ MovedFile(n) \in Files /\ transfer[n].id \in Paths /\ Ordered(n)
  <2>1. MovedFile(n) \in Files
    BY UploadBounds DEF Uploads, Files, MovedFile
  <2>2. transfer[n].id \in Paths
    BY DEF Typed, TypeOK, Transfer, Paths
  <2> QED BY <2>1, <2>2, RequestNumbers DEF Typed, Step, TypeOK
<1>1. CASE EndFlushes(n)
  <2> DEFINE e == transfer[n].ending
  <2>1. /\ task[n][End] = "flush"
        /\ UNCHANGED <<uploads, files, data, raced, lost, left>>
        /\ transfer' = [transfer EXCEPT ![e].hasher = << >>]
    BY <1>1 DEF EndFlushes, EndsHash
  <2>2. PICK s \in {"mismatch", "move", "ok", "unflushed"} : Goes(n, End, s)
    BY <1>1 DEF EndFlushes, Verified
  <2>3. errors' \in 0..MaxErrors
    BY <1>0, <1>1, UploadBounds DEF EndFlushes, Error
  <2>4. /\ transfer' \in [Uploads -> Transfer]
        /\ \A m \in Uploads : transfer'[m].id = transfer[m].id
             /\ transfer'[m].writing = transfer[m].writing
             /\ transfer'[m].source = transfer[m].source
             /\ (transfer'[m].hasher = transfer[m].hasher \/ m = e)
    <3>1. CASE e \in Uploads
      <4>1. << >> \in Seq(Chunk)
        BY EmptySeq
      <4>2. transfer' \in [Uploads -> Transfer]
        BY <1>0, <2>1, <3>1, <4>1, TransferKept
      <4>3. transfer'[e] = [transfer[e] EXCEPT !.hasher = << >>]
            /\ \A m \in Uploads : m # e => transfer'[m] = transfer[m]
        BY <1>0, <2>1, <3>1
      <4>4. /\ transfer'[e].id = transfer[e].id /\ transfer'[e].writing = transfer[e].writing
            /\ transfer'[e].source = transfer[e].source
        BY <1>0, <3>1, <4>3 DEF Transfer
      <4> QED BY <4>2, <4>3, <4>4
    <3>2. CASE e \notin Uploads
      BY <1>0, <2>1, <3>2
    <3> QED BY <3>1, <3>2
  <2>5. \A m \in Uploads : m = e => transfer'[m].hasher = << >>
    BY <1>0, <2>1 DEF Transfer
  <2>6. ASSUME NEW m \in Uploads
        PROVE  \/ task[m][0] = "ok"
               \/ transfer'[m].hasher = transfer[m].hasher
                    /\ transfer'[m].writing = transfer[m].writing
    BY <2>4, <2>5 DEF Typed, Ordered
  <2> HIDE DEF e
  <2>7. s \in Step /\ s \in {"mismatch", "move"} \cup Answered
    BY <1>0, <2>2 DEF Answered
  <2> QED BY <1>0, <2>1, <2>2, <2>3, <2>4, <2>6, <2>7, ServedTyped, RequestNumbers
<1>2. CASE EndMoves(n)
  <2> DEFINE f == files[transfer[n].id]
  <2>1. /\ task[n][End] = "move" /\ UNCHANGED <<uploads, raced, lost, left>>
    BY <1>2 DEF EndMoves
  <2>2. PICK s \in {"ok", "moving", "unmoved"} : Goes(n, End, s)
    BY <1>2 DEF EndMoves
  <2>3. errors' \in 0..MaxErrors
    BY <1>0, <1>2, UploadBounds DEF EndMoves, Error
  <2>4. f \in Files \cup {0}
    BY <1>0
  <2>5. files' \in [Paths -> Files \cup {0}]
    BY <1>0, <1>2, <2>4 DEF EndMoves
  <2>6. data' \in [Files -> [1..Chunks -> 0..MaxUploads]]
    <3>1. Empty \in [1..Chunks -> 0..MaxUploads]
      BY UploadBounds DEF Empty
    <3>2. data' = data \/ data' = [data EXCEPT ![MovedFile(n)] = Empty]
      BY <1>2 DEF EndMoves
    <3> QED BY <1>0, <3>1, <3>2
  <2>7. transfer' = transfer \/ transfer' = [transfer EXCEPT ![n].source = f]
    BY <1>2 DEF EndMoves
  <2> HIDE DEF f
  <2>8. transfer' \in [Uploads -> Transfer]
    <3>1. [transfer EXCEPT ![n].source = f] \in [Uploads -> Transfer]
      BY <1>0, <2>4, TransferKept
    <3> QED BY <1>0, <2>7, <3>1
  <2>9. \A m \in Uploads : /\ transfer'[m].id = transfer[m].id
                         /\ transfer'[m].hasher = transfer[m].hasher
                         /\ transfer'[m].writing = transfer[m].writing
    <3>1. CASE transfer' = transfer
      BY <3>1
    <3>2. CASE transfer' = [transfer EXCEPT ![n].source = f]
      BY <1>0, <3>2 DEF Transfer
    <3> QED BY <2>7, <3>1, <3>2
  <2>11. /\ \A m \in Uploads \ {n} : transfer'[m].source = transfer[m].source
         /\ s = "moving" => transfer'[n].source # 0
    <3>1. CASE s = "moving"
      <4>1. f # 0 /\ transfer' = [transfer EXCEPT ![n].source = f]
        BY <1>0, <1>2, <2>2, <3>1, GoesTo DEF EndMoves, f
      <4> QED BY <1>0, <4>1 DEF Transfer
    <3>2. CASE s # "moving"
      BY <1>0, <2>7, <3>2 DEF Transfer
    <3> QED BY <3>1, <3>2
  <2>10. s \in Step /\ s \in {"moving", "unmoved"} \cup Answered
    BY <1>0, <2>2 DEF Answered
  <2> QED BY <1>0, <2>1, <2>2, <2>3, <2>5, <2>6, <2>8, <2>9, <2>10, <2>11,
             ServedTyped, RequestNumbers
<1>3. CASE EndCopies(n)
  <2>1. /\ task[n][End] = "moving" /\ UNCHANGED <<uploads, transfer, raced, lost>>
        /\ left' = left \/ left' = left \cup {n}
    BY <1>3 DEF EndCopies
  <2>2. PICK s \in {"ok", "unmoved"} : Goes(n, End, s)
    BY <1>3 DEF EndCopies
  <2>3. errors' \in 0..MaxErrors
    BY <1>0, <1>3, UploadBounds DEF EndCopies, Error
  <2>4. files' \in [Paths -> Files \cup {0}]
    BY <1>0, <1>3 DEF EndCopies
  <2>5. PICK k \in 0..Chunks : Copied(n, k)
    BY <1>3, UploadBounds DEF EndCopies
  <2>6. data' \in [Files -> [1..Chunks -> 0..MaxUploads]]
    BY <1>0, <2>1, <2>5, CopiedType DEF Typed
  <2>7. s \in Step /\ s \in {"unmoved"} \cup Answered
    BY <1>0, <2>2 DEF Answered
  <2> QED BY <1>0, <2>1, <2>2, <2>3, <2>4, <2>6, <2>7, ServedTyped, RequestNumbers
<1>4. CASE EndDiscards(n)
  <2>1. /\ task[n][End] \in {"mismatch", "unmoved"} /\ Goes(n, End, "error")
        /\ UNCHANGED <<uploads, transfer, data, raced, lost>>
        /\ left' = left \/ left' = left \cup {n}
        /\ files' = files \/ files' = [files EXCEPT ![WritePath(transfer[n].ending)] = 0]
    BY <1>4 DEF EndDiscards
  <2>2. files' \in [Paths -> Files \cup {0}]
    BY <1>0, <2>1
  <2>3. errors' \in 0..MaxErrors
    BY <1>0, <1>4, UploadBounds DEF EndDiscards, Error
  <2>4. "error" \in Step /\ "error" \in Answered
    BY <1>0 DEF Answered
  <2> QED BY <1>0, <2>1, <2>2, <2>3, <2>4, ServedTyped, RequestNumbers
<1> QED BY <1>1, <1>2, <1>3, <1>4

\* What the gateway, the tasks and the blocking threads may do keeps the types.
LEMMA WriteTyped ==
  ASSUME Typed, NEW m \in Uploads, WriteLands(m) \/ WriteFails(m)
  PROVE  Typed'
<1>0. /\ TypeOK /\ Started /\ (\A n \in Uploads : Ordered(n))
      /\ UNCHANGED <<uploads, task, files, raced>> /\ transfer[m].writing # NoChunk
  BY DEF Typed, WriteLands, WriteFails
<1>1. transfer[m].writing \in Chunk
  BY <1>0 DEF TypeOK, Transfer
<1>2. transfer' \in [Uploads -> Transfer]
      /\ \A n \in Uploads : transfer'[n].hasher = transfer[n].hasher
           /\ transfer'[n].id = transfer[n].id
           /\ transfer'[n].source = transfer[n].source
           /\ (n = m \/ transfer'[n] = transfer[n])
  <2>1. \/ transfer' = [transfer EXCEPT ![m].writing = NoChunk]
        \/ transfer' = [transfer EXCEPT ![m].writing = NoChunk, ![m].failed = TRUE]
    BY DEF WriteLands, WriteFails
  <2>2. transfer' \in [Uploads -> Transfer]
    <3>1. /\ [transfer EXCEPT ![m].writing = NoChunk] \in [Uploads -> Transfer]
          /\ \A b \in BOOLEAN : [transfer EXCEPT ![m].writing = NoChunk, ![m].failed = b]
                                \in [Uploads -> Transfer]
      BY <1>0, TransferKept
    <3>2. [transfer EXCEPT ![m].writing = NoChunk, ![m].failed = TRUE] \in [Uploads -> Transfer]
      BY <3>1
    <3> QED BY <2>1, <3>1, <3>2
  <2>3. transfer \in [Uploads -> Transfer]
    BY <1>0 DEF TypeOK
  <2>4. ASSUME NEW n \in Uploads
        PROVE  /\ \/ transfer'[n] = transfer[n]
                  \/ transfer'[n] = [transfer[n] EXCEPT !.writing = NoChunk]
                  \/ transfer'[n] = [transfer[n] EXCEPT !.writing = NoChunk, !.failed = TRUE]
               /\ n = m \/ transfer'[n] = transfer[n]
    BY <2>1, <2>3
  <2>5. ASSUME NEW n \in Uploads
        PROVE  /\ transfer'[n].hasher = transfer[n].hasher /\ transfer'[n].id = transfer[n].id
               /\ transfer'[n].source = transfer[n].source
    <3>1. transfer[n] \in Transfer
      BY <2>3
    <3> QED BY <2>4, <3>1 DEF Transfer
  <2> QED BY <2>2, <2>4, <2>5
<1>3. data' \in [Files -> [1..Chunks -> 0..MaxUploads]]
  <2>1. PICK w \in Uploads, k \in 1..Chunks : transfer[m].writing = <<w, k>>
    BY <1>1 DEF Chunk
  <2>2. data' = data \/ data' = [data EXCEPT ![transfer[m].file][k] = w]
    BY <2>1 DEF WriteLands, WriteFails
  <2>3. w \in 0..MaxUploads /\ data \in [Files -> [1..Chunks -> 0..MaxUploads]]
    BY <1>0, UploadBounds DEF TypeOK, Uploads
  <2>4. CASE transfer[m].file \in Files
    <3>1. data[transfer[m].file] \in [1..Chunks -> 0..MaxUploads]
      BY <2>3, <2>4
    <3>2. [data[transfer[m].file] EXCEPT ![k] = w] \in [1..Chunks -> 0..MaxUploads]
      BY <2>3, <3>1
    <3>3. data' = data \/ data' = [data EXCEPT ![transfer[m].file] =
                                    [data[transfer[m].file] EXCEPT ![k] = w]]
      BY <2>2, <2>3, <2>4
    <3> QED BY <2>3, <3>2, <3>3
  <2>5. CASE transfer[m].file \notin Files
    BY <2>2, <2>3, <2>5
  <2> QED BY <2>4, <2>5
<1>4. errors' \in 0..MaxErrors /\ lost' \subseteq Uploads /\ left' = left
  <2>1. transfer[m].writing[1] \in Uploads
    BY <1>1 DEF Chunk
  <2> QED BY <1>0, <2>1, UploadBounds DEF WriteLands, WriteFails, Error, TypeOK
<1>5. TypeOK' /\ Started'
  BY <1>0, <1>2, <1>3, <1>4 DEF TypeOK, Started
<1>6. task[m][0] = "ok"
  BY <1>0 DEF Ordered
<1>7. ASSUME NEW n \in Uploads PROVE Ordered(n)'
  <2>1. task'[n] = task[n] /\ Active(n)' = Active(n)
    BY <1>0, <1>2 DEF Active
  <2> QED BY <1>0, <1>2, <1>6, <2>1 DEF Ordered
<1> QED BY <1>5, <1>7 DEF Typed

\* Every step keeps it.
LEMMA TypedStep == Typed /\ [Next]_vars => Typed'
<1> SUFFICES ASSUME Typed, [Next]_vars PROVE Typed'
  OBVIOUS
<1>1. CASE UNCHANGED vars
  BY <1>1 DEF Typed, TypeOK, Started, Ordered, Active, vars
<1>2. ASSUME NEW n \in Uploads, NEW k \in Requests, Serve(n, k) PROVE Typed'
  BY <1>2, StartTyped, ChunkTyped, EndTakesOutTyped, EndTyped, BlocksTyped DEF Serve
<1>3. CASE Next
  BY <1>2, <1>3, SendTyped, WriteTyped DEF Next
<1> QED BY <1>1, <1>3

\* Every request of every upload is where the handlers can have brought it.
THEOREM TypeCorrect == Spec => []TypeOK
<1>1. Spec => []Typed
  BY TypedInitially, TypedStep, PTL DEF Spec
<1>2. Typed => TypeOK
  BY DEF Typed
<1> QED BY <1>1, <1>2, PTL

-----------------------------------------------------------------------------
(* The files of the paths.                                                 *)

\* The uploads whose requests have got so far do not go back.
GoOn ==
  \A m \in Uploads :
    /\ task[m][0] \notin {"unsent", "new"} => task'[m][0] \notin {"unsent", "new"}
    /\ task[m][End] \in MoveBegun => task'[m][End] \in MoveBegun

\* One request goes on.
LEMMA GoesOn ==
  ASSUME TypeOK, NEW n \in Uploads, NEW k \in Requests, NEW s \in Step, Goes(n, k, s),
         k = 0 => task[n][0] = "unsent" \/ s \notin {"unsent", "new"},
         k = End => task[n][End] \notin MoveBegun \/ s \in MoveBegun
  PROVE  GoOn
BY StepTaken, RequestNumbers DEF GoOn

\* So does every one.
LEMMA AllGoOn ==
  ASSUME Typed, Next
  PROVE  GoOn
<1>0. /\ TypeOK /\ \A m \in Uploads : Ordered(m)
      /\ Answered \cup {"new", "created", "blocked", "locked", "flush", "move",
                       "moving", "mismatch", "unmoved"} \subseteq Step
  BY DEF Typed, Step
<1>1. PICK n \in Uploads :
        \/ \E id \in Ids, sudo \in BOOLEAN : SendStart(n, id, sudo)
        \/ \E k \in 1..Chunks : SendChunk(n, k)
        \/ SendEnd(n)
        \/ \E k \in Requests : Serve(n, k)
        \/ WriteLands(n) \/ WriteFails(n)
  BY DEF Next
<1>2. CASE \E id \in Ids, sudo \in BOOLEAN : SendStart(n, id, sudo)
  <2>1. Goes(n, 0, "new") /\ task[n][0] = "unsent"
    BY <1>2 DEF SendStart, Send, Uploads
  <2> QED BY <1>0, <2>1, GoesOn, RequestNumbers
<1>3. CASE (\E k \in 1..Chunks : SendChunk(n, k)) \/ SendEnd(n)
  <2>1. PICK k \in Requests \ {0} : Goes(n, k, "new") /\ (k = End => task[n][End] = "unsent")
    BY <1>3, RequestNumbers DEF SendChunk, SendEnd, Send
  <2> QED BY <1>0, <2>1, GoesOn, RequestNumbers DEF MoveBegun, Answered
<1>4. CASE WriteLands(n) \/ WriteFails(n)
  BY <1>4 DEF WriteLands, WriteFails, GoOn
<1>5. ASSUME NEW k \in Requests, Serve(n, k) PROVE GoOn
  <2>1. CASE Blocks(n, k)
    <3>1. Goes(n, k, "blocked") /\ (k = End => task[n][End] = "new")
      BY <2>1, RequestNumbers DEF Blocks, AtMap
    <3> QED BY <1>0, <3>1, GoesOn, RequestNumbers DEF MoveBegun, Answered
  <2>2. CASE k = 0 /\ ~Blocks(n, k)
    <3>1. PICK s \in {"created", "error", "ok"} : Goes(n, k, s)
      BY <1>5, <2>2, RequestNumbers DEF Serve, CreateFile, CreateFails, InsertTransfer
    <3> QED BY <1>0, <2>2, <3>1, GoesOn, RequestNumbers DEF Answered
  <2>3. CASE k \in 1..Chunks /\ ~Blocks(n, k)
    <3>1. PICK s \in {"locked", "error", "ok"} : Goes(n, k, s)
      BY <1>5, <2>3, RequestNumbers DEF Serve, TakeTransfer, WriteChunk, SeekFails
    <3> QED BY <1>0, <2>3, <3>1, GoesOn, RequestNumbers DEF Answered
  <2>4. CASE k = End /\ ~Blocks(n, k)
    <3>1. \/ EndTakesOut(n) \/ EndFlushes(n) \/ EndMoves(n) \/ EndCopies(n)
          \/ EndDiscards(n)
      BY <1>5, <2>4, RequestNumbers DEF Serve
    <3>2. PICK s \in Step :
            Goes(n, End, s) /\ (task[n][End] \notin MoveBegun \/ s \in MoveBegun)
      <4>1. CASE EndTakesOut(n)
        <5>1. task[n][End] \in {"new", "blocked"}
          BY <4>1, RequestNumbers DEF EndTakesOut, GetsMap, AtMap
        <5> QED BY <1>0, <4>1, <5>1 DEF EndTakesOut, MoveBegun, Answered
      <4>2. CASE EndFlushes(n)
        BY <1>0, <4>2 DEF EndFlushes, Verified, MoveBegun, Answered
      <4>3. CASE EndMoves(n)
        BY <1>0, <4>3 DEF EndMoves, MoveBegun, Answered
      <4>4. CASE EndCopies(n)
        BY <1>0, <4>4 DEF EndCopies, MoveBegun, Answered
      <4>5. CASE EndDiscards(n)
        BY <1>0, <4>5 DEF EndDiscards, MoveBegun, Answered
      <4> QED BY <3>1, <4>1, <4>2, <4>3, <4>4, <4>5
    <3> QED BY <1>0, <3>2, GoesOn, RequestNumbers
  <2> QED BY <2>1, <2>2, <2>3, <2>4, RequestNumbers
<1> QED BY <1>1, <1>2, <1>3, <1>4, <1>5

\* Paths that come to name nothing, or what they named, are apart.
LEMMA ApartKept ==
  ASSUME Apart, GoOn, \A p \in Paths : files'[p] = files[p] \/ files'[p] = 0,
         0 \notin Uploads, \A m \in Uploads : MovedFile(m) # 0
  PROVE  Apart'
BY DEF Apart, GoOn, MovedFile, MoveBegun

\* The numbers of the files are apart.
LEMMA FileNumbers ==
  /\ 0 \notin Uploads /\ 0 \notin Files /\ Uploads \subseteq Files
  /\ \A m \in Uploads : /\ MovedFile(m) \in Files /\ MovedFile(m) \notin Uploads
                       /\ \A n \in Uploads : MovedFile(m) = MovedFile(n) => m = n
BY UploadBounds DEF Uploads, Files, MovedFile

\* Every step leaves them apart.
LEMMA ApartStep == Typed /\ Apart /\ [Next]_vars => Apart'
<1> SUFFICES ASSUME Typed, Apart, [Next]_vars PROVE Apart'
  OBVIOUS
<1>0. TypeOK /\ Target \in Paths /\ \A n \in Uploads :
                transfer[n].id \in Paths /\ transfer[n].id # Target
  BY UploadPaths DEF Typed, TypeOK, Transfer, Paths
<1>1. CASE UNCHANGED vars
  BY <1>1 DEF vars, Apart
<1>2. CASE Next /\ \A p \in Paths : files'[p] = files[p] \/ files'[p] = 0
  BY <1>2, AllGoOn, ApartKept, FileNumbers
<1>3. ASSUME Next, GoOn, NEW n \in Uploads, CreateFile(n) PROVE Apart'
  <2> DEFINE p == WritePath(n)
  <2>1. p \in Paths /\ files \in [Paths -> Files \cup {0}]
    BY <1>0 DEF WritePath, TypeOK
  <2>2. /\ files' = [files EXCEPT ![p] = IF files[p] = 0 THEN n ELSE files[p]]
        /\ task[n][0] = "new" /\ Goes(n, 0, "created")
    BY <1>3 DEF CreateFile
  <2>3. task'[n][0] = "created"
    BY <1>0, <2>2, StepTaken, RequestNumbers DEF Step
  <2> HIDE DEF p
  <2>4. CASE files[p] # 0
    BY <1>3, <2>1, <2>2, <2>4, FileNumbers, ApartKept
  <2>5. CASE files[p] = 0
    <3>1. \A q \in Paths : files'[q] = (IF q = p THEN n ELSE files[q]) /\ files[q] # n
      BY <2>1, <2>2, <2>5 DEF Apart
    <3>2. \A q, t \in Paths : files'[q] = files'[t] /\ files'[q] # 0 => q = t
      BY <3>1 DEF Apart
    <3>3. ASSUME NEW q \in Paths, NEW m \in Uploads
          PROVE  /\ files'[q] = m => task'[m][0] \notin {"unsent", "new"}
                 /\ files'[q] = MovedFile(m) => task'[m][End] \in MoveBegun
      BY <1>3, <2>3, <3>1, FileNumbers DEF Apart, GoOn
    <3> QED BY <3>2, <3>3 DEF Apart, MovedFile, MoveBegun
  <2> QED BY <2>4, <2>5
<1>4. ASSUME Next, GoOn, NEW n \in Uploads, EndMoves(n) PROVE Apart'
  <2> DEFINE i == transfer[n].id
             f == files[i]
  <2>1. files \in [Paths -> Files \cup {0}] /\ i \in Paths /\ i # Target /\ task[n][End] = "move"
    BY <1>0, <1>4 DEF TypeOK, EndMoves
  <2>2. \/ files' = files
        \/ files' = [files EXCEPT ![Target] = f, ![i] = 0]
        \/ files' = [files EXCEPT ![Target] = MovedFile(n)] /\ Goes(n, End, "moving")
    BY <1>4 DEF EndMoves
  <2> HIDE DEF i
  <2>3. CASE files' = files
    BY <1>4, <2>3, FileNumbers, ApartKept
  <2>4. CASE files' = [files EXCEPT ![Target] = f, ![i] = 0]
    <3>1. \A q \in Paths : files'[q] = (IF q = i THEN 0 ELSE IF q = Target THEN f ELSE files[q])
      BY <1>0, <2>1, <2>4
    <3> HIDE DEF f
    <3>2. \A q, t \in Paths : files'[q] = files'[t] /\ files'[q] # 0 => q = t
      BY <2>1, <3>1 DEF Apart, f
    <3>3. ASSUME NEW q \in Paths, NEW m \in Uploads
          PROVE  /\ files'[q] = m => task'[m][0] \notin {"unsent", "new"}
                 /\ files'[q] = MovedFile(m) => task'[m][End] \in MoveBegun
      <4>1. files'[q] = 0 \/ \E t \in Paths : files'[q] = files[t]
        BY <2>1, <3>1 DEF f
      <4> QED BY <1>4, <4>1, FileNumbers DEF Apart, GoOn
    <3> QED BY <3>2, <3>3 DEF Apart, MovedFile, MoveBegun
  <2>5. CASE files' = [files EXCEPT ![Target] = MovedFile(n)] /\ Goes(n, End, "moving")
    <3>1. task'[n][End] \in MoveBegun
      BY <1>0, <2>5, StepTaken, RequestNumbers DEF Step, MoveBegun
    <3>2. \A q \in Paths : /\ files'[q] = (IF q = Target THEN MovedFile(n) ELSE files[q])
                          /\ files[q] # MovedFile(n)
      BY <1>0, <2>1, <2>5 DEF Apart, MoveBegun, Answered
    <3>3. \A q, t \in Paths : files'[q] = files'[t] /\ files'[q] # 0 => q = t
      BY <3>2 DEF Apart
    <3>4. ASSUME NEW q \in Paths, NEW m \in Uploads
          PROVE  /\ files'[q] = m => task'[m][0] \notin {"unsent", "new"}
                 /\ files'[q] = MovedFile(m) => task'[m][End] \in MoveBegun
      BY <1>4, <3>1, <3>2, FileNumbers DEF Apart, GoOn
    <3> QED BY <3>3, <3>4 DEF Apart, MovedFile, MoveBegun
  <2> QED BY <2>2, <2>3, <2>4, <2>5
<1>5. ASSUME Next, ~\E n \in Uploads : CreateFile(n) \/ EndMoves(n)
      PROVE  \A p \in Paths : files'[p] = files[p] \/ files'[p] = 0
  <2>1. PICK n \in Uploads :
          \/ \E id \in Ids, sudo \in BOOLEAN : SendStart(n, id, sudo)
          \/ \E k \in 1..Chunks : SendChunk(n, k)
          \/ SendEnd(n)
          \/ \E k \in Requests : Serve(n, k)
          \/ WriteLands(n) \/ WriteFails(n)
    BY <1>5 DEF Next
  <2>2. ASSUME NEW k \in Requests, Serve(n, k)
        PROVE  files' = files \/ \E q : files' = [files EXCEPT ![q] = 0]
    <3>1. CASE EndCopies(n)
      BY <3>1 DEF EndCopies
    <3>2. CASE EndDiscards(n)
      BY <3>2 DEF EndDiscards
    <3>3. CASE ~EndCopies(n) /\ ~EndDiscards(n)
      BY <1>5, <2>2, <3>3 DEF Serve, CreateFails, InsertTransfer, TakeTransfer, WriteChunk,
                              SeekFails, EndTakesOut, EndFlushes, Blocks
    <3> QED BY <3>1, <3>2, <3>3
  <2>3. files' = files \/ \E q : files' = [files EXCEPT ![q] = 0]
    BY <2>1, <2>2 DEF SendStart, SendChunk, SendEnd, Send, WriteLands, WriteFails
  <2> QED BY <1>0, <2>3 DEF TypeOK
<1> QED BY <1>1, <1>2, <1>3, <1>4, <1>5, AllGoOn

-----------------------------------------------------------------------------
(* An upload that meets no other.                                          *)

\* What an upload that is under way and has met no other may rely on.
LEMMA SoleIsUndisturbed ==
  ASSUME SoleUndisturbed, NEW n \in Uploads, Sole(n)
  PROVE  /\ \A m \in Uploads \ {n} : ~Busy(m)
         /\ Mapped(n) /\ Filed(n) /\ Hashed(n) /\ Landed(n)
BY DEF SoleUndisturbed, Undisturbed

\* Nothing is started for the others by what is done for one.
LEMMA OthersStayIdle ==
  ASSUME NEW n \in Uploads, \A m \in Uploads \ {n} : ~Busy(m),
         \A m \in Uploads \ {n}, j \in Requests : task'[m][j] = task[m][j],
         \A m \in Uploads \ {n} : transfer'[m].writing = transfer[m].writing
  PROVE  \A m \in Uploads \ {n} : ~Busy(m)'
BY DEF Busy, Outstanding

\* What is done for another upload is the end of being alone.
LEMMA OthersRace ==
  ASSUME Typed, SoleUndisturbed, NEW n \in Uploads, NEW m \in Uploads, m # n,
         \/ \E id \in Ids, sudo \in BOOLEAN : SendStart(m, id, sudo)
         \/ \E k \in 1..Chunks : SendChunk(m, k)
         \/ SendEnd(m)
         \/ \E k \in Requests : Serve(m, k)
         \/ WriteLands(m) \/ WriteFails(m)
  PROVE  ~Sole(n)'
<1> SUFFICES ASSUME Sole(n)' PROVE FALSE
  OBVIOUS
<1>0. TypeOK
  BY DEF Typed
<1>1. ASSUME NEW k \in Requests, Send(m, k) PROVE FALSE
  <2>1. task'[n][0] = task[n][0] /\ task'[n][End] = task[n][End]
    BY <1>0, <1>1, RequestNumbers DEF Send, Goes, TypeOK
  <2>2. Open(n)
    BY <2>1 DEF Sole, Open
  <2> QED BY <1>1, <2>2 DEF Send, Sole
<1>2. ASSUME NEW k \in Requests, Serve(m, k) PROVE FALSE
  <2>1. /\ task[m][k] \notin {"unsent"} \cup Answered /\ raced' = raced
        /\ \E s : Goes(m, k, s)
    BY <1>2, RequestNumbers
       DEF Serve, Answered, CreateFile, CreateFails, InsertTransfer, GetsMap, AtMap,
           TakeTransfer, WriteChunk, SeekFails, EndTakesOut, EndFlushes, EndMoves,
           EndCopies, EndDiscards, Blocks
  <2>2. Busy(m)
    BY <2>1 DEF Busy, Outstanding
  <2>3. task'[n][0] = task[n][0] /\ task'[n][End] = task[n][End]
    BY <1>0, <2>1, RequestNumbers DEF Goes, TypeOK
  <2>4. Sole(n)
    BY <2>1, <2>3 DEF Sole, Open
  <2> QED BY <2>2, <2>4, SoleIsUndisturbed
<1>3. ASSUME WriteLands(m) \/ WriteFails(m) PROVE FALSE
  <2>1. Busy(m) /\ task' = task /\ raced' = raced
    BY <1>3 DEF WriteLands, WriteFails, Busy
  <2>2. Sole(n)
    BY <2>1 DEF Sole, Open
  <2> QED BY <2>1, <2>2, SoleIsUndisturbed
<1> QED BY <1>1, <1>2, <1>3, RequestNumbers DEF SendStart, SendChunk, SendEnd

\* A request moves on, and is not accepted by that, nor its end begun.
LEMMA MovesOn ==
  ASSUME TypeOK, NEW n \in Uploads, Undisturbed(n),
         NEW k \in Requests, NEW s \in Step, Goes(n, k, s),
         UNCHANGED <<uploads, files, data, lost>>,
         transfer' \in [Uploads -> Transfer],
         \A m \in Uploads :
           /\ transfer'[m].writing = transfer[m].writing
           /\ transfer'[m].hasher = transfer[m].hasher
           /\ transfer'[m].id = transfer[m].id
           /\ transfer'[m].sudo = transfer[m].sudo
           /\ transfer'[m].file = transfer[m].file
           /\ transfer'[m].ending = transfer[m].ending
           /\ transfer'[m].source = transfer[m].source,
         k = 0 => s \in {"new", "error"} \/ (s = "blocked" /\ task[n][0] = "created"),
         k \in 1..Chunks => s # "ok" /\ task[n][k] # "ok",
         k = End => s \in {"new", "blocked"} /\ task[n][End] \in {"unsent", "new", "blocked"}
  PROVE  Undisturbed(n)'
<1>1. /\ task'[n][k] = s
      /\ \A m \in Uploads, j \in Requests : m # n \/ j # k => task'[m][j] = task[m][j]
  BY StepTaken
<1>2. \A m \in Uploads \ {n} : ~Busy(m)'
  BY <1>1, OthersStayIdle DEF Undisturbed
<1>3. /\ task'[n][0] = "ok" => task[n][0] = "ok"
      /\ task'[n][0] \in {"created", "blocked", "ok"} =>
           task[n][0] \in {"created", "blocked", "ok"}
  BY <1>1, RequestNumbers
<1>4. \/ task'[n][End] = task[n][End]
      \/ /\ task'[n][End] \in {"new", "blocked"}
         /\ task[n][End] \in {"unsent", "new", "blocked"}
  BY <1>1, RequestNumbers
<1>5. \A j \in 1..Chunks : task'[n][j] = "ok" <=> task[n][j] = "ok"
  BY <1>1, RequestNumbers
<1>6. OkChunks(n)' = OkChunks(n)
  BY <1>5 DEF OkChunks
<1>7. Active(n)' = Active(n) /\ TransferFor(n)' = TransferFor(n) /\ WritePath(n)' = WritePath(n)
  BY DEF Active, TransferFor, WritePath
<1>8. Mapped(n)'
  BY <1>3, <1>4, <1>7 DEF Undisturbed, Mapped
<1>9. Filed(n)'
  BY <1>3, <1>7 DEF Undisturbed, Filed
<1>10. Hashed(n)'
  BY <1>4, <1>6 DEF Undisturbed, Hashed
<1>11. Landed(n)'
  BY <1>4, <1>5, <1>6 DEF Undisturbed, Landed
<1>12. Moving(n)'
  BY <1>4 DEF Undisturbed, Moving, MovedFile
<1> QED BY <1>2, <1>8, <1>9, <1>10, <1>11, <1>12 DEF Undisturbed

\* A request that is served was sent and has not been answered.
LEMMA ServedIsOutstanding ==
  ASSUME Typed, NEW n \in Uploads, NEW k \in Requests, Serve(n, k)
  PROVE  /\ task[n][k] \notin {"unsent"} \cup Answered /\ raced' = raced
         /\ Open(n)
<1>1. task[n][k] \notin {"unsent"} \cup Answered /\ raced' = raced
  BY RequestNumbers
     DEF Serve, Answered, CreateFile, CreateFails, InsertTransfer, GetsMap, AtMap,
         TakeTransfer, WriteChunk, SeekFails, EndTakesOut, EndFlushes, EndMoves,
         EndCopies, EndDiscards, Blocks
<1>2. Ordered(n)
  BY DEF Typed
<1>3. CASE k = 0
  BY <1>1, <1>2, <1>3, RequestNumbers DEF Ordered, Open, Answered
<1>4. CASE k \in 1..Chunks
  BY <1>1, <1>2, <1>4, RequestNumbers DEF Ordered, Open, Answered
<1>5. CASE k = End
  BY <1>1, <1>2, <1>5, RequestNumbers DEF Ordered, Open, Answered
<1> QED BY <1>1, <1>3, <1>4, <1>5, RequestNumbers

\* Only its start makes an upload one that has met no other.
LEMMA WasSole ==
  ASSUME Typed, NEW n \in Uploads, Sole(n)',
         \/ \E k \in 1..Chunks : SendChunk(n, k)
         \/ SendEnd(n)
         \/ \E k \in Requests : Serve(n, k)
         \/ WriteLands(n) \/ WriteFails(n)
  PROVE  Sole(n)
<1>1. CASE (\E k \in 1..Chunks : SendChunk(n, k)) \/ SendEnd(n)
  <2>1. task[n][0] = "ok" /\ task[n][End] = "unsent" /\ raced \subseteq raced'
    BY <1>1, RequestNumbers DEF SendChunk, SendEnd, Send
  <2> QED BY <2>1 DEF Sole, Open, Answered
<1>2. CASE \E k \in Requests : Serve(n, k)
  BY <1>2, ServedIsOutstanding DEF Sole
<1>3. CASE WriteLands(n) \/ WriteFails(n)
  BY <1>3 DEF WriteLands, WriteFails, Sole, Open
<1> QED BY <1>1, <1>2, <1>3

\* fs.upload.start is sent when no other upload is under way.
LEMMA StartSentUndisturbed ==
  ASSUME Typed, NEW n \in Uploads, NEW id \in Ids, NEW sudo \in BOOLEAN,
         SendStart(n, id, sudo), Sole(n)'
  PROVE  Undisturbed(n)'
<1>0. TypeOK /\ Ordered(n) /\ n \in Nat
  BY DEF Typed, Uploads
<1>1. /\ task[n][0] = "unsent" /\ Goes(n, 0, "new") /\ UNCHANGED <<uploads, files, data, lost>>
      /\ transfer' = [transfer EXCEPT ![n].id = id, ![n].sudo = sudo]
      /\ raced' = raced \cup {m \in Uploads \ {n} : Open(m)}
                    \cup (IF \E m \in Uploads \ {n} : Busy(m) THEN {n} ELSE {})
  BY <1>0 DEF SendStart, Send
<1>2. "new" \in Step
  BY DEF Step
<1>3. /\ task'[n][0] = "new"
      /\ \A m \in Uploads, j \in Requests : m # n \/ j # 0 => task'[m][j] = task[m][j]
  BY <1>0, <1>1, <1>2, StepTaken, RequestNumbers
<1>4. /\ transfer'[n].hasher = transfer[n].hasher
      /\ \A m \in Uploads : transfer'[m].writing = transfer[m].writing
  BY <1>0, <1>1 DEF TypeOK, Transfer
<1>5. \A m \in Uploads \ {n} : ~Busy(m)
  BY <1>1 DEF Sole
<1>6. \A m \in Uploads \ {n} : ~Busy(m)'
  BY <1>3, <1>4, <1>5, OthersStayIdle
<1>7. task'[n][End] = "unsent" /\ \A j \in 1..Chunks : task'[n][j] = "unsent"
  BY <1>0, <1>1, <1>3, RequestNumbers DEF Ordered
<1>8. transfer'[n].hasher = << >> /\ transfer'[n].writing = NoChunk
  BY <1>0, <1>1, <1>4 DEF Ordered
<1>9. OkChunks(n)' = {}
  BY <1>7 DEF OkChunks
<1>10. Mapped(n)' /\ Filed(n)'
  BY <1>3, <1>7 DEF Mapped, Filed
<1>11. Hashed(n)' /\ Landed(n)' /\ Moving(n)'
  BY <1>7, <1>8, <1>9 DEF Hashed, Landed, Moving
<1> QED BY <1>6, <1>10, <1>11 DEF Undisturbed

\* The other requests of the gateway.
LEMMA SentUndisturbed ==
  ASSUME Typed, NEW n \in Uploads, Undisturbed(n),
         (\E k \in 1..Chunks : SendChunk(n, k)) \/ SendEnd(n)
  PROVE  Undisturbed(n)'
<1>0. TypeOK /\ transfer \in [Uploads -> Transfer] /\ "new" \in Step
  BY DEF Typed, TypeOK, Step
<1>1. CASE SendEnd(n)
  <2>1. /\ Goes(n, End, "new") /\ UNCHANGED <<uploads, transfer, files, data, lost>>
        /\ task[n][End] = "unsent"
    BY <1>1 DEF SendEnd, Send
  <2> QED BY <1>0, <2>1, MovesOn, RequestNumbers
<1>2. ASSUME NEW k \in 1..Chunks, SendChunk(n, k) PROVE Undisturbed(n)'
  <2>1. /\ Goes(n, k, "new") /\ UNCHANGED <<uploads, transfer, files, data, lost>>
        /\ task[n][k] # "ok"
    BY <1>2 DEF SendChunk, Send
  <2> QED BY <1>0, <2>1, MovesOn, RequestNumbers
<1> QED BY <1>1, <1>2

\* A worker that waits for the map.
LEMMA BlocksUndisturbed ==
  ASSUME Typed, NEW n \in Uploads, Undisturbed(n), NEW k \in Requests, Blocks(n, k)
  PROVE  Undisturbed(n)'
<1>0. TypeOK /\ transfer \in [Uploads -> Transfer] /\ "blocked" \in Step
  BY DEF Typed, TypeOK, Step
<1>1. /\ Goes(n, k, "blocked") /\ UNCHANGED <<uploads, transfer, files, data, lost>>
      /\ task[n][k] = (IF k = 0 THEN "created" ELSE "new")
  BY DEF Blocks, AtMap
<1> QED BY <1>0, <1>1, MovesOn, RequestNumbers

\* fs.upload.start: its file is the one its path names, and the map has it.
LEMMA StartUndisturbed ==
  ASSUME Typed, NEW n \in Uploads, Undisturbed(n),
         CreateFile(n) \/ CreateFails(n) \/ InsertTransfer(n)
  PROVE  Undisturbed(n)'
<1>0. /\ TypeOK /\ Ordered(n) /\ transfer \in [Uploads -> Transfer]
      /\ {"created", "error", "ok"} \subseteq Step /\ 0 \in Requests
  BY RequestNumbers DEF Typed, TypeOK, Step, Answered
<1>1. CASE CreateFails(n)
  <2>1. /\ Goes(n, 0, "error") /\ UNCHANGED <<uploads, transfer, files, data, lost>>
    BY <1>1 DEF CreateFails
  <2> QED BY <1>0, <2>1, MovesOn, RequestNumbers
<1>2. /\ task[n][0] \in {"new", "created", "blocked"}
      /\ task[n][End] = "unsent" /\ \A j \in 1..Chunks : task[n][j] = "unsent"
      /\ transfer[n].hasher = << >> /\ transfer[n].writing = NoChunk
  <2>1. task[n][0] \in {"new", "created", "blocked"} \/ CreateFails(n)
    BY DEF CreateFile, InsertTransfer, GetsMap, AtMap
  <2>2. task[n][0] \in {"new", "created", "blocked"}
    BY <2>1 DEF CreateFails
  <2> QED BY <1>0, <2>2, RequestNumbers DEF Ordered
<1>3. ASSUME NEW s \in {"created", "ok"}, Goes(n, 0, s),
             \A m \in Uploads : transfer'[m].writing = transfer[m].writing
                              /\ transfer'[m].hasher = transfer[m].hasher
      PROVE  /\ task'[n][0] = s /\ task'[n][End] = "unsent"
             /\ \A m \in Uploads \ {n} : ~Busy(m)'
             /\ Hashed(n)' /\ Landed(n)' /\ Moving(n)'
  <2>1. /\ task'[n][0] = s
        /\ \A m \in Uploads, j \in Requests : m # n \/ j # 0 => task'[m][j] = task[m][j]
    BY <1>0, <1>3, StepTaken
  <2>2. \A m \in Uploads \ {n} : ~Busy(m)'
    BY <1>3, <2>1, OthersStayIdle DEF Undisturbed
  <2>3. task'[n][End] = "unsent" /\ \A j \in 1..Chunks : task'[n][j] = "unsent"
    BY <1>2, <2>1, RequestNumbers
  <2>4. OkChunks(n)' = {}
    BY <2>3 DEF OkChunks
  <2>5. transfer'[n].hasher = << >> /\ transfer'[n].writing = NoChunk
    BY <1>2, <1>3
  <2>6. Hashed(n)' /\ Landed(n)' /\ Moving(n)'
    BY <2>3, <2>4, <2>5 DEF Hashed, Landed, Moving
  <2> QED BY <2>1, <2>2, <2>3, <2>6
<1>4. CASE CreateFile(n)
  <2> DEFINE p == WritePath(n)
             f == IF files[p] = 0 THEN n ELSE files[p]
  <2>1. /\ files' = [files EXCEPT ![p] = f] /\ transfer' = [transfer EXCEPT ![n].file = f]
        /\ Goes(n, 0, "created")
    BY <1>4 DEF CreateFile
  <2>2. p \in Paths /\ f # 0 /\ files \in [Paths -> Files \cup {0}]
    BY <1>0 DEF WritePath, Paths, TypeOK, Transfer, Uploads
  <2> HIDE DEF f
  <2>3. /\ \A m \in Uploads : /\ transfer'[m].writing = transfer[m].writing
                             /\ transfer'[m].hasher = transfer[m].hasher
        /\ transfer'[n].id = transfer[n].id /\ transfer'[n].sudo = transfer[n].sudo
        /\ transfer'[n].file = f
    BY <1>0, <2>1 DEF Transfer
  <2>4. WritePath(n)' = p
    BY <2>3 DEF WritePath
  <2>5. Filed(n)'
    BY <2>1, <2>2, <2>3, <2>4 DEF Filed
  <2>6. task'[n][0] = "created" /\ task'[n][End] = "unsent"
    BY <1>3, <2>1, <2>3
  <2>7. Mapped(n)'
    BY <2>6 DEF Mapped
  <2> QED BY <1>3, <2>1, <2>3, <2>5, <2>7 DEF Undisturbed
<1>5. CASE InsertTransfer(n)
  <2>1. /\ uploads' = [i \in DOMAIN uploads \cup {transfer[n].id} |->
                         IF i = transfer[n].id THEN n ELSE uploads[i]]
        /\ transfer' = transfer /\ files' = files /\ Goes(n, 0, "ok")
        /\ task[n][0] \in {"created", "blocked"}
    BY <1>5 DEF InsertTransfer, GetsMap, AtMap
  <2>2. Active(n)' /\ TransferFor(n)' = n
    BY <2>1 DEF Active, TransferFor
  <2>3. task'[n][0] = "ok" /\ task'[n][End] = "unsent"
    BY <1>3, <2>1
  <2>4. Mapped(n)'
    BY <2>2, <2>3 DEF Mapped
  <2>5. Filed(n)'
    BY <2>1 DEF Undisturbed, Filed, WritePath
  <2> QED BY <1>3, <2>1, <2>4, <2>5 DEF Undisturbed
<1> QED BY <1>1, <1>4, <1>5

\* fs.upload.chunk: what is accepted is hashed, and is handed on to be written.
LEMMA ChunkUndisturbed ==
  ASSUME Typed, NEW n \in Uploads, Sole(n), Undisturbed(n), NEW k \in 1..Chunks,
         TakeTransfer(n, k) \/ WriteChunk(n, k) \/ SeekFails(n, k)
  PROVE  Undisturbed(n)'
<1>0. /\ TypeOK /\ Ordered(n) /\ transfer \in [Uploads -> Transfer]
      /\ {"locked", "error", "ok"} \subseteq Step /\ k \in Requests
  BY RequestNumbers DEF Typed, TypeOK, Step, Answered
<1>1. CASE TakeTransfer(n, k)
  <2>1. PICK s \in {"locked", "error"} : Goes(n, k, s)
    BY <1>1 DEF TakeTransfer
  <2>2. /\ task[n][k] \in {"new", "blocked"} /\ UNCHANGED <<uploads, transfer, files, data, lost>>
    BY <1>1, RequestNumbers DEF TakeTransfer, GetsMap, AtMap
  <2> QED BY <1>0, <2>1, <2>2, MovesOn, RequestNumbers
<1>2. CASE SeekFails(n, k)
  <2>1. /\ Goes(n, k, "error") /\ task[n][k] = "locked"
        /\ UNCHANGED <<uploads, transfer, files, data, lost>>
    BY <1>2 DEF SeekFails
  <2> QED BY <1>0, <2>1, MovesOn, RequestNumbers
<1>3. CASE WriteChunk(n, k)
  <2>1. /\ task[n][k] = "locked" /\ UNCHANGED <<uploads, files, data, errors, raced, lost, left>>
    BY <1>3 DEF WriteChunk
  <2>2. task[n][0] = "ok" /\ task[n][End] = "unsent"
    BY <2>1, LockedEntry
  <2>3. TransferFor(n) = n
    BY <2>2 DEF Undisturbed, Mapped
  <2>4. transfer[n].writing = NoChunk
    BY <1>3, <2>3 DEF WriteChunk
  <2>5. CASE transfer' = [transfer EXCEPT ![n].failed = FALSE] /\ Goes(n, k, "error")
    <3>1. transfer' \in [Uploads -> Transfer]
      BY <1>0, <2>5, TransferKept
    <3>2. \A m \in Uploads :
           /\ transfer'[m].writing = transfer[m].writing
           /\ transfer'[m].hasher = transfer[m].hasher
           /\ transfer'[m].id = transfer[m].id
           /\ transfer'[m].sudo = transfer[m].sudo
           /\ transfer'[m].file = transfer[m].file
           /\ transfer'[m].ending = transfer[m].ending
           /\ transfer'[m].source = transfer[m].source
      BY <1>0, <2>5 DEF Transfer
    <3> QED BY <1>0, <2>1, <2>5, <3>1, <3>2, MovesOn, RequestNumbers
  <2>6. CASE /\ transfer' = [transfer EXCEPT ![n].hasher = Append(transfer[n].hasher, <<n, k>>),
                                            ![n].writing = <<n, k>>]
             /\ Goes(n, k, "ok")
    <3> DEFINE h == transfer[n].hasher
    <3>1. /\ task'[n][k] = "ok"
          /\ \A m \in Uploads, j \in Requests : m # n \/ j # k => task'[m][j] = task[m][j]
      BY <1>0, <2>6, StepTaken
    <3>2. /\ transfer'[n].hasher = Append(h, <<n, k>>) /\ transfer'[n].writing = <<n, k>>
          /\ transfer'[n].id = transfer[n].id /\ transfer'[n].sudo = transfer[n].sudo
          /\ transfer'[n].file = transfer[n].file
          /\ \A m \in Uploads \ {n} : transfer'[m] = transfer[m]
      BY <1>0, <2>6 DEF Transfer
    <3>3. h \in Seq(Chunk) /\ n \in Nat
      BY <1>0 DEF Transfer, Uploads
    <3>4. <<n, k>> \in Chunk
      BY DEF Chunk
    <3>5. \A m \in Uploads \ {n} : ~Busy(m)'
      BY <3>1, <3>2, OthersStayIdle DEF Undisturbed
    <3>6. task'[n][0] = task[n][0] /\ task'[n][End] = task[n][End]
      BY <3>1, RequestNumbers
    <3>7. OkChunks(n)' = OkChunks(n) \cup {<<n, k>>}
      BY <3>1, RequestNumbers DEF OkChunks
    <3>8. <<n, k>> \notin OkChunks(n)
      BY <2>1 DEF OkChunks
    <3>9. Mapped(n)' /\ Filed(n)'
      <4>1. Active(n)' = Active(n) /\ TransferFor(n)' = TransferFor(n)
            /\ WritePath(n)' = WritePath(n)
        BY <2>1, <3>2 DEF Active, TransferFor, WritePath
      <4>2. task'[n][0] = "ok" /\ task'[n][End] = "unsent"
        BY <2>2, <3>6
      <4>3. Mapped(n)'
        BY <2>2, <4>1, <4>2 DEF Mapped, Undisturbed
      <4>4. Filed(n)'
        BY <2>1, <2>2, <3>2, <4>1, <4>2 DEF Filed, Undisturbed
      <4> QED BY <4>3, <4>4
    <3>10. Hashed(n)'
      <4> DEFINE g == Append(h, <<n, k>>)
      <4>1. /\ \A i, j \in DOMAIN h : h[i] = h[j] => i = j
            /\ \A i \in DOMAIN h : h[i] \in OkChunks(n)
            /\ \A c \in OkChunks(n) : \E i \in DOMAIN h : h[i] = c
        BY <2>2 DEF Undisturbed, Hashed
      <4>2. /\ Len(h) \in Nat /\ DOMAIN h = 1..Len(h) /\ DOMAIN g = 1..(Len(h) + 1)
            /\ \A i \in 1..Len(h) : g[i] = h[i]
            /\ g[Len(h) + 1] = <<n, k>>
        BY <3>3, <3>4, AppendProperties, LenProperties
      <4> HIDE DEF g, h
      <4>3. DOMAIN g = DOMAIN h \cup {Len(h) + 1} /\ Len(h) + 1 \notin DOMAIN h
        BY <4>2
      <4>4. \A i, j \in DOMAIN g : g[i] = g[j] => i = j
        BY <3>8, <4>1, <4>2, <4>3
      <4>5. \A i \in DOMAIN g : g[i] \in OkChunks(n)'
        BY <3>7, <4>1, <4>2, <4>3
      <4>6. \A c \in OkChunks(n)' : \E i \in DOMAIN g : g[i] = c
        BY <3>7, <4>1, <4>2, <4>3
      <4>7. transfer'[n].hasher = g
        BY <3>2 DEF g, h
      <4> QED BY <4>4, <4>5, <4>6, <4>7 DEF Hashed
    <3>11. Landed(n)'
      <4>1. transfer'[n].writing \in OkChunks(n)'
        BY <3>2, <3>7
      <4>2. ASSUME n \notin lost, NEW j \in 1..Chunks, task'[n][j] = "ok"
            PROVE  data[transfer[n].file][j] = n \/ j = k
        <5>1. CASE j # k
          <6>1. task[n][j] = "ok"
            BY <3>1, <4>2, <5>1, RequestNumbers
          <6>2. transfer[n].writing # <<n, j>>
            BY <2>4 DEF NoChunk
          <6> QED BY <4>2, <6>1, <6>2 DEF Undisturbed, Landed
        <5> QED BY <5>1
      <4>3. task'[n][End] = "unsent"
        BY <2>2, <3>6
      <4> QED BY <2>1, <3>2, <4>1, <4>2, <4>3 DEF Landed
    <3>12. Moving(n)'
      BY <2>2, <3>6 DEF Moving
    <3> QED BY <3>5, <3>9, <3>10, <3>11, <3>12 DEF Undisturbed
  <2> QED BY <1>3, <2>3, <2>5, <2>6 DEF WriteChunk
<1> QED BY <1>1, <1>2, <1>3

\* fs.upload.end, while it has not answered.
LEMMA EndUndisturbed ==
  ASSUME Typed, Apart, NEW n \in Uploads, Undisturbed(n), Open(n)',
         \/ EndTakesOut(n) \/ EndFlushes(n) \/ EndMoves(n) \/ EndCopies(n)
         \/ EndDiscards(n)
  PROVE  Undisturbed(n)'
<1>0. /\ TypeOK /\ Ordered(n) /\ transfer \in [Uploads -> Transfer]
      /\ {"flush", "error", "mismatch", "move", "moving", "unmoved", "ok", "unflushed"}
           \subseteq Step
      /\ files \in [Paths -> Files \cup {0}] /\ End \in Requests
      /\ data \in [Files -> [1..Chunks -> 0..MaxUploads]]
  BY RequestNumbers DEF Typed, TypeOK, Step, Answered
<1>1. ASSUME NEW s \in Step, Goes(n, End, s), task[n][End] # "unsent"
      PROVE  /\ task'[n][End] = s /\ s \notin Answered
             /\ task[n][0] = "ok" /\ task'[n][0] = "ok"
             /\ \A j \in 1..Chunks : task'[n][j] = task[n][j]
             /\ \A m \in Uploads \ {n}, j \in Requests : task'[m][j] = task[m][j]
             /\ OkChunks(n)' = OkChunks(n)
  <2>1. /\ task'[n][End] = s
        /\ \A m \in Uploads, j \in Requests : m # n \/ j # End => task'[m][j] = task[m][j]
    BY <1>0, <1>1, StepTaken
  <2>2. /\ \A j \in 1..Chunks : task'[n][j] = task[n][j]
        /\ task'[n][0] = task[n][0]
    BY <2>1, RequestNumbers
  <2>3. task[n][0] = "ok"
    BY <1>0, <1>1, RequestNumbers DEF Ordered
  <2>4. OkChunks(n)' = OkChunks(n)
    BY <2>2 DEF OkChunks
  <2> QED BY <2>1, <2>2, <2>3, <2>4 DEF Open
<1>2. CASE EndTakesOut(n)
  <2>1. task[n][End] \in {"new", "blocked"} /\ UNCHANGED <<files, data, lost>>
    BY <1>2, RequestNumbers DEF EndTakesOut, GetsMap, AtMap
  <2>2. task[n][0] = "ok"
    BY <1>0, <2>1, RequestNumbers DEF Ordered
  <2>3. Active(n) /\ TransferFor(n) = n
    BY <2>1, <2>2 DEF Undisturbed, Mapped
  <2>4. transfer' = [transfer EXCEPT ![n].ending = n] /\ Goes(n, End, "flush")
    BY <1>2, <2>3 DEF EndTakesOut
  <2>5. /\ task'[n][End] = "flush"
        /\ \A j \in 1..Chunks : task'[n][j] = task[n][j]
        /\ \A m \in Uploads \ {n}, j \in Requests : task'[m][j] = task[m][j]
        /\ OkChunks(n)' = OkChunks(n)
    BY <1>0, <1>1, <2>1, <2>4
  <2>6. /\ \A m \in Uploads : transfer'[m].writing = transfer[m].writing
        /\ transfer'[n].hasher = transfer[n].hasher /\ transfer'[n].ending = n
        /\ transfer'[n].id = transfer[n].id /\ transfer'[n].sudo = transfer[n].sudo
        /\ transfer'[n].file = transfer[n].file
    BY <1>0, <2>4 DEF Transfer
  <2>7. \A m \in Uploads \ {n} : ~Busy(m)'
    BY <2>5, <2>6, OthersStayIdle DEF Undisturbed
  <2>8. Mapped(n)'
    BY <2>5, <2>6 DEF Mapped
  <2>9. Filed(n)'
    BY <2>1, <2>2, <2>6 DEF Filed, Undisturbed, WritePath
  <2>10. Hashed(n)' /\ Landed(n)' /\ Moving(n)'
    BY <2>1, <2>5, <2>6 DEF Hashed, Landed, Moving, Undisturbed
  <2> QED BY <2>7, <2>8, <2>9, <2>10 DEF Undisturbed
<1>3. CASE EndFlushes(n)
  <2>1. task[n][End] = "flush" /\ UNCHANGED <<uploads, files, data, lost>>
    BY <1>3 DEF EndFlushes
  <2>2. transfer[n].ending = n
    BY <2>1 DEF Undisturbed, Mapped
  <2>3. transfer[n].writing = NoChunk /\ transfer' = [transfer EXCEPT ![n].hasher = << >>]
    BY <1>3, <2>2 DEF EndFlushes, EndsHash
  <2>4. PICK s \in {"mismatch", "move", "ok", "unflushed"} :
          Goes(n, End, s) /\ (s = "move" => transfer[n].sudo)
    BY <1>3, <2>2 DEF EndFlushes, Verified
  <2>5. /\ task'[n][End] = s /\ s \in {"mismatch", "move"} /\ task[n][0] = "ok"
        /\ \A j \in 1..Chunks : task'[n][j] = task[n][j]
        /\ \A m \in Uploads \ {n}, j \in Requests : task'[m][j] = task[m][j]
        /\ OkChunks(n)' = OkChunks(n)
    BY <1>0, <1>1, <2>1, <2>4 DEF Answered
  <2>6. /\ \A m \in Uploads : transfer'[m].writing = transfer[m].writing
        /\ transfer'[n].ending = n
        /\ transfer'[n].id = transfer[n].id /\ transfer'[n].sudo = transfer[n].sudo
        /\ transfer'[n].file = transfer[n].file
    BY <1>0, <2>2, <2>3 DEF Transfer
  <2>7. \A m \in Uploads \ {n} : ~Busy(m)'
    BY <2>5, <2>6, OthersStayIdle DEF Undisturbed
  <2>8. Mapped(n)' /\ Hashed(n)'
    BY <2>5, <2>6 DEF Mapped, Hashed
  <2>9. Filed(n)'
    BY <2>1, <2>5, <2>6 DEF Filed, Undisturbed, WritePath
  <2>10. Landed(n)' /\ Moving(n)'
    BY <2>1, <2>3, <2>4, <2>5, <2>6 DEF Landed, Moving, Undisturbed
  <2> QED BY <2>7, <2>8, <2>9, <2>10 DEF Undisturbed
<1>4. ASSUME task[n][End] \in {"move", "moving"}
      PROVE  /\ transfer[n].id \in Paths /\ transfer[n].id # Target /\ Target \in Paths
             /\ task[n][0] = "ok" /\ transfer[n].sudo /\ WritePath(n) = transfer[n].id
             /\ transfer[n].file # 0 /\ files[transfer[n].id] = transfer[n].file
             /\ transfer[n].file # MovedFile(n)
  <2>1. transfer[n].id \in Paths /\ transfer[n].id # Target /\ Target \in Paths
    BY <1>0, UploadPaths DEF Transfer, Paths
  <2>2. task[n][0] = "ok" /\ transfer[n].sudo
    BY <1>0, <1>4, RequestNumbers DEF Ordered, Undisturbed, Landed
  <2>3. WritePath(n) = transfer[n].id
    BY <2>2 DEF WritePath
  <2>4. transfer[n].file # 0 /\ files[transfer[n].id] = transfer[n].file
    BY <2>2, <2>3 DEF Undisturbed, Filed
  <2>5. transfer[n].file # MovedFile(n)
    <3>1. CASE task[n][End] = "move"
      BY <2>1, <2>4, <3>1 DEF Apart, MoveBegun, Answered
    <3>2. CASE task[n][End] = "moving"
      BY <2>1, <2>4, <3>2 DEF Apart, Undisturbed, Moving
    <3> QED BY <1>4, <3>1, <3>2
  <2> QED BY <2>1, <2>2, <2>3, <2>4, <2>5
<1>5. CASE EndMoves(n)
  <2>1. /\ task[n][End] = "move" /\ UNCHANGED <<uploads, lost>>
    BY <1>5 DEF EndMoves
  <2>2. \/ Goes(n, End, "ok")
        \/ /\ Goes(n, End, "moving")
           /\ files' = [files EXCEPT ![Target] = MovedFile(n)]
           /\ data' = [data EXCEPT ![MovedFile(n)] = Empty]
           /\ transfer' = [transfer EXCEPT ![n].source = transfer[n].file]
        \/ Goes(n, End, "unmoved") /\ UNCHANGED <<files, data, transfer>>
    BY <1>4, <1>5, <2>1 DEF EndMoves
  <2>3. PICK s \in {"ok", "moving", "unmoved"} : Goes(n, End, s)
    BY <2>2
  <2>4. /\ task'[n][End] = s /\ s \in {"moving", "unmoved"} /\ task[n][0] = "ok"
        /\ \A j \in 1..Chunks : task'[n][j] = task[n][j]
        /\ \A m \in Uploads \ {n}, j \in Requests : task'[m][j] = task[m][j]
        /\ OkChunks(n)' = OkChunks(n) /\ ~Goes(n, End, "ok")
    BY <1>0, <1>1, <2>1, <2>3 DEF Answered
  <2>5. /\ \A m \in Uploads : transfer'[m].writing = transfer[m].writing
        /\ transfer'[n].ending = transfer[n].ending /\ transfer'[n].file = transfer[n].file
        /\ transfer'[n].id = transfer[n].id /\ transfer'[n].sudo = transfer[n].sudo
        /\ Goes(n, End, "moving") => transfer'[n].source = transfer[n].file
    <3>1. CASE transfer' = transfer /\ ~Goes(n, End, "moving")
      BY <3>1
    <3>2. CASE transfer' = [transfer EXCEPT ![n].source = transfer[n].file]
      BY <1>0, <3>2 DEF Transfer
    <3>3. Goes(n, End, "unmoved") => ~Goes(n, End, "moving")
      BY <1>0, GoesTo
    <3> QED BY <2>2, <2>4, <3>1, <3>2, <3>3
  <2>6. /\ files'[transfer[n].id] = files[transfer[n].id]
        /\ data'[transfer[n].file] = data[transfer[n].file]
    <3>1. transfer[n].file \in Files
      BY <1>0, <1>4, <2>1
    <3> QED BY <1>0, <1>4, <2>1, <2>2, <2>4, <3>1
  <2>7. \A m \in Uploads \ {n} : ~Busy(m)'
    BY <2>4, <2>5, OthersStayIdle DEF Undisturbed
  <2>8. Mapped(n)' /\ Hashed(n)'
    BY <2>1, <2>4, <2>5 DEF Mapped, Hashed, Undisturbed
  <2>9. Filed(n)'
    BY <1>4, <2>1, <2>5, <2>6 DEF Filed, WritePath
  <2>10. Landed(n)'
    BY <2>1, <2>4, <2>5, <2>6 DEF Landed, Undisturbed
  <2>11. Moving(n)'
    <3>1. task'[n][End] = "moving" => Goes(n, End, "moving")
      BY <2>3, <2>4
    <3>2. Goes(n, End, "moving") => files'[Target] = MovedFile(n)
      <4>1. Goes(n, End, "unmoved") => ~Goes(n, End, "moving")
        BY <1>0, GoesTo
      <4> QED BY <1>0, <1>4, <2>1, <2>2, <2>4, <4>1
    <3> QED BY <2>5, <3>1, <3>2 DEF Moving, MovedFile
  <2> QED BY <2>7, <2>8, <2>9, <2>10, <2>11 DEF Undisturbed
<1>6. CASE EndCopies(n)
  <2>1. /\ task[n][End] = "moving" /\ UNCHANGED <<uploads, transfer, lost>>
    BY <1>6 DEF EndCopies
  <2>2. PICK s \in {"ok", "unmoved"} : Goes(n, End, s) /\ (s = "unmoved" => files' = files)
    BY <1>6 DEF EndCopies
  <2>3. /\ task'[n][End] = s /\ s = "unmoved" /\ task[n][0] = "ok"
        /\ \A j \in 1..Chunks : task'[n][j] = task[n][j]
        /\ \A m \in Uploads \ {n}, j \in Requests : task'[m][j] = task[m][j]
        /\ OkChunks(n)' = OkChunks(n)
    BY <1>0, <1>1, <2>1, <2>2 DEF Answered
  <2>4. data'[transfer[n].file] = data[transfer[n].file]
    <3>1. transfer[n].file \in Files
      BY <1>0, <1>4, <2>1
    <3>2. PICK k : Copied(n, k)
      BY <1>6 DEF EndCopies
    <3> QED BY <1>0, <1>4, <2>1, <3>1, <3>2 DEF Copied
  <2>5. \A m \in Uploads \ {n} : ~Busy(m)'
    BY <2>1, <2>3, OthersStayIdle DEF Undisturbed
  <2>6. Mapped(n)' /\ Hashed(n)' /\ Moving(n)'
    BY <2>1, <2>3 DEF Mapped, Hashed, Moving, Undisturbed
  <2>7. Filed(n)'
    BY <2>1, <2>2, <2>3 DEF Filed, Undisturbed, WritePath
  <2>8. Landed(n)'
    BY <2>1, <2>3, <2>4 DEF Landed, Undisturbed
  <2> QED BY <2>5, <2>6, <2>7, <2>8 DEF Undisturbed
<1>7. CASE EndDiscards(n)
  <2>1. task[n][End] # "unsent" /\ Goes(n, End, "error")
    BY <1>7 DEF EndDiscards
  <2> QED BY <1>0, <1>1, <2>1 DEF Answered
<1> QED BY <1>2, <1>3, <1>5, <1>6, <1>7

\* The blocking thread puts the chunk in its place, or a write is lost.
LEMMA WriteUndisturbed ==
  ASSUME Typed, NEW n \in Uploads, Undisturbed(n), WriteLands(n) \/ WriteFails(n)
  PROVE  Undisturbed(n)'
<1>0. /\ TypeOK /\ Ordered(n) /\ transfer \in [Uploads -> Transfer]
      /\ UNCHANGED <<uploads, task, files>> /\ transfer[n].writing # NoChunk
      /\ data \in [Files -> [1..Chunks -> 0..MaxUploads]]
  BY DEF Typed, TypeOK, WriteLands, WriteFails
<1>1. PICK k \in 1..Chunks : transfer[n].writing = <<n, k>> /\ task[n][k] = "ok"
  BY <1>0 DEF Undisturbed, Landed, OkChunks
<1>2. /\ transfer'[n].writing = NoChunk
      /\ transfer'[n].hasher = transfer[n].hasher /\ transfer'[n].ending = transfer[n].ending
      /\ transfer'[n].id = transfer[n].id /\ transfer'[n].sudo = transfer[n].sudo
      /\ transfer'[n].file = transfer[n].file /\ transfer'[n].source = transfer[n].source
      /\ \A m \in Uploads \ {n} : transfer'[m] = transfer[m]
  <2>1. \/ transfer' = [transfer EXCEPT ![n].writing = NoChunk]
        \/ transfer' = [transfer EXCEPT ![n].writing = NoChunk, ![n].failed = TRUE]
    BY DEF WriteLands, WriteFails
  <2> QED BY <1>0, <2>1 DEF Transfer
<1>3. \A m \in Uploads \ {n} : ~Busy(m)'
  BY <1>0, <1>2, OthersStayIdle DEF Undisturbed
<1>4. OkChunks(n)' = OkChunks(n) /\ Active(n)' = Active(n) /\ TransferFor(n)' = TransferFor(n)
      /\ WritePath(n)' = WritePath(n)
  BY <1>0, <1>2 DEF OkChunks, Active, TransferFor, WritePath
<1>5. Mapped(n)' /\ Hashed(n)' /\ Filed(n)'
  BY <1>0, <1>2, <1>4 DEF Mapped, Hashed, Filed, Undisturbed
<1>6. Landed(n)'
  <2>1. task[n][0] = "ok" /\ transfer[n].file \in Files
    <3>1. task[n][0] = "ok"
      BY <1>0, <1>1 DEF Ordered
    <3>2. transfer[n].file # 0 /\ transfer[n].file \in Files \cup {0}
      BY <1>0, <3>1 DEF Undisturbed, Filed, Transfer
    <3> QED BY <3>1, <3>2
  <2>2. ASSUME n \notin lost', NEW j \in 1..Chunks, task[n][j] = "ok"
        PROVE  data'[transfer[n].file][j] = n
    <3>1. CASE WriteFails(n)
      BY <1>1, <2>2, <3>1 DEF WriteFails
    <3>2. CASE WriteLands(n)
      <4>1. data' = [data EXCEPT ![transfer[n].file][k] = n] /\ lost' = lost
        BY <1>1, <3>2 DEF WriteLands
      <4>2. data'[transfer[n].file][j] = IF j = k THEN n ELSE data[transfer[n].file][j]
        BY <1>0, <2>1, <4>1
      <4>3. j # k => data[transfer[n].file][j] = n
        <5>1. j # k => transfer[n].writing # <<n, j>>
          BY <1>1
        <5> QED BY <2>2, <4>1, <5>1 DEF Undisturbed, Landed
      <4> QED BY <4>2, <4>3
    <3> QED BY <3>1, <3>2
  <2>3. task'[n][End] \in {"move", "moving"} => transfer'[n].sudo
    BY <1>0, <1>2 DEF Undisturbed, Landed
  <2> QED BY <1>0, <1>2, <2>2, <2>3 DEF Landed
<1>7. Moving(n)'
  BY <1>0, <1>2 DEF Undisturbed, Moving, MovedFile
<1> QED BY <1>3, <1>5, <1>6, <1>7 DEF Undisturbed

\* Uploads that have met no other remain undisturbed.
LEMMA UndisturbedStep == Typed /\ Apart /\ SoleUndisturbed /\ [Next]_vars => SoleUndisturbed'
<1> SUFFICES ASSUME Typed, Apart, SoleUndisturbed, [Next]_vars, NEW n \in Uploads, Sole(n)'
             PROVE  Undisturbed(n)'
  BY DEF SoleUndisturbed
<1>1. CASE UNCHANGED vars
  <2>1. Sole(n)
    BY <1>1 DEF vars, Sole, Open
  <2>2. Undisturbed(n)
    BY <2>1 DEF SoleUndisturbed
  <2> QED BY <1>1, <2>2
          DEF vars, Undisturbed, Busy, Outstanding, Mapped, Filed, Hashed, Landed,
              Moving, MovedFile, Active, TransferFor, WritePath, OkChunks
<1>2. ASSUME NEW id \in Ids, NEW sudo \in BOOLEAN, SendStart(n, id, sudo)
      PROVE  Undisturbed(n)'
  BY <1>2, StartSentUndisturbed
<1>3. CASE (\E k \in 1..Chunks : SendChunk(n, k)) \/ SendEnd(n)
  <2>1. Sole(n)
    BY <1>3, WasSole
  <2> QED BY <1>3, <2>1, SentUndisturbed DEF SoleUndisturbed
<1>4. ASSUME NEW k \in Requests, Serve(n, k) PROVE Undisturbed(n)'
  <2>1. Sole(n)
    BY <1>4, WasSole
  <2>2. Undisturbed(n) /\ Open(n)'
    BY <2>1 DEF SoleUndisturbed, Sole
  <2> QED BY <1>4, <2>1, <2>2, BlocksUndisturbed, StartUndisturbed, ChunkUndisturbed,
             EndUndisturbed DEF Serve
<1>5. CASE WriteLands(n) \/ WriteFails(n)
  <2>1. Sole(n)
    BY <1>5, WasSole
  <2> QED BY <1>5, <2>1, WriteUndisturbed DEF SoleUndisturbed
<1>6. CASE Next
  <2>1. PICK m \in Uploads :
          \/ \E id \in Ids, sudo \in BOOLEAN : SendStart(m, id, sudo)
          \/ \E k \in 1..Chunks : SendChunk(m, k)
          \/ SendEnd(m)
          \/ \E k \in Requests : Serve(m, k)
          \/ WriteLands(m) \/ WriteFails(m)
    BY <1>6 DEF Next
  <2>2. CASE m # n
    BY <2>1, <2>2, OthersRace
  <2>3. CASE m = n
    BY <1>2, <1>3, <1>4, <1>5, <2>1, <2>3
  <2> QED BY <2>2, <2>3
<1> QED BY <1>1, <1>6

\* At first no upload is under way.
LEMMA UndisturbedInitially == Init => Apart /\ SoleUndisturbed
<1> SUFFICES ASSUME Init PROVE Apart /\ SoleUndisturbed
  OBVIOUS
<1>1. Apart
  BY FileNumbers DEF Init, Apart
<1>2. SoleUndisturbed
  BY RequestNumbers DEF Init, SoleUndisturbed, Sole, Open
<1> QED BY <1>1, <1>2

\* All of this holds of every behaviour.
LEMMA AlwaysUndisturbed == Spec => [](Typed /\ Apart /\ SoleUndisturbed)
BY TypedInitially, TypedStep, ApartStep, UndisturbedInitially, UndisturbedStep, PTL DEF Spec

\* A sequence that has each of so many chunks once is as long.
LEMMA EachOnce ==
  ASSUME NEW n, NEW h \in Seq(Chunk),
         \A i, j \in DOMAIN h : h[i] = h[j] => i = j,
         Range(h) = {<<n, k>> : k \in 1..Chunks}
  PROVE  Len(h) = Chunks
<1> DEFINE g == [i \in 1..Len(h) |-> h[i][2]]
<1>1. DOMAIN h = 1..Len(h) /\ Len(h) \in Nat
  BY LenProperties
<1>2. \A i \in 1..Len(h) : h[i] \in {<<n, k>> : k \in 1..Chunks}
  BY <1>1 DEF Range
<1>3. \A i \in 1..Len(h) : g[i] \in 1..Chunks /\ h[i] = <<n, g[i]>>
  BY <1>2
<1>4. \A k \in 1..Chunks : \E i \in 1..Len(h) : g[i] = k
  <2>1. \A k \in 1..Chunks : <<n, k>> \in Range(h)
    OBVIOUS
  <2>2. \A k \in 1..Chunks : \E i \in 1..Len(h) : h[i] = <<n, k>>
    BY <1>1, <2>1 DEF Range
  <2> QED BY <2>2
<1>5. \A i, j \in 1..Len(h) : g[i] = g[j] => i = j
  BY <1>1, <1>3
<1> HIDE DEF g
<1>6. g \in Bijection(1..Len(h), 1..Chunks)
  <2>1. g \in [1..Len(h) -> 1..Chunks]
    BY <1>3 DEF g
  <2> QED BY <1>4, <1>5, <2>1 DEF Bijection, Injection, Surjection, IsInjective
<1>7. ExistsBijection(1..Len(h), 1..Chunks)
  BY <1>6 DEF ExistsBijection
<1>8. Cardinality(1..Chunks) = Cardinality(1..Len(h))
  BY <1>1, <1>7, FS_Interval, FS_Bijection
<1>9. Cardinality(1..Chunks) = Chunks /\ Cardinality(1..Len(h)) = Len(h)
  <2>1. Chunks \in Nat /\ 1 \in Int
    BY UploadBounds
  <2>2. Cardinality(1..Chunks) = IF 1 > Chunks THEN 0 ELSE Chunks - 1 + 1
    BY <2>1, FS_Interval
  <2>3. Cardinality(1..Len(h)) = IF 1 > Len(h) THEN 0 ELSE Len(h) - 1 + 1
    BY <1>1, FS_Interval
  <2> QED BY <1>1, <2>1, <2>2, <2>3
<1> QED BY <1>8, <1>9

\* fs.upload.chunk: of an upload that meets no other, each chunk has gone into
\* the hash exactly once when the checksum is compared.
THEOREM EachChunkHashedOnce == Spec => []HashedOnce
<1>1. Typed /\ SoleUndisturbed => HashedOnce
  <2> SUFFICES ASSUME Typed, SoleUndisturbed, NEW n \in Uploads \ raced,
                      task[n][End] \in {"new", "blocked", "flush"}
               PROVE  /\ Len(transfer[n].hasher) = Chunks
                      /\ Range(transfer[n].hasher) = {<<n, k>> : k \in 1..Chunks}
    BY DEF HashedOnce
  <2> DEFINE h == transfer[n].hasher
  <2>1. \A k \in 0..Chunks : task[n][k] = "ok"
    BY DEF Typed, Ordered
  <2>2. task[n][0] = "ok" /\ \A k \in 1..Chunks : task[n][k] = "ok"
    BY <2>1, RequestNumbers
  <2>3. Hashed(n)
    BY <2>2 DEF SoleUndisturbed, Undisturbed, Sole, Open, Answered
  <2>4. OkChunks(n) = {<<n, k>> : k \in 1..Chunks}
    BY <2>2 DEF OkChunks
  <2>5. /\ \A i, j \in DOMAIN h : h[i] = h[j] => i = j
        /\ \A i \in DOMAIN h : h[i] \in OkChunks(n)
        /\ \A c \in OkChunks(n) : \E i \in DOMAIN h : h[i] = c
    BY <2>3 DEF Hashed
  <2>6. h \in Seq(Chunk)
    BY DEF Typed, TypeOK, Transfer
  <2> HIDE DEF h
  <2>7. Range(h) = OkChunks(n)
    BY <2>5 DEF Range
  <2>8. Len(h) = Chunks
    <3>1. Range(h) = {<<n, k>> : k \in 1..Chunks}
      BY <2>4, <2>7
    <3>2. \A i, j \in DOMAIN h : h[i] = h[j] => i = j
      BY <2>5
    <3> QED BY <2>6, <3>1, <3>2, EachOnce
  <2> QED BY <2>4, <2>7, <2>8 DEF h
<1> QED BY <1>1, AlwaysUndisturbed, PTL

\* Who brings the end of an upload on.
LEMMA EndBrought ==
  ASSUME Typed, Next, NEW n \in Uploads, task'[n][End] # task[n][End],
         task'[n][End] \in {"ok", "error"}
  PROVE  \/ EndTakesOut(n) \/ EndFlushes(n) \/ EndMoves(n) \/ EndCopies(n)
         \/ EndDiscards(n)
<1>0. TypeOK
  BY DEF Typed
<1>1. ASSUME NEW m \in Uploads, NEW k \in Requests, NEW s, Goes(m, k, s)
      PROVE  m = n /\ k = End /\ s \in {"ok", "error"}
  BY <1>0, <1>1, RequestNumbers DEF Goes, TypeOK
<1>2. ASSUME NEW m \in Uploads, NEW k \in Requests, Send(m, k) PROVE FALSE
  BY <1>1, <1>2 DEF Send
<1>3. ASSUME NEW m \in Uploads, NEW k \in Requests, Serve(m, k) PROVE m = n /\ k = End
  <2>1. \E s : Goes(m, k, s)
    BY <1>3 DEF Serve, CreateFile, CreateFails, InsertTransfer, TakeTransfer, WriteChunk,
                SeekFails, EndTakesOut, EndFlushes, EndMoves, EndCopies, EndDiscards,
                Blocks
  <2> QED BY <1>1, <2>1
<1>4. ASSUME Blocks(n, End) PROVE FALSE
  BY <1>1, <1>4, RequestNumbers DEF Blocks
<1>5. PICK m \in Uploads :
        \/ \E id \in Ids, sudo \in BOOLEAN : SendStart(m, id, sudo)
        \/ \E k \in 1..Chunks : SendChunk(m, k)
        \/ SendEnd(m)
        \/ \E k \in Requests : Serve(m, k)
        \/ WriteLands(m) \/ WriteFails(m)
  BY DEF Next
<1>6. PICK k \in Requests : Serve(m, k)
  BY <1>2, <1>5, RequestNumbers DEF SendStart, SendChunk, SendEnd, WriteLands, WriteFails
<1>7. m = n /\ k = End
  BY <1>3, <1>6
<1> QED BY <1>4, <1>6, <1>7, RequestNumbers DEF Serve

\* fs.upload.end: an upload that is answered as complete is on disk, whole.
THEOREM CompleteUploadOnDisk == Spec => CompleteIsOnDisk
<1>1. Typed /\ Apart /\ SoleUndisturbed /\ [Next]_vars =>
        [\A n \in Uploads \ (raced \cup lost) :
           task[n][End] # "ok" /\ task'[n][End] = "ok" => OnDisk(n)']_vars
  <2> SUFFICES ASSUME Typed, Apart, SoleUndisturbed, Next,
                      NEW n \in Uploads \ (raced \cup lost),
                      task[n][End] # "ok", task'[n][End] = "ok"
               PROVE  OnDisk(n)'
    OBVIOUS
  <2>0. /\ TypeOK /\ Ordered(n) /\ transfer \in [Uploads -> Transfer]
        /\ files \in [Paths -> Files \cup {0}] /\ Target \in Paths
        /\ data \in [Files -> [1..Chunks -> 0..MaxUploads]]
    BY DEF Typed, TypeOK, Paths
  <2>1. ASSUME NEW s, Goes(n, End, s) PROVE s = "ok"
    BY <2>0, <2>1, RequestNumbers DEF Goes, TypeOK
  <2>2. \/ EndFlushes(n) /\ task[n][End] = "flush"
        \/ EndMoves(n) /\ task[n][End] = "move"
        \/ EndCopies(n) /\ task[n][End] = "moving"
    <3>1. ASSUME EndTakesOut(n) PROVE FALSE
      BY <2>1, <3>1 DEF EndTakesOut
    <3>2. ASSUME EndDiscards(n) PROVE FALSE
      BY <2>1, <3>2 DEF EndDiscards
    <3> QED BY <3>1, <3>2, EndBrought DEF EndFlushes, EndMoves, EndCopies
  <2>3. /\ \A k \in 0..Chunks : task[n][k] = "ok"
    BY <2>0, <2>2 DEF Ordered
  <2>4. task[n][0] = "ok" /\ \A k \in 1..Chunks : task[n][k] = "ok"
    BY <2>3, RequestNumbers
  <2>5. Mapped(n) /\ Filed(n) /\ Landed(n) /\ Moving(n)
    BY <2>2, <2>4 DEF SoleUndisturbed, Undisturbed, Sole, Open, Answered
  <2>6. /\ transfer[n].file # 0 /\ files[WritePath(n)] = transfer[n].file
        /\ transfer[n].file \in Files
    BY <2>0, <2>4, <2>5 DEF Filed, Transfer
  <2>7. ASSUME transfer[n].writing = NoChunk
        PROVE  data[transfer[n].file] = Whole(n)
    <3>1. ASSUME NEW k \in 1..Chunks PROVE data[transfer[n].file][k] = n
      <4>1. transfer[n].writing # <<n, k>>
        BY <2>7 DEF NoChunk
      <4> QED BY <2>4, <2>5, <4>1 DEF Landed
    <3> QED BY <2>0, <2>6, <3>1 DEF Whole
  <2>8. SUFFICES files'[Target] # 0 /\ data'[files'[Target]] = Whole(n)
    BY DEF OnDisk, Whole
  <2>9. CASE EndFlushes(n) /\ task[n][End] = "flush"
    <3>1. transfer[n].ending = n
      BY <2>5, <2>9 DEF Mapped
    <3>2. transfer[n].writing = NoChunk /\ files' = files /\ data' = data
      BY <2>9, <3>1 DEF EndFlushes
    <3>3. ~transfer[n].sudo
      BY <2>1, <2>9, <3>1 DEF EndFlushes, Verified
    <3> QED BY <2>6, <2>7, <3>2, <3>3 DEF WritePath
  <2>10. CASE EndMoves(n) /\ task[n][End] = "move"
    <3>1. transfer[n].writing = NoChunk /\ transfer[n].sudo
      BY <2>5, <2>10 DEF Landed
    <3>2. /\ files' = [files EXCEPT ![Target] = files[transfer[n].id], ![transfer[n].id] = 0]
          /\ data' = data
      BY <2>1, <2>10 DEF EndMoves
    <3>3. transfer[n].id \in Ids /\ transfer[n].id # Target
      BY <2>0, UploadPaths DEF Transfer
    <3>4. files'[Target] = files[transfer[n].id]
      BY <2>0, <3>2, <3>3
    <3> QED BY <2>6, <2>7, <3>1, <3>2, <3>4 DEF WritePath
  <2>11. CASE EndCopies(n) /\ task[n][End] = "moving"
    <3>1. /\ transfer[n].writing = NoChunk /\ transfer[n].sudo
          /\ transfer[n].source = transfer[n].file /\ files[Target] = MovedFile(n)
      BY <2>5, <2>11 DEF Landed, Moving
    <3>2. files' = [files EXCEPT ![transfer[n].id] = 0] /\ Copied(n, Chunks)
      BY <2>1, <2>11 DEF EndCopies
    <3>3. transfer[n].id \in Ids /\ transfer[n].id # Target
      BY <2>0, UploadPaths DEF Transfer
    <3>4. files'[Target] = MovedFile(n) /\ MovedFile(n) \in Files /\ MovedFile(n) # 0
      BY <2>0, <3>1, <3>2, <3>3, FileNumbers
    <3>5. data'[MovedFile(n)] =
            [j \in 1..Chunks |-> IF j > Chunks THEN 0 ELSE data[transfer[n].file][j]]
      BY <2>0, <3>1, <3>2, <3>4 DEF Copied
    <3>6. data[transfer[n].file] = Whole(n)
      BY <2>7, <3>1
    <3>7. data'[MovedFile(n)] = Whole(n)
      BY <3>5, <3>6, UploadBounds DEF Whole
    <3> QED BY <3>4, <3>7
  <2> QED BY <2>2, <2>9, <2>10, <2>11
<1> QED BY <1>1, AlwaysUndisturbed, PTL DEF Spec, CompleteIsOnDisk
-----------------------------------------------------------------------------
(* Where the chunks of an upload are.                                      *)

\* A file that some path names, or that some mv copies.
Live(f) ==
  \/ \E p \in Paths : files[p] = f
  \/ \E m \in Uploads : task[m][End] = "moving" /\ transfer[m].source = f

\* Until an upload has been answered, its chunks are in its own file and nowhere
\* else; no write of one is under way any more when its end has flushed, and no
\* file that can still be read has one when it has been refused.
Contained(n) ==
  /\ task[n][0] \in {"unsent", "new"} => transfer[n].file = 0
  /\ \A m \in Uploads, k \in 1..Chunks :
       transfer[m].writing = <<n, k>> =>
         m = n /\ task[n][End] \in {"unsent", "new", "blocked", "flush"}
  /\ n \notin left /\ task[n][End] \notin {"ok", "unflushed"} =>
       \A f \in Files, k \in 1..Chunks :
         Live(f) /\ data[f][k] = n => f = transfer[n].file /\ task[n][End] # "error"

\* So for every upload that has met no other.
AllContained == \A n \in Uploads \ raced : Contained(n)

\* No chunk of an upload appears in another file, nor does a file that has one.
Shrinks(n) ==
  \A f \in Files, k \in 1..Chunks :
    Live(f)' /\ data'[f][k] = n => Live(f) /\ data[f][k] = n

\* Paths that are left alone keep the files that can be read.
LEMMA LiveKept ==
  ASSUME NEW n, UNCHANGED <<files, data>>,
         \A m \in Uploads : transfer'[m].source = transfer[m].source,
         \A m \in Uploads : task'[m][End] = "moving" => task[m][End] = "moving"
  PROVE  Shrinks(n)
BY DEF Shrinks, Live

\* What the tasks do to files, except for the copy of an mv.
LEMMA ServeShrinks ==
  ASSUME Typed, NEW n \in Uploads, NEW x \in Uploads, NEW k \in Requests, Serve(x, k),
         ~EndCopies(x)
  PROVE  Shrinks(n)
<1>0. /\ TypeOK /\ n # 0 /\ transfer \in [Uploads -> Transfer]
      /\ files \in [Paths -> Files \cup {0}] /\ MovedFile(x) \in Files
      /\ data \in [Files -> [1..Chunks -> 0..MaxUploads]]
      /\ Target \in Paths /\ \A m \in Uploads : transfer[m].id \in Paths /\ WritePath(m) \in Paths
      /\ \A j \in 1..Chunks : Empty[j] # n
  BY FileNumbers DEF Typed, TypeOK, Transfer, Paths, WritePath, Empty
<1>1. ASSUME NEW j \in Requests, NEW s \in Step \ {"moving"}, Goes(x, j, s)
      PROVE  \A m \in Uploads : task'[m][End] = "moving" => task[m][End] = "moving"
  BY <1>0, <1>1, StepTaken, RequestNumbers
<1>2. Answered \cup {"created", "blocked", "locked", "flush", "move", "mismatch", "unmoved"}
        \subseteq Step \ {"moving"}
  BY DEF Step, Answered
<1>3. CASE CreateFile(x)
  <2> DEFINE p == WritePath(x)
             g == IF files[p] = 0 THEN x ELSE files[p]
  <2>1. /\ files' = [files EXCEPT ![p] = g] /\ data' = [data EXCEPT ![g] = Empty]
        /\ transfer' = [transfer EXCEPT ![x].file = g] /\ Goes(x, 0, "created")
    BY <1>3 DEF CreateFile
  <2>2. g \in Files /\ p \in Paths
    BY <1>0, FileNumbers
  <2> HIDE DEF p, g
  <2>3. \A m \in Uploads : /\ transfer'[m].source = transfer[m].source
                           /\ task'[m][End] = "moving" => task[m][End] = "moving"
    <3>1. \A m \in Uploads : task'[m][End] = "moving" => task[m][End] = "moving"
      BY <1>0, <1>1, <1>2, <2>1, RequestNumbers
    <3>2. \A m \in Uploads : transfer'[m].source = transfer[m].source
      BY <1>0, <2>1 DEF Transfer
    <3> QED BY <3>1, <3>2
  <2>4. ASSUME NEW f \in Files, NEW j \in 1..Chunks, Live(f)', data'[f][j] = n
        PROVE  Live(f) /\ data[f][j] = n
    <3>1. f # g /\ data[f][j] = n
      BY <1>0, <2>1, <2>2, <2>4
    <3>2. \A q \in Paths : files'[q] = f => files[q] = f
      BY <1>0, <2>1, <2>2, <3>1
    <3>3. CASE \E q \in Paths : files'[q] = f
      BY <3>1, <3>2, <3>3 DEF Live
    <3>4. ASSUME NEW m \in Uploads, task'[m][End] = "moving", transfer'[m].source = f
          PROVE  Live(f)
      BY <2>3, <3>4 DEF Live
    <3> QED BY <2>4, <3>1, <3>3, <3>4 DEF Live
  <2> QED BY <2>4 DEF Shrinks
<1>4. CASE EndMoves(x)
  <2> DEFINE i == transfer[x].id
             f0 == files[i]
  <2>1. i \in Paths
    BY <1>0
  <2>2. CASE /\ files' = [files EXCEPT ![Target] = f0, ![i] = 0] /\ Goes(x, End, "ok")
             /\ UNCHANGED <<transfer, data>>
    <3> HIDE DEF i
    <3>1. \A m \in Uploads : task'[m][End] = "moving" => task[m][End] = "moving"
      BY <1>0, <1>2, <2>2, StepTaken, RequestNumbers DEF Answered
    <3>2. \A q \in Paths : files'[q] = 0 \/ \E t \in Paths : files'[q] = files[t]
      BY <1>0, <2>1, <2>2
    <3> QED BY <2>2, <3>1, <3>2, FileNumbers DEF Shrinks, Live
  <2>3. CASE /\ files' = [files EXCEPT ![Target] = MovedFile(x)]
             /\ data' = [data EXCEPT ![MovedFile(x)] = Empty]
             /\ transfer' = [transfer EXCEPT ![x].source = f0] /\ Goes(x, End, "moving")
    <3>1. \A m \in Uploads \ {x} : /\ transfer'[m].source = transfer[m].source
                                   /\ task'[m][End] = task[m][End]
      BY <1>0, <2>3, RequestNumbers DEF Goes, TypeOK
    <3>2. transfer'[x].source = f0
      BY <1>0, <2>3 DEF Transfer
    <3> HIDE DEF i
    <3>3. ASSUME NEW f \in Files, NEW j \in 1..Chunks, Live(f)', data'[f][j] = n
          PROVE  Live(f) /\ data[f][j] = n
      <4>1. f # MovedFile(x) /\ data[f][j] = n
        BY <1>0, <2>3, <3>3
      <4>2. \A q \in Paths : files'[q] = f => files[q] = f
        BY <1>0, <2>3, <4>1
      <4>3. CASE \E q \in Paths : files'[q] = f
        BY <4>1, <4>2, <4>3 DEF Live
      <4>4. ASSUME NEW m \in Uploads, task'[m][End] = "moving", transfer'[m].source = f
            PROVE  Live(f)
        <5>1. CASE m = x
          BY <2>1, <3>2, <4>4, <5>1 DEF Live
        <5>2. CASE m # x
          BY <3>1, <4>4, <5>2 DEF Live
        <5> QED BY <5>1, <5>2
      <4> QED BY <3>3, <4>1, <4>3, <4>4 DEF Live
    <3> QED BY <3>3 DEF Shrinks
  <2>4. CASE Goes(x, End, "unmoved") /\ UNCHANGED <<files, transfer, data>>
    <3>1. \A m \in Uploads : task'[m][End] = "moving" => task[m][End] = "moving"
      BY <1>1, <1>2, <2>4, RequestNumbers
    <3> QED BY <2>4, <3>1, LiveKept
  <2> QED BY <1>4, <2>2, <2>3, <2>4 DEF EndMoves
<1>5. CASE EndDiscards(x)
  <2>1. /\ Goes(x, End, "error") /\ UNCHANGED <<transfer, data>>
        /\ files' = files \/ \E q : files' = [files EXCEPT ![q] = 0]
    BY <1>5 DEF EndDiscards
  <2>2. \A m \in Uploads : task'[m][End] = "moving" => task[m][End] = "moving"
    BY <1>0, <1>2, <2>1, StepTaken, RequestNumbers DEF Answered
  <2>3. \A p \in Paths : files'[p] = files[p] \/ files'[p] = 0
    BY <1>0, <2>1
  <2> QED BY <2>1, <2>2, <2>3, FileNumbers DEF Shrinks, Live
<1>6. CASE ~CreateFile(x) /\ ~EndMoves(x) /\ ~EndDiscards(x)
  <2>1. UNCHANGED <<files, data>>
    BY <1>6 DEF Serve, CreateFails, InsertTransfer, TakeTransfer, WriteChunk, SeekFails,
                EndTakesOut, EndFlushes, Blocks
  <2>2. PICK s \in Step \ {"moving"} : Goes(x, k, s)
    BY <1>2, <1>6 DEF Serve, CreateFails, InsertTransfer, TakeTransfer, WriteChunk, SeekFails,
                      EndTakesOut, EndFlushes, Verified, Blocks, Answered
  <2>3. \A m \in Uploads : transfer'[m].source = transfer[m].source
    <3>1. CASE transfer' = transfer
      BY <3>1
    <3>2. ASSUME NEW m, NEW h, NEW w,
                 \/ transfer' = [transfer EXCEPT ![m].hasher = h, ![m].writing = w]
                 \/ transfer' = [transfer EXCEPT ![m].hasher = h]
                 \/ transfer' = [transfer EXCEPT ![m].failed = w]
                 \/ transfer' = [transfer EXCEPT ![m].ending = w]
          PROVE  \A u \in Uploads : transfer'[u].source = transfer[u].source
      <4> SUFFICES ASSUME NEW u \in Uploads PROVE transfer'[u].source = transfer[u].source
        OBVIOUS
      <4>1. \/ transfer'[u] = transfer[u]
            \/ transfer'[u] = [transfer[u] EXCEPT !.hasher = h, !.writing = w]
            \/ transfer'[u] = [transfer[u] EXCEPT !.hasher = h]
            \/ transfer'[u] = [transfer[u] EXCEPT !.failed = w]
            \/ transfer'[u] = [transfer[u] EXCEPT !.ending = w]
        BY <1>0, <3>2
      <4>2. transfer[u] \in Transfer
        BY <1>0
      <4> QED BY <4>1, <4>2 DEF Transfer
    <3>3. \/ transfer' = transfer
          \/ \E m, h, w : \/ transfer' = [transfer EXCEPT ![m].hasher = h, ![m].writing = w]
                          \/ transfer' = [transfer EXCEPT ![m].hasher = h]
                          \/ transfer' = [transfer EXCEPT ![m].failed = w]
                          \/ transfer' = [transfer EXCEPT ![m].ending = w]
      BY <1>6 DEF Serve, CreateFails, InsertTransfer, TakeTransfer, WriteChunk, SeekFails,
                  EndTakesOut, EndFlushes, EndsHash, Blocks
    <3> QED BY <3>1, <3>2, <3>3
  <2> QED BY <1>1, <2>1, <2>2, <2>3, LiveKept
<1> QED BY <1>3, <1>4, <1>5, <1>6

\* Nor does what the gateway sends, or a write that fails.
LEMMA QuietShrinks ==
  ASSUME Typed, NEW n \in Uploads, NEW x \in Uploads,
         \/ WriteFails(x)
         \/ \E id \in Ids, sudo \in BOOLEAN : SendStart(x, id, sudo)
         \/ \E k \in 1..Chunks : SendChunk(x, k)
         \/ SendEnd(x)
  PROVE  Shrinks(n)
<1>0. TypeOK /\ transfer \in [Uploads -> Transfer] /\ "new" \in Step
  BY DEF Typed, TypeOK, Step
<1>1. /\ UNCHANGED <<files, data>> /\ (task' = task \/ \E k \in Requests : Goes(x, k, "new"))
      /\ \/ transfer' = transfer
         \/ \E v, w : transfer' = [transfer EXCEPT ![x].id = v, ![x].sudo = w]
         \/ \E v, w : transfer' = [transfer EXCEPT ![x].writing = v, ![x].failed = w]
  BY RequestNumbers DEF WriteFails, SendStart, SendChunk, SendEnd, Send
<1>2. ASSUME NEW m \in Uploads PROVE transfer'[m].source = transfer[m].source
  <2>0. transfer[m] \in Transfer
    BY <1>0
  <2>1. CASE transfer' = transfer
    BY <2>1
  <2>2. ASSUME NEW v, NEW w, transfer' = [transfer EXCEPT ![x].id = v, ![x].sudo = w]
        PROVE  transfer'[m].source = transfer[m].source
    <3>1. transfer'[m] = transfer[m] \/ transfer'[m] = [transfer[m] EXCEPT !.id = v, !.sudo = w]
      BY <1>0, <2>2
    <3> QED BY <2>0, <3>1 DEF Transfer
  <2>3. ASSUME NEW v, NEW w, transfer' = [transfer EXCEPT ![x].writing = v, ![x].failed = w]
        PROVE  transfer'[m].source = transfer[m].source
    <3>1. \/ transfer'[m] = transfer[m]
          \/ transfer'[m] = [transfer[m] EXCEPT !.writing = v, !.failed = w]
      BY <1>0, <2>3
    <3> QED BY <2>0, <3>1 DEF Transfer
  <2> QED BY <1>1, <2>1, <2>2, <2>3
<1>3. \A m \in Uploads : task'[m][End] = "moving" => task[m][End] = "moving"
  BY <1>0, <1>1, StepTaken, RequestNumbers
<1> QED BY <1>1, <1>2, <1>3, LiveKept

\* An upload that a step does nothing for, or nothing but move on.
LEMMA ContainedFrame ==
  ASSUME NEW n \in Uploads, Contained(n), Shrinks(n), left \subseteq left',
         transfer'[n].file = transfer[n].file,
         \A m \in Uploads, k \in 1..Chunks :
           transfer'[m].writing = <<n, k>> => transfer[m].writing = <<n, k>>,
         task'[n][0] \in {"unsent", "new"} => task[n][0] \in {"unsent", "new"},
         \/ task'[n][End] = task[n][End]
         \/ /\ task'[n][End] # "error" /\ task[n][End] \notin {"ok", "unflushed"}
            /\ \/ task'[n][End] \in {"new", "blocked", "flush"}
               \/ \A m \in Uploads, k \in 1..Chunks : transfer[m].writing # <<n, k>>
  PROVE  Contained(n)'
<1>1. task'[n][0] \in {"unsent", "new"} => transfer'[n].file = 0
  BY DEF Contained
<1>2. ASSUME NEW m \in Uploads, NEW k \in 1..Chunks, transfer'[m].writing = <<n, k>>
      PROVE  m = n /\ task'[n][End] \in {"unsent", "new", "blocked", "flush"}
  BY <1>2 DEF Contained
<1>3. ASSUME n \notin left', task'[n][End] \notin {"ok", "unflushed"},
             NEW f \in Files, NEW k \in 1..Chunks, Live(f)', data'[f][k] = n
      PROVE  f = transfer'[n].file /\ task'[n][End] # "error"
  <2>1. Live(f) /\ data[f][k] = n
    BY <1>3 DEF Shrinks
  <2>2. n \notin left /\ task[n][End] \notin {"ok", "unflushed"}
    BY <1>3
  <2> QED BY <2>1, <2>2 DEF Contained
<1> QED BY <1>1, <1>2, <1>3 DEF Contained

\* What a step for one upload does to the requests and the transfers.
LEMMA TransferStep ==
  ASSUME Typed, NEW x \in Uploads,
         \/ \E id \in Ids, sudo \in BOOLEAN : SendStart(x, id, sudo)
         \/ \E k \in 1..Chunks : SendChunk(x, k)
         \/ SendEnd(x)
         \/ \E k \in Requests : Serve(x, k)
         \/ WriteLands(x) \/ WriteFails(x)
  PROVE  /\ raced \subseteq raced' /\ left \subseteq left'
         /\ \A u \in Uploads \ {x}, j \in Requests : task'[u][j] = task[u][j]
         /\ \A u \in Uploads :
              /\ transfer'[u].file = transfer[u].file \/ (u = x /\ CreateFile(x))
              /\ \/ transfer'[u].writing \in {transfer[u].writing, NoChunk}
                 \/ \E k \in 1..Chunks : /\ WriteChunk(x, k) /\ u = TransferFor(x)
                                         /\ transfer'[u].writing = <<x, k>>
<1>0. TypeOK /\ transfer \in [Uploads -> Transfer] /\ x \in Nat
  BY DEF Typed, TypeOK, Uploads
<1>1. raced \subseteq raced' /\ left \subseteq left' /\ (task' = task \/ \E j, s : Goes(x, j, s))
  <2>1. ASSUME NEW k \in Requests, Serve(x, k)
        PROVE  raced' = raced /\ left \subseteq left' /\ \E j, s : Goes(x, j, s)
    BY <2>1 DEF Serve, CreateFile, CreateFails, InsertTransfer, TakeTransfer, WriteChunk,
                SeekFails, EndTakesOut, EndFlushes, EndMoves, EndCopies, EndDiscards, Blocks
  <2> QED BY <2>1 DEF SendStart, SendChunk, SendEnd, Send, WriteLands, WriteFails
<1>2. \A u \in Uploads \ {x}, j \in Requests : task'[u][j] = task[u][j]
  BY <1>0, <1>1 DEF Goes, TypeOK
<1>3. ASSUME NEW m, NEW v, NEW w,
             \/ transfer' = transfer
             \/ transfer' = [transfer EXCEPT ![m].id = v, ![m].sudo = w]
             \/ transfer' = [transfer EXCEPT ![m].hasher = v]
             \/ transfer' = [transfer EXCEPT ![m].failed = v]
             \/ transfer' = [transfer EXCEPT ![m].ending = v]
             \/ transfer' = [transfer EXCEPT ![m].source = v],
             NEW u \in Uploads
      PROVE  transfer'[u].file = transfer[u].file /\ transfer'[u].writing = transfer[u].writing
  <2>1. \/ transfer'[u] = transfer[u]
        \/ transfer'[u] = [transfer[u] EXCEPT !.id = v, !.sudo = w]
        \/ transfer'[u] = [transfer[u] EXCEPT !.hasher = v]
        \/ transfer'[u] = [transfer[u] EXCEPT !.failed = v]
        \/ transfer'[u] = [transfer[u] EXCEPT !.ending = v]
        \/ transfer'[u] = [transfer[u] EXCEPT !.source = v]
    BY <1>0, <1>3
  <2>2. transfer[u] \in Transfer
    BY <1>0
  <2> QED BY <2>1, <2>2 DEF Transfer
<1>4. CASE \/ \E id \in Ids, sudo \in BOOLEAN : SendStart(x, id, sudo)
           \/ \E k \in 1..Chunks : SendChunk(x, k)
           \/ SendEnd(x)
  <2>1. transfer' = transfer
        \/ \E v, w : transfer' = [transfer EXCEPT ![x].id = v, ![x].sudo = w]
    BY <1>4 DEF SendStart, SendChunk, SendEnd
  <2>2. ASSUME NEW u \in Uploads
        PROVE  transfer'[u].file = transfer[u].file /\ transfer'[u].writing = transfer[u].writing
    <3>1. CASE transfer' = transfer
      BY <3>1
    <3>2. ASSUME NEW v, NEW w, transfer' = [transfer EXCEPT ![x].id = v, ![x].sudo = w]
          PROVE  transfer'[u].file = transfer[u].file
                 /\ transfer'[u].writing = transfer[u].writing
      BY <1>3, <3>2
    <3> QED BY <2>1, <3>1, <3>2
  <2> QED BY <1>1, <1>2, <2>2
<1>5. CASE WriteLands(x) \/ WriteFails(x)
  <2>1. \/ transfer' = [transfer EXCEPT ![x].writing = NoChunk]
        \/ transfer' = [transfer EXCEPT ![x].writing = NoChunk, ![x].failed = TRUE]
    BY <1>5 DEF WriteLands, WriteFails
  <2>2. ASSUME NEW u \in Uploads
        PROVE  transfer'[u].file = transfer[u].file
               /\ transfer'[u].writing \in {transfer[u].writing, NoChunk}
    <3>1. \/ transfer'[u] = transfer[u]
          \/ transfer'[u] = [transfer[u] EXCEPT !.writing = NoChunk]
          \/ transfer'[u] = [transfer[u] EXCEPT !.writing = NoChunk, !.failed = TRUE]
      BY <1>0, <2>1
    <3>2. transfer[u] \in Transfer
      BY <1>0
    <3> QED BY <3>1, <3>2 DEF Transfer
  <2> QED BY <1>1, <1>2, <2>2
<1>6. CASE CreateFile(x)
  <2>1. PICK f : transfer' = [transfer EXCEPT ![x].file = f]
    BY <1>6 DEF CreateFile
  <2>2. \A u \in Uploads : /\ u = x \/ transfer'[u].file = transfer[u].file
                           /\ transfer'[u].writing = transfer[u].writing
    BY <1>0, <2>1 DEF Transfer
  <2> QED BY <1>1, <1>2, <1>6, <2>2
<1>7. ASSUME NEW k \in 1..Chunks, WriteChunk(x, k)
      PROVE  \A u \in Uploads :
               /\ transfer'[u].file = transfer[u].file
               /\ \/ transfer'[u].writing = transfer[u].writing
                  \/ u = TransferFor(x) /\ transfer'[u].writing = <<x, k>>
  <2> DEFINE m == TransferFor(x)
  <2>1. \/ \E h : transfer' = [transfer EXCEPT ![m].hasher = h, ![m].writing = <<x, k>>]
        \/ transfer' = [transfer EXCEPT ![m].failed = FALSE]
    BY <1>7 DEF WriteChunk
  <2> HIDE DEF m
  <2>2. ASSUME NEW h, transfer' = [transfer EXCEPT ![m].hasher = h, ![m].writing = <<x, k>>],
               NEW u \in Uploads
        PROVE  /\ transfer'[u].file = transfer[u].file
               /\ \/ transfer'[u].writing = transfer[u].writing
                  \/ u = m /\ transfer'[u].writing = <<x, k>>
    BY <1>0, <2>2 DEF Transfer
  <2> QED BY <1>3, <2>1, <2>2 DEF m
<1>8. ASSUME NEW k \in Requests, Serve(x, k), ~CreateFile(x),
             ~\E j \in 1..Chunks : WriteChunk(x, j)
      PROVE  \E m, v : \/ transfer' = transfer
                       \/ transfer' = [transfer EXCEPT ![m].hasher = v]
                       \/ transfer' = [transfer EXCEPT ![m].ending = v]
                       \/ transfer' = [transfer EXCEPT ![m].source = v]
  BY <1>8 DEF Serve, CreateFails, InsertTransfer, TakeTransfer, SeekFails, EndTakesOut,
              EndFlushes, EndsHash, EndMoves, EndCopies, EndDiscards, Blocks
<1>9. ASSUME NEW k \in 1..Chunks, WriteChunk(x, k)
      PROVE  \A u \in Uploads :
               /\ transfer'[u].file = transfer[u].file
               /\ \/ transfer'[u].writing = transfer[u].writing
                  \/ \E j \in 1..Chunks : /\ WriteChunk(x, j) /\ u = TransferFor(x)
                                          /\ transfer'[u].writing = <<x, j>>
  BY <1>7, <1>9
<1>10. ASSUME NEW k \in Requests, Serve(x, k), ~CreateFile(x),
              ~\E j \in 1..Chunks : WriteChunk(x, j), NEW u \in Uploads
       PROVE  transfer'[u].file = transfer[u].file /\ transfer'[u].writing = transfer[u].writing
  BY <1>3, <1>8, <1>10
<1>11. CASE \E j \in 1..Chunks : WriteChunk(x, j)
  BY <1>1, <1>2, <1>9, <1>11
<1>12. CASE /\ \E k \in Requests : Serve(x, k)
            /\ ~CreateFile(x) /\ ~\E j \in 1..Chunks : WriteChunk(x, j)
  BY <1>1, <1>2, <1>10, <1>12
<1> QED BY <1>4, <1>5, <1>6, <1>11, <1>12

\* What is done for another upload: this one has not begun, or is over.
LEMMA OthersContained ==
  ASSUME Typed, SoleUndisturbed, AllContained, NEW n \in Uploads \ raced',
         NEW x \in Uploads \ {n},
         \/ \E id \in Ids, sudo \in BOOLEAN : SendStart(x, id, sudo)
         \/ \E k \in 1..Chunks : SendChunk(x, k)
         \/ SendEnd(x)
         \/ \E k \in Requests : Serve(x, k)
         \/ WriteLands(x) \/ WriteFails(x)
  PROVE  Contained(n)'
<1>0. /\ TypeOK /\ transfer \in [Uploads -> Transfer] /\ n # 0 /\ n \in Nat /\ x \in Nat
      /\ data \in [Files -> [1..Chunks -> 0..MaxUploads]] /\ Ordered(n) /\ Ordered(x)
  BY FileNumbers DEF Typed, TypeOK, Uploads
<1>1. /\ n \notin raced /\ left \subseteq left'
      /\ \A j \in Requests : task'[n][j] = task[n][j]
      /\ transfer'[n].file = transfer[n].file
      /\ \A m \in Uploads : \/ transfer'[m].writing \in {transfer[m].writing, NoChunk}
                            \/ \E k : transfer'[m].writing = <<x, k>>
  BY TransferStep
<1>2. Contained(n)
  BY <1>1 DEF AllContained
<1>3. ~Open(n) /\ ~Sole(n)'
  <2>1. ~Sole(n)'
    BY OthersRace
  <2> QED BY <1>1, <2>1, RequestNumbers DEF Sole, Open
<1>4. ASSUME NEW m \in Uploads, NEW k \in 1..Chunks PROVE transfer[m].writing # <<n, k>>
  <2>1. CASE task[n][0] = "unsent"
    BY <1>0, <1>2, <2>1 DEF Ordered, Contained, NoChunk
  <2>2. CASE task[n][End] \in Answered
    BY <1>2, <2>2 DEF Contained, Answered
  <2> QED BY <1>3, <2>1, <2>2 DEF Open
<1>5. ASSUME NEW m \in Uploads, NEW k \in 1..Chunks PROVE transfer'[m].writing # <<n, k>>
  BY <1>0, <1>1, <1>4 DEF NoChunk
<1>6. ASSUME n \notin left, task[n][End] \notin {"ok", "unflushed"},
             NEW f \in Files, NEW k \in 1..Chunks, Live(f)
      PROVE  data[f][k] # n
  <2>1. CASE task[n][0] = "unsent"
    BY <1>2, <1>6, <2>1, FileNumbers DEF Contained
  <2>2. CASE task[n][End] \in Answered
    BY <1>2, <1>6, <2>2 DEF Contained, Answered
  <2> QED BY <1>3, <2>1, <2>2 DEF Open
<1>7. CASE Shrinks(n)
  <2>1. transfer'[n].file = transfer[n].file /\ task'[n][0] = task[n][0]
        /\ task'[n][End] = task[n][End]
    BY <1>1, RequestNumbers
  <2> QED BY <1>1, <1>2, <1>5, <1>7, <2>1, ContainedFrame
<1>8. ASSUME ~Shrinks(n),
             n \notin left /\ task[n][End] \notin {"ok", "unflushed"} =>
               \A f \in Files, k \in 1..Chunks : Live(f)' => data'[f][k] # n
      PROVE  Contained(n)'
  <2>1. task'[n][0] = task[n][0] /\ task'[n][End] = task[n][End]
    BY <1>1, RequestNumbers
  <2> QED BY <1>1, <1>2, <1>5, <1>8, <2>1 DEF Contained
<1>9. CASE WriteLands(x)
  <2>0. transfer[x].writing \in Chunk
    BY <1>0, <1>9 DEF WriteLands, Transfer
  <2>1. PICK w \in Uploads \ {n}, j \in 1..Chunks : transfer[x].writing = <<w, j>>
    BY <1>4, <2>0 DEF Chunk
  <2>2. data' = [data EXCEPT ![transfer[x].file][j] = w] /\ files' = files /\ task' = task
    BY <2>1, <1>9 DEF WriteLands
  <2>3. \A m \in Uploads : transfer'[m].source = transfer[m].source
    BY <1>0, <1>9 DEF WriteLands, Transfer
  <2>4. \A f \in Files : Live(f)' => Live(f)
    BY <2>2, <2>3 DEF Live
  <2>5. \A f \in Files, k \in 1..Chunks : data'[f][k] = n => data[f][k] = n
    BY <1>0, <2>1, <2>2
  <2> QED BY <1>7, <2>4, <2>5 DEF Shrinks
<1>10. CASE EndCopies(x)
  <2>1. /\ task[x][End] = "moving" /\ transfer[x].source \in Files /\ Live(transfer[x].source)
        /\ transfer' = transfer /\ Goes(x, End, task'[x][End])
    BY <1>0, <1>10, RequestNumbers DEF EndCopies, Goes, Ordered, Transfer, Live, TypeOK
  <2>2. \A f \in Files : Live(f)' => Live(f)
    <3>1. \A p \in Paths : files'[p] = files[p] \/ files'[p] = 0
      BY <1>0, <1>10 DEF EndCopies, TypeOK
    <3>2. \A m \in Uploads : task'[m][End] = "moving" => task[m][End] = "moving"
      BY <1>0, <2>1, RequestNumbers DEF Goes, TypeOK
    <3> QED BY <2>1, <3>1, <3>2, FileNumbers DEF Live
  <2>3. PICK c \in 0..Chunks : Copied(x, c)
    BY <1>10, UploadBounds DEF EndCopies
  <2>4. ASSUME n \notin left, task[n][End] \notin {"ok", "unflushed"},
               NEW f \in Files, NEW k \in 1..Chunks, Live(f)'
        PROVE  data'[f][k] # n
    <3>1. data'[f][k] \in {0, data[f][k], data[transfer[x].source][k]}
      BY <1>0, <2>3, <2>4 DEF Copied
    <3> QED BY <1>0, <1>6, <2>1, <2>2, <2>4, <3>1
  <2> QED BY <1>7, <1>8, <2>4
<1>11. ASSUME NEW k \in Requests, Serve(x, k), ~EndCopies(x) PROVE Shrinks(n)
  BY <1>11, ServeShrinks
<1>12. CASE \/ WriteFails(x)
            \/ \E id \in Ids, sudo \in BOOLEAN : SendStart(x, id, sudo)
            \/ \E k \in 1..Chunks : SendChunk(x, k)
            \/ SendEnd(x)
  BY <1>7, <1>12, QuietShrinks
<1> QED BY <1>7, <1>9, <1>10, <1>11, <1>12

\* What is done for the upload itself, but for what its end does to its file.
LEMMA SelfMovesOn ==
  ASSUME Typed, NEW n \in Uploads, Contained(n), Shrinks(n), NEW k \in Requests, NEW s,
         Goes(n, k, s), k = 0 => s \notin {"unsent", "new"} \/ task[n][0] = "unsent",
         k = End => /\ s # "error" /\ task[n][End] \notin {"ok", "unflushed"}
                    /\ \/ s \in {"new", "blocked", "flush"}
                       \/ \A m \in Uploads, j \in 1..Chunks : transfer[m].writing # <<n, j>>,
         left \subseteq left',
         \/ transfer' = transfer
         \/ \E v, w : transfer' = [transfer EXCEPT ![n].id = v, ![n].sudo = w]
         \/ \E m, v : transfer' = [transfer EXCEPT ![m].hasher = v]
         \/ \E m, v : transfer' = [transfer EXCEPT ![m].failed = v]
         \/ \E m, v : transfer' = [transfer EXCEPT ![m].ending = v]
         \/ \E m, v : transfer' = [transfer EXCEPT ![m].source = v]
  PROVE  Contained(n)'
<1>0. TypeOK /\ transfer \in [Uploads -> Transfer]
  BY DEF Typed, TypeOK
<1>1. ASSUME NEW u \in Uploads
      PROVE  transfer'[u].file = transfer[u].file /\ transfer'[u].writing = transfer[u].writing
  <2>1. ASSUME NEW m, NEW v, NEW w,
               \/ transfer' = [transfer EXCEPT ![m].id = v, ![m].sudo = w]
               \/ transfer' = [transfer EXCEPT ![m].hasher = v]
               \/ transfer' = [transfer EXCEPT ![m].failed = v]
               \/ transfer' = [transfer EXCEPT ![m].ending = v]
               \/ transfer' = [transfer EXCEPT ![m].source = v]
        PROVE  transfer'[u].file = transfer[u].file /\ transfer'[u].writing = transfer[u].writing
    <3>1. DOMAIN transfer = Uploads /\ transfer[u] \in Transfer
      BY <1>0
    <3>2. CASE transfer' = [transfer EXCEPT ![m].id = v, ![m].sudo = w]
      <4>1. transfer'[u] = IF u = m THEN [transfer[u] EXCEPT !.id = v, !.sudo = w] ELSE transfer[u]
        BY <3>1, <3>2
      <4> QED BY <3>1, <4>1 DEF Transfer
    <3>3. CASE transfer' = [transfer EXCEPT ![m].hasher = v]
      <4>1. transfer'[u] = IF u = m THEN [transfer[u] EXCEPT !.hasher = v] ELSE transfer[u]
        BY <3>1, <3>3
      <4> QED BY <3>1, <4>1 DEF Transfer
    <3>4. CASE transfer' = [transfer EXCEPT ![m].failed = v]
      <4>1. transfer'[u] = IF u = m THEN [transfer[u] EXCEPT !.failed = v] ELSE transfer[u]
        BY <3>1, <3>4
      <4> QED BY <3>1, <4>1 DEF Transfer
    <3>5. CASE transfer' = [transfer EXCEPT ![m].ending = v]
      <4>1. transfer'[u] = IF u = m THEN [transfer[u] EXCEPT !.ending = v] ELSE transfer[u]
        BY <3>1, <3>5
      <4> QED BY <3>1, <4>1 DEF Transfer
    <3>6. CASE transfer' = [transfer EXCEPT ![m].source = v]
      <4>1. transfer'[u] = IF u = m THEN [transfer[u] EXCEPT !.source = v] ELSE transfer[u]
        BY <3>1, <3>6
      <4> QED BY <3>1, <4>1 DEF Transfer
    <3> QED BY <2>1, <3>2, <3>3, <3>4, <3>5, <3>6
  <2>2. CASE transfer' = transfer
    BY <2>2
  <2>3. ASSUME NEW v, NEW w, transfer' = [transfer EXCEPT ![n].id = v, ![n].sudo = w]
        PROVE  transfer'[u].file = transfer[u].file /\ transfer'[u].writing = transfer[u].writing
    BY <2>1, <2>3
  <2>4. ASSUME NEW m, NEW v,
               \/ transfer' = [transfer EXCEPT ![m].hasher = v]
               \/ transfer' = [transfer EXCEPT ![m].failed = v]
               \/ transfer' = [transfer EXCEPT ![m].ending = v]
               \/ transfer' = [transfer EXCEPT ![m].source = v]
        PROVE  transfer'[u].file = transfer[u].file /\ transfer'[u].writing = transfer[u].writing
    BY <2>1, <2>4
  <2> QED BY <2>2, <2>3, <2>4
<1>2. /\ \A j \in Requests \ {k} : task'[n][j] = task[n][j]
      /\ task'[n][k] = s
  BY <1>0 DEF TypeOK, Goes
<1>3. task'[n][0] \in {"unsent", "new"} => task[n][0] \in {"unsent", "new"}
  BY <1>2, RequestNumbers
<1>4. \/ task'[n][End] = task[n][End]
      \/ /\ task'[n][End] # "error" /\ task[n][End] \notin {"ok", "unflushed"}
         /\ \/ task'[n][End] \in {"new", "blocked", "flush"}
            \/ \A m \in Uploads, j \in 1..Chunks : transfer[m].writing # <<n, j>>
  BY <1>2, RequestNumbers
<1> QED BY <1>1, <1>3, <1>4, ContainedFrame

\* What the gateway sends.
LEMMA SentContained ==
  ASSUME Typed, NEW n \in Uploads, Contained(n),
         \/ \E id \in Ids, sudo \in BOOLEAN : SendStart(n, id, sudo)
         \/ \E k \in 1..Chunks : SendChunk(n, k)
         \/ SendEnd(n)
  PROVE  Contained(n)'
<1>0. n \in Nat /\ Shrinks(n)
  BY QuietShrinks DEF Uploads
<1>1. ASSUME NEW id \in Ids, NEW sudo \in BOOLEAN, SendStart(n, id, sudo)
      PROVE  Contained(n)'
  <2>1. /\ task[n][0] = "unsent" /\ Goes(n, 0, "new") /\ left' = left
        /\ transfer' = [transfer EXCEPT ![n].id = id, ![n].sudo = sudo]
    BY <1>0, <1>1 DEF SendStart, Send
  <2> QED BY <1>0, <2>1, SelfMovesOn, RequestNumbers
<1>2. ASSUME NEW k \in 1..Chunks, SendChunk(n, k) PROVE Contained(n)'
  <2>1. Goes(n, k, "new") /\ left' = left /\ transfer' = transfer
    BY <1>2 DEF SendChunk, Send
  <2> QED BY <1>0, <2>1, SelfMovesOn, RequestNumbers
<1>3. CASE SendEnd(n)
  <2>1. Goes(n, End, "new") /\ left' = left /\ transfer' = transfer /\ task[n][End] = "unsent"
    BY <1>3 DEF SendEnd, Send
  <2> QED BY <1>0, <2>1, SelfMovesOn, RequestNumbers
<1> QED BY <1>1, <1>2, <1>3

\* The start makes or truncates a file, and nothing is in it.
LEMMA StartContained ==
  ASSUME Typed, NEW n \in Uploads, Contained(n),
         CreateFile(n) \/ CreateFails(n) \/ InsertTransfer(n)
  PROVE  Contained(n)'
<1>0. TypeOK /\ transfer \in [Uploads -> Transfer] /\ Ordered(n)
  BY DEF Typed, TypeOK
<1>1. Shrinks(n)
  <2>1. Serve(n, 0) /\ ~EndCopies(n)
    BY <1>0, RequestNumbers
       DEF Ordered, Serve, CreateFile, CreateFails, InsertTransfer, GetsMap, AtMap, EndCopies
  <2> QED BY <2>1, ServeShrinks, RequestNumbers
<1>2. CASE CreateFile(n)
  <2>1. PICK g : transfer' = [transfer EXCEPT ![n].file = g]
    BY <1>2 DEF CreateFile
  <2>2. /\ task[n][0] = "new" /\ task[n][End] = "unsent" /\ left' = left
        /\ task'[n][0] = "created" /\ task'[n][End] = "unsent"
    BY <1>0, <1>2, RequestNumbers DEF CreateFile, Ordered, Goes, TypeOK
  <2>3. \A u \in Uploads : transfer'[u].writing = transfer[u].writing
    BY <1>0, <2>1 DEF Transfer
  <2>4. ASSUME n \notin left', NEW f \in Files, NEW k \in 1..Chunks, Live(f)', data'[f][k] = n
        PROVE  FALSE
    <3>1. Live(f) /\ data[f][k] = n
      BY <1>1, <2>4 DEF Shrinks
    <3> QED BY <2>2, <2>4, <3>1, FileNumbers DEF Contained
  <2> QED BY <2>2, <2>3, <2>4 DEF Contained
<1>3. CASE CreateFails(n)
  <2>1. Goes(n, 0, "error") /\ transfer' = transfer /\ left' = left
    BY <1>3 DEF CreateFails
  <2> QED BY <1>1, <2>1, SelfMovesOn, RequestNumbers
<1>4. CASE InsertTransfer(n)
  <2>1. Goes(n, 0, "ok") /\ transfer' = transfer /\ left' = left
    BY <1>4 DEF InsertTransfer
  <2> QED BY <1>1, <2>1, SelfMovesOn, RequestNumbers
<1> QED BY <1>2, <1>3, <1>4

\* A chunk is written to the transfer of its own upload.
LEMMA ChunkContained ==
  ASSUME Typed, NEW n \in Uploads, Contained(n), Undisturbed(n), NEW k \in 1..Chunks,
         TakeTransfer(n, k) \/ WriteChunk(n, k) \/ SeekFails(n, k)
  PROVE  Contained(n)'
<1>0. TypeOK /\ transfer \in [Uploads -> Transfer] /\ Ordered(n) /\ n # 0
  BY FileNumbers DEF Typed, TypeOK
<1>1. task[n][0] = "ok" /\ task[n][End] = "unsent" /\ ~EndCopies(n)
  BY <1>0, RequestNumbers
     DEF Ordered, TakeTransfer, WriteChunk, SeekFails, GetsMap, AtMap, EndCopies
<1>2. Shrinks(n)
  BY <1>1, ServeShrinks, RequestNumbers DEF Serve
<1>3. CASE TakeTransfer(n, k)
  <2>1. (\E s : Goes(n, k, s)) /\ transfer' = transfer /\ left' = left
    BY <1>3 DEF TakeTransfer
  <2> QED BY <1>2, <2>1, SelfMovesOn, RequestNumbers
<1>4. CASE SeekFails(n, k)
  <2>1. Goes(n, k, "error") /\ transfer' = transfer /\ left' = left
    BY <1>4 DEF SeekFails
  <2> QED BY <1>2, <2>1, SelfMovesOn, RequestNumbers
<1>5. CASE WriteChunk(n, k)
  <2>1. TransferFor(n) = n
    BY <1>1 DEF Undisturbed, Mapped
  <2>2. CASE Goes(n, k, "error") /\ transfer' = [transfer EXCEPT ![n].failed = FALSE]
    BY <1>2, <1>5, <2>2, SelfMovesOn, RequestNumbers DEF WriteChunk
  <2>3. CASE /\ Goes(n, k, "ok")
             /\ transfer' = [transfer EXCEPT ![n].hasher = Append(@, <<n, k>>),
                                             ![n].writing = <<n, k>>]
    <3>1. ASSUME NEW u \in Uploads
          PROVE  /\ transfer'[u].file = transfer[u].file
                 /\ transfer'[u].writing = transfer[u].writing \/ u = n
      <4>1. \/ transfer'[u] = transfer[u]
            \/ transfer'[u] = [transfer[u] EXCEPT !.hasher = Append(@, <<n, k>>),
                                                  !.writing = <<n, k>>]
        BY <1>0, <2>3
      <4>2. u # n => transfer'[u] = transfer[u]
        BY <1>0, <2>3
      <4>3. transfer[u] \in Transfer
        BY <1>0
      <4> QED BY <4>1, <4>2, <4>3 DEF Transfer
    <3>2. task'[n][0] = "ok" /\ task'[n][End] = "unsent" /\ left' = left
      BY <1>0, <1>1, <1>5, <2>3, RequestNumbers DEF Goes, TypeOK, WriteChunk
    <3>3. \A m \in Uploads, j \in 1..Chunks : transfer'[m].writing = <<n, j>> => m = n
      BY <3>1 DEF Contained
    <3>4. ASSUME n \notin left', NEW f \in Files, NEW j \in 1..Chunks, Live(f)', data'[f][j] = n
          PROVE  f = transfer'[n].file
      <4>1. Live(f) /\ data[f][j] = n
        BY <1>2, <3>4 DEF Shrinks
      <4> QED BY <1>1, <3>1, <3>2, <3>4, <4>1 DEF Contained
    <3> QED BY <3>2, <3>3, <3>4 DEF Contained
  <2> QED BY <1>5, <2>1, <2>2, <2>3 DEF WriteChunk
<1> QED BY <1>3, <1>4, <1>5

\* The end waits for the last write, moves the file or removes it.
LEMMA EndContained ==
  ASSUME Typed, Apart, NEW n \in Uploads, Contained(n), Undisturbed(n),
         \/ EndTakesOut(n) \/ EndFlushes(n)
         \/ EndMoves(n) \/ EndCopies(n) \/ EndDiscards(n)
  PROVE  Contained(n)'
<1>0. /\ TypeOK /\ transfer \in [Uploads -> Transfer] /\ Ordered(n) /\ n # 0
      /\ task[n][0] = "ok" /\ left \subseteq left'
  <2>1. TypeOK /\ transfer \in [Uploads -> Transfer] /\ Ordered(n) /\ n # 0
    BY FileNumbers DEF Typed, TypeOK
  <2>2. task[n][End] # "unsent" /\ left \subseteq left'
    BY RequestNumbers
       DEF EndTakesOut, EndFlushes, EndMoves, EndCopies, EndDiscards, GetsMap, AtMap
  <2> QED BY <2>1, <2>2, RequestNumbers DEF Ordered
<1>1. ASSUME ~EndCopies(n) PROVE Shrinks(n)
  BY <1>1, ServeShrinks, RequestNumbers DEF Serve
<1>2. ASSUME task[n][End] \in {"flush", "move", "moving", "mismatch", "unmoved"}
      PROVE  transfer[n].ending = n
  BY <1>2 DEF Undisturbed, Mapped
<1>3. ASSUME task[n][End] \in {"move", "moving", "mismatch", "unmoved"},
             NEW m \in Uploads, NEW k \in 1..Chunks
      PROVE  transfer[m].writing # <<n, k>>
  BY <1>3 DEF Contained
<1>4. CASE EndTakesOut(n)
  <2>1. Active(n) /\ task[n][End] \in {"new", "blocked"}
    BY <1>0, <1>4, RequestNumbers DEF EndTakesOut, GetsMap, AtMap, Undisturbed, Mapped
  <2>2. /\ Goes(n, End, "flush") /\ left' = left /\ ~EndCopies(n)
        /\ transfer' = [transfer EXCEPT ![n].ending = TransferFor(n)]
    BY <1>4, <2>1 DEF EndTakesOut, EndCopies
  <2> QED BY <1>1, <2>1, <2>2, SelfMovesOn, RequestNumbers
<1>5. CASE EndFlushes(n)
  <2>1. /\ task[n][End] = "flush" /\ transfer[n].writing = NoChunk /\ ~EndCopies(n)
        /\ transfer' = [transfer EXCEPT ![n].hasher = << >>] /\ left' = left
    BY <1>2, <1>5 DEF EndFlushes, EndsHash, EndCopies
  <2>2. PICK s : Goes(n, End, s) /\ s # "error"
    BY <1>5 DEF EndFlushes, Verified
  <2>3. \A m \in Uploads, k \in 1..Chunks : transfer[m].writing # <<n, k>>
    BY <1>0, <2>1 DEF Contained, NoChunk
  <2> QED BY <1>1, <2>1, <2>2, <2>3, SelfMovesOn, RequestNumbers
<1>6. CASE EndMoves(n)
  <2>1. task[n][End] = "move" /\ ~EndCopies(n) /\ left' = left
    BY <1>6 DEF EndMoves, EndCopies
  <2>2. PICK s : Goes(n, End, s) /\ s # "error"
    BY <1>6 DEF EndMoves
  <2>3. transfer' = transfer \/ \E v : transfer' = [transfer EXCEPT ![n].source = v]
    BY <1>6 DEF EndMoves
  <2> QED BY <1>1, <1>3, <2>1, <2>2, <2>3, SelfMovesOn, RequestNumbers
<1>7. CASE EndCopies(n)
  <2>1. /\ task[n][End] = "moving" /\ transfer' = transfer
        /\ Goes(n, End, "ok") \/ (Goes(n, End, "unmoved") /\ n \in left')
    BY <1>7 DEF EndCopies
  <2>2. task'[n][0] = "ok" /\ (task'[n][End] = "ok" \/ n \in left')
    BY <1>0, <2>1, RequestNumbers DEF Goes, TypeOK
  <2>3. \A m \in Uploads, k \in 1..Chunks : transfer'[m].writing # <<n, k>>
    BY <1>3, <2>1
  <2> QED BY <2>2, <2>3 DEF Contained
<1>8. CASE EndDiscards(n)
  <2>1. /\ task[n][End] \in {"mismatch", "unmoved"} /\ UNCHANGED <<transfer, data>>
        /\ Goes(n, End, "error") /\ transfer[n].ending = n
        /\ n \in left' \/ files' = [files EXCEPT ![WritePath(n)] = 0]
    BY <1>2, <1>8 DEF EndDiscards
  <2>2. /\ task'[n][0] = "ok" /\ task'[n][End] = "error"
        /\ \A m \in Uploads \ {n} : task'[m][End] = task[m][End]
    BY <1>0, <2>1, RequestNumbers DEF Goes, TypeOK
  <2>3. \A m \in Uploads, k \in 1..Chunks : transfer'[m].writing # <<n, k>>
    BY <1>3, <2>1
  <2>4. ASSUME n \notin left', NEW f \in Files, NEW k \in 1..Chunks, Live(f)', data'[f][k] = n
        PROVE  FALSE
    <3>1. \A m \in Uploads \ {n} : task[m][End] # "moving"
      BY RequestNumbers DEF Undisturbed, Busy, Outstanding, Answered
    <3>2. PICK p \in Paths : files'[p] = f
      BY <2>2, <2>4, <3>1 DEF Live
    <3>3. WritePath(n) \in Paths /\ files \in [Paths -> Files \cup {0}]
      BY <1>0 DEF TypeOK, WritePath, Paths, Transfer
    <3>4. files' = [files EXCEPT ![WritePath(n)] = 0]
      BY <2>1, <2>4
    <3>5. files[p] = f /\ f # 0 /\ p # WritePath(n)
      BY <3>2, <3>3, <3>4, FileNumbers
    <3>6. f = transfer[n].file
      BY <1>0, <2>1, <2>4, <3>5 DEF Contained, Live
    <3>7. files[WritePath(n)] = transfer[n].file
      BY <1>0 DEF Undisturbed, Filed
    <3> QED BY <3>3, <3>5, <3>6, <3>7 DEF Apart
  <2> QED BY <2>2, <2>3, <2>4 DEF Contained
<1> QED BY <1>4, <1>5, <1>6, <1>7, <1>8

\* A write lands in the file of the upload it was accepted for.
LEMMA WriteContained ==
  ASSUME Typed, NEW n \in Uploads, Contained(n), WriteLands(n) \/ WriteFails(n)
  PROVE  Contained(n)'
<1>0. /\ TypeOK /\ transfer \in [Uploads -> Transfer]
      /\ data \in [Files -> [1..Chunks -> 0..MaxUploads]] /\ n # 0
  BY FileNumbers DEF Typed, TypeOK
<1>1. /\ \A u \in Uploads : /\ transfer'[u].file = transfer[u].file
                            /\ transfer'[u].source = transfer[u].source
      /\ \A u \in Uploads \ {n} : transfer'[u].writing = transfer[u].writing
      /\ transfer'[n].writing = NoChunk
  <2>1. ASSUME NEW u \in Uploads
        PROVE  \/ transfer'[u] = transfer[u] /\ u # n
               \/ transfer'[u] = [transfer[u] EXCEPT !.writing = NoChunk]
               \/ transfer'[u] = [transfer[u] EXCEPT !.writing = NoChunk, !.failed = TRUE]
    BY <1>0 DEF WriteLands, WriteFails
  <2>2. \A u \in Uploads \ {n} : transfer'[u] = transfer[u]
    BY <1>0 DEF WriteLands, WriteFails
  <2>3. transfer[n] \in Transfer
    BY <1>0
  <2>4. /\ transfer'[n].file = transfer[n].file /\ transfer'[n].source = transfer[n].source
        /\ transfer'[n].writing = NoChunk
    BY <1>0, <2>1, <2>3 DEF Transfer
  <2> QED BY <2>2, <2>4
<1>2. task' = task /\ files' = files /\ left' = left
  BY DEF WriteLands, WriteFails
<1>3. \A u \in Uploads, k \in 1..Chunks :
        transfer'[u].writing = <<n, k>> => transfer[u].writing = <<n, k>>
  BY <1>0, <1>1 DEF NoChunk
<1>4. CASE WriteFails(n)
  <2>1. Shrinks(n)
    BY <1>4, QuietShrinks
  <2> QED BY <1>1, <1>2, <1>3, <2>1, ContainedFrame
<1>5. CASE WriteLands(n)
  <2>1. transfer[n].writing \in Chunk
    BY <1>0, <1>5 DEF WriteLands, Transfer
  <2>2. PICK w \in Uploads, j \in 1..Chunks : transfer[n].writing = <<w, j>>
    BY <2>1 DEF Chunk
  <2>3. data' = [data EXCEPT ![transfer[n].file][j] = w]
    BY <1>5, <2>2 DEF WriteLands
  <2>4. \A f \in Files : Live(f)' => Live(f)
    BY <1>1, <1>2 DEF Live
  <2>5. ASSUME n \notin left, task[n][End] \notin {"ok", "unflushed"},
               NEW f \in Files, NEW k \in 1..Chunks, Live(f)', data'[f][k] = n
        PROVE  f = transfer[n].file /\ task[n][End] # "error"
    <3>1. data[f][k] = n \/ (f = transfer[n].file /\ w = n)
      BY <1>0, <2>2, <2>3, <2>5
    <3>2. CASE data[f][k] = n
      BY <2>4, <2>5, <3>2 DEF Contained
    <3>3. CASE f = transfer[n].file /\ w = n
      BY <2>2, <3>3 DEF Contained
    <3> QED BY <3>1, <3>2, <3>3
  <2> QED BY <1>1, <1>2, <1>3, <2>5 DEF Contained
<1> QED BY <1>4, <1>5

\* Every step keeps the chunks of an upload where they are to be.
LEMMA ContainedStep ==
  Typed /\ Apart /\ SoleUndisturbed /\ AllContained /\ [Next]_vars => AllContained'
<1> SUFFICES ASSUME Typed, Apart, SoleUndisturbed, AllContained, [Next]_vars,
                    NEW n \in Uploads \ raced'
             PROVE  Contained(n)'
  BY DEF AllContained
<1>1. CASE UNCHANGED vars
  <2>1. Contained(n)
    BY <1>1 DEF vars, AllContained
  <2> QED BY <1>1, <2>1 DEF vars, Contained, Live
<1>2. CASE Next
  <2>1. PICK m \in Uploads :
          \/ \E id \in Ids, sudo \in BOOLEAN : SendStart(m, id, sudo)
          \/ \E k \in 1..Chunks : SendChunk(m, k)
          \/ SendEnd(m)
          \/ \E k \in Requests : Serve(m, k)
          \/ WriteLands(m) \/ WriteFails(m)
    BY <1>2 DEF Next
  <2>2. CASE m # n
    BY <2>1, <2>2, OthersContained
  <2>3. Contained(n) /\ n \notin raced
    BY <2>1, TransferStep DEF AllContained
  <2>4. ASSUME m = n, NEW k \in Requests, Serve(n, k), ~Blocks(n, k)
        PROVE  Contained(n)'
    <3>1. Undisturbed(n)
      BY <2>3, <2>4, ServedIsOutstanding DEF Sole, SoleUndisturbed
    <3> QED BY <2>3, <2>4, <3>1, StartContained, ChunkContained, EndContained DEF Serve
  <2>5. ASSUME NEW k \in Requests, Blocks(n, k) PROVE Contained(n)'
    <3>1. /\ Goes(n, k, "blocked") /\ transfer' = transfer /\ left' = left
          /\ k = End => task[n][End] = "new"
      BY <2>5, RequestNumbers DEF Blocks, AtMap
    <3>2. ~EndCopies(n)
      <4>1. task[n][k] # "moving" /\ task'[n][k] = "blocked"
        BY <2>5, <3>1 DEF Blocks, AtMap, Typed, TypeOK, Goes
      <4> QED BY <3>1, <4>1, RequestNumbers DEF EndCopies, Typed, TypeOK, Goes
    <3>3. Shrinks(n)
      BY <2>5, <3>2, ServeShrinks DEF Serve
    <3> QED BY <2>3, <3>1, <3>3, SelfMovesOn, RequestNumbers
  <2> QED BY <2>1, <2>2, <2>3, <2>4, <2>5, SentContained, WriteContained
<1> QED BY <1>1, <1>2

\* An upload that is refused once its file is flushed leaves nothing of itself
\* (fs.rs:900-927), unless its mv broke off, the removal failed unnoticed, or
\* another upload was under way: its chunks were nowhere but in the file that is
\* removed, and no write of one is still to come.
THEOREM RefusedUploadLeavesNothing == Spec => []RefusedLeavesNothing
<1>1. Init => AllContained
  <2> SUFFICES ASSUME Init, NEW n \in Uploads PROVE Contained(n)
    BY DEF AllContained
  <2> QED BY FileNumbers, RequestNumbers DEF Init, Contained, Empty, NoChunk
<1>2. AllContained /\ Typed => RefusedLeavesNothing
  <2> SUFFICES ASSUME AllContained, Typed, NEW n \in Uploads \ (raced \cup left),
                      task[n][End] = "error", NEW p \in Paths, files[p] # 0,
                      NEW k \in 1..Chunks, data[files[p]][k] = n
               PROVE  FALSE
    BY DEF RefusedLeavesNothing
  <2>1. files[p] \in Files /\ Live(files[p])
    BY DEF Typed, TypeOK, Live
  <2> QED BY <2>1 DEF AllContained, Contained
<1> QED BY <1>1, <1>2, AlwaysUndisturbed, ContainedStep, PTL DEF Spec
=============================================================================
