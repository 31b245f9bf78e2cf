--------------------------- MODULE UpdaterProofs ---------------------------
(***************************************************************************)
(* Proofs about Updater for any updaters of the agent, any number and size *)
(* of versions, and any number of files and failures.                      *)
(***************************************************************************)
EXTENDS Updater, SequenceTheorems, TLAPS

\* What an updater has got by where it is.
Has(u) ==
  /\ step[u] \in {"hash", "download", "open", "write"} => want[u] # 0
  /\ step[u] = "write" => open[u] # 0
  /\ step[u] = "copying" => open[u] # 0 /\ source[u] # 0

\* The invariant that type correctness needs.
Typed == TypeOK /\ path["tmp"] # path["binary"] /\ \A u \in Updaters : Has(u)

\* A file that can be started, but for who has it open.
IsWhole(f) == files[f].exec /\ \E v \in Versions : files[f].blocks = Whole(v)

\* What an updater that replaces the binary alone has made of the files.
Stage(u) ==
  /\ step[u] = "write" => open[u] = path["tmp"] /\ files[open[u]].blocks = << >>
  /\ step[u] = "chmod" =>
       path["tmp"] # 0 /\ \E v \in Versions : files[path["tmp"]].blocks = Whole(v)
  /\ step[u] \in {"rename", "copy", "copying"} => path["tmp"] # 0 /\ IsWhole(path["tmp"])
  /\ step[u] = "copying" =>
       /\ source[u] = path["tmp"] /\ open[u] = path["binary"]
       /\ Installed.exec /\ Installed.blocks = << >>

\* Only one updater at a time replaces the binary.
Alone == \A u, w \in Updaters : step[u] \in Replacing /\ step[w] \in Replacing => u = w

\* Unless updaters raced or a copy was cut short, who replaces the binary is alone
\* with its files, and the binary is whole but while it is copied over.
Intact ==
  ~raced /\ ~torn =>
    /\ Alone
    /\ \A u \in Updaters : Stage(u)
    /\ (\E u \in Updaters : step[u] = "copying") \/ IsWhole(path["binary"])

-----------------------------------------------------------------------------
(* Type correctness.                                                       *)

\* Over returns a sequence, and on an empty file what is written.
LEMMA Overwritten ==
  ASSUME NEW S, NEW a \in Seq(S), NEW b \in Seq(S)
  PROVE  Over(a, b) \in Seq(S) /\ (a = << >> => Over(a, b) = b)
<1>1. /\ Len(a) \in Nat /\ \A i \in 1..Len(a) : a[i] \in S
      /\ Len(b) \in Nat /\ \A i \in 1..Len(b) : b[i] \in S
  BY LenProperties, ElementOfSeq
<1> DEFINE n == IF Len(a) > Len(b) THEN Len(a) ELSE Len(b)
<1>2. n \in Nat /\ Over(a, b) = [i \in 1..n |-> IF i <= Len(b) THEN b[i] ELSE a[i]]
  BY <1>1 DEF Over
<1>3. ASSUME NEW i \in 1..n PROVE (IF i <= Len(b) THEN b[i] ELSE a[i]) \in S
  BY <1>1
<1>4. Over(a, b) \in [1..n -> S]
  <2> HIDE DEF n
  <2> QED BY <1>2, <1>3
<1>5. Over(a, b) \in Seq(S)
  <2> HIDE DEF n
  <2> QED BY <1>2, <1>4, SeqDef
<1>6. ASSUME a = << >> PROVE Over(a, b) = b
  <2>1. Len(a) = 0
    BY <1>6, EmptySeq
  <2>2. n = Len(b)
    BY <1>1, <2>1
  <2>3. Len(Over(a, b)) = Len(b) /\ \A i \in 1..Len(b) : Over(a, b)[i] = b[i]
    <3>1. Over(a, b) = [i \in 1..Len(b) |-> IF i <= Len(b) THEN b[i] ELSE a[i]]
      BY <1>2, <2>2
    <3>2. DOMAIN Over(a, b) = 1..Len(b)
      BY <3>1
    <3>3. DOMAIN Over(a, b) = 1..Len(Over(a, b)) /\ Len(Over(a, b)) \in Nat
      BY <1>5, LenProperties
    <3>4. Len(Over(a, b)) = Len(b)
      BY <1>1, <3>2, <3>3
    <3> QED BY <1>1, <3>1, <3>4
  <2> HIDE DEF n
  <2> QED BY <1>5, <2>3, SeqEqual
<1> QED BY <1>5, <1>6

\* A version has its blocks.
LEMMA WholeIsASeq ==
  ASSUME NEW v \in Versions
  PROVE  Whole(v) \in Seq(Versions)
<1>1. Size[v] \in Nat
  BY UpdaterBounds DEF Versions
<1>2. Whole(v) \in [1..Size[v] -> Versions]
  BY DEF Whole
<1> QED BY <1>1, <1>2, SeqDef

\* A new file is nobody's.
LEMMA FreshFile ==
  ASSUME ~(File \subseteq InUse)
  PROVE  Fresh \in File /\ Fresh \notin InUse
BY DEF Fresh

\* A file that is written or made executable stays one.
LEMMA FilesChanged ==
  ASSUME TypeOK, NEW f \in File
  PROVE  /\ \A b \in Seq(Versions) : [files EXCEPT ![f].blocks = b]
              \in [File -> [blocks : Seq(Versions), exec : BOOLEAN]]
         /\ [files EXCEPT ![f].exec = TRUE]
              \in [File -> [blocks : Seq(Versions), exec : BOOLEAN]]
<1>1. files \in [File -> [blocks : Seq(Versions), exec : BOOLEAN]]
  BY DEF TypeOK
<1>2. /\ \A b \in Seq(Versions) : [files[f] EXCEPT !.blocks = b]
           \in [blocks : Seq(Versions), exec : BOOLEAN]
      /\ [files[f] EXCEPT !.exec = TRUE] \in [blocks : Seq(Versions), exec : BOOLEAN]
  BY <1>1
<1> QED BY <1>1, <1>2

\* What a path names is a file.
LEMMA PathsInUse ==
  ASSUME TypeOK
  PROVE  /\ path["binary"] \in File
         /\ path["tmp"] # 0 => path["tmp"] \in File
         /\ \A u \in Updaters : open[u] # 0 => open[u] \in File
         /\ \A u \in Updaters : source[u] # 0 => source[u] \in File
BY UpdaterBounds, SMTT(60) DEF TypeOK, File

\* No updater has begun at first.
LEMMA TypedInitially == Init => Typed
<1> SUFFICES ASSUME Init PROVE Typed
  OBVIOUS
<1>1. 1 \in Versions /\ 1 \in File
  BY UpdaterBounds DEF Versions, File
<1>2. Whole(1) \in Seq(Versions) /\ << >> \in Seq(Versions)
  BY <1>1, WholeIsASeq, EmptySeq
<1>3. files \in [File -> [blocks : Seq(Versions), exec : BOOLEAN]]
  BY <1>2 DEF Init, Blank
<1>4. path \in [{"tmp", "binary"} -> 0..Files] /\ path["binary"] # 0
      /\ path["tmp"] # path["binary"]
  BY <1>1, UpdaterBounds DEF Init, File
<1>5. /\ step \in [Updaters -> Step] /\ want \in [Updaters -> 0..MaxVersion]
      /\ open \in [Updaters -> 0..Files] /\ source \in [Updaters -> 0..Files]
      /\ exe \in [{"agent", "cli"} -> 0..Files] /\ errors \in 0..MaxErrors
  BY UpdaterBounds DEF Init, Step, Ended
<1>6. TypeOK
  BY <1>1, <1>3, <1>4, <1>5 DEF Init, TypeOK
<1>7. \A u \in Updaters : Has(u)
  BY DEF Init, Has
<1> QED BY <1>4, <1>6, <1>7 DEF Typed

\* The backend, and updaters that begin.
LEMMA BeginsTyped ==
  ASSUME Typed, Publish \/ (\E u \in Tasks : TaskBegins(u)) \/ CliBegins
  PROVE  Typed'
<1> USE DEF Typed, TypeOK, local, disk, history, Goes, Has, Step, Ended, Updaters
<1>1. CASE Publish
  BY <1>1, UpdaterBounds DEF Publish, Versions
<1>2. ASSUME NEW u \in Tasks, TaskBegins(u) PROVE Typed'
  BY <1>2 DEF TaskBegins
<1>3. CASE CliBegins
  <2>1. exe' \in [{"agent", "cli"} -> 0..Files]
    BY <1>3 DEF CliBegins
  <2> QED BY <1>3, <2>1 DEF CliBegins
<1> QED BY <1>1, <1>2, <1>3

\* Asking, hashing, downloading.
LEMMA ChecksTyped ==
  ASSUME Typed, NEW u \in Updaters, FetchChecksum(u) \/ HashCurrent(u) \/ Download(u)
  PROVE  Typed'
<1> USE DEF Typed, TypeOK, disk, history, Goes, Has, Step, Ended, Fails, Error
<1>1. CASE FetchChecksum(u)
  <2>1. errors' \in 0..MaxErrors
    BY <1>1, UpdaterBounds DEF FetchChecksum
  <2>2. /\ want' \in [Updaters -> 0..MaxVersion]
        /\ step'[u] = "hash" => want'[u] # 0
        /\ \A w \in Updaters : w # u => want'[w] = want[w]
    <3>1. PICK v \in {want[u], published} :
            /\ want' = [want EXCEPT ![u] = v]
            /\ step'[u] = "hash" => v = published
      <4>1. want = [want EXCEPT ![u] = want[u]]
        OBVIOUS
      <4> QED BY <1>1, <4>1 DEF FetchChecksum
    <3>2. published \in 0..MaxVersion /\ published # 0
      BY UpdaterBounds DEF Versions
    <3> QED BY <3>1, <3>2
  <2>3. step' \in [Updaters -> Step] /\ \A w \in Updaters : w # u => step'[w] = step[w]
    BY <1>1 DEF FetchChecksum
  <2>4. /\ step'[u] \in {"hash", "up_to_date", "failed"}
        /\ UNCHANGED <<published, open, source, disk, exe, due, crossDevice, history>>
    BY <1>1 DEF FetchChecksum
  <2>5. \A w \in Updaters : Has(w)'
    BY <2>2, <2>3, <2>4
  <2>6. TypeOK'
    BY <2>1, <2>2, <2>3, <2>4
  <2> QED BY <2>4, <2>5, <2>6
<1>2. CASE HashCurrent(u)
  BY <1>2 DEF HashCurrent
<1>3. CASE Download(u)
  <2>1. errors' \in 0..MaxErrors
    BY <1>3, UpdaterBounds DEF Download
  <2> QED BY <1>3, <2>1 DEF Download
<1> QED BY <1>1, <1>2, <1>3

\* Writing the temporary file.
LEMMA WritesTyped ==
  ASSUME Typed, NEW u \in Updaters, OpenTmp(u) \/ WriteTmp(u) \/ Chmod(u)
  PROVE  Typed'
<1> USE DEF Typed, TypeOK, disk, history, Goes, Has, Step, Ended, Replacing, Fails, Error
<1>1. CASE OpenTmp(u)
  <2> DEFINE f == IF path["tmp"] = 0 THEN Fresh ELSE path["tmp"]
  <2>1. f \in File /\ f # path["binary"] /\ f # 0
    <3>1. CASE path["tmp"] = 0
      BY <1>1, <3>1, FreshFile, UpdaterBounds DEF OpenTmp, InUse, File
    <3>2. CASE path["tmp"] # 0
      BY <3>2, UpdaterBounds DEF File
    <3> QED BY <3>1, <3>2
  <2>2. /\ files' = [files EXCEPT ![f] =
               [Blank EXCEPT !.exec = path["tmp"] # 0 /\ files[f].exec]]
        /\ path' = [path EXCEPT !["tmp"] = f]
        /\ open' = [open EXCEPT ![u] = f]
    BY <1>1 DEF OpenTmp
  <2> HIDE DEF f
  <2>3. [Blank EXCEPT !.exec = path["tmp"] # 0 /\ files[f].exec]
          \in [blocks : Seq(Versions), exec : BOOLEAN]
    BY <2>1, EmptySeq DEF Blank
  <2>4. files' \in [File -> [blocks : Seq(Versions), exec : BOOLEAN]]
    BY <2>2, <2>3
  <2>5. path' \in [{"tmp", "binary"} -> 0..Files] /\ path'["binary"] = path["binary"]
        /\ path'["tmp"] = f /\ open' \in [Updaters -> 0..Files]
        /\ open'[u] = f
    BY <2>1, <2>2 DEF File
  <2>6. raced' \in BOOLEAN
    BY <1>1 DEF OpenTmp
  <2> QED BY <1>1, <2>1, <2>2, <2>4, <2>5, <2>6 DEF OpenTmp
<1>2. CASE WriteTmp(u)
  <2>1. errors' \in 0..MaxErrors
    BY <1>2, UpdaterBounds DEF WriteTmp
  <2>2. files' \in [File -> [blocks : Seq(Versions), exec : BOOLEAN]]
    <3>1. want[u] \in Versions /\ open[u] \in File
      BY <1>2, UpdaterBounds DEF WriteTmp, Versions, File
    <3>2. Over(files[open[u]].blocks, Whole(want[u])) \in Seq(Versions)
      BY <3>1, WholeIsASeq, Overwritten
    <3>3. PICK b \in Seq(Versions) : b = Over(files[open[u]].blocks, Whole(want[u]))
      BY <3>2
    <3>4. files' = files \/ files' = [files EXCEPT ![open[u]].blocks = b]
      BY <1>2, <3>3 DEF WriteTmp
    <3>5. TypeOK /\ files \in [File -> [blocks : Seq(Versions), exec : BOOLEAN]]
      OBVIOUS
    <3> HIDE DEF Typed
    <3>6. [files EXCEPT ![open[u]].blocks = b]
            \in [File -> [blocks : Seq(Versions), exec : BOOLEAN]]
      BY <3>1, <3>5, FilesChanged
    <3> HIDE DEF TypeOK
    <3> QED BY <3>4, <3>5, <3>6
  <2>3. UNCHANGED <<published, want, source, path, exe, due, crossDevice, history>>
    BY <1>2 DEF WriteTmp
  <2>4. step' \in [Updaters -> Step] /\ open' \in [Updaters -> 0..Files]
    <3>1. step' = [step EXCEPT ![u] = "chmod"] \/ step' = [step EXCEPT ![u] = "failed"]
      BY <1>2 DEF WriteTmp
    <3>2. open' = [open EXCEPT ![u] = 0] /\ 0 \in 0..Files
      BY <1>2, UpdaterBounds DEF WriteTmp
    <3> QED BY <3>1, <3>2
  <2>5. \A w \in Updaters : Has(w)'
    BY <1>2 DEF WriteTmp
  <2> QED BY <2>1, <2>2, <2>3, <2>4, <2>5
<1>3. CASE Chmod(u)
  <2>1. files' \in [File -> [blocks : Seq(Versions), exec : BOOLEAN]]
    <3>1. CASE path["tmp"] = 0
      BY <1>3, <3>1 DEF Chmod
    <3>2. CASE path["tmp"] # 0
      <4>1. files' = [files EXCEPT ![path["tmp"]].exec = TRUE]
        BY <1>3, <3>2 DEF Chmod
      <4>2. path["tmp"] \in File /\ TypeOK
        BY <3>2, PathsInUse
      <4> HIDE DEF Typed
      <4>3. [files EXCEPT ![path["tmp"]].exec = TRUE]
              \in [File -> [blocks : Seq(Versions), exec : BOOLEAN]]
        BY <4>2, FilesChanged
      <4> QED BY <4>1, <4>3
    <3> QED BY <3>1, <3>2
  <2> QED BY <1>3, <2>1 DEF Chmod
<1> QED BY <1>1, <1>2, <1>3

\* Renaming the temporary file, or copying it over the binary.
LEMMA InstallsTyped ==
  ASSUME Typed, NEW u \in Updaters,
         Rename(u) \/ CopyOpens(u) \/ CopyData(u) \/ ChmodBinary(u) \/ RemoveTmp(u)
  PROVE  Typed'
<1> USE DEF Typed, TypeOK, disk, history, Goes, Has, Step, Ended, Replacing, Fails, Error
<1>0. /\ path["binary"] \in File
      /\ path["tmp"] # 0 => path["tmp"] \in File
      /\ open[u] # 0 => open[u] \in File
      /\ source[u] # 0 => source[u] \in File
  BY PathsInUse
<1>1. CASE Rename(u)
  <2>1. \/ path' = path
        \/ path' = [tmp |-> 0, binary |-> path["tmp"]] /\ path["tmp"] # 0
    BY <1>1 DEF Rename
  <2>2. path' \in [{"tmp", "binary"} -> 0..Files] /\ path'["binary"] # 0
        /\ path'["tmp"] # path'["binary"]
    BY <1>0, <2>1, UpdaterBounds DEF File
  <2>3. errors' \in 0..MaxErrors
    BY <1>1, UpdaterBounds DEF Rename
  <2> QED BY <1>1, <2>2, <2>3 DEF Rename
<1>2. CASE CopyOpens(u)
  <2> DEFINE e == files[path["tmp"]].exec
  <2>1. CASE path["tmp"] # 0 /\ ~Executed(path["binary"])
    <3>1. /\ files' = [files EXCEPT ![path["binary"]] = [Blank EXCEPT !.exec = e]]
          /\ open' = [open EXCEPT ![u] = path["binary"]]
          /\ source' = [source EXCEPT ![u] = path["tmp"]]
          /\ step' = [step EXCEPT ![u] = "copying"]
      BY <1>2, <2>1 DEF CopyOpens
    <3>2. [Blank EXCEPT !.exec = e] \in [blocks : Seq(Versions), exec : BOOLEAN]
      BY <1>0, <2>1, EmptySeq DEF Blank
    <3> HIDE DEF e
    <3>3. files' \in [File -> [blocks : Seq(Versions), exec : BOOLEAN]]
      BY <3>1, <3>2
    <3> QED BY <1>2, <2>1, <3>1, <3>3 DEF CopyOpens
  <2>2. CASE path["tmp"] = 0 \/ Executed(path["binary"])
    BY <1>2, <2>2 DEF CopyOpens
  <2> QED BY <2>1, <2>2
<1>3. CASE CopyData(u)
  <2>1. errors' \in 0..MaxErrors /\ torn' \in BOOLEAN
    <3>1. \/ UNCHANGED <<errors, torn>>
          \/ errors < MaxErrors /\ errors' = errors + 1 /\ torn' = TRUE
      BY <1>3 DEF CopyData
    <3>2. errors' \in 0..MaxErrors
      BY <3>1, UpdaterBounds
    <3>3. torn \in BOOLEAN
      OBVIOUS
    <3> HIDE DEF Typed, TypeOK
    <3>4. torn' \in BOOLEAN
      BY <3>1, <3>3
    <3> QED BY <3>2, <3>4
  <2>2. PICK b \in Seq(Versions) : b = Over(files[open[u]].blocks, files[source[u]].blocks)
    BY <1>0, <1>3, Overwritten DEF CopyData
  <2>3. files' = files \/ files' = [files EXCEPT ![open[u]].blocks = b]
    BY <1>3, <2>2 DEF CopyData
  <2>4. files' \in [File -> [blocks : Seq(Versions), exec : BOOLEAN]]
    <3>1. open[u] \in File /\ TypeOK
      BY <1>0, <1>3 DEF CopyData
    <3>2. files \in [File -> [blocks : Seq(Versions), exec : BOOLEAN]]
      OBVIOUS
    <3> HIDE DEF Typed, TypeOK
    <3>3. [files EXCEPT ![open[u]].blocks = b]
            \in [File -> [blocks : Seq(Versions), exec : BOOLEAN]]
      BY <3>1, FilesChanged
    <3> QED BY <2>3, <3>2, <3>3
  <2>5. step' = [step EXCEPT ![u] = "chmod_binary"] \/ step' = [step EXCEPT ![u] = "failed"]
    BY <1>3 DEF CopyData
  <2>6. open' = [open EXCEPT ![u] = 0] /\ source' = [source EXCEPT ![u] = 0]
        /\ 0 \in 0..Files
        /\ UNCHANGED <<published, want, path, exe, due, crossDevice, raced, unrestarted>>
    BY <1>3, UpdaterBounds DEF CopyData
  <2> QED BY <2>1, <2>4, <2>5, <2>6
<1>4. CASE ChmodBinary(u)
  <2>1. errors' \in 0..MaxErrors /\ unrestarted' \in BOOLEAN
    <3>1. \/ UNCHANGED <<errors, unrestarted>>
          \/ errors < MaxErrors /\ errors' = errors + 1 /\ unrestarted' = TRUE
      BY <1>4 DEF ChmodBinary
    <3>2. errors' \in 0..MaxErrors
      BY <3>1, UpdaterBounds
    <3>3. unrestarted \in BOOLEAN
      OBVIOUS
    <3> HIDE DEF Typed, TypeOK
    <3>4. unrestarted' \in BOOLEAN
      BY <3>1, <3>3
    <3> QED BY <3>2, <3>4
  <2>2. files' = files \/ files' = [files EXCEPT ![path["binary"]].exec = TRUE]
    BY <1>4 DEF ChmodBinary
  <2>3. files' \in [File -> [blocks : Seq(Versions), exec : BOOLEAN]]
    <3>1. TypeOK /\ files \in [File -> [blocks : Seq(Versions), exec : BOOLEAN]]
      OBVIOUS
    <3> HIDE DEF Typed, TypeOK
    <3>2. [files EXCEPT ![path["binary"]].exec = TRUE]
            \in [File -> [blocks : Seq(Versions), exec : BOOLEAN]]
      BY <1>0, <3>1, FilesChanged
    <3> QED BY <2>2, <3>1, <3>2
  <2> QED BY <1>4, <2>1, <2>3 DEF ChmodBinary
<1>5. CASE RemoveTmp(u)
  BY <1>5, UpdaterBounds DEF RemoveTmp
<1> QED BY <1>1, <1>2, <1>3, <1>4, <1>5

\* Processes that end take their updaters with them.
LEMMA Killed ==
  ASSUME Typed, NEW S \in SUBSET Updaters, NEW u \in Updaters, NEW s \in Step,
         s \in Ended \/ s = step[u], Kill(S, u, s)
  PROVE  /\ step' \in [Updaters -> Step] /\ want' \in [Updaters -> 0..MaxVersion]
         /\ open' \in [Updaters -> 0..Files] /\ source' \in [Updaters -> 0..Files]
         /\ torn' \in BOOLEAN /\ (torn => torn')
         /\ \A w \in S : step[w] = "copying" => torn'
         /\ \A w \in Updaters :
              \/ step'[w] \in Ended
              \/ step'[w] = step[w] /\ open'[w] = open[w] /\ source'[w] = source[w]
                   /\ want'[w] = want[w]
<1> USE DEF Typed, TypeOK, Kill
<1>1. /\ "idle" \in Step /\ "idle" \in Ended /\ 0 \in 0..MaxVersion /\ 0 \in 0..Files
  BY UpdaterBounds DEF Step, Ended
<1>2. /\ step' \in [Updaters -> Step] /\ want' \in [Updaters -> 0..MaxVersion]
      /\ open' \in [Updaters -> 0..Files] /\ source' \in [Updaters -> 0..Files]
  BY <1>1
<1>3. torn' \in BOOLEAN /\ (torn => torn') /\ \A w \in S : step[w] = "copying" => torn'
  OBVIOUS
<1>4. ASSUME NEW w \in Updaters
      PROVE  \/ step'[w] \in Ended
             \/ step'[w] = step[w] /\ open'[w] = open[w] /\ source'[w] = source[w]
                  /\ want'[w] = want[w]
  BY <1>1
<1> QED BY <1>2, <1>3, <1>4

\* The service, and the processes that end.
LEMMA ServiceTyped ==
  ASSUME Typed, (\E u \in Updaters : Restart(u) \/ Ends(u)) \/ AgentStarts \/ AgentDies
                  \/ CliDies
  PROVE  Typed'
<1> USE DEF disk, history, local
<1>0. /\ Tasks \subseteq Updaters /\ Cli \in Updaters /\ {Cli} \subseteq Updaters
      /\ 0 \in 0..Files /\ 0 \in 0..MaxVersion
      /\ Ended \subseteq Step /\ "updated" \in Ended /\ "idle" \in Ended
  BY UpdaterBounds DEF Updaters, Ended, Step
<1>1. ASSUME NEW S \in SUBSET Updaters, NEW u \in Updaters, NEW s \in Step,
             s \in Ended \/ s = step[u], Kill(S, u, s),
             UNCHANGED <<published, disk, due, crossDevice, raced>>,
             exe' \in [{"agent", "cli"} -> 0..Files], errors' \in 0..MaxErrors,
             unrestarted' \in BOOLEAN
      PROVE  Typed'
  <2>1. TypeOK'
    BY <1>1, Killed DEF Typed, TypeOK
  <2>2. \A w \in Updaters : Has(w)'
    BY <1>1, Killed DEF Typed, Has, Ended
  <2> QED BY <1>1, <2>1, <2>2 DEF Typed
<1>2. ASSUME NEW u \in Updaters, Restart(u) PROVE Typed'
  <2>1. CASE Kill(Tasks, u, "updated") /\ exe' = [exe EXCEPT !["agent"] = 0]
             /\ UNCHANGED <<errors, unrestarted>>
    <3>1. /\ exe' \in [{"agent", "cli"} -> 0..Files] /\ errors' \in 0..MaxErrors
          /\ unrestarted' \in BOOLEAN
          /\ UNCHANGED <<published, disk, due, crossDevice, raced>>
      BY <1>0, <1>2, <2>1 DEF Typed, TypeOK, Restart
    <3> QED BY <1>0, <1>1, <2>1, <3>1
  <2>2. CASE Error /\ Goes(u, "updated") /\ unrestarted' = TRUE
             /\ UNCHANGED <<want, open, source, exe, torn>>
    <3>1. errors' \in 0..MaxErrors
      BY <2>2, UpdaterBounds DEF Error, Typed, TypeOK
    <3> QED BY <1>0, <1>2, <2>2, <3>1 DEF Restart, Typed, TypeOK, Goes, Has, Ended
  <2> QED BY <1>2, <2>1, <2>2 DEF Restart
<1>3. ASSUME NEW u \in Updaters, Ends(u) PROVE Typed'
  <2>1. exe' \in [{"agent", "cli"} -> 0..Files]
    BY <1>0, <1>3 DEF Ends, Typed, TypeOK
  <2> QED BY <1>0, <1>3, <2>1 DEF Ends, Typed, TypeOK, Goes, Has
<1>4. CASE AgentStarts
  BY <1>4 DEF AgentStarts, Typed, TypeOK, Has
<1>5. CASE AgentDies
  <2>1. /\ exe' \in [{"agent", "cli"} -> 0..Files] /\ errors' \in 0..MaxErrors
        /\ unrestarted' \in BOOLEAN
        /\ UNCHANGED <<published, disk, due, crossDevice, raced>>
        /\ Kill(Tasks, Cli, step[Cli]) /\ step[Cli] \in Step
    BY <1>0, <1>5, UpdaterBounds DEF AgentDies, Error, Typed, TypeOK
  <2> QED BY <1>0, <1>1, <2>1
<1>6. CASE CliDies
  <2>1. /\ exe' \in [{"agent", "cli"} -> 0..Files] /\ errors' \in 0..MaxErrors
        /\ unrestarted' \in BOOLEAN
        /\ UNCHANGED <<published, disk, due, crossDevice, raced>>
        /\ Kill({Cli}, Cli, "idle")
    BY <1>0, <1>6, UpdaterBounds DEF CliDies, Error, Typed, TypeOK
  <2> QED BY <1>0, <1>1, <2>1
<1> QED BY <1>2, <1>3, <1>4, <1>5, <1>6

\* Every step keeps it.
LEMMA TypedStep ==
  ASSUME Typed, [Next]_vars
  PROVE  Typed'
<1>1. CASE UNCHANGED vars
  BY <1>1 DEF vars, Typed, TypeOK, Has, local, disk, history
<1> QED BY <1>1, BeginsTyped, ChecksTyped, WritesTyped, InstallsTyped, ServiceTyped
        DEF Next, UpdaterStep

\* Every variable keeps its type: the binary's path always names a file.
THEOREM TypeCorrect == Spec => []TypeOK
<1>1. Typed => TypeOK
  BY DEF Typed
<1> QED BY <1>1, TypedInitially, TypedStep, PTL DEF Spec

-----------------------------------------------------------------------------
(* What is installed is whole.                                             *)

\* A step that leaves the files alone, and does not bring an updater forward.
Harmless ==
  /\ UNCHANGED <<files, path>> /\ (raced => raced') /\ (torn => torn')
  /\ \A w \in Updaters :
       /\ \/ step'[w] \notin Replacing
          \/ step'[w] = step[w] /\ open'[w] = open[w] /\ source'[w] = source[w]
       /\ step[w] = "copying" => step'[w] = "copying" \/ torn'

\* A step that leaves the files of the one that replaces the binary keeps it intact.
LEMMA HarmlessIntact ==
  ASSUME Intact, Harmless
  PROVE  Intact'
<1> SUFFICES ASSUME ~raced', ~torn' PROVE Alone' /\ (\A u \in Updaters : Stage(u)')
               /\ ((\E u \in Updaters : step'[u] = "copying") \/ IsWhole(path["binary"])')
  BY DEF Intact, Harmless
<1>1. ~raced /\ ~torn
  BY DEF Harmless
<1>2. Alone'
  BY <1>1 DEF Intact, Harmless, Alone
<1>3. ASSUME NEW u \in Updaters PROVE Stage(u)'
  BY <1>1 DEF Intact, Harmless, Stage, IsWhole, Installed, Replacing
<1>4. (\E u \in Updaters : step'[u] = "copying") \/ IsWhole(path["binary"])'
  BY <1>1 DEF Intact, Harmless, IsWhole
<1> QED BY <1>2, <1>3, <1>4

\* A step of the one updater that replaces the binary.
LEMMA OneReplaces ==
  ASSUME NEW u \in Updaters, \A w \in Updaters : w # u => step'[w] \notin Replacing,
         Stage(u)', step'[u] = "copying" \/ IsWhole(path["binary"])'
  PROVE  Intact'
BY DEF Intact, Alone, Stage, Replacing

\* What updaters do before and after they replace the binary.
LEMMA HarmlessSteps ==
  ASSUME Typed,
         \/ Publish \/ (\E u \in Tasks : TaskBegins(u)) \/ CliBegins
         \/ \E u \in Updaters : FetchChecksum(u) \/ HashCurrent(u) \/ Download(u)
                                  \/ Restart(u) \/ Ends(u)
         \/ AgentStarts \/ AgentDies \/ CliDies \/ UNCHANGED vars
  PROVE  Harmless
<1> USE DEF Harmless, disk, local, history, Goes, Replacing
<1>1. CASE UNCHANGED vars \/ Publish \/ AgentStarts
  BY <1>1 DEF vars, Publish, AgentStarts
<1>2. CASE (\E u \in Tasks : TaskBegins(u)) \/ CliBegins
  BY <1>2 DEF TaskBegins, CliBegins, Typed, TypeOK, Updaters
<1>3. ASSUME NEW u \in Updaters, FetchChecksum(u) \/ HashCurrent(u) \/ Download(u)
      PROVE  Harmless
  BY <1>3 DEF FetchChecksum, HashCurrent, Download, Fails, Typed, TypeOK
<1>4. ASSUME NEW u \in Updaters, Ends(u) PROVE Harmless
  BY <1>4 DEF Ends, Ended, Typed, TypeOK
<1>5. /\ Tasks \subseteq Updaters /\ Cli \in Updaters /\ {Cli} \subseteq Updaters
      /\ Ended \subseteq Step /\ "updated" \in Ended /\ "idle" \in Ended
      /\ step[Cli] \in Step
  BY DEF Updaters, Ended, Step, Typed, TypeOK
<1>6. ASSUME NEW S \in SUBSET Updaters, NEW u \in Updaters, NEW s \in Step,
             s \in Ended \/ s = step[u], step[u] = "copying" => u \in S \/ s = step[u],
             Kill(S, u, s), UNCHANGED <<disk, raced>>
      PROVE  Harmless
  BY <1>6, Killed DEF Ended, Kill, Typed, TypeOK
<1>7. ASSUME NEW u \in Updaters, Restart(u) PROVE Harmless
  <2>1. CASE Kill(Tasks, u, "updated")
    <3>1. step[u] = "restart" /\ UNCHANGED <<disk, raced>>
      BY <1>7 DEF Restart
    <3> QED BY <1>5, <1>6, <2>1, <3>1
  <2>2. CASE Goes(u, "updated") /\ UNCHANGED <<open, source, torn>>
    BY <1>7, <2>2 DEF Restart, Typed, TypeOK
  <2> QED BY <1>7, <2>1, <2>2 DEF Restart
<1>8. CASE AgentDies
  BY <1>5, <1>6, <1>8, UpdaterNames DEF AgentDies
<1>9. CASE CliDies
  <2>1. Kill({Cli}, Cli, "idle") /\ UNCHANGED <<disk, raced>>
    BY <1>9 DEF CliDies
  <2> QED BY <1>5, <1>6, <2>1
<1> QED BY <1>1, <1>2, <1>3, <1>4, <1>7, <1>8, <1>9

\* Alone, an updater that replaces the binary sees nobody else do.
LEMMA NobodyElse ==
  ASSUME Intact, ~raced, ~torn, NEW u \in Updaters, step[u] \in Replacing
  PROVE  /\ Stage(u) /\ \A w \in Updaters : w # u => step[w] \notin Replacing
         /\ step[u] # "copying" => IsWhole(path["binary"])
BY DEF Intact, Alone, Replacing

\* The temporary file is written.
LEMMA WritesIntact ==
  ASSUME Typed, Intact, NEW u \in Updaters, OpenTmp(u) \/ WriteTmp(u) \/ Chmod(u)
  PROVE  Intact'
<1> USE DEF Typed, TypeOK, history, Goes
<1>0. /\ path["binary"] \in File
      /\ path["tmp"] # 0 => path["tmp"] \in File
      /\ open[u] # 0 => open[u] \in File
  BY PathsInUse
<1>1. SUFFICES ASSUME ~raced', ~torn' PROVE Intact'
  BY DEF Intact
<1>2. CASE OpenTmp(u)
  <2> DEFINE f == IF path["tmp"] = 0 THEN Fresh ELSE path["tmp"]
             b == [Blank EXCEPT !.exec = path["tmp"] # 0 /\ files[f].exec]
  <2>1. f \in File /\ f # path["binary"]
    BY <1>0, <1>2, FreshFile DEF OpenTmp, InUse
  <2>2. b.blocks = << >>
    BY DEF Blank
  <2>3. /\ files' = [files EXCEPT ![f] = b] /\ path' = [path EXCEPT !["tmp"] = f]
        /\ open' = [open EXCEPT ![u] = f] /\ step' = [step EXCEPT ![u] = "write"]
        /\ ~raced /\ ~torn /\ \A w \in Updaters : w # u => step[w] \notin Replacing
    BY <1>1, <1>2 DEF OpenTmp
  <2> HIDE DEF f, b
  <2>4. IsWhole(path["binary"])
    BY <1>2, <2>3 DEF Intact, OpenTmp, Replacing
  <2>5. Stage(u)'
    BY <2>1, <2>2, <2>3 DEF Stage
  <2>6. IsWhole(path["binary"])'
    BY <1>0, <2>1, <2>3, <2>4 DEF IsWhole
  <2> QED BY <2>3, <2>5, <2>6, OneReplaces
<1>3. CASE WriteTmp(u)
  <2>1. CASE step' = [step EXCEPT ![u] = "failed"] /\ UNCHANGED files
    BY <1>3, <2>1, HarmlessIntact DEF WriteTmp, Harmless, Replacing
  <2>2. CASE files' = [files EXCEPT ![open[u]].blocks = Over(@, Whole(want[u]))]
             /\ step' = [step EXCEPT ![u] = "chmod"]
    <3>1. /\ ~raced /\ ~torn /\ step[u] = "write" /\ UNCHANGED path /\ want[u] \in Versions
      BY <1>1, <1>3, UpdaterBounds DEF WriteTmp, Has, Versions
    <3>2. /\ open[u] = path["tmp"] /\ files[open[u]].blocks = << >> /\ open[u] \in File
          /\ IsWhole(path["binary"])
          /\ \A w \in Updaters : w # u => step[w] \notin Replacing
      BY <1>0, <3>1, NobodyElse DEF Stage, Replacing, Has
    <3>3. Over(files[open[u]].blocks, Whole(want[u])) = Whole(want[u])
      BY <3>1, <3>2, WholeIsASeq, Overwritten, EmptySeq
    <3>4. files' = [files EXCEPT ![path["tmp"]].blocks = Whole(want[u])]
      BY <2>2, <3>2, <3>3
    <3>5. Stage(u)'
      BY <2>2, <3>1, <3>2, <3>4 DEF Stage, File
    <3>6. IsWhole(path["binary"])'
      BY <1>0, <3>1, <3>2, <3>4 DEF IsWhole
    <3> QED BY <2>2, <3>2, <3>5, <3>6, OneReplaces
  <2> QED BY <1>3, <2>1, <2>2 DEF WriteTmp, Fails
<1>4. CASE Chmod(u)
  <2>1. ~raced /\ ~torn /\ step[u] = "chmod" /\ UNCHANGED path
    BY <1>1, <1>4 DEF Chmod
  <2>2. /\ path["tmp"] \in File /\ \E v \in Versions : files[path["tmp"]].blocks = Whole(v)
        /\ IsWhole(path["binary"])
        /\ \A w \in Updaters : w # u => step[w] \notin Replacing
    BY <1>0, <2>1, NobodyElse DEF Stage, Replacing
  <2>3. /\ files' = [files EXCEPT ![path["tmp"]].exec = TRUE]
        /\ step' = [step EXCEPT ![u] = "rename"]
    BY <1>4, <2>2, UpdaterBounds DEF Chmod, File
  <2>4. Stage(u)'
    BY <2>1, <2>2, <2>3, UpdaterBounds DEF Stage, IsWhole, File
  <2>5. IsWhole(path["binary"])'
    BY <1>0, <2>1, <2>2, <2>3 DEF IsWhole
  <2> QED BY <2>2, <2>3, <2>4, <2>5, OneReplaces
<1> QED BY <1>2, <1>3, <1>4

\* It is renamed, or copied.
LEMMA InstallsIntact ==
  ASSUME Typed, Intact, NEW u \in Updaters,
         Rename(u) \/ CopyOpens(u) \/ CopyData(u) \/ ChmodBinary(u) \/ RemoveTmp(u)
  PROVE  Intact'
<1> USE DEF Typed, TypeOK, history, Goes
<1>0. /\ path["binary"] \in File
      /\ path["tmp"] # 0 => path["tmp"] \in File
      /\ 0 \notin File
  BY PathsInUse, UpdaterBounds DEF File
<1>1. SUFFICES ASSUME ~raced', ~torn' PROVE Intact'
  BY DEF Intact
<1>2. ~raced /\ ~torn /\ step[u] \in Replacing
  BY <1>1 DEF Rename, CopyOpens, CopyData, ChmodBinary, RemoveTmp, Replacing
<1>3. /\ Stage(u) /\ \A w \in Updaters : w # u => step[w] \notin Replacing
      /\ step[u] # "copying" => IsWhole(path["binary"])
  BY <1>2, NobodyElse
<1>4. CASE Rename(u)
  <2>1. step[u] = "rename" /\ UNCHANGED files
    BY <1>4 DEF Rename
  <2>2. CASE path' = [tmp |-> 0, binary |-> path["tmp"]]
             /\ step' = [step EXCEPT ![u] = "restart"]
    BY <1>3, <2>1, <2>2, OneReplaces DEF Stage, IsWhole, Replacing
  <2>3. CASE UNCHANGED path /\ step' = [step EXCEPT ![u] = "copy"]
    BY <1>3, <2>1, <2>3, OneReplaces DEF Stage, IsWhole
  <2> QED BY <1>4, <2>2, <2>3 DEF Rename
<1>5. CASE CopyOpens(u)
  <2>1. step[u] = "copy" /\ UNCHANGED path
    BY <1>5 DEF CopyOpens
  <2>2. CASE UNCHANGED <<files, open, source>> /\ step'[u] \in {"failed", "busy"}
    BY <1>5, <2>1, <2>2, HarmlessIntact DEF CopyOpens, Harmless, Replacing
  <2>3. CASE /\ files' = [files EXCEPT ![path["binary"]] =
                            [Blank EXCEPT !.exec = files[path["tmp"]].exec]]
             /\ open' = [open EXCEPT ![u] = path["binary"]]
             /\ source' = [source EXCEPT ![u] = path["tmp"]]
             /\ step' = [step EXCEPT ![u] = "copying"]
    <3>1. path["tmp"] \in File /\ IsWhole(path["tmp"])
      BY <1>0, <1>3, <2>1 DEF Stage
    <3> DEFINE b == [Blank EXCEPT !.exec = files[path["tmp"]].exec]
    <3>2. b.blocks = << >> /\ b.exec
      BY <3>1 DEF IsWhole, Blank
    <3>3. files' = [files EXCEPT ![path["binary"]] = b]
      BY <2>3
    <3> HIDE DEF b
    <3>4. files'[path["tmp"]] = files[path["tmp"]] /\ files'[path["binary"]] = b
      BY <1>0, <3>1, <3>3
    <3>5. Stage(u)'
      BY <1>0, <2>1, <2>3, <3>1, <3>2, <3>4 DEF Stage, IsWhole, Installed
    <3> QED BY <1>3, <2>3, <3>5, OneReplaces
  <2> QED BY <1>5, <2>2, <2>3 DEF CopyOpens
<1>6. CASE CopyData(u)
  <2>1. /\ files' = [files EXCEPT ![open[u]].blocks = Over(@, files[source[u]].blocks)]
        /\ step' = [step EXCEPT ![u] = "chmod_binary"]
        /\ step[u] = "copying" /\ UNCHANGED path
    BY <1>1, <1>6 DEF CopyData
  <2>2. /\ source[u] = path["tmp"] /\ open[u] = path["binary"] /\ IsWhole(path["tmp"])
        /\ files[path["binary"]].exec /\ files[path["binary"]].blocks = << >>
        /\ path["tmp"] \in File
    BY <1>0, <1>3, <2>1 DEF Stage, Installed
  <2>3. PICK v \in Versions : files[path["tmp"]].blocks = Whole(v)
    BY <2>2 DEF IsWhole
  <2>4. Over(files[path["binary"]].blocks, files[path["tmp"]].blocks) = Whole(v)
    <3>1. << >> \in Seq(Versions) /\ Whole(v) \in Seq(Versions)
      BY WholeIsASeq, EmptySeq
    <3>2. Over(<< >>, Whole(v)) = Whole(v)
      BY <3>1, Overwritten
    <3> QED BY <2>2, <2>3, <3>2
  <2>5. files' = [files EXCEPT ![path["binary"]].blocks = Whole(v)]
    BY <2>1, <2>2, <2>4
  <2>6. IsWhole(path["binary"])'
    BY <1>0, <2>1, <2>2, <2>5 DEF IsWhole
  <2> QED BY <1>3, <2>1, <2>6, OneReplaces DEF Stage
<1>7. CASE ChmodBinary(u)
  <2>1. step[u] = "chmod_binary" /\ UNCHANGED path
    BY <1>7 DEF ChmodBinary
  <2>2. CASE files' = [files EXCEPT ![path["binary"]].exec = TRUE]
             /\ step' = [step EXCEPT ![u] = "remove"]
    <3>1. IsWhole(path["binary"])'
      BY <1>0, <1>3, <2>1, <2>2 DEF IsWhole
    <3> QED BY <1>3, <2>2, <3>1, OneReplaces DEF Stage
  <2>3. CASE UNCHANGED files /\ step' = [step EXCEPT ![u] = "failed"]
    BY <1>3, <2>1, <2>3, OneReplaces DEF Stage, IsWhole
  <2> QED BY <1>7, <2>2, <2>3 DEF ChmodBinary, Fails
<1>8. CASE RemoveTmp(u)
  BY <1>3, <1>8, OneReplaces DEF RemoveTmp, Stage, IsWhole
<1> QED BY <1>4, <1>5, <1>6, <1>7, <1>8

\* Every step keeps it.
LEMMA IntactStep ==
  ASSUME Typed, Intact, [Next]_vars
  PROVE  Intact'
<1>1. CASE \E u \in Updaters : OpenTmp(u) \/ WriteTmp(u) \/ Chmod(u)
  BY <1>1, WritesIntact
<1>2. CASE \E u \in Updaters : \/ Rename(u) \/ CopyOpens(u) \/ CopyData(u)
                               \/ ChmodBinary(u) \/ RemoveTmp(u)
  BY <1>2, InstallsIntact
<1>3. CASE Harmless
  BY <1>3, HarmlessIntact
<1> QED BY <1>1, <1>2, <1>3, HarmlessSteps DEF Next, UpdaterStep

\* The agent starts from a whole binary.
LEMMA IntactInitially == Init => Intact
<1> SUFFICES ASSUME Init PROVE Intact
  OBVIOUS
<1>1. 1 \in Versions /\ 1 \in File
  BY UpdaterBounds DEF Versions, File
<1>2. IsWhole(path["binary"])
  BY <1>1 DEF Init, IsWhole
<1> QED BY <1>2 DEF Init, Intact, Alone, Stage, Replacing

\* What is installed can be started, whatever fails or is killed on the way:
\* unless two updaters shared the temporary file, or a copy was cut short, the
\* binary is a whole version and executable, or still being copied.
THEOREM InstalledStaysWhole == Spec => []InstalledIsWhole
<1>1. Intact => InstalledIsWhole
  BY DEF Intact, InstalledIsWhole, IsWhole, Installed
<1> QED BY <1>1, TypedInitially, IntactInitially, TypedStep, IntactStep, PTL DEF Spec

-----------------------------------------------------------------------------
(* Updaters keep their contract.                                           *)

\* A file that is written, or is to be, is not executed.
TextBusy ==
  /\ \A u \in Updaters : open[u] # 0 => ~Executed(open[u])
  /\ path["tmp"] # 0 => ~Executed(path["tmp"])

\* Nothing but what was published is wanted or found in a file.
OnlyPublished ==
  /\ \A u \in Updaters : want[u] <= published
  /\ \A f \in File : files[f].blocks \in Seq(1..published)

\* A step after which no more is written, and nothing else executed, keeps it so.
LEMMA BusyKept ==
  ASSUME TextBusy, \A u \in Updaters : open'[u] \in {0, open[u]},
         path'["tmp"] \in {0, path["tmp"]},
         \A p \in {"agent", "cli"} : exe'[p] \in {0, exe[p]}
  PROVE  TextBusy'
<1>1. ASSUME NEW f, f # 0, f \notin {exe["agent"], exe["cli"]}
      PROVE  f \notin {exe'["agent"], exe'["cli"]}
  BY <1>1
<1>2. ASSUME NEW u \in Updaters, open'[u] # 0
      PROVE  open'[u] \notin {exe'["agent"], exe'["cli"]}
  BY <1>1, <1>2 DEF TextBusy, Executed
<1>3. path'["tmp"] # 0 => path'["tmp"] \notin {exe'["agent"], exe'["cli"]}
  BY <1>1 DEF TextBusy, Executed
<1> QED BY <1>2, <1>3 DEF TextBusy, Executed

\* What updaters do before they write, and how they end.
LEMMA BusyKeptSteps ==
  ASSUME Typed, NEW u \in Updaters,
         \/ FetchChecksum(u) \/ HashCurrent(u) \/ Download(u) \/ WriteTmp(u)
         \/ Chmod(u) \/ Rename(u) \/ CopyData(u) \/ ChmodBinary(u) \/ RemoveTmp(u)
         \/ Ends(u)
  PROVE  /\ \A w \in Updaters : open'[w] \in {0, open[w]}
         /\ path'["tmp"] \in {0, path["tmp"]}
         /\ \A p \in {"agent", "cli"} : exe'[p] \in {0, exe[p]}
<1> USE DEF Typed, TypeOK, disk, local, history
<1>1. CASE FetchChecksum(u) \/ HashCurrent(u) \/ Download(u)
  BY <1>1 DEF FetchChecksum, HashCurrent, Download
<1>2. CASE WriteTmp(u) \/ Chmod(u)
  BY <1>2 DEF WriteTmp, Chmod
<1>3. CASE Rename(u)
  BY <1>3 DEF Rename
<1>4. CASE CopyData(u) \/ ChmodBinary(u) \/ RemoveTmp(u)
  BY <1>4 DEF CopyData, ChmodBinary, RemoveTmp
<1>5. CASE Ends(u)
  BY <1>5 DEF Ends
<1> QED BY <1>1, <1>2, <1>3, <1>4, <1>5

\* Every step keeps it.
LEMMA BusyStep ==
  ASSUME Typed, TextBusy, [Next]_vars
  PROVE  TextBusy'
<1> USE DEF Typed, TypeOK, disk, local, history
<1>1. CASE UNCHANGED vars \/ Publish \/ \E u \in Tasks : TaskBegins(u)
  BY <1>1, BusyKept DEF vars, Publish, TaskBegins
<1>2. ASSUME NEW p \in {"agent", "cli"}, ~Written(path["binary"]),
             exe' = [exe EXCEPT ![p] = path["binary"]], UNCHANGED <<open, path>>
      PROVE  TextBusy'
  <2>1. \A f : f # path["binary"] /\ ~Executed(f) => ~Executed(f)'
    BY <1>2 DEF Executed
  <2>2. path["tmp"] # path["binary"] /\ \A u \in Updaters : open[u] # path["binary"]
    BY <1>2 DEF Written
  <2> QED BY <1>2, <2>1, <2>2 DEF TextBusy, Executed
<1>3. CASE CliBegins
  <2>1. CASE UNCHANGED exe
    BY <1>3, <2>1, BusyKept DEF CliBegins
  <2>2. CASE Startable /\ exe' = [exe EXCEPT !["cli"] = path["binary"]]
    BY <1>2, <1>3, <2>2 DEF CliBegins, Startable
  <2> QED BY <1>3, <2>1, <2>2 DEF CliBegins
<1>4. CASE AgentStarts
  BY <1>2, <1>4 DEF AgentStarts, Startable
<1>5. ASSUME NEW u \in Updaters, OpenTmp(u) PROVE TextBusy'
  <2> DEFINE f == IF path["tmp"] = 0 THEN Fresh ELSE path["tmp"]
  <2>1. ~Executed(f)
    <3>1. CASE path["tmp"] = 0
      BY <1>5, <3>1, FreshFile DEF OpenTmp, Executed, InUse
    <3>2. CASE path["tmp"] # 0
      BY <3>2 DEF TextBusy
    <3> QED BY <3>1, <3>2
  <2>2. path' = [path EXCEPT !["tmp"] = f] /\ open' = [open EXCEPT ![u] = f]
        /\ UNCHANGED exe
    BY <1>5 DEF OpenTmp
  <2> HIDE DEF f
  <2> QED BY <2>1, <2>2 DEF TextBusy, Executed
<1>6. ASSUME NEW u \in Updaters, CopyOpens(u) PROVE TextBusy'
  <2>1. UNCHANGED <<path, exe>>
    BY <1>6 DEF CopyOpens
  <2>2. \/ UNCHANGED open
        \/ open' = [open EXCEPT ![u] = path["binary"]] /\ ~Executed(path["binary"])
    BY <1>6 DEF CopyOpens
  <2> QED BY <2>1, <2>2 DEF TextBusy, Executed
<1>7. ASSUME NEW S, NEW u, NEW s, Kill(S, u, s), UNCHANGED path,
             \A p \in {"agent", "cli"} : exe'[p] \in {0, exe[p]}
      PROVE  TextBusy'
  BY <1>7, BusyKept DEF Kill
<1>8. ASSUME NEW u \in Updaters, Restart(u) PROVE TextBusy'
  <2>1. UNCHANGED path /\ \A p \in {"agent", "cli"} : exe'[p] \in {0, exe[p]}
    BY <1>8 DEF Restart
  <2>2. Kill(Tasks, u, "updated") \/ UNCHANGED open
    BY <1>8 DEF Restart
  <2> QED BY <1>7, <2>1, <2>2, BusyKept
<1>9. CASE AgentDies \/ CliDies
  <2>1. UNCHANGED path /\ \A p \in {"agent", "cli"} : exe'[p] \in {0, exe[p]}
    BY <1>9 DEF AgentDies, CliDies
  <2> QED BY <1>7, <1>9, <2>1 DEF AgentDies, CliDies
<1>10. ASSUME NEW u \in Updaters,
              \/ FetchChecksum(u) \/ HashCurrent(u) \/ Download(u) \/ WriteTmp(u)
              \/ Chmod(u) \/ Rename(u) \/ CopyData(u) \/ ChmodBinary(u) \/ RemoveTmp(u)
              \/ Ends(u)
       PROVE  TextBusy'
  BY <1>10, BusyKept, BusyKeptSteps
<1> QED BY <1>1, <1>3, <1>4, <1>5, <1>6, <1>8, <1>9, <1>10 DEF Next, UpdaterStep

\* Later versions are published besides those before.
LEMMA PublishedGrow ==
  ASSUME NEW m \in Nat, NEW n \in Nat, m <= n, NEW s \in Seq(1..m)
  PROVE  s \in Seq(1..n)
<1>1. Len(s) \in Nat /\ s \in [1..Len(s) -> 1..m]
  BY LenProperties
<1>2. s \in [1..Len(s) -> 1..n]
  BY <1>1
<1> QED BY <1>1, <1>2, SeqDef

\* What is downloaded is of a published version.
LEMMA WholeIsPublished ==
  ASSUME NEW v \in Versions, NEW n \in Nat
  PROVE  /\ v <= n => Whole(v) \in Seq(1..n)
         /\ Whole(v) \in Seq(1..n) => v <= n
         /\ Whole(v) # << >> /\ Whole(v)[1] = v
<1>1. Size[v] \in Nat \ {0} /\ v \in Nat \ {0}
  BY UpdaterBounds DEF Versions
<1>2. Whole(v) = [i \in 1..Size[v] |-> v] /\ DOMAIN Whole(v) = 1..Size[v]
  BY DEF Whole
<1>3. ASSUME v <= n PROVE Whole(v) \in Seq(1..n)
  <2>1. Whole(v) \in [1..Size[v] -> 1..n]
    BY <1>1, <1>2, <1>3
  <2> QED BY <1>1, <2>1, SeqDef
<1>4. Whole(v)[1] = v /\ 1 \in DOMAIN Whole(v)
  BY <1>1, <1>2
<1>5. ASSUME Whole(v) \in Seq(1..n) PROVE v <= n
  <2>1. DOMAIN Whole(v) = 1..Len(Whole(v))
    BY <1>5, LenProperties
  <2>2. Whole(v)[1] \in 1..n
    BY <1>4, <1>5, <2>1, ElementOfSeq
  <2> QED BY <1>4, <2>2
<1>6. Whole(v) # << >>
  <2>1. DOMAIN Whole(v) # {}
    BY <1>4
  <2> QED BY <2>1
<1> QED BY <1>3, <1>4, <1>5, <1>6

\* A step that downloads nothing but what is published keeps it.
LEMMA PublishedKept ==
  ASSUME Typed, OnlyPublished, UNCHANGED published,
         \A u \in Updaters : want'[u] \in {0, want[u], published},
         \A f \in File : \/ files'[f].blocks = files[f].blocks
                         \/ files'[f].blocks \in Seq(1..published)
  PROVE  OnlyPublished'
<1>1. published \in Nat /\ \A u \in Updaters : want'[u] <= published
  <2>1. published \in Nat
    BY UpdaterBounds DEF Typed, TypeOK, Versions
  <2>2. \A u \in Updaters : want[u] <= published
    BY DEF OnlyPublished
  <2> QED BY <2>1, <2>2
<1>2. \A f \in File : files'[f].blocks \in Seq(1..published)
  BY DEF OnlyPublished
<1> QED BY <1>1, <1>2 DEF OnlyPublished

\* The version that is told, and the files that are written.
LEMMA PublishedKeptSteps ==
  ASSUME Typed, OnlyPublished, NEW u \in Updaters, UpdaterStep(u)
  PROVE  /\ UNCHANGED published
         /\ \A w \in Updaters : want'[w] \in {0, want[w], published}
         /\ \A f \in File : \/ files'[f].blocks = files[f].blocks
                            \/ files'[f].blocks \in Seq(1..published)
<1> DEFINE NothingNew ==
      UNCHANGED published /\ \A w \in Updaters : want'[w] \in {0, want[w], published}
<1>1. CASE FetchChecksum(u)
  <2>1. UNCHANGED <<published, files>>
    BY <1>1 DEF FetchChecksum, disk
  <2>2. want' = [want EXCEPT ![u] = published] \/ UNCHANGED want
    BY <1>1 DEF FetchChecksum
  <2> QED BY <2>1, <2>2 DEF Typed, TypeOK
<1>2. CASE HashCurrent(u) \/ Download(u) \/ Rename(u) \/ RemoveTmp(u)
  BY <1>2 DEF HashCurrent, Download, Rename, RemoveTmp, disk
<1>3. CASE Ends(u)
  BY <1>3 DEF Ends, disk, Typed, TypeOK
<1>4. CASE Restart(u)
  BY <1>4 DEF Restart, Kill, disk
<1>5. << >> \in Seq(1..published) /\ Blank.blocks = << >>
      /\ \A e : [Blank EXCEPT !.exec = e].blocks = << >>
  BY EmptySeq DEF Blank
<1>6. CASE OpenTmp(u)
  <2> DEFINE f == IF path["tmp"] = 0 THEN Fresh ELSE path["tmp"]
             b == [Blank EXCEPT !.exec = path["tmp"] # 0 /\ files[f].exec]
  <2>1. UNCHANGED <<published, want>> /\ files' = [files EXCEPT ![f] = b]
    BY <1>6 DEF OpenTmp
  <2>2. b.blocks \in Seq(1..published)
    BY <1>5
  <2> HIDE DEF f, b
  <2> QED BY <2>1, <2>2 DEF Typed, TypeOK
<1>7. CASE CopyOpens(u)
  <2> DEFINE b == [Blank EXCEPT !.exec = files[path["tmp"]].exec]
  <2>1. UNCHANGED <<published, want>>
        /\ (UNCHANGED files \/ files' = [files EXCEPT ![path["binary"]] = b])
    BY <1>7 DEF CopyOpens
  <2>2. b.blocks \in Seq(1..published)
    BY <1>5
  <2> HIDE DEF b
  <2> QED BY <2>1, <2>2 DEF Typed, TypeOK
<1>8. ASSUME NEW f, NEW b \in Seq(1..published), files' = [files EXCEPT ![f].blocks = b]
      PROVE  \A g \in File : \/ files'[g].blocks = files[g].blocks
                             \/ files'[g].blocks \in Seq(1..published)
  BY <1>8 DEF Typed, TypeOK
<1>9. CASE WriteTmp(u)
  <2>1. open[u] \in File /\ want[u] \in Versions /\ want[u] <= published
        /\ published \in Nat
    <3>1. open[u] # 0 /\ want[u] # 0 /\ want[u] \in 0..MaxVersion /\ TypeOK
      BY <1>9 DEF WriteTmp, Typed, TypeOK, Has
    <3>2. open[u] \in File
      BY <3>1, PathsInUse
    <3>3. want[u] \in Versions /\ published \in Nat
      BY <3>1, UpdaterBounds DEF TypeOK, Versions
    <3> QED BY <3>2, <3>3 DEF OnlyPublished
  <2>2. Whole(want[u]) \in Seq(1..published) /\ files[open[u]].blocks \in Seq(1..published)
    BY <2>1, WholeIsPublished DEF OnlyPublished
  <2>3. PICK b \in Seq(1..published) : b = Over(files[open[u]].blocks, Whole(want[u]))
    BY <2>2, Overwritten
  <2>4. UNCHANGED <<published, want>>
        /\ (UNCHANGED files \/ files' = [files EXCEPT ![open[u]].blocks = b])
    BY <1>9, <2>3 DEF WriteTmp
  <2> QED BY <1>8, <2>4
<1>10. CASE CopyData(u)
  <2>1. open[u] \in File /\ source[u] \in File
    BY <1>10, PathsInUse DEF CopyData, Typed, Has
  <2>2. PICK b \in Seq(1..published) :
          b = Over(files[open[u]].blocks, files[source[u]].blocks)
    BY <2>1, Overwritten DEF OnlyPublished
  <2>3. UNCHANGED <<published, want>>
        /\ (UNCHANGED files \/ files' = [files EXCEPT ![open[u]].blocks = b])
    BY <1>10, <2>2 DEF CopyData
  <2> QED BY <1>8, <2>3
<1>11. ASSUME NEW f, files' = [files EXCEPT ![f].exec = TRUE]
       PROVE  \A g \in File : files'[g].blocks = files[g].blocks
  BY <1>11 DEF Typed, TypeOK
<1>12. CASE Chmod(u)
  BY <1>11, <1>12 DEF Chmod
<1>13. CASE ChmodBinary(u)
  BY <1>11, <1>13 DEF ChmodBinary
<1> QED BY <1>1, <1>2, <1>3, <1>4, <1>6, <1>7, <1>9, <1>10, <1>12, <1>13 DEF UpdaterStep

\* Every step keeps it.
LEMMA PublishedStep ==
  ASSUME Typed, OnlyPublished, [Next]_vars
  PROVE  OnlyPublished'
<1>1. CASE UNCHANGED vars \/ (\E u \in Tasks : TaskBegins(u)) \/ CliBegins \/ AgentStarts
  BY <1>1, PublishedKept DEF vars, TaskBegins, CliBegins, AgentStarts, disk, local
<1>2. CASE Publish
  <2>1. published \in Nat /\ published' = published + 1 /\ UNCHANGED <<want, files>>
    BY <1>2 DEF Publish, disk, local, Typed, TypeOK, Versions
  <2>2. \A u \in Updaters : want[u] \in Nat
    BY UpdaterBounds DEF Typed, TypeOK
  <2>3. \A f \in File : files[f].blocks \in Seq(1..(published + 1))
    BY <2>1, PublishedGrow DEF OnlyPublished
  <2> QED BY <2>1, <2>2, <2>3 DEF OnlyPublished
<1>3. CASE AgentDies \/ CliDies
  <2>1. UNCHANGED <<published, files>>
        /\ \A u \in Updaters : want'[u] \in {0, want[u]}
    BY <1>3 DEF AgentDies, CliDies, Kill, disk
  <2> QED BY <2>1, PublishedKept
<1>4. ASSUME NEW u \in Updaters, UpdaterStep(u) PROVE OnlyPublished'
  BY <1>4, PublishedKept, PublishedKeptSteps
<1> QED BY <1>1, <1>2, <1>3, <1>4 DEF Next

\* At first there is the first version, no updater writes and none is wanted.
LEMMA ContractInitially == Init => TextBusy /\ OnlyPublished
<1> SUFFICES ASSUME Init PROVE TextBusy /\ OnlyPublished
  OBVIOUS
<1>1. 1 \in Versions /\ 1 \in Nat
  BY UpdaterBounds DEF Versions
<1>2. Whole(1) \in Seq(1..1) /\ << >> \in Seq(1..1)
  BY <1>1, WholeIsPublished, EmptySeq
<1>3. \A f \in File : files[f].blocks \in Seq(1..published)
  BY <1>2 DEF Init, Blank
<1> QED BY <1>3 DEF Init, TextBusy, OnlyPublished

\* The version that a file is.
LEMMA VersionFound ==
  ASSUME NEW c
  PROVE  /\ \A v \in Versions : c.exec /\ c.blocks = Whole(v) => VersionIn(c) = v
         /\ VersionIn(c) # 0 =>
              /\ c.exec /\ c.blocks = Whole(VersionIn(c)) /\ VersionIn(c) \in Versions
         /\ c.blocks = << >> => VersionIn(c) = 0
<1>1. ASSUME NEW v \in Versions, c.exec, c.blocks = Whole(v) PROVE VersionIn(c) = v
  <2>1. \A w \in Versions : c.blocks = Whole(w) <=> w = v
    <3>1. ASSUME NEW w \in Versions PROVE Whole(w)[1] = w
      BY WholeIsPublished
    <3> QED BY <1>1, <3>1
  <2>2. VersionIn(c) = CHOOSE w \in Versions : c.blocks = Whole(w)
    BY <1>1 DEF VersionIn
  <2> QED BY <2>1, <2>2
<1>2. ASSUME VersionIn(c) # 0 PROVE c.exec /\ \E v \in Versions : c.blocks = Whole(v)
  BY <1>2 DEF VersionIn
<1>3. ASSUME c.blocks = << >> PROVE VersionIn(c) = 0
  <2>1. \A v \in Versions : c.blocks # Whole(v)
    BY <1>3, WholeIsPublished
  <2> QED BY <2>1 DEF VersionIn
<1> QED BY <1>1, <1>2, <1>3

\* A whole file of published versions is one of them.
LEMMA WholeIsAVersion ==
  ASSUME NEW c, c.exec, NEW v \in Versions, c.blocks = Whole(v),
         NEW n \in Nat, c.blocks \in Seq(1..n)
  PROVE  VersionIn(c) \in 1..n
<1>1. v \in Nat \ {0} /\ v <= n
  BY UpdaterBounds, WholeIsPublished DEF Versions
<1> QED BY <1>1, VersionFound

\* What the contract sees.
Copying == \E u \in Updaters : step[u] = "copying"
SeenInstalled == VersionOf(path["binary"])
SeenRunning == VersionOf(exe["agent"])

\* What the agent executes keeps its version if who writes leaves what is executed alone.
LEMMA RunningKept ==
  ASSUME Typed, UNCHANGED exe,
         \A f \in File : Executed(f) => files'[f] = files[f]
  PROVE  UNCHANGED SeenRunning
<1>1. exe["agent"] = 0 \/ exe["agent"] \in File
  BY UpdaterBounds DEF Typed, TypeOK, File
<1>2. CASE exe["agent"] = 0
  BY <1>2 DEF SeenRunning, VersionOf
<1>3. CASE exe["agent"] \in File
  <2>1. files'[exe["agent"]] = files[exe["agent"]]
    BY <1>3 DEF Executed
  <2> QED BY <2>1 DEF SeenRunning, VersionOf
<1> QED BY <1>1, <1>2, <1>3

\* So does what is installed.
LEMMA InstalledKept ==
  ASSUME path'["binary"] = path["binary"],
         files'[path["binary"]] = files[path["binary"]]
  PROVE  UNCHANGED SeenInstalled
BY DEF SeenInstalled, VersionOf

\* Who is alone begins to copy, or ends, and nobody else.
LEMMA CopyingIs ==
  ASSUME Typed, NEW u \in Updaters, NEW s, Goes(u, s),
         \A w \in Updaters : w # u => step[w] # "copying"
  PROVE  /\ Copying <=> step[u] = "copying"
         /\ Copying' <=> s = "copying"
BY DEF Typed, TypeOK, Copying, Goes

\* The steps of one updater as the contract sees them.
Stutters == UNCHANGED <<published, SeenInstalled, Copying, SeenRunning>>
Installs ==
  /\ SeenInstalled' \in 1..published /\ ~Copying'
  /\ UNCHANGED <<published, SeenRunning>>
BeginsToCopy ==
  /\ ~Copying /\ Copying' /\ SeenInstalled' = 0
  /\ UNCHANGED <<published, SeenRunning>>

\* Who prepares the temporary file is not seen.
LEMMA PreparesUnseen ==
  ASSUME Typed, Intact, TextBusy, NEW u \in Updaters,
         OpenTmp(u) \/ WriteTmp(u) \/ Chmod(u), ~raced', ~torn'
  PROVE  Stutters
<1>1. /\ UNCHANGED <<published, exe>> /\ path'["binary"] = path["binary"]
      /\ step[u] # "copying" /\ \E s : Goes(u, s) /\ s # "copying"
  BY DEF OpenTmp, WriteTmp, Chmod, Fails, Typed, TypeOK
<1>2. ~raced /\ ~torn /\ \A w \in Updaters : w # u => step[w] # "copying"
  <2>1. CASE OpenTmp(u)
    BY <2>1 DEF OpenTmp, Replacing
  <2>2. CASE WriteTmp(u) \/ Chmod(u)
    <3>1. ~raced /\ ~torn /\ step[u] \in Replacing
      BY <2>2 DEF WriteTmp, Chmod, Replacing, history
    <3> QED BY <3>1, NobodyElse DEF Replacing
  <2> QED BY <2>1, <2>2
<1>3. UNCHANGED Copying
  BY <1>1, <1>2, CopyingIs DEF Copying
<1>4. ASSUME NEW f, f # path["binary"], ~Executed(f),
             \A g \in File : g # f => files'[g] = files[g]
      PROVE  Stutters
  <2>1. UNCHANGED SeenInstalled
    BY <1>1, <1>4, InstalledKept, PathsInUse DEF Typed
  <2>2. UNCHANGED SeenRunning
    BY <1>1, <1>4, RunningKept
  <2> QED BY <1>1, <1>3, <2>1, <2>2 DEF Stutters
<1>5. path["tmp"] # 0 => path["tmp"] # path["binary"] /\ ~Executed(path["tmp"])
  BY DEF Typed, TextBusy
<1>6. CASE OpenTmp(u)
  <2> DEFINE f == IF path["tmp"] = 0 THEN Fresh ELSE path["tmp"]
  <2>1. f # path["binary"] /\ ~Executed(f)
    BY <1>5, <1>6, FreshFile DEF OpenTmp, Executed, InUse
  <2>2. \A g \in File : g # f => files'[g] = files[g]
    BY <1>6 DEF OpenTmp, Typed, TypeOK
  <2> HIDE DEF f
  <2> QED BY <1>4, <2>1, <2>2
<1>7. CASE WriteTmp(u)
  <2>1. open[u] = path["tmp"] /\ path["tmp"] # 0
    BY <1>2, <1>7, NobodyElse DEF WriteTmp, Stage, Replacing, Typed, Has
  <2>2. \A g \in File : g # path["tmp"] => files'[g] = files[g]
    BY <1>7, <2>1 DEF WriteTmp, Typed, TypeOK
  <2> QED BY <1>4, <1>5, <2>1, <2>2
<1>8. CASE Chmod(u)
  <2>1. path["tmp"] # 0
    BY <1>2, <1>8, NobodyElse DEF Chmod, Stage, Replacing
  <2>2. \A g \in File : g # path["tmp"] => files'[g] = files[g]
    BY <1>8, <2>1 DEF Chmod, Typed, TypeOK
  <2> QED BY <1>4, <1>5, <2>1, <2>2
<1> QED BY <1>6, <1>7, <1>8

\* Who has prepared it installs it at once, or copies it over the binary.
LEMMA InstallsSeen ==
  ASSUME Typed, Intact, TextBusy, OnlyPublished,
         Typed', Intact', OnlyPublished', NEW u \in Updaters,
         \/ Rename(u) \/ CopyOpens(u) \/ CopyData(u) \/ ChmodBinary(u) \/ RemoveTmp(u),
         ~raced', ~torn'
  PROVE  Stutters \/ Installs \/ BeginsToCopy
<1>1. UNCHANGED <<published, exe>> /\ ~raced /\ ~torn /\ step[u] \in Replacing
  BY DEF Rename, CopyOpens, CopyData, ChmodBinary, RemoveTmp, Replacing, history
<1>2. /\ Stage(u) /\ \A w \in Updaters : w # u => step[w] # "copying"
      /\ step[u] # "copying" => IsWhole(path["binary"])
  BY <1>1, NobodyElse DEF Replacing
<1>3. path["binary"] \in File /\ path'["binary"] \in File /\ path'["binary"] # 0
  <2>1. /\ path["binary"] \in 0..Files /\ path["binary"] # 0
        /\ path'["binary"] \in 0..Files /\ path'["binary"] # 0
    BY DEF Typed, TypeOK
  <2> QED BY <2>1, UpdaterBounds DEF File
<1>4. ASSUME UNCHANGED files, path'["binary"] = path["binary"], step[u] # "copying",
             NEW s, Goes(u, s), s # "copying"
      PROVE  Stutters
  <2>1. UNCHANGED Copying
    BY <1>2, <1>4, CopyingIs DEF Copying
  <2> QED BY <1>1, <1>4, <2>1, InstalledKept, RunningKept DEF Stutters
<1>5. ASSUME NEW s, Goes(u, s), s # "copying", UNCHANGED SeenRunning PROVE Installs
  <2>1. ~Copying'
    BY <1>2, <1>5, CopyingIs
  <2>2. IsWhole(path["binary"])'
    BY <2>1 DEF Intact, Copying
  <2>3. SeenInstalled' \in 1..published
    <3> DEFINE c == files'[path'["binary"]]
    <3>1. PICK v \in Versions : c.exec /\ c.blocks = Whole(v)
      BY <2>2 DEF IsWhole
    <3>2. published \in Nat /\ c.blocks \in Seq(1..published)
      BY <1>1, <1>3, UpdaterBounds DEF OnlyPublished, Typed, TypeOK, Versions
    <3>3. SeenInstalled' = VersionIn(c)
      BY <1>3 DEF SeenInstalled, VersionOf
    <3> HIDE DEF c
    <3> QED BY <3>1, <3>2, <3>3, WholeIsAVersion
  <2> QED BY <1>1, <1>5, <2>1, <2>3 DEF Installs
<1>6. CASE Rename(u)
  <2>1. step[u] # "copying" /\ UNCHANGED files
    BY <1>6 DEF Rename
  <2>2. UNCHANGED SeenRunning
    BY <1>1, <2>1, RunningKept
  <2> QED BY <1>5, <1>6, <2>2 DEF Rename
<1>7. CASE CopyOpens(u)
  <2>1. step[u] # "copying" /\ UNCHANGED path
    BY <1>7 DEF CopyOpens
  <2>2. CASE UNCHANGED files /\ (Goes(u, "failed") \/ Goes(u, "busy"))
    BY <1>4, <2>1, <2>2
  <2>3. CASE /\ ~Executed(path["binary"]) /\ Goes(u, "copying")
             /\ files' = [files EXCEPT ![path["binary"]] =
                            [Blank EXCEPT !.exec = files[path["tmp"]].exec]]
    <3>1. ~Copying /\ Copying'
      BY <1>2, <2>1, <2>3, CopyingIs
    <3>2. UNCHANGED SeenRunning
      BY <1>1, <2>3, RunningKept DEF Typed, TypeOK
    <3>3. files'[path'["binary"]].blocks = << >>
      BY <1>3, <2>1, <2>3 DEF Blank, Typed, TypeOK
    <3>4. SeenInstalled' = 0
      BY <3>3, VersionFound DEF SeenInstalled, VersionOf
    <3> QED BY <1>1, <3>1, <3>2, <3>4 DEF BeginsToCopy
  <2> QED BY <1>7, <2>2, <2>3 DEF CopyOpens
<1>8. CASE CopyData(u)
  <2>1. /\ files' = [files EXCEPT ![open[u]].blocks = Over(@, files[source[u]].blocks)]
        /\ Goes(u, "chmod_binary") /\ open[u] # 0
    BY <1>8 DEF CopyData, Typed, Has
  <2>2. \A f \in File : Executed(f) => files'[f] = files[f]
    BY <2>1 DEF TextBusy, Typed, TypeOK
  <2> QED BY <1>1, <1>5, <2>1, <2>2, RunningKept
<1>9. CASE ChmodBinary(u)
  <2>1. step[u] # "copying" /\ files[path["binary"]].exec /\ UNCHANGED path
    BY <1>2, <1>9 DEF ChmodBinary, IsWhole
  <2>2. files = [files EXCEPT ![path["binary"]].exec = TRUE]
    BY <1>3, <2>1 DEF Typed, TypeOK
  <2>3. UNCHANGED files /\ (Goes(u, "remove") \/ Goes(u, "failed"))
    BY <1>9, <2>2 DEF ChmodBinary, Fails
  <2> QED BY <1>4, <2>1, <2>3
<1>10. CASE RemoveTmp(u)
  BY <1>4, <1>10 DEF RemoveTmp, Typed, TypeOK
<1> QED BY <1>6, <1>7, <1>8, <1>9, <1>10

\* What does not touch the files is seen when something is published, or when the
\* agent starts or ends.
LEMMA HarmlessSeen ==
  ASSUME Typed, Intact, Harmless, [Next]_vars, ~raced', ~torn'
  PROVE  /\ UNCHANGED <<SeenInstalled, Copying>>
         /\ \/ UNCHANGED <<published, exe["agent"]>>
            \/ Publish \/ AgentStarts
            \/ exe'["agent"] = 0 /\ UNCHANGED published
<1>1. UNCHANGED <<SeenInstalled, Copying>>
  <2>1. Copying' <=> Copying
    BY DEF Harmless, Copying, Replacing
  <2>2. UNCHANGED Copying
    BY <2>1 DEF Copying
  <2> QED BY <2>2, InstalledKept DEF Harmless
<1>2. \/ UNCHANGED <<published, exe["agent"]>>
      \/ Publish \/ AgentStarts
      \/ exe'["agent"] = 0 /\ UNCHANGED published
  <2> USE DEF Typed, TypeOK
  <2>1. CASE UNCHANGED vars \/ Publish \/ AgentStarts
    BY <2>1 DEF vars
  <2>2. CASE (\E u \in Tasks : TaskBegins(u)) \/ CliBegins
    BY <2>2 DEF TaskBegins, CliBegins
  <2>3. CASE AgentDies \/ CliDies
    BY <2>3 DEF AgentDies, CliDies
  <2>4. ASSUME NEW u \in Updaters, Restart(u) \/ Ends(u)
        PROVE  UNCHANGED published /\ exe'["agent"] \in {0, exe["agent"]}
    BY <2>4 DEF Restart, Ends
  <2>5. ASSUME NEW u \in Updaters,
               \/ FetchChecksum(u) \/ HashCurrent(u) \/ Download(u)
               \/ OpenTmp(u) \/ WriteTmp(u) \/ Chmod(u) \/ Rename(u) \/ CopyOpens(u)
               \/ CopyData(u) \/ ChmodBinary(u) \/ RemoveTmp(u)
        PROVE  UNCHANGED <<published, exe>>
    BY <2>5 DEF FetchChecksum, HashCurrent, Download, OpenTmp, WriteTmp, Chmod,
       Rename, CopyOpens, CopyData, ChmodBinary, RemoveTmp
  <2> QED BY <2>1, <2>2, <2>3, <2>4, <2>5 DEF Next, UpdaterStep
<1> QED BY <1>1, <1>2

\* The version of what starts is the one that is installed.
LEMMA AgentStartsSeen ==
  ASSUME AgentStarts, Typed
  PROVE  /\ SeenRunning = 0 /\ SeenInstalled # 0 /\ SeenRunning' = SeenInstalled
         /\ UNCHANGED published
<1>1. /\ exe["agent"] = 0 /\ exe'["agent"] = path["binary"]
      /\ UNCHANGED <<files, path, published>>
  BY DEF AgentStarts, disk, Typed, TypeOK
<1>2. PICK v \in Versions : Installed.exec /\ Installed.blocks = Whole(v)
  BY DEF AgentStarts, Startable
<1>3. path["binary"] # 0 /\ v # 0
  BY UpdaterBounds DEF Typed, TypeOK, Versions
<1>4. SeenInstalled = v
  BY <1>2, <1>3, VersionFound DEF SeenInstalled, VersionOf, Installed
<1> QED BY <1>1, <1>3, <1>4 DEF SeenRunning, SeenInstalled, VersionOf

\* Every step is one of the contract or leaves its variables alone.
LEMMA ContractStep ==
  ASSUME Typed, Intact, TextBusy, OnlyPublished,
         Typed', Intact', OnlyPublished', [Next]_vars
  PROVE  [Contract!Next]_(Contract!vars)
<1>1. CASE raced' \/ torn'
  BY <1>1 DEF Contract!Next, Contract!Spoil
<1>2. SUFFICES ASSUME ~raced', ~torn' PROVE [Contract!Next]_(Contract!vars)
  BY <1>1
<1>3. CASE \E u \in Updaters :
             \/ OpenTmp(u) \/ WriteTmp(u) \/ Chmod(u) \/ Rename(u) \/ CopyOpens(u)
             \/ CopyData(u) \/ ChmodBinary(u) \/ RemoveTmp(u)
  <2>1. ~raced /\ ~torn
    <3>1. ASSUME NEW u \in Updaters, OpenTmp(u) PROVE ~raced /\ ~torn
      BY <1>2, <3>1 DEF OpenTmp
    <3>2. ASSUME NEW u \in Updaters, CopyData(u) PROVE ~raced /\ ~torn
      BY <1>2, <3>2 DEF CopyData
    <3>3. ASSUME NEW u \in Updaters,
                 \/ WriteTmp(u) \/ Chmod(u) \/ Rename(u) \/ CopyOpens(u)
                 \/ ChmodBinary(u) \/ RemoveTmp(u)
          PROVE  ~raced /\ ~torn
      BY <1>2, <3>3 DEF WriteTmp, Chmod, Rename, CopyOpens, ChmodBinary, RemoveTmp,
         history
    <3> QED BY <1>3, <3>1, <3>2, <3>3
  <2>2. Stutters \/ Installs \/ BeginsToCopy
    BY <1>2, <1>3, PreparesUnseen, InstallsSeen
  <2>3. CASE Stutters
    BY <1>2, <2>1, <2>3
       DEF Stutters, SeenInstalled, SeenRunning, Copying, Contract!vars
  <2>4. CASE Installs
    BY <1>2, <2>1, <2>4
       DEF Installs, SeenInstalled, SeenRunning, Copying, Contract!Next, Contract!Install
  <2>5. CASE BeginsToCopy
    BY <1>2, <2>1, <2>5
       DEF BeginsToCopy, SeenInstalled, SeenRunning, Copying, Contract!Next,
       Contract!BeginCopy
  <2> QED BY <2>2, <2>3, <2>4, <2>5
<1>4. CASE Harmless
  <2>1. ~raced /\ ~torn
    BY <1>2, <1>4 DEF Harmless
  <2>2. UNCHANGED <<SeenInstalled, Copying>> /\ UNCHANGED files
    BY <1>2, <1>4, HarmlessSeen DEF Harmless
  <2>3. CASE UNCHANGED <<published, exe["agent"]>>
    BY <1>2, <2>1, <2>2, <2>3
       DEF SeenInstalled, Copying, VersionOf, Contract!vars
  <2>4. CASE Publish
    BY <1>2, <2>1, <2>2, <2>4
       DEF SeenInstalled, Copying, VersionOf, Publish, Contract!Next, Contract!Publish
  <2>5. CASE AgentStarts
    BY <1>2, <2>1, <2>2, <2>5, AgentStartsSeen
       DEF SeenInstalled, SeenRunning, Copying, Contract!Next, Contract!Start
  <2>6. CASE exe'["agent"] = 0 /\ UNCHANGED published
    BY <1>2, <2>1, <2>2, <2>6
       DEF SeenInstalled, Copying, VersionOf, Contract!Next, Contract!Stop
  <2> QED BY <1>2, <1>4, <2>3, <2>4, <2>5, <2>6, HarmlessSeen
<1> QED BY <1>3, <1>4, HarmlessSteps DEF Next, UpdaterStep

\* The first version is installed at first, and not yet run.
LEMMA ContractSeesInit == Init => Contract!Init
<1> SUFFICES ASSUME Init PROVE Contract!Init
  OBVIOUS
<1>1. 1 \in Versions /\ 1 \in File /\ 1 # 0
  BY UpdaterBounds DEF Versions, File
<1>2. VersionOf(path["binary"]) = 1
  BY <1>1, VersionFound DEF Init, VersionOf
<1> QED BY <1>2 DEF Init, Contract!Init, VersionOf

\* Updaters keep their contract: the binary is replaced as a whole, by something
\* published, and the file the agent executes is not written to.
THEOREM UpdatesKeepContract == Spec => InstallsAtomically
<1>1. Init /\ [][Next]_vars => [](Typed /\ Intact /\ TextBusy /\ OnlyPublished)
  BY TypedInitially, IntactInitially, ContractInitially, TypedStep, IntactStep,
     BusyStep, PublishedStep, PTL
<1> QED BY <1>1, ContractSeesInit, ContractStep, PTL
        DEF Spec, InstallsAtomically, Contract!Spec
=============================================================================
