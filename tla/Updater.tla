------------------------------ MODULE Updater ------------------------------
(***************************************************************************)
(* Self-update (src/src/updater.rs): every updater asks the backend for a  *)
(* checksum, hashes the installed binary, downloads, writes /tmp/nobase-   *)
(* update, makes it executable, renames it over the binary, or copies it   *)
(* where renaming fails, and has systemd restart the agent.  The agent     *)
(* runs one after each connection and one for each self_update request;    *)
(* they outlive connections but not the process.  nobase update runs one   *)
(* in a process of its own.                                                *)
(*                                                                         *)
(* A version stands for its bytes and for their checksum; Size says how    *)
(* many blocks it has.  External, from Linux and systemd: a file that is   *)
(* executed cannot be opened for writing, nor a file open for writing be   *)
(* executed ("text file busy"); the unit has Restart=always.               *)
(***************************************************************************)
EXTENDS Naturals, Sequences, FiniteSets

CONSTANTS
  Tasks,        \* updaters in the agent's process
  Check,        \* the one among them that follows a connection
  Cli,          \* the updater of nobase update
  MaxVersion,   \* bound: versions, 1 is installed at first
  Size,         \* blocks of a version
  Files,        \* bound: files in use at a time, numbered from 1
  MaxErrors     \* bound: failing calls and killed processes

ASSUME UpdaterNames == Check \in Tasks /\ Cli \notin Tasks
ASSUME UpdaterBounds ==
  /\ MaxVersion \in Nat \ {0} /\ Files \in Nat \ {0} /\ MaxErrors \in Nat
  /\ Size \in [1..MaxVersion -> Nat \ {0}]

VARIABLES
  published,  \* the version the backend serves
  step,       \* where each updater is
  want,       \* the checksum it was told, then what it has downloaded
  open,       \* the file it writes, 0 for none
  source,     \* the file it copies from, 0 for none
  files,      \* the files
  path,       \* what TMP_PATH and BINARY_PATH name, 0 for nothing
  exe,        \* the file each process executes, 0 if it does not run
  due,        \* the agent has yet to connect and check
  crossDevice,  \* /tmp is another filesystem
  errors,
  \* history, read by no action's guard
  raced,      \* two updaters were replacing the binary at once
  torn,       \* a copy over the binary was cut short
  unrestarted \* an installed binary was left without a restart

local == <<step, want, open, source>>
disk == <<files, path>>
history == <<raced, torn, unrestarted>>
vars == <<published, local, disk, exe, due, crossDevice, errors, history>>

Updaters == Tasks \cup {Cli}
Versions == 1..MaxVersion
File == 1..Files
Blank == [blocks |-> << >>, exec |-> FALSE]

Ended == {"idle", "up_to_date", "failed", "busy", "updated"}
Replacing == {"write", "chmod", "rename", "copy", "copying", "chmod_binary",
              "remove"}
Step == {"ask", "hash", "download", "open", "restart"} \cup Ended \cup Replacing

TypeOK ==
  /\ published \in Versions
  /\ step \in [Updaters -> Step]
  /\ want \in [Updaters -> 0..MaxVersion]
  /\ open \in [Updaters -> 0..Files]
  /\ source \in [Updaters -> 0..Files]
  /\ files \in [File -> [blocks : Seq(Versions), exec : BOOLEAN]]
  /\ path \in [{"tmp", "binary"} -> 0..Files] /\ path["binary"] # 0
  /\ exe \in [{"agent", "cli"} -> 0..Files]
  /\ due \in BOOLEAN /\ crossDevice \in BOOLEAN
  /\ errors \in 0..MaxErrors
  /\ raced \in BOOLEAN /\ torn \in BOOLEAN /\ unrestarted \in BOOLEAN

Whole(v) == [i \in 1..Size[v] |-> v]
Installed == files[path["binary"]]

Init ==
  /\ published = 1
  /\ step = [u \in Updaters |-> "idle"]
  /\ want = [u \in Updaters |-> 0]
  /\ open = [u \in Updaters |-> 0]
  /\ source = [u \in Updaters |-> 0]
  /\ files = [f \in File |->
                IF f = 1 THEN [blocks |-> Whole(1), exec |-> TRUE] ELSE Blank]
  /\ path = [p \in {"tmp", "binary"} |-> IF p = "binary" THEN 1 ELSE 0]
  /\ exe = [p \in {"agent", "cli"} |-> 0]
  /\ due = FALSE
  /\ crossDevice \in BOOLEAN
  /\ errors = 0
  /\ raced = FALSE /\ torn = FALSE /\ unrestarted = FALSE

Goes(u, s) == step' = [step EXCEPT ![u] = s]
Error == errors < MaxErrors /\ errors' = errors + 1

\* A call of u fails and it returns an error.
Fails(u) == Error /\ Goes(u, "failed")

InUse ==
  {path["tmp"], path["binary"], exe["agent"], exe["cli"]}
    \cup {open[u] : u \in Updaters} \cup {source[u] : u \in Updaters}
Fresh == CHOOSE f \in File : f \notin InUse

\* Writing b at the start of a file that has a.
Over(a, b) ==
  [i \in 1..(IF Len(a) > Len(b) THEN Len(a) ELSE Len(b)) |->
     IF i <= Len(b) THEN b[i] ELSE a[i]]

Executed(f) == f \in {exe["agent"], exe["cli"]}
Written(f) == \E u \in Updaters : open[u] = f

Startable ==
  /\ Installed.exec /\ ~Written(path["binary"])
  /\ \E v \in Versions : Installed.blocks = Whole(v)

-----------------------------------------------------------------------------
Publish ==
  /\ published < MaxVersion
  /\ published' = published + 1
  /\ UNCHANGED <<local, disk, exe, due, crossDevice, errors, history>>

(* An updater begins: 5 s after a connection, for a request, or when root  *)
(* runs the installed binary, or another copy of it.                       *)

TaskBegins(u) ==
  /\ step[u] = "idle" /\ exe["agent"] # 0
  /\ Goes(u, "ask")
  /\ due' = (due /\ u # Check)
  /\ UNCHANGED <<published, want, open, source, disk, exe, crossDevice, errors, history>>

CliBegins ==
  /\ step[Cli] = "idle"
  /\ Goes(Cli, "ask")
  /\ \/ UNCHANGED exe
     \/ Startable /\ exe' = [exe EXCEPT !["cli"] = path["binary"]]
  /\ UNCHANGED <<published, want, open, source, disk, due, crossDevice, errors, history>>

-----------------------------------------------------------------------------
(* check_and_update                                                        *)

FetchChecksum(u) ==
  /\ step[u] = "ask"
  /\ \/ Goes(u, "hash") /\ want' = [want EXCEPT ![u] = published]
        /\ UNCHANGED errors
     \/ Goes(u, "up_to_date") /\ Error /\ UNCHANGED want   \* 404
     \/ Fails(u) /\ UNCHANGED want
  /\ UNCHANGED <<published, open, source, disk, exe, due, crossDevice, history>>

HashTrustsTheName(u) ==
  /\ step[u] = "hash"
  /\ Goes(u, IF path["binary"] # 0 THEN "up_to_date" ELSE "download")
  /\ UNCHANGED <<published, want, open, source, disk, exe, due, crossDevice,
                 errors, history>>

HashCurrent(u) ==
  /\ step[u] = "hash"
  /\ Goes(u, IF path["binary"] # 0 /\ Installed.blocks = Whole(want[u])
             THEN "up_to_date" ELSE "download")
  /\ UNCHANGED <<published, want, open, source, disk, exe, due, crossDevice, errors,
                 history>>

\* What is served by now has to have the checksum of before.
Download(u) ==
  /\ step[u] = "download"
  /\ \/ Goes(u, IF published = want[u] THEN "open" ELSE "failed")
        /\ UNCHANGED errors
     \/ Fails(u)
  /\ UNCHANGED <<published, want, open, source, disk, exe, due, crossDevice, history>>

\* write: the file TMP_PATH names is truncated, or a new one made.
OpenTmp(u) ==
  /\ step[u] = "open"
  /\ path["tmp"] # 0 \/ ~(File \subseteq InUse)
  /\ LET f == IF path["tmp"] = 0 THEN Fresh ELSE path["tmp"] IN
     /\ files' = [files EXCEPT ![f] =
          [Blank EXCEPT !.exec = path["tmp"] # 0 /\ files[f].exec]]
     /\ path' = [path EXCEPT !["tmp"] = f]
     /\ open' = [open EXCEPT ![u] = f]
  /\ Goes(u, "write")
  /\ raced' = (raced \/ \E w \in Updaters \ {u} : step[w] \in Replacing)
  /\ UNCHANGED <<published, want, source, exe, due, crossDevice, errors, torn,
                 unrestarted>>

WriteTmpUnchecked(u) ==
  /\ step[u] = "write"
  /\ \/ /\ files' = [files EXCEPT ![open[u]].blocks = Over(@, Whole(want[u]))]
        /\ UNCHANGED errors
     \/ Error /\ UNCHANGED files
  /\ Goes(u, "chmod")
  /\ open' = [open EXCEPT ![u] = 0]
  /\ UNCHANGED <<published, want, source, path, exe, due, crossDevice, history>>

WriteTmp(u) ==
  /\ step[u] = "write"
  /\ \/ /\ files' = [files EXCEPT ![open[u]].blocks = Over(@, Whole(want[u]))]
        /\ Goes(u, "chmod")
        /\ UNCHANGED errors
     \/ Fails(u) /\ UNCHANGED files
  /\ open' = [open EXCEPT ![u] = 0]
  /\ UNCHANGED <<published, want, source, path, exe, due, crossDevice, history>>

ChmodForgotten(u) ==
  /\ step[u] = "chmod"
  /\ Goes(u, IF path["tmp"] # 0 THEN "rename" ELSE "failed")
  /\ UNCHANGED <<published, want, open, source, disk, exe, due, crossDevice, errors,
                 history>>

Chmod(u) ==
  /\ step[u] = "chmod"
  /\ IF path["tmp"] # 0
     THEN /\ files' = [files EXCEPT ![path["tmp"]].exec = TRUE]
          /\ Goes(u, "rename")
     ELSE Goes(u, "failed") /\ UNCHANGED files
  /\ UNCHANGED <<published, want, open, source, path, exe, due, crossDevice, errors,
                 history>>

RenameWithoutRestart(u) ==
  /\ step[u] = "rename"
  /\ IF path["tmp"] # 0
     THEN path' = [tmp |-> 0, binary |-> path["tmp"]] /\ Goes(u, "updated")
     ELSE Goes(u, "failed") /\ UNCHANGED path
  /\ UNCHANGED <<published, want, open, source, files, exe, due, crossDevice,
                 errors, history>>

RenameUnlinksFirst(u) ==
  /\ step[u] = "rename" /\ path["tmp"] # 0
  /\ path' = [path EXCEPT !["binary"] = 0]
  /\ Goes(u, "copy")
  /\ UNCHANGED <<published, want, open, source, files, exe, due, crossDevice,
                 errors, history>>

\* Renaming fails across filesystems, and when there is nothing to rename.
Rename(u) ==
  /\ step[u] = "rename"
  /\ \/ /\ ~crossDevice /\ path["tmp"] # 0
        /\ path' = [tmp |-> 0, binary |-> path["tmp"]]
        /\ Goes(u, "restart")
        /\ UNCHANGED errors
     \/ /\ crossDevice \/ path["tmp"] = 0
        /\ Goes(u, "copy")
        /\ UNCHANGED <<path, errors>>
     \/ Error /\ Goes(u, "copy") /\ UNCHANGED path
  /\ UNCHANGED <<published, want, open, source, files, exe, due, crossDevice,
                 history>>

\* copy: the binary is truncated, unless a process executes it.
CopyOpens(u) ==
  /\ step[u] = "copy"
  /\ \/ path["tmp"] = 0 /\ Goes(u, "failed") /\ UNCHANGED <<files, open, source>>
     \/ /\ path["tmp"] # 0 /\ Executed(path["binary"])
        /\ Goes(u, "busy")
        /\ UNCHANGED <<files, open, source>>
     \/ /\ path["tmp"] # 0 /\ ~Executed(path["binary"])
        /\ files' = [files EXCEPT ![path["binary"]] =
                       [Blank EXCEPT !.exec = files[path["tmp"]].exec]]
        /\ open' = [open EXCEPT ![u] = path["binary"]]
        /\ source' = [source EXCEPT ![u] = path["tmp"]]
        /\ Goes(u, "copying")
  /\ UNCHANGED <<published, want, path, exe, due, crossDevice, errors, history>>

CopyData(u) ==
  /\ step[u] = "copying"
  /\ \/ /\ files' = [files EXCEPT ![open[u]].blocks =
                       Over(@, files[source[u]].blocks)]
        /\ Goes(u, "chmod_binary")
        /\ UNCHANGED <<errors, torn>>
     \/ Fails(u) /\ torn' = TRUE /\ UNCHANGED files
  /\ open' = [open EXCEPT ![u] = 0]
  /\ source' = [source EXCEPT ![u] = 0]
  /\ UNCHANGED <<published, want, path, exe, due, crossDevice, raced,
                 unrestarted>>

ChmodBinary(u) ==
  /\ step[u] = "chmod_binary"
  /\ \/ /\ files' = [files EXCEPT ![path["binary"]].exec = TRUE]
        /\ Goes(u, "remove")
        /\ UNCHANGED <<errors, unrestarted>>
     \/ Fails(u) /\ unrestarted' = TRUE /\ UNCHANGED files
  /\ UNCHANGED <<published, want, open, source, path, exe, due, crossDevice,
                 raced, torn>>

RemoveTmp(u) ==
  /\ step[u] = "remove"
  /\ path' = [path EXCEPT !["tmp"] = 0]
  /\ Goes(u, "restart")
  /\ UNCHANGED <<published, want, open, source, files, exe, due, crossDevice,
                 errors, history>>

-----------------------------------------------------------------------------
(* The service, and the processes that end.                                *)

\* Processes S end, and their updaters with them; u goes on at s.
Kill(S, u, s) ==
  /\ step' = [w \in Updaters |->
                IF w \in S THEN "idle" ELSE IF w = u THEN s ELSE step[w]]
  /\ want' = [w \in Updaters |-> IF w \in S THEN 0 ELSE want[w]]
  /\ open' = [w \in Updaters |-> IF w \in S THEN 0 ELSE open[w]]
  /\ source' = [w \in Updaters |-> IF w \in S THEN 0 ELSE source[w]]
  /\ torn' = (torn \/ \E w \in S : step[w] = "copying")

\* systemctl restart nobase.
Restart(u) ==
  /\ step[u] = "restart"
  /\ \/ /\ Kill(Tasks, u, "updated")
        /\ exe' = [exe EXCEPT !["agent"] = 0]
        /\ UNCHANGED <<errors, unrestarted>>
     \/ /\ Error /\ Goes(u, "updated")
        /\ unrestarted' = TRUE
        /\ UNCHANGED <<want, open, source, exe, torn>>
  /\ UNCHANGED <<published, disk, due, crossDevice, raced>>

\* The answer, or what nobase update prints.
Ends(u) ==
  /\ step[u] \in Ended \ {"idle"}
  /\ Goes(u, "idle")
  /\ want' = [want EXCEPT ![u] = 0]
  /\ exe' = IF u = Cli THEN [exe EXCEPT !["cli"] = 0] ELSE exe
  /\ UNCHANGED <<published, open, source, disk, due, crossDevice, errors, history>>

AgentStarts ==
  /\ exe["agent"] = 0 /\ Startable
  /\ exe' = [exe EXCEPT !["agent"] = path["binary"]]
  /\ due' = TRUE
  /\ UNCHANGED <<published, local, disk, crossDevice, errors, history>>

AgentDies ==
  /\ exe["agent"] # 0
  /\ Error
  /\ Kill(Tasks, Cli, step[Cli])
  /\ exe' = [exe EXCEPT !["agent"] = 0]
  /\ UNCHANGED <<published, disk, due, crossDevice, raced, unrestarted>>

CliDies ==
  /\ step[Cli] # "idle"
  /\ Error
  /\ Kill({Cli}, Cli, "idle")
  /\ exe' = [exe EXCEPT !["cli"] = 0]
  /\ unrestarted' = (unrestarted
                       \/ step[Cli] \in {"chmod_binary", "remove", "restart"})
  /\ UNCHANGED <<published, disk, due, crossDevice, raced>>

-----------------------------------------------------------------------------
UpdaterStep(u) ==
  \/ FetchChecksum(u) \/ HashCurrent(u) \/ Download(u)
  \/ OpenTmp(u) \/ WriteTmp(u) \/ Chmod(u) \/ Rename(u)
  \/ CopyOpens(u) \/ CopyData(u) \/ ChmodBinary(u) \/ RemoveTmp(u)
  \/ Restart(u) \/ Ends(u)

Next ==
  \/ Publish
  \/ \E u \in Tasks : TaskBegins(u)
  \/ CliBegins
  \/ \E u \in Updaters : UpdaterStep(u)
  \/ AgentStarts \/ AgentDies \/ CliDies

Spec == Init /\ [][Next]_vars

\* Updaters go on, systemd starts the agent whenever it can, and the agent
\* connects and checks once after it has started.
Fairness ==
  /\ \A u \in Updaters : WF_vars(UpdaterStep(u))
  /\ WF_vars(AgentStarts)
  /\ WF_vars(due /\ TaskBegins(Check))

FairSpec == Spec /\ Fairness

-----------------------------------------------------------------------------
\* What is installed can be started, whatever fails or is killed on the way:
\* unless two updaters shared the temporary file, or a copy was cut short, the
\* binary is a whole version and executable, or still being copied.
InstalledIsWhole ==
  \/ raced \/ torn
  \/ \E u \in Updaters : step[u] = "copying"
  \/ Installed.exec /\ \E v \in Versions : Installed.blocks = Whole(v)

\* An update that is installed is run: an agent that executes another file
\* than the installed one is restarted, unless a restart was refused or the
\* updater was killed before it.  No later check would do it, for a check
\* compares files and not what runs.
UpdateTakesEffect ==
  exe["agent"] # path["binary"]
    ~> (exe["agent"] = path["binary"] \/ raced \/ torn \/ unrestarted)

\* An agent that starts after the last publication comes to run it, if nothing
\* fails, nobody else is updating and the binary can be renamed.
ReachesLatest ==
  exe["agent"] = 0 /\ published = MaxVersion
    ~> \/ exe["agent"] # 0 /\ files[exe["agent"]].blocks = Whole(MaxVersion)
       \/ raced \/ errors > 0 \/ crossDevice

\* "The RPC response is sent *before* the restart happens": a self_update that
\* has come to its restart gets to its answer.  The answer is made when systemctl
\* has returned, and the process that would make it is the one restarted.
AnswersBeforeRestart ==
  [][\A u \in Tasks \ {Check} :
       step[u] = "restart" => step'[u] \in {"restart", "updated"}]_vars

\* The fallback of a rename across filesystems installs the update: with one
\* updater alone and nothing failing, the copy is not refused.
FallbackInstalls ==
  raced \/ errors > 0 \/ \A u \in Updaters : step[u] # "busy"

\* The version that a file with this content is, 0 if none that can be executed.
VersionIn(c) ==
  IF c.exec /\ \E v \in Versions : c.blocks = Whole(v)
  THEN CHOOSE v \in Versions : c.blocks = Whole(v)
  ELSE 0
VersionOf(f) == IF f = 0 THEN 0 ELSE VersionIn(files[f])

\* The contract of the updaters.
Contract == INSTANCE UpdateContract WITH
  installed <- VersionOf(path["binary"]),
  copying <- \E u \in Updaters : step[u] = "copying",
  running <- VersionOf(exe["agent"]),
  spoilt <- raced \/ torn

\* Updaters keep it: the binary is replaced as a whole, by something published,
\* and the file the agent executes is not written to.
InstallsAtomically == Contract!Spec
=============================================================================
