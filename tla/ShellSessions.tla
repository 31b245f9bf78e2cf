--------------------------- MODULE ShellSessions ---------------------------
(***************************************************************************)
(* Interactive shells (src/src/handlers/shell.rs): the map of sessions, and*)
(* per session the handler that opens it, its bash, the OS thread that     *)
(* reads the PTY, and the handlers that write to it and close it, all of   *)
(* them running at the same time.  A session is numbered; its shell_id can *)
(* be used again.                                                          *)
(*                                                                         *)
(* The map is a DashMap: a write holds a reference, and with it a read lock*)
(* on a shard, across the write(2); inserting and removing take the lock   *)
(* exclusively.  The ids are taken to fall into one shard.                 *)
(*                                                                         *)
(* External, from Linux: a terminal hangs up when its last slave descriptor*)
(* is closed; bash stands for every process that has one.  openpty does not*)
(* make the master close-on-exec, so bash inherits a copy of its own master*)
(* and is never hung up, whatever the agent closes.                        *)
(***************************************************************************)
EXTENDS Naturals, Functions

CONSTANTS
  ShellIds,   \* the shell_ids the gateway uses
  MaxOpens,   \* bound: sessions
  MaxDrops    \* bound: connections lost

ASSUME ShellBounds == ShellIds # {} /\ MaxOpens \in Nat /\ MaxDrops \in Nat

VARIABLES
  registry,   \* sessions(): from shell_id to session
  shell,      \* everything else about each session
  writers,    \* sessions to which a shell.data handler is writing
  closing,    \* sessions taken out of the map by shell.close, still open
  drops,      \* connections lost so far
  \* history, read by no action's guard
  raced,      \* sessions that shared their id with another, or ended unborn
  closed      \* sessions taken out of the map by shell.close

vars == <<registry, shell, writers, closing, drops, raced, closed>>

Sessions == 1..MaxOpens
Fd == {"none", "open", "closed"}

Shell == [
  id       : ShellIds,
  opener   : {"unused", "checked", "started", "open", "failed"},
  master   : Fd,                          \* the fd the map entry holds
  reader   : Fd,                          \* the read thread's dup of it
  thread   : {"none", "check", "poll", "send", "cleanup", "remove", "done"},
  shutdown : BOOLEAN,
  child    : {"none", "running", "exited"},   \* bash
  output   : BOOLEAN,                     \* bash has written something
  full     : BOOLEAN,                     \* the PTY takes no more input
  live     : BOOLEAN]                     \* its connection's channel is open

TypeOK ==
  /\ registry \in [DOMAIN registry -> Sessions]
  /\ DOMAIN registry \subseteq ShellIds
  /\ shell \in [Sessions -> Shell]
  /\ \A n \in Sessions :
       shell[n].reader = "open" <=>
         shell[n].thread \in {"check", "poll", "send", "cleanup"}
  /\ writers \subseteq Sessions
  /\ closing \subseteq closed
  /\ drops \in Nat
  /\ raced \subseteq Sessions
  /\ closed \subseteq Sessions

Unused(id) ==
  [id |-> id, opener |-> "unused", master |-> "none", reader |-> "none",
   thread |-> "none", shutdown |-> FALSE, child |-> "none",
   output |-> FALSE, full |-> FALSE, live |-> FALSE]

Init ==
  /\ registry = << >>
  /\ shell = [n \in Sessions |-> Unused(CHOOSE id \in ShellIds : TRUE)]
  /\ writers = {}
  /\ closing = {}
  /\ drops = 0
  /\ raced = {}
  /\ closed = {}

Locked == writers # {}
Without(id) == Restrict(registry, DOMAIN registry \ {id})
Becomes(n, s) == shell' = [shell EXCEPT ![n] = s]

\* No slave descriptor is left; the handler's Command keeps some until it
\* returns.  Output not yet read is lost: POLLHUP ends the loop before a read.
HungUp(s) == s.child = "exited" /\ s.opener # "started"
Settled(s) == [s EXCEPT !.output = @ /\ ~HungUp(s)]

Exited(s) == Settled([s EXCEPT !.child = "exited", !.full = FALSE])

-----------------------------------------------------------------------------
(* shell.open                                                              *)

OpenCheck(n, id) ==
  /\ \A m \in Sessions : shell[m].opener = "unused" <=> m >= n
  /\ id \notin DOMAIN registry
  /\ Becomes(n, [Unused(id) EXCEPT !.opener = "checked", !.live = TRUE])
  /\ UNCHANGED <<registry, writers, closing, drops, raced, closed>>

\* Sessions of the same id whose thread still runs or whose entry is to come.
Rivals(n) ==
  {m \in Sessions \ {n} :
     /\ shell[m].id = shell[n].id
     /\ \/ shell[m].thread \notin {"none", "done"}
        \/ shell[m].opener = "started"}

\* openpty, spawn, dup, and the thread.
StartShell(n) ==
  /\ shell[n].opener = "checked"
  /\ Becomes(n, [shell[n] EXCEPT !.opener = "started", !.master = "open",
                   !.reader = "open", !.child = "running", !.thread = "check"])
  /\ raced' = IF Rivals(n) = {} THEN raced ELSE raced \cup Rivals(n) \cup {n}
  /\ UNCHANGED <<registry, writers, closing, drops, closed>>

\* openpty fails; or spawn, and the master stays open; or dup, and the master
\* is closed but bash lives on.
StartFails(n) ==
  /\ shell[n].opener = "checked"
  /\ \E m \in Fd :
       Becomes(n, [shell[n] EXCEPT !.opener = "failed", !.master = m,
                     !.child = IF m = "closed" THEN "running" ELSE "none"])
  /\ UNCHANGED <<registry, writers, closing, drops, raced, closed>>

\* Whatever the id was mapped to is replaced.
Insert(n) ==
  /\ shell[n].opener = "started"
  /\ ~Locked
  /\ Becomes(n, Settled([shell[n] EXCEPT !.opener = "open"]))
  /\ registry' = [i \in DOMAIN registry \cup {shell[n].id} |->
                    IF i = shell[n].id THEN n ELSE registry[i]]
  /\ raced' = IF shell[n].thread = "done" THEN raced \cup {n} ELSE raced
  /\ UNCHANGED <<writers, closing, drops, closed>>

-----------------------------------------------------------------------------
(* shell.data and shell.close                                              *)

WriteBegins(id) ==
  /\ id \in DOMAIN registry
  /\ registry[id] \notin writers
  /\ writers' = writers \cup {registry[id]}
  /\ UNCHANGED <<registry, shell, closing, drops, raced, closed>>

\* write(2) blocks for as long as bash is there and the PTY is full.
WriteEnds(n) ==
  /\ n \in writers
  /\ ~shell[n].full
  /\ \E f \in {FALSE, shell[n].child = "running"} :
       Becomes(n, [shell[n] EXCEPT !.full = f])
  /\ writers' = writers \ {n}
  /\ UNCHANGED <<registry, closing, drops, raced, closed>>

CloseRemovesUnlocked(id) ==
  /\ id \in DOMAIN registry
  /\ registry' = Without(id)
  /\ closing' = closing \cup {registry[id]}
  /\ closed' = closed \cup {registry[id]}
  /\ UNCHANGED <<shell, writers, drops, raced>>

CloseRemoves(id) ==
  /\ id \in DOMAIN registry
  /\ ~Locked
  /\ registry' = Without(id)
  /\ closing' = closing \cup {registry[id]}
  /\ closed' = closed \cup {registry[id]}
  /\ UNCHANGED <<shell, writers, drops, raced>>

\* The flag, then SIGTERM, which a login bash may ignore.
CloseSignals(n) ==
  /\ n \in closing
  /\ ~shell[n].shutdown
  /\ \E s \in {shell[n], Exited(shell[n])} :
       Becomes(n, [s EXCEPT !.shutdown = TRUE])
  /\ UNCHANGED <<registry, writers, closing, drops, raced, closed>>

CloseMaster(n) ==
  /\ n \in closing
  /\ shell[n].shutdown
  /\ Becomes(n, [shell[n] EXCEPT !.master = "closed"])
  /\ closing' = closing \ {n}
  /\ UNCHANGED <<registry, writers, drops, raced, closed>>

-----------------------------------------------------------------------------
(* The read thread.                                                        *)

ThreadOnly(n, from, to) ==
  /\ shell[n].thread = from
  /\ Becomes(n, [shell[n] EXCEPT !.thread = to])
  /\ UNCHANGED <<registry, writers, closing, drops, raced, closed>>

ReaderChecksHangupOnly(n) ==
  ThreadOnly(n, "check", IF shell[n].child = "exited" THEN "cleanup" ELSE "poll")

ReaderChecksShutdown(n) ==
  ThreadOnly(n, "check", IF shell[n].shutdown THEN "cleanup" ELSE "poll")

ReaderTimesOut(n) ==
  ~HungUp(shell[n]) /\ ~shell[n].output /\ ThreadOnly(n, "poll", "check")

ReaderSeesHangupWhenShut(n) ==
  HungUp(shell[n]) /\ shell[n].shutdown /\ ThreadOnly(n, "poll", "cleanup")

ReaderSeesHangup(n) == HungUp(shell[n]) /\ ThreadOnly(n, "poll", "cleanup")

\* poll fails, a signal interrupts it, or the read after it returns nothing.
ReaderFails(n) == ThreadOnly(n, "poll", "cleanup")

ReaderReads(n) ==
  /\ shell[n].thread = "poll"
  /\ ~HungUp(shell[n]) /\ shell[n].output
  /\ Becomes(n, [shell[n] EXCEPT !.thread = "send", !.output = FALSE])
  /\ UNCHANGED <<registry, writers, closing, drops, raced, closed>>

\* blocking_send fails when the channel of its connection is closed.
ReaderSends(n) ==
  ThreadOnly(n, "send", IF shell[n].live THEN "check" ELSE "cleanup")

ReaderLeaksFd(n) == ThreadOnly(n, "cleanup", "remove")

ReaderCloses(n) ==
  /\ shell[n].thread = "cleanup"
  /\ Becomes(n, [shell[n] EXCEPT !.thread = "remove", !.reader = "closed"])
  /\ UNCHANGED <<registry, writers, closing, drops, raced, closed>>

ReaderLeavesEntry(n) ==
  ~Locked /\ ThreadOnly(n, "remove", "done")

\* The entry of its shell_id, whichever session that is now.
ReaderRemoves(n) ==
  /\ shell[n].thread = "remove"
  /\ ~Locked
  /\ Becomes(n, [shell[n] EXCEPT !.thread = "done"])
  /\ registry' = Without(shell[n].id)
  /\ UNCHANGED <<writers, closing, drops, raced, closed>>

Reader(n) ==
  \/ ReaderChecksShutdown(n) \/ ReaderTimesOut(n) \/ ReaderSeesHangup(n)
  \/ ReaderReads(n) \/ ReaderSends(n) \/ ReaderCloses(n) \/ ReaderRemoves(n)

-----------------------------------------------------------------------------
(* bash and the connection.                                                *)

Child(n, s) ==
  /\ shell[n].child = "running"
  /\ Becomes(n, s)
  /\ UNCHANGED <<registry, writers, closing, drops, raced, closed>>

ChildWrites(n) == ~shell[n].output /\ Child(n, [shell[n] EXCEPT !.output = TRUE])
ChildReads(n) == shell[n].full /\ Child(n, [shell[n] EXCEPT !.full = FALSE])
ChildExits(n) == Child(n, Exited(shell[n]))

ConnectionDrops ==
  /\ drops < MaxDrops
  /\ drops' = drops + 1
  /\ shell' = [n \in Sessions |-> [shell[n] EXCEPT !.live = FALSE]]
  /\ UNCHANGED <<registry, writers, closing, raced, closed>>

-----------------------------------------------------------------------------
Next ==
  \/ \E n \in Sessions :
       \/ \E id \in ShellIds : OpenCheck(n, id)
       \/ StartShell(n) \/ StartFails(n) \/ Insert(n)
       \/ WriteEnds(n) \/ CloseSignals(n) \/ CloseMaster(n)
       \/ Reader(n) \/ ReaderFails(n)
       \/ ChildWrites(n) \/ ChildReads(n) \/ ChildExits(n)
  \/ \E id \in ShellIds : WriteBegins(id) \/ CloseRemoves(id)
  \/ ConnectionDrops

Spec == Init /\ [][Next]_vars

\* Threads and handlers run, the shard lock is granted in the end, and bash reads
\* its input sooner or later, or a write would hold the lock for ever.  Nothing in
\* the code makes it read.
Fairness ==
  \A n \in Sessions :
    /\ WF_vars(Reader(n)) /\ SF_vars(ReaderRemoves(n)) /\ SF_vars(Insert(n))
    /\ WF_vars(WriteEnds(n))
    /\ WF_vars(CloseSignals(n) \/ CloseMaster(n))
    /\ WF_vars(ChildReads(n))

FairSpec == Spec /\ Fairness

-----------------------------------------------------------------------------
Registered(n) ==
  shell[n].id \in DOMAIN registry /\ registry[shell[n].id] = n

\* Whoever finds a session in the map, to write to it or to resize it, and
\* whoever has taken it out to close it, has an open fd: no write goes to a
\* closed descriptor, which the process may have reused for a file or a socket,
\* and none is closed twice.
FdsInUseAreOpen ==
  \A n \in writers \cup closing \cup Range(registry) : shell[n].master = "open"

\* The map holds a session from the moment it is open until its thread has
\* ended or shell.close has taken it out, unless the id was shared with another
\* session in that time or the shell was over before it was entered.
RegistryIsExact ==
  \A n \in Sessions \ raced :
    Registered(n) <=> /\ shell[n].opener = "open"
                      /\ shell[n].thread # "done"
                      /\ n \notin closed

\* shell.close lets go of the shell: the read thread sees the flag, between
\* two polls and two sends, and ends, and both descriptors are closed, whether
\* bash takes notice or not.
ClosedShellsAreLetGo ==
  \A n \in Sessions :
    n \in closed ~> /\ shell[n].thread = "done"
                    /\ shell[n].master = "closed"
                    /\ shell[n].reader = "closed"

\* A shell whose bash has exited leaves the map, so that its id can be used
\* again, unless the id was shared.
ExitedShellsLeave ==
  \A n \in Sessions :
    Registered(n) /\ shell[n].child = "exited" ~> ~Registered(n) \/ n \in raced

=============================================================================
