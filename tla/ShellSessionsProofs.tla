------------------------ MODULE ShellSessionsProofs ------------------------
(***************************************************************************)
(* Proofs about ShellSessions for every set of shell_ids, any number of    *)
(* sessions and any number of lost connections.                            *)
(***************************************************************************)
EXTENDS ShellSessions, TLAPS

-----------------------------------------------------------------------------
(* Type correctness.                                                       *)

\* The read thread has its descriptor open exactly until it has cleaned up.
ReaderFd(s) ==
  s.reader = "open" <=> s.thread \in {"check", "poll", "send", "cleanup"}

\* Every session has its type.
ShellsTyped == shell \in [Sessions -> Shell] /\ \A n \in Sessions : ReaderFd(shell[n])

\* A step that changes one session keeps the others' types.
LEMMA BecomesTyped ==
  ASSUME ShellsTyped, NEW n \in Sessions, NEW s \in Shell, ReaderFd(s), Becomes(n, s)
  PROVE  ShellsTyped'
BY DEF ShellsTyped, ReaderFd, Becomes

\* Discarding output changes nothing else.
LEMMA SettledAlike ==
  ASSUME NEW s \in Shell
  PROVE  /\ Settled(s) \in Shell
         /\ Settled(s).id = s.id /\ Settled(s).opener = s.opener
         /\ Settled(s).master = s.master /\ Settled(s).thread = s.thread
         /\ Settled(s).reader = s.reader
<1>1. PICK o \in BOOLEAN : o = (s.output /\ ~HungUp(s))
  BY DEF Shell
<1>2. Settled(s) = [s EXCEPT !.output = o]
  BY <1>1 DEF Settled, Shell
<1>3. [s EXCEPT !.output = o] \in Shell
  BY ZenonT(60) DEF Shell, Fd
<1> QED BY <1>2, <1>3 DEF Shell

\* Nor does the end of bash change what the agent has.
LEMMA ExitedAlike ==
  ASSUME NEW s \in Shell
  PROVE  /\ Exited(s) \in Shell
         /\ Exited(s).id = s.id /\ Exited(s).opener = s.opener
         /\ Exited(s).master = s.master /\ Exited(s).thread = s.thread
         /\ Exited(s).reader = s.reader
<1> DEFINE e == [s EXCEPT !.child = "exited", !.full = FALSE]
<1>1. e \in Shell
  BY ZenonT(60) DEF Shell, Fd
<1>2. /\ e.id = s.id /\ e.opener = s.opener /\ e.master = s.master
      /\ e.thread = s.thread /\ e.reader = s.reader
  BY DEF Shell
<1>3. Exited(s) = Settled(e)
  BY DEF Exited
<1> HIDE DEF e
<1> QED BY <1>1, <1>2, <1>3, SettledAlike

\* Every step keeps the sessions' types.
LEMMA ShellStep == ShellsTyped /\ [Next]_vars => ShellsTyped'
<1> SUFFICES ASSUME ShellsTyped, [Next]_vars PROVE ShellsTyped'
  OBVIOUS
<1> USE DEF ReaderFd
<1>0. \A n \in Sessions : shell[n] \in Shell /\ ReaderFd(shell[n])
  BY DEF ShellsTyped
<1>1. ASSUME NEW n \in Sessions, NEW id \in ShellIds, OpenCheck(n, id)
      PROVE  ShellsTyped'
  <2>1. [Unused(id) EXCEPT !.opener = "checked", !.live = TRUE] \in Shell
    BY DEF Unused, Shell, Fd
  <2> QED BY <1>1, <2>1, BecomesTyped DEF OpenCheck, Unused
<1>2. ASSUME NEW n \in Sessions, StartShell(n) PROVE ShellsTyped'
  <2>1. [shell[n] EXCEPT !.opener = "started", !.master = "open",
           !.reader = "open", !.child = "running", !.thread = "check"] \in Shell
    BY <1>0, ZenonT(60) DEF Shell, Fd
  <2> QED BY <1>0, <1>2, <2>1, BecomesTyped DEF StartShell, Shell
<1>3. ASSUME NEW n \in Sessions, StartFails(n) PROVE ShellsTyped'
  <2>1. PICK m \in Fd :
          Becomes(n, [shell[n] EXCEPT !.opener = "failed", !.master = m,
                        !.child = IF m = "closed" THEN "running" ELSE "none"])
    BY <1>3 DEF StartFails
  <2>2. PICK c \in {"none", "running"} :
          c = IF m = "closed" THEN "running" ELSE "none"
    OBVIOUS
  <2>3. [shell[n] EXCEPT !.opener = "failed", !.master = m, !.child = c] \in Shell
    BY <1>0, ZenonT(60) DEF Shell, Fd
  <2>4. ReaderFd([shell[n] EXCEPT !.opener = "failed", !.master = m, !.child = c])
    BY <1>0, ZenonT(60) DEF Shell
  <2> QED BY <2>1, <2>2, <2>3, <2>4, BecomesTyped
<1>4. ASSUME NEW n \in Sessions, Insert(n) PROVE ShellsTyped'
  <2> DEFINE s == [shell[n] EXCEPT !.opener = "open"]
  <2>1. s \in Shell /\ ReaderFd(s)
    BY <1>0 DEF Shell, Fd
  <2>2. Becomes(n, Settled(s))
    BY <1>4 DEF Insert
  <2> HIDE DEF s
  <2>3. Settled(s) \in Shell /\ ReaderFd(Settled(s))
    BY <2>1, SettledAlike
  <2> QED BY <2>2, <2>3, BecomesTyped
<1>5. ASSUME NEW n \in Sessions, WriteEnds(n) PROVE ShellsTyped'
  <2>1. PICK f \in {FALSE, shell[n].child = "running"} :
          Becomes(n, [shell[n] EXCEPT !.full = f])
    BY <1>5 DEF WriteEnds
  <2>2. [shell[n] EXCEPT !.full = f] \in Shell
    BY <1>0, ZenonT(60) DEF Shell, Fd
  <2> QED BY <1>0, <2>1, <2>2, BecomesTyped DEF Shell
<1>6. ASSUME NEW n \in Sessions, CloseSignals(n) PROVE ShellsTyped'
  <2>1. PICK s \in {shell[n], Exited(shell[n])} :
          Becomes(n, [s EXCEPT !.shutdown = TRUE])
    BY <1>6 DEF CloseSignals
  <2>2. s \in Shell /\ ReaderFd(s)
    BY <1>0, <2>1, ExitedAlike
  <2>3. [s EXCEPT !.shutdown = TRUE] \in Shell
    BY <2>2 DEF Shell, Fd
  <2> QED BY <2>1, <2>2, <2>3, BecomesTyped DEF Shell
<1>7. ASSUME NEW n \in Sessions, CloseMaster(n) PROVE ShellsTyped'
  <2>1. [shell[n] EXCEPT !.master = "closed"] \in Shell
    BY <1>0 DEF Shell, Fd
  <2> QED BY <1>0, <1>7, <2>1, BecomesTyped DEF CloseMaster, Shell
<1>8. ASSUME NEW n \in Sessions, Reader(n) \/ ReaderFails(n) PROVE ShellsTyped'
  <2>1. CASE \E from \in {"check", "poll"}, to \in {"check", "poll", "cleanup"} :
               ThreadOnly(n, from, to)
    <3>1. PICK from \in {"check", "poll"}, to \in {"check", "poll", "cleanup"} :
            ThreadOnly(n, from, to)
      BY <2>1
    <3>2. [shell[n] EXCEPT !.thread = to] \in Shell
      BY <1>0 DEF Shell, Fd
    <3> QED BY <1>0, <3>1, <3>2, BecomesTyped DEF ThreadOnly, Shell
  <2>2. CASE ReaderReads(n)
    <3>1. [shell[n] EXCEPT !.thread = "send", !.output = FALSE] \in Shell
      BY <1>0, ZenonT(60) DEF Shell, Fd
    <3> QED BY <1>0, <2>2, <3>1, BecomesTyped DEF ReaderReads, Shell
  <2>3. CASE ReaderSends(n)
    <3>1. [shell[n] EXCEPT !.thread = IF shell[n].live THEN "check" ELSE "cleanup"]
            \in Shell
      BY <1>0 DEF Shell, Fd
    <3> QED BY <1>0, <2>3, <3>1, BecomesTyped DEF ReaderSends, ThreadOnly, Shell
  <2>4. CASE ReaderCloses(n)
    <3>1. [shell[n] EXCEPT !.thread = "remove", !.reader = "closed"] \in Shell
      BY <1>0, ZenonT(60) DEF Shell, Fd
    <3> QED BY <1>0, <2>4, <3>1, BecomesTyped DEF ReaderCloses, Shell
  <2>5. CASE ReaderRemoves(n)
    <3>1. [shell[n] EXCEPT !.thread = "done"] \in Shell
      BY <1>0 DEF Shell, Fd
    <3> QED BY <1>0, <2>5, <3>1, BecomesTyped DEF ReaderRemoves, Shell
  <2> QED
    BY <1>8, <2>1, <2>2, <2>3, <2>4, <2>5
    DEF Reader, ReaderFails, ReaderChecksShutdown, ReaderTimesOut, ReaderSeesHangup
<1>9. ASSUME NEW n \in Sessions,
             ChildWrites(n) \/ ChildReads(n) \/ ChildExits(n)
      PROVE  ShellsTyped'
  <2>1. /\ [shell[n] EXCEPT !.output = TRUE] \in Shell
        /\ [shell[n] EXCEPT !.full = FALSE] \in Shell
        /\ Exited(shell[n]) \in Shell
    BY <1>0, ExitedAlike, ZenonT(60) DEF Shell, Fd
  <2>2. ReaderFd([shell[n] EXCEPT !.output = TRUE])
    BY <1>0 DEF Shell
  <2>3. ReaderFd([shell[n] EXCEPT !.full = FALSE])
    BY <1>0 DEF Shell
  <2>4. ReaderFd(Exited(shell[n]))
    BY <1>0, ExitedAlike
  <2> QED
    BY <1>9, <2>1, <2>2, <2>3, <2>4, BecomesTyped
    DEF ChildWrites, ChildReads, ChildExits, Child
<1>10. CASE ConnectionDrops
  <2>1. ASSUME NEW n \in Sessions
        PROVE  /\ [shell[n] EXCEPT !.live = FALSE] \in Shell
               /\ ReaderFd([shell[n] EXCEPT !.live = FALSE])
    BY <1>0 DEF Shell, Fd
  <2> QED BY <1>10, <2>1 DEF ConnectionDrops, ShellsTyped
<1>11. CASE UNCHANGED shell
  BY <1>11 DEF ShellsTyped
<1> QED
  BY <1>1, <1>2, <1>3, <1>4, <1>5, <1>6, <1>7, <1>8, <1>9, <1>10, <1>11
  DEF Next, vars, WriteBegins, CloseRemoves

\* Every step keeps the type invariant.
LEMMA TypeStep == TypeOK /\ [Next]_vars => TypeOK'
<1> SUFFICES ASSUME TypeOK, [Next]_vars PROVE TypeOK'
  OBVIOUS
<1>1. ShellsTyped /\ ShellsTyped'
  BY ShellStep DEF TypeOK, ShellsTyped, ReaderFd
<1>2. \A n \in Sessions : shell[n].id \in ShellIds
  BY <1>1 DEF ShellsTyped, Shell
<1> DEFINE Others ==
      /\ registry \in [DOMAIN registry -> Sessions]
      /\ DOMAIN registry \subseteq ShellIds
      /\ writers \subseteq Sessions /\ closing \subseteq closed
      /\ drops \in Nat /\ raced \subseteq Sessions /\ closed \subseteq Sessions
<1> HIDE DEF Others
<1>3. Others
  BY DEF TypeOK, Others
<1>4. ASSUME NEW n \in Sessions, NEW id \in ShellIds, OpenCheck(n, id)
      PROVE  Others'
  BY <1>3, <1>4 DEF OpenCheck, Others
<1>5. ASSUME NEW n \in Sessions,
             StartShell(n) \/ StartFails(n) \/ Insert(n) \/ WriteEnds(n)
               \/ CloseSignals(n) \/ CloseMaster(n)
      PROVE  Others'
  BY <1>2, <1>3, <1>5
  DEF StartShell, StartFails, Insert, WriteEnds, CloseSignals, CloseMaster, Rivals,
      Others
<1>6. ASSUME NEW n \in Sessions, Reader(n) \/ ReaderFails(n) PROVE Others'
  BY <1>3, <1>6
  DEF Reader, ReaderFails, ReaderChecksShutdown, ReaderTimesOut, ReaderSeesHangup, ReaderReads,
      ReaderSends, ReaderCloses, ReaderRemoves, ThreadOnly, Without, Restrict, Others
<1>7. ASSUME NEW n \in Sessions,
             ChildWrites(n) \/ ChildReads(n) \/ ChildExits(n)
      PROVE  Others'
  BY <1>3, <1>7 DEF ChildWrites, ChildReads, ChildExits, Child, Others
<1>8. ASSUME NEW id \in ShellIds, WriteBegins(id) \/ CloseRemoves(id)
      PROVE  Others'
  BY <1>3, <1>8 DEF WriteBegins, CloseRemoves, Without, Restrict, Others
<1>9. ASSUME ConnectionDrops PROVE Others'
  BY <1>3, <1>9 DEF ConnectionDrops, Others
<1>10. ASSUME UNCHANGED vars PROVE Others'
  BY <1>3, <1>10 DEF vars, Others
<1>11. Others'
  BY <1>4, <1>5, <1>6, <1>7, <1>8, <1>9, <1>10 DEF Next
<1> QED BY <1>1, <1>11 DEF TypeOK, ShellsTyped, ReaderFd, Others

\* Type correctness.
THEOREM TypeCorrect == Spec => []TypeOK
<1>1. Init => TypeOK
  BY ShellBounds DEF Init, TypeOK, Unused, Shell, Fd, Sessions
<1> QED BY <1>1, TypeStep, PTL DEF Spec

-----------------------------------------------------------------------------
(* The inductive invariant.                                                *)

\* The read thread is running.
Active(s) == s.thread \notin {"none", "done"}

\* The map leads from an id to an open session of that id.
EntriesAreOpen ==
  \A i \in DOMAIN registry :
    shell[registry[i]].id = i /\ shell[registry[i]].opener = "open"

\* A descriptor is there before the entry; and a session in hand is an open
\* one, and either in the map or about to be closed.
FdsAreOpen ==
  /\ \A n \in Sessions : shell[n].opener = "started" => shell[n].master = "open"
  /\ \A n \in writers \cup closing : shell[n].opener = "open"
  /\ \A n \in closing : n \notin writers /\ n \notin Range(registry)
  /\ FdsInUseAreOpen

\* The thread is there as soon as the session has been started.
ThreadsAreStarted ==
  \A n \in Sessions :
    /\ shell[n].thread # "none" <=> shell[n].opener \in {"started", "open"}
    /\ n \in closed => shell[n].opener = "open"

\* Two sessions of one id that are both on the way or alive know of each other.
RivalsAreRaced ==
  \A m, n \in Sessions :
    (/\ m # n /\ shell[m].id = shell[n].id
     /\ Active(shell[m]) \/ shell[m].opener = "started"
     /\ Active(shell[n]) \/ shell[n].opener = "started")
      => m \in raced /\ n \in raced

\* The inductive invariant.
IInv ==
  /\ TypeOK /\ EntriesAreOpen /\ FdsAreOpen /\ ThreadsAreStarted
  /\ RivalsAreRaced /\ RegistryIsExact

\* Steps that leave alone what IInv is about, but for writers that finish.
Quiet ==
  /\ UNCHANGED <<registry, closing, raced, closed>>
  /\ writers' \subseteq writers
  /\ \A n \in Sessions :
       /\ shell'[n].id = shell[n].id
       /\ shell'[n].opener = shell[n].opener
       /\ shell'[n].master = shell[n].master
       /\ shell'[n].thread = "none" <=> shell[n].thread = "none"
       /\ shell'[n].thread = "done" <=> shell[n].thread = "done"

\* The read thread but for its last step, bash, writes that end and signals.
LEMMA QuietSession ==
  ASSUME TypeOK, NEW n \in Sessions,
         \/ WriteEnds(n) \/ CloseSignals(n)
         \/ (Reader(n) /\ ~ReaderRemoves(n)) \/ ReaderFails(n)
         \/ ChildWrites(n) \/ ChildReads(n) \/ ChildExits(n)
  PROVE  Quiet
<1>1. shell \in [Sessions -> Shell]
  BY DEF TypeOK
<1> DEFINE Like(s) == /\ s.id = shell[n].id /\ s.opener = shell[n].opener
                      /\ s.master = shell[n].master /\ s.thread = shell[n].thread
<1>0. ASSUME NEW s, Becomes(n, s), Like(s), writers' \subseteq writers,
             UNCHANGED <<registry, closing, raced, closed>>
      PROVE  Quiet
  BY <1>0, <1>1 DEF Becomes, Quiet
<1>2. CASE WriteEnds(n)
  <2>1. PICK f \in {FALSE, shell[n].child = "running"} :
          Becomes(n, [shell[n] EXCEPT !.full = f])
    BY <1>2 DEF WriteEnds
  <2>2. Like([shell[n] EXCEPT !.full = f])
    BY <1>1 DEF Shell
  <2>3. writers' \subseteq writers /\ UNCHANGED <<registry, closing, raced, closed>>
    BY <1>2 DEF WriteEnds
  <2> QED BY <1>0, <2>1, <2>2, <2>3
<1>3. CASE CloseSignals(n)
  <2>1. PICK s \in {shell[n], Exited(shell[n])} :
          Becomes(n, [s EXCEPT !.shutdown = TRUE])
    BY <1>3 DEF CloseSignals
  <2>2. shell[n] \in Shell
    BY <1>1
  <2>3. Exited(shell[n]) \in Shell /\ Like(Exited(shell[n]))
    BY <2>2, ExitedAlike
  <2>4. s \in Shell /\ Like(s)
    BY <2>1, <2>2, <2>3
  <2>5. Like([s EXCEPT !.shutdown = TRUE])
    BY <2>4 DEF Shell
  <2>6. UNCHANGED <<writers, registry, closing, raced, closed>>
    BY <1>3 DEF CloseSignals
  <2> QED BY <1>0, <2>1, <2>5, <2>6
<1>4. CASE (Reader(n) /\ ~ReaderRemoves(n)) \/ ReaderFails(n)
  <2>1. PICK s : /\ Becomes(n, s) /\ s \in {[shell[n] EXCEPT !.thread = t] :
                                           t \in {"check", "poll", "cleanup"}}
                                     \cup {[shell[n] EXCEPT !.thread = "send",
                                                            !.output = FALSE],
                                           [shell[n] EXCEPT !.thread = "remove",
                                                            !.reader = "closed"]}
                 /\ shell[n].thread \notin {"none", "done"}
    BY <1>4
    DEF Reader, ReaderFails, ReaderChecksShutdown, ReaderTimesOut, ReaderSeesHangup,
        ReaderReads, ReaderSends, ReaderCloses, ThreadOnly
  <2>2. /\ s.id = shell[n].id /\ s.opener = shell[n].opener
        /\ s.master = shell[n].master /\ s.thread \notin {"none", "done"}
    BY <1>1, <2>1 DEF Shell
  <2>3. UNCHANGED <<writers, registry, closing, raced, closed>>
    BY <1>4
    DEF Reader, ReaderFails, ReaderChecksShutdown, ReaderTimesOut, ReaderSeesHangup,
        ReaderReads, ReaderSends, ReaderCloses, ThreadOnly
  <2> QED BY <1>1, <2>1, <2>2, <2>3 DEF Becomes, Quiet
<1>5. CASE ChildWrites(n) \/ ChildReads(n) \/ ChildExits(n)
  <2>1. /\ Like([shell[n] EXCEPT !.output = TRUE])
        /\ Like([shell[n] EXCEPT !.full = FALSE])
        /\ Like(Exited(shell[n]))
    BY <1>1, ExitedAlike DEF Shell
  <2>2. /\ \/ Becomes(n, [shell[n] EXCEPT !.output = TRUE])
           \/ Becomes(n, [shell[n] EXCEPT !.full = FALSE])
           \/ Becomes(n, Exited(shell[n]))
        /\ UNCHANGED <<writers, registry, closing, raced, closed>>
    BY <1>5 DEF ChildWrites, ChildReads, ChildExits, Child
  <2> HIDE DEF Like
  <2> QED BY <1>0, <2>1, <2>2
<1> QED BY <1>2, <1>3, <1>4, <1>5

\* A lost connection, and a step that changes nothing, are such steps.
LEMMA QuietDrop ==
  ASSUME TypeOK, ConnectionDrops \/ UNCHANGED vars
  PROVE  Quiet
BY DEF TypeOK, ConnectionDrops, vars, Quiet, Shell

\* A quiet step keeps the inductive invariant.
LEMMA QuietStep ==
  ASSUME IInv, Quiet
  PROVE  /\ EntriesAreOpen' /\ FdsAreOpen' /\ ThreadsAreStarted'
         /\ RivalsAreRaced' /\ RegistryIsExact'
<1> USE DEF IInv, Quiet, TypeOK
<1>1. \A i \in DOMAIN registry : registry[i] \in Sessions
  OBVIOUS
<1>2. closing \subseteq Sessions /\ Range(registry) \subseteq Sessions
  BY <1>1 DEF Range
<1>3. EntriesAreOpen'
  BY <1>1 DEF EntriesAreOpen
<1>4. FdsAreOpen'
  BY <1>2 DEF FdsAreOpen, FdsInUseAreOpen
<1>5. ThreadsAreStarted'
  BY DEF ThreadsAreStarted
<1>6. RivalsAreRaced'
  BY DEF RivalsAreRaced, Active
<1>7. RegistryIsExact'
  BY DEF RegistryIsExact, Registered
<1> QED BY <1>3, <1>4, <1>5, <1>6, <1>7

\* The inductive invariant without the types.
Kept ==
  EntriesAreOpen /\ FdsAreOpen /\ ThreadsAreStarted /\ RivalsAreRaced
    /\ RegistryIsExact

\* Opening: the session has no entry, no thread and nobody has it in hand until
\* its thread is started; then its rivals and it learn of each other.
LEMMA OpenStep ==
  ASSUME IInv, NEW n \in Sessions, NEW id \in ShellIds,
         OpenCheck(n, id) \/ StartShell(n) \/ StartFails(n)
  PROVE  Kept'
<1> USE DEF IInv
<1>1. /\ shell \in [Sessions -> Shell] /\ writers \subseteq Sessions
      /\ closing \subseteq Sessions /\ Range(registry) \subseteq Sessions
      /\ \A i \in DOMAIN registry : registry[i] \in Range(registry)
  BY DEF TypeOK, Range
<1>2. /\ shell[n].opener \in {"unused", "checked"}
      /\ UNCHANGED <<registry, writers, closing, closed>>
      /\ \A m \in Sessions \ {n} : shell'[m] = shell[m]
      /\ raced \subseteq raced'
  <2>1. CASE OpenCheck(n, id)
    BY <1>1, <2>1, ShellBounds DEF OpenCheck, Becomes, Sessions
  <2>2. CASE StartShell(n)
    BY <1>1, <2>2 DEF StartShell, Becomes
  <2>3. CASE StartFails(n)
    BY <1>1, <2>3 DEF StartFails, Becomes
  <2> QED BY <2>1, <2>2, <2>3
<1>3. StartFails(n) =>
         shell'[n].opener = "failed" /\ shell'[n].thread = shell[n].thread
  <2>1. shell[n] \in Shell
    BY <1>1
  <2>2. SUFFICES ASSUME StartFails(n)
                 PROVE  shell'[n].opener = "failed" /\ shell'[n].thread = shell[n].thread
    OBVIOUS
  <2>3. PICK m \in Fd : shell'[n] =
          [shell[n] EXCEPT !.opener = "failed", !.master = m,
             !.child = IF m = "closed" THEN "running" ELSE "none"]
    BY <1>1, <2>2 DEF StartFails, Becomes
  <2> QED BY <2>1, <2>3 DEF Shell
<1>4. /\ shell'[n].opener \in {"checked", "started", "failed"}
      /\ shell'[n].thread # "none" <=> shell'[n].opener = "started"
      /\ shell'[n].opener = "started" => shell'[n].master = "open"
  <2>1. shell[n].thread = "none"
    BY <1>2 DEF ThreadsAreStarted
  <2>2. CASE OpenCheck(n, id)
    BY <1>1, <2>2 DEF OpenCheck, Becomes, Unused
  <2>3. CASE StartShell(n)
    BY <1>1, <2>3 DEF StartShell, Becomes, Shell
  <2>4. CASE StartFails(n)
    BY <1>3, <2>1, <2>4
  <2> QED BY <2>2, <2>3, <2>4
<1>5. n \notin writers /\ n \notin closing /\ n \notin closed /\ n \notin Range(registry)
  BY <1>2 DEF FdsAreOpen, ThreadsAreStarted, EntriesAreOpen, Range
<1>6. EntriesAreOpen'
  BY <1>1, <1>2, <1>5 DEF EntriesAreOpen
<1>7. FdsAreOpen'
  BY <1>1, <1>2, <1>4, <1>5 DEF FdsAreOpen, FdsInUseAreOpen
<1>8. ThreadsAreStarted'
  BY <1>2, <1>4, <1>5 DEF ThreadsAreStarted
<1>9. RivalsAreRaced'
  <2>1. CASE shell'[n].opener # "started"
    BY <1>2, <1>4, <2>1 DEF RivalsAreRaced, Active
  <2>2. CASE shell'[n].opener = "started"
    <3>1. StartShell(n)
      <4>1. ~OpenCheck(n, id)
        BY <1>1, <2>2 DEF OpenCheck, Becomes, Unused
      <4>2. ~StartFails(n)
        BY <1>3, <2>2
      <4> QED BY <4>1, <4>2
    <3>2. Rivals(n) \subseteq raced' /\ (Rivals(n) # {} => n \in raced')
      BY <3>1 DEF StartShell
    <3>3. shell'[n].id = shell[n].id
      BY <1>1, <3>1 DEF StartShell, Becomes, Shell
    <3>4. ASSUME NEW m \in Sessions \ {n}, shell[m].id = shell[n].id,
                 Active(shell[m]) \/ shell[m].opener = "started"
          PROVE  m \in raced' /\ n \in raced'
      BY <3>2, <3>4 DEF Rivals, Active
    <3> QED BY <1>2, <3>3, <3>4 DEF RivalsAreRaced
  <2> QED BY <2>1, <2>2
<1>10. RegistryIsExact'
  <2>1. ~Registered(n)'
    BY <1>2, <1>5, <1>1 DEF Registered
  <2> QED BY <1>2, <1>4, <2>1 DEF RegistryIsExact, Registered
<1> QED BY <1>6, <1>7, <1>8, <1>9, <1>10 DEF Kept

\* Entering the map: an entry that is replaced belongs to a rival.
LEMMA InsertStep ==
  ASSUME IInv, NEW n \in Sessions, Insert(n)
  PROVE  Kept'
<1> USE DEF IInv
<1>1. /\ shell \in [Sessions -> Shell] /\ shell[n] \in Shell
      /\ registry \in [DOMAIN registry -> Sessions]
      /\ closing \subseteq Sessions /\ raced \subseteq Sessions
  BY DEF TypeOK
<1>2. /\ shell'[n].opener = "open" /\ shell'[n].id = shell[n].id
      /\ shell'[n].thread = shell[n].thread /\ shell'[n].master = shell[n].master
      /\ \A m \in Sessions \ {n} : shell'[m] = shell[m]
      /\ shell[n].opener = "started" /\ writers = {}
      /\ UNCHANGED <<writers, closing, closed>>
      /\ raced \subseteq raced' /\ (shell[n].thread = "done" => n \in raced')
      /\ DOMAIN registry' = DOMAIN registry \cup {shell[n].id}
      /\ \A i \in DOMAIN registry' :
           registry'[i] = IF i = shell[n].id THEN n ELSE registry[i]
      /\ raced' \subseteq raced \cup {n}
  <2> DEFINE s == [shell[n] EXCEPT !.opener = "open"]
  <2>1. /\ s \in Shell /\ s.opener = "open" /\ s.id = shell[n].id
        /\ s.thread = shell[n].thread /\ s.master = shell[n].master
    BY <1>1 DEF Shell, Fd
  <2>2. shell' = [shell EXCEPT ![n] = Settled(s)]
    BY DEF Insert, Becomes
  <2> HIDE DEF s
  <2>3. shell'[n] = Settled(s) /\ \A m \in Sessions \ {n} : shell'[m] = shell[m]
    BY <1>1, <2>2
  <2>4. /\ shell'[n].opener = "open" /\ shell'[n].id = shell[n].id
        /\ shell'[n].thread = shell[n].thread /\ shell'[n].master = shell[n].master
    BY <2>1, <2>3, SettledAlike
  <2> QED BY <1>1, <2>3, <2>4 DEF Insert, Locked
<1>3. /\ n \notin closing /\ n \notin closed /\ shell[n].thread # "none"
      /\ shell[n].master = "open" /\ \A i \in DOMAIN registry : registry[i] # n
  BY <1>2 DEF FdsAreOpen, ThreadsAreStarted, EntriesAreOpen
<1>4. EntriesAreOpen'
  BY <1>1, <1>2, <1>3 DEF EntriesAreOpen
<1>5. Range(registry)' \subseteq Range(registry) \cup {n}
  BY <1>2 DEF Range
<1>6. FdsAreOpen'
  BY <1>1, <1>2, <1>3, <1>5 DEF FdsAreOpen, FdsInUseAreOpen, Range
<1>7. ThreadsAreStarted'
  BY <1>2, <1>3 DEF ThreadsAreStarted
<1>8. RivalsAreRaced'
  BY <1>2 DEF RivalsAreRaced, Active
<1>9. RegistryIsExact'
  <2>1. ASSUME NEW m \in Sessions, m \notin raced'
        PROVE  Registered(m)' <=> /\ shell'[m].opener = "open"
                                  /\ shell'[m].thread # "done"
                                  /\ m \notin closed'
    <3>1. CASE m = n
      BY <1>2, <1>3, <2>1, <3>1 DEF Registered
    <3>2. CASE m # n /\ shell[m].id # shell[n].id
      BY <1>2, <2>1, <3>2 DEF RegistryIsExact, Registered
    <3>3. CASE m # n /\ shell[m].id = shell[n].id
      <4>1. ~Registered(m)'
        BY <1>2, <3>3 DEF Registered
      <4>2. ~Active(shell[m])
        <5>1. m \notin raced
          BY <1>2, <2>1
        <5> QED BY <1>2, <3>3, <5>1 DEF RivalsAreRaced
      <4> QED BY <1>2, <2>1, <3>3, <4>1, <4>2 DEF ThreadsAreStarted, Active
    <3> QED BY <3>1, <3>2, <3>3
  <2> QED BY <2>1 DEF RegistryIsExact
<1> QED BY <1>4, <1>6, <1>7, <1>8, <1>9 DEF Kept

\* What a write takes is in the map; what close takes is out of it, with nobody
\* writing.
LEMMA HandlerStep ==
  ASSUME IInv, NEW id \in ShellIds, WriteBegins(id) \/ CloseRemoves(id)
  PROVE  Kept'
<1> USE DEF IInv
<1>1. /\ shell \in [Sessions -> Shell] /\ registry \in [DOMAIN registry -> Sessions]
      /\ closing \subseteq Sessions /\ writers \subseteq Sessions
      /\ \A i \in DOMAIN registry : registry[i] \in Range(registry)
  BY DEF TypeOK, Range
<1>2. CASE WriteBegins(id)
  <2>1. /\ UNCHANGED <<registry, shell, closing, raced, closed>>
        /\ writers' = writers \cup {registry[id]} /\ id \in DOMAIN registry
    BY <1>2 DEF WriteBegins
  <2>2. FdsAreOpen'
    BY <1>1, <2>1 DEF FdsAreOpen, FdsInUseAreOpen, EntriesAreOpen
  <2> QED
    BY <2>1, <2>2
    DEF Kept, EntriesAreOpen, ThreadsAreStarted, RivalsAreRaced, RegistryIsExact,
        Registered
<1>3. CASE CloseRemoves(id)
  <2>0. PICK m \in Sessions : m = registry[id]
    BY <1>1, <1>3 DEF CloseRemoves
  <2>1. /\ UNCHANGED <<shell, writers, raced>> /\ writers = {}
        /\ closing' = closing \cup {m} /\ closed' = closed \cup {m}
        /\ id \in DOMAIN registry /\ m \in Sessions
        /\ DOMAIN registry' = DOMAIN registry \ {id}
        /\ \A i \in DOMAIN registry' : registry'[i] = registry[i]
    BY <1>1, <1>3, <2>0 DEF CloseRemoves, Locked, Without, Restrict
  <2>2. shell[m].id = id /\ shell[m].opener = "open" /\ shell[m].master = "open"
    BY <1>1, <2>0, <2>1 DEF EntriesAreOpen, FdsAreOpen, FdsInUseAreOpen
  <2>3. EntriesAreOpen'
    BY <2>1 DEF EntriesAreOpen
  <2>4. m \notin Range(registry)' /\ Range(registry)' \subseteq Range(registry)
    BY <2>0, <2>1, <2>2 DEF EntriesAreOpen, Range
  <2>5. FdsAreOpen'
    BY <2>1, <2>2, <2>4 DEF FdsAreOpen, FdsInUseAreOpen
  <2>6. ThreadsAreStarted' /\ RivalsAreRaced'
    BY <2>1, <2>2 DEF ThreadsAreStarted, RivalsAreRaced
  <2>7. RegistryIsExact'
    <3>1. ASSUME NEW k \in Sessions, k # m
          PROVE  Registered(k)' <=> Registered(k)
      BY <2>0, <2>1, <3>1 DEF Registered
    <3>2. ~Registered(m)'
      BY <2>1, <2>2 DEF Registered
    <3> QED BY <2>1, <3>1, <3>2 DEF RegistryIsExact
  <2> QED BY <2>3, <2>5, <2>6, <2>7 DEF Kept
<1> QED BY <1>2, <1>3

\* Only what close took is closed, and nobody else has it in hand.
LEMMA CloseMasterStep ==
  ASSUME IInv, NEW n \in Sessions, CloseMaster(n)
  PROVE  Kept'
<1> USE DEF IInv
<1>1. /\ shell \in [Sessions -> Shell] /\ shell[n] \in Shell
      /\ registry \in [DOMAIN registry -> Sessions]
      /\ Range(registry) \subseteq Sessions
      /\ closing \subseteq Sessions /\ writers \subseteq Sessions
  BY DEF TypeOK, Range
<1>2. /\ shell'[n] = [shell[n] EXCEPT !.master = "closed"]
      /\ \A m \in Sessions \ {n} : shell'[m] = shell[m]
      /\ UNCHANGED <<registry, writers, raced, closed>>
      /\ n \in closing /\ closing' = closing \ {n}
  BY <1>1 DEF CloseMaster, Becomes
<1>3. \A m \in Sessions : /\ shell'[m].id = shell[m].id
                          /\ shell'[m].opener = shell[m].opener
                          /\ shell'[m].thread = shell[m].thread
  BY <1>1, <1>2 DEF Shell
<1>4. n \notin writers /\ n \notin Range(registry) /\ shell[n].opener = "open"
  BY <1>2 DEF FdsAreOpen
<1>5. EntriesAreOpen'
  BY <1>1, <1>2, <1>3 DEF EntriesAreOpen
<1>6. FdsAreOpen'
  BY <1>1, <1>2, <1>3, <1>4 DEF FdsAreOpen, FdsInUseAreOpen
<1>7. ThreadsAreStarted'
  BY <1>2, <1>3 DEF ThreadsAreStarted
<1>8. RivalsAreRaced'
  BY <1>2, <1>3 DEF RivalsAreRaced, Active
<1>9. RegistryIsExact'
  BY <1>2, <1>3 DEF RegistryIsExact, Registered
<1> QED BY <1>5, <1>6, <1>7, <1>8, <1>9 DEF Kept

\* The thread's last step removes the entry of its id: its own, or a rival's.
LEMMA RemoveStep ==
  ASSUME IInv, NEW n \in Sessions, ReaderRemoves(n)
  PROVE  Kept'
<1> USE DEF IInv
<1>1. /\ shell \in [Sessions -> Shell] /\ shell[n] \in Shell
      /\ registry \in [DOMAIN registry -> Sessions]
  BY DEF TypeOK
<1>2. /\ shell'[n].id = shell[n].id /\ shell'[n].opener = shell[n].opener
      /\ shell'[n].master = shell[n].master /\ shell'[n].thread = "done"
      /\ shell[n].thread = "remove"
      /\ \A m \in Sessions \ {n} : shell'[m] = shell[m]
      /\ UNCHANGED <<writers, closing, raced, closed>>
      /\ DOMAIN registry' = DOMAIN registry \ {shell[n].id}
      /\ \A i \in DOMAIN registry' : registry'[i] = registry[i]
  BY <1>1 DEF ReaderRemoves, Becomes, Without, Restrict, Shell
<1>3. EntriesAreOpen'
  BY <1>1, <1>2 DEF EntriesAreOpen
<1>4. FdsAreOpen'
  <2>1. Range(registry)' \subseteq Range(registry)
    BY <1>2 DEF Range
  <2>2. Range(registry) \subseteq Sessions /\ writers \cup closing \subseteq Sessions
    BY DEF TypeOK, Range
  <2> QED BY <1>2, <2>1, <2>2 DEF FdsAreOpen, FdsInUseAreOpen
<1>5. ThreadsAreStarted' /\ RivalsAreRaced'
  BY <1>2 DEF ThreadsAreStarted, RivalsAreRaced, Active
<1>6. RegistryIsExact'
  <2>1. ASSUME NEW m \in Sessions \ {n}, m \notin raced
        PROVE  Registered(m)' <=> Registered(m)
    <3>1. CASE shell[m].id # shell[n].id
      BY <1>2, <3>1 DEF Registered
    <3>2. CASE shell[m].id = shell[n].id
      <4>1. ~Active(shell[m]) /\ shell[m].opener # "started"
        BY <1>2, <2>1, <3>2 DEF RivalsAreRaced, Active
      <4>2. ~Registered(m)
        BY <2>1, <4>1 DEF RegistryIsExact, Active, ThreadsAreStarted
      <4> QED BY <1>2, <4>2 DEF Registered
    <3> QED BY <3>1, <3>2
  <2>2. ~Registered(n)'
    BY <1>2 DEF Registered
  <2> QED BY <1>2, <2>1, <2>2 DEF RegistryIsExact
<1> QED BY <1>3, <1>4, <1>5, <1>6 DEF Kept

\* The inductive invariant is one.
LEMMA InvStep == IInv /\ [Next]_vars => IInv'
<1> SUFFICES ASSUME IInv, [Next]_vars PROVE IInv'
  OBVIOUS
<1>1. TypeOK /\ TypeOK'
  BY TypeStep DEF IInv
<1>2. ASSUME Quiet PROVE Kept'
  BY <1>2, QuietStep DEF Kept
<1>3. ASSUME NEW n \in Sessions, NEW id \in ShellIds,
             OpenCheck(n, id) \/ StartShell(n) \/ StartFails(n)
      PROVE  Kept'
  BY <1>3, OpenStep
<1>4. ASSUME NEW n \in Sessions, StartShell(n) \/ StartFails(n) PROVE Kept'
  BY <1>3, <1>4, ShellBounds
<1>5. ASSUME NEW n \in Sessions, Insert(n) \/ CloseMaster(n) \/ ReaderRemoves(n)
      PROVE  Kept'
  BY <1>5, InsertStep, CloseMasterStep, RemoveStep
<1>6. ASSUME NEW id \in ShellIds, WriteBegins(id) \/ CloseRemoves(id)
      PROVE  Kept'
  BY <1>6, HandlerStep
<1>7. ASSUME NEW n \in Sessions,
             \/ WriteEnds(n) \/ CloseSignals(n)
             \/ (Reader(n) /\ ~ReaderRemoves(n)) \/ ReaderFails(n)
             \/ ChildWrites(n) \/ ChildReads(n) \/ ChildExits(n)
      PROVE  Kept'
  BY <1>1, <1>2, <1>7, QuietSession
<1>8. ASSUME ConnectionDrops \/ UNCHANGED vars PROVE Kept'
  BY <1>1, <1>2, <1>8, QuietDrop
<1>9. Kept'
  BY <1>3, <1>4, <1>5, <1>6, <1>7, <1>8 DEF Next
<1> QED BY <1>1, <1>9 DEF IInv, Kept

\* It holds in every state.
LEMMA Invariance == Spec => []IInv
<1>1. Init => IInv
  <2> SUFFICES ASSUME Init PROVE IInv
    OBVIOUS
  <2>1. TypeOK
    BY ShellBounds DEF Init, TypeOK, Unused, Shell, Fd, Sessions
  <2>2. /\ DOMAIN registry = {} /\ writers = {} /\ closing = {} /\ closed = {}
        /\ \A n \in Sessions : shell[n].opener = "unused" /\ shell[n].thread = "none"
    BY DEF Init, Unused
  <2>3. Range(registry) = {}
    BY <2>2 DEF Range
  <2> QED
    BY <2>1, <2>2, <2>3
    DEF IInv, EntriesAreOpen, FdsAreOpen, FdsInUseAreOpen, ThreadsAreStarted,
        RivalsAreRaced, Active, RegistryIsExact, Registered
<1> QED BY <1>1, InvStep, PTL DEF Spec

-----------------------------------------------------------------------------
\* No write, resize or close goes to a descriptor that is not open.
THEOREM DescriptorsInUseAreOpen == Spec => []FdsInUseAreOpen
<1>1. IInv => FdsInUseAreOpen
  BY DEF IInv, FdsAreOpen
<1> QED BY <1>1, Invariance, PTL

\* A session whose id was not shared is in the map exactly while it is open.
THEOREM TheMapIsExact == Spec => []RegistryIsExact
<1>1. IInv => RegistryIsExact
  BY DEF IInv
<1> QED BY <1>1, Invariance, PTL
=============================================================================
