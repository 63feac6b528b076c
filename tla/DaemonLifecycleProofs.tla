----------------------- MODULE DaemonLifecycleProofs ------------------------
(***************************************************************************)
(* Theorems about DaemonLifecycle, for any number of process ids and       *)
(* commands: types in every case; and if commands do not overlap and a     *)
(* daemon writes its file in time, one daemon at most, which its file      *)
(* names or stop has told, until one is started beside one given up on.    *)
(***************************************************************************)
EXTENDS DaemonLifecycle, TLAPS

LEMMA EndedType == ASSUME NEW p PROVE Ended(p) \in {"zombie", "free"}
  BY DEF Ended

\* SIGTERM keeps the types, and leaves file and commands to its caller.
LEMMA TermType ==
  ASSUME LifeTypeOK, NEW p \in Pid, Term(p)
  PROVE  /\ proc' \in [Pid -> State]
         /\ stop' \in [Pid -> BOOLEAN]
         /\ linked' \subseteq {q \in Pid : proc'[q] = "opened"}
         /\ \A q \in Pid : stop'[q] => proc'[q] \in Grown
         /\ left' \subseteq {q \in Pid : Daemon(q)'}
<1>. USE DEF Daemon
<1>1. CASE proc[p] \in Grown /\ stop' = [stop EXCEPT ![p] = TRUE]
           /\ UNCHANGED <<proc, linked, left>>
  BY <1>1 DEF LifeTypeOK
<1>2. CASE proc[p] \in Young \cup {"other"} /\ End(p) /\ linked' = linked \ {p}
  BY <1>2, EndedType DEF LifeTypeOK, End, Become, State, Young, Grown
<1>3. CASE proc[p] \in {"zombie", "other"} /\ UNCHANGED <<proc, stop, linked, left>>
  BY <1>3 DEF LifeTypeOK
<1> QED BY <1>1, <1>2, <1>3 DEF Term

\* Every state of every behaviour has the types of LifeTypeOK, whatever overlaps or is
\* late; in particular a process is written down as having the PID file open only
\* while it is writing it, and a stop request belongs to a daemon that can see it.
THEOREM LifeTypeCorrect == Spec => []LifeTypeOK
<1> USE LifeAssumption DEF Daemon
<1>1. Init => LifeTypeOK
  <2> SUFFICES ASSUME Init PROVE LifeTypeOK
    OBVIOUS
  <2>1. proc \in [Pid -> State] /\ stop \in [Pid -> BOOLEAN]
        /\ \A p \in Pid : stop[p] => proc[p] \in Grown
    BY DEF Init, State
  <2>2. cmd \in [Cmd -> [pc : Pc, pid : Pid \cup {NoPid}]]
    BY DEF Init, Pc
  <2> QED BY <2>1, <2>2 DEF Init, LifeTypeOK
<1>2. LifeTypeOK /\ [Next]_vars => LifeTypeOK'
  <2> SUFFICES ASSUME LifeTypeOK, [Next]_vars PROVE LifeTypeOK'
    OBVIOUS
  <2> USE DEF LifeTypeOK
  <2>1. ASSUME NEW c \in Cmd, Command(c) PROVE LifeTypeOK'
    <3> USE DEF Pc, MayBegin, Over, Goto
    <3>1. CASE StartRead(c)
      BY <3>1 DEF StartRead, ReadPid
    <3>2. CASE StartRefuse(c)
      BY <3>2 DEF StartRefuse
    <3>3. CASE StartFork(c)
      BY <3>3 DEF StartFork, Become, State, Young, Grown
    <3>4. CASE Report(c)
      <4>1. proc' \in [Pid -> State]
            /\ \A p \in Pid : proc'[p] = proc[p] \/ proc[p] = "zombie"
        BY <3>4 DEF Report, State
      <4> QED BY <3>4, <4>1 DEF Report, Young, Grown
    <3>5. CASE StopRead(c)
      BY <3>5 DEF StopRead
    <3>6. CASE StopBlank(c)
      BY <3>6 DEF StopBlank, Unlink
    <3>7. CASE StopCheck(c)
      BY <3>7 DEF StopCheck
    <3>8. CASE StopKill(c)
      <4>1. CASE ~InProc(cmd[c].pid)
        BY <3>8, <4>1 DEF StopKill
      <4>2. CASE InProc(cmd[c].pid)
        <5>1. cmd[c].pid \in Pid /\ Term(cmd[c].pid)
          BY <3>8, <4>2 DEF StopKill, InProc
        <5> QED BY <3>8, <4>2, <5>1, TermType DEF StopKill
      <4> QED BY <4>1, <4>2
    <3>9. CASE StopWait(c)
      BY <3>9 DEF StopWait
    <3>10. CASE StopUnlink(c)
      BY <3>10 DEF StopUnlink, Unlink
    <3>11. CASE Interrupt(c)
      BY <3>11 DEF Interrupt
    <3> QED BY <2>1, <3>1, <3>2, <3>3, <3>4, <3>5, <3>6, <3>7, <3>8, <3>9, <3>10, <3>11
            DEF Command
  <2>2. ASSUME NEW p \in Pid, DaemonStep(p) PROVE LifeTypeOK'
    <3> USE EndedType DEF Become, End, State, Young, Grown
    <3>1. CASE WriteOpen(p)
      BY <3>1 DEF WriteOpen
    <3>2. CASE WritePid(p)
      BY <3>2 DEF WritePid
    <3>3. CASE Arm(p)
      BY <3>3 DEF Arm
    <3>4. CASE LoadPrograms(p)
      BY <3>4 DEF LoadPrograms
    <3>5. CASE Fail(p)
      BY <3>5 DEF Fail
    <3>6. CASE LeaveLoop(p)
      BY <3>6 DEF LeaveLoop
    <3>7. CASE Unload(p)
      BY <3>7 DEF Unload
    <3>8. CASE RemovePid(p)
      BY <3>8 DEF RemovePid, Unlink
    <3>9. CASE Exit(p)
      BY <3>9 DEF Exit
    <3> QED BY <2>2, <3>1, <3>2, <3>3, <3>4, <3>5, <3>6, <3>7, <3>8, <3>9 DEF DaemonStep
  <2>3. ASSUME NEW p \in Pid, Crash(p) PROVE LifeTypeOK'
    BY <2>3, EndedType DEF Crash, Become, End, State, Young, Grown
  <2>4. ASSUME NEW p \in Pid, Signal(p) PROVE LifeTypeOK'
    BY <2>4, TermType DEF Signal
  <2>5. ASSUME NEW p \in Pid, Other(p) PROVE LifeTypeOK'
    BY <2>5 DEF Other, Become, State, Young, Grown
  <2>6. CASE UNCHANGED vars
    BY <2>6 DEF vars
  <2> QED BY <2>1, <2>2, <2>3, <2>4, <2>5, <2>6 DEF Next
<1> QED BY <1>1, <1>2, PTL DEF Spec
---------------------------------------------------------------------------
(* One daemon.  Commands do not overlap and a daemon writes its file in time *)
(* from here on.                                                             *)

\* It has yet to write the PID file, or has written it and not removed it.
Unnamed(p) == proc[p] \in {"forked", "opened"}
Named(p)   == proc[p] \in {"named", "armed", "loaded", "stopping", "unloaded"}
Owns(p)    == Unnamed(p) \/ Named(p)

OneCommand == \A c, d \in Cmd : cmd[c].pc # "idle" /\ cmd[d].pc # "idle" => c = d

\* A command that is under way has seen the only owner there is, unless it is a start
\* and stop had removed the owner's file; one that is about to remove the file has seen
\* the owner end or has given up on it; nobody has given up on the child of a start.
SeenByCommand ==
  \A c \in Cmd, p \in Pid :
    cmd[c].pc # "idle" /\ Owns(p) =>
      /\ cmd[c].pid = p \/ (p \in left /\ cmd[c].pc = "start")
      /\ cmd[c].pc = "unlink" => p \in left
      /\ cmd[c].pc = "started" => p \notin left

OneOwner == \A p, q \in Pid : Owns(p) /\ Owns(q) => p = q

\* Who has no file yet is waited for; who writes it writes the one that is there.
InTheMaking ==
  \A p \in Pid :
    /\ Unnamed(p) => \E c \in Cmd : cmd[c].pc = "started"
    /\ proc[p] = "opened" => p \in linked

FileNamesOwner ==
  \A p \in Pid : Named(p) => file = p \/ (p \in left /\ file = "none")

\* An owner whose end stop waits for, or has given up waiting for, has been told.
Told ==
  \A p \in Pid :
    /\ p \in left /\ Owns(p) => stop[p]
    /\ \A c \in Cmd : cmd[c].pc = "wait" /\ cmd[c].pid = p /\ Owns(p) => stop[p]

OwnerInv == /\ LifeTypeOK
            /\ OneCommand
            /\ SeenByCommand
            /\ OneOwner
            /\ InTheMaking
            /\ FileNamesOwner
            /\ Told

\* A step that ends processes, if it does anything to them, cannot break it.
LEMMA EndingKeeps ==
  ASSUME OwnerInv, LifeTypeOK', cmd' = cmd, file' = file,
         \A q \in Pid : proc'[q] = proc[q] \/ proc'[q] \in {"free", "zombie", "other", "exiting"},
         \A q \in linked : proc'[q] = "opened" => q \in linked',
         left' \subseteq left,
         \A q \in Pid : proc'[q] = proc[q]
                          => (stop[q] => stop'[q]) /\ (q \in left => q \in left')
  PROVE  OwnerInv'
<1>1. \A q \in Pid : /\ Owns(q)' => Owns(q) /\ proc'[q] = proc[q]
                     /\ Unnamed(q)' => Unnamed(q)
                     /\ Named(q)' => Named(q)
                     /\ proc'[q] = "opened" => proc[q] = "opened"
  BY DEF Owns, Unnamed, Named
<1>2. OneCommand' /\ OneOwner'
  BY <1>1 DEF OwnerInv, OneCommand, OneOwner
<1>3. SeenByCommand'
  BY <1>1 DEF OwnerInv, SeenByCommand
<1>4. InTheMaking'
  BY <1>1 DEF OwnerInv, InTheMaking
<1>5. FileNamesOwner'
  BY <1>1 DEF OwnerInv, FileNamesOwner, Owns
<1>6. Told'
  BY <1>1 DEF OwnerInv, Told
<1> QED BY <1>2, <1>3, <1>4, <1>5, <1>6 DEF OwnerInv

\* In particular the end of one process.
LEMMA EndKeeps ==
  ASSUME OwnerInv, LifeTypeOK', NEW p \in Pid, End(p), proc[p] \notin {"free", "zombie"},
         cmd' = cmd, file' = file, linked' \in {linked, linked \ {p}}
  PROVE  OwnerInv'
<1>1. proc'[p] \in {"free", "zombie"} /\ proc'[p] # proc[p]
      /\ \A q \in Pid : q # p => proc'[q] = proc[q] /\ stop'[q] = stop[q]
  BY EndedType DEF End, Become, OwnerInv, LifeTypeOK
<1>2. left' = left \ {p}
  BY DEF End
<1> QED BY <1>1, <1>2, EndingKeeps

LEMMA TermEnds ==
  ASSUME LifeTypeOK, NEW p \in Pid, Term(p)
  PROVE  /\ \A q \in Pid : proc'[q] = proc[q] \/ proc'[q] \in {"free", "zombie"}
         /\ \A q \in linked : proc'[q] = "opened" => q \in linked'
         /\ left' \subseteq left
         /\ \A q \in Pid : proc'[q] = proc[q]
                             => (stop[q] => stop'[q]) /\ (q \in left => q \in left')
         /\ Owns(p)' => stop'[p]
<1>1. CASE proc[p] \in Young \cup {"other"} /\ End(p) /\ linked' = linked \ {p}
  <2>1. proc'[p] \in {"free", "zombie"} /\ proc'[p] # proc[p]
    BY <1>1, EndedType DEF End, Become, LifeTypeOK, Young
  <2> QED BY <1>1, <2>1 DEF End, Become, LifeTypeOK, Owns, Unnamed, Named
<1>2. CASE proc[p] \in Grown /\ stop' = [stop EXCEPT ![p] = TRUE]
           /\ UNCHANGED <<proc, linked, left>>
  BY <1>2 DEF LifeTypeOK
<1>3. CASE proc[p] \in {"zombie", "other"} /\ UNCHANGED <<proc, stop, linked, left>>
  BY <1>3 DEF Owns, Unnamed, Named
<1> QED BY <1>1, <1>2, <1>3 DEF Term

\* Every command keeps it, unless it starts a daemon beside one given up on.
LEMMA CommandKeeps ==
  ASSUME Serial, Prompt, OwnerInv, LifeTypeOK', NEW c \in Cmd, Command(c), ~beside'
  PROVE  OwnerInv'
<1> USE LifeAssumption DEF OwnerInv, LifeTypeOK
<1>0. MayBegin(c) => \A d \in Cmd : cmd[d].pc = "idle"
  BY DEF MayBegin
<1>a. \A p \in Pid : Unnamed(p) => p \notin left
  BY DEF Told, Owns, Unnamed, Grown
<1>1. CASE StartRead(c)
  <2>1. \A p \in Pid : Owns(p) => Named(p)
    BY <1>0, <1>1 DEF StartRead, InTheMaking, Owns
  <2>2. \A p \in Pid : Owns(p) => p = ReadPid \/ p \in left
    BY <2>1 DEF FileNamesOwner, ReadPid
  <2>3. \A d \in Cmd : cmd'[d].pc # "idle" => d = c /\ cmd'[d].pc = "start" /\ cmd'[d].pid = ReadPid
    BY <1>0, <1>1 DEF StartRead
  <2>4. \A p \in Pid : (Owns(p)' <=> Owns(p)) /\ (Named(p)' <=> Named(p)) /\ (Unnamed(p)' <=> Unnamed(p))
    BY <1>1 DEF StartRead, Owns, Named, Unnamed
  <2>5. UNCHANGED <<proc, stop, file, linked, left>>
    BY <1>1 DEF StartRead
  <2>6. SeenByCommand'
    BY <2>2, <2>3, <2>4, <2>5 DEF SeenByCommand
  <2>7. InTheMaking' /\ FileNamesOwner' /\ Told'
    BY <2>1, <2>3, <2>4, <2>5 DEF InTheMaking, FileNamesOwner, Told, Owns, Unnamed, Named
  <2> QED BY <2>3, <2>4, <2>6, <2>7 DEF OneCommand, OneOwner
<1>2. CASE StartRefuse(c)
  BY <1>2 DEF StartRefuse, Over, OneCommand, SeenByCommand, OneOwner, InTheMaking, FileNamesOwner,
              Told, Owns, Unnamed, Named
<1>3. CASE StartFork(c)
  <2>0. left = {} /\ left' = {}
    BY <1>3 DEF StartFork
  <2>1. \A q \in Pid : ~Owns(q)
    BY <1>3, <2>0 DEF StartFork, InProc, SeenByCommand, Owns, Unnamed, Named
  <2>2. PICK p \in Pid : /\ proc[p] = "free"
                         /\ Become(p, "forked")
                         /\ cmd' = [cmd EXCEPT ![c] = [pc |-> "started", pid |-> p]]
    BY <1>3 DEF StartFork
  <2>3. \A q \in Pid : Owns(q)' => q = p
    BY <2>1, <2>2 DEF Become, Owns, Unnamed, Named
  <2>4. proc'[p] = "forked" /\ cmd'[c].pc = "started" /\ cmd'[c].pid = p
    BY <2>2 DEF Become
  <2>5. \A d \in Cmd : cmd'[d].pc # "idle" => d = c
    BY <1>3, <2>2 DEF StartFork, OneCommand
  <2>6. OneCommand' /\ SeenByCommand' /\ OneOwner'
    BY <2>0, <2>3, <2>4, <2>5 DEF OneCommand, SeenByCommand, OneOwner
  <2>7. InTheMaking' /\ FileNamesOwner' /\ Told'
    BY <2>0, <2>3, <2>4, <2>5 DEF InTheMaking, FileNamesOwner, Told, Owns, Unnamed, Named
  <2> QED BY <2>6, <2>7
<1>4. CASE Report(c)
  <2>1. \A q \in Pid : ~Unnamed(q)
    BY <1>4, <1>a DEF Report, SeenByCommand, Owns, Unnamed, Named
  <2>2. \A q \in Pid : proc'[q] = proc[q] \/ proc'[q] = "free"
    BY <1>4 DEF Report
  <2>3. \A q \in Pid : (Owns(q)' => Owns(q)) /\ (Named(q)' => Named(q)) /\ ~Unnamed(q)'
    BY <2>1, <2>2 DEF Owns, Unnamed, Named
  <2>4. \A d \in Cmd : cmd'[d].pc = "idle"
    BY <1>4 DEF Report, Over, OneCommand
  <2>5. UNCHANGED <<stop, file, linked, left>>
    BY <1>4 DEF Report
  <2> QED BY <2>3, <2>4, <2>5
          DEF OneCommand, SeenByCommand, OneOwner, InTheMaking, FileNamesOwner, Told, Unnamed
<1>5. CASE StopRead(c)
  <2>1. \A p \in Pid : Owns(p) => p = file
    BY <1>0, <1>5 DEF StopRead, InTheMaking, FileNamesOwner, Owns
  <2>2. \A d \in Cmd : cmd'[d].pc # "idle" => d = c /\ cmd'[d].pc = "stop" /\ cmd'[d].pid = file
    BY <1>0, <1>5 DEF StopRead
  <2>3. UNCHANGED <<proc, stop, file, linked, left>>
    BY <1>5 DEF StopRead
  <2>4. \A p \in Pid : ~Unnamed(p)
    BY <1>0, <1>5 DEF StopRead, InTheMaking
  <2> QED BY <2>1, <2>2, <2>3, <2>4
          DEF OneCommand, SeenByCommand, OneOwner, InTheMaking, FileNamesOwner, Told, Owns, Unnamed,
              Named
<1>6. CASE StopBlank(c)
  <2>1. \A p \in Pid : ~Owns(p)
    BY <1>0, <1>6 DEF StopBlank, InTheMaking, FileNamesOwner, Owns
  <2>2. \A p \in Pid : ~Owns(p)'
    BY <1>6, <2>1 DEF StopBlank, Owns, Unnamed, Named
  <2> QED BY <1>6, <2>2
          DEF StopBlank, OneCommand, SeenByCommand, OneOwner, InTheMaking, FileNamesOwner, Told, Owns,
              Unnamed
<1>7. CASE StopCheck(c)
  <2>1. cmd[c].pc = "stop" /\ \A p \in Pid : Owns(p) => cmd[c].pid = p /\ InProc(p)
    BY <1>7 DEF StopCheck, SeenByCommand, InProc, Owns, Unnamed, Named
  <2>2. \/ \E p \in Pid : Owns(p) /\ cmd' = [cmd EXCEPT ![c].pc = "kill"]
        \/ (\A p \in Pid : ~Owns(p))
    BY <1>7, <2>1 DEF StopCheck, Goto
  <2>3. cmd' = [cmd EXCEPT ![c].pc = cmd'[c].pc] /\ cmd'[c].pc \in {"kill", "unlink"}
    BY <1>7 DEF StopCheck, Goto
  <2> QED BY <1>7, <2>1, <2>2, <2>3
          DEF StopCheck, OneCommand, SeenByCommand, OneOwner, InTheMaking, FileNamesOwner, Told, Owns,
              Unnamed, Named
<1>8. CASE StopKill(c)
  <2>0. cmd[c].pc = "kill" /\ \A q \in Pid : ~Unnamed(q)
    BY <1>8 DEF StopKill, InTheMaking, OneCommand
  <2>1. CASE ~InProc(cmd[c].pid)
    <3>1. Over(c) /\ UNCHANGED <<proc, stop, linked, left, file>>
      BY <1>8, <2>1 DEF StopKill
    <3> QED BY <2>0, <3>1
            DEF Over, OneCommand, SeenByCommand, OneOwner, InTheMaking, FileNamesOwner, Told, Owns,
                Unnamed, Named
  <2>2. CASE InProc(cmd[c].pid)
    <3>1. /\ cmd[c].pid \in Pid /\ Term(cmd[c].pid)
          /\ cmd' = [cmd EXCEPT ![c].pc = "wait"]
          /\ file' = file
      BY <1>8, <2>2 DEF StopKill, InProc, Goto
    <3>2. /\ \A q \in Pid : proc'[q] = proc[q] \/ proc'[q] \in {"free", "zombie"}
          /\ left' \subseteq left
          /\ \A q \in Pid : proc'[q] = proc[q]
                              => (stop[q] => stop'[q]) /\ (q \in left => q \in left')
          /\ Owns(cmd[c].pid)' => stop'[cmd[c].pid]
      BY <3>1, TermEnds
    <3>3. \A q \in Pid : /\ Owns(q)' => Owns(q) /\ proc'[q] = proc[q]
                         /\ Named(q)' => Named(q) /\ proc'[q] = proc[q]
                         /\ ~Unnamed(q)'
      BY <2>0, <3>2 DEF Owns, Unnamed, Named
    <3>a. \A d \in Cmd : cmd'[d].pc # "idle" => cmd[d].pc # "idle"
      BY <2>0, <2>2, <1>8 DEF StopKill, Goto
    <3>4. OneCommand' /\ OneOwner' /\ InTheMaking'
      BY <3>a, <3>3 DEF OneCommand, OneOwner, InTheMaking, Unnamed
    <3>5. SeenByCommand' /\ FileNamesOwner'
      BY <2>0, <3>1, <3>2, <3>3 DEF OneCommand, SeenByCommand, FileNamesOwner
    <3>6. Told'
      BY <2>0, <3>1, <3>2, <3>3 DEF OneCommand, Told
    <3> QED BY <3>4, <3>5, <3>6
  <2> QED BY <2>1, <2>2
<1>9. CASE StopWait(c)
  <2>1. \A q \in Pid : ~Unnamed(q)
    BY <1>9 DEF StopWait, InTheMaking, OneCommand
  <2>2. \A q \in Pid : (Owns(q)' <=> Owns(q)) /\ (Named(q)' <=> Named(q)) /\ ~Unnamed(q)'
    BY <1>9, <2>1 DEF StopWait, Owns, Unnamed, Named
  <2>3. \A q \in Pid : Owns(q) => q = cmd[c].pid /\ Daemon(q)
    BY <1>9 DEF StopWait, SeenByCommand, Daemon, Young, Grown, Owns, Unnamed, Named
  <2>4. \A q \in Pid : Owns(q) => q \in left' /\ stop[q]
    BY <1>9, <2>3 DEF StopWait, Told
  <2>5. cmd' = [cmd EXCEPT ![c].pc = "unlink"] /\ left \subseteq left'
        /\ UNCHANGED <<proc, stop, file, linked>>
    BY <1>9 DEF StopWait, Goto
  <2>6. OneCommand' /\ OneOwner' /\ InTheMaking'
    <3>1. \A d \in Cmd : cmd'[d].pc # "idle" => cmd[d].pc # "idle"
      BY <1>9 DEF StopWait, Goto
    <3> QED BY <2>2, <2>5, <3>1 DEF OneCommand, OneOwner, InTheMaking, Unnamed
  <2>7. SeenByCommand' /\ FileNamesOwner' /\ Told'
    BY <1>9, <2>2, <2>3, <2>4, <2>5
       DEF StopWait, OneCommand, SeenByCommand, FileNamesOwner, Told, Owns, Unnamed, Named
  <2> QED BY <2>6, <2>7
<1>10. CASE StopUnlink(c)
  <2>1. \A q \in Pid : Owns(q) => q \in left
    BY <1>10 DEF StopUnlink, SeenByCommand
  <2>2. \A q \in Pid : (Owns(q)' <=> Owns(q)) /\ (Named(q)' <=> Named(q)) /\ ~Unnamed(q)'
    BY <1>10, <1>a, <2>1 DEF StopUnlink, Owns, Unnamed, Named
  <2>3. \A d \in Cmd : cmd'[d].pc = "idle"
    BY <1>10 DEF StopUnlink, Over, OneCommand
  <2>4. file' = "none" /\ left' = left /\ stop' = stop /\ proc' = proc
    BY <1>10 DEF StopUnlink, Unlink
  <2> QED BY <2>1, <2>2, <2>3, <2>4
          DEF OneCommand, SeenByCommand, OneOwner, InTheMaking, FileNamesOwner, Told, Owns, Unnamed
<1>11. CASE Interrupt(c)
  <2>1. \A q \in Pid : ~Unnamed(q)
    BY <1>11 DEF Interrupt, InTheMaking, OneCommand
  <2> QED BY <1>11, <2>1
          DEF Interrupt, Over, OneCommand, SeenByCommand, OneOwner, InTheMaking, FileNamesOwner, Told,
              Owns, Unnamed, Named
<1> QED BY <1>1, <1>2, <1>3, <1>4, <1>5, <1>6, <1>7, <1>8, <1>9, <1>10, <1>11 DEF Command

\* So does every step of a daemon.
LEMMA DaemonKeeps ==
  ASSUME OwnerInv, LifeTypeOK', NEW p \in Pid, DaemonStep(p)
  PROVE  OwnerInv'
<1> USE DEF OwnerInv, LifeTypeOK, Become
<1>a. Unnamed(p) => p \notin left
  BY DEF Told, Owns, Unnamed, Grown
<1>1. CASE WriteOpen(p)
  <2>1. Owns(p) /\ \A q \in Pid : Owns(q)' => q = p
    BY <1>1 DEF WriteOpen, OneOwner, Owns, Unnamed, Named
  <2>2. proc'[p] = "opened" /\ p \in linked' /\ Unnamed(p) /\ UNCHANGED <<cmd, stop, left>>
    BY <1>1 DEF WriteOpen, Unnamed
  <2> QED BY <1>a, <2>1, <2>2
          DEF OneCommand, SeenByCommand, OneOwner, InTheMaking, FileNamesOwner, Told, Owns, Unnamed,
              Named
<1>2. CASE WritePid(p)
  <2>1. Owns(p) /\ Unnamed(p) /\ \A q \in Pid : Owns(q)' => q = p
    BY <1>2 DEF WritePid, OneOwner, Owns, Unnamed, Named
  <2>2. proc'[p] = "named" /\ file' = p /\ UNCHANGED <<cmd, stop, left>>
    BY <1>2 DEF WritePid, InTheMaking
  <2> QED BY <1>a, <2>1, <2>2
          DEF OneCommand, SeenByCommand, OneOwner, InTheMaking, FileNamesOwner, Told, Owns, Unnamed,
              Named
<1>3. CASE Arm(p) \/ LoadPrograms(p) \/ LeaveLoop(p) \/ Unload(p)
  <2>1. /\ \A q \in Pid : /\ Owns(q)' = Owns(q) /\ Unnamed(q)' = Unnamed(q)
                          /\ Named(q)' = Named(q)
                          /\ proc'[q] = "opened" => proc[q] = "opened"
        /\ UNCHANGED <<stop, file, linked, cmd, left>>
    BY <1>3 DEF Arm, LoadPrograms, LeaveLoop, Unload, Owns, Unnamed, Named
  <2> QED BY <2>1 DEF OneCommand, SeenByCommand, OneOwner, InTheMaking, FileNamesOwner, Told
<1>4. CASE RemovePid(p)
  <2>1. \A q \in Pid : ~Owns(q)'
    BY <1>4 DEF RemovePid, OneOwner, Owns, Unnamed, Named
  <2> QED BY <1>4, <2>1
          DEF RemovePid, OneCommand, SeenByCommand, OneOwner, InTheMaking, FileNamesOwner, Told, Owns,
              Unnamed
<1>5. CASE Fail(p) \/ Exit(p)
  <2>1. End(p) /\ proc[p] \notin {"free", "zombie"} /\ UNCHANGED <<file, linked, cmd>>
    BY <1>5 DEF Fail, Exit
  <2> QED BY <2>1, EndKeeps
<1> QED BY <1>1, <1>2, <1>3, <1>4, <1>5 DEF DaemonStep

LEMMA OwnerStep ==
  ASSUME Serial, Prompt, OwnerInv, LifeTypeOK', [Next]_vars
  PROVE  OwnerInv' \/ beside'
<1>1. ASSUME NEW p \in Pid, Crash(p) \/ Signal(p) \/ Other(p) PROVE OwnerInv'
  <2>1. CASE Crash(p)
    <3>1. End(p) /\ proc[p] \notin {"free", "zombie"} /\ linked' = linked \ {p}
          /\ UNCHANGED <<file, cmd>>
      BY <2>1 DEF Crash, Young, Grown
    <3> QED BY <3>1, EndKeeps
  <2>2. CASE Signal(p)
    BY <2>2, TermEnds, EndingKeeps DEF Signal, OwnerInv
  <2>3. CASE Other(p)
    <3>1. \A q \in Pid : proc'[q] = proc[q] \/ proc'[q] \in {"free", "other"}
      BY <2>3 DEF Other, Become, OwnerInv, LifeTypeOK
    <3> QED BY <2>3, <3>1, EndingKeeps DEF Other
  <2> QED BY <1>1, <2>1, <2>2, <2>3
<1>2. CASE UNCHANGED vars
  BY <1>2, EndingKeeps DEF vars
<1> QED BY <1>1, <1>2, CommandKeeps, DaemonKeeps DEF Next

LEMMA BesideLasts == ASSUME beside, [Next]_vars PROVE beside'
BY DEF Next, vars, Command, DaemonStep, StartRead, StartRefuse, StartFork, Report, StopRead,
       StopBlank, StopCheck, StopKill, StopWait, StopUnlink, Interrupt, WriteOpen, WritePid, Arm,
       LoadPrograms, Fail, LeaveLoop, Unload, RemovePid, Exit, Crash, Signal, Other
---------------------------------------------------------------------------
LEMMA OwnerInvHolds == Serial /\ Prompt => (Spec => [](beside \/ OwnerInv))
<1> SUFFICES ASSUME Serial, Prompt PROVE Spec => [](beside \/ OwnerInv)
  OBVIOUS
<1>1. LifeTypeOK /\ Init => OwnerInv
  BY DEF Init, OwnerInv, OneCommand, SeenByCommand, OneOwner, InTheMaking, FileNamesOwner, Told,
         Owns, Unnamed, Named
<1>2. LifeTypeOK' /\ (beside \/ OwnerInv) /\ [Next]_vars => (beside \/ OwnerInv)'
  BY OwnerStep, BesideLasts
<1> QED BY <1>1, <1>2, LifeTypeCorrect, PTL DEF Spec

\* If commands do not overlap and a daemon writes its file while start waits, two daemons
\* never write the logs at once, for any number of ids and commands, until one is started
\* beside one that stop has given up on.
THEOREM OneServerAlways == Serial /\ Prompt => (Spec => []OneServer)
<1> SUFFICES ASSUME Serial, Prompt PROVE Spec => []OneServer
  OBVIOUS
<1>1. beside \/ OwnerInv => OneServer
  BY DEF OwnerInv, OneOwner, OneServer, Serving, Owns, Named
<1> QED BY <1>1, OwnerInvHolds, PTL

\* Under the same conditions the PID file names the daemon that works, or stop has given up
\* on it.
THEOREM FileNamesServerAlways == Serial /\ Prompt => (Spec => []FileNamesServer)
<1> SUFFICES ASSUME Serial, Prompt PROVE Spec => []FileNamesServer
  OBVIOUS
<1>1. beside \/ OwnerInv => FileNamesServer
  BY DEF OwnerInv, FileNamesOwner, FileNamesServer, Serving, Named
<1> QED BY <1>1, OwnerInvHolds, PTL

\* And when stop removes the file, however long the daemon takes, no daemon works or is
\* about to but the one that was told, and it still knows.
THEOREM StoppedOrToldAlways == Serial /\ Prompt => (Spec => StoppedOrTold)
<1> SUFFICES ASSUME Serial, Prompt PROVE Spec => StoppedOrTold
  OBVIOUS
<1>1. beside \/ OwnerInv =>
        [\A c \in Cmd :
           StopUnlink(c) =>
             beside \/ \A p \in Pid : Working(p) => p = cmd[c].pid /\ stop[p]]_vars
  <2> SUFFICES ASSUME OwnerInv, NEW c \in Cmd, StopUnlink(c), NEW p \in Pid, Working(p)
               PROVE  p = cmd[c].pid /\ stop[p]
    OBVIOUS
  <2>1. Owns(p)
    BY DEF Working, Serving, Young, Owns, Unnamed, Named
  <2>2. p \in left /\ p = cmd[c].pid
    BY <2>1 DEF OwnerInv, SeenByCommand, StopUnlink
  <2> QED BY <2>1, <2>2 DEF OwnerInv, Told
<1> QED BY <1>1, OwnerInvHolds, PTL DEF StoppedOrTold

\* Under the same conditions a start that reports a failure leaves no daemon behind.
THEOREM FailureIsTrueAlways == Serial /\ Prompt => (Spec => FailureIsTrue)
<1> SUFFICES ASSUME Serial, Prompt PROVE Spec => FailureIsTrue
  OBVIOUS
<1>1. beside \/ OwnerInv =>
        [\A c \in Cmd :
           Report(c) /\ ~InProc(ReadPid) => beside \/ \A p \in Pid : ~Working(p)]_vars
  <2> SUFFICES ASSUME OwnerInv, ~beside, NEW c \in Cmd, Report(c), ~InProc(ReadPid),
                      NEW p \in Pid, Working(p)
               PROVE  FALSE
    OBVIOUS
  <2>1. Owns(p) /\ proc[p] # "free"
    BY DEF Working, Serving, Young, Owns, Unnamed, Named
  <2>2. cmd[c].pid = p /\ p \notin left /\ proc[p] \notin {"forked", "opened"}
    BY <2>1 DEF OwnerInv, SeenByCommand, Report
  <2>3. file = p
    BY <2>1, <2>2 DEF OwnerInv, FileNamesOwner, Owns, Unnamed
  <2> QED BY <2>1, <2>3 DEF InProc, ReadPid
<1> QED BY <1>1, OwnerInvHolds, PTL DEF FailureIsTrue
===========================================================================
