-------------------------- MODULE DaemonLifecycle ---------------------------
(***************************************************************************)
(* Start, stop and end of the daemon: DaemonRunner and run_loop in         *)
(* daemon.py, the stop command of cli.py, bpf_load and bpf_unload.         *)
(*                                                                         *)
(* All of them meet in one file that holds the daemon's process id.  It is *)
(* checked by one process and written by another, removed by whoever thinks *)
(* he should, and names an id that another program may have by now.        *)
(* External: fork, signals, the end of a process and of its zombie,        *)
(* programs that are no daemon, and users who run and interrupt commands.  *)
(***************************************************************************)
EXTENDS Naturals, FiniteSets

CONSTANTS
  Pid,      \* process ids
  NoPid,    \* what _read_pid returns when there is none
  Cmd,      \* runs of agent_audit
  Serial,   \* nobody starts a command while another one runs
  Prompt    \* a daemon names itself within the half second start waits

ASSUME LifeAssumption ==
  /\ NoPid \notin Pid
  /\ {"none", "blank"} \cap Pid = {}
  /\ Serial \in BOOLEAN /\ Prompt \in BOOLEAN

VARIABLES
  proc,     \* where each process is
  stop,     \* SIGTERM has cleared its _run_loop_flag
  file,     \* what the PID file says
  linked,   \* who has the PID file open, and not one that was unlinked since
  cmd,      \* where each command is and the id it works with
  left,     \* history: daemons stop has given up on that are still there
  beside    \* history: a daemon was started beside one of them

vars == <<proc, stop, file, linked, cmd, left, beside>>

\* "free" no process, "other" a program that is no daemon, "zombie" ended while its
\* parent lives; the rest is the daemon on its way from fork to exit.
Young   == {"forked", "opened", "named"}
Grown   == {"armed", "loaded", "stopping", "unloaded", "exiting"}
State   == {"free", "other", "zombie"} \cup Young \cup Grown
Pc      == {"idle", "start", "started", "stop", "kill", "wait", "unlink"}

\* It has the logs open.
Serving(p) == proc[p] \in {"armed", "loaded"}
Daemon(p)  == proc[p] \in Young \cup Grown
Working(p) == Serving(p) \/ proc[p] \in Young

ReadPid    == IF file \in Pid THEN file ELSE NoPid
InProc(p)  == p \in Pid /\ proc[p] # "free"
Child(c)   == {p \in Pid : cmd[c].pc = "started" /\ cmd[c].pid = p}
Ended(p)   == IF \E c \in Cmd : p \in Child(c) THEN "zombie" ELSE "free"

Unlink == file' = "none" /\ linked' = {}
Goto(c, pc)  == cmd' = [cmd EXCEPT ![c].pc = pc]
Over(c)      == cmd' = [cmd EXCEPT ![c] = [pc |-> "idle", pid |-> NoPid]]
MayBegin(c)  == cmd[c].pc = "idle" /\ (Serial => \A d \in Cmd : cmd[d].pc = "idle")
Become(p, s) == proc' = [proc EXCEPT ![p] = s]
End(p) ==
  /\ Become(p, Ended(p))
  /\ stop' = [stop EXCEPT ![p] = FALSE]
  /\ left' = left \ {p}

\* SIGTERM: before run_loop has set _sig_handler it kills, then it clears the flag;
\* another program does what it likes.
Term(p) ==
  \/ proc[p] \in Grown /\ stop' = [stop EXCEPT ![p] = TRUE] /\ UNCHANGED <<proc, linked, left>>
  \/ proc[p] \in Young \cup {"other"} /\ End(p) /\ linked' = linked \ {p}
  \/ proc[p] \in {"zombie", "other"} /\ UNCHANGED <<proc, stop, linked, left>>
---------------------------------------------------------------------------
(* agent_audit daemon start *)

StartRead(c) ==
  /\ MayBegin(c)
  /\ cmd' = [cmd EXCEPT ![c] = [pc |-> "start", pid |-> ReadPid]]
  /\ UNCHANGED <<proc, stop, file, linked, left, beside>>

\* Already running.
StartRefuse(c) ==
  /\ cmd[c].pc = "start" /\ InProc(cmd[c].pid)
  /\ Over(c)
  /\ UNCHANGED <<proc, stop, file, linked, left, beside>>

\* Mutant: the file alone decides, and only a missing one.
StartFork_Anyway(c) ==
  /\ cmd[c].pc = "start"
  /\ \E p \in Pid :
       /\ proc[p] = "free"
       /\ Become(p, "forked")
       /\ cmd' = [cmd EXCEPT ![c] = [pc |-> "started", pid |-> p]]
  /\ beside' = (beside \/ left # {})
  /\ UNCHANGED <<stop, file, linked, left>>

StartFork(c) ==
  /\ cmd[c].pc = "start" /\ ~InProc(cmd[c].pid)
  /\ \E p \in Pid :
       /\ proc[p] = "free"
       /\ Become(p, "forked")
       /\ cmd' = [cmd EXCEPT ![c] = [pc |-> "started", pid |-> p]]
  /\ beside' = (beside \/ left # {})
  /\ UNCHANGED <<stop, file, linked, left>>

\* Half a second later the parent reports and exits; it never waits for its child,
\* which is init's from here on.
Report(c) ==
  LET p == cmd[c].pid
  IN  /\ cmd[c].pc = "started"
      /\ Prompt => proc[p] \notin {"forked", "opened"}
      /\ proc' = [proc EXCEPT ![p] = IF @ = "zombie" THEN "free" ELSE @]
      /\ Over(c)
      /\ UNCHANGED <<stop, file, linked, left, beside>>
---------------------------------------------------------------------------
(* agent_audit daemon stop *)

StopRead(c) ==
  /\ MayBegin(c) /\ file \in Pid
  /\ cmd' = [cmd EXCEPT ![c] = [pc |-> "stop", pid |-> file]]
  /\ UNCHANGED <<proc, stop, file, linked, left, beside>>

\* DaemonRunner.stop removes a file without an id, the command of cli.py leaves it.
StopBlank(c) ==
  /\ MayBegin(c) /\ file = "blank"
  /\ Unlink
  /\ UNCHANGED <<proc, stop, cmd, left, beside>>

StopCheck(c) ==
  /\ cmd[c].pc = "stop"
  /\ Goto(c, IF InProc(cmd[c].pid) THEN "kill" ELSE "unlink")
  /\ UNCHANGED <<proc, stop, file, linked, left, beside>>

\* os.kill; when the process is gone the exception ends the command.
StopKill(c) ==
  /\ cmd[c].pc = "kill"
  /\ \/ InProc(cmd[c].pid) /\ Term(cmd[c].pid) /\ Goto(c, "wait")
     \/ ~InProc(cmd[c].pid) /\ Over(c) /\ UNCHANGED <<proc, stop, linked, left>>
  /\ UNCHANGED <<file, beside>>

\* Fifty looks at /proc; then it goes on all the same, and the daemon may still be in
\* a dump, a scan or its sleep, of which config.json bounds the length.
StopWait(c) ==
  /\ cmd[c].pc = "wait"
  /\ left' = left \cup {p \in Pid : p = cmd[c].pid /\ Daemon(p)}
  /\ Goto(c, "unlink")
  /\ UNCHANGED <<proc, stop, file, linked, beside>>

StopUnlink(c) ==
  /\ cmd[c].pc = "unlink"
  /\ Unlink
  /\ Over(c)
  /\ UNCHANGED <<proc, stop, left, beside>>
---------------------------------------------------------------------------
(* The daemon *)

\* open(_PID_FILE, "w") empties the file or makes a new one.
WriteOpen(p) ==
  /\ proc[p] = "forked"
  /\ Become(p, "opened")
  /\ file' = "blank"
  /\ linked' = linked \cup {p}
  /\ UNCHANGED <<stop, cmd, left, beside>>

\* Mutant: the file stays open.
WritePid_Open(p) ==
  /\ proc[p] = "opened"
  /\ Become(p, "named")
  /\ file' = IF p \in linked THEN p ELSE file
  /\ UNCHANGED <<stop, cmd, linked, left, beside>>

\* The id gets into the file when it is closed.
WritePid(p) ==
  /\ proc[p] = "opened"
  /\ Become(p, "named")
  /\ file' = IF p \in linked THEN p ELSE file
  /\ linked' = linked \ {p}
  /\ UNCHANGED <<stop, cmd, left, beside>>

\* Mutant: run_loop before _write_pid.
Arm_First(p) ==
  /\ proc[p] = "forked"
  /\ Become(p, "armed")
  /\ UNCHANGED <<stop, file, linked, cmd, left, beside>>

\* run_loop sets its signal handlers and opens the logs.
Arm(p) ==
  /\ proc[p] = "named"
  /\ Become(p, "armed")
  /\ UNCHANGED <<stop, file, linked, cmd, left, beside>>

\* No object file or it does not load: run_loop returns, and the PID file stays.
Fail(p) ==
  /\ proc[p] = "armed"
  /\ End(p)
  /\ UNCHANGED <<file, linked, cmd, beside>>

\* Mutant: the flag is set where the loop begins.
LoadPrograms_Resets(p) ==
  /\ proc[p] = "armed"
  /\ Become(p, "loaded")
  /\ stop' = [stop EXCEPT ![p] = FALSE]
  /\ UNCHANGED <<file, linked, cmd, left, beside>>

\* bpf_load, the first scan and the head of the loop.
LoadPrograms(p) ==
  /\ proc[p] = "armed"
  /\ Become(p, "loaded")
  /\ UNCHANGED <<stop, file, linked, cmd, left, beside>>

\* The loop ends and the logs are closed.
LeaveLoop(p) ==
  /\ proc[p] = "loaded" /\ stop[p]
  /\ Become(p, "stopping")
  /\ UNCHANGED <<stop, file, linked, cmd, left, beside>>

\* bpf_unload closes the object; the links stay until the process ends.
Unload(p) ==
  /\ proc[p] = "stopping"
  /\ Become(p, "unloaded")
  /\ UNCHANGED <<stop, file, linked, cmd, left, beside>>

\* Whoever's id it holds.
RemovePid(p) ==
  /\ proc[p] = "unloaded"
  /\ Become(p, "exiting")
  /\ Unlink
  /\ UNCHANGED <<stop, cmd, left, beside>>

Exit(p) ==
  /\ proc[p] = "exiting"
  /\ End(p)
  /\ UNCHANGED <<file, linked, cmd, beside>>

DaemonStep(p) ==
  \/ WriteOpen(p) \/ WritePid(p) \/ Arm(p) \/ LoadPrograms(p) \/ Fail(p)
  \/ LeaveLoop(p) \/ Unload(p) \/ RemovePid(p) \/ Exit(p)
---------------------------------------------------------------------------
(* Everybody else *)

\* kill -9, or an exception nothing catches.
Crash(p) ==
  /\ proc[p] \in Young \cup Grown
  /\ End(p)
  /\ linked' = linked \ {p}
  /\ UNCHANGED <<file, cmd, beside>>

\* SIGTERM that no command of the program sent.
Signal(p) ==
  /\ proc[p] \in Young \cup Grown
  /\ Term(p)
  /\ UNCHANGED <<file, cmd, beside>>

\* Another program gets the id, and leaves it.
Other(p) ==
  /\ \/ proc[p] = "free" /\ Become(p, "other")
     \/ proc[p] = "other" /\ Become(p, "free")
  /\ UNCHANGED <<stop, file, linked, cmd, left, beside>>

\* Control-C at a command that stops.
Interrupt(c) ==
  /\ cmd[c].pc \in {"stop", "kill", "wait", "unlink"}
  /\ Over(c)
  /\ UNCHANGED <<proc, stop, file, linked, left, beside>>
---------------------------------------------------------------------------
Init ==
  /\ proc = [p \in Pid |-> "free"]
  /\ stop = [p \in Pid |-> FALSE]
  /\ file = "none" /\ linked = {}
  /\ cmd = [c \in Cmd |-> [pc |-> "idle", pid |-> NoPid]]
  /\ left = {} /\ beside = FALSE

Command(c) ==
  \/ StartRead(c) \/ StartRefuse(c) \/ StartFork(c) \/ Report(c)
  \/ StopRead(c) \/ StopBlank(c) \/ StopCheck(c) \/ StopKill(c) \/ StopWait(c)
  \/ StopUnlink(c) \/ Interrupt(c)

Next ==
  \/ \E c \in Cmd : Command(c)
  \/ \E p \in Pid : DaemonStep(p) \/ Crash(p) \/ Signal(p) \/ Other(p)

Spec == Init /\ [][Next]_vars

\* The scheduler runs every daemon; that the poll of a daemon that is to stop comes
\* to an end is what EventLog is about.
FairSpec == Spec /\ \A p \in Pid : WF_vars(DaemonStep(p))
---------------------------------------------------------------------------
LifeTypeOK ==
  /\ proc \in [Pid -> State]
  /\ stop \in [Pid -> BOOLEAN]
  /\ file \in Pid \cup {"none", "blank"}
  /\ linked \subseteq {p \in Pid : proc[p] = "opened"}
  /\ cmd \in [Cmd -> [pc : Pc, pid : Pid \cup {NoPid}]]
  /\ \A p \in Pid : stop[p] => proc[p] \in Grown
  /\ left \subseteq {p \in Pid : Daemon(p)}
  /\ beside \in BOOLEAN

\* Two daemons would write and rotate the same logs.  If commands do not overlap and a
\* daemon writes its file while start waits, there is one at most, whatever crashes, is
\* interrupted or signalled, and whoever got the id in the file; until somebody starts
\* one while another that stop has given up on is still there.
OneServer == beside \/ \A p, q \in Pid : Serving(p) /\ Serving(q) => p = q

\* A daemon that works can be stopped: under the same conditions the file names it, or
\* stop has told it already and has given up waiting for its end, although three
\* different parties remove the file without a look at what it says.
FileNamesServer ==
  beside \/ \A p \in Pid : Serving(p) => file = p \/ p \in left

\* "Daemon stopped": under the same conditions, when stop removes the file no daemon
\* works or is on its way but the one stop has told, and that one will not forget it.
StoppedOrTold ==
  [][\A c \in Cmd :
       StopUnlink(c) =>
         beside \/ \A p \in Pid : Working(p) => p = cmd[c].pid /\ stop[p]]_vars

\* "Daemon may have failed": under the same conditions, the half second among them, the
\* command that started a daemon says so only when none works and none is on its way,
\* though the file and the id in it are all it looks at.
FailureIsTrue ==
  [][\A c \in Cmd :
       Report(c) /\ ~InProc(ReadPid) => beside \/ \A p \in Pid : ~Working(p)]_vars

\* The request to stop is never forgotten, wherever it meets the daemon.
SignalEnds == \A p \in Pid : stop[p] ~> proc[p] \in {"zombie", "free"}
===========================================================================
