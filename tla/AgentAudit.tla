----------------------------- MODULE AgentAudit -----------------------------
(***************************************************************************)
(* The kernel programs together with the daemon that feeds their maps: the *)
(* thread of cli/agent_audit/daemon.py that scans /proc for targets,       *)
(* registers what it finds through loader.c, and rewrites target_comms     *)
(* when the configuration directory changes.  It writes pid_whitelist and  *)
(* agent_tree while the handlers of ProcessTree read and write them.       *)
(*                                                                         *)
(* A target names a command ("process") or an executable ("processpath").  *)
(* A program is one member of Comm, its name and its path alike.           *)
(* Config edits and their notification are one step (Reload).              *)
(***************************************************************************)
EXTENDS ProcessTree

CONSTANTS
  Configs,   \* the targets config.json may hold, enabled ones only
  Agents     \* its agent_pids; they are registered at start-up only

ASSUME ConfigAssumption ==
  /\ Configs \subseteq [process : SUBSET Comm, path : SUBSET Comm]
  /\ Agents \subseteq Pid

VARIABLES
  cfg,       \* the targets of the configuration the daemon works with
  reg        \* the locals of the daemon's thread

vars == <<treeVars, cfg, reg>>

RegPCs == {"boot", "idle", "scan", "reg_read", "reg_wl", "reg_tree",
           "clear", "fill", "down"}

\* todo: rest of agent_pids (start) or of os.listdir("/proc"); pid, name: arguments
\* of the registration; sync: whether the scan is followed by _sync_target_comms;
\* fill: its rest.
Registrar == [pc : RegPCs, start : BOOLEAN, todo : SUBSET Pid, pid : PidOrNone,
              name : Comm \cup {NoComm}, sync : BOOLEAN, fill : SUBSET Comm]

AtRest == [pc |-> "idle", start |-> FALSE, todo |-> {}, pid |-> NoPid,
           name |-> NoComm, sync |-> FALSE, fill |-> {}]

\* /proc/<pid> can be opened, for any task; a directory listing of /proc has
\* processes only.
Visible(p) == status[p] \in {"new", "run", "zombie"}
Listing    == {p \in Pid : Visible(p) /\ Leader(p)}
---------------------------------------------------------------------------
\* What a scan that is over leaves to do.
AfterScan(r) == [AtRest EXCEPT !.pc = IF r.sync THEN "clear" ELSE "idle"]

\* An exception in a registration ends the scan, and at start-up the daemon.
Broken(r) == IF r.start THEN [AtRest EXCEPT !.pc = "down"] ELSE AfterScan(r)

\* Mutant: one registration per scan.
NextEntry_Stops(r) == IF r.start THEN [r EXCEPT !.pc = "boot"] ELSE AfterScan(r)

\* Go on with the next entry of the list.
NextEntry(r) == [r EXCEPT !.pc = IF r.start THEN "boot" ELSE "scan",
                          !.pid = NoPid, !.name = NoComm]

\* _scan_targets returns at once when there is nothing to look for.
StartScan(c, sync) ==
  LET r == [AtRest EXCEPT !.sync = sync]
  IN  reg' = IF c.process \cup c.path = {} THEN AfterScan(r)
             ELSE [r EXCEPT !.pc = "scan", !.todo = Listing]

\* The programs have just been attached: agent_pids, initial scan, target_comms.
StartAgent(p) ==
  /\ reg.pc = "boot" /\ p \in reg.todo
  /\ reg' = [reg EXCEPT !.pc = "reg_read", !.todo = @ \ {p}, !.pid = p]
  /\ UNCHANGED <<treeVars, cfg>>

FirstScan ==
  /\ reg.pc = "boot" /\ reg.todo = {}
  /\ StartScan(cfg, TRUE)
  /\ UNCHANGED <<treeVars, cfg>>

\* Every scan_interval.
PeriodicScan ==
  /\ reg.pc = "idle"
  /\ StartScan(cfg, FALSE)
  /\ UNCHANGED <<treeVars, cfg>>

\* An inotify event that names config.json.
Reload(c) ==
  /\ reg.pc = "idle"
  /\ cfg' = c
  /\ StartScan(c, TRUE)
  /\ UNCHANGED treeVars

\* An inotify event for another file of the directory: no reload, but
\* target_comms is rewritten all the same.
OtherFile ==
  /\ reg.pc = "idle"
  /\ reg' = AfterScan([AtRest EXCEPT !.sync = TRUE])
  /\ UNCHANGED <<treeVars, cfg>>
---------------------------------------------------------------------------
\* A zombie still has a name but no executable.
Matches(p) ==
  \/ Visible(p) /\ comm[p] \in cfg.process
  \/ Live(p) /\ comm[p] \in cfg.path

ScanEntry(p) ==
  /\ reg.pc = "scan" /\ p \in reg.todo
  /\ LET rest == [reg EXCEPT !.todo = @ \ {p}]
     IN  reg' = IF Matches(p) THEN [rest EXCEPT !.pc = "reg_read", !.pid = p]
                              ELSE rest
  /\ UNCHANGED <<treeVars, cfg>>

ScanEnd ==
  /\ reg.pc = "scan" /\ reg.todo = {}
  /\ reg' = AfterScan(reg)
  /\ UNCHANGED <<treeVars, cfg>>

\* register_agent_pid: a process that is gone is skipped, unless it goes
\* between open() and read(): ProcessLookupError is not FileNotFoundError.
RegRead ==
  /\ reg.pc = "reg_read"
  /\ \/ /\ Visible(reg.pid)
        /\ reg' = [reg EXCEPT !.pc = "reg_wl", !.name = comm[reg.pid]]
     \/ /\ ~Visible(reg.pid)
        /\ \/ reg' = NextEntry(reg)
           \/ reg' = Broken(reg)
  /\ UNCHANGED <<treeVars, cfg>>

\* register_pid(pid, root_pid=pid, depth=0); a full map is an error and the
\* process is skipped.
RegWhitelist ==
  LET p == reg.pid
  IN  /\ reg.pc = "reg_wl"
      /\ pid_whitelist' = Put(pid_whitelist, WlCap, p,
                              [root |-> p, depth |-> 0])
      /\ reg' = IF Accepts(pid_whitelist, WlCap, p)
                THEN [reg EXCEPT !.pc = "reg_tree"] ELSE NextEntry(reg)
      /\ UNCHANGED <<kernel, agent_tree, target_comms, frame, newest, cfg>>

\* Mutant: a root, where every chain ends, gets no node.
RegTree_RootHasNone ==
  /\ reg.pc = "reg_tree"
  /\ reg' = NextEntry(reg)
  /\ UNCHANGED <<treeVars, cfg>>

\* update_agent_tree(pid, comm), where a root is its own parent.  On failure
\* RuntimeLogger has no method warning(): an AttributeError.
RegTree ==
  LET p == reg.pid
  IN  /\ reg.pc = "reg_tree"
      /\ agent_tree' = Put(agent_tree, TreeCap, p,
                           [parent |-> p, comm |-> reg.name])
      /\ reg' = IF Accepts(agent_tree, TreeCap, p)
                THEN NextEntry(reg) ELSE Broken(reg)
      /\ UNCHANGED <<kernel, pid_whitelist, target_comms, frame, newest, cfg>>
---------------------------------------------------------------------------
\* Mutant: targets without a process name are not skipped.
NamesToFill_All(c) == c.process \cup (IF c.path = {} THEN {} ELSE {NoComm})

\* "process" is empty in a processpath target; such a target is skipped.
NamesToFill(c) == c.process

\* bpf_map_clear_target_comms: first key, delete, until there is none.
SyncClear ==
  /\ reg.pc = "clear"
  /\ \/ /\ \E c \in target_comms : target_comms' = target_comms \ {c}
        /\ UNCHANGED reg
     \/ /\ target_comms = {}
        /\ reg' = [reg EXCEPT !.pc = "fill", !.fill = NamesToFill(cfg)]
        /\ UNCHANGED target_comms
  /\ UNCHANGED <<kernel, pid_whitelist, agent_tree, frame, newest, cfg>>

\* update_target_comm, one configured name at a time (the map has 64 slots,
\* taken to be enough).
SyncFill ==
  /\ reg.pc = "fill"
  /\ \/ \E c \in reg.fill :
          /\ target_comms' = target_comms \cup {c}
          /\ reg' = [reg EXCEPT !.fill = @ \ {c}]
     \/ /\ reg.fill = {}
        /\ reg' = AtRest
        /\ UNCHANGED target_comms
  /\ UNCHANGED <<kernel, pid_whitelist, agent_tree, frame, newest, cfg>>
---------------------------------------------------------------------------
AuditInit ==
  /\ TreeInit
  /\ target_comms = {}
  /\ cfg \in Configs
  /\ reg = [AtRest EXCEPT !.pc = "boot", !.start = TRUE, !.todo = Agents]

DaemonStep ==
  \/ FirstScan \/ ScanEnd \/ RegRead \/ RegWhitelist \/ RegTree
  \/ SyncClear \/ SyncFill
  \/ \E p \in Pid : StartAgent(p) \/ ScanEntry(p)

DaemonIdle ==
  \/ PeriodicScan \/ OtherFile
  \/ \E c \in Configs : Reload(c)

TaskOrHandler == \E t \in Pid : TaskStep(t) \/ HandlerStep(t)

AuditNext ==
  \/ DaemonStep
  \/ DaemonIdle
  \/ TaskOrHandler /\ UNCHANGED <<cfg, reg>>

AuditSpec == AuditInit /\ [][AuditNext]_vars

\* The handlers run to their end, the daemon's thread keeps going, and its loop
\* looks at the scan timer first in every iteration; nothing obliges a task to
\* fork, exec, exit or open a file, or anybody to edit the configuration.
AuditFairSpec ==
  /\ AuditSpec
  /\ WF_vars(DaemonStep)
  /\ SF_vars(PeriodicScan)
  /\ \A t \in Pid : WF_vars(HandlerStep(t) /\ UNCHANGED <<cfg, reg>>)
---------------------------------------------------------------------------
AuditTypeOK ==
  /\ TypeOK
  /\ cfg \in Configs
  /\ reg \in Registrar
---------------------------------------------------------------------------
\* What the registrar leaves intact.

\* Every scan writes again what fork has listed, a task as its own parent, while chains
\* are packed through it.  Without reuse of ids, a link of a recorded chain is still a
\* task and its creator, or a task twice, but never a stranger.
ChainTrueOrLoop ==
  \A i \in 1 .. Len(newest.chain) - 1 :
    newest.chain[i + 1] \in {parent[newest.chain[i]], newest.chain[i]}

\* With room in the maps, a record that names less than the way up to the root names as
\* many tasks as a record can (those of a loop, or of a long line), or the next one is
\* dying or dead, or is being registered in this moment: it has its entry, which its
\* child has inherited, and not yet the node that the chain needs to name it.
ChainStops ==
  [][newest' # newest =>
       LET last == Last(newest'.chain)
       IN  \/ last = newest'.entry.root
           \/ Len(newest'.chain) = MaxChain
           \/ ~Live(last) \/ ~Live(parent[last])
           \/ reg.pc = "reg_tree" /\ reg.pid = parent[last]]_vars

\* Only the registrar can leave the entry of a dead task behind, as a root: an
\* inherited entry is always removed.
DeadEntryIsRoot ==
  \A p \in Pid :
    Has(pid_whitelist, p) /\ ~Live(p)
      => pid_whitelist[p] = [root |-> p, depth |-> 0]

\* No scan, reload, rewriting of target_comms or handler of another task takes
\* an entry away: it goes when its own task exits.  It is replaced by that of a
\* root (registered again), or by the inherited one while its task is created.
StaysListed ==
  [][\A p \in Pid :
       Has(pid_whitelist, p) /\ pid_whitelist'[p] # pid_whitelist[p]
         => \/ pid_whitelist'[p] = Absent /\ At(p, "exit_tree")'
            \/ pid_whitelist'[p] = [root |-> p, depth |-> 0]
            \/ status[p] = "new"]_vars

\* With room in the maps, a running process with the name or path of a target is
\* audited some time later, unless it exits, changes its name, or the
\* configuration drops it, first, or the daemon did not survive its start-up.
IsTarget(p) ==
  status[p] = "run" /\ Leader(p) /\ comm[p] \in cfg.process \cup cfg.path

TargetsGetListed ==
  \A p \in Pid : IsTarget(p) ~> (Has(pid_whitelist, p) \/ ~IsTarget(p) \/ reg.pc = "down")
===============================================================================
