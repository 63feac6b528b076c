-------------------------- MODULE AgentAuditProofs --------------------------
(***************************************************************************)
(* What the registrar leaves intact, for every number of tasks, targets,   *)
(* agent_pids and CPUs and every size of the maps: the invariants of the   *)
(* kernel's handlers, weakened to allow for a root written at any moment.  *)
(***************************************************************************)
EXTENDS AgentAudit, ProcessTreeProofs

Registering == {"reg_read", "reg_wl", "reg_tree"}

RegistrarOK ==
  /\ cfg \in Configs /\ reg \in Registrar
  /\ reg.pc \in Registering => reg.pid \in Pid

AuditTypeInv == TypeInv /\ RegistrarOK

LEMMA AtRestType == AtRest \in Registrar /\ AtRest.pc = "idle"
BY DEF AtRest, Registrar, RegPCs, PidOrNone

LEMMA NextTypes ==
  ASSUME NEW r \in Registrar
  PROVE  /\ AfterScan(r) \in Registrar /\ AfterScan(r).pc \notin Registering
         /\ NextEntry(r) \in Registrar /\ NextEntry(r).pc \notin Registering
         /\ Broken(r) \in Registrar /\ Broken(r).pc \notin Registering
<1>1. AfterScan(r) \in Registrar /\ AfterScan(r).pc \notin Registering
  BY AtRestType DEF AfterScan, Registrar, RegPCs, Registering
<1>2. NextEntry(r) \in Registrar /\ NextEntry(r).pc \notin Registering
  BY DEF NextEntry, Registrar, RegPCs, PidOrNone, Registering
<1>3. [AtRest EXCEPT !.pc = "down"] \in Registrar /\ [AtRest EXCEPT !.pc = "down"].pc = "down"
  BY AtRestType DEF Registrar, RegPCs
<1>. QED  BY <1>1, <1>2, <1>3 DEF Broken, Registering

LEMMA StartScanType ==
  ASSUME NEW c, NEW sync \in BOOLEAN, StartScan(c, sync)
  PROVE  reg' \in Registrar /\ reg'.pc \notin Registering
<1>. DEFINE r == [AtRest EXCEPT !.sync = sync]
            s == [r EXCEPT !.pc = "scan", !.todo = Listing]
<1>1. r \in Registrar
  BY AtRestType DEF Registrar
<1>2. s \in Registrar /\ s.pc = "scan"
  BY <1>1 DEF Registrar, RegPCs, Listing
<1>3. reg' \in {AfterScan(r), s}
  BY DEF StartScan
<1>. HIDE DEF r, s
<1>. QED  BY <1>1, <1>2, <1>3, NextTypes DEF Registering

\* The daemon's thread writes roots only, and nothing of the kernel's.
LEMMA RegistrarWrites ==
  ASSUME AuditTypeInv, DaemonStep \/ DaemonIdle
  PROVE  /\ UNCHANGED <<kernel, frame, newest>>
         /\ \/ UNCHANGED pid_whitelist
            \/ /\ reg.pid \in Pid
               /\ pid_whitelist' = Put(pid_whitelist, WlCap, reg.pid, RootEntry(reg.pid))
         /\ \/ UNCHANGED agent_tree
            \/ /\ reg.pid \in Pid
               /\ agent_tree' = Put(agent_tree, TreeCap, reg.pid,
                                    [parent |-> reg.pid, comm |-> reg.name])
BY DEF AuditTypeInv, RegistrarOK, Registering, DaemonStep, DaemonIdle, FirstScan, ScanEnd,
   RegRead, RegWhitelist, RegTree, SyncClear, SyncFill, StartAgent, ScanEntry,
   PeriodicScan, OtherFile, Reload, treeVars, kernel, RootEntry

LEMMA RegistrarType ==
  ASSUME AuditTypeInv, DaemonStep \/ DaemonIdle
  PROVE  RegistrarOK' /\ (target_comms \subseteq Comm)'
<1>. USE DEF RegistrarOK, AuditTypeInv
<1>0. reg \in Registrar /\ cfg \in Configs /\ target_comms \subseteq Comm
  BY DEF TypeInv, TypeOK
<1>1. CASE FirstScan \/ PeriodicScan \/ \E c \in Configs : Reload(c)
  BY <1>0, <1>1, StartScanType DEF FirstScan, PeriodicScan, Reload, treeVars
<1>2. CASE OtherFile
  <2>1. [AtRest EXCEPT !.sync = TRUE] \in Registrar
    BY AtRestType DEF Registrar
  <2>. QED  BY <1>0, <1>2, <2>1, NextTypes DEF OtherFile, treeVars
<1>3. ASSUME NEW p \in Pid, StartAgent(p) \/ ScanEntry(p)
      PROVE  RegistrarOK' /\ (target_comms \subseteq Comm)'
  <2>. DEFINE r == [reg EXCEPT !.todo = @ \ {p}]
              s == [reg EXCEPT !.pc = "reg_read", !.todo = @ \ {p}, !.pid = p]
  <2>1. r \in Registrar /\ r.pc = reg.pc
    BY <1>0 DEF Registrar
  <2>2. s \in Registrar /\ s.pid = p
    BY <1>0 DEF Registrar, RegPCs, PidOrNone
  <2>3. reg' = s \/ (reg' = r /\ reg.pc = "scan")
    BY <1>0, <1>3 DEF StartAgent, ScanEntry, Registrar
  <2>. HIDE DEF r, s
  <2>. QED  BY <1>0, <1>3, <2>1, <2>2, <2>3 DEF StartAgent, ScanEntry, treeVars, Registering
<1>4. CASE ScanEnd
  BY <1>0, <1>4, NextTypes DEF ScanEnd, treeVars
<1>5. CASE RegRead
  <2>. DEFINE s == [reg EXCEPT !.pc = "reg_wl", !.name = comm[reg.pid]]
  <2>1. s \in Registrar /\ s.pid = reg.pid
    BY <1>0, <1>5 DEF RegRead, Registering, Registrar, RegPCs, TypeInv, TypeOK
  <2>2. reg' \in {s, NextEntry(reg), Broken(reg)}
    BY <1>5 DEF RegRead
  <2>. HIDE DEF s
  <2>. QED  BY <1>0, <1>5, <2>1, <2>2, NextTypes DEF RegRead, Registering, treeVars
<1>6. CASE RegWhitelist
  <2>. DEFINE s == [reg EXCEPT !.pc = "reg_tree"]
  <2>1. s \in Registrar /\ s.pid = reg.pid
    BY <1>0 DEF Registrar, RegPCs
  <2>2. reg' \in {s, NextEntry(reg)}
    BY <1>6 DEF RegWhitelist
  <2>. HIDE DEF s
  <2>. QED  BY <1>0, <1>6, <2>1, <2>2, NextTypes DEF RegWhitelist, Registering
<1>7. CASE RegTree
  BY <1>0, <1>7, NextTypes DEF RegTree
<1>8. CASE SyncClear
  <2>1. [reg EXCEPT !.pc = "fill", !.fill = NamesToFill(cfg)] \in Registrar
    BY <1>0, ConfigAssumption DEF Registrar, RegPCs, NamesToFill
  <2>. QED  BY <1>0, <1>8, <2>1 DEF SyncClear, Registering, Registrar
<1>9. CASE SyncFill
  <2>1. \A c : [reg EXCEPT !.fill = @ \ {c}] \in Registrar
    BY <1>0 DEF Registrar
  <2>2. reg.fill \subseteq Comm
    BY <1>0 DEF Registrar
  <2>. QED  BY <1>0, <1>9, <2>1, <2>2, AtRestType DEF SyncFill, Registering, Registrar
<1>. QED
  BY <1>1, <1>2, <1>3, <1>4, <1>5, <1>6, <1>7, <1>8, <1>9 DEF DaemonStep, DaemonIdle
---------------------------------------------------------------------------
\* A step of a task or a handler is one of ProcessTree.
LEMMA KernelOrDaemon ==
  ASSUME [AuditNext]_vars
  PROVE  \/ [Next]_treeVars /\ UNCHANGED <<cfg, reg>>
         \/ DaemonStep \/ DaemonIdle
BY DEF AuditNext, TaskOrHandler, Next, vars

LEMMA AuditTypeInit == AuditInit => AuditTypeInv
<1>. SUFFICES ASSUME AuditInit PROVE AuditTypeInv
  OBVIOUS
<1>1. [AtRest EXCEPT !.pc = "boot", !.start = TRUE, !.todo = Agents] \in Registrar
  BY AtRestType, ConfigAssumption DEF Registrar, RegPCs
<1>2. reg.pc = "boot"
  BY DEF AuditInit, AtRest
<1>. QED
  BY <1>1, <1>2, TypeInit DEF AuditInit, AuditTypeInv, RegistrarOK, Registering

LEMMA RootTypes ==
  ASSUME NEW p \in Pid, NEW c \in Comm \cup {NoComm}
  PROVE  RootEntry(p) \in Entry /\ [parent |-> p, comm |-> c] \in Node
BY SizeAssumption DEF RootEntry, Entry, Node, PidOrNone

LEMMA AuditTypeStep == AuditTypeInv /\ [AuditNext]_vars => AuditTypeInv'
<1>. SUFFICES ASSUME AuditTypeInv, [AuditNext]_vars PROVE AuditTypeInv'
  OBVIOUS
<1>1. CASE [Next]_treeVars /\ UNCHANGED <<cfg, reg>>
  BY <1>1, TypeStep DEF AuditTypeInv, RegistrarOK
<1>2. CASE DaemonStep \/ DaemonIdle
  <2>. DEFINE e == RootEntry(reg.pid)
              n == [parent |-> reg.pid, comm |-> reg.name]
  <2>1. /\ UNCHANGED <<kernel, frame, newest>>
        /\ RegistrarOK' /\ (target_comms \subseteq Comm)'
    BY <1>2, RegistrarWrites, RegistrarType
  <2>2. reg.pid \in Pid => e \in Entry /\ n \in Node
    BY RootTypes DEF AuditTypeInv, RegistrarOK, Registrar
  <2>3. /\ \/ UNCHANGED pid_whitelist
           \/ reg.pid \in Pid /\ pid_whitelist' = Put(pid_whitelist, WlCap, reg.pid, e)
        /\ \/ UNCHANGED agent_tree
           \/ reg.pid \in Pid /\ agent_tree' = Put(agent_tree, TreeCap, reg.pid, n)
    BY <1>2, RegistrarWrites
  <2>. HIDE DEF e, n
  <2>4. /\ pid_whitelist \in [Pid -> Entry \cup {Absent}]
        /\ agent_tree \in [Pid -> Node \cup {Absent}]
    BY DEF AuditTypeInv, TypeInv, TypeOK
  <2>5. reg.pid \in Pid
          => /\ Put(pid_whitelist, WlCap, reg.pid, e) \in [Pid -> Entry \cup {Absent}]
             /\ Put(agent_tree, TreeCap, reg.pid, n) \in [Pid -> Node \cup {Absent}]
    BY <2>2, <2>4, PutType
  <2>. QED
    BY <2>1, <2>3, <2>4, <2>5, FramesUnchanged DEF AuditTypeInv, TypeInv, TypeOK, kernel
<1>. QED  BY <1>1, <1>2, KernelOrDaemon

\* Types of the maps, of the configuration and of the registrar's locals.
THEOREM AuditTypeCorrect == AuditSpec => []AuditTypeOK
<1>1. AuditTypeInv => AuditTypeOK
  BY DEF AuditTypeInv, TypeInv, RegistrarOK, AuditTypeOK
<1>. QED  BY <1>1, AuditTypeInit, AuditTypeStep, PTL DEF AuditSpec
---------------------------------------------------------------------------
\* A registration writes what the invariants of the handlers allow for: the entry of a
\* root, and a node that names itself.
LEMMA RegistrarEntries ==
  ASSUME AuditTypeInv, EntryInv(Pid), [AuditNext]_vars
  PROVE  EntryInv(Pid)'
<1>. USE DEF AuditTypeInv
<1>1. CASE [Next]_treeVars
  BY <1>1, EntryStep
<1>2. CASE DaemonStep \/ DaemonIdle
  <2>1. UNCHANGED <<status, parent, frame>>
    BY <1>2, RegistrarWrites DEF kernel
  <2>2. \A p \in Pid : pid_whitelist'[p] \in {pid_whitelist[p], RootEntry(p)}
    BY <1>2, RegistrarWrites DEF Put, TypeInv, TypeOK
  <2>3. \A p \in Pid : Bare(p, Pid) => Bare(p, Pid)'
    BY <2>2 DEF Bare, RootEntry
  <2>4. ASSUME NEW t \in Pid PROVE Steady(t, Pid)'
    <3>1. Steady(t, Pid)
      BY DEF EntryInv
    <3>2. frame[t].pc \in {"fork", "fork_wl"} => frame[t].child \in Pid
      BY DEF TypeInv, FramesOK
    <3>. QED  BY <2>1, <2>3, <3>1, <3>2 DEF Steady, Bare
  <2>. QED  BY <2>1, <2>3, <2>4 DEF EntryInv, Live
<1>. QED  BY <1>1, <1>2, KernelOrDaemon

LEMMA RegistrarLinks ==
  ASSUME ~PidReuse, AuditTypeInv, LinkInv(Pid), [AuditNext]_vars
  PROVE  LinkInv(Pid)'
<1>. USE DEF AuditTypeInv
<1>1. CASE [Next]_treeVars
  BY <1>1, LinkStep
<1>2. CASE DaemonStep \/ DaemonIdle
  <2>1. UNCHANGED <<status, parent, frame, newest>>
    BY <1>2, RegistrarWrites DEF kernel
  <2>2. \A p \in Pid : \/ agent_tree'[p] = agent_tree[p]
                       \/ agent_tree'[p].parent = p
    BY <1>2, RegistrarWrites DEF Put, TypeInv, TypeOK
  <2>3. \A p \in Pid : agent_tree'[p] = agent_tree[p] => (Has(agent_tree', p) <=> Has(agent_tree, p))
    BY <1>2, RegistrarWrites DEF Put, TypeInv, TypeOK, Has, Lookup
  <2>4. \A p \in Pid : Has(agent_tree', p) => TrueNode(p, agent_tree'[p], parent, Pid)
    BY <2>2, <2>3 DEF LinkInv, TrueNode, Kin
  <2>. QED  BY <2>1, <2>4 DEF LinkInv
<1>. QED  BY <1>1, <1>2, KernelOrDaemon

\* Registrations, rescans and reloads may cut a chain or make it repeat a task, but a link
\* never names a stranger, however they interleave with the packing.
THEOREM ChainsNameNoStranger == ~PidReuse => (AuditSpec => []ChainTrueOrLoop)
<1>. SUFFICES ASSUME ~PidReuse PROVE AuditSpec => []ChainTrueOrLoop
  OBVIOUS
<1>1. AuditInit => AuditTypeInv /\ LinkInv(Pid)
  BY AuditTypeInit, LinkInit DEF AuditInit
<1>2. AuditTypeInv /\ LinkInv(Pid) /\ [AuditNext]_vars => (AuditTypeInv /\ LinkInv(Pid))'
  BY AuditTypeStep, RegistrarLinks
<1>3. LinkInv(Pid) => ChainTrueOrLoop
  BY DEF LinkInv, TrueChain, Kin, ChainTrueOrLoop
<1>. QED  BY <1>1, <1>2, <1>3, PTL DEF AuditSpec

\* The entry of a dead task can only be the root entry of a registration that came too
\* late; what a task inherited is always removed.
THEOREM DeadEntriesAreRoots == AuditSpec => []DeadEntryIsRoot
<1>1. AuditInit => AuditTypeInv /\ EntryInv(Pid)
  BY AuditTypeInit, EntryInit DEF AuditInit
<1>2. AuditTypeInv /\ EntryInv(Pid) /\ [AuditNext]_vars => (AuditTypeInv /\ EntryInv(Pid))'
  BY AuditTypeStep, RegistrarEntries
<1>3. AuditTypeInv /\ EntryInv(Pid) => DeadEntryIsRoot
  BY DEF EntryInv, Bare, RootEntry, DeadEntryIsRoot, AuditTypeInv, TypeInv, TypeOK, Has, Lookup
<1>. QED  BY <1>1, <1>2, <1>3, PTL DEF AuditSpec

\* Nothing but its own exit takes an entry away: no scan, reload, rewriting of
\* target_comms or other task, with full maps and with ids used again.
THEOREM StaysListedAlways == AuditSpec => StaysListed
<1>1. AuditInit => AuditTypeInv /\ EntryInv(Pid)
  BY AuditTypeInit, EntryInit DEF AuditInit
<1>2. AuditTypeInv /\ EntryInv(Pid) /\ [AuditNext]_vars => (AuditTypeInv /\ EntryInv(Pid))'
  BY AuditTypeStep, RegistrarEntries
<1>3. AuditTypeInv /\ EntryInv(Pid) /\ [AuditNext]_vars
        => [\A p \in Pid :
              Has(pid_whitelist, p) /\ pid_whitelist'[p] # pid_whitelist[p]
                => \/ pid_whitelist'[p] = Absent /\ At(p, "exit_tree")'
                   \/ pid_whitelist'[p] = [root |-> p, depth |-> 0]
                   \/ status[p] = "new"]_vars
  <2>. SUFFICES ASSUME AuditTypeInv, EntryInv(Pid), [AuditNext]_vars, NEW p \in Pid,
                       pid_whitelist'[p] # pid_whitelist[p]
                PROVE  \/ pid_whitelist'[p] = Absent /\ At(p, "exit_tree")'
                       \/ pid_whitelist'[p] = [root |-> p, depth |-> 0]
                       \/ status[p] = "new"
    OBVIOUS
  <2>1. CASE [Next]_treeVars
    BY <2>1, Writers DEF AuditTypeInv, RootEntry
  <2>2. CASE DaemonStep \/ DaemonIdle
    BY <2>2, RegistrarWrites DEF Put, RootEntry, AuditTypeInv, TypeInv, TypeOK
  <2>. QED  BY <2>1, <2>2, KernelOrDaemon
<1>. QED  BY <1>1, <1>2, <1>3, PTL DEF AuditSpec, StaysListed
===========================================================================
