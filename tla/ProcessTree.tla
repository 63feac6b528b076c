---------------------------- MODULE ProcessTree ----------------------------
(***************************************************************************)
(* ebpf/audit.bpf.c: the programs that run in the kernel.                  *)
(*                                                                         *)
(* Tasks are created, run a new program and die; each of these and each    *)
(* audited call runs a handler on the CPU of the task.  A handler is       *)
(* straight-line code over three shared hash maps, and every map operation *)
(* is a step of its own here, so handlers of tasks on different CPUs       *)
(* interleave between any two of them.                                     *)
(*                                                                         *)
(* External (the kernel): status, tgid, comm and parent, the order in      *)
(* which a task's hooks fire, and the guards named "kernel" below.         *)
(* Not modelled: a lookup's pointer is a copy of the entry at that moment  *)
(* (the kernel's reuse of a map element under a reader is left out), exec  *)
(* by a thread that is not the only one of its process.                    *)
(***************************************************************************)
EXTENDS BpfMap, Sequences

CONSTANTS
  Pid,            \* kernel task ids (a process is the id of its leader)
  NoPid,          \* pid 0, the parent of a root enlisted by exec
  Comm,           \* command names
  NoComm,         \* the name of an id no task holds
  Boot,           \* tasks that live when the programs are attached
  TargetComms,    \* what target_comms holds in a kernel-only behaviour
  WlCap,          \* max_entries of pid_whitelist: 1024
  TreeCap,        \* max_entries of agent_tree: 2048
  MaxChain,       \* MAX_CHAIN_DEPTH: 8
  DepthMod,       \* values of a __u8: 256
  Cpus,           \* handlers that can be in flight
  Threads,        \* whether tasks create threads
  PidReuse        \* whether the kernel hands an id out again

ASSUME PidAssumption   == NoPid \notin Pid /\ Boot \subseteq Pid
ASSUME CommAssumption  == NoComm \notin Comm /\ TargetComms \subseteq Comm
ASSUME SizeAssumption  == /\ WlCap \in Nat /\ TreeCap \in Nat
                          /\ MaxChain \in Nat \ {0, 1} /\ DepthMod \in Nat \ {0, 1}
                          /\ Cpus \in Nat
ASSUME FlagAssumption  == Threads \in BOOLEAN /\ PidReuse \in BOOLEAN

PidOrNone == Pid \cup {NoPid}
Entry     == [root : Pid, depth : 0 .. DepthMod - 1]     \* whitelist_entry
Node      == [parent : PidOrNone, comm : Comm \cup {NoComm}]     \* tree_node

ASSUME AbsentAssumption == Absent \notin Entry /\ Absent \notin Node

VARIABLES
  status,         \* kernel: "free", "new" (created, not yet woken), "run",
                  \* "zombie", "gone" (reaped, id not handed out again)
  tgid,           \* kernel: the process a task is a thread of
  comm,           \* kernel: the command name of a task
  parent,         \* kernel: the task that created it
  pid_whitelist,
  agent_tree,
  target_comms,
  frame,          \* the locals of the handler running in each task
  newest          \* the newest record put into the map `events'

kernel   == <<status, tgid, comm, parent>>
maps     == <<pid_whitelist, agent_tree, target_comms>>
treeVars == <<status, tgid, comm, parent, pid_whitelist, agent_tree,
              target_comms, frame, newest>>
---------------------------------------------------------------------------
PCs == {"idle", "fork", "fork_wl", "fork_tree", "exec", "exec_known",
        "exec_put", "exec_new", "exec_wl", "exec_tree", "exit_tree",
        "first", "walk"}

\* pc is the next map operation; entry and node are the copies the handler
\* holds, chain the part of event->chain packed so far, cur current_pid.
Frame == [pc    : PCs,
          child : PidOrNone,
          entry : Entry \cup {Absent},
          node  : Node \cup {Absent},
          chain : Seq(Pid),
          cur   : PidOrNone]

Idle == [pc |-> "idle", child |-> NoPid, entry |-> Absent, node |-> Absent,
         chain |-> <<>>, cur |-> NoPid]

\* entry is the one the chain was packed for; event->pid is chain[1].
Event == [entry : Entry \cup {Absent}, chain : Seq(Pid)]

NoEvent == [entry |-> Absent, chain |-> <<>>]

Live(p)   == status[p] \in {"new", "run"}
Busy      == {t \in Pid : frame[t].pc # "idle"}
Leader(t) == tgid[t] = t

\* The task can enter a hook: it runs, its last handler is over, a CPU is free.
Ready(t) == /\ status[t] = "run" /\ frame[t].pc = "idle"
            /\ Cardinality(Busy) < Cpus

At(t, pc)         == frame[t].pc = pc
Goto(t, f)        == frame' = [frame EXCEPT ![t] = f]
GotoPc(t, pc)     == Goto(t, [frame[t] EXCEPT !.pc = pc])
Last(s)           == s[Len(s)]
---------------------------------------------------------------------------
\* return 0.  The kernel wakes a new task when the fork handler is over.
Return(t) ==
  /\ Goto(t, Idle)
  /\ status' = IF frame[t].child = NoPid THEN status
               ELSE [status EXCEPT ![frame[t].child] = "run"]

\* chain_depth is set and the record goes into `events'.
Emit(t, entry, chain) ==
  /\ newest' = [entry |-> entry, chain |-> chain]
  /\ Return(t)

\* pack_process_chain, step 0: the process itself.
PackSelf(t, p, entry) ==
  IF p = entry.root
  THEN Emit(t, entry, <<p>>)
  ELSE /\ Goto(t, [frame[t] EXCEPT !.pc = "first", !.entry = entry,
                                   !.chain = <<p>>, !.cur = p])
       /\ UNCHANGED <<status, newest>>

\* "Get parent pid from agent_tree for current process".
PackParent(t) ==
  LET f    == frame[t]
      node == Lookup(agent_tree, f.cur)
  IN  /\ At(t, "first")
      /\ \/ /\ node = Absent
            /\ Emit(t, f.entry, f.chain)
         \/ /\ node # Absent
            /\ Goto(t, [f EXCEPT !.pc = "walk", !.cur = node.parent])
            /\ UNCHANGED <<status, newest>>
      /\ UNCHANGED <<tgid, comm, parent, maps>>

\* Mutant: one CHAIN_STEP too few.
ChainDone_OneShort(f, longer) ==
  f.cur = f.entry.root \/ Len(longer) = MaxChain - 1

\* CHAIN_STEP(7) is the last one, and so is the one that reaches the root.
ChainDone(f, longer) == f.cur = f.entry.root \/ Len(longer) = MaxChain

\* CHAIN_STEP(idx), idx = Len(chain).
ChainStep(t) ==
  LET f      == frame[t]
      node   == Lookup(agent_tree, f.cur)
      longer == Append(f.chain, f.cur)
  IN  /\ At(t, "walk")
      /\ \/ /\ node = Absent
            /\ Emit(t, f.entry, f.chain)
         \/ /\ node # Absent /\ ChainDone(f, longer)
            /\ Emit(t, f.entry, longer)
         \/ /\ node # Absent /\ ~ChainDone(f, longer)
            /\ Goto(t, [f EXCEPT !.chain = longer, !.cur = node.parent])
            /\ UNCHANGED <<status, newest>>
      /\ UNCHANGED <<tgid, comm, parent, maps>>
---------------------------------------------------------------------------
\* openat, connect, getaddrinfo, read, write: the five handlers differ only in
\* the type and the data of the record.  They use the process id.
Capture(t) ==
  LET p == tgid[t]
  IN  /\ Ready(t)
      /\ Has(pid_whitelist, p)
      /\ PackSelf(t, p, pid_whitelist[p])
      /\ UNCHANGED <<tgid, comm, parent, maps>>
---------------------------------------------------------------------------
\* kernel: the child is in the task list, and so in /proc, before the hook runs;
\* it has the name of its creator and is woken after the hook.
ForkStart(t, c, thread) ==
  /\ Ready(t) /\ status[c] = "free" /\ (thread => Threads)
  /\ status' = [status EXCEPT ![c] = "new"]
  /\ tgid' = [tgid EXCEPT ![c] = IF thread THEN tgid[t] ELSE c]
  /\ comm' = [comm EXCEPT ![c] = comm[t]]
  /\ parent' = [parent EXCEPT ![c] = t]
  /\ Goto(t, [Idle EXCEPT !.pc = "fork", !.child = c])
  /\ UNCHANGED <<maps, newest>>

\* Mutant: the depth does not fit the byte.
ChildEntry_Wide(t, entry) ==
  [root |-> entry.root, depth |-> entry.depth + 1]

\* Mutant: the creator instead of the creator's root.
ChildEntry_OwnRoot(t, entry) ==
  [root |-> t, depth |-> (entry.depth + 1) % DepthMod]

\* child_entry: same root, one level down, in 8 bits.
ChildEntry(t, entry) ==
  [root |-> entry.root, depth |-> (entry.depth + 1) % DepthMod]

\* The hook's parent_pid is the id of the forking task, not of its process.
ForkLookup(t) ==
  LET entry == Lookup(pid_whitelist, t)
  IN  /\ At(t, "fork")
      /\ \/ /\ entry = Absent
            /\ Return(t)
         \/ /\ entry # Absent
            /\ Goto(t, [frame[t] EXCEPT !.pc = "fork_wl",
                                        !.entry = ChildEntry(t, entry)])
            /\ UNCHANGED status
      /\ UNCHANGED <<tgid, comm, parent, maps, newest>>

\* Mutant: grandchildren are forgotten.
ForkWhitelist_OneLevel(t) ==
  /\ At(t, "fork_wl")
  /\ pid_whitelist' =
       IF frame[t].entry.depth > 1 THEN pid_whitelist
       ELSE Put(pid_whitelist, WlCap, frame[t].child, frame[t].entry)
  /\ GotoPc(t, "fork_tree")
  /\ UNCHANGED <<kernel, agent_tree, target_comms, newest>>

\* The result of the update is not looked at.
ForkWhitelist(t) ==
  /\ At(t, "fork_wl")
  /\ pid_whitelist' = Put(pid_whitelist, WlCap, frame[t].child, frame[t].entry)
  /\ GotoPc(t, "fork_tree")
  /\ UNCHANGED <<kernel, agent_tree, target_comms, newest>>

\* Mutant: the root instead of the parent.
ChildNode_Root(t) == [parent |-> frame[t].entry.root, comm |-> comm[t]]

\* child_node; the name is that of the creator, who runs the hook.
ChildNode(t) == [parent |-> t, comm |-> comm[t]]

\* Mutant: BPF_NOEXIST instead of BPF_ANY.
ForkTree_NoExist(t) ==
  LET c == frame[t].child
  IN  /\ At(t, "fork_tree")
      /\ agent_tree' = IF Has(agent_tree, c) THEN agent_tree
                       ELSE Put(agent_tree, TreeCap, c, ChildNode(t))
      /\ PackSelf(t, c, frame[t].entry)
      /\ UNCHANGED <<tgid, comm, parent, pid_whitelist, target_comms>>

\* The update of agent_tree, then the fork record of the child.
ForkTree(t) ==
  LET c == frame[t].child
  IN  /\ At(t, "fork_tree")
      /\ agent_tree' = Put(agent_tree, TreeCap, c, ChildNode(t))
      /\ PackSelf(t, c, frame[t].entry)
      /\ UNCHANGED <<tgid, comm, parent, pid_whitelist, target_comms>>
---------------------------------------------------------------------------
\* kernel: the name is new before the hook runs, and exec leaves one thread.
ExecStart(t, c) ==
  /\ Ready(t) /\ Leader(t)
  /\ \A u \in Pid \ {t} : Live(u) => tgid[u] # t
  /\ comm' = [comm EXCEPT ![t] = c]
  /\ GotoPc(t, "exec")
  /\ UNCHANGED <<status, tgid, parent, maps, newest>>

\* Mutant: no look at the whitelist first.
ExecLookup_Always(t) ==
  /\ At(t, "exec")
  /\ GotoPc(t, "exec_new")
  /\ UNCHANGED <<kernel, maps, newest>>

ExecLookup(t) ==
  /\ At(t, "exec")
  /\ GotoPc(t, IF Has(pid_whitelist, t) THEN "exec_known" ELSE "exec_new")
  /\ UNCHANGED <<kernel, maps, newest>>

\* Mutant: the name is left as it was.
ExecKnown_OldName(t) ==
  /\ At(t, "exec_known")
  /\ Goto(t, Idle)
  /\ UNCHANGED <<kernel, maps, newest>>

\* "Already in whitelist": the name is written into the node the lookup found,
\* in place.
ExecKnown(t) ==
  LET node == Lookup(agent_tree, t)
  IN  /\ At(t, "exec_known")
      /\ \/ /\ node = Absent
            /\ Goto(t, Idle)
            /\ UNCHANGED agent_tree
         \/ /\ node # Absent
            /\ agent_tree' = [agent_tree EXCEPT ![t].comm = comm[t]]
            /\ Goto(t, [frame[t] EXCEPT !.pc = "exec_put",
                                        !.node = agent_tree'[t]])
      /\ UNCHANGED <<kernel, pid_whitelist, target_comms, newest>>

\* ... and then that node is put back under the same key.
ExecPut(t) ==
  /\ At(t, "exec_put")
  /\ agent_tree' = Put(agent_tree, TreeCap, t, frame[t].node)
  /\ Goto(t, Idle)
  /\ UNCHANGED <<kernel, pid_whitelist, target_comms, newest>>

\* "Not in whitelist": is the name a target now?
ExecMatch(t) ==
  /\ At(t, "exec_new")
  /\ \/ comm[t] \notin target_comms /\ Goto(t, Idle)
     \/ comm[t] \in target_comms /\ GotoPc(t, "exec_wl")
  /\ UNCHANGED <<kernel, maps, newest>>

ExecWhitelist(t) ==
  /\ At(t, "exec_wl")
  /\ pid_whitelist' = Put(pid_whitelist, WlCap, t, [root |-> t, depth |-> 0])
  /\ GotoPc(t, "exec_tree")
  /\ UNCHANGED <<kernel, agent_tree, target_comms, newest>>

\* parent_pid = 0: no parent for an exec-matched root.
ExecTree(t) ==
  /\ At(t, "exec_tree")
  /\ agent_tree' = Put(agent_tree, TreeCap, t,
                       [parent |-> NoPid, comm |-> comm[t]])
  /\ Goto(t, Idle)
  /\ UNCHANGED <<kernel, pid_whitelist, target_comms, newest>>
---------------------------------------------------------------------------
\* kernel: an id that is free again has no name and heads no thread group.
Reaped == IF PidReuse THEN "free" ELSE "gone"

Release(t) ==
  /\ status' = [status EXCEPT ![t] = Reaped]
  /\ tgid' = [tgid EXCEPT ![t] = t]
  /\ comm' = [comm EXCEPT ![t] = NoComm]
  /\ UNCHANGED parent

\* kernel: a leader stays a zombie for its parent, a thread is gone at once.
Die(t) ==
  \/ /\ Leader(t)
     /\ status' = [status EXCEPT ![t] = "zombie"]
     /\ UNCHANGED <<tgid, comm, parent>>
  \/ ~Leader(t) /\ Release(t)

\* Mutant: only agent_tree is cleaned up.
ExitWhitelist_Keeps(t) ==
  /\ Ready(t)
  /\ \/ ~Has(pid_whitelist, t) /\ Die(t) /\ UNCHANGED frame
     \/ Has(pid_whitelist, t) /\ GotoPc(t, "exit_tree") /\ UNCHANGED kernel
  /\ UNCHANGED <<maps, newest>>

\* Nothing to do for a task that is not in the whitelist.
ExitWhitelist(t) ==
  /\ Ready(t)
  /\ \/ /\ ~Has(pid_whitelist, t)
        /\ Die(t)
        /\ UNCHANGED <<pid_whitelist, frame>>
     \/ /\ Has(pid_whitelist, t)
        /\ pid_whitelist' = Del(pid_whitelist, t)
        /\ GotoPc(t, "exit_tree")
        /\ UNCHANGED kernel
  /\ UNCHANGED <<agent_tree, target_comms, newest>>

\* Mutant: only pid_whitelist is cleaned up.
ExitTree_Keeps(t) ==
  /\ At(t, "exit_tree")
  /\ Goto(t, Idle)
  /\ Die(t)
  /\ UNCHANGED <<maps, newest>>

ExitTree(t) ==
  /\ At(t, "exit_tree")
  /\ agent_tree' = Del(agent_tree, t)
  /\ Goto(t, Idle)
  /\ Die(t)
  /\ UNCHANGED <<pid_whitelist, target_comms, newest>>

\* kernel: wait(), once no thread of the process is left.
Reap(t) ==
  /\ status[t] = "zombie"
  /\ \A u \in Pid \ {t} : Live(u) => tgid[u] # t
  /\ Release(t)
  /\ UNCHANGED <<maps, frame, newest>>
---------------------------------------------------------------------------
\* The programs are attached to running tasks; all maps are empty.
TreeInit ==
  /\ status = [p \in Pid |-> IF p \in Boot THEN "run" ELSE "free"]
  /\ tgid = [p \in Pid |-> p]
  /\ comm \in [Pid -> Comm \cup {NoComm}]
  /\ \A p \in Pid : comm[p] = NoComm <=> p \notin Boot
  /\ parent = [p \in Pid |-> NoPid]
  /\ pid_whitelist = [p \in Pid |-> Absent]
  /\ agent_tree = [p \in Pid |-> Absent]
  /\ frame = [p \in Pid |-> Idle]
  /\ newest = NoEvent

Init == TreeInit /\ target_comms = TargetComms

\* The next step of the handler that is running in t.
HandlerStep(t) ==
  \/ PackParent(t) \/ ChainStep(t)
  \/ ForkLookup(t) \/ ForkWhitelist(t) \/ ForkTree(t)
  \/ ExecLookup(t) \/ ExecKnown(t) \/ ExecPut(t)
  \/ ExecMatch(t) \/ ExecWhitelist(t) \/ ExecTree(t)
  \/ ExitTree(t)

\* What a task does by itself.
TaskStep(t) ==
  \/ Capture(t)
  \/ \E c \in Pid, thread \in BOOLEAN : ForkStart(t, c, thread)
  \/ \E c \in Comm : ExecStart(t, c)
  \/ ExitWhitelist(t)
  \/ Reap(t)

Next == \E t \in Pid : TaskStep(t) \/ HandlerStep(t)

Spec == Init /\ [][Next]_treeVars
---------------------------------------------------------------------------
TypeOK ==
  /\ status \in [Pid -> {"free", "new", "run", "zombie", "gone"}]
  /\ tgid \in [Pid -> Pid]
  /\ comm \in [Pid -> Comm \cup {NoComm}]
  /\ parent \in [Pid -> PidOrNone]
  /\ pid_whitelist \in [Pid -> Entry \cup {Absent}]
  /\ agent_tree \in [Pid -> Node \cup {Absent}]
  /\ target_comms \subseteq Comm
  /\ frame \in [Pid -> Frame]
  /\ newest \in Event
---------------------------------------------------------------------------
\* The properties below are about kernel-only behaviours.  Except where full maps and
\* reused ids are named, ids are not handed out again; those that say so need maps
\* with room.

\* No hook of p is half way: nothing about p is in flight.
Quiet(p) == frame[p].pc \in {"idle", "first", "walk"} /\ status[p] # "new"

\* Every whitelist entry is that of a live task, full maps and reused ids or
\* not.  A missed clean-up would audit whatever task gets the id next.
EntriesLive == \A p \in Pid : Has(pid_whitelist, p) => Live(p)

\* Nodes that no clean-up found stay behind when their task dies, but none of them is
\* taken for the node of a later owner of the id: outside its own hooks an audited task
\* has the node of its own creation, a node without parent, or none.
NodeIsOwn ==
  \A p \in Pid : Quiet(p) /\ Has(pid_whitelist, p) /\ Has(agent_tree, p)
                => agent_tree[p].parent \in {NoPid, parent[p]}

\* With room in the whitelist, a node of agent_tree belongs to an entry or to a
\* task that is between the two deletes of its exit handler.
NodesListed ==
  \A p \in Pid :
    Has(agent_tree, p) => Has(pid_whitelist, p) \/ At(p, "exit_tree")

\* Once there, the entry of a task stays as it is, root and depth, until the
\* task's own exit handler removes it: no other handler replaces it, and a full
\* map loses nothing.
KeptUntilExit ==
  [][\A p \in Pid :
       Has(pid_whitelist, p) /\ pid_whitelist'[p] # pid_whitelist[p]
         => pid_whitelist'[p] = Absent /\ At(p, "exit_tree")']_treeVars

\* With room in both maps: outside p's own hooks the two maps agree on p, the
\* name kept in the tree is the one p runs under, and p is a root exactly when
\* it has no parent node; its depth is 0 then.
MapsAgree ==
  \A p \in Pid : Quiet(p) =>
    /\ Has(pid_whitelist, p) <=> Has(agent_tree, p)
    /\ Has(pid_whitelist, p) =>
         LET e == pid_whitelist[p]
             n == agent_tree[p]
         IN  /\ n.comm = comm[p]
             /\ (e.root = p) <=> (n.parent = NoPid)
             /\ e.root = p => e.depth = 0

\* A task that is not a root has the root of its creator and is one level
\* below it, as long as the creator is still audited (8-bit depth aside).
Inherits ==
  \A p \in Pid :
    LET e == pid_whitelist[p]
        q == parent[p]
    IN  Has(pid_whitelist, p) /\ e.root # p /\ Has(pid_whitelist, q)
          => /\ e.root = pid_whitelist[q].root
             /\ e.depth = (pid_whitelist[q].depth + 1) % DepthMod

\* Each link of a recorded chain is a task and the task that created it,
\* whatever forked, ran exec or exited while the chain was being packed.
ChainTruth ==
  \A i \in 1 .. Len(newest.chain) - 1 :
    parent[newest.chain[i]] = newest.chain[i + 1]

\* Full maps and reused ids or not, the parent that a record names is the task that
\* created the process of the record.  Further up a chain may go on with a stranger,
\* the later owner of an ancestor's id or one whose node was left behind.
FirstLinkTrue ==
  [][newest' # newest /\ Len(newest'.chain) > 1
       => newest'.chain[2] = parent[newest'.chain[1]]]_treeVars

\* With room in both maps a recorded chain stops for one of these reasons: it
\* reached the root, it is full, or the next ancestor or (while another thread
\* of the process makes the call) the process itself is dead.  One that reached
\* the root is one longer than the depth of the entry, although that has 8 bits.
ChainEnds ==
  LET chain == newest.chain
      last  == Last(chain)
      e     == newest.entry
  IN  newest # NoEvent =>
        /\ \/ last = e.root
           \/ Len(chain) = MaxChain
           \/ ~Live(last) \/ ~Live(parent[last])
        /\ last = e.root => Len(chain) = e.depth + 1
---------------------------------------------------------------------------
\* A new task joins when the hook of its fork is over; a dying one has left
\* when its whitelist entry is gone.
Joined == {p \in Pid : status[p] \notin {"free", "new"}}
Acting == {p \in Joined : status[p] = "run" /\ ~At(p, "exit_tree")}

Policy == INSTANCE AuditPolicy WITH
  running <- Acting,
  dead    <- Joined \ Acting,
  creator <- [p \in Pid |-> IF p \in Joined THEN parent[p] ELSE NoPid],
  owner   <- [p \in Pid |-> IF p \in Joined /\ Has(pid_whitelist, p)
                            THEN pid_whitelist[p].root ELSE NoPid],
  report  <- newest.chain

\* With room in the maps the handlers implement the policy: nobody sees an owned
\* creator with an unowned child, a task that lost its root while alive, or a
\* report with a chain that was never true.
ImplementsPolicy == Policy!Spec
===========================================================================
