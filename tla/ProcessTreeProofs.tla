------------------------- MODULE ProcessTreeProofs -------------------------
(***************************************************************************)
(* Theorems about ProcessTree for every number of tasks, names, CPUs and   *)
(* map sizes, and the lemmas that TreeProofs and AgentAuditProofs take     *)
(* further: types, chains, and who is in pid_whitelist.                    *)
(***************************************************************************)
EXTENDS ProcessTree, TLAPS

\* What a handler holds at the map operation it is about to perform.
FramesOK ==
  \A t \in Pid :
    LET f == frame[t]
    IN  /\ f.pc \in {"fork", "fork_wl", "fork_tree"} => f.child \in Pid
        /\ f.pc \in {"fork_wl", "fork_tree"} => f.entry \in Entry
        /\ f.pc = "exec_put" => f.node \in Node

TypeInv == TypeOK /\ FramesOK
---------------------------------------------------------------------------
\* An 8-bit depth stays an 8-bit depth.
LEMMA DepthWraps ==
  ASSUME NEW d \in Nat
  PROVE  d % DepthMod \in 0 .. DepthMod - 1
<1>1. DepthMod \in Nat \ {0}
  BY SizeAssumption
<1> QED
  BY <1>1

\* A map update keeps the type of a map.
LEMMA PutType ==
  ASSUME NEW D, NEW V, NEW m \in [D -> V \cup {Absent}], NEW cap,
         NEW k, NEW v \in V
  PROVE  Put(m, cap, k, v) \in [D -> V \cup {Absent}]
BY DEF Put

LEMMA DelType ==
  ASSUME NEW D, NEW V, NEW m \in [D -> V \cup {Absent}], NEW k
  PROVE  Del(m, k) \in [D -> V \cup {Absent}]
BY DEF Del

\* A key under which something is found is a key of the map.
LEMMA LookupType ==
  ASSUME NEW D, NEW V, NEW m \in [D -> V \cup {Absent}], NEW k,
         Lookup(m, k) # Absent
  PROVE  k \in D /\ Lookup(m, k) \in V /\ Lookup(m, k) = m[k]
BY DEF Lookup

\* The frame between handlers.
LEMMA IdleType == Idle \in Frame /\ Idle.pc = "idle" /\ Idle.child = NoPid
BY DEF Idle, Frame, PCs, PidOrNone

LEMMA TypeInit ==
  ASSUME TreeInit, target_comms \subseteq Comm
  PROVE  TypeInv
<1> USE DEF TreeInit
<1>1. comm \in [Pid -> Comm \cup {NoComm}] /\ target_comms \subseteq Comm
  BY CommAssumption
<1>2. status \in [Pid -> {"free", "new", "run", "zombie", "gone"}]
  OBVIOUS
<1>3. /\ tgid \in [Pid -> Pid]
      /\ parent \in [Pid -> PidOrNone]
      /\ pid_whitelist \in [Pid -> Entry \cup {Absent}]
      /\ agent_tree \in [Pid -> Node \cup {Absent}]
  BY DEF PidOrNone
<1>4. frame \in [Pid -> Frame] /\ FramesOK
  BY IdleType DEF FramesOK
<1>5. newest \in Event
  BY DEF NoEvent, Event
<1> QED
  BY <1>1, <1>2, <1>3, <1>4, <1>5 DEF TypeInv, TypeOK
---------------------------------------------------------------------------
\* A frame that may be given to a handler.
Good(f) ==
  /\ f \in Frame
  /\ f.pc \in {"fork", "fork_wl", "fork_tree"} => f.child \in Pid
  /\ f.pc \in {"fork_wl", "fork_tree"} => f.entry \in Entry
  /\ f.pc = "exec_put" => f.node \in Node

LEMMA GotoType ==
  ASSUME TypeInv, NEW t \in Pid, NEW f, Good(f), Goto(t, f)
  PROVE  frame' \in [Pid -> Frame] /\ FramesOK'
BY DEF TypeInv, TypeOK, FramesOK, Goto, Good

LEMMA FramesUnchanged == TypeInv /\ UNCHANGED frame => FramesOK'
BY DEF TypeInv, FramesOK

LEMMA ReturnType ==
  ASSUME TypeInv, NEW t \in Pid, Return(t)
  PROVE  /\ frame' \in [Pid -> Frame] /\ FramesOK'
         /\ status' \in [Pid -> {"free", "new", "run", "zombie", "gone"}]
<1>1. Good(Idle)
  BY IdleType DEF Good
<1>2. Goto(t, Idle)
  BY DEF Return
<1>3. frame' \in [Pid -> Frame] /\ FramesOK'
  BY <1>1, <1>2, GotoType
<1>4. status' \in [Pid -> {"free", "new", "run", "zombie", "gone"}]
  BY DEF Return, TypeInv, TypeOK
<1> QED
  BY <1>3, <1>4

LEMMA EmitType ==
  ASSUME TypeInv, NEW t \in Pid, NEW e \in Entry \cup {Absent},
         NEW chain \in Seq(Pid), Emit(t, e, chain)
  PROVE  /\ frame' \in [Pid -> Frame] /\ FramesOK'
         /\ status' \in [Pid -> {"free", "new", "run", "zombie", "gone"}]
         /\ newest' \in Event
<1>1. Return(t) /\ newest' = [entry |-> e, chain |-> chain]
  BY DEF Emit
<1>2. newest' \in Event
  BY <1>1 DEF Event
<1> QED
  BY <1>1, <1>2, ReturnType

LEMMA PackSelfType ==
  ASSUME TypeInv, NEW t \in Pid, NEW p \in Pid, NEW e \in Entry,
         PackSelf(t, p, e)
  PROVE  /\ frame' \in [Pid -> Frame] /\ FramesOK'
         /\ status' \in [Pid -> {"free", "new", "run", "zombie", "gone"}]
         /\ newest' \in Event
<1>1. <<p>> \in Seq(Pid)
  OBVIOUS
<1>2. CASE p = e.root
  BY <1>1, <1>2, EmitType DEF PackSelf
<1>3. CASE p # e.root
  <2> DEFINE f == [frame[t] EXCEPT !.pc = "first", !.entry = e,
                                   !.chain = <<p>>, !.cur = p]
  <2>1. Goto(t, f) /\ UNCHANGED <<status, newest>>
    BY <1>3 DEF PackSelf
  <2>2. frame[t] \in Frame
    BY DEF TypeInv, TypeOK
  <2>3. f \in Frame /\ f.pc = "first"
    BY <1>1, <2>2 DEF Frame, PCs, PidOrNone
  <2>4. Good(f)
    BY <2>3 DEF Good
  <2> HIDE DEF f
  <2> QED
    BY <2>1, <2>4, GotoType DEF TypeInv, TypeOK
<1> QED
  BY <1>2, <1>3
---------------------------------------------------------------------------
\* Every value a handler or a task stores is of the right type.
LEMMA TypeStep == TypeInv /\ [Next]_treeVars => TypeInv'
<1> SUFFICES ASSUME TypeInv, [Next]_treeVars PROVE TypeInv'
  OBVIOUS
<1> USE DEF TypeInv, TypeOK
<1>1. ASSUME NEW t \in Pid, PackParent(t) PROVE TypeInv'
  <2> DEFINE f == frame[t]
             node == Lookup(agent_tree, f.cur)
  <2>1. f \in Frame /\ f.pc = "first"
    BY <1>1 DEF PackParent, At
  <2>2. CASE node = Absent
    <3>1. Emit(t, f.entry, f.chain)
      BY <1>1, <2>2 DEF PackParent
    <3> QED
      BY <1>1, <2>1, <3>1, EmitType DEF PackParent, maps, Frame
  <2>3. CASE node # Absent
    <3>1. node \in Node
      BY <2>3, LookupType
    <3> DEFINE g == [f EXCEPT !.pc = "walk", !.cur = node.parent]
    <3>2. Goto(t, g) /\ UNCHANGED <<status, newest>>
      BY <1>1, <2>3 DEF PackParent
    <3>3. Good(g)
      BY <2>1, <3>1 DEF Good, Frame, PCs, Node
    <3> HIDE DEF g
    <3> QED
      BY <1>1, <3>2, <3>3, GotoType DEF PackParent, maps
  <2> QED
    BY <2>2, <2>3
<1>2. ASSUME NEW t \in Pid, ChainStep(t) PROVE TypeInv'
  <2> DEFINE f == frame[t]
             node == Lookup(agent_tree, f.cur)
             longer == Append(f.chain, f.cur)
             done == ChainDone(f, longer)
  <2>1. f \in Frame /\ f.pc = "walk" /\ f.chain \in Seq(Pid)
        /\ f.entry \in Entry \cup {Absent}
    BY <1>2 DEF ChainStep, At, Frame
  <2>2. CASE node = Absent
    <3>1. Emit(t, f.entry, f.chain)
      BY <1>2, <2>2 DEF ChainStep
    <3> QED
      BY <1>2, <2>1, <3>1, EmitType DEF ChainStep, maps
  <2>3. CASE node # Absent
    <3>1. f.cur \in Pid /\ node \in Node
      BY <2>3, LookupType
    <3>2. longer \in Seq(Pid)
      BY <2>1, <3>1
    <3> HIDE DEF longer
    <3>3. CASE done
      <4>1. Emit(t, f.entry, longer)
        BY <1>2, <2>3, <3>3 DEF ChainStep, longer
      <4> QED
        BY <1>2, <2>1, <3>2, <4>1, EmitType DEF ChainStep, maps
    <3>4. CASE ~done
      <4> DEFINE g == [f EXCEPT !.chain = longer, !.cur = node.parent]
      <4>1. Goto(t, g) /\ UNCHANGED <<status, newest>>
        BY <1>2, <2>3, <3>4 DEF ChainStep, longer
      <4>2. Good(g)
        BY <2>1, <3>1, <3>2 DEF Good, Frame, PCs, Node
      <4> HIDE DEF g
      <4> QED
        BY <1>2, <4>1, <4>2, GotoType DEF ChainStep, maps
    <3> QED
      BY <3>3, <3>4
  <2> QED
    BY <2>2, <2>3
<1>3. ASSUME NEW t \in Pid, Capture(t) PROVE TypeInv'
  <2>1. pid_whitelist[tgid[t]] \in Entry /\ tgid[t] \in Pid
    BY <1>3 DEF Capture, Has, Lookup
  <2> QED
    BY <1>3, <2>1, PackSelfType DEF Capture, maps
<1>4. ASSUME NEW t \in Pid, NEW c \in Pid, NEW thread \in BOOLEAN,
             ForkStart(t, c, thread)
      PROVE  TypeInv'
  <2> DEFINE g == [Idle EXCEPT !.pc = "fork", !.child = c]
  <2>1. Good(g)
    BY IdleType DEF Good, Frame, PCs, PidOrNone
  <2>2. Goto(t, g)
    BY <1>4 DEF ForkStart
  <2>3. frame' \in [Pid -> Frame] /\ FramesOK'
    BY <2>1, <2>2, GotoType
  <2>4. /\ status' \in [Pid -> {"free", "new", "run", "zombie", "gone"}]
        /\ tgid' \in [Pid -> Pid]
        /\ comm' \in [Pid -> Comm \cup {NoComm}]
        /\ parent' \in [Pid -> PidOrNone]
    BY <1>4 DEF ForkStart, PidOrNone
  <2> QED
    BY <1>4, <2>3, <2>4 DEF ForkStart, maps
<1>5. ASSUME NEW t \in Pid, ForkLookup(t) PROVE TypeInv'
  <2> DEFINE e == Lookup(pid_whitelist, t)
  <2>1. CASE e = Absent
    <3>1. Return(t)
      BY <1>5, <2>1 DEF ForkLookup
    <3> QED
      BY <1>5, <3>1, ReturnType DEF ForkLookup, maps
  <2>2. CASE e # Absent
    <3> DEFINE d == (e.depth + 1) % DepthMod
               g == [frame[t] EXCEPT !.pc = "fork_wl",
                       !.entry = [root |-> e.root, depth |-> d]]
    <3>1. Goto(t, g) /\ UNCHANGED status
      BY <1>5, <2>2 DEF ForkLookup, ChildEntry
    <3>2. e \in Entry
      BY <2>2, LookupType
    <3>3. e.depth + 1 \in Nat
      BY <3>2, SizeAssumption DEF Entry
    <3>4. d \in 0 .. DepthMod - 1
      BY <3>3, DepthWraps
    <3> HIDE DEF d
    <3>5. [root |-> e.root, depth |-> d] \in Entry
      BY <3>2, <3>4 DEF Entry
    <3>6. frame[t] \in Frame /\ frame[t].child \in Pid
      BY <1>5 DEF ForkLookup, At, FramesOK
    <3>7. Good(g)
      BY <3>5, <3>6 DEF Good, Frame, PCs
    <3> HIDE DEF g
    <3> QED
      BY <1>5, <3>1, <3>7, GotoType DEF ForkLookup, maps
  <2> QED
    BY <2>1, <2>2
<1>6. ASSUME NEW t \in Pid, ForkWhitelist(t) PROVE TypeInv'
  <2> DEFINE f == frame[t]
             g == [f EXCEPT !.pc = "fork_tree"]
  <2>1. f \in Frame /\ f.child \in Pid /\ f.entry \in Entry
    BY <1>6 DEF ForkWhitelist, At, FramesOK
  <2>2. pid_whitelist' \in [Pid -> Entry \cup {Absent}]
    BY <1>6, <2>1, PutType DEF ForkWhitelist
  <2>3. Good(g)
    BY <2>1 DEF Good, Frame, PCs
  <2>4. Goto(t, g)
    BY <1>6 DEF ForkWhitelist, GotoPc
  <2> HIDE DEF g
  <2>5. frame' \in [Pid -> Frame] /\ FramesOK'
    BY <2>3, <2>4, GotoType
  <2> QED
    BY <1>6, <2>2, <2>5 DEF ForkWhitelist, kernel
<1>7. ASSUME NEW t \in Pid, ForkTree(t) PROVE TypeInv'
  <2> DEFINE f == frame[t]
             n == [parent |-> t, comm |-> comm[t]]
  <2>1. f \in Frame /\ f.child \in Pid /\ f.entry \in Entry
    BY <1>7 DEF ForkTree, At, FramesOK
  <2>2. n \in Node
    BY DEF Node, PidOrNone
  <2> HIDE DEF n
  <2>3. agent_tree' = Put(agent_tree, TreeCap, f.child, n)
    BY <1>7 DEF ForkTree, ChildNode, n
  <2>4. agent_tree' \in [Pid -> Node \cup {Absent}]
    BY <2>1, <2>2, <2>3, PutType
  <2>5. PackSelf(t, f.child, f.entry)
    BY <1>7 DEF ForkTree
  <2> QED
    BY <1>7, <2>1, <2>4, <2>5, PackSelfType DEF ForkTree
<1>8. ASSUME NEW t \in Pid, NEW pc \in {"exec", "exec_known", "exec_new",
                                        "exec_wl", "exec_tree", "exit_tree"},
             GotoPc(t, pc)
      PROVE  frame' \in [Pid -> Frame] /\ FramesOK'
  <2> DEFINE g == [frame[t] EXCEPT !.pc = pc]
  <2>1. Good(g)
    BY DEF Good, Frame, PCs
  <2>2. Goto(t, g)
    BY <1>8 DEF GotoPc
  <2> HIDE DEF g
  <2> QED
    BY <2>1, <2>2, GotoType
<1>9. ASSUME NEW t \in Pid, Goto(t, Idle)
      PROVE  frame' \in [Pid -> Frame] /\ FramesOK'
  BY <1>9, IdleType, GotoType DEF Good
<1>10. ASSUME NEW t \in Pid, NEW c \in Comm, ExecStart(t, c) PROVE TypeInv'
  <2>1. comm' \in [Pid -> Comm \cup {NoComm}]
    BY <1>10 DEF ExecStart
  <2> QED
    BY <1>8, <1>10, <2>1 DEF ExecStart, maps
<1>11. ASSUME NEW t \in Pid, ExecLookup(t) PROVE TypeInv'
  BY <1>8, <1>11 DEF ExecLookup, kernel, maps
<1>12. ASSUME NEW t \in Pid, ExecKnown(t) PROVE TypeInv'
  <2> DEFINE node == Lookup(agent_tree, t)
  <2>1. CASE node = Absent
    BY <1>9, <1>12, <2>1 DEF ExecKnown, kernel
  <2>2. CASE node # Absent
    <3> DEFINE n == [agent_tree[t] EXCEPT !.comm = comm[t]]
               g == [frame[t] EXCEPT !.pc = "exec_put", !.node = n]
    <3>1. agent_tree[t] \in Node
      <4>1. node \in Node
        BY <2>2, LookupType
      <4>2. node = agent_tree[t]
        BY DEF Lookup
      <4> QED
        BY <4>1, <4>2
    <3>2. n \in Node
      BY <3>1 DEF Node
    <3>3. agent_tree' = [agent_tree EXCEPT ![t] = n]
      BY <1>12, <2>2 DEF ExecKnown
    <3>4. agent_tree'[t] = n /\ agent_tree' \in [Pid -> Node \cup {Absent}]
      <4> HIDE DEF n
      <4> QED
        BY <3>2, <3>3
    <3>5. Goto(t, g)
      BY <1>12, <2>2, <3>4 DEF ExecKnown
    <3> HIDE DEF n
    <3>6. Good(g)
      BY <3>2 DEF Good, Frame, PCs
    <3> HIDE DEF g
    <3>7. frame' \in [Pid -> Frame] /\ FramesOK'
      BY <3>5, <3>6, GotoType
    <3> QED
      BY <1>12, <3>4, <3>7 DEF ExecKnown, kernel
  <2> QED
    BY <2>1, <2>2
<1>13. ASSUME NEW t \in Pid, ExecPut(t) PROVE TypeInv'
  <2>1. frame[t].node \in Node
    BY <1>13 DEF ExecPut, At, FramesOK
  <2>2. agent_tree' \in [Pid -> Node \cup {Absent}]
    BY <1>13, <2>1, PutType DEF ExecPut
  <2> QED
    BY <1>9, <1>13, <2>2 DEF ExecPut, kernel
<1>14. ASSUME NEW t \in Pid, ExecMatch(t) PROVE TypeInv'
  BY <1>8, <1>9, <1>14 DEF ExecMatch, kernel, maps
<1>15. ASSUME NEW t \in Pid, ExecWhitelist(t) PROVE TypeInv'
  <2> DEFINE e == [root |-> t, depth |-> 0]
  <2>1. e \in Entry
    BY SizeAssumption DEF Entry
  <2> HIDE DEF e
  <2>2. pid_whitelist' = Put(pid_whitelist, WlCap, t, e)
    BY <1>15 DEF ExecWhitelist, e
  <2>3. pid_whitelist' \in [Pid -> Entry \cup {Absent}]
    BY <2>1, <2>2, PutType
  <2> QED
    BY <1>8, <1>15, <2>3 DEF ExecWhitelist, kernel
<1>16. ASSUME NEW t \in Pid, ExecTree(t) PROVE TypeInv'
  <2> DEFINE n == [parent |-> NoPid, comm |-> comm[t]]
  <2>1. n \in Node
    BY DEF Node, PidOrNone
  <2> HIDE DEF n
  <2>2. agent_tree' = Put(agent_tree, TreeCap, t, n)
    BY <1>16 DEF ExecTree, n
  <2>3. agent_tree' \in [Pid -> Node \cup {Absent}]
    BY <2>1, <2>2, PutType
  <2> QED
    BY <1>9, <1>16, <2>3 DEF ExecTree, kernel
<1>17. ASSUME NEW t \in Pid, Release(t) \/ Die(t)
       PROVE  /\ status' \in [Pid -> {"free", "new", "run", "zombie", "gone"}]
              /\ tgid' \in [Pid -> Pid]
              /\ comm' \in [Pid -> Comm \cup {NoComm}]
              /\ parent' \in [Pid -> PidOrNone]
  BY <1>17 DEF Die, Release, Reaped
<1>18. ASSUME NEW t \in Pid, ExitWhitelist(t) PROVE TypeInv'
  <2>1. CASE ~Has(pid_whitelist, t)
    BY <1>17, <1>18, <2>1, FramesUnchanged DEF ExitWhitelist
  <2>2. CASE Has(pid_whitelist, t)
    <3>1. pid_whitelist' = Del(pid_whitelist, t)
      BY <1>18, <2>2 DEF ExitWhitelist
    <3>2. pid_whitelist' \in [Pid -> Entry \cup {Absent}]
      BY <3>1, DelType
    <3> QED
      BY <1>8, <1>18, <2>2, <3>2 DEF ExitWhitelist, kernel
  <2> QED
    BY <2>1, <2>2
<1>19. ASSUME NEW t \in Pid, ExitTree(t) PROVE TypeInv'
  <2>1. agent_tree' \in [Pid -> Node \cup {Absent}]
    BY <1>19, DelType DEF ExitTree
  <2> QED
    BY <1>9, <1>17, <1>19, <2>1 DEF ExitTree
<1>20. ASSUME NEW t \in Pid, Reap(t) PROVE TypeInv'
  BY <1>17, <1>20, FramesUnchanged DEF Reap, maps
<1>21. CASE UNCHANGED treeVars
  BY <1>21, FramesUnchanged DEF treeVars
<1>22. CASE Next
  BY <1>1, <1>2, <1>3, <1>4, <1>5, <1>6, <1>7, <1>10, <1>11, <1>12, <1>13,
     <1>14, <1>15, <1>16, <1>18, <1>19, <1>20, <1>22
     DEF Next, TaskStep, HandlerStep
<1> QED
  BY <1>21, <1>22

\* The values in the maps, in the handlers and in the record are those the C
\* types allow; an 8-bit depth wraps.
THEOREM TypeCorrect == Spec => []TypeOK
<1>1. Init => TypeInv
  BY TypeInit, CommAssumption DEF Init
<1>2. TypeInv /\ [Next]_treeVars => TypeInv'
  BY TypeStep
<1>3. TypeInv => TypeOK
  BY DEF TypeInv
<1> QED
  BY <1>1, <1>2, <1>3, PTL DEF Spec
---------------------------------------------------------------------------
\* The argument for ChainTruth.  Without reuse of ids a task gets its creator
\* once and for all, so what is true of a link stays true; and every link in
\* agent_tree, in a handler's copy of a node and in a chain that is being
\* packed was written from a true one.  pa is the genealogy; own are the tasks
\* whose node may name the task itself, none unless somebody registers them.

Kin(p, pa, own) == {pa[p]} \cup ({p} \cap own)

TrueChain(c, pa, own) == \A i \in 1 .. Len(c) - 1 : c[i + 1] \in Kin(c[i], pa, own)

TrueNode(p, n, pa, own) == n.parent \in {NoPid} \cup Kin(p, pa, own)

TrueFrame(t, f, pa, own) ==
  /\ f.pc \in {"fork", "fork_wl", "fork_tree"} => pa[f.child] = t
  /\ f.pc = "exec_put" => TrueNode(t, f.node, pa, own)
  /\ f.pc = "first" => f.cur \in Pid /\ f.chain = <<f.cur>>
  /\ f.pc = "walk" => /\ f.chain # <<>>
                      /\ TrueChain(f.chain, pa, own)
                      /\ f.cur \in {NoPid} \cup Kin(Last(f.chain), pa, own)

LinkInv(own) ==
  /\ \A p \in Pid : status[p] = "free" => parent[p] = NoPid
  /\ \A p \in Pid : Has(agent_tree, p) => TrueNode(p, agent_tree[p], parent, own)
  /\ \A t \in Pid : TrueFrame(t, frame[t], parent, own)
  /\ TrueChain(newest.chain, parent, own)

\* A genealogy only grows.
Grows(pa, pb) == \A p \in Pid : pa[p] # NoPid => pb[p] = pa[p]

LEMMA ChainStaysTrue ==
  ASSUME NEW own, NEW pa \in [Pid -> PidOrNone], NEW pb \in [Pid -> PidOrNone],
         Grows(pa, pb), NEW c \in Seq(Pid), TrueChain(c, pa, own)
  PROVE  TrueChain(c, pb, own)
<1> SUFFICES ASSUME NEW i \in 1 .. Len(c) - 1
             PROVE  c[i + 1] \in Kin(c[i], pb, own)
  BY DEF TrueChain
<1>1. c[i] \in Pid /\ c[i + 1] \in Pid
  OBVIOUS
<1>2. c[i + 1] \in Kin(c[i], pa, own)
  BY DEF TrueChain
<1> QED
  BY <1>1, <1>2, PidAssumption DEF Grows, Kin

LEMMA FrameStaysTrue ==
  ASSUME NEW own, NEW pa \in [Pid -> PidOrNone], NEW pb \in [Pid -> PidOrNone],
         Grows(pa, pb), NEW t \in Pid, NEW f, Good(f), TrueFrame(t, f, pa, own)
  PROVE  TrueFrame(t, f, pb, own)
<1>1. f.pc \in {"fork", "fork_wl", "fork_tree"} => pb[f.child] = t
  BY PidAssumption DEF TrueFrame, Grows, Good
<1>2. f.pc = "exec_put" => TrueNode(t, f.node, pb, own)
  BY PidAssumption DEF TrueFrame, TrueNode, Grows, Kin, Good, Node
<1>3. f.chain \in Seq(Pid)
  BY DEF Good, Frame
<1>4. ASSUME f.pc = "walk"
      PROVE  /\ TrueChain(f.chain, pb, own)
             /\ f.cur \in {NoPid} \cup Kin(Last(f.chain), pb, own)
  <2>1. TrueChain(f.chain, pb, own)
    BY <1>3, <1>4, ChainStaysTrue DEF TrueFrame
  <2>2. Last(f.chain) \in Pid
    BY <1>3, <1>4 DEF TrueFrame, Last
  <2>3. f.cur \in {NoPid} \cup Kin(Last(f.chain), pa, own)
    BY <1>4 DEF TrueFrame
  <2> QED
    BY <2>1, <2>2, <2>3 DEF Grows, Kin
<1> QED
  BY <1>1, <1>2, <1>4 DEF TrueFrame

\* Steps that create no task: the four parts of the invariant one by one.
LEMMA SameGenealogy ==
  ASSUME NEW own, TypeInv, LinkInv(own), UNCHANGED parent,
         \A p \in Pid : status'[p] = "free" => status[p] = "free",
         \A p \in Pid : Has(agent_tree', p)
                          => TrueNode(p, agent_tree'[p], parent, own),
         NEW t \in Pid, NEW f, Goto(t, f), TrueFrame(t, f, parent, own),
         TrueChain(newest'.chain, parent, own)
  PROVE  LinkInv(own)'
<1>1. \A u \in Pid : TrueFrame(u, frame'[u], parent, own)
  BY DEF LinkInv, Goto, TypeInv, TypeOK
<1> QED
  BY <1>1 DEF LinkInv

LEMMA IdleTrue == ASSUME NEW own, NEW t \in Pid PROVE TrueFrame(t, Idle, parent, own)
BY DEF TrueFrame, Idle

\* return, with or without a record.
LEMMA ReturnLinks ==
  ASSUME NEW own, TypeInv, LinkInv(own), UNCHANGED parent, NEW t \in Pid, Return(t),
         \A p \in Pid : Has(agent_tree', p)
                          => TrueNode(p, agent_tree'[p], parent, own),
         TrueChain(newest'.chain, parent, own)
  PROVE  LinkInv(own)'
<1>1. Goto(t, Idle)
  BY DEF Return
<1>2. \A p \in Pid : status'[p] = "free" => status[p] = "free"
  BY DEF Return, TypeInv, TypeOK
<1> QED
  BY <1>1, <1>2, IdleTrue, SameGenealogy

LEMMA PackSelfLinks ==
  ASSUME NEW own, TypeInv, LinkInv(own), UNCHANGED parent, NEW t \in Pid, NEW p \in Pid,
         NEW e \in Entry, PackSelf(t, p, e),
         \A q \in Pid : Has(agent_tree', q)
                          => TrueNode(q, agent_tree'[q], parent, own)
  PROVE  LinkInv(own)'
<1>1. CASE p = e.root
  <2>1. Return(t) /\ newest'.chain = <<p>>
    BY <1>1 DEF PackSelf, Emit
  <2>2. TrueChain(<<p>>, parent, own)
    BY DEF TrueChain
  <2> QED
    BY <2>1, <2>2, ReturnLinks
<1>2. CASE p # e.root
  <2> DEFINE f == [frame[t] EXCEPT !.pc = "first", !.entry = e,
                                   !.chain = <<p>>, !.cur = p]
  <2>1. Goto(t, f) /\ UNCHANGED <<status, newest>>
    BY <1>2 DEF PackSelf
  <2>2. frame[t] \in Frame
    BY DEF TypeInv, TypeOK
  <2>3. TrueFrame(t, f, parent, own)
    BY <2>2 DEF TrueFrame, Frame
  <2> HIDE DEF f
  <2>4. TrueChain(newest'.chain, parent, own)
    BY <2>1 DEF LinkInv
  <2> QED
    BY <2>1, <2>3, <2>4, SameGenealogy
<1> QED
  BY <1>1, <1>2
---------------------------------------------------------------------------
LEMMA LinkInit ==
  ASSUME NEW own, TreeInit
  PROVE  LinkInv(own)
<1>1. \A p \in Pid : parent[p] = NoPid /\ ~Has(agent_tree, p)
  BY DEF TreeInit, Has, Lookup
<1>2. \A t \in Pid : TrueFrame(t, frame[t], parent, own)
  BY IdleTrue DEF TreeInit
<1>3. TrueChain(newest.chain, parent, own)
  BY DEF TreeInit, NoEvent, TrueChain
<1> QED
  BY <1>1, <1>2, <1>3 DEF LinkInv

\* A handler that goes to a pc at which nothing is claimed about its frame.
LEMMA GotoPcLinks ==
  ASSUME NEW own, TypeInv, LinkInv(own), UNCHANGED <<parent, newest, status>>,
         \A p \in Pid : Has(agent_tree', p)
                          => TrueNode(p, agent_tree'[p], parent, own),
         NEW t \in Pid,
         NEW pc \in {"exec", "exec_known", "exec_new", "exec_wl", "exec_tree",
                     "exit_tree"},
         GotoPc(t, pc)
  PROVE  LinkInv(own)'
<1> DEFINE g == [frame[t] EXCEPT !.pc = pc]
<1>1. frame[t] \in Frame
  BY DEF TypeInv, TypeOK
<1>2. g.pc = pc
  BY <1>1 DEF Frame
<1>3. TrueFrame(t, g, parent, own)
  BY <1>2 DEF TrueFrame
<1>4. Goto(t, g)
  BY DEF GotoPc
<1>5. TrueChain(newest'.chain, parent, own)
  BY DEF LinkInv
<1> HIDE DEF g
<1> QED
  BY <1>3, <1>4, <1>5, SameGenealogy

\* A handler that returns without a record.
LEMMA DoneLinks ==
  ASSUME NEW own, TypeInv, LinkInv(own), UNCHANGED <<parent, newest, status>>,
         \A p \in Pid : Has(agent_tree', p)
                          => TrueNode(p, agent_tree'[p], parent, own),
         NEW t \in Pid, Goto(t, Idle)
  PROVE  LinkInv(own)'
<1>1. TrueChain(newest'.chain, parent, own)
  BY DEF LinkInv
<1> QED
  BY <1>1, IdleTrue, SameGenealogy

\* Writing a true node keeps the tree true.
LEMMA PutLinks ==
  ASSUME NEW own, TypeInv, LinkInv(own), NEW p \in Pid, NEW n, TrueNode(p, n, parent, own),
         \/ agent_tree' = Put(agent_tree, TreeCap, p, n)
         \/ agent_tree' = [agent_tree EXCEPT ![p] = n]
  PROVE  \A q \in Pid : Has(agent_tree', q)
                          => TrueNode(q, agent_tree'[q], parent, own)
<1>1. agent_tree' \in {agent_tree, [agent_tree EXCEPT ![p] = n]}
  BY DEF Put
<1> QED
  BY <1>1 DEF LinkInv, TypeInv, TypeOK, Has, Lookup

\* Every step leaves the links true.
LEMMA LinkStep ==
  ASSUME NEW own, ~PidReuse, TypeInv, LinkInv(own), [Next]_treeVars
  PROVE  LinkInv(own)'
<1> USE DEF TypeInv, TypeOK
<1>1. ASSUME UNCHANGED agent_tree
      PROVE  \A q \in Pid : Has(agent_tree', q)
                              => TrueNode(q, agent_tree'[q], parent, own)
  BY <1>1 DEF LinkInv
<1>2. ASSUME NEW t \in Pid, PackParent(t) PROVE LinkInv(own)'
  <2> DEFINE f == frame[t]
             node == Lookup(agent_tree, f.cur)
  <2>1. f \in Frame /\ f.pc = "first" /\ UNCHANGED <<parent, agent_tree>>
    BY <1>2 DEF PackParent, At, maps
  <2>2. f.cur \in Pid /\ f.chain = <<f.cur>>
    BY <2>1 DEF LinkInv, TrueFrame
  <2>3. TrueChain(f.chain, parent, own)
    BY <2>2 DEF TrueChain
  <2>4. CASE node = Absent
    <3>1. Emit(t, f.entry, f.chain)
      BY <1>2, <2>4 DEF PackParent
    <3>2. Return(t) /\ newest'.chain = f.chain
      BY <3>1 DEF Emit
    <3> QED
      BY <1>1, <2>1, <2>3, <3>2, ReturnLinks
  <2>5. CASE node # Absent
    <3> DEFINE g == [f EXCEPT !.pc = "walk", !.cur = node.parent]
    <3>1. Goto(t, g) /\ UNCHANGED <<status, newest>>
      BY <1>2, <2>5 DEF PackParent
    <3>2. TrueNode(f.cur, node, parent, own)
      BY <2>2, <2>5 DEF LinkInv, Has, Lookup
    <3>3. Last(f.chain) = f.cur /\ f.chain # <<>>
      BY <2>2 DEF Last
    <3>4. TrueFrame(t, g, parent, own)
      BY <2>1, <2>3, <3>2, <3>3 DEF TrueFrame, TrueNode, Frame
    <3> HIDE DEF g
    <3>5. TrueChain(newest'.chain, parent, own)
      BY <3>1 DEF LinkInv
    <3> QED
      BY <1>1, <2>1, <3>1, <3>4, <3>5, SameGenealogy
  <2> QED
    BY <2>4, <2>5
<1>3. ASSUME NEW t \in Pid, ChainStep(t) PROVE LinkInv(own)'
  <2> DEFINE f == frame[t]
             node == Lookup(agent_tree, f.cur)
             longer == Append(f.chain, f.cur)
             done == ChainDone(f, longer)
  <2>1. f \in Frame /\ f.pc = "walk" /\ UNCHANGED <<parent, agent_tree>>
    BY <1>3 DEF ChainStep, At, maps
  <2>2. /\ f.chain \in Seq(Pid) /\ f.chain # <<>>
        /\ TrueChain(f.chain, parent, own)
        /\ f.cur \in {NoPid} \cup Kin(Last(f.chain), parent, own)
    BY <2>1 DEF LinkInv, TrueFrame, Frame
  <2>3. CASE node = Absent
    <3>1. Emit(t, f.entry, f.chain)
      BY <1>3, <2>3 DEF ChainStep
    <3>2. Return(t) /\ newest'.chain = f.chain
      BY <3>1 DEF Emit
    <3> QED
      BY <1>1, <2>1, <2>2, <3>2, ReturnLinks
  <2>4. CASE node # Absent
    <3>1. f.cur \in Pid
      BY <2>4, LookupType
    <3>2. f.cur \in Kin(Last(f.chain), parent, own)
      BY <2>2, <3>1, PidAssumption
    <3>3. TrueChain(longer, parent, own)
      BY <2>2, <3>1, <3>2 DEF TrueChain, Last
    <3>4. longer # <<>> /\ Last(longer) = f.cur
      BY <2>2, <3>1 DEF Last
    <3>5. TrueNode(f.cur, node, parent, own)
      BY <2>4, <3>1 DEF LinkInv, Has, Lookup
    <3> HIDE DEF longer
    <3>6. CASE done
      <4>1. Emit(t, f.entry, longer)
        BY <1>3, <2>4, <3>6 DEF ChainStep, longer
      <4>2. Return(t) /\ newest'.chain = longer
        BY <4>1 DEF Emit
      <4> QED
        BY <1>1, <2>1, <3>3, <4>2, ReturnLinks
    <3>7. CASE ~done
      <4> DEFINE g == [f EXCEPT !.chain = longer, !.cur = node.parent]
      <4>1. Goto(t, g) /\ UNCHANGED <<status, newest>>
        BY <1>3, <2>4, <3>7 DEF ChainStep, longer
      <4>2. TrueFrame(t, g, parent, own)
        BY <2>1, <3>3, <3>4, <3>5 DEF TrueFrame, TrueNode, Frame
      <4> HIDE DEF g
      <4>3. TrueChain(newest'.chain, parent, own)
        BY <4>1 DEF LinkInv
      <4> QED
        BY <1>1, <2>1, <4>1, <4>2, <4>3, SameGenealogy
    <3> QED
      BY <3>6, <3>7
  <2> QED
    BY <2>3, <2>4
<1>4. ASSUME NEW t \in Pid, Capture(t) PROVE LinkInv(own)'
  <2>1. pid_whitelist[tgid[t]] \in Entry /\ tgid[t] \in Pid
    BY <1>4 DEF Capture, Has, Lookup
  <2> QED
    BY <1>1, <1>4, <2>1, PackSelfLinks DEF Capture, maps
<1>5. ASSUME NEW t \in Pid, NEW c \in Pid, NEW thread \in BOOLEAN,
             ForkStart(t, c, thread)
      PROVE  LinkInv(own)'
  <2> DEFINE g == [Idle EXCEPT !.pc = "fork", !.child = c]
  <2>1. /\ parent[c] = NoPid
        /\ parent' = [parent EXCEPT ![c] = t]
        /\ status' = [status EXCEPT ![c] = "new"]
        /\ Goto(t, g)
        /\ UNCHANGED <<agent_tree, newest>>
    BY <1>5 DEF ForkStart, LinkInv, maps
  <2>2. Grows(parent, parent') /\ parent' \in [Pid -> PidOrNone]
    BY <2>1 DEF Grows, PidOrNone
  <2>3. \A p \in Pid : status'[p] = "free" => parent'[p] = NoPid
    BY <2>1 DEF LinkInv
  <2>4. \A p \in Pid : Has(agent_tree', p) => TrueNode(p, agent_tree'[p], parent', own)
    BY <2>1, <2>2 DEF LinkInv, TrueNode, Grows, Kin
  <2>5. \A u \in Pid : Good(frame[u])
    BY DEF Good, FramesOK
  <2>6. \A u \in Pid : TrueFrame(u, frame[u], parent', own)
    BY <2>2, <2>5, FrameStaysTrue DEF LinkInv
  <2>7. TrueFrame(t, g, parent', own)
    BY <2>1 DEF TrueFrame, Idle
  <2>8. \A u \in Pid : TrueFrame(u, frame'[u], parent', own)
    <3> HIDE DEF g
    <3> QED
      BY <2>1, <2>6, <2>7 DEF Goto
  <2>9. TrueChain(newest'.chain, parent', own)
    BY <2>1, <2>2, ChainStaysTrue DEF LinkInv, Event
  <2> QED
    BY <2>3, <2>4, <2>8, <2>9 DEF LinkInv
<1>6. ASSUME NEW t \in Pid, ForkLookup(t) PROVE LinkInv(own)'
  <2> DEFINE e == Lookup(pid_whitelist, t)
  <2>1. UNCHANGED <<parent, agent_tree, newest>> /\ frame[t].pc = "fork"
    BY <1>6 DEF ForkLookup, maps, At
  <2>2. TrueChain(newest'.chain, parent, own)
    BY <2>1 DEF LinkInv
  <2>3. CASE e = Absent
    <3>1. Return(t)
      BY <1>6, <2>3 DEF ForkLookup
    <3> QED
      BY <1>1, <2>1, <2>2, <3>1, ReturnLinks
  <2>4. CASE e # Absent
    <3> DEFINE d == (e.depth + 1) % DepthMod
               g == [frame[t] EXCEPT !.pc = "fork_wl",
                       !.entry = [root |-> e.root, depth |-> d]]
    <3>1. Goto(t, g) /\ UNCHANGED status
      BY <1>6, <2>4 DEF ForkLookup, ChildEntry
    <3> HIDE DEF d
    <3>2. g.pc = "fork_wl" /\ g.child = frame[t].child
      BY DEF Frame
    <3>3. TrueFrame(t, g, parent, own)
      BY <2>1, <3>2 DEF LinkInv, TrueFrame
    <3> HIDE DEF g
    <3> QED
      BY <1>1, <2>1, <2>2, <3>1, <3>3, SameGenealogy
  <2> QED
    BY <2>3, <2>4
<1>7. ASSUME NEW t \in Pid, ForkWhitelist(t) PROVE LinkInv(own)'
  <2> DEFINE g == [frame[t] EXCEPT !.pc = "fork_tree"]
  <2>1. /\ UNCHANGED <<parent, agent_tree, newest, status>>
        /\ frame[t].pc = "fork_wl" /\ Goto(t, g)
    BY <1>7 DEF ForkWhitelist, kernel, At, GotoPc
  <2>2. g.pc = "fork_tree" /\ g.child = frame[t].child
    BY DEF Frame
  <2>3. TrueFrame(t, g, parent, own)
    BY <2>1, <2>2 DEF LinkInv, TrueFrame
  <2> HIDE DEF g
  <2>4. TrueChain(newest'.chain, parent, own)
    BY <2>1 DEF LinkInv
  <2> QED
    BY <1>1, <2>1, <2>3, <2>4, SameGenealogy
<1>8. ASSUME NEW t \in Pid, ForkTree(t) PROVE LinkInv(own)'
  <2> DEFINE c == frame[t].child
             n == [parent |-> t, comm |-> comm[t]]
  <2>1. /\ UNCHANGED parent
        /\ agent_tree' = Put(agent_tree, TreeCap, c, n)
        /\ PackSelf(t, c, frame[t].entry)
        /\ frame[t].pc = "fork_tree"
    BY <1>8 DEF ForkTree, ChildNode, At
  <2>2. c \in Pid /\ frame[t].entry \in Entry
    BY <2>1 DEF FramesOK
  <2>3. TrueNode(c, n, parent, own)
    BY <2>1 DEF LinkInv, TrueFrame, TrueNode, Kin
  <2> HIDE DEF n
  <2>4. \A q \in Pid : Has(agent_tree', q) => TrueNode(q, agent_tree'[q], parent, own)
    BY <2>1, <2>2, <2>3, PutLinks
  <2> QED
    BY <2>1, <2>2, <2>4, PackSelfLinks
<1>9. ASSUME NEW t \in Pid, NEW c \in Comm, ExecStart(t, c) PROVE LinkInv(own)'
  BY <1>1, <1>9, GotoPcLinks DEF ExecStart, maps
<1>10. ASSUME NEW t \in Pid, ExecLookup(t) PROVE LinkInv(own)'
  BY <1>1, <1>10, GotoPcLinks DEF ExecLookup, kernel, maps
<1>11. ASSUME NEW t \in Pid, ExecKnown(t) PROVE LinkInv(own)'
  <2> DEFINE node == Lookup(agent_tree, t)
  <2>1. UNCHANGED <<parent, newest, status>>
    BY <1>11 DEF ExecKnown, kernel
  <2>2. CASE node = Absent
    <3>1. Goto(t, Idle) /\ UNCHANGED agent_tree
      BY <1>11, <2>2 DEF ExecKnown
    <3> QED
      BY <1>1, <2>1, <3>1, DoneLinks
  <2>3. CASE node # Absent
    <3> DEFINE n == [agent_tree[t] EXCEPT !.comm = comm[t]]
               g == [frame[t] EXCEPT !.pc = "exec_put", !.node = n]
    <3>1. node \in Node /\ node = agent_tree[t]
      BY <2>3, LookupType DEF Lookup
    <3>2. n.parent = agent_tree[t].parent
      BY <3>1 DEF Node
    <3>3. TrueNode(t, n, parent, own)
      BY <2>3, <3>2 DEF LinkInv, TrueNode, Has
    <3>4. agent_tree' = [agent_tree EXCEPT ![t] = n]
      BY <1>11, <2>3 DEF ExecKnown
    <3> HIDE DEF n
    <3>5. agent_tree'[t] = n
      BY <3>4
    <3>6. Goto(t, g)
      BY <1>11, <2>3, <3>5 DEF ExecKnown
    <3>7. g.pc = "exec_put" /\ g.node = n
      BY DEF Frame
    <3>8. TrueFrame(t, g, parent, own)
      BY <3>3, <3>7 DEF TrueFrame
    <3> HIDE DEF g
    <3>9. \A q \in Pid : Has(agent_tree', q)
                           => TrueNode(q, agent_tree'[q], parent, own)
      BY <3>3, <3>4, PutLinks
    <3>10. TrueChain(newest'.chain, parent, own)
      BY <2>1 DEF LinkInv
    <3> QED
      BY <2>1, <3>6, <3>8, <3>9, <3>10, SameGenealogy
  <2> QED
    BY <2>2, <2>3
<1>12. ASSUME NEW t \in Pid, ExecPut(t) PROVE LinkInv(own)'
  <2>1. TrueNode(t, frame[t].node, parent, own)
    BY <1>12 DEF ExecPut, At, LinkInv, TrueFrame
  <2>2. \A q \in Pid : Has(agent_tree', q) => TrueNode(q, agent_tree'[q], parent, own)
    BY <1>12, <2>1, PutLinks DEF ExecPut
  <2> QED
    BY <1>12, <2>2, DoneLinks DEF ExecPut, kernel
<1>13. ASSUME NEW t \in Pid, ExecMatch(t) PROVE LinkInv(own)'
  <2>1. UNCHANGED <<parent, newest, status, agent_tree>>
    BY <1>13 DEF ExecMatch, kernel, maps
  <2> QED
    BY <1>1, <1>13, <2>1, GotoPcLinks, DoneLinks DEF ExecMatch
<1>14. ASSUME NEW t \in Pid, ExecWhitelist(t) PROVE LinkInv(own)'
  BY <1>1, <1>14, GotoPcLinks DEF ExecWhitelist, kernel
<1>15. ASSUME NEW t \in Pid, ExecTree(t) PROVE LinkInv(own)'
  <2> DEFINE n == [parent |-> NoPid, comm |-> comm[t]]
  <2>1. TrueNode(t, n, parent, own)
    BY DEF TrueNode
  <2> HIDE DEF n
  <2>2. agent_tree' = Put(agent_tree, TreeCap, t, n)
    BY <1>15 DEF ExecTree, n
  <2>3. \A q \in Pid : Has(agent_tree', q) => TrueNode(q, agent_tree'[q], parent, own)
    BY <2>1, <2>2, PutLinks
  <2> QED
    BY <1>15, <2>3, DoneLinks DEF ExecTree, kernel
<1>16. ASSUME NEW t \in Pid, Release(t) \/ Die(t)
       PROVE  /\ UNCHANGED parent
              /\ \A p \in Pid : status'[p] = "free" => status[p] = "free"
  BY <1>16 DEF Die, Release, Reaped
<1>17. ASSUME NEW t \in Pid, ExitWhitelist(t) PROVE LinkInv(own)'
  <2>1. UNCHANGED <<agent_tree, newest>>
    BY <1>17 DEF ExitWhitelist
  <2>2. CASE ~Has(pid_whitelist, t)
    <3>1. Die(t) /\ UNCHANGED frame
      BY <1>17, <2>2 DEF ExitWhitelist
    <3> QED
      BY <1>1, <1>16, <2>1, <3>1 DEF LinkInv
  <2>3. CASE Has(pid_whitelist, t)
    BY <1>1, <1>17, <2>1, <2>3, GotoPcLinks DEF ExitWhitelist, kernel
  <2> QED
    BY <2>2, <2>3
<1>18. ASSUME NEW t \in Pid, ExitTree(t) PROVE LinkInv(own)'
  <2>1. /\ Goto(t, Idle) /\ Die(t) /\ UNCHANGED newest
        /\ agent_tree' = [agent_tree EXCEPT ![t] = Absent]
    BY <1>18 DEF ExitTree, Del
  <2>2. \A q \in Pid : Has(agent_tree', q) => TrueNode(q, agent_tree'[q], parent, own)
    BY <2>1 DEF LinkInv, Has, Lookup
  <2>3. TrueChain(newest'.chain, parent, own)
    BY <2>1 DEF LinkInv
  <2> QED
    BY <1>16, <2>1, <2>2, <2>3, IdleTrue, SameGenealogy
<1>19. ASSUME NEW t \in Pid, Reap(t) PROVE LinkInv(own)'
  <2>1. Release(t) /\ UNCHANGED <<agent_tree, frame, newest>>
    BY <1>19 DEF Reap, maps
  <2> QED
    BY <1>1, <1>16, <2>1 DEF LinkInv
<1>20. CASE UNCHANGED treeVars
  BY <1>20 DEF treeVars, LinkInv, Has, Lookup
<1>21. CASE Next
  BY <1>2, <1>3, <1>4, <1>5, <1>6, <1>7, <1>8, <1>9, <1>10, <1>11, <1>12,
     <1>13, <1>14, <1>15, <1>17, <1>18, <1>19, <1>21
     DEF Next, TaskStep, HandlerStep
<1> QED
  BY <1>20, <1>21

\* Whatever forks, runs exec, exits or starts a thread while a chain is being
\* packed, and however full the maps are: every link of a recorded chain is a
\* task and its creator, as long as the kernel does not use an id twice.
THEOREM ChainsAreTrue == ~PidReuse => (Spec => []ChainTruth)
<1> SUFFICES ASSUME ~PidReuse PROVE Spec => []ChainTruth
  OBVIOUS
<1>1. Init => TypeInv /\ LinkInv({})
  BY TypeInit, LinkInit, CommAssumption DEF Init
<1>2. TypeInv /\ LinkInv({}) /\ [Next]_treeVars => (TypeInv /\ LinkInv({}))'
  BY TypeStep, LinkStep
<1>3. LinkInv({}) => ChainTruth
  BY DEF LinkInv, TrueChain, Kin, ChainTruth
<1> QED
  BY <1>1, <1>2, <1>3, PTL DEF Spec
---------------------------------------------------------------------------
(* Who is in pid_whitelist, for full maps, threads and ids that are handed *)
(* out again.                                                              *)

\* The argument.  A task's entry is written by the fork hook of its creator,
\* before it runs, and then by its own hooks, one after the other; so a hook
\* that has seen no entry, or has removed it, may rely on that until its end.
\* own are the tasks somebody else may put in, as roots, at any moment.

RootEntry(p) == [root |-> p, depth |-> 0]

Bare(p, own) ==
  \/ pid_whitelist[p] = Absent
  \/ p \in own /\ pid_whitelist[p] = RootEntry(p)

Steady(t, own) ==
  LET f == frame[t]
  IN  /\ f.pc # "idle" => status[t] = "run"
      /\ f.child # NoPid => /\ f.pc # "idle" /\ f.child \in Pid
                            /\ status[f.child] = "new" /\ parent[f.child] = t
      /\ f.pc \in {"fork", "fork_wl"} => Bare(f.child, own)
      /\ f.pc \in {"exec_new", "exec_wl", "exit_tree"} => Bare(t, own)

EntryInv(own) ==
  /\ \A p \in Pid : ~Live(p) => Bare(p, own)
  /\ \A t \in Pid : Steady(t, own)

Same(p) ==
  /\ status'[p] = status[p] /\ parent'[p] = parent[p]
  /\ pid_whitelist'[p] = pid_whitelist[p]

\* What the step of one task leaves alone: the others, but for a new task of its own.
LEMMA OneTask ==
  ASSUME NEW own, TypeInv, EntryInv(own), NEW t \in Pid, status[t] # "new",
         \A u \in Pid \ {t} : frame'[u] = frame[u],
         \A p \in Pid \ {t} : \/ Same(p)
                              \/ status[p] = "free"
                              \/ status[p] = "new" /\ parent[p] = t,
         Steady(t, own)',
         \A p \in Pid : ~Live(p)' => Bare(p, own)'
  PROVE  EntryInv(own)'
<1>1. ASSUME NEW u \in Pid \ {t} PROVE Steady(u, own)'
  <2>1. frame'[u] = frame[u] /\ Steady(u, own)
    BY DEF EntryInv
  <2>2. CASE frame[u].pc = "idle"
    BY <2>1, <2>2 DEF Steady
  <2>3. CASE frame[u].pc # "idle"
    <3>1. status[u] = "run" /\ Same(u)
      BY <2>1, <2>3 DEF Steady
    <3>2. frame[u].child # NoPid => Same(frame[u].child)
      BY <2>1 DEF Steady
    <3>3. frame[u].pc \in {"fork", "fork_wl"} => frame[u].child # NoPid
      BY PidAssumption DEF TypeInv, FramesOK
    <3>. QED  BY <2>1, <3>1, <3>2, <3>3 DEF Steady, Same, Bare
  <2>. QED  BY <2>2, <2>3
<1>. QED  BY <1>1 DEF EntryInv

LEMMA NewFrame ==
  ASSUME TypeInv, NEW t \in Pid, NEW f, Goto(t, f)
  PROVE  frame'[t] = f /\ \A u \in Pid \ {t} : frame'[u] = frame[u]
BY DEF Goto, TypeInv, TypeOK

\* The step of a handler that changes its own frame only.
LEMMA FrameOnly ==
  ASSUME NEW own, TypeInv, EntryInv(own), NEW t \in Pid, status[t] = "run",
         UNCHANGED <<status, parent, pid_whitelist>>,
         \A u \in Pid \ {t} : frame'[u] = frame[u],
         frame'[t].child # NoPid => frame'[t].child = frame[t].child,
         frame'[t].pc = "idle" => frame'[t].child = NoPid,
         frame'[t].pc \in {"fork", "fork_wl"} => frame[t].pc = "fork",
         frame'[t].pc \in {"fork", "fork_wl"} => frame'[t].child # NoPid,
         frame'[t].pc \in {"exec_new", "exec_wl", "exit_tree"} => Bare(t, own)
  PROVE  EntryInv(own)'
<1>1. Steady(t, own)
  BY DEF EntryInv
<1>2. Steady(t, own)'
  BY <1>1 DEF Steady, Bare
<1>. QED  BY <1>2, OneTask DEF EntryInv, Same, Bare, Live

\* A handler that returns, and wakes the new task if it is that of a fork.
LEMMA ReturnEntries ==
  ASSUME NEW own, TypeInv, EntryInv(own), NEW t \in Pid, status[t] = "run",
         Return(t), UNCHANGED <<parent, pid_whitelist>>
  PROVE  EntryInv(own)'
<1>. DEFINE c == frame[t].child
<1>1. frame' = [frame EXCEPT ![t] = Idle]
  BY DEF Return, Goto
<1>2. Steady(t, own)' /\ \A u \in Pid \ {t} : frame'[u] = frame[u]
  BY <1>1, IdleType DEF Steady, TypeInv, TypeOK, Idle
<1>3. c # NoPid => c \in Pid /\ status[c] = "new" /\ parent[c] = t
  BY DEF EntryInv, Steady
<1>4. /\ \A p \in Pid : p # c => status'[p] = status[p]
      /\ c # NoPid => status'[c] = "run"
  BY <1>3 DEF Return, TypeInv, TypeOK
<1>. QED  BY <1>2, <1>3, <1>4, PidAssumption, OneTask DEF EntryInv, Same, Bare, Live

LEMMA PackSelfEntries ==
  ASSUME NEW own, TypeInv, EntryInv(own), NEW t \in Pid, status[t] = "run",
         NEW p, NEW e, PackSelf(t, p, e), UNCHANGED <<parent, pid_whitelist>>
  PROVE  EntryInv(own)'
<1>1. CASE p = e.root
  BY <1>1, ReturnEntries DEF PackSelf, Emit
<1>2. CASE p # e.root
  <2>. DEFINE f == [frame[t] EXCEPT !.pc = "first", !.entry = e,
                                    !.chain = <<p>>, !.cur = p]
  <2>1. frame' = [frame EXCEPT ![t] = f] /\ UNCHANGED status
    BY <1>2 DEF PackSelf, Goto
  <2>2. f.pc = "first" /\ f.child = frame[t].child
    BY DEF TypeInv, TypeOK, Frame
  <2>. HIDE DEF f
  <2>3. /\ frame'[t] = f /\ \A u \in Pid \ {t} : frame'[u] = frame[u]
    BY <2>1 DEF TypeInv, TypeOK
  <2>. QED  BY <2>1, <2>2, <2>3, FrameOnly
<1>. QED  BY <1>1, <1>2
---------------------------------------------------------------------------
LEMMA EntryInit ==
  ASSUME NEW own, TreeInit
  PROVE  EntryInv(own)
BY DEF TreeInit, EntryInv, Steady, Bare, Idle

\* Every step of the kernel's keeps what the hooks rely on.
LEMMA EntryStep ==
  ASSUME NEW own, TypeInv, EntryInv(own), [Next]_treeVars
  PROVE  EntryInv(own)'
<1>. USE DEF TypeInv, TypeOK
<1>0. \A t \in Pid : frame[t].pc # "idle" => status[t] = "run"
  BY DEF EntryInv, Steady
<1>1. ASSUME NEW t \in Pid, PackParent(t) \/ ChainStep(t) PROVE EntryInv(own)'
  <2>1. status[t] = "run" /\ UNCHANGED <<parent, pid_whitelist>>
    BY <1>0, <1>1 DEF PackParent, ChainStep, At, maps
  <2>2. CASE Return(t)
    BY <2>1, <2>2, ReturnEntries
  <2>3. CASE ~Return(t)
    <3>. DEFINE f    == frame[t]
                node == Lookup(agent_tree, f.cur)
                g1   == [f EXCEPT !.pc = "walk", !.cur = node.parent]
                g2   == [f EXCEPT !.chain = Append(f.chain, f.cur), !.cur = node.parent]
    <3>1. UNCHANGED status /\ (Goto(t, g1) \/ Goto(t, g2))
      BY <1>1, <2>3 DEF PackParent, ChainStep, Emit
    <3>2. g1.pc = "walk" /\ g1.child = f.child /\ g2.pc = f.pc /\ g2.child = f.child
      BY DEF Frame
    <3>3. f.pc \in {"first", "walk"}
      BY <1>1 DEF PackParent, ChainStep, At
    <3>. HIDE DEF g1, g2
    <3>4. /\ \A u \in Pid \ {t} : frame'[u] = frame[u]
          /\ frame'[t].child = f.child /\ frame'[t].pc \in {"first", "walk"}
      BY <3>1, <3>2, <3>3, NewFrame
    <3>. QED  BY <2>1, <3>1, <3>4, FrameOnly
  <2>. QED  BY <2>2, <2>3
<1>2. ASSUME NEW t \in Pid, Capture(t) PROVE EntryInv(own)'
  BY <1>2, PackSelfEntries DEF Capture, Ready, maps
<1>3. ASSUME NEW t \in Pid, NEW c \in Pid, NEW thread \in BOOLEAN, ForkStart(t, c, thread)
      PROVE  EntryInv(own)'
  <2>1. /\ status[t] = "run" /\ status[c] = "free" /\ c # t
        /\ status' = [status EXCEPT ![c] = "new"] /\ parent' = [parent EXCEPT ![c] = t]
        /\ UNCHANGED pid_whitelist
    BY <1>3 DEF ForkStart, Ready, maps
  <2>2. frame' = [frame EXCEPT ![t] = [Idle EXCEPT !.pc = "fork", !.child = c]]
    BY <1>3 DEF ForkStart, Goto
  <2>3. /\ frame'[t].pc = "fork" /\ frame'[t].child = c
        /\ \A u \in Pid \ {t} : frame'[u] = frame[u]
    BY <2>2 DEF Idle
  <2>4. Bare(c, own) /\ Bare(c, own)'
    BY <2>1 DEF EntryInv, Live, Bare
  <2>5. Steady(t, own)'
    BY <2>1, <2>3, <2>4 DEF Steady, Bare
  <2>. QED  BY <2>1, <2>3, <2>5, OneTask DEF EntryInv, Same, Bare, Live
<1>4. ASSUME NEW t \in Pid, ForkLookup(t) PROVE EntryInv(own)'
  <2>1. status[t] = "run" /\ UNCHANGED <<parent, pid_whitelist>> /\ frame[t].pc = "fork"
    BY <1>0, <1>4 DEF ForkLookup, At, maps
  <2>2. CASE Return(t)
    BY <2>1, <2>2, ReturnEntries
  <2>3. CASE ~Return(t)
    <3>. DEFINE e == ChildEntry(t, Lookup(pid_whitelist, t))
                g == [frame[t] EXCEPT !.pc = "fork_wl", !.entry = e]
    <3>0. Goto(t, g) /\ UNCHANGED status
      BY <1>4, <2>3 DEF ForkLookup
    <3>. HIDE DEF e
    <3>4. g.pc = "fork_wl" /\ g.child = frame[t].child
      BY DEF Frame
    <3>. HIDE DEF g
    <3>1. /\ \A u \in Pid \ {t} : frame'[u] = frame[u]
          /\ frame'[t].child = frame[t].child /\ frame'[t].pc = "fork_wl"
          /\ UNCHANGED status
      BY <3>0, <3>4, NewFrame
    <3>2. frame[t].child # NoPid
      BY <2>1, PidAssumption DEF FramesOK
    <3>. QED  BY <2>1, <3>1, <3>2, FrameOnly
  <2>. QED  BY <2>2, <2>3
<1>5. ASSUME NEW t \in Pid, ForkWhitelist(t) PROVE EntryInv(own)'
  <2>. DEFINE c == frame[t].child
  <2>1. /\ frame[t].pc = "fork_wl" /\ status[t] = "run" /\ UNCHANGED <<status, parent>>
        /\ c \in Pid
    BY <1>0, <1>5 DEF ForkWhitelist, At, kernel, FramesOK
  <2>2. status[c] = "new" /\ parent[c] = t /\ c # t
    BY <2>1, PidAssumption DEF EntryInv, Steady
  <2>3. \A p \in Pid : p # c => pid_whitelist'[p] = pid_whitelist[p]
    BY <1>5 DEF ForkWhitelist, Put
  <2>4. /\ \A u \in Pid \ {t} : frame'[u] = frame[u]
        /\ frame'[t].child = c /\ frame'[t].pc = "fork_tree"
    BY <1>5 DEF ForkWhitelist, GotoPc, Goto, Frame
  <2>5. Steady(t, own)'
    BY <2>1, <2>2, <2>4 DEF Steady
  <2>6. \A p \in Pid \ {t} : Same(p) \/ (status[p] = "new" /\ parent[p] = t)
    <3>1. UNCHANGED <<status, parent>>
      BY <1>5 DEF ForkWhitelist, kernel
    <3>. QED  BY <2>2, <2>3, <3>1 DEF Same
  <2>7. \A p \in Pid : ~Live(p)' => Bare(p, own)'
    BY <2>1, <2>2, <2>3 DEF EntryInv, Bare, Live
  <2>. QED  BY <2>1, <2>4, <2>5, <2>6, <2>7, OneTask
<1>6. ASSUME NEW t \in Pid, ForkTree(t) PROVE EntryInv(own)'
  <2>1. status[t] = "run"
    BY <1>0, <1>6 DEF ForkTree, At
  <2>. QED  BY <1>6, <2>1, PackSelfEntries DEF ForkTree
<1>7. ASSUME NEW t \in Pid, NEW pc \in {"exec", "exec_known", "exec_new", "exec_wl",
                                        "exec_tree", "exit_tree"}, GotoPc(t, pc)
      PROVE  /\ \A u \in Pid \ {t} : frame'[u] = frame[u]
             /\ frame'[t].child = frame[t].child /\ frame'[t].pc = pc
  BY <1>7 DEF GotoPc, Goto, Frame
<1>8. ASSUME NEW t \in Pid, Goto(t, Idle)
      PROVE  /\ \A u \in Pid \ {t} : frame'[u] = frame[u]
             /\ frame'[t].child = NoPid /\ frame'[t].pc = "idle"
  BY <1>8, IdleType DEF Goto
<1>9. ASSUME NEW t \in Pid, NEW c \in Comm, ExecStart(t, c) PROVE EntryInv(own)'
  BY <1>7, <1>9, FrameOnly DEF ExecStart, Ready, maps
<1>10. ASSUME NEW t \in Pid, ExecLookup(t) PROVE EntryInv(own)'
  <2>1. /\ status[t] = "run" /\ UNCHANGED <<status, parent, pid_whitelist>>
        /\ GotoPc(t, IF Has(pid_whitelist, t) THEN "exec_known" ELSE "exec_new")
    BY <1>0, <1>10 DEF ExecLookup, At, kernel, maps
  <2>2. CASE Has(pid_whitelist, t)
    BY <1>7, <2>1, <2>2, FrameOnly
  <2>3. CASE ~Has(pid_whitelist, t)
    <3>1. Bare(t, own)
      BY <2>3 DEF Has, Lookup, Bare
    <3>. QED  BY <1>7, <2>1, <2>3, <3>1, FrameOnly
  <2>. QED  BY <2>2, <2>3
<1>11. ASSUME NEW t \in Pid, ExecKnown(t) PROVE EntryInv(own)'
  <2>1. status[t] = "run" /\ UNCHANGED <<status, parent, pid_whitelist>>
    BY <1>0, <1>11 DEF ExecKnown, At, kernel
  <2>. DEFINE n == agent_tree'[t]
              g == [frame[t] EXCEPT !.pc = "exec_put", !.node = n]
  <2>2. Goto(t, Idle) \/ Goto(t, g)
    BY <1>11 DEF ExecKnown
  <2>. HIDE DEF n
  <2>3. g.pc = "exec_put" /\ g.child = frame[t].child
    BY DEF Frame
  <2>. HIDE DEF g
  <2>4. CASE Goto(t, Idle)
    BY <1>8, <2>1, <2>4, FrameOnly
  <2>5. CASE Goto(t, g)
    <3>1. /\ \A u \in Pid \ {t} : frame'[u] = frame[u]
          /\ frame'[t].child = frame[t].child /\ frame'[t].pc = "exec_put"
      BY <2>3, <2>5, NewFrame
    <3>. QED  BY <2>1, <3>1, FrameOnly
  <2>. QED  BY <2>2, <2>4, <2>5
<1>12. ASSUME NEW t \in Pid, ExecPut(t) \/ ExecTree(t) PROVE EntryInv(own)'
  BY <1>0, <1>8, <1>12, FrameOnly DEF ExecPut, ExecTree, At, kernel
<1>13. ASSUME NEW t \in Pid, ExecMatch(t) PROVE EntryInv(own)'
  <2>1. /\ status[t] = "run" /\ UNCHANGED <<status, parent, pid_whitelist>>
        /\ Bare(t, own)
    BY <1>0, <1>13 DEF ExecMatch, At, kernel, maps, EntryInv, Steady
  <2>. QED  BY <1>7, <1>8, <1>13, <2>1, FrameOnly DEF ExecMatch
<1>14. ASSUME NEW t \in Pid, ExecWhitelist(t) PROVE EntryInv(own)'
  <2>1. status[t] = "run" /\ UNCHANGED <<status, parent>> /\ Steady(t, own)
    BY <1>0, <1>14 DEF ExecWhitelist, At, kernel, EntryInv
  <2>2. \A p \in Pid : p # t => pid_whitelist'[p] = pid_whitelist[p]
    BY <1>14 DEF ExecWhitelist, Put
  <2>3. /\ \A u \in Pid \ {t} : frame'[u] = frame[u]
        /\ frame'[t].child = frame[t].child /\ frame'[t].pc = "exec_tree"
    BY <1>7, <1>14 DEF ExecWhitelist
  <2>4. Steady(t, own)'
    BY <2>1, <2>3 DEF Steady
  <2>. QED  BY <2>1, <2>2, <2>3, <2>4, OneTask DEF EntryInv, Same, Bare, Live
<1>15. ASSUME NEW t \in Pid, Die(t) \/ Release(t)
       PROVE  /\ \A p \in Pid : p # t => status'[p] = status[p]
              /\ status'[t] \in {"zombie", "free", "gone"} /\ UNCHANGED parent
  BY <1>15 DEF Die, Release, Reaped
<1>16. ASSUME NEW t \in Pid, ExitWhitelist(t) PROVE EntryInv(own)'
  <2>1. status[t] = "run" /\ frame[t].pc = "idle"
    BY <1>16 DEF ExitWhitelist, Ready
  <2>2. CASE ~Has(pid_whitelist, t)
    <3>1. Die(t) /\ UNCHANGED <<pid_whitelist, frame>>
      BY <1>16, <2>2 DEF ExitWhitelist
    <3>2. Steady(t, own)' /\ Bare(t, own)'
      BY <2>1, <2>2, <3>1 DEF EntryInv, Steady, Has, Lookup, Bare
    <3>. QED  BY <1>15, <2>1, <3>1, <3>2, OneTask DEF EntryInv, Same, Bare, Live
  <2>3. CASE Has(pid_whitelist, t)
    <3>1. /\ pid_whitelist' = [pid_whitelist EXCEPT ![t] = Absent]
          /\ UNCHANGED <<status, parent>> /\ GotoPc(t, "exit_tree")
      BY <1>16, <2>3 DEF ExitWhitelist, Del, kernel
    <3>2. /\ \A u \in Pid \ {t} : frame'[u] = frame[u]
          /\ frame'[t].child = frame[t].child /\ frame'[t].pc = "exit_tree"
      BY <1>7, <3>1
    <3>3. Steady(t, own)'
      BY <2>1, <3>1, <3>2 DEF EntryInv, Steady, Bare
    <3>. QED  BY <2>1, <3>1, <3>2, <3>3, OneTask DEF EntryInv, Same, Bare, Live
  <2>. QED  BY <2>2, <2>3
<1>17. ASSUME NEW t \in Pid, ExitTree(t) PROVE EntryInv(own)'
  <2>1. /\ status[t] = "run" /\ Bare(t, own)
        /\ Goto(t, Idle) /\ Die(t) /\ UNCHANGED pid_whitelist
    BY <1>0, <1>17 DEF ExitTree, At, EntryInv, Steady
  <2>2. Steady(t, own)' /\ Bare(t, own)'
    BY <1>8, <2>1 DEF Steady, Bare
  <2>. QED  BY <1>8, <1>15, <2>1, <2>2, OneTask DEF EntryInv, Same, Bare, Live
<1>18. ASSUME NEW t \in Pid, Reap(t) PROVE EntryInv(own)'
  <2>1. status[t] = "zombie" /\ Release(t) /\ UNCHANGED <<pid_whitelist, frame>>
    BY <1>18 DEF Reap, maps
  <2>2. Steady(t, own)' /\ Bare(t, own)'
    BY <2>1 DEF EntryInv, Steady, Bare, Live
  <2>. QED  BY <1>15, <2>1, <2>2, OneTask DEF EntryInv, Same, Bare, Live
<1>19. CASE UNCHANGED treeVars
  BY <1>19 DEF treeVars, EntryInv, Steady, Bare, Live
<1>. QED
  BY <1>1, <1>2, <1>3, <1>4, <1>5, <1>6, <1>9, <1>10, <1>11, <1>12, <1>13, <1>14,
     <1>16, <1>17, <1>18, <1>19 DEF Next, TaskStep, HandlerStep

\* Who changes an entry: the task's own exit hook, or a hook that found none.
LEMMA Writers ==
  ASSUME NEW own, TypeInv, EntryInv(own), [Next]_treeVars,
         NEW p \in Pid, pid_whitelist'[p] # pid_whitelist[p]
  PROVE  \/ pid_whitelist'[p] = Absent /\ At(p, "exit_tree")'
         \/ Bare(p, own) /\ (pid_whitelist'[p] = RootEntry(p) \/ status[p] = "new")
<1>. USE DEF TypeInv, TypeOK
<1>1. ASSUME NEW t \in Pid, ForkWhitelist(t)
      PROVE  Bare(p, own) /\ status[p] = "new"
  <2>1. /\ pid_whitelist' = Put(pid_whitelist, WlCap, frame[t].child, frame[t].entry)
        /\ frame[t].pc = "fork_wl" /\ frame[t].child \in Pid
    BY <1>1 DEF ForkWhitelist, At, FramesOK
  <2>2. p = frame[t].child
    BY <2>1 DEF Put
  <2>. QED  BY <2>1, <2>2, PidAssumption DEF EntryInv, Steady
<1>2. ASSUME NEW t \in Pid, ExecWhitelist(t)
      PROVE  Bare(p, own) /\ pid_whitelist'[p] = RootEntry(p)
  <2>1. /\ pid_whitelist' = Put(pid_whitelist, WlCap, t, RootEntry(t))
        /\ frame[t].pc = "exec_wl"
    BY <1>2 DEF ExecWhitelist, At, RootEntry
  <2>2. p = t /\ pid_whitelist'[p] = RootEntry(p)
    BY <2>1 DEF Put
  <2>. QED  BY <2>1, <2>2 DEF EntryInv, Steady
<1>3. ASSUME NEW t \in Pid, ExitWhitelist(t)
      PROVE  pid_whitelist'[p] = Absent /\ At(p, "exit_tree")'
  <2>1. pid_whitelist' = [pid_whitelist EXCEPT ![t] = Absent] /\ GotoPc(t, "exit_tree")
    BY <1>3 DEF ExitWhitelist, Del
  <2>2. p = t
    BY <2>1
  <2>. QED  BY <2>1, <2>2 DEF GotoPc, Goto, At, Frame
<1>4. \E t \in Pid : ForkWhitelist(t) \/ ExecWhitelist(t) \/ ExitWhitelist(t)
  BY DEF Next, TaskStep, HandlerStep, treeVars, maps, kernel, PackParent, ChainStep,
     Capture, ForkStart, ForkLookup, ForkTree, ExecStart, ExecLookup, ExecKnown, ExecPut,
     ExecMatch, ExecTree, ExitTree, Reap
<1>. QED  BY <1>1, <1>2, <1>3, <1>4
---------------------------------------------------------------------------
\* An entry of pid_whitelist is that of a live task, whatever fills the maps and however
\* soon an id is used again: nobody is audited for what the id's last owner was.
THEOREM EntriesLiveAlways == Spec => []EntriesLive
<1>1. Init => TypeInv /\ EntryInv({})
  BY TypeInit, EntryInit, CommAssumption DEF Init
<1>2. TypeInv /\ EntryInv({}) /\ [Next]_treeVars => (TypeInv /\ EntryInv({}))'
  BY TypeStep, EntryStep
<1>3. TypeInv /\ EntryInv({}) => EntriesLive
  BY DEF EntryInv, Bare, EntriesLive, TypeInv, TypeOK, Has, Lookup
<1>. QED  BY <1>1, <1>2, <1>3, PTL DEF Spec

\* An entry stays as it is until its task exits: no hook of another task, no full map and
\* no thread takes it away or changes its root or depth.
THEOREM KeptAlways == Spec => KeptUntilExit
<1>1. Init => TypeInv /\ EntryInv({})
  BY TypeInit, EntryInit, CommAssumption DEF Init
<1>2. TypeInv /\ EntryInv({}) /\ [Next]_treeVars => (TypeInv /\ EntryInv({}))'
  BY TypeStep, EntryStep
<1>3. TypeInv /\ EntryInv({}) /\ [Next]_treeVars
        => [\A p \in Pid :
              Has(pid_whitelist, p) /\ pid_whitelist'[p] # pid_whitelist[p]
                => pid_whitelist'[p] = Absent /\ At(p, "exit_tree")']_treeVars
  BY Writers DEF Bare, Has, Lookup
<1>. QED  BY <1>1, <1>2, <1>3, PTL DEF Spec, KeptUntilExit
---------------------------------------------------------------------------
\* The argument for NodeIsOwn.  A node that was left behind names the creator of the
\* id's last owner; but whoever lists the id again updates that node first, and an
\* update of a key that is there never fails.

OwnParent(p, n) == n.parent \in {NoPid, parent[p]}

OwnNode(p) ==
  Has(pid_whitelist, p) /\ Has(agent_tree, p) => OwnParent(p, agent_tree[p])

NodeFrame(t) ==
  LET f == frame[t]
  IN  /\ f.pc \in {"first", "walk"} /\ f.child # NoPid => OwnNode(f.child)
      /\ f.pc \in {"exec_known", "exec_put"} => Has(pid_whitelist, t)
      /\ f.pc = "exec_put" => OwnParent(t, f.node)

NodeInv ==
  /\ \A p \in Pid : status[p] = "run" /\ ~At(p, "exec_tree") => OwnNode(p)
  /\ \A t \in Pid : NodeFrame(t)

ListInv == TypeInv /\ EntryInv({}) /\ NodeInv

\* The step of one task: what it has to show is about itself and a task it wakes.
LEMMA OneTaskNodes ==
  ASSUME ListInv, NEW t \in Pid, status[t] # "new",
         \A u \in Pid \ {t} : frame'[u] = frame[u],
         \A p \in Pid \ {t} : \/ Same(p) /\ agent_tree'[p] = agent_tree[p]
                              \/ status[p] = "free" \/ (status[p] = "new" /\ parent[p] = t),
         agent_tree' \in [Pid -> Node \cup {Absent}],
         pid_whitelist' \in [Pid -> Entry \cup {Absent}],
         \A p \in Pid \ {t} : status[p] # "run" /\ status'[p] = "run" => OwnNode(p)',
         status'[t] = "run" /\ ~At(t, "exec_tree")' => OwnNode(t)',
         NodeFrame(t)'
  PROVE  NodeInv'
<1>. USE DEF ListInv, TypeInv, TypeOK
<1>1. ASSUME NEW p \in Pid, Same(p), agent_tree'[p] = agent_tree[p]
      PROVE  /\ OwnNode(p) => OwnNode(p)'
             /\ Has(pid_whitelist, p) => Has(pid_whitelist', p)
             /\ \A n : OwnParent(p, n) => OwnParent(p, n)'
  BY <1>1 DEF Same, OwnNode, OwnParent, Has, Lookup
<1>2. ASSUME NEW p \in Pid \ {t}, status'[p] = "run", ~At(p, "exec_tree")'
      PROVE  OwnNode(p)'
  <2>1. CASE status[p] = "run"
    BY <1>1, <1>2, <2>1 DEF NodeInv, At, Same
  <2>2. CASE status[p] # "run"
    BY <1>2, <2>2
  <2>. QED  BY <2>1, <2>2
<1>3. ASSUME NEW u \in Pid \ {t} PROVE NodeFrame(u)'
  <2>1. NodeFrame(u) /\ frame'[u] = frame[u] /\ Steady(u, {})
    BY DEF NodeInv, EntryInv
  <2>2. ASSUME frame[u].pc # "idle"
        PROVE  Same(u) /\ agent_tree'[u] = agent_tree[u]
    BY <2>1, <2>2 DEF Steady
  <2>3. ASSUME frame[u].child # NoPid
        PROVE  /\ frame[u].child \in Pid /\ Same(frame[u].child)
               /\ agent_tree'[frame[u].child] = agent_tree[frame[u].child]
    BY <2>1, <2>3 DEF Steady
  <2>. DEFINE c == frame[u].child
  <2>4. c # NoPid => c \in Pid /\ (OwnNode(c) => OwnNode(c)')
    BY <1>1, <2>3
  <2>5. frame[u].pc # "idle"
          => /\ Has(pid_whitelist, u) => Has(pid_whitelist', u)
             /\ \A n : OwnParent(u, n) => OwnParent(u, n)'
    BY <1>1, <2>2
  <2>. QED  BY <2>1, <2>4, <2>5 DEF NodeFrame, OwnNode, OwnParent, Has, Lookup
<1>. QED  BY <1>2, <1>3 DEF NodeInv

\* The handler wakes the task of a fork, which was given its node or is not listed.
LEMMA ReturnNodes ==
  ASSUME ListInv, NEW t \in Pid, status[t] = "run", ~At(t, "exec_tree"), Return(t),
         UNCHANGED <<parent, pid_whitelist>>,
         agent_tree' \in [Pid -> Node \cup {Absent}],
         \A p \in Pid : agent_tree'[p] = agent_tree[p] \/ p = frame[t].child,
         \A q \in Pid : q = frame[t].child => OwnNode(q)'
  PROVE  NodeInv'
<1>. USE DEF ListInv, TypeInv, TypeOK
<1>. DEFINE c == frame[t].child
<1>1. frame' = [frame EXCEPT ![t] = Idle]
  BY DEF Return, Goto
<1>2. NodeFrame(t)' /\ \A u \in Pid \ {t} : frame'[u] = frame[u]
  BY <1>1, IdleType DEF NodeFrame, Idle
<1>3. c # NoPid => c \in Pid /\ status[c] = "new" /\ parent[c] = t
  BY DEF EntryInv, Steady
<1>4. \A p \in Pid : p # c => status'[p] = status[p]
  BY <1>3 DEF Return
<1>5. t # c
  BY <1>3, PidAssumption
<1>6. OwnNode(t)'
  BY <1>5 DEF NodeInv, OwnNode, OwnParent, Has, Lookup
<1>7. \A p \in Pid \ {t} : (status[p] = "new" /\ parent[p] = t)
                            \/ (Same(p) /\ agent_tree'[p] = agent_tree[p])
  BY <1>3, <1>4, PidAssumption DEF Same
<1>8. \A p \in Pid \ {t} : status[p] # "run" /\ status'[p] = "run" => OwnNode(p)'
  BY <1>3, <1>4, PidAssumption
<1>. QED  BY <1>2, <1>6, <1>7, <1>8, OneTaskNodes

\* A step that changes nothing but the frame of its task.
LEMMA FrameNodes ==
  ASSUME ListInv, NEW t \in Pid, status[t] = "run", ~At(t, "exec_tree"),
         UNCHANGED <<status, parent, pid_whitelist, agent_tree>>,
         \A u \in Pid \ {t} : frame'[u] = frame[u],
         NodeFrame(t)'
  PROVE  NodeInv'
<1>1. OwnNode(t)'
  BY DEF ListInv, NodeInv, OwnNode, OwnParent, Has, Lookup
<1>. QED  BY <1>1, OneTaskNodes DEF Same, ListInv, TypeInv, TypeOK

LEMMA PackSelfNodes ==
  ASSUME ListInv, NEW t \in Pid, status[t] = "run", ~At(t, "exec_tree"),
         NEW p, NEW e, PackSelf(t, p, e), UNCHANGED <<parent, pid_whitelist>>,
         agent_tree' \in [Pid -> Node \cup {Absent}],
         \A q \in Pid : agent_tree'[q] = agent_tree[q] \/ q = frame[t].child,
         \A q \in Pid : q = frame[t].child => OwnNode(q)'
  PROVE  NodeInv'
<1>. USE DEF ListInv, TypeInv, TypeOK
<1>0. frame[t].child # NoPid => frame[t].child \in Pid
  BY DEF EntryInv, Steady
<1>1. CASE p = e.root
  BY <1>1, ReturnNodes DEF PackSelf, Emit
<1>2. CASE p # e.root
  <2>. DEFINE f == [frame[t] EXCEPT !.pc = "first", !.entry = e,
                                    !.chain = <<p>>, !.cur = p]
  <2>1. Goto(t, f) /\ UNCHANGED status
    BY <1>2 DEF PackSelf
  <2>2. f.pc = "first" /\ f.child = frame[t].child
    BY DEF Frame
  <2>. HIDE DEF f
  <2>3. /\ frame'[t] = f /\ \A u \in Pid \ {t} : frame'[u] = frame[u]
    BY <2>1, NewFrame
  <2>4. NodeFrame(t)'
    BY <1>0, <2>2, <2>3 DEF NodeFrame
  <2>5. frame[t].child # NoPid => frame[t].child \in Pid /\ status[frame[t].child] = "new"
                                  /\ parent[frame[t].child] = t
    BY DEF EntryInv, Steady
  <2>6. frame[t].child # t
    BY <2>5, PidAssumption
  <2>7. OwnNode(t)'
    BY <2>6 DEF NodeInv, OwnNode, OwnParent, Has, Lookup
  <2>8. \A q \in Pid \ {t} : (status[q] = "new" /\ parent[q] = t)
                              \/ (Same(q) /\ agent_tree'[q] = agent_tree[q])
    BY <2>1, <2>5, PidAssumption DEF Same
  <2>. QED  BY <2>1, <2>3, <2>4, <2>7, <2>8, OneTaskNodes
<1>. QED  BY <1>1, <1>2

\* Every step of the kernel's leaves audited tasks their own nodes.
LEMMA NodeStep ==
  ASSUME ListInv, [Next]_treeVars
  PROVE  NodeInv'
<1>. USE DEF ListInv, TypeInv, TypeOK
<1>0. /\ \A t \in Pid : frame[t].pc # "idle" => status[t] = "run"
      /\ \A t \in Pid : frame[t].child # NoPid
                        => /\ frame[t].child \in Pid /\ frame[t].child # t
                           /\ status[frame[t].child] = "new"
  BY PidAssumption DEF EntryInv, Steady
<1>1. ASSUME NEW t \in Pid, PackParent(t) \/ ChainStep(t) PROVE NodeInv'
  <2>1. /\ status[t] = "run" /\ frame[t].pc \in {"first", "walk"}
        /\ UNCHANGED <<parent, pid_whitelist, agent_tree>>
    BY <1>0, <1>1 DEF PackParent, ChainStep, At, maps
  <2>2. \A q \in Pid : q = frame[t].child => OwnNode(q)'
    BY <2>1, PidAssumption DEF NodeInv, NodeFrame, OwnNode, OwnParent, Has, Lookup
  <2>3. CASE Return(t)
    BY <2>1, <2>2, <2>3, ReturnNodes DEF At
  <2>4. CASE ~Return(t)
    <3>. DEFINE f    == frame[t]
                node == Lookup(agent_tree, f.cur)
                g1   == [f EXCEPT !.pc = "walk", !.cur = node.parent]
                g2   == [f EXCEPT !.chain = Append(f.chain, f.cur), !.cur = node.parent]
    <3>1. UNCHANGED status /\ (Goto(t, g1) \/ Goto(t, g2))
      BY <1>1, <2>4 DEF PackParent, ChainStep, Emit
    <3>2. g1.pc = "walk" /\ g1.child = f.child /\ g2.pc = f.pc /\ g2.child = f.child
      BY DEF Frame
    <3>. HIDE DEF g1, g2
    <3>3. /\ \A u \in Pid \ {t} : frame'[u] = frame[u]
          /\ frame'[t].child = f.child /\ frame'[t].pc \in {"first", "walk"}
      BY <2>1, <3>1, <3>2, NewFrame
    <3>4. NodeFrame(t)'
      BY <2>1, <3>3 DEF NodeInv, NodeFrame, OwnNode, OwnParent, Has, Lookup
    <3>. QED  BY <2>1, <3>1, <3>3, <3>4, FrameNodes DEF At
  <2>. QED  BY <2>3, <2>4
<1>2. ASSUME NEW t \in Pid, Capture(t) PROVE NodeInv'
  <2>1. /\ status[t] = "run" /\ frame[t].pc = "idle" /\ frame[t].child = NoPid
        /\ UNCHANGED <<parent, pid_whitelist, agent_tree>>
    BY <1>2 DEF Capture, Ready, maps, EntryInv, Steady
  <2>. QED  BY <1>2, <2>1, PidAssumption, PackSelfNodes DEF Capture, At
<1>3. ASSUME NEW t \in Pid, NEW c \in Pid, NEW thread \in BOOLEAN, ForkStart(t, c, thread)
      PROVE  NodeInv'
  <2>1. /\ status[t] = "run" /\ status[c] = "free" /\ c # t /\ frame[t].pc = "idle"
        /\ status' = [status EXCEPT ![c] = "new"] /\ parent' = [parent EXCEPT ![c] = t]
        /\ UNCHANGED <<pid_whitelist, agent_tree>>
    BY <1>3 DEF ForkStart, Ready, maps
  <2>2. frame' = [frame EXCEPT ![t] = [Idle EXCEPT !.pc = "fork", !.child = c]]
    BY <1>3 DEF ForkStart, Goto
  <2>3. /\ frame'[t].pc = "fork" /\ \A u \in Pid \ {t} : frame'[u] = frame[u]
    BY <2>2 DEF Idle
  <2>4. NodeFrame(t)'
    BY <2>3 DEF NodeFrame
  <2>5. OwnNode(t)'
    BY <2>1 DEF NodeInv, At, OwnNode, OwnParent, Has, Lookup
  <2>. QED  BY <2>1, <2>3, <2>4, <2>5, OneTaskNodes DEF Same
<1>4. ASSUME NEW t \in Pid, ForkLookup(t) PROVE NodeInv'
  <2>1. /\ status[t] = "run" /\ frame[t].pc = "fork"
        /\ UNCHANGED <<parent, pid_whitelist, agent_tree>>
    BY <1>0, <1>4 DEF ForkLookup, At, maps
  <2>2. frame[t].child \in Pid /\ ~Has(pid_whitelist, frame[t].child)
    BY <2>1 DEF FramesOK, EntryInv, Steady, Bare, Has, Lookup
  <2>3. CASE Return(t)
    BY <2>1, <2>2, <2>3, ReturnNodes DEF OwnNode, At, Has, Lookup
  <2>4. CASE ~Return(t)
    <3>. DEFINE e == ChildEntry(t, Lookup(pid_whitelist, t))
                g == [frame[t] EXCEPT !.pc = "fork_wl", !.entry = e]
    <3>1. Goto(t, g) /\ UNCHANGED status
      BY <1>4, <2>4 DEF ForkLookup
    <3>. HIDE DEF e
    <3>2. g.pc = "fork_wl"
      BY DEF Frame
    <3>. HIDE DEF g
    <3>3. frame'[t] = g /\ \A u \in Pid \ {t} : frame'[u] = frame[u]
      BY <3>1, NewFrame
    <3>4. NodeFrame(t)'
      BY <3>2, <3>3 DEF NodeFrame
    <3>. QED  BY <2>1, <3>1, <3>3, <3>4, FrameNodes DEF At
  <2>. QED  BY <2>3, <2>4
<1>5. ASSUME NEW t \in Pid, ForkWhitelist(t) PROVE NodeInv'
  <2>. DEFINE c == frame[t].child
  <2>1. /\ frame[t].pc = "fork_wl" /\ status[t] = "run" /\ c \in Pid
        /\ UNCHANGED <<status, parent, agent_tree>>
    BY <1>0, <1>5 DEF ForkWhitelist, At, kernel, FramesOK
  <2>2. status[c] = "new" /\ parent[c] = t /\ c # t /\ frame[t].entry \in Entry
    BY <2>1, PidAssumption DEF EntryInv, Steady, FramesOK
  <2>3. \A p \in Pid : p # c => pid_whitelist'[p] = pid_whitelist[p]
    BY <1>5 DEF ForkWhitelist, Put
  <2>4. pid_whitelist' \in [Pid -> Entry \cup {Absent}]
    BY <1>5, <2>1, <2>2, PutType DEF ForkWhitelist
  <2>5. frame'[t].pc = "fork_tree" /\ \A u \in Pid \ {t} : frame'[u] = frame[u]
    BY <1>5 DEF ForkWhitelist, GotoPc, Goto, Frame
  <2>6. NodeFrame(t)'
    BY <2>5 DEF NodeFrame
  <2>7. OwnNode(t)'
    BY <2>1, <2>2, <2>3, <2>4 DEF NodeInv, At, OwnNode, OwnParent, Has, Lookup
  <2>8. \A p \in Pid \ {t} : (status[p] = "new" /\ parent[p] = t)
                              \/ (Same(p) /\ agent_tree'[p] = agent_tree[p])
    BY <2>1, <2>2, <2>3 DEF Same
  <2>. QED  BY <2>1, <2>4, <2>5, <2>6, <2>7, <2>8, OneTaskNodes
<1>6. ASSUME NEW t \in Pid, ForkTree(t) PROVE NodeInv'
  <2>. DEFINE c == frame[t].child
              n == ChildNode(t)
  <2>1. /\ frame[t].pc = "fork_tree" /\ status[t] = "run" /\ c \in Pid
        /\ UNCHANGED <<parent, pid_whitelist>>
        /\ agent_tree' = Put(agent_tree, TreeCap, c, n)
    BY <1>0, <1>6 DEF ForkTree, At, FramesOK
  <2>2. parent[c] = t
    BY <2>1, PidAssumption DEF EntryInv, Steady
  <2>3. n \in Node /\ n.parent = t
    BY DEF ChildNode, Node, PidOrNone
  <2>. HIDE DEF n
  <2>4. agent_tree' \in [Pid -> Node \cup {Absent}]
    BY <2>1, <2>3, PutType
  <2>5. agent_tree'[c] = n \/ ~Has(agent_tree', c)
    BY <2>1 DEF Put, Accepts, Has, Lookup
  <2>6. \A q \in Pid : q = c => OwnNode(q)'
    BY <2>1, <2>2, <2>3, <2>5 DEF OwnNode, OwnParent
  <2>7. \A q \in Pid : agent_tree'[q] = agent_tree[q] \/ q = c
    BY <2>1 DEF Put
  <2>8. PackSelf(t, c, frame[t].entry)
    BY <1>6 DEF ForkTree
  <2>. QED  BY <2>1, <2>4, <2>6, <2>7, <2>8, PackSelfNodes DEF At
<1>7. ASSUME NEW t \in Pid, NEW pc \in {"exec", "exec_known", "exec_new", "exec_wl",
                                        "exec_tree", "exit_tree"}, GotoPc(t, pc)
      PROVE  /\ frame'[t].pc = pc /\ \A u \in Pid \ {t} : frame'[u] = frame[u]
             /\ pc # "exec_known" => NodeFrame(t)'
             /\ Has(pid_whitelist, t)' => NodeFrame(t)'
  BY <1>7 DEF GotoPc, Goto, Frame, NodeFrame
<1>8. ASSUME NEW t \in Pid, Goto(t, Idle)
      PROVE  NodeFrame(t)' /\ \A u \in Pid \ {t} : frame'[u] = frame[u]
  BY <1>8, IdleType DEF Goto, NodeFrame
<1>9. ASSUME NEW t \in Pid, NEW c \in Comm, ExecStart(t, c) PROVE NodeInv'
  <2>1. /\ status[t] = "run" /\ frame[t].pc = "idle" /\ GotoPc(t, "exec")
        /\ UNCHANGED <<status, parent, pid_whitelist, agent_tree>>
    BY <1>9 DEF ExecStart, Ready, maps
  <2>. QED  BY <1>7, <2>1, FrameNodes DEF At
<1>10. ASSUME NEW t \in Pid, ExecLookup(t) PROVE NodeInv'
  <2>1. /\ status[t] = "run" /\ frame[t].pc = "exec"
        /\ UNCHANGED <<status, parent, pid_whitelist, agent_tree>>
        /\ GotoPc(t, IF Has(pid_whitelist, t) THEN "exec_known" ELSE "exec_new")
    BY <1>0, <1>10 DEF ExecLookup, At, kernel, maps
  <2>2. CASE Has(pid_whitelist, t)
    <3>1. Has(pid_whitelist, t)'
      BY <2>1, <2>2 DEF Has, Lookup
    <3>. QED  BY <1>7, <2>1, <2>2, <3>1, FrameNodes DEF At
  <2>3. CASE ~Has(pid_whitelist, t)
    BY <1>7, <2>1, <2>3, FrameNodes DEF At
  <2>. QED  BY <2>2, <2>3
<1>11. ASSUME NEW t \in Pid, NEW n \in Node, OwnParent(t, n), status[t] = "run",
              \/ agent_tree' = Put(agent_tree, TreeCap, t, n)
              \/ agent_tree' = [agent_tree EXCEPT ![t] = n],
              UNCHANGED <<status, parent, pid_whitelist>>,
              \A u \in Pid \ {t} : frame'[u] = frame[u], NodeFrame(t)'
       PROVE  NodeInv'
  <2>1. /\ agent_tree' \in [Pid -> Node \cup {Absent}]
        /\ \A q \in Pid \ {t} : agent_tree'[q] = agent_tree[q]
        /\ agent_tree'[t] = n \/ ~Has(agent_tree', t)
    BY <1>11 DEF Put, Accepts, Has, Lookup
  <2>2. OwnNode(t)'
    BY <1>11, <2>1 DEF OwnNode, OwnParent
  <2>. QED  BY <1>11, <2>1, <2>2, OneTaskNodes DEF Same
<1>12. ASSUME NEW t \in Pid, ExecKnown(t) PROVE NodeInv'
  <2>. DEFINE node == Lookup(agent_tree, t)
  <2>1. /\ status[t] = "run" /\ frame[t].pc = "exec_known"
        /\ UNCHANGED <<status, parent, pid_whitelist>>
    BY <1>0, <1>12 DEF ExecKnown, At, kernel
  <2>2. Has(pid_whitelist, t) /\ OwnNode(t)
    BY <2>1 DEF NodeInv, NodeFrame, At
  <2>3. CASE node = Absent
    BY <1>8, <1>12, <2>1, <2>3, FrameNodes DEF ExecKnown, At
  <2>4. CASE node # Absent
    <3>. DEFINE n == [agent_tree[t] EXCEPT !.comm = comm[t]]
                g == [frame[t] EXCEPT !.pc = "exec_put", !.node = n]
    <3>1. agent_tree[t] \in Node /\ Has(agent_tree, t)
      BY <2>4, LookupType DEF Has, Lookup
    <3>2. n \in Node /\ n.parent = agent_tree[t].parent
      BY <3>1 DEF Node
    <3>3. OwnParent(t, n)
      BY <2>2, <3>1, <3>2 DEF OwnNode, OwnParent
    <3>4. agent_tree' = [agent_tree EXCEPT ![t] = n]
      BY <1>12, <2>4 DEF ExecKnown
    <3>. HIDE DEF n
    <3>5. agent_tree'[t] = n
      BY <3>4
    <3>6. Goto(t, g)
      BY <1>12, <2>4, <3>5 DEF ExecKnown
    <3>7. g.pc = "exec_put" /\ g.node = n
      BY DEF Frame
    <3>. HIDE DEF g
    <3>8. frame'[t] = g /\ \A u \in Pid \ {t} : frame'[u] = frame[u]
      BY <3>6, NewFrame
    <3>9. NodeFrame(t)'
      BY <2>1, <2>2, <3>3, <3>7, <3>8 DEF NodeFrame, OwnParent, Has, Lookup
    <3>. QED  BY <1>11, <2>1, <3>2, <3>3, <3>4, <3>8, <3>9
  <2>. QED  BY <2>3, <2>4
<1>13. ASSUME NEW t \in Pid, ExecPut(t) PROVE NodeInv'
  <2>1. /\ status[t] = "run" /\ frame[t].node \in Node /\ OwnParent(t, frame[t].node)
        /\ agent_tree' = Put(agent_tree, TreeCap, t, frame[t].node)
        /\ UNCHANGED <<status, parent, pid_whitelist>> /\ Goto(t, Idle)
    BY <1>0, <1>13 DEF ExecPut, At, kernel, FramesOK, NodeInv, NodeFrame
  <2>. QED  BY <1>8, <1>11, <2>1
<1>14. ASSUME NEW t \in Pid, ExecMatch(t) PROVE NodeInv'
  <2>1. /\ status[t] = "run" /\ frame[t].pc = "exec_new"
        /\ UNCHANGED <<status, parent, pid_whitelist, agent_tree>>
        /\ Goto(t, Idle) \/ GotoPc(t, "exec_wl")
    BY <1>0, <1>14 DEF ExecMatch, At, kernel, maps
  <2>. QED  BY <1>7, <1>8, <2>1, FrameNodes DEF At
<1>15. ASSUME NEW t \in Pid, ExecWhitelist(t) PROVE NodeInv'
  <2>. DEFINE e == [root |-> t, depth |-> 0]
  <2>1. /\ status[t] = "run" /\ UNCHANGED <<status, parent, agent_tree>>
        /\ pid_whitelist' = Put(pid_whitelist, WlCap, t, e) /\ GotoPc(t, "exec_tree")
    BY <1>0, <1>15 DEF ExecWhitelist, At, kernel
  <2>2. e \in Entry
    BY SizeAssumption DEF Entry
  <2>. HIDE DEF e
  <2>3. /\ pid_whitelist' \in [Pid -> Entry \cup {Absent}]
        /\ \A p \in Pid : p # t => pid_whitelist'[p] = pid_whitelist[p]
    BY <2>1, <2>2 DEF Put
  <2>4. /\ frame'[t].pc = "exec_tree" /\ NodeFrame(t)'
        /\ \A u \in Pid \ {t} : frame'[u] = frame[u]
    BY <1>7, <2>1
  <2>. QED  BY <2>1, <2>3, <2>4, OneTaskNodes DEF Same, At
<1>16. ASSUME NEW t \in Pid, ExecTree(t) PROVE NodeInv'
  <2>. DEFINE n == [parent |-> NoPid, comm |-> comm[t]]
  <2>1. /\ status[t] = "run" /\ UNCHANGED <<status, parent, pid_whitelist>>
        /\ agent_tree' = Put(agent_tree, TreeCap, t, n) /\ Goto(t, Idle)
    BY <1>0, <1>16 DEF ExecTree, At, kernel
  <2>2. n \in Node /\ OwnParent(t, n)
    BY DEF Node, PidOrNone, OwnParent
  <2>. HIDE DEF n
  <2>. QED  BY <1>8, <1>11, <2>1, <2>2
<1>17. ASSUME NEW t \in Pid, Die(t) \/ Release(t)
       PROVE  /\ \A p \in Pid : p # t => status'[p] = status[p]
              /\ status'[t] # "run" /\ UNCHANGED parent
  BY <1>17 DEF Die, Release, Reaped
<1>18. ASSUME NEW t \in Pid, ExitWhitelist(t) PROVE NodeInv'
  <2>1. status[t] = "run" /\ frame[t].pc = "idle" /\ UNCHANGED agent_tree
    BY <1>18 DEF ExitWhitelist, Ready
  <2>2. CASE ~Has(pid_whitelist, t)
    <3>1. Die(t) /\ UNCHANGED <<pid_whitelist, frame>>
      BY <1>18, <2>2 DEF ExitWhitelist
    <3>2. NodeFrame(t)'
      BY <1>0, <2>1, <3>1 DEF NodeFrame
    <3>. QED  BY <1>17, <2>1, <3>1, <3>2, OneTaskNodes DEF Same
  <2>3. CASE Has(pid_whitelist, t)
    <3>1. /\ pid_whitelist' = [pid_whitelist EXCEPT ![t] = Absent]
          /\ UNCHANGED <<status, parent>> /\ GotoPc(t, "exit_tree")
      BY <1>18, <2>3 DEF ExitWhitelist, Del, kernel
    <3>2. /\ NodeFrame(t)' /\ \A u \in Pid \ {t} : frame'[u] = frame[u]
      BY <1>7, <3>1
    <3>3. OwnNode(t)'
      BY <3>1 DEF OwnNode, Has, Lookup
    <3>. QED  BY <2>1, <3>1, <3>2, <3>3, OneTaskNodes DEF Same
  <2>. QED  BY <2>2, <2>3
<1>19. ASSUME NEW t \in Pid, ExitTree(t) PROVE NodeInv'
  <2>1. /\ status[t] = "run" /\ Goto(t, Idle) /\ Die(t) /\ UNCHANGED pid_whitelist
        /\ agent_tree' = [agent_tree EXCEPT ![t] = Absent]
    BY <1>0, <1>19 DEF ExitTree, At, Del
  <2>. QED  BY <1>8, <1>17, <2>1, OneTaskNodes DEF Same
<1>20. ASSUME NEW t \in Pid, Reap(t) PROVE NodeInv'
  <2>1. status[t] = "zombie" /\ Release(t) /\ UNCHANGED <<pid_whitelist, agent_tree, frame>>
    BY <1>20 DEF Reap, maps
  <2>2. NodeFrame(t)'
    BY <1>0, <2>1 DEF EntryInv, Steady, NodeFrame
  <2>. QED  BY <1>17, <2>1, <2>2, OneTaskNodes DEF Same
<1>21. CASE UNCHANGED treeVars
  BY <1>21 DEF treeVars, NodeInv, NodeFrame, OwnNode, OwnParent, At, Has, Lookup
<1>. QED
  BY <1>1, <1>2, <1>3, <1>4, <1>5, <1>6, <1>9, <1>10, <1>12, <1>13, <1>14, <1>15,
     <1>16, <1>18, <1>19, <1>20, <1>21 DEF Next, TaskStep, HandlerStep

\* An audited task has its own node or none, also when full maps have left nodes of dead
\* tasks behind and the kernel hands their ids out again.
THEOREM NodeIsOwnAlways == Spec => []NodeIsOwn
<1>1. Init => ListInv
  <2>1. TreeInit => NodeInv
    BY DEF TreeInit, NodeInv, NodeFrame, OwnNode, Idle, Has, Lookup
  <2>. QED  BY <2>1, TypeInit, EntryInit, CommAssumption DEF Init, ListInv
<1>2. ListInv /\ [Next]_treeVars => ListInv'
  BY TypeStep, EntryStep, NodeStep DEF ListInv
<1>3. ListInv => NodeIsOwn
  <2>. SUFFICES ASSUME ListInv, NEW p \in Pid, Quiet(p),
                       Has(pid_whitelist, p), Has(agent_tree, p)
                PROVE  agent_tree[p].parent \in {NoPid, parent[p]}
    BY DEF NodeIsOwn
  <2>1. status[p] = "run" /\ ~At(p, "exec_tree")
    BY DEF ListInv, EntryInv, Bare, Live, Quiet, At, Has, Lookup
  <2>. QED  BY <2>1 DEF ListInv, NodeInv, OwnNode, OwnParent
<1>. QED  BY <1>1, <1>2, <1>3, PTL DEF Spec
---------------------------------------------------------------------------
\* The argument for FirstLinkTrue.  The id a record is about stays with its task while
\* the record is packed: a new task waits for the hook, and a process is not reaped
\* before its threads.  Its node is its own or absent when the packing begins, and only
\* its own hooks write it from then on, whoever takes the ids further up.

InExec(p) == frame[p].pc \in {"exec", "exec_known", "exec_put", "exec_new", "exec_wl",
                              "exec_tree"}

GroupInv ==
  /\ \A u \in Pid : Live(u) => \/ tgid[u] = u
                               \/ Leader(tgid[u]) /\ status[tgid[u]] \in {"run", "zombie"}
  /\ \A p \in Pid : InExec(p) => \A u \in Pid \ {p} : Live(u) => tgid[u] # p

\* The id of the record that t is packing.
Subject(t) == IF frame[t].child # NoPid THEN frame[t].child ELSE tgid[t]

OwnOrNone(p) == Has(agent_tree, p) => OwnParent(p, agent_tree[p])

FirstFrame(t) ==
  LET f == frame[t]
      s == Subject(t)
  IN  /\ f.pc = "first" => f.chain = <<s>> /\ f.cur = s /\ OwnOrNone(s)
      /\ f.pc = "walk" => /\ Len(f.chain) >= 1 /\ f.chain[1] = s
                          /\ Len(f.chain) = 1 => f.cur \in {NoPid, parent[s]}
                          /\ Len(f.chain) > 1 => f.chain[2] = parent[s]

FirstInv == \A t \in Pid : FirstFrame(t)

PackInv == ListInv /\ GroupInv /\ FirstInv

LEMMA SameGroups ==
  ASSUME TypeInv, GroupInv, UNCHANGED tgid,
         \A u \in Pid : \/ status'[u] = status[u]
                        \/ status[u] = "new" /\ status'[u] = "run",
         \A u \in Pid : InExec(u)' => InExec(u)
  PROVE  GroupInv'
BY DEF GroupInv, Leader, Live, TypeInv, TypeOK

LEMMA ReturnGroups ==
  ASSUME ListInv, GroupInv, NEW t \in Pid, Return(t), UNCHANGED tgid
  PROVE  GroupInv'
<1>. USE DEF ListInv, TypeInv, TypeOK
<1>1. \A u \in Pid : InExec(u)' => InExec(u)
  BY IdleType DEF Return, Goto, InExec
<1>2. frame[t].child # NoPid => status[frame[t].child] = "new"
  BY DEF EntryInv, Steady
<1>3. \A u \in Pid : \/ status'[u] = status[u]
                     \/ status[u] = "new" /\ status'[u] = "run"
  BY <1>2 DEF Return
<1>. QED  BY <1>1, <1>3, SameGroups

\* The step of a handler that goes on: an exec hook began as one.
LEMMA GotoGroups ==
  ASSUME ListInv, GroupInv, NEW t \in Pid, NEW f, Goto(t, f), UNCHANGED <<status, tgid>>,
         f.pc \in {"exec", "exec_known", "exec_put", "exec_new", "exec_wl", "exec_tree"}
           => InExec(t)
  PROVE  GroupInv'
<1>1. \A u \in Pid : InExec(u)' => InExec(u)
  BY NewFrame DEF InExec, ListInv
<1>. QED  BY <1>1, SameGroups DEF ListInv

LEMMA PackSelfGroups ==
  ASSUME ListInv, GroupInv, NEW t \in Pid, NEW p, NEW e, PackSelf(t, p, e), UNCHANGED tgid
  PROVE  GroupInv'
<1>1. CASE p = e.root
  BY <1>1, ReturnGroups DEF PackSelf, Emit
<1>2. CASE p # e.root
  <2>. DEFINE f == [frame[t] EXCEPT !.pc = "first", !.entry = e,
                                    !.chain = <<p>>, !.cur = p]
  <2>1. Goto(t, f) /\ UNCHANGED status
    BY <1>2 DEF PackSelf
  <2>2. f.pc = "first"
    BY DEF ListInv, TypeInv, TypeOK, Frame
  <2>. HIDE DEF f
  <2>. QED  BY <2>1, <2>2, GotoGroups
<1>. QED  BY <1>1, <1>2

\* A process outlives its threads, and one that runs a new program has one.
LEMMA GroupStep ==
  ASSUME ListInv, GroupInv, [Next]_treeVars
  PROVE  GroupInv'
<1>. USE DEF ListInv, TypeInv, TypeOK
<1>0. \A t \in Pid : frame[t].pc # "idle" => status[t] = "run"
  BY DEF EntryInv, Steady
<1>1. ASSUME NEW t \in Pid, PackParent(t) \/ ChainStep(t) PROVE GroupInv'
  <2>. DEFINE f    == frame[t]
              node == Lookup(agent_tree, f.cur)
              g1   == [f EXCEPT !.pc = "walk", !.cur = node.parent]
              g2   == [f EXCEPT !.chain = Append(f.chain, f.cur), !.cur = node.parent]
  <2>1. UNCHANGED tgid /\ f.pc \in {"first", "walk"}
    BY <1>1 DEF PackParent, ChainStep, At
  <2>2. Return(t) \/ (UNCHANGED status /\ (Goto(t, g1) \/ Goto(t, g2)))
    BY <1>1 DEF PackParent, ChainStep, Emit
  <2>3. g1.pc = "walk" /\ g2.pc = f.pc
    BY DEF Frame
  <2>. HIDE DEF g1, g2
  <2>. QED  BY <2>1, <2>2, <2>3, ReturnGroups, GotoGroups
<1>2. ASSUME NEW t \in Pid, Capture(t) \/ ForkTree(t) PROVE GroupInv'
  BY <1>2, PackSelfGroups DEF Capture, ForkTree
<1>3. ASSUME NEW t \in Pid, NEW c \in Pid, NEW thread \in BOOLEAN, ForkStart(t, c, thread)
      PROVE  GroupInv'
  <2>1. /\ status[t] = "run" /\ status[c] = "free" /\ c # t /\ frame[t].pc = "idle"
        /\ status' = [status EXCEPT ![c] = "new"]
        /\ tgid'[c] \in {c, tgid[t]} /\ \A u \in Pid \ {c} : tgid'[u] = tgid[u]
    BY <1>3 DEF ForkStart, Ready
  <2>2. tgid[t] # c /\ \A u \in Pid : Live(u) => tgid[u] # c
    BY <2>1 DEF GroupInv, Live
  <2>3. \A u \in Pid : InExec(u)' => InExec(u) /\ u # c /\ u # t
    <3>. DEFINE g == [Idle EXCEPT !.pc = "fork", !.child = c]
    <3>1. g.pc = "fork" /\ Goto(t, g)
      BY <1>3 DEF ForkStart, Idle
    <3>. HIDE DEF g
    <3>. QED  BY <1>0, <2>1, <3>1, NewFrame DEF InExec
  <2>4. ASSUME NEW u \in Pid, Live(u)'
        PROVE  \/ tgid'[u] = u
               \/ tgid'[tgid'[u]] = tgid'[u] /\ status'[tgid'[u]] \in {"run", "zombie"}
    BY <2>1, <2>2, <2>4 DEF GroupInv, Leader, Live
  <2>5. ASSUME NEW p \in Pid, InExec(p)', NEW u \in Pid \ {p}, Live(u)' PROVE tgid'[u] # p
    BY <2>1, <2>3, <2>5 DEF GroupInv, Live
  <2>. QED  BY <2>4, <2>5 DEF GroupInv, Leader
<1>4. ASSUME NEW t \in Pid, ForkLookup(t) PROVE GroupInv'
  <2>. DEFINE g == [frame[t] EXCEPT !.pc = "fork_wl",
                      !.entry = ChildEntry(t, Lookup(pid_whitelist, t))]
  <2>1. UNCHANGED tgid /\ (Return(t) \/ (Goto(t, g) /\ UNCHANGED status))
    BY <1>4 DEF ForkLookup
  <2>2. g.pc = "fork_wl"
    BY DEF Frame
  <2>. HIDE DEF g
  <2>. QED  BY <2>1, <2>2, ReturnGroups, GotoGroups
<1>5. ASSUME NEW t \in Pid, NEW pc, GotoPc(t, pc), UNCHANGED <<status, tgid>>,
             pc \in {"exec", "exec_known", "exec_put", "exec_new", "exec_wl", "exec_tree"}
               => InExec(t)
      PROVE  GroupInv'
  BY <1>5, GotoGroups DEF GotoPc, Frame
<1>6. ASSUME NEW t \in Pid, Goto(t, Idle), UNCHANGED <<status, tgid>> PROVE GroupInv'
  BY <1>6, IdleType, GotoGroups
<1>7. ASSUME NEW t \in Pid, ForkWhitelist(t) PROVE GroupInv'
  BY <1>5, <1>7 DEF ForkWhitelist, kernel
<1>8. ASSUME NEW t \in Pid, NEW c \in Comm, ExecStart(t, c) PROVE GroupInv'
  <2>1. UNCHANGED <<status, tgid>> /\ \A u \in Pid \ {t} : Live(u) => tgid[u] # t
    BY <1>8 DEF ExecStart
  <2>2. \A u \in Pid \ {t} : InExec(u)' => InExec(u)
    BY <1>8, NewFrame DEF ExecStart, GotoPc, InExec
  <2>. QED  BY <2>1, <2>2 DEF GroupInv, Leader, Live
<1>9. ASSUME NEW t \in Pid, ExecLookup(t) \/ ExecMatch(t) \/ ExecWhitelist(t)
      PROVE  GroupInv'
  <2>1. UNCHANGED <<status, tgid>> /\ InExec(t)
    BY <1>9 DEF ExecLookup, ExecMatch, ExecWhitelist, kernel, At, InExec
  <2>2. Goto(t, Idle) \/ \E pc \in PCs : GotoPc(t, pc)
    BY <1>9 DEF ExecLookup, ExecMatch, ExecWhitelist, PCs
  <2>. QED  BY <1>5, <1>6, <2>1, <2>2
<1>10. ASSUME NEW t \in Pid, ExecKnown(t) \/ ExecPut(t) \/ ExecTree(t) PROVE GroupInv'
  <2>1. UNCHANGED <<status, tgid>> /\ InExec(t)
    BY <1>10 DEF ExecKnown, ExecPut, ExecTree, kernel, At, InExec
  <2>2. \E f : Goto(t, f)
    BY <1>10 DEF ExecKnown, ExecPut, ExecTree
  <2>. QED  BY <2>1, <2>2, GotoGroups
\* The end of a thread; of a leader without threads; and a leader that becomes a zombie.
<1>11. ASSUME NEW t \in Pid, Die(t), status[t] = "run",
              \A u \in Pid : InExec(u)' => InExec(u)
       PROVE  GroupInv'
  <2>1. CASE Leader(t)
    <3>1. UNCHANGED tgid /\ status' = [status EXCEPT ![t] = "zombie"]
      BY <1>11, <2>1 DEF Die
    <3>. QED  BY <1>11, <3>1 DEF GroupInv, Leader, Live
  <2>2. CASE ~Leader(t)
    <3>1. /\ tgid' = [tgid EXCEPT ![t] = t]
          /\ status' = [status EXCEPT ![t] = Reaped] /\ Reaped \notin {"new", "run"}
      BY <1>11, <2>2 DEF Die, Release, Reaped
    <3>2. \A u \in Pid : Live(u) => tgid[u] # t
      BY <1>11, <2>2 DEF GroupInv, Leader, Live
    <3>. QED  BY <1>11, <3>1, <3>2 DEF GroupInv, Leader, Live
  <2>. QED  BY <2>1, <2>2
<1>12. ASSUME NEW t \in Pid, ExitWhitelist(t) PROVE GroupInv'
  <2>1. CASE Die(t) /\ UNCHANGED frame
    BY <1>11, <1>12, <2>1 DEF ExitWhitelist, Ready, InExec
  <2>2. CASE GotoPc(t, "exit_tree") /\ UNCHANGED kernel
    BY <1>5, <2>2 DEF kernel
  <2>. QED  BY <1>12, <2>1, <2>2 DEF ExitWhitelist
<1>13. ASSUME NEW t \in Pid, ExitTree(t) PROVE GroupInv'
  <2>1. Goto(t, Idle) /\ Die(t) /\ status[t] = "run"
    BY <1>0, <1>13 DEF ExitTree, At
  <2>2. \A u \in Pid : InExec(u)' => InExec(u)
    BY <2>1, IdleType, NewFrame DEF InExec
  <2>. QED  BY <1>11, <2>1, <2>2
<1>14. ASSUME NEW t \in Pid, Reap(t) PROVE GroupInv'
  <2>1. /\ tgid' = [tgid EXCEPT ![t] = t] /\ UNCHANGED frame
        /\ status' = [status EXCEPT ![t] = Reaped] /\ Reaped \notin {"new", "run"}
        /\ \A u \in Pid \ {t} : Live(u) => tgid[u] # t
    BY <1>14 DEF Reap, Release, Reaped
  <2>. QED  BY <2>1 DEF GroupInv, Leader, Live, InExec
<1>15. CASE UNCHANGED treeVars
  BY <1>15 DEF treeVars, GroupInv, Leader, Live, InExec
<1>. QED
  BY <1>1, <1>2, <1>3, <1>4, <1>7, <1>8, <1>9, <1>10, <1>12, <1>13, <1>14, <1>15
  DEF Next, TaskStep, HandlerStep

\* A record is about a task that is not reaped while the record is packed.
LEMMA SubjectThere ==
  ASSUME ListInv, GroupInv, NEW t \in Pid, status[t] = "run"
  PROVE  Subject(t) \in Pid /\ status[Subject(t)] # "free"
<1>1. frame[t].child # NoPid => frame[t].child \in Pid /\ status[frame[t].child] = "new"
  BY DEF ListInv, EntryInv, Steady
<1>2. tgid[t] \in Pid /\ status[tgid[t]] # "free"
  BY DEF GroupInv, Live, ListInv, TypeInv, TypeOK
<1>. QED  BY <1>1, <1>2 DEF Subject

\* A task of another handler keeps its process.
LEMMA TgidLasts ==
  ASSUME ListInv, [Next]_treeVars, NEW u \in Pid, frame[u].pc # "idle",
         frame'[u].pc # "idle"
  PROVE  tgid'[u] = tgid[u]
<1>. USE DEF ListInv, TypeInv, TypeOK
<1>0. status[u] = "run"
  BY DEF EntryInv, Steady
<1>1. CASE UNCHANGED tgid
  BY <1>1
<1>2. ASSUME NEW t \in Pid, NEW c \in Pid, NEW thread \in BOOLEAN, ForkStart(t, c, thread)
      PROVE  tgid'[u] = tgid[u]
  BY <1>0, <1>2 DEF ForkStart
<1>3. ASSUME NEW t \in Pid, ExitWhitelist(t) PROVE tgid'[u] = tgid[u]
  <2>1. u # t
    BY <1>3 DEF ExitWhitelist, Ready
  <2>. QED  BY <1>3, <2>1 DEF ExitWhitelist, Die, Release, kernel
<1>4. ASSUME NEW t \in Pid, ExitTree(t) PROVE tgid'[u] = tgid[u]
  <2>1. u # t
    BY <1>4, IdleType, NewFrame DEF ExitTree
  <2>. QED  BY <1>4, <2>1 DEF ExitTree, Die, Release
<1>5. ASSUME NEW t \in Pid, Reap(t) PROVE tgid'[u] = tgid[u]
  BY <1>0, <1>5 DEF Reap, Release
<1>6. \/ UNCHANGED tgid
      \/ \E t \in Pid : \/ \E c \in Pid, thread \in BOOLEAN : ForkStart(t, c, thread)
                        \/ ExitWhitelist(t) \/ ExitTree(t) \/ Reap(t)
  BY DEF Next, TaskStep, HandlerStep, treeVars, kernel, PackParent, ChainStep, Capture,
     ForkLookup, ForkWhitelist, ForkTree, ExecStart, ExecLookup, ExecKnown, ExecPut,
     ExecMatch, ExecWhitelist, ExecTree
<1>. QED  BY <1>1, <1>2, <1>3, <1>4, <1>5, <1>6

\* The kernel sets the creator of a task only when it hands the id out.
LEMMA ParentLasts ==
  ASSUME TypeInv, [Next]_treeVars, NEW p \in Pid, status[p] # "free"
  PROVE  parent'[p] = parent[p]
<1>1. ASSUME NEW t \in Pid, NEW c \in Pid, NEW thread \in BOOLEAN,
             ForkStart(t, c, thread)
      PROVE  parent'[p] = parent[p]
  BY <1>1 DEF ForkStart, TypeInv, TypeOK
<1>2. \/ UNCHANGED parent
      \/ \E t, c \in Pid, thread \in BOOLEAN : ForkStart(t, c, thread)
  BY DEF Next, TaskStep, HandlerStep, treeVars, kernel, PackParent, ChainStep, Capture,
     ForkLookup, ForkWhitelist, ForkTree, ExecStart, ExecLookup, ExecKnown, ExecPut,
     ExecMatch, ExecWhitelist, ExecTree, ExitWhitelist, ExitTree, Die, Release, Reap
<1>. QED  BY <1>1, <1>2

\* A node that is the own one of its task, or none, stays so until the id is used again.
LEMMA OwnLasts ==
  ASSUME ListInv, [Next]_treeVars, NEW p \in Pid, status[p] # "free", OwnOrNone(p)
  PROVE  OwnOrNone(p)'
<1>. USE DEF ListInv, TypeInv, TypeOK
<1>1. parent'[p] = parent[p]
  BY ParentLasts
<1>2. CASE agent_tree'[p] = agent_tree[p]
  BY <1>1, <1>2 DEF OwnOrNone, OwnParent, Has, Lookup
<1>3. ASSUME NEW t \in Pid, ForkTree(t), agent_tree'[p] # agent_tree[p]
      PROVE  OwnOrNone(p)'
  <2>1. /\ frame[t].child \in Pid /\ parent[frame[t].child] = t
        /\ agent_tree' = Put(agent_tree, TreeCap, frame[t].child, ChildNode(t))
    BY <1>3, PidAssumption DEF ForkTree, At, FramesOK, EntryInv, Steady
  <2>2. p = frame[t].child /\ agent_tree'[p] = ChildNode(t)
    BY <1>3, <2>1 DEF Put
  <2>. QED  BY <1>1, <2>1, <2>2 DEF OwnOrNone, OwnParent, ChildNode
<1>4. ASSUME NEW t \in Pid, ExecKnown(t), agent_tree'[p] # agent_tree[p]
      PROVE  OwnOrNone(p)'
  <2>. DEFINE n == [agent_tree[t] EXCEPT !.comm = comm[t]]
  <2>1. Has(agent_tree, t) /\ agent_tree' = [agent_tree EXCEPT ![t] = n]
    BY <1>4 DEF ExecKnown, Has
  <2>2. p = t /\ agent_tree'[p] = n
    BY <1>4, <2>1
  <2>3. agent_tree[p] \in Node
    BY <2>1, <2>2 DEF Has, Lookup
  <2>4. n.parent = agent_tree[p].parent
    BY <2>2, <2>3 DEF Node
  <2>. QED  BY <1>1, <2>1, <2>2, <2>4 DEF OwnOrNone, OwnParent
<1>5. ASSUME NEW t \in Pid, ExecPut(t), agent_tree'[p] # agent_tree[p]
      PROVE  OwnOrNone(p)'
  <2>1. /\ OwnParent(t, frame[t].node)
        /\ agent_tree' = Put(agent_tree, TreeCap, t, frame[t].node)
    BY <1>5 DEF ExecPut, At, NodeInv, NodeFrame
  <2>2. p = t /\ agent_tree'[p] = frame[t].node
    BY <1>5, <2>1 DEF Put
  <2>. QED  BY <1>1, <2>1, <2>2 DEF OwnOrNone, OwnParent
<1>6. ASSUME NEW t \in Pid, ExecTree(t), agent_tree'[p] # agent_tree[p]
      PROVE  OwnOrNone(p)'
  <2>. DEFINE n == [parent |-> NoPid, comm |-> comm[t]]
  <2>1. agent_tree' = Put(agent_tree, TreeCap, t, n)
    BY <1>6 DEF ExecTree
  <2>2. agent_tree'[p] = n
    BY <1>6, <2>1 DEF Put
  <2>. QED  BY <2>2 DEF OwnOrNone, OwnParent
<1>7. ASSUME NEW t \in Pid, ExitTree(t), agent_tree'[p] # agent_tree[p]
      PROVE  OwnOrNone(p)'
  BY <1>7 DEF ExitTree, Del, OwnOrNone, Has, Lookup
<1>8. \/ UNCHANGED agent_tree
      \/ \E t \in Pid : ForkTree(t) \/ ExecKnown(t) \/ ExecPut(t) \/ ExecTree(t) \/ ExitTree(t)
  BY DEF Next, TaskStep, HandlerStep, treeVars, maps, PackParent, ChainStep, Capture,
     ForkStart, ForkLookup, ForkWhitelist, ExecStart, ExecLookup, ExecMatch, ExecWhitelist,
     ExitWhitelist, Reap
<1>. QED  BY <1>1, <1>2, <1>3, <1>4, <1>5, <1>6, <1>7, <1>8

\* The step of another task does not disturb a record that is being packed.
LEMMA OtherRecords ==
  ASSUME PackInv, [Next]_treeVars, NEW u \in Pid, frame'[u] = frame[u]
  PROVE  FirstFrame(u)'
<1>1. CASE frame[u].pc \notin {"first", "walk"}
  BY <1>1 DEF FirstFrame
<1>2. CASE frame[u].pc \in {"first", "walk"}
  <2>1. status[u] = "run" /\ tgid'[u] = tgid[u]
    BY <1>2, TgidLasts DEF PackInv, ListInv, EntryInv, Steady
  <2>2. /\ Subject(u) \in Pid /\ status[Subject(u)] # "free"
        /\ Subject(u)' = Subject(u)
    BY <2>1, SubjectThere DEF PackInv, Subject
  <2>3. parent'[Subject(u)] = parent[Subject(u)]
    BY <2>2, ParentLasts DEF PackInv, ListInv
  <2>4. OwnOrNone(Subject(u)) => OwnOrNone(Subject(u))'
    BY <2>2, OwnLasts DEF PackInv
  <2>. QED  BY <2>2, <2>3, <2>4 DEF PackInv, FirstInv, FirstFrame
<1>. QED  BY <1>1, <1>2

\* A handler that starts to pack: the id is the subject, and its node its own or absent.
LEMMA PackSelfFirst ==
  ASSUME PackInv, NEW t \in Pid, NEW p \in Pid, NEW e, PackSelf(t, p, e),
         Subject(t) = p, UNCHANGED tgid, OwnOrNone(p)'
  PROVE  /\ FirstFrame(t)' /\ \A u \in Pid \ {t} : frame'[u] = frame[u]
         /\ newest' # newest => Len(newest'.chain) = 1
<1>. USE DEF PackInv, ListInv, TypeInv, TypeOK
<1>1. CASE p = e.root
  <2>1. Goto(t, Idle) /\ newest' = [entry |-> e, chain |-> <<p>>]
    BY <1>1 DEF PackSelf, Emit, Return
  <2>. QED  BY <2>1, IdleType, NewFrame DEF FirstFrame
<1>2. CASE p # e.root
  <2>. DEFINE f == [frame[t] EXCEPT !.pc = "first", !.entry = e,
                                    !.chain = <<p>>, !.cur = p]
  <2>1. Goto(t, f) /\ UNCHANGED newest
    BY <1>2 DEF PackSelf
  <2>2. f.pc = "first" /\ f.chain = <<p>> /\ f.cur = p /\ f.child = frame[t].child
    BY DEF Frame
  <2>. HIDE DEF f
  <2>3. frame'[t] = f /\ \A u \in Pid \ {t} : frame'[u] = frame[u]
    BY <2>1, NewFrame
  <2>. QED  BY <2>1, <2>2, <2>3 DEF FirstFrame, Subject
<1>. QED  BY <1>1, <1>2

\* What the second id of a longer chain is.
LEMMA SecondOne ==
  ASSUME NEW chain \in Seq(Pid), NEW p \in Pid, Len(chain) >= 1
  PROVE  /\ Len(Append(chain, p)) > 1 /\ Append(chain, p)[1] = chain[1]
         /\ Append(chain, p)[2] = IF Len(chain) = 1 THEN p ELSE chain[2]
<1>. DEFINE n == Len(chain)
<1>1. n \in Nat /\ Len(Append(chain, p)) = n + 1
  OBVIOUS
<1>2. Append(chain, p)[n + 1] = p /\ \A i \in 1 .. n : Append(chain, p)[i] = chain[i]
  OBVIOUS
<1>. HIDE DEF n
<1>3. 1 \in 1 .. n /\ (n = 1 \/ 2 \in 1 .. n)
  BY <1>1 DEF n
<1>4. CASE n = 1
  BY <1>1, <1>2, <1>3, <1>4 DEF n
<1>5. CASE n # 1
  BY <1>1, <1>2, <1>3, <1>5 DEF n
<1>. QED  BY <1>4, <1>5

\* One step of the packing: the first link that is taken leads to the creator.
LEMMA PackFirst ==
  ASSUME PackInv, NEW t \in Pid, PackParent(t) \/ ChainStep(t)
  PROVE  /\ FirstFrame(t)' /\ \A u \in Pid \ {t} : frame'[u] = frame[u]
         /\ newest' # newest /\ Len(newest'.chain) > 1
              => newest'.chain[2] = parent[newest'.chain[1]]
<1>. USE DEF PackInv, ListInv, TypeInv, TypeOK
<1>. DEFINE f      == frame[t]
            s      == Subject(t)
            node   == Lookup(agent_tree, f.cur)
            longer == Append(f.chain, f.cur)
            g1     == [f EXCEPT !.pc = "walk", !.cur = node.parent]
            g2     == [f EXCEPT !.chain = longer, !.cur = node.parent]
<1>1. UNCHANGED <<tgid, parent>> /\ FirstFrame(t) /\ f.chain \in Seq(Pid)
  BY DEF PackParent, ChainStep, FirstInv, Frame
<1>2. /\ g1.pc = "walk" /\ g1.child = f.child /\ g1.chain = f.chain /\ g1.cur = node.parent
      /\ g2.pc = f.pc /\ g2.child = f.child /\ g2.chain = longer
  BY DEF Frame
<1>. HIDE DEF g1, g2
<1>3. ASSUME NEW e, NEW chain, Emit(t, e, chain),
             Len(chain) > 1 => chain[2] = parent[chain[1]]
      PROVE  /\ FirstFrame(t)' /\ \A u \in Pid \ {t} : frame'[u] = frame[u]
             /\ newest' # newest /\ Len(newest'.chain) > 1
                  => newest'.chain[2] = parent[newest'.chain[1]]
  BY <1>3, IdleType, NewFrame DEF Emit, Return, FirstFrame
<1>4. CASE PackParent(t)
  <2>1. f.chain = <<s>> /\ f.cur = s /\ OwnOrNone(s)
    BY <1>1, <1>4 DEF PackParent, At, FirstFrame
  <2>2. CASE node = Absent
    BY <1>3, <1>4, <2>1, <2>2 DEF PackParent
  <2>3. CASE node # Absent
    <3>1. Goto(t, g1) /\ UNCHANGED newest
      BY <1>4, <2>3 DEF PackParent, g1
    <3>2. node.parent \in {NoPid, parent[s]}
      BY <2>1, <2>3 DEF OwnOrNone, OwnParent, Has, Lookup
    <3>3. frame'[t] = g1 /\ \A u \in Pid \ {t} : frame'[u] = frame[u]
      BY <3>1, NewFrame
    <3>4. Subject(t)' = s
      BY <1>1, <1>2, <3>3 DEF Subject
    <3>5. /\ frame'[t].pc = "walk" /\ frame'[t].chain = <<s>>
          /\ frame'[t].cur \in {NoPid, parent'[s]}
      BY <1>1, <1>2, <2>1, <3>2, <3>3
    <3>. HIDE DEF s
    <3>6. FirstFrame(t)'
      BY <3>4, <3>5 DEF FirstFrame
    <3>. QED  BY <3>1, <3>3, <3>6
  <2>. QED  BY <2>2, <2>3
<1>5. CASE ChainStep(t)
  <2>1. /\ f.pc = "walk" /\ Len(f.chain) >= 1 /\ f.chain[1] = s
        /\ Len(f.chain) = 1 => f.cur \in {NoPid, parent[s]}
        /\ Len(f.chain) > 1 => f.chain[2] = parent[s]
    BY <1>1, <1>5 DEF ChainStep, At, FirstFrame
  <2>2. CASE node = Absent
    BY <1>3, <1>5, <2>1, <2>2 DEF ChainStep
  <2>3. CASE node # Absent
    <3>1. f.cur \in Pid
      BY <2>3 DEF Lookup
    <3>2. Len(longer) > 1 /\ longer[1] = s /\ longer[2] = parent[s]
      <4>1. Len(f.chain) = 1 => f.cur = parent[s]
        BY <2>1, <3>1, PidAssumption
      <4>2. /\ Len(longer) > 1 /\ longer[1] = f.chain[1]
            /\ longer[2] = IF Len(f.chain) = 1 THEN f.cur ELSE f.chain[2]
        BY <1>1, <2>1, <3>1, SecondOne
      <4>3. Len(f.chain) \in Nat
        BY <1>1
      <4>4. CASE Len(f.chain) = 1
        BY <2>1, <4>1, <4>2, <4>4
      <4>5. CASE Len(f.chain) > 1
        BY <2>1, <4>2, <4>5
      <4>6. Len(f.chain) = 1 \/ Len(f.chain) > 1
        <5>1. \A n \in Nat : n >= 1 => n = 1 \/ n > 1
          OBVIOUS
        <5>. HIDE DEF f
        <5>. QED  BY <2>1, <4>3, <5>1
      <4>. QED  BY <4>4, <4>5, <4>6
    <3>. HIDE DEF longer
    <3>3. CASE ChainDone(f, longer)
      <4>1. Emit(t, f.entry, longer)
        BY <1>5, <2>3, <3>3 DEF ChainStep, longer
      <4>. QED  BY <1>3, <3>2, <4>1
    <3>4. CASE ~ChainDone(f, longer)
      <4>1. Goto(t, g2) /\ UNCHANGED newest
        BY <1>5, <2>3, <3>4 DEF ChainStep, g2, longer
      <4>2. frame'[t] = g2 /\ \A u \in Pid \ {t} : frame'[u] = frame[u]
        BY <4>1, NewFrame
      <4>3. Subject(t)' = s
        BY <1>1, <1>2, <4>2 DEF Subject
      <4>. QED  BY <1>1, <1>2, <2>1, <3>2, <4>1, <4>2, <4>3 DEF FirstFrame
    <3>. QED  BY <3>3, <3>4
  <2>. QED  BY <2>2, <2>3
<1>. QED  BY <1>4, <1>5

\* Every step keeps the first link of the records that are being packed true, and so
\* is that of the record it puts into the map of events.
LEMMA FirstStep ==
  ASSUME PackInv, [Next]_treeVars
  PROVE  /\ FirstInv'
         /\ newest' # newest /\ Len(newest'.chain) > 1
              => newest'.chain[2] = parent[newest'.chain[1]]
<1>. USE DEF PackInv, ListInv, TypeInv, TypeOK
<1>. DEFINE Link == newest' # newest /\ Len(newest'.chain) > 1
                      => newest'.chain[2] = parent[newest'.chain[1]]
<1>1. ASSUME NEW t \in Pid, FirstFrame(t)', \A u \in Pid \ {t} : frame'[u] = frame[u]
      PROVE  FirstInv'
  BY <1>1, OtherRecords DEF FirstInv
<1>2. ASSUME NEW t \in Pid, PackParent(t) \/ ChainStep(t) PROVE FirstInv' /\ Link
  BY <1>1, <1>2, PackFirst
<1>3. ASSUME NEW t \in Pid, Capture(t) PROVE FirstInv' /\ Link
  <2>1. PICK p \in Pid : p = tgid[t]
    OBVIOUS
  <2>2. /\ status[t] = "run" /\ frame[t].pc = "idle" /\ frame[t].child = NoPid
        /\ Has(pid_whitelist, p) /\ UNCHANGED <<tgid, parent, agent_tree>>
        /\ PackSelf(t, p, pid_whitelist[p])
    BY <1>3, <2>1 DEF Capture, Ready, maps, EntryInv, Steady
  <2>3. Live(p)
    BY <2>2 DEF EntryInv, Bare, Has, Lookup
  <2>4. status[p] = "run" /\ ~At(p, "exec_tree")
    <3>1. CASE p = t
      BY <2>2, <3>1 DEF At
    <3>2. CASE p # t
      BY <2>1, <2>2, <2>3, <3>2 DEF GroupInv, Leader, Live, InExec, At
    <3>. QED  BY <3>1, <3>2
  <2>5. OwnOrNone(p)
    BY <2>2, <2>4 DEF NodeInv, OwnNode, OwnOrNone
  <2>6. OwnOrNone(p)' /\ Subject(t) = p
    BY <2>1, <2>2, <2>5 DEF OwnOrNone, OwnParent, Subject, Has, Lookup
  <2>7. /\ FirstFrame(t)' /\ \A u \in Pid \ {t} : frame'[u] = frame[u]
        /\ newest' # newest => Len(newest'.chain) = 1
    BY <2>2, <2>6, PackSelfFirst
  <2>. QED  BY <1>1, <2>7
<1>4. ASSUME NEW t \in Pid, ForkTree(t) PROVE FirstInv' /\ Link
  <2>1. PICK c \in Pid : c = frame[t].child
    BY <1>4 DEF ForkTree, At, FramesOK
  <2>2. /\ UNCHANGED <<tgid, parent>> /\ PackSelf(t, c, frame[t].entry)
        /\ agent_tree' = Put(agent_tree, TreeCap, c, ChildNode(t))
    BY <1>4, <2>1 DEF ForkTree
  <2>3. Subject(t) = c /\ parent[c] = t
    BY <2>1, PidAssumption DEF Subject, EntryInv, Steady
  <2>4. agent_tree'[c] = ChildNode(t) \/ ~Has(agent_tree', c)
    BY <2>2 DEF Put, Accepts, Has, Lookup
  <2>5. OwnOrNone(c)'
    BY <2>2, <2>3, <2>4 DEF OwnOrNone, OwnParent, ChildNode, Has, Lookup
  <2>6. /\ FirstFrame(t)' /\ \A u \in Pid \ {t} : frame'[u] = frame[u]
        /\ newest' # newest => Len(newest'.chain) = 1
    BY <2>2, <2>3, <2>5, PackSelfFirst
  <2>. QED  BY <1>1, <2>6
\* The other hooks end, or go on with a map operation that packs nothing.
<1>5. ASSUME NEW t \in Pid, NEW f, Goto(t, f), f.pc \notin {"first", "walk"},
             UNCHANGED newest
      PROVE  FirstInv' /\ Link
  <2>1. frame'[t] = f /\ \A u \in Pid \ {t} : frame'[u] = frame[u]
    BY <1>5, NewFrame
  <2>2. FirstFrame(t)'
    BY <1>5, <2>1 DEF FirstFrame
  <2>. QED  BY <1>1, <1>5, <2>1, <2>2
<1>6. ASSUME NEW t \in Pid, Goto(t, Idle), UNCHANGED newest PROVE FirstInv' /\ Link
  BY <1>5, <1>6, IdleType
<1>7. ASSUME NEW t \in Pid, NEW pc \in PCs \ {"first", "walk"}, GotoPc(t, pc),
             UNCHANGED newest
      PROVE  FirstInv' /\ Link
  BY <1>5, <1>7 DEF GotoPc, Frame
<1>8. ASSUME NEW t \in Pid, NEW c \in Pid, NEW thread \in BOOLEAN, ForkStart(t, c, thread)
      PROVE  FirstInv' /\ Link
  <2>. DEFINE g == [Idle EXCEPT !.pc = "fork", !.child = c]
  <2>1. Goto(t, g) /\ g.pc = "fork" /\ UNCHANGED newest
    BY <1>8 DEF ForkStart, Idle
  <2>. HIDE DEF g
  <2>. QED  BY <1>5, <2>1
<1>9. ASSUME NEW t \in Pid, ForkLookup(t) PROVE FirstInv' /\ Link
  <2>. DEFINE g == [frame[t] EXCEPT !.pc = "fork_wl",
                      !.entry = ChildEntry(t, Lookup(pid_whitelist, t))]
  <2>1. UNCHANGED newest /\ (Goto(t, Idle) \/ Goto(t, g))
    BY <1>9 DEF ForkLookup, Return
  <2>2. g.pc = "fork_wl"
    BY DEF Frame
  <2>. HIDE DEF g
  <2>. QED  BY <1>5, <1>6, <2>1, <2>2
<1>10. ASSUME NEW t \in Pid, ExecKnown(t) PROVE FirstInv' /\ Link
  <2>. DEFINE g == [frame[t] EXCEPT !.pc = "exec_put", !.node = agent_tree'[t]]
  <2>1. UNCHANGED newest /\ (Goto(t, Idle) \/ Goto(t, g))
    BY <1>10 DEF ExecKnown
  <2>2. g.pc = "exec_put"
    BY DEF Frame
  <2>. HIDE DEF g
  <2>. QED  BY <1>5, <1>6, <2>1, <2>2
<1>11. ASSUME NEW t \in Pid,
              \/ ForkWhitelist(t) \/ ExecLookup(t) \/ ExecPut(t) \/ ExecMatch(t)
              \/ ExecWhitelist(t) \/ ExecTree(t) \/ ExitTree(t)
              \/ \E c \in Comm : ExecStart(t, c)
       PROVE  FirstInv' /\ Link
  <2>1. UNCHANGED newest
    BY <1>11 DEF ForkWhitelist, ExecLookup, ExecPut, ExecMatch, ExecWhitelist, ExecTree,
       ExitTree, ExecStart
  <2>2. Goto(t, Idle) \/ \E pc \in PCs \ {"first", "walk"} : GotoPc(t, pc)
    BY <1>11 DEF ForkWhitelist, ExecLookup, ExecPut, ExecMatch, ExecWhitelist, ExecTree,
       ExitTree, ExecStart, PCs
  <2>. QED  BY <1>6, <1>7, <2>1, <2>2
<1>12. ASSUME NEW t \in Pid, ExitWhitelist(t) \/ Reap(t) PROVE FirstInv' /\ Link
  <2>1. UNCHANGED newest /\ (UNCHANGED frame \/ GotoPc(t, "exit_tree"))
    BY <1>12 DEF ExitWhitelist, Reap
  <2>2. CASE UNCHANGED frame
    BY <2>1, <2>2, OtherRecords DEF FirstInv
  <2>. QED  BY <1>7, <2>1, <2>2 DEF PCs
<1>13. CASE UNCHANGED treeVars
  BY <1>13, OtherRecords DEF treeVars, FirstInv
<1>14. ASSUME NEW t \in Pid, TaskStep(t) \/ HandlerStep(t) PROVE FirstInv' /\ Link
  BY <1>2, <1>3, <1>4, <1>8, <1>9, <1>10, <1>11, <1>12, <1>14 DEF TaskStep, HandlerStep
<1>. QED  BY <1>13, <1>14 DEF Next

\* The parent that a record names created the process of the record, also when the maps
\* are full, ids come back while the record is packed and threads make the call.
THEOREM FirstLinkAlways == Spec => FirstLinkTrue
<1>1. Init => PackInv
  <2>1. TreeInit => NodeInv /\ GroupInv /\ FirstInv
    BY DEF TreeInit, NodeInv, NodeFrame, OwnNode, GroupInv, InExec, FirstInv, FirstFrame,
       Idle, Has, Lookup
  <2>. QED  BY <2>1, TypeInit, EntryInit, CommAssumption DEF Init, ListInv, PackInv
<1>2. PackInv /\ [Next]_treeVars => PackInv'
  BY TypeStep, EntryStep, NodeStep, GroupStep, FirstStep DEF ListInv, PackInv
<1>3. PackInv /\ [Next]_treeVars
        => [newest' # newest /\ Len(newest'.chain) > 1
              => newest'.chain[2] = parent[newest'.chain[1]]]_treeVars
  BY FirstStep
<1>. QED  BY <1>1, <1>2, <1>3, PTL DEF Spec, FirstLinkTrue
===========================================================================
