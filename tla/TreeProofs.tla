----------------------------- MODULE TreeProofs -----------------------------
(***************************************************************************)
(* How pid_whitelist and agent_tree go together, and where chains end:     *)
(* theorems about ProcessTree for any number of tasks, threads, names and  *)
(* CPUs, as long as the maps have room for every task and no id is handed  *)
(* out again.                                                              *)
(***************************************************************************)
EXTENDS ProcessTreeProofs, FiniteSetTheorems

Room ==
  /\ IsFiniteSet(Pid)
  /\ Cardinality(Pid) <= WlCap
  /\ Cardinality(Pid) <= TreeCap

\* No update fails then.
LEMMA Fits ==
  ASSUME IsFiniteSet(Pid), NEW cap \in Nat, Cardinality(Pid) <= cap,
         NEW m, DOMAIN m = Pid, NEW k \in Pid
  PROVE  Accepts(m, cap, k)
<1>. SUFFICES ASSUME ~Has(m, k) PROVE Cardinality(Keys(m)) < cap
  BY DEF Accepts
<1>1. Keys(m) \in SUBSET Pid /\ k \notin Keys(m)
  BY DEF Keys
<1>2. /\ IsFiniteSet(Keys(m)) /\ Cardinality(Keys(m)) <= Cardinality(Pid)
      /\ Cardinality(Pid) # Cardinality(Keys(m))
  BY <1>1, FS_Subset
<1>3. Cardinality(Pid) \in Nat /\ Cardinality(Keys(m)) \in Nat
  BY <1>2, FS_CardinalityType
<1>. QED  BY <1>2, <1>3

LEMMA PutFits ==
  ASSUME Room, NEW p \in Pid, NEW v, TypeInv
  PROVE  /\ Put(pid_whitelist, WlCap, p, v) = [pid_whitelist EXCEPT ![p] = v]
         /\ Put(agent_tree, TreeCap, p, v) = [agent_tree EXCEPT ![p] = v]
BY Fits, SizeAssumption DEF Room, Put, TypeInv, TypeOK

LEMMA SmallMod ==
  ASSUME NEW x \in 0 .. DepthMod
  PROVE  x % DepthMod = IF x < DepthMod THEN x ELSE 0
<1>. USE SizeAssumption
<1>1. CASE x < DepthMod
  BY <1>1
<1>2. CASE x = DepthMod
  BY <1>2
<1>. QED  BY <1>1, <1>2
---------------------------------------------------------------------------
\* The argument.  g is the entry a task has or had; it is given once.  The entries of a
\* task and its creator go together for ever, and so do their nodes as long as both live:
\* a hook that climbs from a node finds the creator's, or the creator is dead.

Below(e, f) == e.root = f.root /\ e.depth = (f.depth + 1) % DepthMod

Known(p)     == status[p] \notin {"free", "new"}
Reachable(p) == Has(agent_tree, p) \/ ~Live(p)

Given(p, g) ==
  LET e == g[p]
      q == parent[p]
  IN  /\ e # Absent =>
           /\ status[p] # "free" /\ Known(e.root)
           /\ IF e.root = p THEN e.depth = 0
              ELSE q \in Pid /\ Known(q) /\ g[q] # Absent /\ Below(e, g[q])
      /\ Has(pid_whitelist, p) => pid_whitelist[p] = e
      /\ Live(p) /\ ~At(p, "exit_tree") /\ ~Has(pid_whitelist, p) => e = Absent

Noded(p, g) ==
  /\ Has(agent_tree, p) =>
       /\ Has(pid_whitelist, p) \/ At(p, "exit_tree")
       /\ g[p] # Absent
       /\ IF g[p].root = p THEN agent_tree[p].parent = NoPid
          ELSE agent_tree[p].parent = parent[p] /\ Reachable(parent[p])
       /\ frame[p].pc \notin {"exec", "exec_known"} => agent_tree[p].comm = comm[p]
  /\ status[p] = "run" /\ Has(pid_whitelist, p) /\ ~At(p, "exec_tree") => Has(agent_tree, p)

Grouped(p) ==
  /\ tgid[p] = p \/ (Threads /\ Known(tgid[p]))
  /\ parent[p] # NoPid => status[p] # "free" /\ Known(parent[p])

\* A process is at depth d + n, in 8 bits.
Sum(d, n) == IF d + n < DepthMod THEN d + n ELSE d + n - DepthMod

\* The chain so far is one of tasks below the root, and the next one is the creator of
\* the last, with the depth that is left.
Climbing(f, g) ==
  LET last == Last(f.chain)
  IN  /\ f.entry \in Entry
      /\ Len(f.chain) \in 1 .. MaxChain - 1
      /\ last \in Pid /\ status[last] # "free" /\ last # f.entry.root
      /\ f.cur = parent[last] /\ f.cur \in Pid /\ Known(f.cur) /\ Reachable(f.cur)
      /\ g[f.cur] # Absent /\ g[f.cur].root = f.entry.root
      /\ f.entry.depth = Sum(g[f.cur].depth, Len(f.chain))

\* Who the record is about: a new task, or the process of the calling one.
Reporter(t) == IF frame[t].child = NoPid THEN tgid[t] ELSE frame[t].child

Framed(t, g) ==
  LET f == frame[t]
      c == f.child
  IN  /\ f.pc \in {"fork", "fork_wl", "fork_tree"} => comm[c] = comm[t]
      /\ f.pc \in {"fork_wl", "fork_tree"} =>
           Has(pid_whitelist, t) /\ f.entry = ChildEntry(t, pid_whitelist[t])
      /\ f.pc = "fork_tree" => pid_whitelist[c] = f.entry
      /\ f.pc \in {"first", "walk"} /\ c # NoPid =>
           Has(pid_whitelist, t) /\ Has(pid_whitelist, c) /\ Has(agent_tree, c)
      /\ f.pc \in {"first", "walk"} =>
           f.chain[1] = Reporter(t) /\ f.entry \in Entry /\ g[Reporter(t)] = f.entry
      /\ f.pc \in {"exec_known", "exec_put"} => Has(pid_whitelist, t)
      /\ f.pc = "exec_put" => Has(agent_tree, t) /\ f.node = agent_tree[t]
      /\ f.pc = "exec_tree" => pid_whitelist[t] = RootEntry(t)
      /\ f.pc = "first" =>
           /\ f.entry \in Entry /\ f.cur \in Pid /\ f.chain = <<f.cur>>
           /\ g[f.cur] = f.entry /\ f.cur # f.entry.root
           /\ status[f.cur] # "free" /\ Reachable(f.cur)
      /\ f.pc = "walk" => Climbing(f, g)

\* Where a chain has ended.
Ended(e, chain) ==
  LET last == Last(chain)
      q    == parent[last]
  IN  /\ Len(chain) \in Nat \ {0} /\ last \in Pid /\ status[last] # "free"
      /\ \/ last = e.root
         \/ Len(chain) = MaxChain
         \/ ~Live(last)
         \/ q \in Pid /\ status[q] # "free" /\ ~Live(q)
      /\ last = e.root => Len(chain) = e.depth + 1

EndInv == newest # NoEvent => Ended(newest.entry, newest.chain)

GivenMap == [Pid -> Entry \cup {Absent}]

TreeInv(g) ==
  /\ g \in GivenMap
  /\ \A p \in Pid : Given(p, g) /\ Noded(p, g) /\ Grouped(p) /\ Framed(p, g)
  /\ EndInv

AllInv(g) == TypeInv /\ EntryInv({}) /\ TreeInv(g)
---------------------------------------------------------------------------
(* What every step leaves as it was *)

\* A task goes its way, without return, and keeps its node until it is dead.
Goes(p) ==
  /\ \/ status'[p] = status[p]
     \/ status[p] = "free" /\ status'[p] = "new"
     \/ status[p] = "new" /\ status'[p] = "run"
     \/ status[p] \in {"run", "zombie"} /\ status'[p] \in {"zombie", "gone"}
  /\ parent'[p] = parent[p] \/ status[p] = "free"
  /\ Has(agent_tree, p) => Has(agent_tree', p) \/ ~Live(p)'

Extends(g, h) == \A p \in Pid : g[p] # Absent => h[p] = g[p]

Alike(p) ==
  /\ Same(p) /\ agent_tree'[p] = agent_tree[p]
  /\ comm'[p] = comm[p] /\ tgid'[p] = tgid[p]

LEMMA KnownStays ==
  ASSUME TypeInv, NEW p \in Pid, Goes(p)
  PROVE  /\ status[p] # "free" => status'[p] # "free" /\ parent'[p] = parent[p]
         /\ Known(p) => Known(p)'
         /\ status[p] \notin {"free", "new", "run"} => status'[p] \notin {"free", "new", "run"}
         /\ status[p] # "free" /\ Reachable(p) => Reachable(p)'
BY DEF TypeInv, TypeOK, Goes, Known, Live, Reachable

LEMMA GivenStays ==
  ASSUME TypeInv, TypeInv', NEW g \in GivenMap, NEW h \in GivenMap, Extends(g, h),
         \A p \in Pid : Goes(p),
         NEW p \in Pid, Given(p, g), h[p] = g[p], parent'[p] = parent[p],
         g[p] # Absent => status'[p] # "free",
         Has(pid_whitelist', p) => pid_whitelist'[p] = g[p],
         Live(p)' /\ ~At(p, "exit_tree")' /\ ~Has(pid_whitelist', p) => g[p] = Absent
  PROVE  Given(p, h)'
<1>. DEFINE e == g[p]
            q == parent[p]
<1>1. CASE e = Absent
  BY <1>1 DEF Given
<1>2. CASE e # Absent
  <2>1. e \in Entry /\ e.root \in Pid /\ Known(e.root)'
    BY <1>2, KnownStays DEF Given, GivenMap, Entry
  <2>2. e.root # p => q \in Pid /\ Known(q)' /\ h[q] = g[q] /\ g[q] # Absent /\ Below(e, g[q])
    BY <1>2, KnownStays DEF Given, Extends
  <2>3. e.root = p => e.depth = 0
    BY <1>2 DEF Given
  <2>. QED  BY <1>2, <2>1, <2>2, <2>3 DEF Given
<1>. QED  BY <1>1, <1>2

LEMMA GroupedStays ==
  ASSUME TypeInv, \A p \in Pid : Goes(p), NEW p \in Pid, Grouped(p),
         tgid'[p] \in {p, tgid[p]}, parent'[p] = parent[p]
  PROVE  Grouped(p)'
<1>1. tgid[p] \in Pid /\ parent[p] \in Pid \cup {NoPid}
  BY DEF TypeInv, TypeOK, PidOrNone
<1>2. \A q \in Pid : Known(q) => Known(q)'
  BY KnownStays
<1>3. status[p] # "free" => status'[p] # "free"
  BY KnownStays
<1>. QED  BY <1>1, <1>2, <1>3 DEF Grouped, Known

LEMMA NodedStays ==
  ASSUME TypeInv, TypeInv', NEW g \in GivenMap, NEW h \in GivenMap, Extends(g, h),
         \A p \in Pid : Goes(p),
         NEW p \in Pid, Noded(p, g), Given(p, g), Alike(p),
         frame'[p] = frame[p]
  PROVE  Noded(p, h)'
<1>1. CASE Has(agent_tree, p)
  <2>1. g[p] # Absent /\ h[p] = g[p] /\ status[p] # "free"
    BY <1>1 DEF Noded, Extends, Given
  <2>2. g[p].root # p => parent[p] \in Pid /\ status[parent[p]] # "free"
    BY <2>1 DEF Given, Known
  <2>3. g[p].root # p => Reachable(parent[p])'
    BY <1>1, <2>1, <2>2, KnownStays DEF Noded, Alike, Same
  <2>. QED  BY <1>1, <2>1, <2>3 DEF Noded, Alike, Same, At, Has, Lookup, TypeInv, TypeOK
<1>2. CASE ~Has(agent_tree, p)
  BY <1>2 DEF Noded, Alike, Same, At, Has, Lookup, TypeInv, TypeOK
<1>. QED  BY <1>1, <1>2

\* A chain that is being packed stays one.
LEMMA ClimbStays ==
  ASSUME TypeInv, TypeInv', NEW g \in GivenMap, NEW h \in GivenMap, Extends(g, h),
         \A p \in Pid : Goes(p), NEW f, Climbing(f, g)
  PROVE  Climbing(f, h)'
<1>. DEFINE last == Last(f.chain)
<1>1. last \in Pid /\ status'[last] # "free" /\ parent'[last] = parent[last]
  BY KnownStays DEF Climbing
<1>2. f.cur \in Pid /\ Known(f.cur)' /\ Reachable(f.cur)' /\ h[f.cur] = g[f.cur]
  BY KnownStays DEF Climbing, Known, Extends
<1>. QED  BY <1>1, <1>2 DEF Climbing

LEMMA FramedStays ==
  ASSUME TypeInv, TypeInv', EntryInv({}), NEW g \in GivenMap, NEW h \in GivenMap, Extends(g, h),
         \A p \in Pid : Goes(p),
         NEW u \in Pid, Framed(u, g), frame'[u] = frame[u],
         frame[u].pc # "idle" => Alike(u),
         frame[u].child # NoPid => Alike(frame[u].child)
  PROVE  Framed(u, h)'
<1>. DEFINE f == frame[u]
            c == f.child
<1>1. c # NoPid => c \in Pid
  BY DEF EntryInv, Steady
<1>2. f.pc \in {"fork", "fork_wl", "fork_tree"} => c # NoPid
  BY PidAssumption DEF TypeInv, FramesOK
<1>3. f.pc \in {"fork", "fork_wl", "fork_tree"} => comm'[c] = comm'[u]
  BY <1>2 DEF Framed, Alike
<1>4. f.pc \in {"fork_wl", "fork_tree"} =>
        Has(pid_whitelist, u)' /\ f.entry = ChildEntry(u, pid_whitelist[u])'
  BY DEF Framed, Alike, Same, Has, Lookup, ChildEntry, TypeInv, TypeOK
<1>5. f.pc = "fork_tree" => pid_whitelist'[c] = f.entry
  BY <1>2 DEF Framed, Alike, Same
<1>6. f.pc \in {"first", "walk"} /\ c # NoPid =>
        Has(pid_whitelist, u)' /\ Has(pid_whitelist, c)' /\ Has(agent_tree, c)'
  BY <1>1 DEF Framed, Alike, Same, Has, Lookup, TypeInv, TypeOK
<1>7. /\ f.pc \in {"exec_known", "exec_put"} => Has(pid_whitelist, u)'
      /\ f.pc = "exec_put" => Has(agent_tree, u)' /\ f.node = agent_tree'[u]
      /\ f.pc = "exec_tree" => pid_whitelist'[u] = RootEntry(u)
  BY DEF Framed, Alike, Same, Has, Lookup, TypeInv, TypeOK
<1>8. f.pc = "first" =>
        /\ f.entry \in Entry /\ f.cur \in Pid /\ f.chain = <<f.cur>>
        /\ h[f.cur] = f.entry /\ f.cur # f.entry.root
        /\ status'[f.cur] # "free" /\ Reachable(f.cur)'
  <2>. SUFFICES ASSUME f.pc = "first"
                PROVE  /\ f.entry \in Entry /\ f.cur \in Pid /\ f.chain = <<f.cur>>
                       /\ h[f.cur] = f.entry /\ f.cur # f.entry.root
                       /\ status'[f.cur] # "free" /\ Reachable(f.cur)'
    OBVIOUS
  <2>1. /\ f.entry \in Entry /\ f.cur \in Pid /\ f.chain = <<f.cur>>
        /\ g[f.cur] = f.entry /\ f.cur # f.entry.root
        /\ status[f.cur] # "free" /\ Reachable(f.cur)
    BY DEF Framed
  <2>2. h[f.cur] = g[f.cur]
    BY <2>1, AbsentAssumption DEF Extends
  <2>. QED  BY <2>1, <2>2, KnownStays
<1>9. f.pc = "walk" => Climbing(f, h)'
  BY ClimbStays DEF Framed
<1>10. f.pc \in {"first", "walk"} =>
         f.chain[1] = Reporter(u)' /\ f.entry \in Entry /\ h[Reporter(u)'] = f.entry
  <2>. SUFFICES ASSUME f.pc \in {"first", "walk"}
                PROVE  f.chain[1] = Reporter(u)' /\ f.entry \in Entry /\ h[Reporter(u)'] = f.entry
    OBVIOUS
  <2>1. f.chain[1] = Reporter(u) /\ f.entry \in Entry /\ g[Reporter(u)] = f.entry
    BY DEF Framed
  <2>2. Reporter(u) \in Pid /\ Reporter(u)' = Reporter(u)
    BY <1>1 DEF Reporter, Alike, TypeInv, TypeOK
  <2>3. h[Reporter(u)] = g[Reporter(u)]
    BY <2>1, <2>2, AbsentAssumption DEF Extends
  <2>. QED  BY <2>1, <2>2, <2>3
<1>. QED  BY <1>3, <1>4, <1>5, <1>6, <1>7, <1>8, <1>9, <1>10 DEF Framed

\* A chain that has ended has.
LEMMA EndedStays ==
  ASSUME TypeInv, \A p \in Pid : Goes(p), NEW e, NEW chain, Ended(e, chain)
  PROVE  Ended(e, chain)'
<1>. DEFINE last == Last(chain)
            q    == parent[last]
<1>1. /\ last \in Pid /\ status'[last] # "free" /\ parent'[last] = q
      /\ ~Live(last) => status'[last] \notin {"free", "new", "run"}
  BY KnownStays DEF Ended, Live
<1>2. q \in Pid /\ status[q] # "free" /\ ~Live(q)
        => status'[q] \notin {"free", "new", "run"}
  BY KnownStays DEF Live
<1>. QED  BY <1>1, <1>2 DEF Ended, Live

LEMMA EndStays ==
  ASSUME TypeInv, \A p \in Pid : Goes(p), EndInv, newest' = newest
  PROVE  EndInv'
<1>1. \A e, chain : Ended(e, chain) => Ended(e, chain)'
  BY EndedStays
<1>. QED  BY <1>1 DEF EndInv, Ended

\* The step of one task: what it has to show is about itself and a task it makes or wakes.
LEMMA OneTaskTree ==
  ASSUME NEW g, AllInv(g), TypeInv', NEW h \in GivenMap, Extends(g, h),
         \A p \in Pid : Goes(p),
         NEW t \in Pid, status[t] # "new",
         \A u \in Pid \ {t} : frame'[u] = frame[u],
         \A p \in Pid \ {t} :
           \/ Alike(p) /\ h[p] = g[p]
           \/ /\ status[p] = "free" \/ (status[p] = "new" /\ parent[p] = t)
              /\ Given(p, h)' /\ Noded(p, h)' /\ Grouped(p)',
         Given(t, h)', Noded(t, h)', Grouped(t)', Framed(t, h)', EndInv'
  PROVE  TreeInv(h)'
<1>. USE DEF AllInv, TreeInv
<1>1. ASSUME NEW p \in Pid \ {t}, Alike(p), h[p] = g[p]
      PROVE  Given(p, h)' /\ Noded(p, h)' /\ Grouped(p)'
  <2>1. Given(p, g) /\ Noded(p, g) /\ Grouped(p) /\ frame'[p] = frame[p]
    OBVIOUS
  <2>2. /\ parent'[p] = parent[p] /\ status'[p] = status[p]
        /\ pid_whitelist'[p] = pid_whitelist[p]
    BY <1>1 DEF Alike, Same
  <2>3. /\ Has(pid_whitelist', p) <=> Has(pid_whitelist, p)
        /\ Live(p)' <=> Live(p)
        /\ At(p, "exit_tree")' <=> At(p, "exit_tree")
    BY <2>1, <2>2 DEF Has, Lookup, Live, At, TypeInv, TypeOK
  <2>4. Given(p, h)'
    BY <1>1, <2>1, <2>2, <2>3, GivenStays DEF Given
  <2>5. Noded(p, h)'
    BY <1>1, <2>1, NodedStays
  <2>6. Grouped(p)'
    <3>1. tgid'[p] = tgid[p]
      BY <1>1 DEF Alike
    <3>. QED  BY <2>1, <2>2, <3>1, GroupedStays
  <2>. QED  BY <2>4, <2>5, <2>6
<1>2. ASSUME NEW u \in Pid \ {t} PROVE Framed(u, h)'
  <2>1. Framed(u, g) /\ frame'[u] = frame[u] /\ Steady(u, {})
    BY DEF EntryInv
  <2>2. frame[u].pc # "idle" => Alike(u)
    BY <2>1 DEF Steady
  <2>3. frame[u].child # NoPid => Alike(frame[u].child)
    BY <2>1 DEF Steady
  <2>. QED  BY <2>1, <2>2, <2>3, FramedStays
<1>. QED  BY <1>1, <1>2

\* A handler ends, and wakes the new task if it is that of a fork.
LEMMA ReturnTree ==
  ASSUME NEW g, AllInv(g), TypeInv', NEW t \in Pid, status[t] = "run", Return(t),
         UNCHANGED <<tgid, comm, parent, pid_whitelist, agent_tree>>,
         frame[t].pc \notin {"exec", "exec_known", "exec_tree", "exit_tree"},
         \A c \in Pid : c = frame[t].child /\ Has(pid_whitelist, c) => Has(agent_tree, c),
         (\A p \in Pid : Goes(p)) => EndInv'
  PROVE  TreeInv(g)'
<1>. USE DEF AllInv, TreeInv
<1>. DEFINE c == frame[t].child
<1>1. frame' = [frame EXCEPT ![t] = Idle]
  BY DEF Return, Goto
<1>2. /\ frame'[t] = Idle /\ \A u \in Pid \ {t} : frame'[u] = frame[u]
  BY <1>1 DEF TypeInv, TypeOK
<1>3. c # NoPid => c \in Pid /\ status[c] = "new" /\ parent[c] = t /\ frame[c].pc = "idle"
  BY DEF EntryInv, Steady
<1>4. /\ \A p \in Pid : p # c => status'[p] = status[p]
      /\ c # NoPid => status'[c] = "run"
  BY <1>3 DEF Return, TypeInv, TypeOK
<1>5. \A p \in Pid : Goes(p)
  BY <1>3, <1>4, PidAssumption DEF Goes
<1>6. \A p \in Pid : p # c => Alike(p)
  BY <1>4 DEF Alike, Same
<1>7. t # c /\ status'[t] = "run"
  BY <1>3, <1>4, PidAssumption
<1>8. Extends(g, g)
  BY DEF Extends
<1>9. ASSUME NEW p \in Pid, p = c
      PROVE  Given(p, g)' /\ Noded(p, g)' /\ Grouped(p)'
  <2>1. /\ Given(p, g) /\ Noded(p, g) /\ Grouped(p)
        /\ status[p] = "new" /\ status'[p] = "run" /\ frame[p].pc = "idle" /\ frame'[p] = frame[p]
    BY <1>2, <1>3, <1>4, <1>7, <1>9, PidAssumption
  <2>2. Given(p, g)'
    BY <1>5, <1>8, <2>1, GivenStays DEF Given, Live, At
  <2>3. Has(agent_tree, p) => g[p] # Absent /\ (g[p].root # p => Reachable(parent[p])')
    BY <1>5, <2>1, KnownStays DEF Noded, Given, Known
  <2>4. Noded(p, g)'
    BY <1>9, <2>1, <2>3 DEF Noded, At
  <2>5. Grouped(p)'
    BY <1>5, <2>1, GroupedStays
  <2>. QED  BY <2>2, <2>4, <2>5
<1>10. Given(t, g)' /\ Noded(t, g)' /\ Grouped(t)' /\ Framed(t, g)'
  <2>1. Given(t, g) /\ Noded(t, g) /\ Grouped(t) /\ status'[t] = status[t] /\ frame'[t].pc = "idle"
    BY <1>2, <1>4, <1>7, IdleType
  <2>2. Given(t, g)'
    BY <1>5, <1>8, <2>1, GivenStays DEF Given, Live, At
  <2>3. Has(agent_tree, t) => g[t] # Absent /\ (g[t].root # t => Reachable(parent[t])')
    BY <1>5, <2>1, KnownStays DEF Noded, Given, Known
  <2>4. Noded(t, g)'
    BY <2>1, <2>3 DEF Noded, At
  <2>5. Grouped(t)'
    BY <1>5, <2>1, GroupedStays
  <2>6. Framed(t, g)'
    BY <2>1 DEF Framed
  <2>. QED  BY <2>2, <2>4, <2>5, <2>6
<1>11. \A p \in Pid \ {t} :
           \/ Alike(p) /\ g[p] = g[p]
           \/ /\ status[p] = "free" \/ (status[p] = "new" /\ parent[p] = t)
              /\ Given(p, g)' /\ Noded(p, g)' /\ Grouped(p)'
  BY <1>3, <1>6, <1>9, PidAssumption
<1>. QED  BY <1>2, <1>5, <1>8, <1>10, <1>11, OneTaskTree

\* A step that changes nothing but the frame of its task.
LEMMA FrameTree ==
  ASSUME NEW g, AllInv(g), TypeInv', NEW t \in Pid, status[t] = "run",
         UNCHANGED <<status, tgid, comm, parent, pid_whitelist, agent_tree, newest>>,
         \A u \in Pid \ {t} : frame'[u] = frame[u],
         frame[t].pc \notin {"exec_tree", "exit_tree"}, frame'[t].pc # "exit_tree",
         frame[t].pc \in {"exec", "exec_known"}
           => frame'[t].pc \in {"exec", "exec_known"} \/ ~Has(agent_tree, t),
         Framed(t, g)'
  PROVE  TreeInv(g)'
<1>. USE DEF AllInv, TreeInv
<1>1. \A p \in Pid : Goes(p) /\ Alike(p)
  BY DEF Goes, Alike, Same
<1>2. Extends(g, g) /\ Given(t, g) /\ Noded(t, g) /\ Grouped(t)
  BY DEF Extends
<1>3. Given(t, g)'
  BY <1>1, <1>2, GivenStays DEF Given, Live, At
<1>4. Noded(t, g)'
  BY <1>2 DEF Noded, At, Reachable, Live, Has, Lookup
<1>5. Grouped(t)'
  BY <1>2 DEF Grouped, Known
<1>6. EndInv'
  BY <1>1, EndStays
<1>. QED  BY <1>1, <1>2, <1>3, <1>4, <1>5, <1>6, OneTaskTree
---------------------------------------------------------------------------
(* Climbing *)

\* A node leads to the creator of its task.
LEMMA NextLink ==
  ASSUME NEW g, AllInv(g), NEW x \in Pid, Has(agent_tree, x), g[x].root # x
  PROVE  LET q == agent_tree[x].parent
         IN  /\ q = parent[x] /\ q \in Pid /\ Known(q) /\ Reachable(q)
             /\ g[x] \in Entry /\ g[q] # Absent /\ g[q] \in Entry /\ Below(g[x], g[q])
             /\ status[x] # "free"
BY DEF AllInv, TreeInv, Noded, Given, GivenMap

LEMMA SumStep ==
  ASSUME MaxChain <= DepthMod, NEW d \in 0 .. DepthMod - 1, NEW n \in 1 .. MaxChain - 1
  PROVE  /\ (d + 1) % DepthMod = Sum(d, 1)
         /\ Sum((d + 1) % DepthMod, n) = Sum(d, n + 1)
         /\ Sum(0, n) = n
<1>1. (d + 1) % DepthMod = IF d + 1 < DepthMod THEN d + 1 ELSE 0
  BY SmallMod, SizeAssumption
<1>. HIDE DEF Sum
<1>2. CASE d + 1 < DepthMod
  BY <1>1, <1>2, SizeAssumption DEF Sum
<1>3. CASE d + 1 = DepthMod
  BY <1>1, <1>3, SizeAssumption DEF Sum
<1>. QED  BY <1>2, <1>3, SizeAssumption

LEMMA PackParentTree ==
  ASSUME MaxChain <= DepthMod, NEW g, AllInv(g), TypeInv', NEW t \in Pid, PackParent(t)
  PROVE  TreeInv(g)'
<1>. DEFINE f == frame[t]
            x == f.cur
<1>1. /\ f.pc = "first" /\ status[t] = "run" /\ Framed(t, g)
      /\ UNCHANGED <<tgid, comm, parent, pid_whitelist, agent_tree>>
  BY DEF PackParent, At, maps, AllInv, TreeInv, EntryInv, Steady
<1>2. /\ f.entry \in Entry /\ x \in Pid /\ f.chain = <<x>>
      /\ g[x] = f.entry /\ x # f.entry.root /\ status[x] # "free" /\ Reachable(x)
  BY <1>1 DEF Framed
<1>3. CASE Lookup(agent_tree, x) = Absent
  <2>1. newest' = [entry |-> f.entry, chain |-> f.chain] /\ Return(t)
    BY <1>3 DEF PackParent, Emit
  <2>2. Ended(f.entry, f.chain)
    BY <1>2, <1>3 DEF Ended, Last, Reachable, Has
  <2>3. (\A p \in Pid : Goes(p)) => EndInv'
    <3>1. (\A p \in Pid : Goes(p)) => \A e, chain : Ended(e, chain) => Ended(e, chain)'
      BY EndedStays DEF AllInv
    <3>. QED  BY <2>1, <2>2, <3>1 DEF EndInv, Ended
  <2>4. \A c \in Pid : c = f.child /\ Has(pid_whitelist, c) => Has(agent_tree, c)
    BY <1>1, PidAssumption DEF Framed
  <2>. QED  BY <1>1, <2>1, <2>3, <2>4, ReturnTree
<1>4. CASE Lookup(agent_tree, x) # Absent
  <2>. DEFINE q == agent_tree[x].parent
  <2>. PICK F : F = [f EXCEPT !.pc = "walk", !.cur = q]
    OBVIOUS
  <2>1. Goto(t, F) /\ UNCHANGED <<status, newest>>
    BY <1>2, <1>4 DEF PackParent, Lookup, AllInv, TypeInv, TypeOK
  <2>2. /\ q = parent[x] /\ q \in Pid /\ Known(q) /\ Reachable(q)
        /\ g[q] # Absent /\ g[q] \in Entry /\ Below(g[x], g[q])
    BY <1>2, <1>4, NextLink DEF Has
  <2>3. /\ F.pc = "walk" /\ F.cur = q /\ F.child = f.child /\ F.entry = f.entry
        /\ F.chain = f.chain
    BY DEF AllInv, TypeInv, TypeOK, Frame
  <2>4. Climbing(F, g)
    <3>1. f.entry.depth = Sum(g[q].depth, 1)
      BY <1>2, <2>2, SumStep, SizeAssumption DEF Below, Entry
    <3>2. Last(<<x>>) = x /\ Len(<<x>>) = 1
      BY DEF Last
    <3>3. F.chain = <<x>> /\ x \in Pid
      BY <1>2, <2>3
    <3>4. Last(F.chain) = x /\ Len(F.chain) = 1 /\ 1 \in 1 .. MaxChain - 1
      BY <3>2, <3>3, SizeAssumption
    <3>5. F.cur = q /\ F.entry = f.entry /\ f.entry = g[x] /\ g[x].root = g[q].root
      BY <1>2, <2>2, <2>3 DEF Below
    <3>. QED  BY <1>2, <2>2, <3>1, <3>4, <3>5 DEF Climbing
  <2>5. frame'[t] = F /\ \A u \in Pid \ {t} : frame'[u] = frame[u]
    BY <2>1, NewFrame DEF AllInv
  <2>6. Framed(t, g)'
    <3>1. Reporter(t)' = Reporter(t)
      BY <1>1, <2>3, <2>5 DEF Reporter
    <3>2. F.chain[1] = Reporter(t) /\ F.entry \in Entry /\ g[Reporter(t)] = F.entry
      BY <1>1, <1>2, <2>3 DEF Framed
    <3>3. Climbing(F, g)'
      BY <1>1, <2>1, <2>4 DEF Climbing, Known, Reachable, Live, Has, Lookup
    <3>4. F.child # NoPid =>
            Has(pid_whitelist, t)' /\ Has(pid_whitelist, F.child)' /\ Has(agent_tree, F.child)'
      BY <1>1, <2>3 DEF Framed, Has, Lookup
    <3>. QED  BY <2>3, <2>5, <3>1, <3>2, <3>3, <3>4 DEF Framed
  <2>. QED  BY <1>1, <2>1, <2>3, <2>5, <2>6, FrameTree
<1>. QED  BY <1>3, <1>4

LEMMA ChainStepTree ==
  ASSUME MaxChain <= DepthMod, NEW g, AllInv(g), TypeInv', NEW t \in Pid, ChainStep(t)
  PROVE  TreeInv(g)'
<1>. DEFINE f == frame[t]
            x == f.cur
            longer == Append(f.chain, x)
<1>1. /\ f.pc = "walk" /\ status[t] = "run" /\ Framed(t, g) /\ f.chain \in Seq(Pid)
      /\ UNCHANGED <<tgid, comm, parent, pid_whitelist, agent_tree>>
  BY DEF ChainStep, At, maps, AllInv, TreeInv, EntryInv, Steady, TypeInv, TypeOK, Frame
<1>2. Climbing(f, g)
  BY <1>1 DEF Framed
<1>3. /\ Last(longer) = x /\ Len(longer) = Len(f.chain) + 1 /\ longer \in Seq(Pid)
  BY <1>1, <1>2 DEF Climbing, Last
<1>4. ASSUME NEW chain, newest' = [entry |-> f.entry, chain |-> chain], Return(t),
             Ended(f.entry, chain)
      PROVE  TreeInv(g)'
  <2>1. (\A p \in Pid : Goes(p)) => EndInv'
    <3>1. (\A p \in Pid : Goes(p)) => \A e, c : Ended(e, c) => Ended(e, c)'
      BY EndedStays DEF AllInv
    <3>. QED  BY <1>4, <3>1 DEF EndInv, Ended
  <2>2. \A c \in Pid : c = f.child /\ Has(pid_whitelist, c) => Has(agent_tree, c)
    BY <1>1, PidAssumption DEF Framed
  <2>. QED  BY <1>1, <1>4, <2>1, <2>2, ReturnTree
<1>5. CASE Lookup(agent_tree, x) = Absent
  <2>1. newest' = [entry |-> f.entry, chain |-> f.chain] /\ Return(t)
    BY <1>5 DEF ChainStep, Emit
  <2>2. Ended(f.entry, f.chain)
    BY <1>2, <1>5 DEF Climbing, Ended, Reachable, Known, Has
  <2>. QED  BY <1>4, <2>1, <2>2
<1>6. CASE Lookup(agent_tree, x) # Absent /\ ChainDone(f, longer)
  <2>1. newest' = [entry |-> f.entry, chain |-> longer] /\ Return(t)
    BY <1>6 DEF ChainStep, Emit
  <2>2. x = f.entry.root => f.entry.depth = Len(f.chain)
    <3>. SUFFICES ASSUME x = f.entry.root PROVE f.entry.depth = Len(f.chain)
      OBVIOUS
    <3>1. g[x].depth = 0 /\ f.entry.depth = Sum(g[x].depth, Len(f.chain))
      BY <1>2 DEF Climbing, AllInv, TreeInv, Given
    <3>2. Len(f.chain) \in 1 .. MaxChain - 1
      BY <1>2 DEF Climbing
    <3>. QED  BY <3>1, <3>2, SizeAssumption DEF Sum
  <2>3. Ended(f.entry, longer)
    BY <1>2, <1>3, <1>6, <2>2 DEF Ended, Climbing, ChainDone, Known
  <2>. QED  BY <1>4, <2>1, <2>3
<1>7. CASE Lookup(agent_tree, x) # Absent /\ ~ChainDone(f, longer)
  <2>. DEFINE q == agent_tree[x].parent
  <2>. PICK F : F = [f EXCEPT !.chain = longer, !.cur = q]
    OBVIOUS
  <2>1. Goto(t, F) /\ UNCHANGED <<status, newest>>
    BY <1>2, <1>7 DEF ChainStep, Lookup, AllInv, TypeInv, TypeOK, Climbing
  <2>2. x \in Pid /\ g[x].root = f.entry.root /\ x # f.entry.root
    BY <1>2, <1>7 DEF Climbing, ChainDone
  <2>3. /\ q = parent[x] /\ q \in Pid /\ Known(q) /\ Reachable(q) /\ status[x] # "free"
        /\ g[x] \in Entry /\ g[q] # Absent /\ g[q] \in Entry /\ Below(g[x], g[q])
    BY <1>7, <2>2, NextLink DEF Has
  <2>4. /\ F.pc = "walk" /\ F.cur = q /\ F.child = f.child /\ F.entry = f.entry
        /\ F.chain = longer
    BY <1>1 DEF AllInv, TypeInv, TypeOK, Frame
  <2>5. Len(f.chain) + 1 \in 1 .. MaxChain - 1
    BY <1>2, <1>3, <1>7, SizeAssumption DEF Climbing, ChainDone
  <2>6. f.entry.depth = Sum(g[q].depth, Len(f.chain) + 1)
    <3>1. f.entry.depth = Sum((g[q].depth + 1) % DepthMod, Len(f.chain))
      BY <1>2, <2>3 DEF Climbing, Below
    <3>2. g[q].depth \in 0 .. DepthMod - 1 /\ Len(f.chain) \in 1 .. MaxChain - 1
      BY <1>2, <2>3 DEF Climbing, Entry
    <3>. QED  BY <3>1, <3>2, SumStep
  <2>. HIDE DEF longer
  <2>7. Climbing(F, g)
    BY <1>2, <1>3, <2>2, <2>3, <2>4, <2>5, <2>6 DEF Climbing, Below
  <2>8. frame'[t] = F /\ \A u \in Pid \ {t} : frame'[u] = frame[u]
    BY <2>1, NewFrame DEF AllInv
  <2>9. Framed(t, g)'
    <3>1. Reporter(t)' = Reporter(t)
      BY <1>1, <2>4, <2>8 DEF Reporter
    <3>2. longer[1] = f.chain[1]
      BY <1>1, <1>2 DEF Climbing, longer
    <3>3. F.chain[1] = Reporter(t) /\ F.entry \in Entry /\ g[Reporter(t)] = F.entry
      BY <1>1, <2>4, <3>2 DEF Framed
    <3>4. Climbing(F, g)'
      BY <1>1, <2>1, <2>7 DEF Climbing, Known, Reachable, Live, Has, Lookup
    <3>5. F.child # NoPid =>
            Has(pid_whitelist, t)' /\ Has(pid_whitelist, F.child)' /\ Has(agent_tree, F.child)'
      BY <1>1, <2>4 DEF Framed, Has, Lookup
    <3>. QED  BY <2>4, <2>8, <3>1, <3>3, <3>4, <3>5 DEF Framed
  <2>. QED  BY <1>1, <2>1, <2>4, <2>8, <2>9, FrameTree
<1>. QED  BY <1>5, <1>6, <1>7

LEMMA CaptureTree ==
  ASSUME NEW g, AllInv(g), TypeInv', NEW t \in Pid, Capture(t)
  PROVE  TreeInv(g)'
<1>0. tgid[t] \in Pid
  BY DEF AllInv, TypeInv, TypeOK
<1>. PICK p \in Pid : p = tgid[t]
  BY <1>0
<1>. PICK e : e = pid_whitelist[p]
  OBVIOUS
<1>1. /\ status[t] = "run" /\ frame[t].pc = "idle" /\ frame[t].child = NoPid
      /\ p \in Pid /\ Has(pid_whitelist, p) /\ PackSelf(t, p, e)
      /\ UNCHANGED <<tgid, comm, parent, pid_whitelist, agent_tree>>
  BY DEF Capture, Ready, maps, AllInv, EntryInv, Steady, TypeInv, TypeOK
<1>2. /\ Given(p, g) /\ Noded(p, g) /\ Grouped(t) /\ Framed(p, g)
      /\ e = g[p] /\ e # Absent /\ e \in Entry /\ status[p] = "run"
  <2>1. e # Absent /\ e \in Entry /\ Live(p)
    BY <1>1 DEF AllInv, TypeInv, TypeOK, EntryInv, Bare, Has, Lookup
  <2>2. status[p] = "run"
    BY <1>1, <2>1 DEF AllInv, TreeInv, Grouped, Known, Live
  <2>. QED  BY <1>1, <2>1, <2>2 DEF AllInv, TreeInv, Given
<1>3. CASE p = e.root
  <2>1. newest' = [entry |-> e, chain |-> <<p>>] /\ Return(t)
    BY <1>1, <1>3 DEF PackSelf, Emit
  <2>2. Ended(e, <<p>>)
    <3>1. e.depth = 0
      BY <1>2, <1>3 DEF Given
    <3>2. Last(<<p>>) = p /\ Len(<<p>>) = 1
      BY DEF Last
    <3>. QED  BY <1>1, <1>2, <1>3, <3>1, <3>2 DEF Ended
  <2>3. (\A q \in Pid : Goes(q)) => EndInv'
    <3>1. (\A q \in Pid : Goes(q)) => \A x, chain : Ended(x, chain) => Ended(x, chain)'
      BY EndedStays DEF AllInv
    <3>2. (\A q \in Pid : Goes(q)) => Ended(e, <<p>>) /\ \A q \in Pid : Goes(q)
      BY <2>2
    <3>. QED  BY <2>1, <3>1, <3>2 DEF EndInv, Ended
  <2>. QED  BY <1>1, <2>1, <2>3, PidAssumption, ReturnTree
<1>4. CASE p # e.root
  <2>. PICK F : F = [frame[t] EXCEPT !.pc = "first", !.entry = e, !.chain = <<p>>, !.cur = p]
    OBVIOUS
  <2>1. Goto(t, F) /\ UNCHANGED <<status, newest>>
    BY <1>1, <1>4 DEF PackSelf
  <2>2. /\ F.pc = "first" /\ F.entry = e /\ F.chain = <<p>> /\ F.cur = p /\ F.child = NoPid
    BY <1>1 DEF AllInv, TypeInv, TypeOK, Frame
  <2>3. frame'[t] = F /\ \A u \in Pid \ {t} : frame'[u] = frame[u]
    BY <2>1, NewFrame DEF AllInv
  <2>4. Has(agent_tree, p)
    BY <1>1, <1>2, <1>4 DEF Framed, Noded, At, RootEntry
  <2>5. Framed(t, g)'
    <3>1. Reporter(t)' = p
      BY <1>1, <2>2, <2>3 DEF Reporter
    <3>2. Reachable(p)'
      BY <1>1, <2>4 DEF Reachable, Has, Lookup
    <3>3. status'[p] = "run" /\ g[p] = e /\ p \in Pid /\ e \in Entry /\ p # e.root
      BY <1>2, <1>4, <2>1
    <3>4. F.chain[1] = p
      BY <2>2
    <3>. QED  BY <2>2, <2>3, <3>1, <3>2, <3>3, <3>4 DEF Framed
  <2>. QED  BY <1>1, <2>1, <2>2, <2>3, <2>5, FrameTree
<1>. QED  BY <1>3, <1>4

LEMMA ForkStartTree ==
  ASSUME NEW g, AllInv(g), TypeInv', NEW t \in Pid, NEW c \in Pid, NEW thread \in BOOLEAN,
         ForkStart(t, c, thread)
  PROVE  TreeInv(g)'
<1>. USE DEF AllInv, TreeInv, TypeInv, TypeOK
<1>1. /\ status[t] = "run" /\ status[c] = "free" /\ c # t /\ frame[t].pc = "idle"
      /\ status' = [status EXCEPT ![c] = "new"] /\ parent' = [parent EXCEPT ![c] = t]
      /\ comm' = [comm EXCEPT ![c] = comm[t]]
      /\ tgid' = [tgid EXCEPT ![c] = IF thread THEN tgid[t] ELSE c]
      /\ UNCHANGED <<pid_whitelist, agent_tree, newest>>
  BY DEF ForkStart, Ready, maps
<1>2. frame' = [frame EXCEPT ![t] = [Idle EXCEPT !.pc = "fork", !.child = c]]
  BY DEF ForkStart, Goto
<1>3. /\ frame'[t].pc = "fork" /\ frame'[t].child = c
      /\ \A u \in Pid \ {t} : frame'[u] = frame[u]
  BY <1>2 DEF Idle
<1>4. \A p \in Pid : Goes(p)
  BY <1>1 DEF Goes
<1>5. Extends(g, g)
  BY DEF Extends
<1>6. \A p \in Pid : p # c => Alike(p)
  BY <1>1 DEF Alike, Same
<1>7. g[c] = Absent /\ ~Has(pid_whitelist, c) /\ frame[c].pc = "idle"
  BY <1>1 DEF Given, EntryInv, Steady, Bare, Live, Has, Lookup
<1>8. ~Has(agent_tree, c)
  BY <1>7 DEF Noded, At
<1>9. Given(c, g)' /\ Noded(c, g)' /\ Grouped(c)'
  <2>1. Given(c, g)'
    BY <1>1, <1>7 DEF Given, Has
  <2>2. Noded(c, g)'
    BY <1>1, <1>7, <1>8 DEF Noded, Has
  <2>3. Grouped(c)'
    <3>1. thread => Threads
      BY DEF ForkStart
    <3>. QED  BY <1>1, <3>1 DEF Grouped, Known
  <2>. QED  BY <2>1, <2>2, <2>3
<1>10. Given(t, g)' /\ Noded(t, g)' /\ Grouped(t)'
  <2>1. Given(t, g) /\ Noded(t, g) /\ Grouped(t) /\ Alike(t)
    BY <1>1, <1>6
  <2>2. Given(t, g)'
    BY <1>1, <1>3, <1>4, <1>5, <2>1, GivenStays DEF Given, Live, At, Alike, Same, Has
  <2>3. Has(agent_tree, t) => g[t] # Absent /\ (g[t].root # t => Reachable(parent[t])')
    BY <1>1, <1>4, <2>1, KnownStays DEF Noded, Given, Known
  <2>4. Noded(t, g)'
    BY <1>1, <1>3, <2>1, <2>3 DEF Noded, At, Alike, Same, Has
  <2>5. Grouped(t)'
    BY <1>1, <2>1 DEF Grouped, Known
  <2>. QED  BY <2>2, <2>4, <2>5
<1>11. Framed(t, g)'
  BY <1>1, <1>3 DEF Framed
<1>12. EndInv'
  BY <1>1, <1>4, EndStays
<1>. QED  BY <1>1, <1>3, <1>4, <1>5, <1>6, <1>9, <1>10, <1>11, <1>12, OneTaskTree

LEMMA ForkLookupTree ==
  ASSUME NEW g, AllInv(g), TypeInv', NEW t \in Pid, ForkLookup(t)
  PROVE  TreeInv(g)'
<1>. USE DEF AllInv
<1>1. /\ status[t] = "run" /\ frame[t].pc = "fork" /\ Framed(t, g)
      /\ UNCHANGED <<tgid, comm, parent, pid_whitelist, agent_tree, newest>>
  BY DEF ForkLookup, At, maps, EntryInv, Steady, TreeInv
<1>2. frame[t].child \in Pid /\ ~Has(pid_whitelist, frame[t].child)
  BY <1>1 DEF TypeInv, FramesOK, EntryInv, Steady, Bare, Has, Lookup
<1>3. CASE Lookup(pid_whitelist, t) = Absent
  <2>1. Return(t)
    BY <1>3 DEF ForkLookup
  <2>2. (\A p \in Pid : Goes(p)) => EndInv'
    BY <1>1, EndStays DEF TreeInv
  <2>. QED  BY <1>1, <1>2, <2>1, <2>2, ReturnTree
<1>4. CASE Lookup(pid_whitelist, t) # Absent
  <2>. DEFINE F == [frame[t] EXCEPT !.pc = "fork_wl",
                                    !.entry = ChildEntry(t, pid_whitelist[t])]
  <2>1. Goto(t, F) /\ UNCHANGED status
    BY <1>4 DEF ForkLookup, Lookup, TypeInv, TypeOK
  <2>2. /\ F.pc = "fork_wl" /\ F.child = frame[t].child
        /\ F.entry = ChildEntry(t, pid_whitelist[t])
    BY DEF TypeInv, TypeOK, Frame
  <2>. HIDE DEF F
  <2>3. frame'[t] = F /\ \A u \in Pid \ {t} : frame'[u] = frame[u]
    BY <2>1, NewFrame
  <2>4. Framed(t, g)'
    BY <1>1, <1>4, <2>2, <2>3 DEF Framed, ChildEntry, Has, Lookup
  <2>. QED  BY <1>1, <2>1, <2>2, <2>3, <2>4, FrameTree
<1>. QED  BY <1>3, <1>4

\* The child is given the entry of its creator, one level down.
LEMMA ForkWhitelistTree ==
  ASSUME Room, NEW g, AllInv(g), TypeInv', NEW t \in Pid, ForkWhitelist(t)
  PROVE  \E h \in GivenMap : TreeInv(h)'
<1>. USE DEF AllInv, TreeInv
<1>0. frame[t].child \in Pid /\ frame[t].entry \in Entry
  BY DEF ForkWhitelist, At, TypeInv, FramesOK
<1>. PICK c \in Pid : c = frame[t].child
  BY <1>0
<1>. PICK e \in Entry : e = frame[t].entry
  BY <1>0
<1>. DEFINE h == [g EXCEPT ![c] = e]
<1>1. /\ status[t] = "run" /\ frame[t].pc = "fork_wl"
      /\ UNCHANGED <<status, tgid, comm, parent, agent_tree, newest>>
  BY DEF ForkWhitelist, At, kernel, EntryInv, Steady
<1>2. /\ status[c] = "new" /\ parent[c] = t /\ c # t /\ frame[c].pc = "idle"
      /\ ~Has(pid_whitelist, c)
  BY <1>1, PidAssumption DEF EntryInv, Steady, Bare, Has, Lookup
<1>3. /\ Framed(t, g) /\ Given(t, g) /\ Given(c, g) /\ Noded(t, g) /\ Noded(c, g)
      /\ Grouped(t) /\ Grouped(c)
  BY <1>1
<1>4. /\ Has(pid_whitelist, t) /\ pid_whitelist[t] = g[t] /\ g[t] # Absent /\ g[t] \in Entry
      /\ e = ChildEntry(t, g[t]) /\ comm[c] = comm[t] /\ g[c] = Absent
  BY <1>1, <1>2, <1>3 DEF Framed, Given, Live, At, Has, Lookup, GivenMap, TypeInv, TypeOK
<1>5. pid_whitelist' = [pid_whitelist EXCEPT ![c] = e]
  BY <1>1, PutFits DEF ForkWhitelist
<1>6. /\ frame'[t].pc = "fork_tree" /\ frame'[t].child = c /\ frame'[t].entry = e
      /\ \A u \in Pid \ {t} : frame'[u] = frame[u]
  BY DEF ForkWhitelist, GotoPc, Goto, Frame, TypeInv, TypeOK
<1>7. /\ h \in GivenMap /\ Extends(g, h) /\ h[c] = e /\ \A p \in Pid : p # c => h[p] = g[p]
  BY <1>1, <1>4 DEF GivenMap, Extends
<1>8. /\ \A p \in Pid : Goes(p)
      /\ \A p \in Pid : p # c => Alike(p)
  BY <1>1, <1>5 DEF Goes, Alike, Same, TypeInv, TypeOK
<1>9. /\ e # Absent /\ e.root = g[t].root /\ Known(e.root) /\ e.root # c /\ Below(e, g[t])
  BY <1>1, <1>2, <1>3, <1>4, AbsentAssumption DEF Given, ChildEntry, Below, Known
<1>. HIDE DEF h
<1>10. /\ pid_whitelist'[c] = e /\ Has(pid_whitelist, c)' /\ ~Has(agent_tree, c)
       /\ pid_whitelist'[t] = pid_whitelist[t] /\ Has(pid_whitelist, t)'
  BY <1>1, <1>2, <1>3, <1>4, <1>5, <1>9 DEF Noded, At, Has, Lookup, TypeInv, TypeOK
<1>11. Given(c, h)'
  BY <1>1, <1>2, <1>4, <1>7, <1>9, <1>10 DEF Given, Known
<1>12. Noded(c, h)' /\ Grouped(c)'
  BY <1>1, <1>2, <1>3, <1>10 DEF Noded, Grouped, Known, Has
<1>13. Given(t, h)'
  BY <1>1, <1>2, <1>3, <1>4, <1>7, <1>8, <1>10, GivenStays DEF Given
<1>14. Noded(t, h)' /\ Grouped(t)'
  <2>1. Has(agent_tree, t) => h[t] = g[t] /\ (g[t].root # t => Reachable(parent[t])')
    BY <1>1, <1>2, <1>3, <1>7 DEF Noded, Reachable, Live, Has, Lookup
  <2>2. Has(agent_tree, t)' <=> Has(agent_tree, t)
    BY <1>1 DEF Has, Lookup
  <2>3. Has(agent_tree, t)
    BY <1>1, <1>3, <1>4 DEF Noded, At
  <2>4. Noded(t, h)'
    BY <1>1, <1>3, <1>6, <1>10, <2>1, <2>2, <2>3 DEF Noded, At
  <2>5. Grouped(t)'
    BY <1>1, <1>3, <1>8, GroupedStays
  <2>. QED  BY <2>4, <2>5
<1>15. Framed(t, h)'
  BY <1>1, <1>4, <1>6, <1>10 DEF Framed, ChildEntry
<1>16. EndInv'
  BY <1>1, <1>8, EndStays
<1>17. TreeInv(h)'
  BY <1>1, <1>2, <1>6, <1>7, <1>8, <1>11, <1>12, <1>13, <1>14, <1>15, <1>16, OneTaskTree
<1>. QED  BY <1>7, <1>17

LEMMA ForkTreeTree ==
  ASSUME Room, NEW g, AllInv(g), TypeInv', NEW t \in Pid, ForkTree(t)
  PROVE  TreeInv(g)'
<1>. USE DEF AllInv, TreeInv
<1>0. /\ frame[t].child \in Pid /\ frame[t].entry \in Entry
      /\ ChildNode(t) \in Node
  BY DEF ForkTree, At, TypeInv, FramesOK, TypeOK, ChildNode, Node, PidOrNone
<1>. PICK c \in Pid : c = frame[t].child
  BY <1>0
<1>. PICK e \in Entry : e = frame[t].entry
  BY <1>0
<1>. PICK n \in Node : n = ChildNode(t)
  BY <1>0
<1>. PICK F : F = [frame[t] EXCEPT !.pc = "first", !.entry = e, !.chain = <<c>>, !.cur = c]
  OBVIOUS
<1>1. /\ status[t] = "run" /\ frame[t].pc = "fork_tree"
      /\ UNCHANGED <<tgid, comm, parent, pid_whitelist>> /\ PackSelf(t, c, e)
  BY DEF ForkTree, At, EntryInv, Steady
<1>2. status[c] = "new" /\ parent[c] = t /\ c # t /\ frame[c].pc = "idle"
  BY <1>1, PidAssumption DEF EntryInv, Steady
<1>3. /\ Framed(t, g) /\ Given(t, g) /\ Given(c, g) /\ Noded(t, g) /\ Noded(c, g)
      /\ Grouped(t) /\ Grouped(c)
  BY <1>1
<1>4. /\ Has(pid_whitelist, t) /\ pid_whitelist[t] = g[t] /\ Has(agent_tree, t)
      /\ Has(pid_whitelist, c) /\ e = pid_whitelist[c] /\ e = g[c] /\ comm[c] = comm[t]
      /\ e # Absent
  BY <1>1, <1>3, AbsentAssumption DEF Framed, Given, Noded, At, Has, Lookup, TypeInv, TypeOK
<1>5. e.root # c
  BY <1>2, <1>3, <1>4 DEF Given, Known
<1>6. /\ n.parent = t /\ n.comm = comm[t] /\ n # Absent
      /\ agent_tree' = [agent_tree EXCEPT ![c] = n]
  BY <1>1, PutFits, AbsentAssumption DEF ForkTree, ChildNode
<1>7. Goto(t, F) /\ UNCHANGED <<status, newest>>
  BY <1>1, <1>5 DEF PackSelf
<1>8. /\ F.pc = "first" /\ F.entry = e /\ F.chain = <<c>> /\ F.cur = c /\ F.child = c
  BY DEF TypeInv, TypeOK, Frame
<1>9. /\ frame'[t] = F /\ \A u \in Pid \ {t} : frame'[u] = frame[u]
  BY <1>7, NewFrame
<1>10. /\ agent_tree'[c] = n /\ Has(agent_tree, c)' /\ Has(agent_tree, t)'
       /\ agent_tree'[t] = agent_tree[t]
  BY <1>1, <1>2, <1>4, <1>6 DEF Has, Lookup, TypeInv, TypeOK
<1>11. /\ \A p \in Pid : Goes(p)
       /\ \A p \in Pid : p # c => Alike(p)
       /\ Extends(g, g)
  BY <1>1, <1>6, <1>7, <1>10 DEF Goes, Alike, Same, Extends, Has, Lookup, TypeInv, TypeOK
<1>12. Given(c, g)' /\ Given(t, g)'
  BY <1>1, <1>2, <1>3, <1>4, <1>7, <1>8, <1>9, <1>11, GivenStays DEF Given, Live, At, Has, Lookup
<1>13. Noded(c, g)'
  BY <1>1, <1>2, <1>4, <1>5, <1>6, <1>7, <1>10 DEF Noded, Reachable, Has, Lookup
<1>14. Noded(t, g)'
  <2>1. g[t] # Absent /\ (g[t].root # t => Reachable(parent[t])')
    BY <1>3, <1>4, <1>11, KnownStays DEF Noded, Given, Known
  <2>. QED  BY <1>1, <1>3, <1>4, <1>7, <1>8, <1>9, <1>10, <2>1 DEF Noded, At, Has, Lookup
<1>15. Grouped(c)' /\ Grouped(t)'
  BY <1>1, <1>3, <1>7 DEF Grouped, Known
<1>16. Framed(t, g)'
  <2>1. Has(pid_whitelist, t)' /\ Has(pid_whitelist, c)' /\ Reachable(c)'
    BY <1>1, <1>4, <1>10 DEF Reachable, Has, Lookup
  <2>2. status'[c] # "free" /\ g[c] = e /\ c \in Pid /\ e \in Entry
    BY <1>2, <1>4, <1>7
  <2>3. Reporter(t)' = c
    BY <1>8, <1>9, PidAssumption DEF Reporter
  <2>. QED  BY <1>5, <1>8, <1>9, <1>10, <2>1, <2>2, <2>3 DEF Framed
<1>17. EndInv'
  BY <1>7, <1>11, EndStays
<1>. QED
  BY <1>1, <1>2, <1>9, <1>11, <1>12, <1>13, <1>14, <1>15, <1>16, <1>17, OneTaskTree
---------------------------------------------------------------------------
(* Exec and exit *)

\* A step that changes what t has and nothing else.
LEMMA OwnTree ==
  ASSUME NEW g, AllInv(g), TypeInv', NEW h \in GivenMap, Extends(g, h),
         NEW t \in Pid, status[t] = "run",
         UNCHANGED <<status, tgid, parent, newest>>,
         \A u \in Pid \ {t} : /\ frame'[u] = frame[u] /\ pid_whitelist'[u] = pid_whitelist[u]
                              /\ agent_tree'[u] = agent_tree[u] /\ comm'[u] = comm[u]
                              /\ h[u] = g[u],
         Has(agent_tree, t) => Has(agent_tree, t)',
         Given(t, h)', Noded(t, h)', Framed(t, h)'
  PROVE  TreeInv(h)'
<1>. USE DEF AllInv, TreeInv
<1>1. \A p \in Pid \ {t} : Alike(p) /\ h[p] = g[p]
  BY DEF Alike, Same
<1>2. \A p \in Pid : Goes(p)
  BY DEF Goes, Has, Lookup, TypeInv, TypeOK
<1>3. Grouped(t)'
  BY DEF Grouped, Known
<1>4. EndInv'
  BY <1>2, EndStays
<1>. QED  BY <1>1, <1>2, <1>3, <1>4, OneTaskTree

\* A task dies, or a dead one is reaped.
LEMMA DeadTree ==
  ASSUME NEW g, AllInv(g), TypeInv', NEW t \in Pid,
         status[t] \in {"run", "zombie"}, status'[t] \in {"zombie", "gone"},
         frame'[t].pc = "idle", UNCHANGED <<parent, newest>>,
         tgid'[t] \in {t, tgid[t]},
         ~Has(pid_whitelist, t)', ~Has(agent_tree, t)',
         \A u \in Pid \ {t} : Alike(u) /\ frame'[u] = frame[u]
  PROVE  TreeInv(g)'
<1>. USE DEF AllInv, TreeInv
<1>1. \A p \in Pid : Goes(p)
  BY DEF Goes, Alike, Same, Live, Has, Lookup, TypeInv, TypeOK
<1>2. Extends(g, g) /\ Given(t, g) /\ Noded(t, g) /\ Grouped(t)
  BY DEF Extends
<1>3. Given(t, g)'
  BY <1>1, <1>2, GivenStays DEF Live, Has, Lookup
<1>4. Noded(t, g)'
  BY DEF Noded
<1>5. Grouped(t)'
  BY <1>1, <1>2, GroupedStays
<1>6. Framed(t, g)'
  BY DEF Framed
<1>7. EndInv'
  BY <1>1, EndStays
<1>. QED  BY <1>1, <1>2, <1>3, <1>4, <1>5, <1>6, <1>7, OneTaskTree

LEMMA ExecStartTree ==
  ASSUME NEW g, AllInv(g), TypeInv', NEW t \in Pid, NEW c \in Comm, ExecStart(t, c)
  PROVE  TreeInv(g)'
<1>. USE DEF AllInv, TreeInv
<1>1. /\ status[t] = "run" /\ frame[t].pc = "idle"
      /\ comm' = [comm EXCEPT ![t] = c]
      /\ UNCHANGED <<status, tgid, parent, pid_whitelist, agent_tree, newest>>
  BY DEF ExecStart, Ready, maps
<1>2. frame'[t].pc = "exec" /\ \A u \in Pid \ {t} : frame'[u] = frame[u]
  BY DEF ExecStart, GotoPc, Goto, Frame, TypeInv, TypeOK
<1>3. Extends(g, g) /\ Given(t, g) /\ Noded(t, g)
  BY DEF Extends
<1>4. Given(t, g)'
  BY <1>1, <1>2, <1>3 DEF Given, Known, Live, At, Has, Lookup
<1>5. Noded(t, g)'
  BY <1>1, <1>2, <1>3 DEF Noded, At, Reachable, Live, Has, Lookup
<1>6. Framed(t, g)'
  BY <1>2 DEF Framed
<1>7. /\ Has(agent_tree, t) => Has(agent_tree, t)'
      /\ \A u \in Pid \ {t} : comm'[u] = comm[u]
  BY <1>1 DEF Has, Lookup, TypeInv, TypeOK
<1>. QED  BY <1>1, <1>2, <1>3, <1>4, <1>5, <1>6, <1>7, OwnTree

LEMMA ExecLookupTree ==
  ASSUME NEW g, AllInv(g), TypeInv', NEW t \in Pid, ExecLookup(t)
  PROVE  TreeInv(g)'
<1>. USE DEF AllInv, TreeInv
<1>1. /\ status[t] = "run" /\ frame[t].pc = "exec" /\ Given(t, g) /\ Noded(t, g)
      /\ UNCHANGED <<status, tgid, comm, parent, pid_whitelist, agent_tree, newest>>
  BY DEF ExecLookup, At, kernel, maps, EntryInv, Steady
<1>2. /\ frame'[t].pc = IF Has(pid_whitelist, t) THEN "exec_known" ELSE "exec_new"
      /\ \A u \in Pid \ {t} : frame'[u] = frame[u]
  BY DEF ExecLookup, GotoPc, Goto, Frame, TypeInv, TypeOK
<1>3. ~Has(pid_whitelist, t) => ~Has(agent_tree, t)
  BY <1>1 DEF Given, Noded, Live, At
<1>4. Framed(t, g)'
  BY <1>1, <1>2 DEF Framed, Has, Lookup
<1>. QED  BY <1>1, <1>2, <1>3, <1>4, FrameTree

LEMMA ExecKnownTree ==
  ASSUME NEW g, AllInv(g), TypeInv', NEW t \in Pid, ExecKnown(t)
  PROVE  TreeInv(g)'
<1>. USE DEF AllInv, TreeInv
<1>1. /\ status[t] = "run" /\ frame[t].pc = "exec_known" /\ Framed(t, g)
      /\ Given(t, g) /\ Noded(t, g) /\ Has(pid_whitelist, t)
      /\ UNCHANGED <<status, tgid, comm, parent, pid_whitelist, newest>>
  BY DEF ExecKnown, At, kernel, EntryInv, Steady, Framed
<1>2. Lookup(agent_tree, t) # Absent
  BY <1>1 DEF Noded, At, Has
<1>3. agent_tree' = [agent_tree EXCEPT ![t].comm = comm[t]]
  BY <1>2 DEF ExecKnown
<1>. PICK F : F = [frame[t] EXCEPT !.pc = "exec_put", !.node = agent_tree'[t]]
  OBVIOUS
<1>4. F.pc = "exec_put" /\ F.node = agent_tree'[t] /\ F.child = frame[t].child
  BY DEF TypeInv, TypeOK, Frame
<1>5. frame'[t] = F /\ \A u \in Pid \ {t} : frame'[u] = frame[u]
  <2>1. Goto(t, F)
    BY <1>2 DEF ExecKnown
  <2>. QED  BY <2>1, NewFrame
<1>6. agent_tree[t] \in Node
  BY <1>2 DEF Lookup, TypeInv, TypeOK
<1>7. /\ agent_tree'[t].parent = agent_tree[t].parent /\ agent_tree'[t].comm = comm[t]
      /\ agent_tree'[t] \in Node
      /\ \A u \in Pid \ {t} : agent_tree'[u] = agent_tree[u]
  BY <1>3, <1>6 DEF Node, TypeInv, TypeOK
<1>8. Has(agent_tree, t) /\ Has(agent_tree, t)' /\ Has(pid_whitelist, t)'
  BY <1>1, <1>2, <1>7, AbsentAssumption DEF Has, Lookup, TypeInv, TypeOK
<1>9. Extends(g, g) /\ \A p \in Pid : Goes(p)
  BY <1>1, <1>7, <1>8 DEF Extends, Goes, Has, Lookup, TypeInv, TypeOK
<1>10. Given(t, g)'
  BY <1>1, <1>4, <1>5, <1>8 DEF Given, Known, Live, At
<1>11. Noded(t, g)'
  <2>1. g[t].root # t => Reachable(parent[t])'
    BY <1>1, <1>8, <1>9, KnownStays DEF Noded, Given, Known
  <2>. QED  BY <1>1, <1>4, <1>5, <1>7, <1>8, <2>1 DEF Noded
<1>12. Framed(t, g)'
  BY <1>4, <1>5, <1>8 DEF Framed
<1>. QED  BY <1>1, <1>5, <1>7, <1>8, <1>9, <1>10, <1>11, <1>12, OwnTree

\* The node put back is the one that is there.
LEMMA ExecPutTree ==
  ASSUME Room, NEW g, AllInv(g), TypeInv', NEW t \in Pid, ExecPut(t)
  PROVE  TreeInv(g)'
<1>. USE DEF AllInv, TreeInv
<1>1. /\ status[t] = "run" /\ frame[t].pc = "exec_put" /\ Framed(t, g)
      /\ UNCHANGED <<status, tgid, comm, parent, pid_whitelist, newest>>
  BY DEF ExecPut, At, kernel, EntryInv, Steady
<1>2. agent_tree' = agent_tree
  BY <1>1, PutFits DEF ExecPut, Framed, TypeInv, TypeOK
<1>3. frame'[t] = Idle /\ \A u \in Pid \ {t} : frame'[u] = frame[u]
  BY NewFrame DEF ExecPut
<1>4. Framed(t, g)'
  BY <1>3, IdleType DEF Framed
<1>. QED  BY <1>1, <1>2, <1>3, <1>4, IdleType, FrameTree

LEMMA ExecMatchTree ==
  ASSUME NEW g, AllInv(g), TypeInv', NEW t \in Pid, ExecMatch(t)
  PROVE  TreeInv(g)'
<1>. USE DEF AllInv, TreeInv
<1>1. /\ status[t] = "run" /\ frame[t].pc = "exec_new"
      /\ UNCHANGED <<status, tgid, comm, parent, pid_whitelist, agent_tree, newest>>
  BY DEF ExecMatch, At, kernel, maps, EntryInv, Steady
<1>2. frame'[t].pc \in {"idle", "exec_wl"} /\ \A u \in Pid \ {t} : frame'[u] = frame[u]
  BY IdleType DEF ExecMatch, GotoPc, Goto, Frame, TypeInv, TypeOK
<1>3. Framed(t, g)'
  BY <1>2 DEF Framed
<1>. QED  BY <1>1, <1>2, <1>3, FrameTree

\* The task is given the entry of a root.
LEMMA ExecWhitelistTree ==
  ASSUME Room, NEW g, AllInv(g), TypeInv', NEW t \in Pid, ExecWhitelist(t)
  PROVE  \E h \in GivenMap : TreeInv(h)'
<1>. USE DEF AllInv, TreeInv
<1>. DEFINE e == RootEntry(t)
            h == [g EXCEPT ![t] = e]
<1>1. /\ status[t] = "run" /\ frame[t].pc = "exec_wl" /\ Given(t, g) /\ Noded(t, g)
      /\ Bare(t, {})
      /\ UNCHANGED <<status, tgid, comm, parent, agent_tree, newest>>
  BY DEF ExecWhitelist, At, kernel, EntryInv, Steady
<1>2. ~Has(pid_whitelist, t) /\ g[t] = Absent /\ ~Has(agent_tree, t)
  BY <1>1 DEF Bare, Given, Noded, Live, At, Has, Lookup
<1>3. e \in Entry /\ e # Absent /\ e.root = t /\ e.depth = 0
  BY SizeAssumption, AbsentAssumption DEF RootEntry, Entry
<1>4. pid_whitelist' = [pid_whitelist EXCEPT ![t] = e]
  BY PutFits DEF ExecWhitelist, RootEntry
<1>5. /\ h \in GivenMap /\ Extends(g, h) /\ h[t] = e /\ \A p \in Pid : p # t => h[p] = g[p]
  BY <1>2, <1>3 DEF GivenMap, Extends
<1>6. frame'[t].pc = "exec_tree" /\ \A u \in Pid \ {t} : frame'[u] = frame[u]
  BY DEF ExecWhitelist, GotoPc, Goto, Frame, TypeInv, TypeOK
<1>. HIDE DEF h
<1>7. pid_whitelist'[t] = e /\ Has(pid_whitelist, t)' /\ ~Has(agent_tree, t)'
  BY <1>1, <1>2, <1>3, <1>4 DEF Has, Lookup, TypeInv, TypeOK
<1>. HIDE DEF e
<1>8. Given(t, h)'
  BY <1>1, <1>3, <1>5, <1>7 DEF Given, Known
<1>9. Noded(t, h)'
  BY <1>6, <1>7 DEF Noded, At
<1>10. Framed(t, h)'
  <2>1. pid_whitelist'[t] = RootEntry(t)
    BY <1>7 DEF e
  <2>. QED  BY <1>6, <2>1 DEF Framed
<1>11. \A u \in Pid \ {t} : pid_whitelist'[u] = pid_whitelist[u]
  BY <1>4 DEF TypeInv, TypeOK
<1>12. TreeInv(h)'
  BY <1>1, <1>2, <1>5, <1>6, <1>8, <1>9, <1>10, <1>11, OwnTree
<1>. QED  BY <1>5, <1>12

LEMMA ExecTreeTree ==
  ASSUME Room, NEW g, AllInv(g), TypeInv', NEW t \in Pid, ExecTree(t)
  PROVE  TreeInv(g)'
<1>. USE DEF AllInv, TreeInv
<1>1. /\ status[t] = "run" /\ frame[t].pc = "exec_tree" /\ Framed(t, g) /\ Given(t, g)
      /\ UNCHANGED <<status, tgid, comm, parent, pid_whitelist, newest>>
  BY DEF ExecTree, At, kernel, EntryInv, Steady
<1>. PICK n : n = [parent |-> NoPid, comm |-> comm[t]]
  OBVIOUS
<1>2. n \in Node /\ n # Absent /\ n.parent = NoPid /\ n.comm = comm[t]
  BY AbsentAssumption DEF Node, PidOrNone, TypeInv, TypeOK
<1>3. agent_tree' = [agent_tree EXCEPT ![t] = n]
  BY PutFits DEF ExecTree
<1>4. /\ agent_tree'[t] = n /\ Has(agent_tree, t)'
      /\ \A u \in Pid \ {t} : agent_tree'[u] = agent_tree[u]
  BY <1>2, <1>3 DEF Has, Lookup, TypeInv, TypeOK
<1>5. frame'[t] = Idle /\ \A u \in Pid \ {t} : frame'[u] = frame[u]
  BY NewFrame DEF ExecTree
<1>6. g[t].root = t /\ g[t] # Absent /\ Has(pid_whitelist, t) /\ Has(pid_whitelist, t)'
  <2>1. pid_whitelist[t] = RootEntry(t) /\ RootEntry(t) # Absent /\ RootEntry(t).root = t
    BY <1>1, SizeAssumption, AbsentAssumption DEF Framed, RootEntry, Entry
  <2>2. Has(pid_whitelist, t) /\ Has(pid_whitelist, t)'
    BY <1>1, <2>1 DEF Has, Lookup, TypeInv, TypeOK
  <2>. QED  BY <1>1, <2>1, <2>2 DEF Given
<1>7. Given(t, g)'
  BY <1>1, <1>6 DEF Given, Known, Live, At
<1>8. Noded(t, g)'
  BY <1>1, <1>2, <1>4, <1>6 DEF Noded
<1>9. Framed(t, g)'
  BY <1>5, IdleType DEF Framed
<1>10. Extends(g, g)
  BY DEF Extends
<1>. QED  BY <1>1, <1>4, <1>5, <1>7, <1>8, <1>9, <1>10, OwnTree

\* What dies with a task when ids are not handed out again.
LEMMA DieKernel ==
  ASSUME TypeInv, ~PidReuse, NEW t \in Pid, Die(t) \/ Release(t)
  PROVE  /\ status'[t] \in {"zombie", "gone"} /\ tgid'[t] \in {t, tgid[t]} /\ parent' = parent
         /\ \A u \in Pid \ {t} : /\ status'[u] = status[u] /\ tgid'[u] = tgid[u]
                                 /\ comm'[u] = comm[u]
BY DEF Die, Release, Reaped, TypeInv, TypeOK

LEMMA ExitWhitelistTree ==
  ASSUME ~PidReuse, NEW g, AllInv(g), TypeInv', NEW t \in Pid, ExitWhitelist(t)
  PROVE  TreeInv(g)'
<1>. USE DEF AllInv, TreeInv
<1>1. /\ status[t] = "run" /\ frame[t].pc = "idle" /\ Given(t, g) /\ Noded(t, g)
      /\ UNCHANGED <<agent_tree, newest>>
  BY DEF ExitWhitelist, Ready
<1>2. CASE ~Has(pid_whitelist, t)
  <2>1. Die(t) /\ UNCHANGED <<pid_whitelist, frame>>
    BY <1>2 DEF ExitWhitelist
  <2>2. ~Has(agent_tree, t)
    BY <1>1, <1>2 DEF Noded, At
  <2>3. ~Has(pid_whitelist, t)' /\ ~Has(agent_tree, t)'
    BY <1>1, <1>2, <2>1, <2>2 DEF Has, Lookup
  <2>4. \A u \in Pid \ {t} : Alike(u)
    BY <1>1, <2>1, DieKernel DEF Alike, Same
  <2>. QED  BY <1>1, <2>1, <2>3, <2>4, DieKernel, DeadTree
<1>3. CASE Has(pid_whitelist, t)
  <2>1. /\ pid_whitelist' = Del(pid_whitelist, t)
        /\ UNCHANGED <<status, tgid, comm, parent>>
    BY <1>3 DEF ExitWhitelist, kernel
  <2>2. frame'[t].pc = "exit_tree" /\ \A u \in Pid \ {t} : frame'[u] = frame[u]
    BY <1>3 DEF ExitWhitelist, GotoPc, Goto, Frame, TypeInv, TypeOK
  <2>3. ~Has(pid_whitelist, t)' /\ \A u \in Pid \ {t} : pid_whitelist'[u] = pid_whitelist[u]
    BY <2>1 DEF Del, Has, Lookup, TypeInv, TypeOK
  <2>4. Given(t, g)'
    BY <1>1, <2>1, <2>2, <2>3 DEF Given, Known, Live, At
  <2>5. Has(agent_tree, t) => Has(agent_tree, t)'
    BY <1>1 DEF Has, Lookup
  <2>6. Noded(t, g)'
    <3>1. g[t].root # t /\ Has(agent_tree, t) => Reachable(parent[t])'
      BY <1>1, <2>1 DEF Noded, Reachable, Live, Has, Lookup
    <3>2. Has(agent_tree, t)' <=> Has(agent_tree, t)
      BY <1>1 DEF Has, Lookup
    <3>. QED  BY <1>1, <2>1, <2>2, <2>3, <3>1, <3>2 DEF Noded, At
  <2>7. Framed(t, g)'
    BY <2>2 DEF Framed
  <2>8. Extends(g, g)
    BY DEF Extends
  <2>. QED  BY <1>1, <2>1, <2>2, <2>3, <2>4, <2>5, <2>6, <2>7, <2>8, OwnTree
<1>. QED  BY <1>2, <1>3

LEMMA ExitTreeTree ==
  ASSUME ~PidReuse, NEW g, AllInv(g), TypeInv', NEW t \in Pid, ExitTree(t)
  PROVE  TreeInv(g)'
<1>. USE DEF AllInv, TreeInv
<1>1. /\ status[t] = "run" /\ Bare(t, {}) /\ Die(t)
      /\ agent_tree' = Del(agent_tree, t) /\ UNCHANGED <<pid_whitelist, newest>>
  BY DEF ExitTree, At, EntryInv, Steady
<1>2. frame'[t] = Idle /\ \A u \in Pid \ {t} : frame'[u] = frame[u]
  BY NewFrame DEF ExitTree
<1>3. /\ ~Has(pid_whitelist, t)' /\ ~Has(agent_tree, t)'
      /\ \A u \in Pid \ {t} : agent_tree'[u] = agent_tree[u]
  BY <1>1 DEF Bare, Del, Has, Lookup, TypeInv, TypeOK
<1>4. \A u \in Pid \ {t} : Alike(u)
  BY <1>1, <1>3, DieKernel DEF Alike, Same
<1>. QED  BY <1>1, <1>2, <1>3, <1>4, IdleType, DieKernel, DeadTree

LEMMA ReapTree ==
  ASSUME ~PidReuse, NEW g, AllInv(g), TypeInv', NEW t \in Pid, Reap(t)
  PROVE  TreeInv(g)'
<1>. USE DEF AllInv, TreeInv
<1>1. /\ status[t] = "zombie" /\ Release(t) /\ Noded(t, g)
      /\ UNCHANGED <<pid_whitelist, agent_tree, frame, newest>>
  BY DEF Reap, maps
<1>2. frame[t].pc = "idle" /\ ~Has(pid_whitelist, t)
  BY <1>1 DEF EntryInv, Steady, Bare, Live, Has, Lookup
<1>3. ~Has(pid_whitelist, t)' /\ ~Has(agent_tree, t)'
  BY <1>1, <1>2 DEF Noded, At, Has, Lookup
<1>4. \A u \in Pid \ {t} : Alike(u)
  BY <1>1, DieKernel DEF Alike, Same
<1>. QED  BY <1>1, <1>2, <1>3, <1>4, DieKernel, DeadTree
---------------------------------------------------------------------------
(* All steps together *)

Guarded == Room /\ ~PidReuse /\ MaxChain <= DepthMod

TreeAlways == \E g \in GivenMap : AllInv(g)

LEMMA TreeStart == Init => TreeAlways
<1>. SUFFICES ASSUME Init PROVE TreeAlways
  OBVIOUS
<1>. DEFINE g == [p \in Pid |-> Absent]
<1>1. g \in GivenMap /\ \A p \in Pid : g[p] = Absent
  BY DEF GivenMap
<1>. HIDE DEF g
<1>2. TypeInv /\ EntryInv({})
  BY TypeInit, EntryInit, CommAssumption DEF Init
<1>3. ASSUME NEW p \in Pid PROVE Given(p, g) /\ Noded(p, g) /\ Grouped(p) /\ Framed(p, g)
  <2>1. /\ ~Has(pid_whitelist, p) /\ ~Has(agent_tree, p) /\ frame[p].pc = "idle"
        /\ tgid[p] = p /\ parent[p] = NoPid
    BY IdleType DEF Init, TreeInit, Has, Lookup
  <2>. QED  BY <1>1, <2>1 DEF Given, Noded, Grouped, Framed, Has
<1>4. EndInv
  BY DEF EndInv, Init, TreeInit
<1>. QED  BY <1>1, <1>2, <1>3, <1>4 DEF TreeAlways, AllInv, TreeInv

LEMMA TreeStep ==
  ASSUME Guarded, NEW g \in GivenMap, AllInv(g), TypeInv', [Next]_treeVars
  PROVE  \E h \in GivenMap : TreeInv(h)'
<1>. USE DEF Guarded
<1>1. ASSUME NEW t \in Pid, TaskStep(t) PROVE TreeInv(g)'
  <2>1. CASE Capture(t)
    BY <2>1, CaptureTree
  <2>2. CASE \E c \in Pid, thread \in BOOLEAN : ForkStart(t, c, thread)
    BY <2>2, ForkStartTree
  <2>3. CASE \E c \in Comm : ExecStart(t, c)
    BY <2>3, ExecStartTree
  <2>4. CASE ExitWhitelist(t)
    BY <2>4, ExitWhitelistTree
  <2>5. CASE Reap(t)
    BY <2>5, ReapTree
  <2>. QED  BY <1>1, <2>1, <2>2, <2>3, <2>4, <2>5 DEF TaskStep
<1>2. ASSUME NEW t \in Pid, HandlerStep(t) PROVE \E h \in GivenMap : TreeInv(h)'
  <2>1. CASE PackParent(t) \/ ChainStep(t)
    BY <2>1, PackParentTree, ChainStepTree
  <2>2. CASE ForkLookup(t) \/ ForkTree(t)
    BY <2>2, ForkLookupTree, ForkTreeTree
  <2>3. CASE ForkWhitelist(t) \/ ExecWhitelist(t)
    BY <2>3, ForkWhitelistTree, ExecWhitelistTree
  <2>4. CASE ExecLookup(t) \/ ExecKnown(t) \/ ExecPut(t)
    BY <2>4, ExecLookupTree, ExecKnownTree, ExecPutTree
  <2>5. CASE ExecMatch(t) \/ ExecTree(t)
    BY <2>5, ExecMatchTree, ExecTreeTree
  <2>6. CASE ExitTree(t)
    BY <2>6, ExitTreeTree
  <2>. QED  BY <1>2, <2>1, <2>2, <2>3, <2>4, <2>5, <2>6 DEF HandlerStep
<1>3. CASE UNCHANGED treeVars
  <2>1. UNCHANGED <<status, tgid, comm, parent, pid_whitelist, agent_tree, frame, newest>>
    BY <1>3 DEF treeVars
  <2>2. TreeInv(g)'
    BY <2>1 DEF AllInv, TreeInv, Given, Noded, Grouped, Framed, EndInv, Ended, Known, Reachable,
                Live, At, Has, Lookup, Climbing, ChildEntry, Reporter
  <2>. QED  BY <2>2
<1>. QED  BY <1>1, <1>2, <1>3 DEF Next

LEMMA TreeKept ==
  ASSUME Guarded, TreeAlways, [Next]_treeVars
  PROVE  TreeAlways'
<1>1. PICK g \in GivenMap : AllInv(g)
  BY DEF TreeAlways
<1>2. TypeInv' /\ EntryInv({})'
  BY <1>1, TypeStep, EntryStep DEF AllInv
<1>3. \E h \in GivenMap : TreeInv(h)'
  BY <1>1, <1>2, TreeStep
<1>. QED  BY <1>2, <1>3 DEF TreeAlways, AllInv, GivenMap

\* A node is that of a task in the whitelist, or of one between the two deletes of its
\* exit handler: with room and fresh ids nothing is left behind in agent_tree.
THEOREM NodesListedAlways == Guarded => (Spec => []NodesListed)
<1>. SUFFICES ASSUME Guarded PROVE Spec => []NodesListed
  OBVIOUS
<1>1. TreeAlways => NodesListed
  BY DEF TreeAlways, AllInv, TreeInv, Noded, NodesListed
<1>. QED  BY <1>1, TreeStart, TreeKept, PTL DEF Spec

\* Outside a task's own hooks the two maps agree on it: it is in both or in neither, the
\* tree has the name it runs under, and a root is the one that has no parent.
THEOREM MapsAgreeAlways == Guarded => (Spec => []MapsAgree)
<1>. SUFFICES ASSUME Guarded PROVE Spec => []MapsAgree
  OBVIOUS
<1>1. TreeAlways => MapsAgree
  <2>. SUFFICES ASSUME TreeAlways, NEW p \in Pid, Quiet(p)
                PROVE  /\ Has(pid_whitelist, p) <=> Has(agent_tree, p)
                       /\ Has(pid_whitelist, p) =>
                            /\ agent_tree[p].comm = comm[p]
                            /\ (pid_whitelist[p].root = p) <=> (agent_tree[p].parent = NoPid)
                            /\ pid_whitelist[p].root = p => pid_whitelist[p].depth = 0
    BY DEF MapsAgree
  <2>1. PICK g \in GivenMap : AllInv(g)
    BY DEF TreeAlways
  <2>2. Given(p, g) /\ Noded(p, g)
    BY <2>1 DEF AllInv, TreeInv
  <2>3. Has(pid_whitelist, p) => status[p] = "run"
    BY <2>1 DEF AllInv, EntryInv, Bare, Live, Quiet, Has, Lookup
  <2>4. Has(pid_whitelist, p) <=> Has(agent_tree, p)
    BY <2>2, <2>3 DEF Noded, Quiet, At
  <2>. QED  BY <2>2, <2>4, PidAssumption DEF Given, Noded, Quiet
<1>. QED  BY <1>1, TreeStart, TreeKept, PTL DEF Spec

\* A task has the root of its creator and is one level below it, however the creator's
\* entry came about and however the hooks of the two interleave.
THEOREM InheritsAlways == Guarded => (Spec => []Inherits)
<1>. SUFFICES ASSUME Guarded PROVE Spec => []Inherits
  OBVIOUS
<1>1. TreeAlways => Inherits
  <2>. SUFFICES ASSUME TreeAlways, NEW p \in Pid, Has(pid_whitelist, p),
                       pid_whitelist[p].root # p, Has(pid_whitelist, parent[p])
                PROVE  /\ pid_whitelist[p].root = pid_whitelist[parent[p]].root
                       /\ pid_whitelist[p].depth = (pid_whitelist[parent[p]].depth + 1) % DepthMod
    BY DEF Inherits
  <2>1. PICK g \in GivenMap : AllInv(g)
    BY DEF TreeAlways
  <2>2. Given(p, g) /\ pid_whitelist[p] # Absent
    BY <2>1 DEF AllInv, TreeInv, TypeInv, TypeOK, Has, Lookup
  <2>3. parent[p] \in Pid /\ Below(g[p], g[parent[p]])
    BY <2>2 DEF Given
  <2>4. Given(parent[p], g)
    BY <2>1, <2>3 DEF AllInv, TreeInv
  <2>. QED  BY <2>2, <2>3, <2>4 DEF Given, Below
<1>. QED  BY <1>1, TreeStart, TreeKept, PTL DEF Spec

\* A recorded chain ends at the root, at its full length or next to a dead task, whatever
\* forked, ran exec or died while it was packed; one that ends at the root has the length
\* its 8-bit depth says.
THEOREM ChainEndsAlways == Guarded => (Spec => []ChainEnds)
<1>. SUFFICES ASSUME Guarded PROVE Spec => []ChainEnds
  OBVIOUS
<1>1. TreeAlways => ChainEnds
  BY DEF TreeAlways, AllInv, TreeInv, EndInv, Ended, ChainEnds
<1>. QED  BY <1>1, TreeStart, TreeKept, PTL DEF Spec
---------------------------------------------------------------------------
(* The refinement.  A handler takes effect for the policy in one of its steps: a fork     *)
(* when its hook returns, an exec when the entry is put in, an exit when it is taken out, *)
(* a record when it is put into the map; all others are stutters.                         *)

Creator == [p \in Pid |-> IF p \in Joined THEN parent[p] ELSE NoPid]
Owner   == [p \in Pid |-> IF p \in Joined /\ Has(pid_whitelist, p)
                          THEN pid_whitelist[p].root ELSE NoPid]

\* A step that none of the policy's variables shows.
LEMMA Hidden ==
  ASSUME TypeInv, TypeInv', UNCHANGED newest, Joined' = Joined, Acting' = Acting,
         \A p \in Joined : /\ parent'[p] = parent[p]
                           /\ pid_whitelist'[p] = pid_whitelist[p]
  PROVE  UNCHANGED Policy!vars
<1>1. \A p \in Joined : Has(pid_whitelist, p)' <=> Has(pid_whitelist, p)
  BY DEF Has, Lookup, Joined, TypeInv, TypeOK
<1>2. Creator' = Creator
  BY DEF Creator
<1>3. Owner' = Owner
  BY <1>1 DEF Owner
<1>. QED  BY <1>2, <1>3 DEF Policy!vars, Creator, Owner

LEMMA SameTasks ==
  ASSUME UNCHANGED status, \A p \in Pid : At(p, "exit_tree")' <=> At(p, "exit_tree")
  PROVE  Joined' = Joined /\ Acting' = Acting
BY DEF Joined, Acting

\* A handler that goes on, and has not changed what the policy sees.
LEMMA HiddenStep ==
  ASSUME TypeInv, TypeInv', NEW t \in Pid, UNCHANGED <<status, parent, newest>>,
         \A u \in Pid \ {t} : frame'[u] = frame[u],
         ~At(t, "exit_tree"), ~At(t, "exit_tree")',
         \A p \in Joined : pid_whitelist'[p] = pid_whitelist[p]
  PROVE  UNCHANGED Policy!vars
<1>1. \A p \in Pid : At(p, "exit_tree")' <=> At(p, "exit_tree")
  BY DEF At
<1>. QED  BY <1>1, SameTasks, Hidden

\* What a return does for the policy: nothing, or the new task joins.
LEMMA ReturnJoins ==
  ASSUME NEW g, AllInv(g), TypeInv', NEW t \in Pid, status[t] = "run", Return(t),
         UNCHANGED <<parent, pid_whitelist>>, frame[t].pc # "exit_tree"
  PROVE  LET c == frame[t].child
         IN  /\ t \in Acting
             /\ c = NoPid => /\ Joined' = Joined /\ Acting' = Acting
                             /\ Creator' = Creator /\ Owner' = Owner
             /\ c # NoPid =>
                  /\ c \in Pid \ Joined
                  /\ Joined' = Joined \cup {c} /\ Acting' = Acting \cup {c}
                  /\ Creator' = [Creator EXCEPT ![c] = t]
                  /\ Owner' = [Owner EXCEPT ![c] = IF Has(pid_whitelist, c)
                                                   THEN pid_whitelist[c].root ELSE NoPid]
<1>. USE DEF AllInv
<1>. PICK c : c = frame[t].child
  OBVIOUS
<1>1. /\ frame'[t].pc = "idle" /\ \A u \in Pid \ {t} : frame'[u] = frame[u]
  BY IdleType DEF Return, Goto, TypeInv, TypeOK
<1>2. c # NoPid => c \in Pid /\ status[c] = "new" /\ parent[c] = t /\ frame[c].pc = "idle" /\ c # t
  BY DEF EntryInv, Steady
<1>3. \A p \in Pid : At(p, "exit_tree")' <=> At(p, "exit_tree")
  BY <1>1 DEF At
<1>4. t \in Acting
  BY DEF Acting, Joined, At
<1>5. CASE c = NoPid
  <2>1. status' = status
    BY <1>5 DEF Return
  <2>2. Joined' = Joined /\ Acting' = Acting
    BY <1>3, <2>1, SameTasks
  <2>. QED  BY <1>4, <1>5, <2>2 DEF Creator, Owner, Has, Lookup
<1>6. CASE c # NoPid
  <2>1. status' = [status EXCEPT ![c] = "run"]
    BY <1>6 DEF Return
  <2>2. c \in Pid \ Joined /\ Joined' = Joined \cup {c}
    BY <1>2, <1>6, <2>1 DEF Joined, TypeInv, TypeOK
  <2>3. Acting' = Acting \cup {c}
    BY <1>2, <1>3, <1>6, <2>1, <2>2 DEF Acting, At, Joined, TypeInv, TypeOK
  <2>4. Creator' = [Creator EXCEPT ![c] = t]
    BY <1>2, <1>6, <2>2 DEF Creator
  <2>5. Owner' = [Owner EXCEPT ![c] = IF Has(pid_whitelist, c)
                                      THEN pid_whitelist[c].root ELSE NoPid]
    BY <2>2 DEF Owner, Has, Lookup
  <2>. QED  BY <1>4, <1>6, <2>2, <2>3, <2>4, <2>5
<1>. QED  BY <1>5, <1>6

\* A chain the policy accepts as that of the reporter, and where it may end.
Whole(t, e, chain) ==
  /\ chain \in Seq(Pid) /\ Len(chain) \in 1 .. MaxChain
  /\ chain[1] = Reporter(t)
  /\ \A i \in 1 .. Len(chain) - 1 : parent[chain[i]] = chain[i + 1]
  /\ \/ chain[Len(chain)] = e.root
     \/ Len(chain) = MaxChain
     \/ parent[chain[Len(chain)]] \notin Acting
     \/ frame[t].child = NoPid /\ Reporter(t) \notin Acting

\* Every task of a chain is there; only the reporter may be one that is not woken yet.
LEMMA ChainJoined ==
  ASSUME NEW g, AllInv(g), NEW t \in Pid, NEW e, NEW chain, Whole(t, e, chain),
         status[t] = "run"
  PROVE  \A i \in 1 .. Len(chain) : chain[i] \in Pid /\ (chain[i] \in Joined \/ chain[i] = frame[t].child)
<1>. SUFFICES ASSUME NEW i \in 1 .. Len(chain)
              PROVE  chain[i] \in Pid /\ (chain[i] \in Joined \/ chain[i] = frame[t].child)
  OBVIOUS
<1>1. chain[i] \in Pid
  BY DEF Whole
<1>2. CASE i = 1
  <2>1. chain[i] = Reporter(t)
    BY <1>2 DEF Whole
  <2>2. frame[t].child = NoPid => Known(tgid[t])
    BY DEF AllInv, TreeInv, Grouped, Known
  <2>. QED  BY <1>1, <2>1, <2>2 DEF Reporter, Joined, Known
<1>3. CASE i # 1
  <2>1. i - 1 \in 1 .. Len(chain) - 1 /\ i - 1 + 1 = i /\ Len(chain) \in Nat
    BY <1>3 DEF Whole
  <2>2. chain[i - 1] \in Pid /\ parent[chain[i - 1]] = chain[i]
    BY <2>1 DEF Whole
  <2>3. Known(chain[i])
    BY <1>1, <2>2, PidAssumption DEF AllInv, TreeInv, Grouped
  <2>. QED  BY <1>1, <2>3 DEF Joined, Known
<1>. QED  BY <1>2, <1>3

\* A record that is put into the map: a spawn, a report, or a late report.
LEMMA EmitPolicy ==
  ASSUME NEW g, AllInv(g), TypeInv', NEW t \in Pid, status[t] = "run", Return(t),
         UNCHANGED <<parent, pid_whitelist>>, frame[t].pc # "exit_tree",
         NEW e \in Entry, NEW chain, Whole(t, e, chain), newest'.chain = chain,
         g[Reporter(t)] = e,
         frame[t].child # NoPid => Has(pid_whitelist, t) /\ Has(pid_whitelist, frame[t].child)
  PROVE  Policy!Next
<1>. PICK c : c = frame[t].child
  OBVIOUS
<1>. PICK p : p = Reporter(t)
  OBVIOUS
<1>1. /\ chain \in Seq(Pid) /\ Len(chain) \in 1 .. MaxChain /\ chain[1] = p /\ p \in Pid
      /\ \A i \in 1 .. Len(chain) - 1 : parent[chain[i]] = chain[i + 1]
  BY DEF Whole
<1>2. Given(t, g) /\ Given(p, g) /\ Grouped(t) /\ e # Absent /\ e.root \in Pid
  BY <1>1, AbsentAssumption DEF AllInv, TreeInv, Entry
<1>3. \A i \in 1 .. Len(chain) : chain[i] \in Pid /\ (chain[i] \in Joined \/ chain[i] = c)
  BY ChainJoined
<1>. DEFINE ends(from) == \/ chain[Len(chain)] = e.root
                          \/ Len(chain) = MaxChain
                          \/ from[chain[Len(chain)]] \notin Acting
<1>4. CASE c # NoPid
  <2>1. /\ p = c /\ t \in Acting /\ c \in Pid \ Joined
        /\ Joined' = Joined \cup {c} /\ Acting' = Acting \cup {c}
        /\ Creator' = [Creator EXCEPT ![c] = t]
        /\ Owner' = [Owner EXCEPT ![c] = IF Has(pid_whitelist, c)
                                         THEN pid_whitelist[c].root ELSE NoPid]
    BY <1>4, ReturnJoins DEF Reporter
  <2>2. parent[c] = t /\ status[c] = "new" /\ t # c
    BY <1>4 DEF AllInv, EntryInv, Steady
  <2>3. Has(pid_whitelist, t) /\ Has(pid_whitelist, c)
    BY <1>4
  <2>4. pid_whitelist[c] = e /\ e.root # c /\ pid_whitelist[t] = g[t] /\ g[t].root = e.root
    BY <1>2, <2>1, <2>2, <2>3 DEF Given, Known, Below
  <2>5. Owner[t] = e.root /\ e.root # NoPid /\ Owner' = [Owner EXCEPT ![c] = Owner[t]]
    BY <1>2, <2>1, <2>3, <2>4, PidAssumption DEF Owner, Acting
  <2>6. \A i \in 1 .. Len(chain) : Creator'[chain[i]] = parent[chain[i]]
    BY <1>3, <2>1, <2>2 DEF Creator
  <2>7. Policy!Ancestry(c, chain, Creator')
    BY <1>1, <2>1, <2>6 DEF Policy!Ancestry
  <2>8. ends(Creator')
    <3>1. Len(chain) \in 1 .. Len(chain)
      BY <1>1
    <3>. QED  BY <1>4, <2>6, <3>1 DEF Whole
  <2>9. Policy!Genuine(c, e.root, chain, Creator')
    BY <2>7, <2>8 DEF Policy!Genuine
  <2>10. c \notin Acting \cup (Joined \ Acting) /\ Joined' \ Acting' = Joined \ Acting
    BY <2>1 DEF Acting
  <2>11. Policy!Spawn(t, c, newest'.chain)
    BY <2>1, <2>5, <2>9, <2>10 DEF Policy!Spawn, Creator, Owner
  <2>. QED  BY <2>1, <2>11 DEF Policy!Next
<1>5. CASE c = NoPid
  <2>1. /\ p = tgid[t] /\ t \in Acting /\ Joined' = Joined /\ Acting' = Acting
        /\ Creator' = Creator /\ Owner' = Owner
    BY <1>5, ReturnJoins DEF Reporter
  <2>2. p \in Joined /\ \A i \in 1 .. Len(chain) : Creator[chain[i]] = parent[chain[i]]
    BY <1>1, <1>3, <1>5, PidAssumption DEF Creator
  <2>3. Policy!Ancestry(p, chain, Creator)
    BY <1>1, <2>2 DEF Policy!Ancestry
  <2>4. CASE p \in Acting
    <3>1. Has(pid_whitelist, p) /\ pid_whitelist[p] = e
      BY <1>2, <2>4 DEF Given, Acting, Live
    <3>2. Owner[p] = e.root /\ e.root # NoPid
      BY <1>1, <1>2, <2>2, <3>1, PidAssumption DEF Owner
    <3>3. ends(Creator)
      <4>1. Len(chain) \in 1 .. Len(chain)
        BY <1>1
      <4>. QED  BY <2>2, <2>4, <4>1 DEF Whole
    <3>4. Policy!Genuine(p, Owner[p], chain, Creator)
      BY <2>3, <3>2, <3>3 DEF Policy!Genuine
    <3>5. Policy!Report(p, newest'.chain)
      BY <2>1, <2>4, <3>2, <3>4 DEF Policy!Report, Creator, Owner
    <3>. QED  BY <1>1, <3>5 DEF Policy!Next
  <2>5. CASE p \notin Acting
    <3>1. Threads
      BY <1>2, <2>1, <2>5 DEF Grouped
    <3>2. Policy!LateReport(p, newest'.chain)
      BY <2>1, <2>2, <2>3, <2>5, <3>1 DEF Policy!LateReport, Creator, Owner
    <3>. QED  BY <1>1, <3>2 DEF Policy!Next
  <2>. QED  BY <2>4, <2>5
<1>. QED  BY <1>4, <1>5

\* The four places a record comes from.
LEMMA CapturePolicy ==
  ASSUME NEW g, AllInv(g), TypeInv', NEW t \in Pid, Capture(t)
  PROVE  Policy!Next \/ UNCHANGED Policy!vars
<1>. USE DEF AllInv, TreeInv
<1>0. tgid[t] \in Pid
  BY DEF TypeInv, TypeOK
<1>. PICK p \in Pid : p = tgid[t]
  BY <1>0
<1>. PICK e : e = pid_whitelist[p]
  OBVIOUS
<1>1. /\ status[t] = "run" /\ frame[t].pc = "idle" /\ frame[t].child = NoPid
      /\ Has(pid_whitelist, p) /\ PackSelf(t, p, e)
      /\ UNCHANGED <<tgid, comm, parent, pid_whitelist, agent_tree>>
  BY DEF Capture, Ready, maps, EntryInv, Steady
<1>2. e \in Entry /\ e = g[p] /\ Reporter(t) = p
  BY <1>1 DEF TypeInv, TypeOK, Given, Has, Lookup, Reporter
<1>3. CASE p = e.root
  <2>1. newest'.chain = <<p>> /\ Return(t)
    BY <1>1, <1>3 DEF PackSelf, Emit
  <2>2. Whole(t, e, <<p>>)
    BY <1>2, <1>3, SizeAssumption DEF Whole
  <2>. QED  BY <1>1, <1>2, <2>1, <2>2, EmitPolicy
<1>4. CASE p # e.root
  <2>. PICK F : F = [frame[t] EXCEPT !.pc = "first", !.entry = e, !.chain = <<p>>, !.cur = p]
    OBVIOUS
  <2>1. Goto(t, F) /\ UNCHANGED <<status, newest>>
    BY <1>1, <1>4 DEF PackSelf
  <2>2. F.pc = "first"
    BY DEF TypeInv, TypeOK, Frame
  <2>3. frame'[t] = F /\ \A u \in Pid \ {t} : frame'[u] = frame[u]
    BY <2>1, NewFrame
  <2>. QED  BY <1>1, <2>1, <2>2, <2>3, HiddenStep DEF At
<1>. QED  BY <1>3, <1>4

LEMMA PackParentPolicy ==
  ASSUME NEW g, AllInv(g), TypeInv', NEW t \in Pid, PackParent(t)
  PROVE  Policy!Next \/ UNCHANGED Policy!vars
<1>. USE DEF AllInv, TreeInv
<1>. PICK f : f = frame[t]
  OBVIOUS
<1>. PICK x : x = f.cur
  OBVIOUS
<1>1. /\ f.pc = "first" /\ status[t] = "run" /\ Framed(t, g)
      /\ UNCHANGED <<tgid, comm, parent, pid_whitelist, agent_tree>>
  BY DEF PackParent, At, maps, EntryInv, Steady
<1>2. /\ f.entry \in Entry /\ x \in Pid /\ f.chain = <<x>> /\ x = Reporter(t)
      /\ g[x] = f.entry /\ x # f.entry.root
      /\ f.child # NoPid =>
           Has(pid_whitelist, t) /\ Has(pid_whitelist, f.child) /\ Has(agent_tree, f.child)
  BY <1>1 DEF Framed
<1>3. CASE Lookup(agent_tree, x) = Absent
  <2>1. newest'.chain = <<x>> /\ Return(t)
    BY <1>2, <1>3 DEF PackParent, Emit
  <2>2. f.child = NoPid
    BY <1>2, <1>3 DEF Reporter, Has
  <2>3. x \notin Acting
    <3>. SUFFICES ASSUME x \in Acting PROVE FALSE
      OBVIOUS
    <3>1. Given(x, g) /\ Noded(x, g) /\ Framed(x, g) /\ status[x] = "run" /\ ~At(x, "exit_tree")
      BY <1>2 DEF Acting
    <3>2. Has(pid_whitelist, x) /\ pid_whitelist[x] = f.entry
      BY <1>2, <3>1, AbsentAssumption DEF Given, Live
    <3>3. ~At(x, "exec_tree")
      BY <1>2, <3>1, <3>2 DEF Framed, At, RootEntry
    <3>. QED  BY <1>3, <3>1, <3>2, <3>3 DEF Noded, Has
  <2>4. Whole(t, f.entry, <<x>>)
    BY <1>2, <2>2, <2>3, SizeAssumption DEF Whole
  <2>. QED  BY <1>1, <1>2, <2>1, <2>2, <2>4, EmitPolicy
<1>4. CASE Lookup(agent_tree, x) # Absent
  <2>. PICK F : F = [f EXCEPT !.pc = "walk", !.cur = Lookup(agent_tree, x).parent]
    OBVIOUS
  <2>1. Goto(t, F) /\ UNCHANGED <<status, newest>>
    BY <1>4 DEF PackParent
  <2>2. F.pc = "walk"
    BY DEF TypeInv, TypeOK, Frame
  <2>3. frame'[t] = F /\ \A u \in Pid \ {t} : frame'[u] = frame[u]
    BY <2>1, NewFrame
  <2>. QED  BY <1>1, <2>1, <2>2, <2>3, HiddenStep DEF At
<1>. QED  BY <1>3, <1>4

LEMMA ChainStepPolicy ==
  ASSUME NEW g, AllInv(g), LinkInv({}), TypeInv', NEW t \in Pid, ChainStep(t)
  PROVE  Policy!Next \/ UNCHANGED Policy!vars
<1>. USE DEF AllInv, TreeInv
<1>. PICK f : f = frame[t]
  OBVIOUS
<1>. PICK x : x = f.cur
  OBVIOUS
<1>. PICK longer : longer = Append(f.chain, x)
  OBVIOUS
<1>1. /\ f.pc = "walk" /\ status[t] = "run" /\ Framed(t, g) /\ f.chain \in Seq(Pid)
      /\ UNCHANGED <<tgid, comm, parent, pid_whitelist, agent_tree>>
  BY DEF ChainStep, At, maps, EntryInv, Steady, TypeInv, TypeOK, Frame
<1>2. /\ Climbing(f, g) /\ f.chain[1] = Reporter(t) /\ f.entry \in Entry
      /\ g[Reporter(t)] = f.entry
      /\ f.child # NoPid => Has(pid_whitelist, t) /\ Has(pid_whitelist, f.child)
  BY <1>1 DEF Framed
<1>3. \A i \in 1 .. Len(f.chain) - 1 : parent[f.chain[i]] = f.chain[i + 1]
  BY <1>1 DEF LinkInv, TrueFrame, TrueChain, Kin
<1>4. /\ x \in Pid /\ Len(f.chain) \in 1 .. MaxChain - 1 /\ x = parent[f.chain[Len(f.chain)]]
      /\ Reachable(x)
  BY <1>2 DEF Climbing, Last
<1>5. ASSUME NEW chain, newest' = [entry |-> f.entry, chain |-> chain], Return(t),
             Whole(t, f.entry, chain)
      PROVE  Policy!Next
  BY <1>1, <1>2, <1>5, EmitPolicy
<1>6. CASE Lookup(agent_tree, x) = Absent
  <2>1. newest' = [entry |-> f.entry, chain |-> f.chain] /\ Return(t)
    BY <1>6 DEF ChainStep, Emit
  <2>2. x \notin Acting
    BY <1>4, <1>6 DEF Reachable, Live, Acting, Has
  <2>3. Whole(t, f.entry, f.chain)
    BY <1>1, <1>2, <1>3, <1>4, <2>2, SizeAssumption DEF Whole
  <2>. QED  BY <1>5, <2>1, <2>3
<1>7. CASE Lookup(agent_tree, x) # Absent /\ ChainDone(f, longer)
  <2>1. newest' = [entry |-> f.entry, chain |-> longer] /\ Return(t)
    BY <1>7 DEF ChainStep, Emit
  <2>2. /\ longer \in Seq(Pid) /\ Len(longer) = Len(f.chain) + 1 /\ longer[1] = f.chain[1]
        /\ longer[Len(longer)] = x
        /\ \A i \in 1 .. Len(f.chain) : longer[i] = f.chain[i]
    BY <1>1, <1>4
  <2>3. ASSUME NEW i \in 1 .. Len(longer) - 1 PROVE parent[longer[i]] = longer[i + 1]
    <3>1. i \in 1 .. Len(f.chain) /\ longer[i] = f.chain[i] /\ Len(f.chain) \in Nat
      BY <1>1, <2>2
    <3>2. CASE i = Len(f.chain)
      BY <1>4, <2>2, <3>1, <3>2
    <3>3. CASE i # Len(f.chain)
      <4>1. i \in 1 .. Len(f.chain) - 1 /\ i + 1 \in 1 .. Len(f.chain)
        BY <3>1, <3>3
      <4>. QED  BY <1>3, <2>2, <3>1, <4>1
    <3>. QED  BY <3>2, <3>3
  <2>4. Len(longer) \in 1 .. MaxChain
    BY <1>4, <2>2, SizeAssumption
  <2>5. Whole(t, f.entry, longer)
    BY <1>2, <1>7, <2>2, <2>3, <2>4 DEF Whole, ChainDone
  <2>. QED  BY <1>5, <2>1, <2>5
<1>8. CASE Lookup(agent_tree, x) # Absent /\ ~ChainDone(f, longer)
  <2>. PICK F : F = [f EXCEPT !.chain = longer, !.cur = Lookup(agent_tree, x).parent]
    OBVIOUS
  <2>1. Goto(t, F) /\ UNCHANGED <<status, newest>>
    BY <1>8 DEF ChainStep
  <2>2. F.pc = "walk"
    BY <1>1 DEF TypeInv, TypeOK, Frame
  <2>3. frame'[t] = F /\ \A u \in Pid \ {t} : frame'[u] = frame[u]
    BY <2>1, NewFrame
  <2>. QED  BY <1>1, <2>1, <2>2, <2>3, HiddenStep DEF At
<1>. QED  BY <1>6, <1>7, <1>8

LEMMA ForkPolicy ==
  ASSUME NEW g, AllInv(g), TypeInv', NEW t \in Pid,
         ForkLookup(t) \/ ForkWhitelist(t) \/ ForkTree(t)
  PROVE  Policy!Next \/ UNCHANGED Policy!vars
<1>. USE DEF AllInv, TreeInv
<1>0. status[t] = "run" /\ Steady(t, {}) /\ frame[t].child \in Pid /\ frame[t].child # NoPid
  BY PidAssumption DEF ForkLookup, ForkWhitelist, ForkTree, At, EntryInv, Steady, TypeInv, FramesOK
<1>. PICK c \in Pid : c = frame[t].child
  BY <1>0
<1>1. c # NoPid /\ status[c] = "new" /\ parent[c] = t /\ c \notin Joined
  BY <1>0 DEF Steady, Joined
<1>2. CASE ForkLookup(t)
  <2>1. /\ frame[t].pc = "fork"
        /\ UNCHANGED <<tgid, comm, parent, pid_whitelist, agent_tree, newest>>
    BY <1>2 DEF ForkLookup, At, maps
  <2>2. CASE Lookup(pid_whitelist, t) = Absent
    <3>1. Return(t)
      BY <1>2, <2>2 DEF ForkLookup
    <3>2. ~Has(pid_whitelist, t) /\ ~Has(pid_whitelist, c)
      BY <1>0, <2>1, <2>2 DEF Steady, Bare, Has, Lookup
    <3>3. /\ t \in Acting /\ Joined' = Joined \cup {c} /\ Acting' = Acting \cup {c}
          /\ Creator' = [Creator EXCEPT ![c] = t] /\ Owner' = [Owner EXCEPT ![c] = NoPid]
      BY <1>0, <1>1, <2>1, <3>1, <3>2, ReturnJoins
    <3>4. Owner[t] = NoPid
      BY <3>2 DEF Owner
    <3>5. c \notin Acting \cup (Joined \ Acting) /\ Joined' \ Acting' = Joined \ Acting
      BY <1>1, <3>3 DEF Acting
    <3>6. Policy!Spawn(t, c, newest'.chain)
      BY <2>1, <3>3, <3>4, <3>5 DEF Policy!Spawn, Creator, Owner
    <3>. QED  BY <3>6 DEF Policy!Next
  <2>3. CASE Lookup(pid_whitelist, t) # Absent
    <3>. PICK F : F = [frame[t] EXCEPT !.pc = "fork_wl",
                                       !.entry = ChildEntry(t, Lookup(pid_whitelist, t))]
      OBVIOUS
    <3>1. Goto(t, F) /\ UNCHANGED status
      BY <1>2, <2>3 DEF ForkLookup
    <3>2. F.pc = "fork_wl"
      BY DEF TypeInv, TypeOK, Frame
    <3>3. frame'[t] = F /\ \A u \in Pid \ {t} : frame'[u] = frame[u]
      BY <3>1, NewFrame
    <3>. QED  BY <2>1, <3>1, <3>2, <3>3, HiddenStep DEF At
  <2>. QED  BY <2>2, <2>3
<1>3. CASE ForkWhitelist(t)
  <2>1. /\ frame[t].pc = "fork_wl" /\ UNCHANGED <<status, parent, newest>>
        /\ pid_whitelist' = Put(pid_whitelist, WlCap, c, frame[t].entry)
    BY <1>3 DEF ForkWhitelist, At, kernel
  <2>2. frame'[t].pc = "fork_tree" /\ \A u \in Pid \ {t} : frame'[u] = frame[u]
    BY <1>3 DEF ForkWhitelist, GotoPc, Goto, Frame, TypeInv, TypeOK
  <2>3. \A p \in Joined : pid_whitelist'[p] = pid_whitelist[p]
    BY <1>1, <2>1 DEF Put, Joined, TypeInv, TypeOK
  <2>. QED  BY <2>1, <2>2, <2>3, HiddenStep DEF At
<1>4. CASE ForkTree(t)
  <2>. PICK e : e = frame[t].entry
    OBVIOUS
  <2>1. /\ frame[t].pc = "fork_tree" /\ PackSelf(t, c, e) /\ Framed(t, g) /\ Given(c, g)
        /\ UNCHANGED <<parent, pid_whitelist>> /\ e \in Entry
    BY <1>4 DEF ForkTree, At, TypeInv, FramesOK
  <2>2. e = g[c] /\ e # Absent
    BY <2>1, AbsentAssumption DEF Framed, Given, Has, Lookup, TypeInv, TypeOK
  <2>3. c # e.root
    BY <1>1, <2>1, <2>2 DEF Given, Known
  <2>. PICK F : F = [frame[t] EXCEPT !.pc = "first", !.entry = e, !.chain = <<c>>, !.cur = c]
    OBVIOUS
  <2>4. Goto(t, F) /\ UNCHANGED <<status, newest>>
    BY <2>1, <2>3 DEF PackSelf
  <2>5. F.pc = "first"
    BY DEF TypeInv, TypeOK, Frame
  <2>6. frame'[t] = F /\ \A u \in Pid \ {t} : frame'[u] = frame[u]
    BY <2>4, NewFrame
  <2>. QED  BY <2>1, <2>4, <2>5, <2>6, HiddenStep DEF At
<1>. QED  BY <1>2, <1>3, <1>4

LEMMA ExecPolicy ==
  ASSUME Room, NEW g, AllInv(g), TypeInv', NEW t \in Pid,
         \/ \E c \in Comm : ExecStart(t, c)
         \/ ExecLookup(t) \/ ExecKnown(t) \/ ExecPut(t)
         \/ ExecMatch(t) \/ ExecWhitelist(t) \/ ExecTree(t)
  PROVE  Policy!Next \/ UNCHANGED Policy!vars
<1>. USE DEF AllInv, TreeInv
<1>1. CASE ~ExecWhitelist(t)
  <2>1. /\ ~At(t, "exit_tree") /\ UNCHANGED <<status, parent, pid_whitelist, newest>>
    BY <1>1 DEF ExecStart, ExecLookup, ExecKnown, ExecPut, ExecMatch, ExecTree, Ready, At,
                kernel, maps
  <2>2. \E f : Goto(t, f) /\ f.pc # "exit_tree"
    <3>1. CASE Goto(t, Idle)
      BY <3>1, IdleType
    <3>2. ASSUME NEW pc \in {"exec", "exec_known", "exec_new", "exec_wl"}, GotoPc(t, pc)
          PROVE  \E f : Goto(t, f) /\ f.pc # "exit_tree"
      <4>1. [frame[t] EXCEPT !.pc = pc].pc = pc
        BY DEF TypeInv, TypeOK, Frame
      <4>. QED  BY <3>2, <4>1 DEF GotoPc
    <3>3. ASSUME NEW n, Goto(t, [frame[t] EXCEPT !.pc = "exec_put", !.node = n])
          PROVE  \E f : Goto(t, f) /\ f.pc # "exit_tree"
      <4>1. [frame[t] EXCEPT !.pc = "exec_put", !.node = n].pc = "exec_put"
        BY DEF TypeInv, TypeOK, Frame
      <4>. QED  BY <3>3, <4>1
    <3>. QED
      BY <1>1, <3>1, <3>2, <3>3 DEF ExecStart, ExecLookup, ExecKnown, ExecPut, ExecMatch, ExecTree
  <2>. PICK f : Goto(t, f) /\ f.pc # "exit_tree"
    BY <2>2
  <2>3. frame'[t] = f /\ \A u \in Pid \ {t} : frame'[u] = frame[u]
    BY NewFrame
  <2>. QED  BY <2>1, <2>3, HiddenStep DEF At
<1>2. CASE ExecWhitelist(t)
  <2>1. /\ status[t] = "run" /\ frame[t].pc = "exec_wl" /\ Bare(t, {})
        /\ UNCHANGED <<status, parent, newest>>
    BY <1>2 DEF ExecWhitelist, At, kernel, EntryInv, Steady
  <2>2. frame'[t].pc = "exec_tree" /\ \A u \in Pid \ {t} : frame'[u] = frame[u]
    BY <1>2 DEF ExecWhitelist, GotoPc, Goto, Frame, TypeInv, TypeOK
  <2>. PICK e : e = [root |-> t, depth |-> 0]
    OBVIOUS
  <2>3. pid_whitelist' = [pid_whitelist EXCEPT ![t] = e] /\ e \in Entry /\ e # Absent /\ e.root = t
    BY <1>2, PutFits, SizeAssumption, AbsentAssumption DEF ExecWhitelist, Entry
  <2>4. \A p \in Pid : At(p, "exit_tree")' <=> At(p, "exit_tree")
    BY <2>1, <2>2 DEF At
  <2>5. Joined' = Joined /\ Acting' = Acting /\ t \in Acting
    BY <2>1, <2>4, SameTasks DEF Acting, Joined, At
  <2>6. Creator' = Creator
    BY <2>1, <2>5 DEF Creator
  <2>7. Owner[t] = NoPid
    BY <2>1 DEF Owner, Bare, Has, Lookup
  <2>8. /\ Has(pid_whitelist, t)' /\ pid_whitelist'[t].root = t
        /\ \A p \in Pid \ {t} : /\ pid_whitelist'[p] = pid_whitelist[p]
                                /\ Has(pid_whitelist, p)' <=> Has(pid_whitelist, p)
    BY <2>3 DEF Has, Lookup, TypeInv, TypeOK
  <2>9. Owner' = [Owner EXCEPT ![t] = t]
    BY <2>5, <2>8 DEF Owner, Acting
  <2>10. Policy!Enlist(t)
    BY <2>1, <2>5, <2>6, <2>7, <2>9 DEF Policy!Enlist, Creator, Owner
  <2>. QED  BY <2>10 DEF Policy!Next
<1>. QED  BY <1>1, <1>2

\* The kernel's steps.
LEMMA ForkStartPolicy ==
  ASSUME NEW g, AllInv(g), TypeInv', NEW t \in Pid, NEW c \in Pid, NEW thread \in BOOLEAN,
         ForkStart(t, c, thread)
  PROVE  UNCHANGED Policy!vars
<1>. USE DEF AllInv, TypeInv, TypeOK
<1>1. /\ status[t] = "run" /\ status[c] = "free" /\ frame[t].pc = "idle"
      /\ status' = [status EXCEPT ![c] = "new"] /\ parent' = [parent EXCEPT ![c] = t]
      /\ UNCHANGED <<pid_whitelist, newest>>
  BY DEF ForkStart, Ready, maps
<1>2. frame'[t].pc = "fork" /\ \A u \in Pid \ {t} : frame'[u] = frame[u]
  BY DEF ForkStart, Goto, Idle
<1>3. \A p \in Pid : At(p, "exit_tree")' <=> At(p, "exit_tree")
  BY <1>1, <1>2 DEF At
<1>4. Joined' = Joined /\ c \notin Joined
  BY <1>1 DEF Joined
<1>5. Acting' = Acting
  BY <1>1, <1>3, <1>4 DEF Acting, Joined
<1>6. \A p \in Joined : parent'[p] = parent[p] /\ pid_whitelist'[p] = pid_whitelist[p]
  BY <1>1, <1>4 DEF Joined
<1>. QED  BY <1>1, <1>4, <1>5, <1>6, Hidden

LEMMA ExitPolicy ==
  ASSUME ~PidReuse, NEW g, AllInv(g), TypeInv', NEW t \in Pid, ExitWhitelist(t)
  PROVE  Policy!Next \/ UNCHANGED Policy!vars
<1>. USE DEF AllInv, TreeInv
<1>1. status[t] = "run" /\ frame[t].pc = "idle" /\ UNCHANGED newest /\ t \in Acting
  BY DEF ExitWhitelist, Ready, Acting, Joined, At
<1>2. /\ Joined' = Joined /\ Acting' = Acting \ {t} /\ parent' = parent
      /\ ~Has(pid_whitelist, t)'
      /\ \A p \in Pid \ {t} : /\ pid_whitelist'[p] = pid_whitelist[p]
                              /\ Has(pid_whitelist, p)' <=> Has(pid_whitelist, p)
  <2>1. CASE ~Has(pid_whitelist, t)
    <3>1. Die(t) /\ UNCHANGED <<pid_whitelist, frame>>
      BY <2>1 DEF ExitWhitelist
    <3>2. \A p \in Pid : At(p, "exit_tree")' <=> At(p, "exit_tree")
      BY <3>1 DEF At
    <3>3. /\ status'[t] \in {"zombie", "gone"} /\ parent' = parent
          /\ \A u \in Pid \ {t} : status'[u] = status[u]
      BY <3>1, DieKernel
    <3>4. Joined' = Joined
      BY <1>1, <3>3 DEF Joined
    <3>5. Acting' = Acting \ {t}
      BY <3>2, <3>3, <3>4 DEF Acting, Joined
    <3>. QED  BY <2>1, <3>1, <3>3, <3>4, <3>5 DEF Has, Lookup
  <2>2. CASE Has(pid_whitelist, t)
    <3>1. pid_whitelist' = Del(pid_whitelist, t) /\ UNCHANGED <<status, parent>>
      BY <2>2 DEF ExitWhitelist, kernel
    <3>2. frame'[t].pc = "exit_tree" /\ \A u \in Pid \ {t} : frame'[u] = frame[u]
      BY <2>2 DEF ExitWhitelist, GotoPc, Goto, Frame, TypeInv, TypeOK
    <3>3. /\ \A p \in Pid \ {t} : At(p, "exit_tree")' <=> At(p, "exit_tree")
          /\ At(t, "exit_tree")'
      BY <3>2 DEF At
    <3>4. Joined' = Joined
      BY <3>1 DEF Joined
    <3>5. Acting' = Acting \ {t}
      BY <3>1, <3>3, <3>4 DEF Acting, Joined
    <3>. QED  BY <3>1, <3>4, <3>5 DEF Del, Has, Lookup, TypeInv, TypeOK
  <2>. QED  BY <2>1, <2>2
<1>3. Creator' = Creator
  BY <1>2 DEF Creator
<1>4. Owner' = [Owner EXCEPT ![t] = NoPid]
  BY <1>2 DEF Owner
<1>5. Joined' \ Acting' = (Joined \ Acting) \cup {t}
  BY <1>1, <1>2 DEF Acting
<1>6. Policy!Leave(t)
  BY <1>1, <1>2, <1>3, <1>4, <1>5 DEF Policy!Leave, Creator, Owner
<1>. QED  BY <1>6 DEF Policy!Next

LEMMA GonePolicy ==
  ASSUME ~PidReuse, NEW g, AllInv(g), TypeInv', NEW t \in Pid, ExitTree(t) \/ Reap(t)
  PROVE  UNCHANGED Policy!vars
<1>. USE DEF AllInv, TypeInv, TypeOK
<1>1. /\ Die(t) \/ Release(t)
      /\ status[t] \in {"run", "zombie"} /\ t \notin Acting
      /\ UNCHANGED <<pid_whitelist, newest>>
  BY DEF ExitTree, Reap, Acting, At, maps, EntryInv, Steady
<1>2. /\ status'[t] \in {"zombie", "gone"} /\ parent' = parent
      /\ \A u \in Pid \ {t} : status'[u] = status[u]
  BY <1>1, DieKernel
<1>3. \A p \in Pid \ {t} : At(p, "exit_tree")' <=> At(p, "exit_tree")
  BY NewFrame DEF ExitTree, Reap, At
<1>4. Joined' = Joined
  BY <1>1, <1>2 DEF Joined
<1>5. Acting' = Acting
  BY <1>1, <1>2, <1>3, <1>4 DEF Acting, Joined
<1>. QED  BY <1>1, <1>2, <1>4, <1>5, Hidden

LEMMA PolicyStep ==
  ASSUME Guarded, TreeAlways, LinkInv({}), [Next]_treeVars
  PROVE  Policy!Next \/ UNCHANGED Policy!vars
<1>. USE DEF Guarded
<1>1. PICK g \in GivenMap : AllInv(g)
  BY DEF TreeAlways
<1>2. TypeInv'
  BY <1>1, TypeStep DEF AllInv
<1>3. ASSUME NEW t \in Pid, TaskStep(t) PROVE Policy!Next \/ UNCHANGED Policy!vars
  <2>1. CASE Capture(t)
    BY <1>1, <1>2, <2>1, CapturePolicy
  <2>2. CASE \E c \in Pid, thread \in BOOLEAN : ForkStart(t, c, thread)
    BY <1>1, <1>2, <2>2, ForkStartPolicy
  <2>3. CASE \E c \in Comm : ExecStart(t, c)
    BY <1>1, <1>2, <2>3, ExecPolicy
  <2>4. CASE ExitWhitelist(t)
    BY <1>1, <1>2, <2>4, ExitPolicy
  <2>5. CASE Reap(t)
    BY <1>1, <1>2, <2>5, GonePolicy
  <2>. QED  BY <1>3, <2>1, <2>2, <2>3, <2>4, <2>5 DEF TaskStep
<1>4. ASSUME NEW t \in Pid, HandlerStep(t) PROVE Policy!Next \/ UNCHANGED Policy!vars
  <2>1. CASE PackParent(t)
    BY <1>1, <1>2, <2>1, PackParentPolicy
  <2>2. CASE ChainStep(t)
    BY <1>1, <1>2, <2>2, ChainStepPolicy
  <2>3. CASE ForkLookup(t) \/ ForkWhitelist(t) \/ ForkTree(t)
    BY <1>1, <1>2, <2>3, ForkPolicy
  <2>4. CASE \/ ExecLookup(t) \/ ExecKnown(t) \/ ExecPut(t)
             \/ ExecMatch(t) \/ ExecWhitelist(t) \/ ExecTree(t)
    BY <1>1, <1>2, <2>4, ExecPolicy
  <2>5. CASE ExitTree(t)
    BY <1>1, <1>2, <2>5, GonePolicy
  <2>. QED  BY <1>4, <2>1, <2>2, <2>3, <2>4, <2>5 DEF HandlerStep
<1>5. CASE UNCHANGED treeVars
  <2>1. UNCHANGED <<status, parent, pid_whitelist, frame, newest>>
    BY <1>5 DEF treeVars
  <2>2. Joined' = Joined /\ Acting' = Acting
    BY <2>1, SameTasks DEF At
  <2>. QED  BY <1>1, <1>2, <2>1, <2>2, Hidden DEF AllInv
<1>. QED  BY <1>3, <1>4, <1>5 DEF Next

LEMMA PolicyInit == Init => Policy!Init
<1>. SUFFICES ASSUME Init PROVE Policy!Init
  OBVIOUS
<1>. USE DEF Init, TreeInit
<1>1. Acting = Joined /\ Acting \subseteq Pid
  BY IdleType DEF Acting, Joined, At
<1>2. Creator = [p \in Pid |-> NoPid]
  BY DEF Creator
<1>3. Owner = [p \in Pid |-> NoPid]
  BY DEF Owner, Has, Lookup
<1>. QED  BY <1>1, <1>2, <1>3 DEF Policy!Init, Creator, Owner, NoEvent

\* The handlers implement the policy, for any number of tasks, threads, names and CPUs:
\* however the map operations of different tasks interleave, it looks as if every fork,
\* exec, exit and record took effect at once, and as the policy says.
THEOREM PolicyImplemented == Guarded => (Spec => ImplementsPolicy)
<1>. SUFFICES ASSUME Guarded PROVE Spec => ImplementsPolicy
  OBVIOUS
<1>1. Init => LinkInv({})
  BY LinkInit DEF Init
<1>2. TypeInv /\ LinkInv({}) /\ [Next]_treeVars => LinkInv({})'
  BY LinkStep DEF Guarded
<1>3. TreeAlways => TypeInv
  BY DEF TreeAlways, AllInv
<1>4. TreeAlways /\ LinkInv({}) /\ [Next]_treeVars => [Policy!Next]_Policy!vars
  BY PolicyStep
<1>. QED
  BY <1>1, <1>2, <1>3, <1>4, TreeStart, TreeKept, PolicyInit, PTL
     DEF Spec, ImplementsPolicy, Policy!Spec

===========================================================================
