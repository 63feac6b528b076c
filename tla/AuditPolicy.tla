---------------------------- MODULE AuditPolicy ----------------------------
(***************************************************************************)
(* What the kernel side promises, with no maps and no handlers: a task     *)
(* that runs a target program becomes a root, every task inherits the root *)
(* of its creator in the same step that brings it to life, keeps it until  *)
(* it dies, and each report names the reporting task and its true          *)
(* ancestors, nearest first.                                               *)
(***************************************************************************)
EXTENDS Naturals, Sequences

CONSTANTS Pid, NoPid, MaxChain, Threads

VARIABLES
  running,    \* tasks that can act
  dead,       \* tasks that acted once
  creator,    \* the task that created a task
  owner,      \* the root a task is audited for, NoPid if it is not
  report      \* the chain of the newest report

vars == <<running, dead, creator, owner, report>>

Init ==
  /\ running \subseteq Pid
  /\ dead = {}
  /\ creator = [p \in Pid |-> NoPid]
  /\ owner = [p \in Pid |-> NoPid]
  /\ report = <<>>

\* chain is an ancestry of p, no longer than MaxChain.
Ancestry(p, chain, from) ==
  /\ Len(chain) \in 1 .. MaxChain
  /\ chain[1] = p
  /\ \A i \in 1 .. Len(chain) - 1 : from[chain[i]] = chain[i + 1]

\* It goes up to the root r, cut off at MaxChain or at the first ancestor that is no
\* longer alive.
Genuine(p, r, chain, from) ==
  /\ Ancestry(p, chain, from)
  /\ \/ chain[Len(chain)] = r
     \/ Len(chain) = MaxChain
     \/ from[chain[Len(chain)]] \notin running

Spawn(p, c, chain) ==
  /\ p \in running /\ c \notin running \cup dead
  /\ running' = running \cup {c}
  /\ creator' = [creator EXCEPT ![c] = p]
  /\ owner' = [owner EXCEPT ![c] = owner[p]]
  /\ \/ owner[p] = NoPid /\ UNCHANGED report
     \/ /\ owner[p] # NoPid
        /\ Genuine(c, owner[p], chain, creator')
        /\ report' = chain
  /\ UNCHANGED dead

Enlist(p) ==
  /\ p \in running /\ owner[p] = NoPid
  /\ owner' = [owner EXCEPT ![p] = p]
  /\ UNCHANGED <<running, dead, creator, report>>

Leave(p) ==
  /\ p \in running
  /\ running' = running \ {p}
  /\ dead' = dead \cup {p}
  /\ owner' = [owner EXCEPT ![p] = NoPid]
  /\ UNCHANGED <<creator, report>>

Report(p, chain) ==
  /\ p \in running /\ owner[p] # NoPid
  /\ Genuine(p, owner[p], chain, creator)
  /\ report' = chain
  /\ UNCHANGED <<running, dead, creator, owner>>

\* A process whose first thread is gone reports as long as another one runs; the chain
\* is true, but may end anywhere.
LateReport(p, chain) ==
  /\ Threads /\ p \in dead
  /\ Ancestry(p, chain, creator)
  /\ report' = chain
  /\ UNCHANGED <<running, dead, creator, owner>>

\* The chain of a step that reports is what report becomes.
Next ==
  \E p \in Pid :
    \/ \E c \in Pid : Spawn(p, c, report')
    \/ Enlist(p)
    \/ Leave(p)
    \/ Report(p, report')
    \/ LateReport(p, report')

Spec == Init /\ [][Next]_vars
===========================================================================
