------------------------------- MODULE EventLog -------------------------------
(***************************************************************************)
(* The way of a record from a kernel handler to the audit log.             *)
(*                                                                         *)
(* A handler stamps its record with the time and puts it into the LRU map  *)
(* `events' under that time (ebpf/audit.bpf.c).  The daemon's loop         *)
(* (daemon.py) has the loader empty the map into a text of fixed size      *)
(* (loader.c), parses the text, drops what it has seen (bpf_loader.py) and *)
(* writes the rest, while handlers on other CPUs go on.                    *)
(*                                                                         *)
(* What the records say is left out but for the length of their data, and  *)
(* so is which calls are reads and writes.                                 *)
(* External: the clock, the order in which the kernel lists keys (any),    *)
(* the victim of the LRU map (any, once the map is full), and that the     *)
(* programs are detached when the daemon's process ends.                   *)
(***************************************************************************)
EXTENDS BpfMap, Sequences

CONSTANTS
  Cpu,            \* CPUs that run handlers
  MaxRecords,     \* bound: records made
  MaxTs,          \* bound: values of the clock
  MapCap,         \* max_entries of events: 65536
  Lens,           \* lengths of a record's data, escaped
  HeadLen,        \* length of the rest of its text before the data
  TailLen,        \* and after the data
  BufSize,        \* sizeof(g_json_buf): 262144
  MaxExp,         \* first n with 2 ** n too large for a float: 1024
  MaxIdle,        \* bound: polls in a row that find nothing
  Exits           \* whether a process can exit while the daemon reads its stat

ASSUME CountAssumption ==
  /\ MaxRecords \in Nat /\ MaxTs \in Nat \ {0}
  /\ MapCap \in Nat \ {0} /\ MaxExp \in Nat \ {0} /\ MaxIdle \in Nat
ASSUME TextAssumption ==
  /\ Lens \subseteq Nat /\ HeadLen \in Nat /\ TailLen \in Nat
  /\ BufSize \in Nat \ {0, 1, 2}
ASSUME ExitsAssumption == Exits \in BOOLEAN

Id     == 1 .. MaxRecords
Time   == 1 .. MaxTs
Record == [id : Id, ts : Time, len : Lens]

ASSUME NoRecordAssumption == Absent \notin Record

VARIABLES
  clock,      \* bpf_ktime_get_ns()
  made,       \* history: the records stamped so far
  scratch,    \* per CPU: the record its handler is about to put
  events,
  poll,       \* the locals of run_loop, fetch_events and bpf_dump_events
  seen,       \* seen_events
  log,        \* the lines of the audit log
  stopping,   \* ~_run_loop_flag
  lost        \* history: records given up, and at which step

vars == <<clock, made, scratch, events, poll, seen, log, stopping, lost>>

\* used and broken: the text so far, its length and whether a piece of its
\* structure is missing; batch: the entries in it, whole if they have their data.
Line == [rec : Record, whole : BOOLEAN]
Poll == [pc     : {"top", "next", "take", "parse", "write", "down", "crashed"},
         key    : 0 .. MaxTs,
         used   : 0 .. BufSize - 2,
         broken : BOOLEAN,
         batch  : Seq(Line),
         idle   : 0 .. MaxExp - 1]

Up        == poll.pc \notin {"down", "crashed"}
IdsOf(s)  == {s[i].rec.id : i \in DOMAIN s}
GiveUp(ids, why) == lost' = lost \cup (ids \X {why})
---------------------------------------------------------------------------
Tick ==
  /\ clock < MaxTs
  /\ clock' = clock + 1
  /\ UNCHANGED <<made, scratch, events, poll, seen, log, stopping, lost>>

\* A handler fills the scratch record of its CPU, the time included ...
Stamp(c, len) ==
  /\ Up /\ scratch[c] = Absent /\ Len(made) < MaxRecords
  /\ LET r == [id |-> Len(made) + 1, ts |-> clock, len |-> len]
     IN  made' = Append(made, r) /\ scratch' = [scratch EXCEPT ![c] = r]
  /\ UNCHANGED <<clock, events, poll, seen, log, stopping, lost>>

\* ... and puts it into the map, over a record of the same time or in place of
\* an old one if need be.
Insert(c) ==
  LET r == scratch[c]
  IN  /\ r # Absent
      /\ scratch' = [scratch EXCEPT ![c] = Absent]
      /\ \/ /\ Accepts(events, MapCap, r.ts)
            /\ events' = Put(events, MapCap, r.ts, r)
            /\ UNCHANGED lost
         \/ /\ ~Accepts(events, MapCap, r.ts)
            /\ \E k \in Keys(events) :
                 /\ events' = [events EXCEPT ![k] = Absent, ![r.ts] = r]
                 /\ GiveUp({events[k].id}, "evicted")
      /\ UNCHANGED <<clock, made, poll, seen, log, stopping>>
---------------------------------------------------------------------------
\* Mutant: the NUL that ends the text is forgotten.
Fits_NoNul(pos, n) == pos + n <= BufSize

\* json_append: a piece that does not fit is left out, whatever comes later.
Fits(pos, n) == pos + n < BufSize - 1

\* The text after one more entry: separator, head and tail are its structure.
WithEntry(r) ==
  LET first == poll.batch = <<>>
      head  == HeadLen + (IF first THEN 0 ELSE 1)
      h     == Fits(poll.used, head)
      p1    == IF h THEN poll.used + head ELSE poll.used
      d     == Fits(p1, r.len)
      p2    == IF d THEN p1 + r.len ELSE p1
      t     == Fits(p2, TailLen)
      p3    == IF t THEN p2 + TailLen ELSE p2
  IN  [poll EXCEPT !.pc = "next", !.key = 0,
                   !.used = p3,
                   !.broken = @ \/ ~h \/ ~t,
                   !.batch = Append(@, [rec |-> r, whole |-> d])]

\* Mutant: run_loop sets its flag to true, a request that came early is lost.
BeginPoll_Resets ==
  /\ poll.pc = "top"
  /\ poll.idle < MaxIdle \/ Keys(events) # {} \/ stopping
  /\ poll' = [poll EXCEPT !.pc = "next", !.used = 1, !.broken = FALSE]
  /\ stopping' = FALSE
  /\ UNCHANGED <<clock, made, scratch, events, seen, log, lost>>

\* Mutant: the position in the text is not set back.
BeginPoll_Appends ==
  /\ poll.pc = "top"
  /\ \/ stopping /\ poll' = [poll EXCEPT !.pc = "down"]
     \/ /\ ~stopping
        /\ poll.idle < MaxIdle \/ Keys(events) # {}
        /\ poll' = [poll EXCEPT !.pc = "next", !.broken = FALSE,
                                !.used = IF Fits(@, 1) THEN @ + 1 ELSE @]
  /\ UNCHANGED <<clock, made, scratch, events, seen, log, stopping, lost>>

\* The head of run_loop's while: the only place that looks at the flag.  The
\* text starts with its bracket.
BeginPoll ==
  /\ poll.pc = "top"
  /\ \/ stopping /\ poll' = [poll EXCEPT !.pc = "down"]
     \/ /\ ~stopping
        /\ poll.idle < MaxIdle \/ Keys(events) # {}
        /\ poll' = [poll EXCEPT !.pc = "next", !.used = 1, !.broken = FALSE]
  /\ UNCHANGED <<clock, made, scratch, events, seen, log, stopping, lost>>

\* bpf_map_get_next_key after a key that is gone starts over, so it finds
\* nothing only when the map is empty.
NextKey ==
  /\ poll.pc = "next"
  /\ \/ \E k \in Keys(events) :
          poll' = [poll EXCEPT !.pc = "take", !.key = k]
     \/ /\ Keys(events) = {}
        /\ poll' = [poll EXCEPT !.pc = "parse"]
  /\ UNCHANGED <<clock, made, scratch, events, seen, log, stopping, lost>>

\* Mutant: a lookup that does not delete.
Take_Keeps ==
  /\ poll.pc = "take"
  /\ \/ /\ ~Has(events, poll.key)
        /\ poll' = [poll EXCEPT !.pc = "next", !.key = 0]
     \/ /\ Has(events, poll.key)
        /\ poll' = WithEntry(events[poll.key])
  /\ UNCHANGED <<clock, made, scratch, events, seen, log, stopping, lost>>

\* Mutant: the call always fails, as in a kernel without it for LRU maps.
Take_Fails ==
  /\ poll.pc = "take"
  /\ poll' = [poll EXCEPT !.pc = "next", !.key = 0]
  /\ UNCHANGED <<clock, made, scratch, events, seen, log, stopping, lost>>

\* bpf_map_lookup_and_delete_elem fails if the key was evicted meanwhile.
Take ==
  /\ poll.pc = "take"
  /\ \/ /\ ~Has(events, poll.key)
        /\ poll' = [poll EXCEPT !.pc = "next", !.key = 0]
        /\ UNCHANGED events
     \/ /\ Has(events, poll.key)
        /\ poll' = WithEntry(events[poll.key])
        /\ events' = Del(events, poll.key)
  /\ UNCHANGED <<clock, made, scratch, seen, log, stopping, lost>>
---------------------------------------------------------------------------
\* fetch_events: a text that is no JSON counts as no events.
Parsed == IF poll.broken \/ ~Fits(poll.used, 1) THEN <<>> ELSE poll.batch

\* Mutant: it stops at the first one seen.
Unseen_Stops(s) ==
  SubSeq(s, 1, Cardinality({i \in DOMAIN s : \A j \in 1 .. i : s[j].rec.ts \notin seen}))

\* deduplicate_events: what had not been seen before this batch, in its order.
Unseen(s) ==
  LET new    == {i \in DOMAIN s : s[i].rec.ts \notin seen}
      nth(n) == CHOOSE i \in new : Cardinality({j \in new : j <= i}) = n
  IN  [n \in 1 .. Cardinality(new) |-> s[nth(n)]]

Times(s) == {s[i].rec.ts : i \in DOMAIN s}

\* A poll without events lengthens the interval, 2 ** empty_count times.
NothingNew ==
  poll' = IF poll.idle + 1 = MaxExp
          THEN [poll EXCEPT !.pc = "crashed", !.batch = <<>>]
          ELSE [poll EXCEPT !.pc = "top", !.batch = <<>>, !.idle = @ + 1]

\* Mutant: the map is cleared when its text has been read.
Parse_Clears ==
  LET unique == Unseen(Parsed)
  IN  /\ poll.pc = "parse"
      /\ seen' = seen \cup Times(unique)
      /\ \/ unique = <<>> /\ NothingNew
         \/ /\ unique # <<>>
            /\ poll' = [poll EXCEPT !.pc = "write", !.batch = unique, !.idle = 0]
      /\ IF Parsed = poll.batch THEN UNCHANGED lost
                                ELSE GiveUp(IdsOf(poll.batch), "unparsed")
      /\ events' = [k \in Time |-> Absent]
      /\ UNCHANGED <<clock, made, scratch, log, stopping>>

\* The end of bpf_dump_events, fetch_events, deduplicate_events; if nothing is
\* left the adaptive interval grows.
Parse ==
  LET unique == Unseen(Parsed)
  IN  /\ poll.pc = "parse"
      /\ seen' = seen \cup Times(unique)
      /\ \/ unique = <<>> /\ NothingNew
         \/ /\ unique # <<>>
            /\ poll' = [poll EXCEPT !.pc = "write", !.batch = unique, !.idle = 0]
      /\ IF Parsed = poll.batch THEN UNCHANGED lost
                                ELSE GiveUp(IdsOf(poll.batch), "unparsed")
      /\ UNCHANGED <<clock, made, scratch, events, log, stopping>>

\* What the entries that are left make of the loop.
Rest(s) == [poll EXCEPT !.batch = s, !.pc = IF s = <<>> THEN "top" ELSE "write"]

\* One event: its line is built and written; or it is noise, a read or write of a
\* terminal, a socket, a pipe or a descriptor closed meanwhile; and if its process exits between open() and
\* read() of /proc/<pid>/stat the ProcessLookupError ends the daemon.
Write ==
  LET e == Head(poll.batch)
  IN  /\ poll.pc = "write"
      /\ \/ /\ log' = Append(log, e)
            /\ poll' = Rest(Tail(poll.batch))
            /\ UNCHANGED lost
         \/ /\ GiveUp({e.rec.id}, "noise")
            /\ poll' = Rest(Tail(poll.batch))
            /\ UNCHANGED log
         \/ /\ Exits
            /\ GiveUp(IdsOf(poll.batch), "crash")
            /\ poll' = [poll EXCEPT !.pc = "crashed", !.batch = <<>>]
            /\ UNCHANGED log
      /\ UNCHANGED <<clock, made, scratch, events, seen, stopping>>

\* SIGTERM or SIGINT.
Stop ==
  /\ Up /\ ~stopping
  /\ stopping' = TRUE
  /\ UNCHANGED <<clock, made, scratch, events, poll, seen, log, lost>>
---------------------------------------------------------------------------
Init ==
  /\ clock = 1
  /\ made = <<>>
  /\ scratch = [c \in Cpu |-> Absent]
  /\ events = [t \in Time |-> Absent]
  /\ poll = [pc |-> "top", key |-> 0, used |-> 0, broken |-> FALSE,
             batch |-> <<>>, idle |-> 0]
  /\ seen = {} /\ log = <<>> /\ stopping = FALSE /\ lost = {}

DaemonStep == BeginPoll \/ NextKey \/ Take \/ Parse \/ Write

Next ==
  \/ Tick \/ Stop \/ DaemonStep
  \/ \E c \in Cpu, len \in Lens : Stamp(c, len)
  \/ \E c \in Cpu : Insert(c)

\* A handler that has stamped its record is not preempted for ever, and neither
\* is the daemon; nobody has to make a record or to stop the daemon.
Spec ==
  /\ Init /\ [][Next]_vars
  /\ WF_vars(DaemonStep)
  /\ \A c \in Cpu : WF_vars(Insert(c))
---------------------------------------------------------------------------
Places == {"scratch", "map", "batch", "log", "lost"}

\* Where a record is.
In(i, place) ==
  CASE place = "scratch" -> \E c \in Cpu : scratch[c] # Absent /\ scratch[c].id = i
    [] place = "map"     -> \E t \in Keys(events) : events[t].id = i
    [] place = "batch"   -> i \in IdsOf(poll.batch)
    [] place = "log"     -> i \in IdsOf(log)
    [] place = "lost"    -> \E why \in {"evicted", "unparsed", "noise", "crash"} :
                              <<i, why>> \in lost

NoRepeats(s) == \A i, j \in DOMAIN s : s[i].rec = s[j].rec => i = j

\* The text and the NUL behind it never leave g_json_buf, a record in the map is
\* there under its own time, and everything else has its type.
LogTypeOK ==
  /\ clock \in Time
  /\ made \in Seq(Record) /\ Len(made) <= MaxRecords
  /\ scratch \in [Cpu -> Record \cup {Absent}]
  /\ events \in [Time -> Record \cup {Absent}]
  /\ \A t \in Keys(events) : events[t].ts = t
  /\ poll \in Poll
  /\ seen \subseteq Time
  /\ log \in Seq(Line)
  /\ stopping \in BOOLEAN
  /\ lost \subseteq Id \X {"evicted", "unparsed", "noise", "crash"}

\* A record is never in two places and never twice in one: the dump deletes what
\* it reads in the same step, so no interleaving of handlers, evictions and polls
\* logs a call twice or logs what was given up.
OnePlace ==
  /\ \A i \in Id : \A p, q \in Places : In(i, p) /\ In(i, q) => p = q
  /\ NoRepeats(poll.batch) /\ NoRepeats(log)

\* While the daemon is up a record is somewhere, or another one has its time:
\* beyond eviction, an unreadable text, noise and a crash, each of them visible in
\* `lost', equal timestamps are the only way to lose one.
NothingVanishes ==
  Up => \A i \in DOMAIN made :
          \/ \E p \in Places : In(i, p)
          \/ \E j \in DOMAIN made \ {i} : made[j].ts = made[i].ts

\* The text of the batch is shorter than the buffer, even if all its records were
\* as long as the longest one.
TextFits ==
  \E longest \in Lens :
    /\ \A i \in DOMAIN poll.batch : poll.batch[i].rec.len <= longest
    /\ Len(poll.batch) * (HeadLen + 1 + longest + TailLen) + 1 < BufSize - 1

\* A text that fits is JSON when the dump ends, with all data of all its records:
\* piece by piece nothing is left out of it, and nothing of an earlier poll's text,
\* which may have been too long, is left in the way.
FitsIsParsed ==
  poll.pc = "parse" /\ TextFits =>
    /\ Parsed = poll.batch
    /\ \A i \in DOMAIN poll.batch : poll.batch[i].whole

\* Every record that has been stamped gets out of the handler, the map and the
\* loop, unless the daemon ends: no order of insertions, evictions and polls leaves
\* one behind.
Pending(i) == \E p \in {"scratch", "map", "batch"} : In(i, p)

AllSettle == \A i \in Id : Pending(i) ~> (~Pending(i) \/ ~Up)

\* The map, the dump, the text and the loop are a channel that delivers once at most:
\* nothing is logged that was not recorded or after the daemon has ended, and what
\* leaves without a line is given up openly or shares its time with another record.
Channel == INSTANCE LossyChannel WITH
  Max      <- MaxRecords,
  sent     <- [i \in DOMAIN made |-> made[i].ts],
  flight   <- {i \in DOMAIN made : Pending(i)},
  received <- [n \in DOMAIN log |-> log[n].rec.id],
  gone     <- {p[1] : p \in lost},
  up       <- Up

ImplementsChannel == Channel!Spec

\* A stop request ends the daemon, whatever it is doing (of finitely many records).
StopEnds == stopping ~> ~Up
---------------------------------------------------------------------------
\* What the documents say and the program does not do.

\* bpf_loader.py, fetch_events: "Fetch events from BPF map, return parsed event
\* dicts": what was taken out of the map and is not a repeated time is returned.
FetchReturnsAll ==
  [][poll.pc = "parse" /\ poll'.pc # "parse" =>
       \A i \in DOMAIN poll.batch :
         poll.batch[i].rec.ts \in seen
           \/ poll.batch[i].rec.id \in IdsOf(poll'.batch)]_vars

\* daemon.py, run_loop: "poll map, filter events, write JSONL audit log", and it
\* does so while its flag says so.
RunsUntilStopped == poll.pc = "crashed" => stopping
===========================================================================
