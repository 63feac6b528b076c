# A verification project for agent_audit

agent_audit records what AI agents do on a Linux machine.  eBPF programs
(`ebpf/audit.bpf.c`) follow the processes of configured targets and emit a
record for every file, network and DNS call; a daemon in Python
(`cli/agent_audit/daemon.py`), on top of a C library (`ebpf/loader.c`), fetches
the records and writes a JSONL log.  The modules here model the parts of that
program where steps of several actors meet, check them with TLC on small
instances, and prove some of the results with TLAPS for all instances.

Paths below are relative to the repository's root.

## 1. The system

| Component | State it keeps | Operations | Hard about it |
|---|---|---|---|
| Kernel programs, `ebpf/audit.bpf.c` | `pid_whitelist` (1024), `agent_tree` (2048), `target_comms` (64), `events` (LRU, 65536), a scratch record per CPU | hooks of fork, exec and exit; openat, connect, read, write, getaddrinfo; `pack_process_chain` | run on all CPUs at once over shared maps, several map calls per hook, no locks; maps get full; ids are reused; hooks mix thread and process ids; 8-bit depth, 8-entry chain |
| Target scan and registration, `daemon.py:155-278` | the loop's copy of the configuration | `_scan_targets`, `register_agent_pid`, `_sync_target_comms` | reads /proc, writes the maps later; meanwhile the process forks, runs exec, exits |
| Loader library, `ebpf/loader.c` | the loaded object, map descriptors, a 256 KB text | load, unload, one function per map operation, `bpf_dump_events` | the dump races the producers; the text has a fixed size |
| ctypes bridge, `bpf_loader.py` | - | one function per loader function, `fetch_events`, `deduplicate_events` | every error becomes "nothing" |
| Polling loop, `daemon.py:393-1012` | stop flag, `seen_events`, `empty_count`, timers | scan, reload, fetch, deduplicate, write, sleep | one exception anywhere ends the daemon; flag looked at once per iteration |
| Process information, `daemon.py:50-101, 565-662` | `_proc_precache` (5 s), `_proc_cache` (30 s) | look up, refresh, expire | describes a process after the fact; ids are reused |
| Configuration store, `config.py`, `cli/cli.py` | `config.json` | load, add, delete, update, atomic save | concurrent commands; the daemon's watch |
| Daemon lifecycle, `daemon.py:283-352`, `cli/cli.py:22-68` | the PID file, the daemon's process | start, stop, status, signals | check-then-act on a file, time-outs, crashes, reused ids |
| Log rotation, `log_rotator.py` | log files | roll over | one backup name per day |
| Log viewer, `cli/cli.py:145-174` | - | reads the log | the daemon rolls the log over meanwhile |
| Rule matching, `matcher.py` | - | pure; nothing calls it | - |
| Legacy reader, `bpf_reader.py`, `bpf_map_dump.c` | - | parses an older record layout; not imported | - |

How they interact: the kernel programs and the daemon share the four maps and
nothing else.  The daemon writes `target_comms`, `pid_whitelist` and
`agent_tree` through the loader, the handlers write the last two and `events`,
the daemon empties `events`.  The CLI talks to the daemon through `config.json`
(inotify), the PID file and SIGTERM.

What makes each component correct:

* Kernel programs - a task is listed exactly while it descends from a live
  root; nothing is left behind by a task that dies; a chain in a record names
  the true ancestors and is complete as far as they live.
* Registration - it adds roots and never takes an entry away, never invents a
  parent, and finds every process that keeps the name of a target.
* Event transport - every record is logged once, or lost for a reason one can
  name; a stop request is honoured.
* Configuration store - a command changes what it was asked to change and leaves a
  sound file, and the daemon ends up with the last version.
* Lifecycle - one daemon at a time; the file names it while it runs.
* Process information - a record describes the process that made the call, as it was
  not long ago, and a read or write has the file it went to.
* Rotation - lines stay in order, in one place each, and only old ones are deleted; who
  reads the log meanwhile skips nothing.

## 2. Modules

| Module | Models | Kind |
|---|---|---|
| `BpfMap` | a BPF hash map: look up, update, delete, capacity | operators, used by all others |
| `ProcessTree` | all programs of `audit.bpf.c` that use the whitelist and the tree, one map operation per step | state machine |
| `AuditPolicy` | what those programs promise, with atomic steps | abstract specification; `ProcessTree!ImplementsPolicy` maps to it |
| `AgentAudit` | `ProcessTree` composed with the daemon's scans, registrations, reloads and rewriting of `target_comms` | composition |
| `EventLog` | timestamps, the LRU map, dump, text, parsing, deduplication, writing, adaptive polling, stop | state machine |
| `LossyChannel` | what the way of a record promises: delivered once at most, or given up openly | abstract specification; `EventLog!ImplementsChannel` maps to it |
| `ConfigStore` | `config.json`: overlapping commands, an editor, the watch with its queue, reloads, start-up order | state machine |
| `DaemonLifecycle` | the PID file: start, stop, signals, crashes, failed starts, reused ids; `bpf_load`, `bpf_unload` | state machine |
| `LogRotation` | the audit log and its backups as `RotatingFileHandler` moves them with `AuditLogger`'s names, and `agent_audit log` | state machine |
| `ProcInfo` | the two caches of /proc data, and the descriptors of reads and writes, against exec, exit and reuse of the id | state machine |
| `ProcessTreeProofs` | types, chains, who is in the whitelist, whose node a task has and which parent a record names, for maps of any size | proofs |
| `TreeProofs` | the two maps together, and that `ProcessTree` implements `AuditPolicy`; extends `ProcessTreeProofs` | proofs |
| `EventLogProofs` | types, places and text of `EventLog`, and that it implements `LossyChannel` | proofs |
| `AgentAuditProofs`, `ConfigStoreProofs`, `DaemonLifecycleProofs`, `LogRotationProofs`, `ProcInfoProofs` | theorems about those five | proofs |
| `MC*` | values of the constants, symmetry | TLC |

`AgentAudit` composes `ProcessTree` with the registrar.  The others meet it in one
variable each and are kept apart: `EventLog` takes the records the handlers emit, `ProcInfo`
says what is added to them when they are written,
`ConfigStore` yields the configuration `AgentAudit` takes from `Reload`,
`DaemonLifecycle` has the daemon that all of them run in, `LogRotation` has the files
its `Write` ends in.

### ProcessTree

`status`, `tgid`, `comm` and `parent` are the kernel's view of the tasks and are
marked external; everything else is the program's.  `frame[t]` holds the locals
of the handler that runs in task `t`: its next map operation (`pc`), the copy of
the whitelist entry, the child, the chain packed so far and `current_pid`.

* Fork: `ForkStart` (kernel) - `ForkLookup` - `ForkWhitelist` - `ForkTree`,
  then the chain of the child is packed (`PackSelf`, `PackParent`, `ChainStep`
  for each `CHAIN_STEP`), the record is emitted and the child is woken.
* Exec: `ExecStart` (kernel, the name changes) - `ExecLookup` - `ExecKnown`,
  `ExecPut` for a listed task; `ExecMatch`, `ExecWhitelist`, `ExecTree` for one
  that may become a root.
* Exit: `ExitWhitelist` - `ExitTree`; then the task is a zombie or gone, and
  `Reap` frees its id, for good or for reuse (`PidReuse`).
* Calls: `Capture` stands for the five capture handlers, which look up the
  process id, pack the chain and emit; what else they put into the record is
  left out.  `newest` is the newest record put into `events`, with the entry
  it was packed for.

`AuditPolicy` is the same with atomic steps: `Spawn` of a task that inherits the owner of its
creator, `Enlist`, `Leave`, `Report` with an ancestry that is complete as far as the ancestors
live.  With threads a record names the first thread of its process, which may have ended
before the others: `LateReport`.

A handler occupies a CPU from its first to its last step (`Cpus`).  Programs of
one task never overlap; those of different tasks do, at every map operation.

### AgentAudit

`reg` holds the locals of the daemon's thread, `cfg` the targets it works with.
`StartAgent` registers the `agent_pids` of the configuration before the first scan; an
exception there ends the daemon (`Broken`, `down`), while the same exception in a scan ends
the scan.  `FirstScan`, `PeriodicScan`, `Reload` and `OtherFile` are the places that start a
scan or a rewriting of `target_comms`; `ScanEntry` looks at one entry of the
listing, `RegRead`, `RegWhitelist` and `RegTree` are the three effects of
`register_agent_pid`, `SyncClear` and `SyncFill` those of `_sync_target_comms`.
Exceptions that end a scan (a process that vanishes between open and read, a
full `agent_tree` and the missing `warning` method) are `AfterScan`.

### EventLog

`Stamp` and `Insert` are the beginning and the end of a capture handler.
`BeginPoll` is the head of the loop, `NextKey` and `Take` the two calls of the
dump, `Parse` the end of the dump, `fetch_events`, `deduplicate_events` and the
adaptive interval, `Write` the rest of the loop for one event.  `WithEntry`
accounts for the text: only what has to fit (`Fits`) and what a missing piece does
to the batch are kept.  `lost` is a history variable: which records were given up
at which step.

`Unseen` is `deduplicate_events`: an entry of the batch stays if no earlier poll has seen its
time; the entries that stay are numbered by their ranks.  `TextFits`
says that the text of the batch is short enough even if all records were as long as its longest.

`LossyChannel` has no map, text or batch: `Send` with a time, `Deliver` once, in any order, and
`Lose` a set of messages, each of them openly (`gone`) or because another message has its time.

### ConfigStore

A command is `Load` (`load_config` and the edit of its copy), `WriteTemp` and `Move`
(the two halves of `save_config`), and may be killed in between.  `EditRead`,
`EditTruncate` and `EditWrite` are an editor that writes `config.json` in place.  Every
change sends a notification to the daemon's watch (`Notify`), whose queue is bounded.
The daemon is `Boot` (`load_config`), `Watch` (`_setup_inotify`), `FirstSync`, then for
each batch of notifications `ReadEvents` (which of them names the file), `Reload` and
`Sync` (`_sync_target_comms`).  `missed` is a history variable: no notification tells
of the last change, because the watch did not exist yet (the start-up order), or the
queue was full, or the nameless note of the overflow ended the parsing of its batch.

### DaemonLifecycle

`proc[p]` says where a process is on its way from `fork` to `exit`, `file` what the
PID file says, `linked` who has that file open (`open` and `close` of `_write_pid` are
two steps, and another party may unlink the file in between).  Commands: `StartRead`,
`StartRefuse` or `StartFork`, `Report`; `StopRead`, `StopCheck`, `StopKill`, `StopWait`,
`StopUnlink`.  The daemon: `WriteOpen`, `WritePid`, `Arm` (signal handlers, logs),
`LoadPrograms` or `Fail`, `LeaveLoop`, `Unload`, `RemovePid`, `Exit`.  SIGTERM kills
before `Arm` and clears the flag after it.  A daemon that ends while the command that
started it still sleeps is a zombie.  `Other` gives a free id to another program.

`Serial` and `Prompt` state what the code relies on without saying so: no two commands
at once, and a daemon that writes its file within the half second of `start`.  Nothing is
assumed of the five seconds of `stop`: `poll_interval_max_sec` has no bound in `config.json`, and a scan,
a dump and the writing of a batch take their time, so `StopWait` may go on while the daemon works.
Two history variables follow that case: `left`, the daemons `stop` has given up on and which are still
there, and `beside`, that a daemon was started while there was one.

### LogRotation

A line is its number, a file the sequence of its lines, a name the day it is for.
`LogEvent` appends or begins a rollover, whose steps are those of `doRollover`: `Source`
and `Shift` for each pair of names, `Remove`, `Rename`, `Write`.  The date is asked for
at each name, so `Midnight` may come in between; `Killed` ends the daemon in the middle.
`ViewOpen`, `ViewLine` and `ViewEnd` are one reader: it can open the log unless a rollover has
just renamed it, and what it has open stays its file through renames and deletions.

### ProcInfo

The caches are keyed by id, so the module follows one id and all its owners.  `proc` is the
image the id runs, a zombie or nothing; `tree` whether `agent_tree` has a node for it that names a
parent; `fd` the file (inode) that one of its descriptors is open on; `named` whether `isfile` of the
text of the descriptor's link is about that file; `pending` its records in the map of events.  The
process may `Fork` (into existence), `Exec`, `OpenClose`, `Call`, `ExitProcess` and be followed by
another (`Reap`), and anybody may rename or unlink the file (`Unname`), between any two reads of
the daemon.  `Register` is `register_agent_pid`.

The daemon's thread is `task`: `Fetch`; `PreBegin`, `ReadExe`, `PreStore`, `PreEnd`
(`_precache_proc_info` for the children in the batch); for each record `Lookup` in both caches
and, if both miss, `ReadTree`, `ReadExe`, `StatOpen`, `StatRead`, `Store` (`_get_proc_info`), then
`Resolve` (`_resolve_fd_path`) and `IsFile` for a read or write, and `Emit`, where the record is
dropped or written; `LogEnd` (the clean-up).  An open file is not its path: after an unlink the
link reads `... (deleted)`, and `os.path.isfile` looks up a text that was read before.  Only
differences of times are compared, so times are ages and all ages from
`ProcTtl` on are one (`Tick`).  `seen`, `caught`, `since`, and the `file` and `led` of a record are
history: how long ago the id looked like this or that, what the pre-cache got in this batch, the age
of the look-up, the file the record's descriptor is open on still, and whether the text of its link
has led to that file all the time.

## 3. Runs

| Run | Instance | Shows |
|---|---|---|
| `tree_room` | 4 tasks or threads, 1 name, 3 CPUs, chains of 3 | `Inherits`, `ChainTruth`, `ChainEnds` |
| `tree_policy` | 3 tasks or threads, 2 names, 3 CPUs, chains of 2 | `MapsAgree`, `ImplementsPolicy` |
| `tree_reuse` | 3 ids that are reused, a whitelist of 2, a tree of 2, one bit of depth, chains of 2 | `TypeOK`, `EntriesLive`, `NodeIsOwn`, `KeptUntilExit`, `FirstLinkTrue` |
| `audit_room` | 2 tasks, one of them an agent by its id, 3 configurations (by name, by path, none), fair | `AuditTypeOK`, `DeadEntryIsRoot`, `ChainStops`, `TargetsGetListed` |
| `log_room` | 3 records on 2 CPUs, 3 values of the clock, a map of 2, a text that holds one whole record, most of a second and not a third | `LogTypeOK`, `OnePlace`, `NothingVanishes`, `FitsIsParsed`, `AllSettle`, `ImplementsChannel`, `StopEnds` |
| `config_room` | 2 commands, an editor, 2 targets, a queue of 2 | `StoreTypeOK`, `TornByHandOnly`, `ChangesItsOwn`, `ConfigIsCurrent` |
| `life_room` | 3 process ids, 2 commands, `Serial` and `Prompt` | `LifeTypeOK`, `OneServer`, `FileNamesServer`, `StoppedOrTold`, `FailureIsTrue`, `SignalEnds` |
| `rotate_room` | 9 lines, a log of 2, 3 backups, 3 days | `RotationTypeOK`, `ReadsInOrder`, `Accounted`, `NewestKept`, `ReadsARun` |
| `proc_room` | 1 id, 2 images, a regular file and a pipe, `PRECACHE_TTL` 1 and `PROC_CACHE_TTL` 2 ticks, 1 pending record | `ProcTypeOK`, `Fresh`, `CaughtIsTold`, `RightFile` |
| `log_overflow` | 2 records, a text that holds one | a batch is lost as a whole: `FetchReturnsAll` fails |
| `log_idle` | no record, the real limit of 1024 | the daemon dies of an overflow when nothing happens: `RunsUntilStopped` fails |
| `rotate_lost` | as `rotate_room` | the second rollover of a day fails: `RolloverWrites` fails |

Every property of a passing run has a mutant of the modelled code that breaks it
(`PROJECT.json`, operators commented `Mutant:`).

What the failing runs mean for the code:

* `log_overflow`: the records of a batch are deleted from the map before it is
  known whether their text fits 256 KB.
* `log_idle`: `min(poll_interval_min * (2 ** empty_count), ...)` raises
  `OverflowError` once `empty_count` is 1024.
* `rotate_lost`: every backup of a day has the same name, so with two backups or more
  `doRollover` removes the one it is about to rename; the exception goes to a standard
  error that is `/dev/null`.  The backup and the line that caused the rollover are gone;
  the next line rolls over with success.

### Behaviour to know of

The models have these, and the properties above are worded so that they hold in spite
of them; each can be seen by checking the stronger statement.

* `bpf_map_update_agent_tree` writes `parent_pid = pid` for every process a scan finds,
  also for those the fork handler has listed under their parent.  Chains through such a
  process stop there (hence "or loop" in `ChainTrueOrLoop`).  One that is packed while the scan writes, or
  after a scan that met the task during its fork, repeats the process until the record is full;
  one packed between the two writes of a registration stops below the process (`ChainStops`).
* With reused ids a chain may string together processes that never were related: an ancestor's
  id has another owner by the time the next step looks it up, or its node was left behind by
  another one.  Only the first link is to be relied on (`FirstLinkTrue`).
* A node that is written for a task whose whitelist entry did not fit stays behind when the
  task exits, because `handle_exit` looks at the whitelist first; a full `agent_tree` stays full.
* `depth` has 8 bits: the 256th generation below a root has depth 0 like the root.
* A process of `agent_pids` that vanishes while it is registered raises `ProcessLookupError`,
  which at start-up nothing catches: the daemon ends.
* Data caught by the pre-cache have `ppid` 0, so for five seconds after a fork the other records
  of the child say that its parent is 0, against the comments at `daemon.py:581` and `daemon.py:763`.
  The record of a fork says so when the child's node is gone by then.
* An entry of `_proc_cache`, also one that says that nothing could be read, is used for 30 s
  whoever has the id, and nothing ever removes one.
* A read or write is left out of the log when its descriptor is closed before it is written; also
  when its file was unlinked while it is open (the link reads `... (deleted)`), was renamed between
  the `readlink` and the `isfile`, or has its name in another mount namespace.  If another regular file
  has that name, the record is logged with what the link said.
* The comment at `daemon.py:952` gives the pre-cache 60 processes per batch, the code 100.
* `agent_audit log` says that there is no log when it looks between the rename and the first
  line of a rollover; it asks `config.json` where the log is, and the daemon keeps to the path
  it started with.
* While `_sync_target_comms` clears and fills the map, at start-up only after the first
  scan and again after any file event next to `config.json`, an exec of a target is not
  matched.  The next scan repairs it for processes that live that long.
* With a full `agent_tree`, `register_agent_pid` calls `RuntimeLogger.warning`, which
  does not exist; the exception ends the scan, and so every later scan at the same
  place.  `TargetsGetListed` fails with `TreeCap = 1`.
* Two overlapping commands: the later rename wins, the other edit is lost.
* An edit between `load_config` and `_setup_inotify` is not noticed until the next one.
* With `Serial = FALSE` two starts both find no daemon and both fork: `OneServer` and
  `FileNamesServer` fail.
* When the daemon needs more than the five seconds of `stop`, the command removes its file and
  says "Daemon stopped" while it works.  The next start makes a second daemon, and the first, when
  it ends, removes the file of the second (`beside`, from where on the properties promise nothing).  What
  does hold is that the first has been told to stop and will (`StoppedOrTold`, `SignalEnds`).
* A daemon that fails at once (no object file) is a zombie while `start` sleeps, and its
  id is in the file and in `/proc`: `start` reports "Daemon started".
  The other way round a report is true: `FailureIsTrue`.

### Bounds, and why they are enough

Four tasks give a root, two generations and a bystander, so that a chain is cut
both by its length (3) and by a dead ancestor, while another task forks or exits.
Three CPUs are three handlers in flight; each property relates at most a task, its
creator and the handler that reads them.  Three reusable ids in maps of two slots
make every update fail at some time, for every kind of caller, and leave room for a stale node
of a dead task next to that of the stranger it names.  Capacities are 5
in the runs that need room: more than the number of ids.  In `log_room` three
records are the first number at which a map of two evicts, two entries of one
batch compete for the text, and two records can share a timestamp while a third
does not.  In `config_room` two commands overlap with each other, with the editor and
with a reload, and a queue of two overflows while a batch is answered; `IdsUnique`, which
takes two names, is proved instead, and so is `NodesListed`, of which `MapsAgree` has what matters
between hooks.  In `life_room` a daemon, its
successor and a stranger with a recycled id exist at once.  In `rotate_room` nine lines
are four rollovers, and three days let a backup be moved across midnight by each of the
two shifts.  In `proc_room` two images are an owner and its successor, or one
program and the one it runs; ages up to 2 tell a pre-cache that is valid from one that expired
while `_proc_cache` has not, and from all that is older; one pending record and those of the
batch before it are in hand at once.  `MaxRecords`, `MaxTs`, `MaxIdle`, `MaxId`, `MaxLines`,
`MaxPending` and `Days` are the only
artificial bounds on counters.  Ids without a task at the start, commands in `config_room`
and the images are symmetric; liveness runs use no symmetry.  `CHECK_DEADLOCK FALSE` is
set where a system may really stop: all tasks dead, the daemon gone, the lines and days
used up.

### Fairness

`AuditFairSpec`: handlers run to their end and the daemon's thread is scheduled
(weak fairness on `HandlerStep` and `DaemonStep`).  `PeriodicScan` is strongly fair
because the loop looks at its timer at the head of every iteration, before it looks
at the watch, so edits that keep arriving cannot postpone it for ever.  Tasks are not
obliged to do anything.  `EventLog!Spec`: the daemon and the handlers that have
stamped a record go on.  `AllSettle` and `StopEnds` are about finitely many records;
if handlers fill `events` faster than the dump empties it for ever, the dump does not
end, and neither property holds.  `DaemonLifecycle!FairSpec`: every daemon is
scheduled; commands and users do what they like.

## 4. Proofs

The theorems a reader should know of are those `PROJECT.json` lists; unless said otherwise they
hold for all values of the constants that the assumptions of the modules allow.

### Kernel programs

`ProcessTreeProofs` assumes what the constants' assumptions in `ProcessTree` say
and nothing else; the numbers of tasks, names and CPUs, the capacities, the depth
and the length of chains are arbitrary.

* `TypeCorrect == Spec => []TypeOK`.  `TypeOK` is not inductive: a step writes
  `frame[t].entry` into the map, which is an entry only at certain values of `pc`.
  The invariant adds that a frame at `fork_wl`, `fork_tree`, `first` and `walk` has
  the entry, the child and the chain that step needs (`FramesOK`).  The
  lemmas `PutType`, `DelType` and `LookupType` are about the map operators,
  `ReturnType`, `EmitType`, `PackSelfType` and `GotoType` about the helpers actions
  are built from; `TypeStep` has one step per action.
* `ChainsAreTrue == ~PidReuse => (Spec => []ChainTruth)`.  The invariant (`LinkInv`) adds that
  every node of the tree has the creator of its task as parent, or none (`TrueNode`),
  and that every frame in the middle of a chain has a true chain so far and the
  creator of its last element in `cur` (`TrueFrame`); both are stable because
  `parent` changes for new tasks only (`SameGenealogy`, `ChainStaysTrue`), and an id
  is new only once.  Neither room in the maps nor the absence of threads is needed.
  `LinkInv` and `LinkStep` have a parameter, the tasks that may be their own parent, so that
  `AgentAuditProofs` can use them again.

The rest needs no room either, and allows reuse of ids:

* `EntriesLiveAlways`, `KeptAlways`: from `EntryInv`.  An entry is written by the fork hook of the
  task's creator, before the task runs, and then by its own hooks, one after the other; so a hook
  that has seen no entry, or has removed it, may rely on that until its end (`Steady`).  The
  parameter `own` again stands for tasks that somebody else puts in as roots.
* `NodeIsOwnAlways`: from `NodeInv`, which says for each place of a handler whose node it is
  about to write, and that its task has not been reaped.
* `FirstLinkAlways == Spec => FirstLinkTrue`: the parent in a record is right in the conditions that
  make the rest of a chain unreliable.  `FirstInv` follows the id a record is about (`Subject`)
  through the packing: its node is its own or absent when the packing begins (`NodeInv`), only its
  own hooks write that node (`OwnLasts`), and the id itself cannot be handed out again
  meanwhile (`SubjectThere`).  That last fact is what needs an invariant of the kernel's
  side (`GroupInv`): a call is made by a thread, the record is about its process, which may be a
  zombie by then; but a process is not reaped before its threads, and one that runs a
  new program has no other thread.

`TreeProofs` has hypotheses, `Guarded`: room for every task in both maps, no id handed out again,
and chains no longer than the depth can count.  Each is needed: with a full map one of two
updates fails, a reused id joins unrelated tasks, and a depth that wraps ends a chain early.

* `NodesListedAlways`, `MapsAgreeAlways`, `InheritsAlways`, `ChainEndsAlways` follow from `TreeAlways`.
  The maps alone do not say enough, because an entry disappears with its task; the
  invariant says that there is a function `g`, the entry that each task has or had, which is
  given once and never changes (`Given`).  The entries of a task and of its creator go together for
  ever, whoever still lives.  So a hook that climbs from a node finds the node of the creator,
  or the creator is dead, and the chain may end there (`Reachable`).
* `PolicyImplemented == Guarded => (Spec => ImplementsPolicy)`: every step of the interleaved
  handlers is a step of `AuditPolicy` or a stutter.  A fork takes effect where its hook returns, an
  exec where the entry is put into the map, an exit where it is taken out, a record where it is
  put into `events`; everything else changes nothing the policy can see.  The steps are
  `ForkPolicy`, `ExecPolicy`, `CapturePolicy`, `ChainStepPolicy`, `ExitPolicy` and a few more, joined in
  `PolicyStep`.

### Registration

`AgentAuditProofs` reuses the step lemmas of the kernel programs for `AgentAudit`; what is new is
`RegistrarWrites`: the daemon puts nothing but roots into the two maps and takes nothing out.

* `AuditTypeCorrect`; `DeadEntriesAreRoots`: only what the daemon registers can stay behind for a
  task that is dead; `StaysListedAlways`, which no run checks: no scan, reload or rewriting of `target_comms` takes a
  live task off the list.
* `ChainsNameNoStranger == ~PidReuse => (AuditSpec => []ChainTrueOrLoop)`: a chain names true ancestors
  or repeats a task that a scan made its own parent.  No run checks this one: two tasks have no strangers.

### Daemon lifecycle

`DaemonLifecycleProofs` has no hypothesis but `Serial /\ Prompt`, and needs neither for
`LifeTypeCorrect`.

* `OneServerAlways`, `FileNamesServerAlways` and `StoppedOrToldAlways` follow from one
  invariant, `beside \/ OwnerInv`; `beside` stays true once it is (`BesideLasts`).  A process owns the file from its fork to `RemovePid`; there is
  one owner at most (`OneOwner`); a command that is under way has seen it, and one that
  is about to unlink the file has seen it end or has given up on it (`SeenByCommand`), which it does
  with an owner that has been told only (`Told`); a process that has yet
  to write the file is waited for, and what it has open is the file that is there
  (`InTheMaking`); afterwards the file names it, or `stop` has removed the file (`FileNamesOwner`).  `OneServer` alone is not
  inductive: a start that has read an old file would fork a second daemon.  `EndingKeeps`
  is about every step that only ends processes: crashes, signals, failures, exits.
* `FailureIsTrueAlways`: the same invariant, at the step that reports.

### Configuration store

`ConfigStoreProofs` has no hypotheses.

* `StoreTypeCorrect`, `IdsStayUnique` and `CommandsNeverTear` follow from `FileInv`: lists in
  the hands of commands and of the editor have unique ids as well, a command that adds
  has room for its id (`CommandSound`), and a queue beyond its capacity holds an overflow
  note (`Marked`).  `NextIdIsNew` rests on `MaxOfIds`, that a set of ids has a largest one,
  which is drawn from the well-foundedness of the natural numbers.
* `DaemonFollows`: the daemon has the last version, or a notification of it is queued, or
  it is about to load, or the file is torn (`FollowInv`).  `NotifyTells` is about the
  queue's end, `BatchAndRest` about what a read takes from its front.

* `CommandsChangeTheirOwn`: what a command writes is what it has read and one target
  with a new id, or all it has read but one of those it was to delete.

### Log rotation

`LogRotationProofs` has no hypotheses.

* `RotationTypeCorrect`, `ReadsInOrderAlways`, `ReadsARunAlways`: from `FilesInv` and `ViewInv`.  `FilesInv`
  says what is true between the steps of a rollover: the names it has asked for are in
  the past and in order (`NamesPast`), the line it is to write is the newest (`RollLine`), files
  hold lines that follow each other (`Contiguous`), and later names hold later lines
  (`InOrder`).  `ViewInv` says that what a reader has open is such a file and that it has read the
  first part of it; this is stronger than `ReadsARun`, which is about single steps.
* `AccountedAlways`: each step moves the lines of at most two files, in one of eight ways
  (`StepEffect`); in each of them a line leaves one place for one other (`PlacesStep`), and what is
  in a file is in no other and is not gone (`Somewhere`, `GoneForGood`).
* `NewestKeptAlways`: when a step deletes a file there is another, full, with newer lines
  (`DeletingKeeps`), and a later step only replaces it by a newer one.

### Process information

`ProcInfoProofs` has no hypotheses, and the two TTLs are arbitrary.

* `RecordsAreFresh`: from `AgeInv`, which follows an image from the moment it was read through either
  cache to the record: whatever is stored, `seen` of its image is not larger than its age.
* `CaughtIsToldAlways`: from `CaughtInv`: what was caught in this batch is what the pre-cache has,
  until it expires.
* `RightFileAlways`: from `FileInv`.  A record whose descriptor has not changed has the file the
  descriptor is open on now, and if its link has led there all the time, it does now (`Held`); between
  `Resolve` and `Emit` the text is that file's, and what `isfile` says is about it unless the name went
  meanwhile (`Resolving`).

### Event transport

`EventLogProofs` has no hypotheses: the numbers of records and CPUs, the clock, the capacity of
the map, the lengths of records and of the text are arbitrary.

* `LogTypeCorrect`: from `TypeInv`, which adds that the loop holds a batch where it writes one and
  none at its head.
* `OnePlaceAlways`, `NothingVanishesAlways`: from `LogInv`.  Neither property is inductive.  A record
  carries its number and its time wherever it is (`AllGenuine`): otherwise two copies could not be
  told from two records.  Two handlers, two entries of the batch and two lines of the log
  have different records (`EachOnce`), and no record is in two places (`Apart`).  The delicate
  step is `Parse`, which drops entries whose time was seen without a trace.
  `SeenIsPast` says that each time in `seen` is that of a record which has left the batch for
  the log or `lost`, or is about to; so an entry that is dropped for it is another record, its
  twin, and `AllKept` survives.  An eviction, a batch without JSON and a crash are traced.
* `ChannelImplemented == Spec => ImplementsChannel`: `Stamp` is a `Send`, `Write` a `Deliver` or a `Lose`;
  `Insert` loses what it evicts or overwrites, `Parse` what it drops or cannot read, and a `BeginPoll`
  that ends the loop is a `Lose` of nothing that ends the channel; `Tick`, `NextKey`, `Take` and
  `Stop` change nothing the channel can see.  `LogInv` gives that what is logged was still under
  way, and that what is dropped untold has a twin.
* `FitsIsParsedAlways`: from `WholeText`: after n entries the text is at most n times as long as its
  longest entry may be, and nothing has been left out.

`Ranks` and `UnseenPicks` are about deduplication.  The entries that stay are a set of positions,
and `Unseen` lists them by rank; that ranks number a finite set of positions without a gap is
shown by the cardinalities of its initial parts, so no induction over the batch is needed.
`UnseenEntries` is what the steps use: each entry of the result is one of the batch, none twice,
and what is not in it has its time in `seen`.

### Only model-checked

* `TargetsGetListed`, `AllSettle`, `StopEnds`, `SignalEnds`: liveness under fairness is out of the
  prover's reach.
* `ChainStops`, for two tasks; the proofs have it for the kernel programs alone (`ChainEndsAlways`).
* The runs that expect a violation: a counterexample needs no proof.

All other properties of the passing runs are theorems.

## 5. What is not modelled

* A lookup's pointer is a copy of the entry at that moment.  The kernel may reuse a
  deleted element under a reader; that is left out, as is exec by a thread that
  is not the only one of its process.
* The content of records; the per-CPU scratch record is shared with nobody (the hooks
  are not preempted by each other).
* `target_comms` is taken to be large enough; names longer than 15 characters.
* A task changes its name by exec only, not by `prctl`.
* A name that is not UTF-8: `UnicodeDecodeError` at `daemon.py:192`, which ends every scan at that entry
  while the process lives.
* A directory or pipe never gives way to a regular file of the same name between `readlink` and `isfile`.
* An edit of the configuration and its notification are one step in `AgentAudit`;
  `ConfigStore` has what happens between them.
* Settings of the log and of the polling interval are read at start-up only and saved
  with the targets; rules are reserved fields.
* `config set`: plain assignments between the same load and save as `add` and `del`.
* Two processes that write the PID file at the same moment: the one that closes it last
  wins, whatever the lengths of the two numbers.
* A clock that is set back; lines of different lengths (a log holds `Cap` lines).
* `RuntimeLogger` rotates with the handler's own names, whose renames do not collide; what is
  lost then is the standard library's affair.
* All programs are taken to be attached.  `bpf_load` attaches them one by one and only warns of
  one that cannot be attached (`loader.c:149-155`).
* Which lines `agent_audit log` prints of those it has read.
* The LRU map evicts when it is full; the kernel may do so a little earlier.
* The parts listed as `not_modelled` in `PROJECT.json`: `matcher.py` and `bpf_reader.py`, which nothing
  calls, and the scripts.  Nearly all lines of the repository are those of `vmlinux.h` and
  libbpf, which are not this program's; of them only the map operations in use are modelled,
  as external.

## 6. Plan

In the order of what matters most; all but the first half of 9 are done.

1. `BpfMap`, `ProcessTree`, `AuditPolicy`: the kernel programs.
2. `AgentAudit`: the registrar composed with them.
3. `EventLog`: the way of a record.
4. `ConfigStore`: `config.json`, the watch, the order of start-up.
5. `DaemonLifecycle`: PID file, start, stop, signals, crash.
6. `LogRotation`: names of backups, and who reads the log meanwhile.
7. Runs and mutants for these.
8. `ProcInfo`: which process a record describes.
9. An abstract store for `ConfigStore` (the file is always a version somebody wrote, the
   daemon follows with delay) and a refinement to it; the same for `EventLog` (`LossyChannel`).
10. Proofs of all safety properties of 1 to 6 and 8, that `ProcessTree` implements
   `AuditPolicy` and that `EventLog` implements `LossyChannel`.
