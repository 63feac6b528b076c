------------------------------ MODULE ProcInfo ------------------------------
(***************************************************************************)
(* Which process a log record describes.  A record has the id of a task;   *)
(* image, command line and parent are looked up when the daemon writes it  *)
(* (daemon.py), in /proc or in two caches: _proc_precache, filled for the  *)
(* children in a batch before its records are written, and _proc_cache.    *)
(* Meanwhile the task runs exec, closes files and exits, its id is given   *)
(* to another one, and files are renamed and unlinked.                     *)
(*                                                                         *)
(* The module follows one id: the caches are keyed by id, other ids only   *)
(* take up time and the budget of the pre-cache.  Only differences of      *)
(* times are ever compared, so a time is kept as an age, and ages beyond   *)
(* ProcTtl are one.  cmdline and cwd are read like exe, each on its own.   *)
(***************************************************************************)
EXTENDS Integers, FiniteSets

CONSTANTS
  Image,      \* what a process may run
  File,       \* what the descriptor of a read or write may be open on: an inode
  Regular,    \* those of them that are regular files
  None,       \* no image, no file
  PreTtl,     \* PRECACHE_TTL
  ProcTtl,    \* PROC_CACHE_TTL
  MaxPending  \* bound: different records in the map

ASSUME ProcAssumption ==
  /\ None \notin Image \cup File
  /\ {"free", "zombie"} \cap Image = {}
  /\ Regular \subseteq File
  /\ PreTtl \in Nat /\ ProcTtl \in Nat /\ PreTtl < ProcTtl
  /\ MaxPending \in Nat

VARIABLES
  proc,       \* the image of the process with this id, "zombie" or "free"
  tree,       \* agent_tree has a node for it that names a parent
  fd,         \* what one of its descriptors is open on
  named,      \* isfile of the text of its link in /proc/<pid>/fd is about that file
  pending,    \* records about it in the map of events
  precache,   \* _proc_precache
  cache,      \* _proc_cache
  task,       \* locals of run_loop and of the functions it calls
  seen        \* history: how long ago the id last looked like that

vars     == <<proc, tree, fd, named, pending, precache, cache, task, seen>>
outside  == <<proc, tree, fd, named, pending>>

Look   == Image \cup {None}
Age    == 0 .. ProcTtl
Kind   == {"fork", "call", "rw"}

\* Of a read or write, history: the file its descriptor is open on still, and whether
\* the text of the link has led to it all the time.
Event  == [kind : Kind, file : File \cup {None}, led : BOOLEAN]
Info   == [age : Age, exe : Look, ppid : BOOLEAN]
Blank  == [age |-> 0, exe |-> None, ppid |-> FALSE]
Unused == [Blank EXCEPT !.age = ProcTtl]
NoInfo == [Blank EXCEPT !.age = -1]
Entry  == Info \cup {NoInfo}

Pc == {"idle", "pre", "pre_exe", "pre_store", "log", "tree", "exe", "stat",
       "stat_read", "store", "emit", "isfile", "write", "down"}

\* caught: history, what the pre-cache got for this batch.  since: age of the look-up.
\* text: the file whose name readlink gave, leads: it is the name of that file still;
\* regular: what isfile said of it.
Task == [pc : Pc, batch : SUBSET Event, done : BOOLEAN, event : Event, info : Info,
         any : BOOLEAN, since : Age, opened : BOOLEAN, caught : Entry,
         text : File \cup {None}, leads : BOOLEAN, regular : BOOLEAN]

Visible == proc # "free"
Face    == IF proc \in Image THEN proc ELSE None
Older(a)     == IF a < ProcTtl THEN a + 1 ELSE a
Aged(info)   == IF info = NoInfo THEN NoInfo ELSE [info EXCEPT !.age = Older(@)]
Record(k, f) == [kind |-> k, file |-> f, led |-> f # None /\ named]
Goto(pc)     == task' = [task EXCEPT !.pc = pc]
---------------------------------------------------------------------------
(* The process, its successors, and time *)

\* What the id looks like from here on.
Becomes(p) ==
  /\ proc' = p
  /\ seen' = [seen EXCEPT ![IF p \in Image THEN p ELSE None] = 0]

\* A file may be opened that has no name, or one in another mount namespace.  The text
\* of a pipe or a directory is never taken for a regular file.
Opened(f) ==
  /\ fd' = f
  /\ named' \in BOOLEAN
  /\ f = None => ~named'
  /\ f \in File \ Regular => named'

\* A record of a read or write through the descriptor before it changed; the one that
\* is written has got its path once the link is read.
Lost(e) == [e EXCEPT !.file = None, !.led = FALSE]

Descriptor(f) ==
  IF f = fd THEN UNCHANGED <<fd, named, pending, task>>
  ELSE /\ Opened(f)
       /\ pending' = {Lost(e) : e \in pending}
       /\ task' = [task EXCEPT !.batch = {Lost(e) : e \in @},
                               !.event = IF task.pc \in {"isfile", "write"} THEN @ ELSE Lost(@)]

\* One before a regular file got another name, or none.
Moved(e, f) == [e EXCEPT !.led = @ /\ e.file # f]

Emitted(e) ==
  /\ Cardinality(pending \cup {e}) <= MaxPending
  /\ pending' = pending \cup {e}

\* A listed task forks; the tree may be full and the record may get lost.
Fork ==
  /\ proc = "free"
  /\ \E i \in Image : Becomes(i)
  /\ tree' \in BOOLEAN
  /\ \E f \in File \cup {None} : Opened(f)
  /\ Emitted(Record("fork", None)) \/ UNCHANGED pending
  /\ UNCHANGED <<precache, cache, task>>

\* A descriptor that is not closed by exec stays open.  For a task that it lists the
\* hook writes a node without a parent over what there is.
Exec ==
  /\ proc \in Image
  /\ \E i \in Image : Becomes(i)
  /\ tree' \in {tree, FALSE}
  /\ \E f \in {fd, None} : Descriptor(f)
  /\ UNCHANGED <<precache, cache>>

OpenClose ==
  /\ proc \in Image
  /\ \E f \in File \cup {None} : Descriptor(f)
  /\ UNCHANGED <<proc, tree, precache, cache, seen>>

\* Somebody renames a file; or unlinks it, and its link reads "... (deleted)" from then
\* on.  Another regular file may take the name.
Unname ==
  \E f \in Regular :
    /\ named' \in IF f = fd THEN BOOLEAN ELSE {named}
    /\ pending' = {Moved(e, f) : e \in pending}
    /\ task' = [task EXCEPT !.batch = {Moved(e, f) : e \in @},
                            !.event = IF task.pc = "write" THEN @ ELSE Moved(@, f),
                            !.leads = @ /\ task.text # f]
    /\ UNCHANGED <<proc, tree, fd, precache, cache, seen>>

\* A connect, a look-up of a name, the open of a file; or a read or write.
Call ==
  /\ proc \in Image
  /\ \/ Emitted(Record("call", None))
     \/ fd \in File /\ Emitted(Record("rw", fd))
  /\ UNCHANGED <<proc, tree, fd, named, precache, cache, task, seen>>

\* The node of a task that is not listed stays.
ExitProcess ==
  /\ proc \in Image
  /\ Becomes("zombie")
  /\ tree' \in {tree, FALSE}
  /\ Descriptor(None)
  /\ UNCHANGED <<precache, cache>>

\* An open file of /proc/<pid> outlives its process and fails to be read.
Reap ==
  /\ proc = "zombie"
  /\ Becomes("free")
  /\ task' = [task EXCEPT !.opened = FALSE]
  /\ UNCHANGED <<tree, fd, named, pending, precache, cache>>

Tick ==
  /\ seen' = [[x \in Look |-> Older(seen[x])] EXCEPT ![Face] = 0]
  /\ precache' = Aged(precache)
  /\ cache' = Aged(cache)
  /\ task' = [task EXCEPT !.info.age = Older(@), !.since = Older(@), !.caught = Aged(@)]
  /\ UNCHANGED outside
---------------------------------------------------------------------------
(* The batch and its pre-cache *)

\* register_agent_pid, between two batches; a zombie is registered like any other.
Register ==
  /\ task.pc = "idle" /\ Visible
  /\ tree' = TRUE
  /\ UNCHANGED <<proc, fd, named, pending, precache, cache, task, seen>>

Fetch ==
  /\ task.pc = "idle"
  /\ task' = [task EXCEPT !.pc = "pre", !.batch = pending]
  /\ pending' = {}
  /\ UNCHANGED <<proc, tree, fd, named, precache, cache, seen>>

\* _precache_proc_info, once for an id; ppid is never filled in.
PreBegin ==
  /\ task.pc = "pre" /\ ~task.done
  /\ \E e \in task.batch : e.kind = "fork"
  /\ task' = [task EXCEPT !.pc = "pre_exe", !.done = TRUE, !.info = Blank]
  /\ UNCHANGED <<outside, precache, cache, seen>>

\* No more children, or the budget is used up by others.
PreEnd ==
  /\ task.pc = "pre"
  /\ task' = [task EXCEPT !.pc = "log", !.done = FALSE]
  /\ UNCHANGED <<outside, precache, cache, seen>>

\* Mutant: the time is taken when the fields are there.
PreStore_Stamps ==
  LET got == IF task.any \/ Visible THEN [task.info EXCEPT !.age = 0] ELSE NoInfo
  IN  /\ task.pc = "pre_store"
      /\ precache' = IF got = NoInfo THEN precache ELSE got
      /\ task' = [task EXCEPT !.pc = "pre", !.info = Unused, !.any = FALSE,
                              !.caught = got]
      /\ UNCHANGED <<outside, cache, seen>>

\* Kept if any field could be read, its status included.
PreStore ==
  LET got == IF task.any \/ Visible THEN task.info ELSE NoInfo
  IN  /\ task.pc = "pre_store"
      /\ precache' = IF got = NoInfo THEN precache ELSE got
      /\ task' = [task EXCEPT !.pc = "pre", !.info = Unused, !.any = FALSE,
                              !.caught = got]
      /\ UNCHANGED <<outside, cache, seen>>

\* Mutant: whatever is found is kept.
ReadExe_Any ==
  /\ task.pc \in {"pre_exe", "exe"}
  /\ task' = [task EXCEPT !.pc = IF @ = "pre_exe" THEN "pre_store"
                                 ELSE IF task.info.ppid THEN "store" ELSE "stat",
                          !.any = task.pc = "pre_exe" /\ Visible,
                          !.info.exe = proc]
  /\ UNCHANGED <<outside, precache, cache, seen>>

\* What cannot be read stays empty; a zombie has a command line, an empty one.
ReadExe ==
  /\ task.pc \in {"pre_exe", "exe"}
  /\ task' = [task EXCEPT !.pc = IF @ = "pre_exe" THEN "pre_store"
                                 ELSE IF task.info.ppid THEN "store" ELSE "stat",
                          !.any = task.pc = "pre_exe" /\ Visible,
                          !.info.exe = Face]
  /\ UNCHANGED <<outside, precache, cache, seen>>
---------------------------------------------------------------------------
(* One record: _build_single_event_log and _get_proc_info *)

PreValid   == precache # NoInfo /\ precache.age <= PreTtl
CacheValid == cache # NoInfo /\ cache.age < ProcTtl

\* Mutant: the larger cache first.
Lookup_Swapped(e) ==
  /\ task.pc = "log" /\ e \in task.batch
  /\ precache' = IF PreValid THEN precache ELSE NoInfo
  /\ LET hit(info) == [task EXCEPT !.pc = "emit", !.batch = @ \ {e}, !.event = e,
                                   !.info = info, !.since = 0]
     IN  task' = IF CacheValid THEN hit(cache)
                 ELSE IF PreValid THEN hit(precache)
                 ELSE [hit(Blank) EXCEPT !.pc = "tree"]
  /\ UNCHANGED <<outside, cache, seen>>

\* An entry of the pre-cache that has expired is removed, then _proc_cache is tried.
Lookup(e) ==
  /\ task.pc = "log" /\ e \in task.batch
  /\ precache' = IF PreValid THEN precache ELSE NoInfo
  /\ LET hit(info) == [task EXCEPT !.pc = "emit", !.batch = @ \ {e}, !.event = e,
                                   !.info = info, !.since = 0]
     IN  task' = IF PreValid THEN hit(precache)
                 ELSE IF CacheValid THEN hit(cache)
                 ELSE [hit(Blank) EXCEPT !.pc = "tree"]
  /\ UNCHANGED <<outside, cache, seen>>

ReadTree ==
  /\ task.pc = "tree"
  /\ task' = [task EXCEPT !.pc = "exe", !.info.ppid = tree]
  /\ UNCHANGED <<outside, precache, cache, seen>>

\* Without a node, or with one that names no parent, it is taken from /proc/<pid>/stat.
StatOpen ==
  /\ task.pc = "stat"
  /\ task' = [task EXCEPT !.pc = IF Visible THEN "stat_read" ELSE "store",
                          !.opened = Visible]
  /\ UNCHANGED <<outside, precache, cache, seen>>

\* ProcessLookupError is no FileNotFoundError: nothing catches it.
StatRead ==
  /\ task.pc = "stat_read"
  /\ task' = [task EXCEPT !.pc = IF task.opened THEN "store" ELSE "down",
                          !.info.ppid = task.opened, !.opened = FALSE]
  /\ UNCHANGED <<outside, precache, cache, seen>>

\* Also when nothing could be read.
Store ==
  /\ task.pc = "store"
  /\ cache' = task.info
  /\ Goto("emit")
  /\ UNCHANGED <<outside, precache, seen>>

\* /proc/<pid>/fd/<fd>, now.
Path == IF proc \in Image THEN fd ELSE None

\* Mutant: no look at the descriptors of a process that had no image.
Resolve_NoImage ==
  /\ task.pc = "emit" /\ task.event.kind = "rw"
  /\ LET text == IF task.info.exe = None THEN None ELSE Path
     IN  task' = [task EXCEPT !.pc = "isfile", !.text = text, !.leads = named]
  /\ UNCHANGED <<outside, precache, cache, seen>>

\* _resolve_fd_path.
Resolve ==
  /\ task.pc = "emit" /\ task.event.kind = "rw"
  /\ task' = [task EXCEPT !.pc = "isfile", !.text = Path, !.leads = named]
  /\ UNCHANGED <<outside, precache, cache, seen>>

\* os.path.isfile looks up the text that was read.  If that is no name of the file, then
\* there may be nothing there, or whatever has that name by now.
IsFile ==
  /\ task.pc = "isfile"
  /\ \E b \in BOOLEAN :
       /\ task.text = None => ~b
       /\ task.leads => b = (task.text \in Regular)
       /\ task' = [task EXCEPT !.pc = "write", !.regular = b]
  /\ UNCHANGED <<outside, precache, cache, seen>>

\* A read or write is not written unless isfile has said so.
Dropped(e) == e.kind = "rw" /\ ~task.regular

\* What log_event gets.  The parent in the record of a fork is that of the tree, now.
Line == [image   |-> task.info.exe,
         parent  |-> IF task.event.kind = "fork" THEN tree ELSE task.info.ppid,
         path    |-> IF task.event.kind = "rw" THEN task.text ELSE None]

\* The record is complete.
Writing == task.pc = IF task.event.kind = "rw" THEN "write" ELSE "emit"

\* Line is written, unless it is dropped; the next one.
Emit ==
  /\ Writing
  /\ task' = [task EXCEPT !.pc = "log", !.info = Unused, !.since = ProcTtl,
                          !.event = Record("call", None), !.text = None, !.leads = FALSE,
                          !.regular = FALSE]
  /\ UNCHANGED <<outside, precache, cache, seen>>

\* The end of an iteration removes what has expired from the pre-cache.
LogEnd ==
  /\ task.pc = "log" /\ task.batch = {}
  /\ task' = [task EXCEPT !.pc = "idle", !.caught = NoInfo]
  /\ precache' = IF PreValid THEN precache ELSE NoInfo
  /\ UNCHANGED <<outside, cache, seen>>
---------------------------------------------------------------------------
Init ==
  /\ proc = "free" /\ tree = FALSE /\ fd = None /\ named = FALSE /\ pending = {}
  /\ precache = NoInfo /\ cache = NoInfo
  /\ task = [pc |-> "idle", batch |-> {}, done |-> FALSE, event |-> Record("call", None),
             info |-> Unused, any |-> FALSE, since |-> ProcTtl, opened |-> FALSE,
             caught |-> NoInfo, text |-> None, leads |-> FALSE, regular |-> FALSE]
  /\ seen = [x \in Look |-> IF x = None THEN 0 ELSE ProcTtl]

Daemon ==
  \/ Register \/ Fetch \/ PreBegin \/ PreEnd \/ ReadExe \/ PreStore
  \/ \E e \in task.batch : Lookup(e)
  \/ ReadTree \/ StatOpen \/ StatRead \/ Store \/ Resolve \/ IsFile \/ Emit \/ LogEnd

Process == Fork \/ Exec \/ OpenClose \/ Unname \/ Call \/ ExitProcess \/ Reap

Next == Daemon \/ Process \/ Tick

Spec == Init /\ [][Next]_vars
---------------------------------------------------------------------------
ProcTypeOK ==
  /\ proc \in Image \cup {"free", "zombie"}
  /\ tree \in BOOLEAN
  /\ fd \in File \cup {None} /\ named \in BOOLEAN
  /\ pending \subseteq Event
  /\ precache \in Entry /\ cache \in Entry
  /\ task \in Task
  /\ seen \in [Look -> Age] /\ seen[Face] = 0

\* The id looked like that less than a TTL before the look-up began, or since.
Recent(x) == seen[x] < ProcTtl + task.since

\* Whatever a record says about its process was so at most PROC_CACHE_TTL before it
\* was looked up, for the owner the id had then: an exec, an exit, a new owner, an
\* attempt that found nothing, and reads spread over time are all forgotten after it.
Fresh == Writing => Recent(Line.image)

\* What was caught of a child right after the fetch is what the record of its fork
\* says, however short its life, and not what _proc_cache has of the id's last owner.
CaughtIsTold ==
  Writing /\ task.event.kind = "fork" /\ task.caught # NoInfo
    => Line.image = task.caught.exe \/ task.caught.age > PreTtl

\* A read or write of a regular file is logged with that file, and one of anything
\* else dropped, whatever the caches say of the process, if the descriptor is open on it
\* still when the link is read; and while the name of the file does not change.  If it
\* is renamed, or unlinked, before isfile looks for it, the record may be dropped, and
\* otherwise has what the link to that file said.
RightFile ==
  Writing /\ task.event.kind = "rw" /\ task.event.file # None =>
    IF Dropped(task.event) THEN task.event.file \notin Regular \/ ~task.event.led
    ELSE Line.path = task.event.file /\ task.event.file \in Regular
===========================================================================
