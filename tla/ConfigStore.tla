----------------------------- MODULE ConfigStore -----------------------------
(***************************************************************************)
(* config.json: the commands that edit it (config.py, cli.py) and the      *)
(* daemon that follows it (daemon.py, run_loop).                           *)
(*                                                                         *)
(* A command loads the file, edits its copy, writes a temporary file in    *)
(* the same directory and renames it over config.json.  The daemon watches *)
(* the directory; twice a second it reads the notifications, and reloads   *)
(* the file if one of them names it.                                       *)
(*                                                                         *)
(* The file is its list of targets, and a target its id and its process    *)
(* name; the other settings are saved with them and left out.  Lists are   *)
(* sets here: ids grow along them (add appends the largest), so their      *)
(* order is that of the ids.                                               *)
(* External: a hand editor that writes in place, the notification queue.   *)
(***************************************************************************)
EXTENDS Integers, Sequences, FiniteSetsExt

CONSTANTS
  Cmd,          \* commands that can run at the same time
  Name,         \* process names
  MaxId,        \* bound: target ids
  QueueCap,     \* fs.inotify.max_queued_events: 16384
  ReadMax,      \* notifications in 4096 bytes: about 100
  Editor        \* whether somebody edits the file by hand

ASSUME BoundAssumption ==
  /\ MaxId \in Nat \ {0} /\ QueueCap \in Nat \ {0} /\ ReadMax \in Nat \ {0}
ASSUME EditorAssumption == Editor \in BOOLEAN

Target == [id : 1 .. MaxId, name : Name]
Edits  == [op : {"add", "del"}, name : Name] \cup [op : {"delid"}, id : 1 .. MaxId]

\* A notification: of config.json, of another file, or of lost notifications.
Notes  == {"config", "other", "overflow"}

VARIABLES
  file,       \* the targets in config.json
  torn,       \* config.json is truncated and not yet written again
  cmd,        \* per command: what it has loaded and what it does with it
  editor,     \* the hand editor: its text, and whether its file is still config.json
  watch,      \* the daemon's watch exists
  queue,      \* its unread notifications
  daemon,     \* where run_loop is
  cfg,        \* the targets it works with
  comms,      \* the target_comms map
  missed      \* history: no notification tells of the last change

vars == <<file, torn, cmd, editor, watch, queue, daemon, cfg, comms, missed>>

store   == <<file, torn, cmd, editor>>
daemons == <<watch, daemon, cfg, comms>>

NoEdit == [op |-> "none"]
AtRest == [pc |-> "idle", base |-> {}, edit |-> NoEdit]
Closed == [pc |-> "idle", text |-> {}, mine |-> FALSE]
Up     == daemon # "off"
---------------------------------------------------------------------------
IdsOf(c) == {t.id : t \in c}

\* Mutant: the wrong key of a target.
NamesOf_Ids(c) == {t.id : t \in c}

\* What _sync_target_comms takes from the targets.
NamesOf(c) == {t.name : t \in c}

\* Mutant: the number of targets instead of the largest id.
NextId_Count(c) == Cardinality(c) + 1

\* next_target_id
NextId(c) == IF c = {} THEN 1 ELSE Max(IdsOf(c)) + 1

\* The targets an edit names; audit_del takes the first of them.
Candidates(c, e) ==
  {t \in c : IF e.op = "delid" THEN t.id = e.id ELSE t.name = e.name}

\* Mutant: every target of that name goes, as in config.py's del_target.
Match_All(c, e) == Candidates(c, e)

Match(c, e) == {t \in Candidates(c, e) : \A u \in Candidates(c, e) : t.id <= u.id}

\* What a command makes of the configuration it has loaded.
Edited(c, e) ==
  IF e.op = "add" THEN c \cup {[id |-> NextId(c), name |-> e.name]}
                  ELSE c \ Match(c, e)

\* The kernel tells the watch, if there is one; a full queue gets a nameless
\* notification in place of the one that is dropped.
Queued(q, note) ==
  IF Len(q) < QueueCap THEN Append(q, note)
  ELSE IF \E i \in DOMAIN q : q[i] = "overflow" THEN q ELSE Append(q, "overflow")

Notify(note) ==
  /\ queue' = IF watch THEN Queued(queue, note) ELSE queue
  /\ missed' = IF note = "config" THEN Up /\ ~(watch /\ Len(queue) < QueueCap)
                                  ELSE missed
---------------------------------------------------------------------------
\* load_config and the edit of the copy.  A torn file is no JSON, and a target
\* that is not there ends a deletion: then the command does nothing.
Load(c, e) ==
  /\ cmd[c].pc = "idle" /\ ~torn
  /\ IF e.op = "add" THEN NextId(file) <= MaxId ELSE Candidates(file, e) # {}
  /\ cmd' = [cmd EXCEPT ![c] = [pc |-> "loaded", base |-> file, edit |-> e]]
  /\ UNCHANGED <<file, torn, editor, queue, missed, daemons>>

\* Mutant: no temporary file; config.json itself is opened for writing.
WriteTemp_InPlace(c) ==
  /\ cmd[c].pc = "loaded"
  /\ cmd' = [cmd EXCEPT ![c].pc = "temp"]
  /\ torn' = TRUE
  /\ Notify("config")
  /\ UNCHANGED <<file, editor, daemons>>

\* save_config: mkstemp and the write into it.
WriteTemp(c) ==
  /\ cmd[c].pc = "loaded"
  /\ cmd' = [cmd EXCEPT ![c].pc = "temp"]
  /\ Notify("other")
  /\ UNCHANGED <<file, torn, editor, daemons>>

\* save_config: shutil.move, a rename inside one directory.  An editor that has
\* the old file open goes on with that.
Move(c) ==
  /\ cmd[c].pc = "temp"
  /\ file' = Edited(cmd[c].base, cmd[c].edit)
  /\ torn' = FALSE
  /\ cmd' = [cmd EXCEPT ![c] = AtRest]
  /\ editor' = [editor EXCEPT !.mine = FALSE]
  /\ Notify("config")
  /\ UNCHANGED daemons

\* A command is killed; its temporary file stays behind.
Kill(c) ==
  /\ cmd[c].pc # "idle"
  /\ cmd' = [cmd EXCEPT ![c] = AtRest]
  /\ UNCHANGED <<file, torn, editor, queue, missed, daemons>>
---------------------------------------------------------------------------
\* Somebody opens the file in an editor and deletes targets ...
EditRead(text) ==
  /\ Editor /\ editor.pc = "idle" /\ ~torn
  /\ editor' = [pc |-> "read", text |-> text, mine |-> FALSE]
  /\ UNCHANGED <<file, torn, cmd, queue, missed, daemons>>

\* ... and saves it: config.json is truncated ...
EditTruncate ==
  /\ editor.pc = "read"
  /\ torn' = TRUE
  /\ editor' = [editor EXCEPT !.pc = "write", !.mine = TRUE]
  /\ Notify("config")
  /\ UNCHANGED <<file, cmd, daemons>>

\* ... and written, unless it is another file by now.
EditWrite ==
  /\ editor.pc = "write"
  /\ IF editor.mine THEN file' = editor.text /\ torn' = FALSE
                    ELSE UNCHANGED <<file, torn>>
  /\ editor' = Closed
  /\ Notify("config")
  /\ UNCHANGED <<cmd, daemons>>
---------------------------------------------------------------------------
\* run_loop begins: load_config.  (A torn file ends the daemon at once.)
Boot ==
  /\ daemon = "off" /\ ~torn
  /\ daemon' = "boot"
  /\ cfg' = file
  /\ missed' = FALSE
  /\ UNCHANGED <<store, watch, queue, comms>>

\* _setup_inotify
Watch ==
  /\ daemon = "boot"
  /\ daemon' = "start"
  /\ watch' = TRUE
  /\ UNCHANGED <<store, queue, cfg, comms, missed>>

\* The programs are loaded, the first scan is over: _sync_target_comms.
FirstSync ==
  /\ daemon = "start"
  /\ daemon' = "loop"
  /\ comms' = NamesOf(cfg)
  /\ UNCHANGED <<store, watch, queue, cfg, missed>>

\* Does a notification name config.json?  A nameless one ends the search.
Names(batch) ==
  \E i \in DOMAIN batch :
    batch[i] = "config" /\ \A j \in 1 .. i - 1 : batch[j] # "overflow"

\* select() and os.read(fd, 4096)
ReadEvents ==
  /\ daemon = "loop" /\ queue # <<>>
  /\ LET n     == Min({ReadMax, Len(queue)})
         batch == SubSeq(queue, 1, n)
         rest  == SubSeq(queue, n + 1, Len(queue))
     IN  /\ queue' = rest
         /\ daemon' = IF Names(batch) THEN "load" ELSE "sync"
         /\ missed' = \/ missed
                      \/ /\ \E i \in DOMAIN batch : batch[i] = "config"
                         /\ \E i \in DOMAIN batch : batch[i] = "overflow"
                         /\ ~Names(batch)
                         /\ \A i \in DOMAIN rest : rest[i] # "config"
  /\ UNCHANGED <<store, watch, cfg, comms>>

\* load_config again.  The error a torn file raises is swallowed, and what follows
\* in the try block is skipped.
Reload ==
  /\ daemon = "load"
  /\ \/ /\ torn
        /\ daemon' = "loop"
        /\ UNCHANGED <<cfg, missed>>
     \/ /\ ~torn
        /\ daemon' = "sync"
        /\ cfg' = file
        /\ missed' = FALSE
  /\ UNCHANGED <<store, watch, queue, comms>>

\* Mutant: what has been notified meanwhile is taken for answered.
Sync_Drains ==
  /\ daemon = "sync"
  /\ daemon' = "loop"
  /\ comms' = NamesOf(cfg)
  /\ queue' = <<>>
  /\ UNCHANGED <<store, watch, cfg, missed>>

\* _sync_target_comms, after a reload or any other notification.
Sync ==
  /\ daemon = "sync"
  /\ daemon' = "loop"
  /\ comms' = NamesOf(cfg)
  /\ UNCHANGED <<store, watch, queue, cfg, missed>>

\* The daemon is stopped or dies; its watch and its maps go with it.
Die ==
  /\ Up
  /\ daemon' = "off"
  /\ watch' = FALSE /\ queue' = <<>> /\ missed' = FALSE
  /\ cfg' = {} /\ comms' = {}
  /\ UNCHANGED store
---------------------------------------------------------------------------
Init ==
  /\ file = {} /\ torn = FALSE
  /\ cmd = [c \in Cmd |-> AtRest]
  /\ editor = Closed
  /\ watch = FALSE /\ queue = <<>> /\ daemon = "off"
  /\ cfg = {} /\ comms = {} /\ missed = FALSE

Next ==
  \/ \E c \in Cmd : \/ \E e \in Edits : Load(c, e)
                    \/ WriteTemp(c) \/ Move(c) \/ Kill(c)
  \/ \E text \in SUBSET file : EditRead(text)
  \/ EditTruncate \/ EditWrite
  \/ Boot \/ Watch \/ FirstSync \/ ReadEvents \/ Reload \/ Sync \/ Die

Spec == Init /\ [][Next]_vars
---------------------------------------------------------------------------
StoreTypeOK ==
  /\ file \in SUBSET Target
  /\ torn \in BOOLEAN
  /\ cmd \in [Cmd -> [pc : {"idle", "loaded", "temp"}, base : SUBSET Target,
                      edit : Edits \cup {NoEdit}]]
  /\ editor \in [pc : {"idle", "read", "write"}, text : SUBSET Target,
                 mine : BOOLEAN]
  /\ watch \in BOOLEAN
  /\ queue \in Seq(Notes) /\ Len(queue) <= QueueCap + 1
  /\ daemon \in {"off", "boot", "start", "loop", "load", "sync"}
  /\ cfg \in SUBSET Target
  /\ comms \in SUBSET Name
  /\ missed \in BOOLEAN

\* No two targets of config.json have the same id, whatever commands overlap,
\* overwrite each other or are killed, and whatever is deleted by hand: "del --id"
\* never takes two.
IdsUnique == \A t, u \in file : t.id = u.id => t = u

\* config.json is unreadable only while somebody saves it by hand: no command
\* leaves it so, wherever it is killed.
TornByHandOnly == torn => editor.pc = "write" /\ editor.mine

\* A command changes what it was asked to change: relative to the file it replaces,
\* "del" takes away at most one target, one it names, and "add" takes none and adds
\* exactly one if nobody has saved since it loaded the file.  Other differences are
\* edits of somebody who did, and these may be undone.
ChangesItsOwn ==
  [][\A c \in Cmd : Move(c) =>
       LET base == cmd[c].base
           edit == cmd[c].edit
           gone == (file \ file') \cap base
           new  == (file' \ file) \ base
       IN  IF edit.op = "add"
           THEN /\ gone = {}
                /\ \A t, u \in new : t = u
                /\ file = base => new # {}
           ELSE /\ new = {}
                /\ gone \subseteq Candidates(base, edit)
                /\ \A t, u \in gone : t = u]_vars

\* A daemon that has nothing to do works with what is in the file, and so do the
\* kernel programs, if a notification of the last change got through: no order of
\* edits, notifications, reloads and half-written files leaves it with an older one.
ConfigIsCurrent ==
  daemon = "loop" /\ ~torn /\ ~missed /\ (\A i \in DOMAIN queue : queue[i] # "config")
    => cfg = file /\ comms = NamesOf(file)
===========================================================================
