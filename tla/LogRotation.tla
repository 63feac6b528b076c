----------------------------- MODULE LogRotation -----------------------------
(***************************************************************************)
(* The files of the audit log: AuditLogger in log_rotator.py, which gives  *)
(* Python's RotatingFileHandler its own names for backups, and the log     *)
(* command of cli.py, which reads the log meanwhile.                       *)
(*                                                                         *)
(* The handler shifts its backups from i to i + 1 and renames the log to   *)
(* backup 1; it asks for each name when it needs it.  AuditLogger names    *)
(* every backup of a day alike, whatever its number, so a name is a day    *)
(* here.  A line is its number, a file the sequence of its lines.          *)
(* External: RotatingFileHandler (emit, shouldRollover, doRollover of      *)
(* Python 3.11), midnight, and the end and restart of the daemon.          *)
(***************************************************************************)
EXTENDS Naturals, Sequences, FiniteSets

CONSTANTS
  Cap,            \* lines in max_size_mb
  BackupCount,    \* backup_count: 5
  Days,           \* bound: days
  MaxLines        \* bound: lines

ASSUME LogAssumption ==
  /\ Cap \in Nat \ {0} /\ BackupCount \in Nat \ {0}
  /\ Days \in Nat \ {0} /\ MaxLines \in Nat

Day  == 1 .. Days
Line == 1 .. MaxLines

VARIABLES
  day,        \* today
  written,    \* how many lines log_event was called for
  current,    \* the lines in log_path
  backup,     \* the lines in the backup of each day; none is no file
  roll,       \* the locals of emit and doRollover
  lost,       \* history: the lines that are gone, and why
  view        \* a log command that reads, and the last line it has read

files == <<day, written, current, backup, roll, lost>>
vars  == <<files, view>>

Why  == {"replaced", "unlinked", "unwritten", "killed"}
Roll == [pc : {"idle", "source", "shift", "remove", "rename", "write"},
         line : 0 .. MaxLines, i : 0 .. BackupCount, name : Day]

\* Its file: the log, or one that was the log when it was opened.
View == [pc : {"idle", "log", "moved"}, at : 0 .. Cap, last : 0 .. MaxLines, text : Seq(Line)]
NoView == [pc |-> "idle", at |-> 0, last |-> 0, text |-> <<>>]

Lines(s)     == {s[k] : k \in DOMAIN s}
Gone(s, why) == Lines(s) \X {why}
Finished     == [roll EXCEPT !.pc = "idle", !.line = 0]
---------------------------------------------------------------------------
\* Mutant: a date without its year comes back.
rotation_filename_NoYear == IF day = Days THEN 1 ELSE day

\* _rotation_filename: the number at the end of the default name is left out.
rotation_filename == day

\* Mutant: the size is compared before the line is added.
LogEvent_OneMore ==
  LET n == written + 1
  IN  /\ roll.pc = "idle" /\ written < MaxLines
      /\ written' = n
      /\ IF Len(current) <= Cap
         THEN current' = Append(current, n) /\ UNCHANGED roll
         ELSE /\ roll' = [roll EXCEPT !.line = n, !.i = BackupCount - 1, !.pc = "source"]
              /\ UNCHANGED current
      /\ UNCHANGED <<day, backup, lost, view>>

\* log_event: the handler appends, or first rolls over if the line does not fit.
LogEvent ==
  LET n == written + 1
  IN  /\ roll.pc = "idle" /\ written < MaxLines
      /\ written' = n
      /\ IF Len(current) < Cap
         THEN current' = Append(current, n) /\ UNCHANGED roll
         ELSE /\ roll' = [roll EXCEPT !.line = n, !.i = BackupCount - 1,
                            !.pc = IF BackupCount > 1 THEN "source" ELSE "remove"]
              /\ UNCHANGED current
      /\ UNCHANGED <<day, backup, lost, view>>

\* sfn = rotation_filename(".i")
Source ==
  /\ roll.pc = "source"
  /\ roll' = [roll EXCEPT !.pc = "shift", !.name = rotation_filename]
  /\ UNCHANGED <<day, written, current, backup, lost, view>>

Shifted == [roll EXCEPT !.i = @ - 1, !.pc = IF roll.i > 1 THEN "source" ELSE "remove"]

\* dfn = rotation_filename(".i+1").  If there is a backup, dfn is removed and
\* the backup renamed to it; when both have one name nothing is left to rename, the
\* exception ends the call, and the line is not written.
Shift ==
  LET from == roll.name
      to   == rotation_filename
  IN  /\ roll.pc = "shift"
      /\ \/ /\ backup[from] = <<>>
            /\ roll' = Shifted
            /\ UNCHANGED <<backup, lost>>
         \/ /\ backup[from] # <<>> /\ from # to
            /\ backup' = [backup EXCEPT ![to] = backup[from], ![from] = <<>>]
            /\ lost' = lost \cup Gone(backup[to], "replaced")
            /\ roll' = Shifted
         \/ /\ backup[from] # <<>> /\ from = to
            /\ backup' = [backup EXCEPT ![from] = <<>>]
            /\ lost' = lost \cup Gone(backup[from], "unlinked")
                            \cup {<<roll.line, "unwritten">>}
            /\ roll' = Finished
      /\ UNCHANGED <<day, written, current, view>>

\* Mutant: the new log is opened, and so emptied, first.
Remove_Truncates ==
  LET to == rotation_filename
  IN  /\ roll.pc = "remove"
      /\ roll' = [roll EXCEPT !.pc = "rename", !.name = to]
      /\ backup' = [backup EXCEPT ![to] = <<>>]
      /\ current' = <<>>
      /\ lost' = lost \cup Gone(backup[to] \o current, "replaced")
      /\ UNCHANGED <<day, written, view>>

\* dfn = rotation_filename(".1"): what has that name goes.
Remove ==
  LET to == rotation_filename
  IN  /\ roll.pc = "remove"
      /\ roll' = [roll EXCEPT !.pc = "rename", !.name = to]
      /\ backup' = [backup EXCEPT ![to] = <<>>]
      /\ lost' = lost \cup Gone(backup[to], "replaced")
      /\ UNCHANGED <<day, written, current, view>>

\* Mutant: the log is copied and emptied.
Rename_Empties ==
  /\ roll.pc = "rename"
  /\ roll' = [roll EXCEPT !.pc = "write"]
  /\ backup' = [backup EXCEPT ![roll.name] = current]
  /\ current' = <<>>
  /\ UNCHANGED <<day, written, lost, view>>

\* Mutant: the log is copied.
Rename_Copies ==
  /\ roll.pc = "rename"
  /\ roll' = [roll EXCEPT !.pc = "write"]
  /\ backup' = [backup EXCEPT ![roll.name] = current]
  /\ UNCHANGED <<day, written, current, lost, view>>

\* rotate(): the log becomes that backup; who has it open goes on with it.
Rename ==
  /\ roll.pc = "rename"
  /\ roll' = [roll EXCEPT !.pc = "write"]
  /\ backup' = [backup EXCEPT ![roll.name] = current]
  /\ current' = <<>>
  /\ view' = IF view.pc = "log" THEN [view EXCEPT !.pc = "moved", !.text = current] ELSE view
  /\ UNCHANGED <<day, written, lost>>

\* The line starts the new log.
Write ==
  /\ roll.pc = "write"
  /\ current' = Append(current, roll.line)
  /\ roll' = Finished
  /\ UNCHANGED <<day, written, backup, lost, view>>
---------------------------------------------------------------------------
(* agent_audit log *)

\* It opens the log, which is there but in the middle of a rollover.
ViewOpen ==
  /\ view.pc = "idle" /\ roll.pc # "write"
  /\ view' = [view EXCEPT !.pc = "log"]
  /\ UNCHANGED files

Viewed == IF view.pc = "moved" THEN view.text ELSE current

\* readlines takes what follows of the file it has open ...
ViewLine ==
  /\ view.pc # "idle" /\ view.at < Len(Viewed)
  /\ view' = [view EXCEPT !.at = @ + 1, !.last = Viewed[view.at + 1]]
  /\ UNCHANGED files

\* ... until there is no more.
ViewEnd ==
  /\ view.pc # "idle" /\ view.at >= Len(Viewed)
  /\ view' = NoView
  /\ UNCHANGED files
---------------------------------------------------------------------------
Midnight ==
  /\ day < Days
  /\ day' = day + 1
  /\ UNCHANGED <<written, current, backup, roll, lost, view>>

\* The daemon is killed in a rollover; the next one appends to what it finds.
Killed ==
  /\ roll.pc # "idle"
  /\ lost' = lost \cup {<<roll.line, "killed">>}
  /\ roll' = Finished
  /\ UNCHANGED <<day, written, current, backup, view>>

Init ==
  /\ day = 1 /\ written = 0
  /\ current = <<>>
  /\ backup = [d \in Day |-> <<>>]
  /\ roll = [pc |-> "idle", line |-> 0, i |-> 0, name |-> 1]
  /\ lost = {}
  /\ view = NoView

Next ==
  \/ LogEvent \/ Source \/ Shift \/ Remove \/ Rename \/ Write \/ Midnight \/ Killed
  \/ ViewOpen \/ ViewLine \/ ViewEnd

Spec == Init /\ [][Next]_vars
---------------------------------------------------------------------------
Ordered(s) == \A j, k \in DOMAIN s : j < k => s[j] < s[k]

RotationTypeOK ==
  /\ day \in Day /\ written \in 0 .. MaxLines
  /\ current \in Seq(Line) /\ Len(current) <= Cap
  /\ backup \in [Day -> Seq(Line)] /\ \A d \in Day : Len(backup[d]) \in {0, Cap}
  /\ roll \in Roll
  /\ lost \subseteq Line \X Why
  /\ view \in View

\* Whoever reads the backups in the order of their names and then the log reads the
\* lines in the order they were written, also if midnight comes in the middle of
\* a rollover (_rotation_filename asks for the date each time it is called).
ReadsInOrder ==
  /\ Ordered(current) /\ \A d \in Day : Ordered(backup[d])
  /\ \A d, e \in Day : d < e =>
       \A j \in Lines(backup[d]), k \in Lines(backup[e]) : j < k
  /\ \A d \in Day : \A j \in Lines(backup[d]), k \in Lines(current) : j < k

\* What log_event was called for is in one place of one file, is the line a
\* rollover is still to write, or is gone for one reason: wherever a rollover
\* fails or is cut off, nothing is there twice and nothing goes unseen.
Accounted ==
  \A n \in 1 .. written :
      Cardinality({d \in Day : n \in Lines(backup[d])})
    + Cardinality({why \in Why : <<n, why>> \in lost})
    + Cardinality({n} \cap Lines(current))
    + (IF roll.line = n THEN 1 ELSE 0) = 1

\* What a reader can count on although backups go early: lines that were in a
\* file are deleted (doRollover) only while a whole file of newer ones exists.
NewestKept ==
  \A n \in Line : <<n, "replaced">> \in lost \/ <<n, "unlinked">> \in lost =>
    \E f \in {current} \cup {backup[d] : d \in Day} :
      Len(f) >= Cap /\ \A k \in Lines(f) : k > n

\* What "log" reads is a run of the lines in the order they were written: however
\* often the log is rolled over, replaced or deleted under it, it skips a line only
\* if that was given up before it got into a file.
ReadsARun ==
  [][ViewLine /\ view.at > 0 =>
       /\ view'.last > view.last
       /\ \A n \in view.last + 1 .. view'.last - 1 :
            \E why \in {"unwritten", "killed"} : <<n, why>> \in lost]_vars
---------------------------------------------------------------------------
\* What the comments of log_rotator.py say and the program does not do: log_event is
\* to "write a single audit event as a JSON line", and a rotation "renames current file
\* with a date suffix".  A rollover that nobody cuts off writes its line.
RolloverWrites ==
  [][roll.pc # "idle" /\ roll'.pc = "idle" /\ ~Killed => roll.line \in Lines(current')]_vars
===========================================================================
