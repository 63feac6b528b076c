-------------------------- MODULE LogRotationProofs --------------------------
(***************************************************************************)
(* Theorems about LogRotation, for any size of the log, any number of      *)
(* backups, and however many rollovers, midnights and kills there are.     *)
(***************************************************************************)
EXTENDS LogRotation, FiniteSetTheorems, TLAPS

InRollover == roll.pc # "idle"

\* The line a rollover is for is the last one; until the log is renamed it is full,
\* and then it is empty until that line is written.
RollLine ==
  /\ IF InRollover THEN roll.line = written /\ written > 0 ELSE roll.line = 0
  /\ roll.pc \in {"source", "shift"} => roll.i > 0
  /\ roll.pc \in {"source", "shift", "remove", "rename"} => Len(current) = Cap
  /\ roll.pc = "write" => current = <<>>

\* No backup has the name of a day to come, nor of one after the name in hand,
\* though that may be yesterday's by now.
NamesPast ==
  /\ \A d \in Day : d > day => backup[d] = <<>>
  /\ roll.pc \in {"shift", "rename"} => roll.name <= day /\ \A d \in Day : d > roll.name => backup[d] = <<>>
  /\ roll.pc = "rename" => backup[roll.name] = <<>>

\* What is in the files was asked for, and not just now.
Written(s) == \A k \in DOMAIN s : s[k] <= written /\ s[k] # roll.line

\* A file holds lines that follow each other.
Consecutive(s) == \A j, k \in DOMAIN s : s[j] - s[k] = j - k

\* A log that has room ends with the last line.
Contiguous ==
  /\ Consecutive(current) /\ \A d \in Day : Consecutive(backup[d])
  /\ current # <<>> /\ Len(current) < Cap => current[Len(current)] = written

\* Every line of s was written before every line of t.
Before(s, t) == \A j \in DOMAIN s, k \in DOMAIN t : s[j] < t[k]

InOrder ==
  /\ \A d \in Day : Before(backup[d], current)
  /\ \A d, e \in Day : d < e => Before(backup[d], backup[e])

\* A log command has read the front of the file it has open.
ViewInv ==
  /\ view.pc # "idle" =>
       /\ view.at <= Len(Viewed)
       /\ view.at > 0 => view.last = Viewed[view.at]
       /\ Consecutive(Viewed)
       /\ Len(Viewed) <= Cap
  /\ view.pc = "idle" => view = NoView

FilesInv == /\ RotationTypeOK
            /\ RollLine
            /\ NamesPast
            /\ Written(current) /\ \A d \in Day : Written(backup[d])
            /\ Contiguous
            /\ InOrder

RotationInv == FilesInv /\ ViewInv
---------------------------------------------------------------------------
LEMMA InitFiles == Init => RotationInv
<1> SUFFICES ASSUME Init PROVE RotationInv
  OBVIOUS
<1> USE LogAssumption DEF Init
<1>1. <<>> \in Seq(Line) /\ Len(<<>>) = 0 /\ DOMAIN <<>> = {}
  OBVIOUS
<1>2. RotationTypeOK
  BY <1>1 DEF RotationTypeOK, Day, Line, Roll, View, NoView
<1>3. RollLine /\ NamesPast /\ ViewInv
  BY <1>1 DEF RollLine, InRollover, NamesPast, ViewInv, NoView
<1>4. Written(current) /\ (\A d \in Day : Written(backup[d])) /\ Contiguous /\ InOrder
  BY <1>1 DEF Written, Contiguous, Consecutive, InOrder, Before
<1> QED BY <1>2, <1>3, <1>4 DEF RotationInv, FilesInv

\* A file and the next line.
LEMMA Appended ==
  ASSUME NEW s \in Seq(Line), NEW n \in Line
  PROVE  /\ Append(s, n) \in Seq(Line) /\ Len(Append(s, n)) = Len(s) + 1
         /\ DOMAIN Append(s, n) = 1 .. Len(s) + 1 /\ DOMAIN s = 1 .. Len(s) /\ Len(s) \in Nat
         /\ \A k \in 1 .. Len(s) : Append(s, n)[k] = s[k] /\ s[k] \in Line
         /\ Append(s, n)[Len(s) + 1] = n
  OBVIOUS

\* The line goes into the log, whoever puts it there.
LEMMA AppendKeeps ==
  ASSUME FilesInv, NEW n \in Line, current' = Append(current, n), Len(current) < Cap,
         backup' = backup, day' = day, lost' = lost, written' = n, roll' \in Roll,
         roll'.pc = "idle", roll'.line = 0, view' \in View,
         \A k \in DOMAIN current : current[k] < n,
         \A d \in Day : \A k \in DOMAIN backup[d] : backup[d][k] < n,
         current # <<>> => n = written + 1
  PROVE  FilesInv'
<1> USE LogAssumption DEF FilesInv, RotationTypeOK
<1>0. /\ current \in Seq(Line) /\ Len(current) \in Nat /\ Cap \in Nat
      /\ written \in 0 .. MaxLines
      /\ current' \in Seq(Line) /\ Len(current') = Len(current) + 1
      /\ DOMAIN current' = 1 .. Len(current) + 1 /\ DOMAIN current = 1 .. Len(current)
      /\ \A k \in 1 .. Len(current) : current'[k] = current[k] /\ current[k] \in Line
      /\ current'[Len(current) + 1] = n
  BY Appended
<1>1. RotationTypeOK'
  BY <1>0 DEF Line
<1>2. RollLine' /\ NamesPast'
  BY DEF RollLine, InRollover, NamesPast
<1>3. Written(current)' /\ \A d \in Day : Written(backup[d])'
  <2>1. Written(current)'
    <3> SUFFICES ASSUME NEW k \in 1 .. Len(current) + 1 PROVE current'[k] <= n /\ current'[k] # 0
      BY <1>0 DEF Written
    <3>1. current'[k] \in Line /\ current'[k] <= n
      <4>1. CASE k <= Len(current)
        <5>1. k \in 1 .. Len(current)
          BY <1>0, <4>1
        <5>2. current'[k] = current[k] /\ current[k] \in Line /\ current[k] < n
          BY <1>0, <5>1
        <5>3. \A x, y \in Line : x < y => x <= y
          BY DEF Line
        <5> QED BY <5>2, <5>3
      <4>2. CASE k = Len(current) + 1
        BY <1>0, <4>2 DEF Line
      <4> QED BY <1>0, <4>1, <4>2
    <3> QED BY <3>1 DEF Line
  <2>2. ASSUME NEW d \in Day, NEW k \in DOMAIN backup[d]
        PROVE  backup[d][k] <= n /\ backup[d][k] # 0
    <3>1. backup[d] \in Seq(Line)
      OBVIOUS
    <3>2. backup[d][k] \in Line
      BY <3>1
    <3> QED BY <3>2 DEF Line
  <2> QED BY <2>1, <2>2 DEF Written
<1>4. Contiguous'
  <2>1. current # <<>> => current[Len(current)] = n - 1
    BY <1>0 DEF Contiguous, Line
  <2>2. ASSUME NEW j \in 1 .. Len(current) PROVE n - current[j] = (Len(current) + 1) - j
    <3>1. current # <<>> /\ Len(current) \in 1 .. Len(current)
      BY <1>0
    <3>2. current[j] - current[Len(current)] = j - Len(current)
      BY <1>0, <3>1 DEF Contiguous, Consecutive
    <3>3. current[j] \in Int /\ current[Len(current)] \in Int /\ n \in Int
      BY <1>0, <3>1 DEF Line
    <3> QED BY <1>0, <2>1, <3>1, <3>2, <3>3
  <2>3. \A j, k \in 1 .. Len(current) : current[j] - current[k] = j - k
    BY <1>0 DEF Contiguous, Consecutive
  <2>4. Consecutive(current')
    <3> SUFFICES ASSUME NEW j \in 1 .. Len(current) + 1, NEW k \in 1 .. Len(current) + 1
                 PROVE  current'[j] - current'[k] = j - k
      BY <1>0 DEF Consecutive
    <3>1. CASE j <= Len(current) /\ k <= Len(current)
      BY <1>0, <2>3, <3>1
    <3>2. CASE j = Len(current) + 1 /\ k <= Len(current)
      BY <1>0, <2>2, <3>2 DEF Line
    <3>3. CASE j <= Len(current) /\ k = Len(current) + 1
      BY <1>0, <2>2, <3>3 DEF Line
    <3>4. CASE j = Len(current) + 1 /\ k = Len(current) + 1
      BY <1>0, <3>4 DEF Line
    <3> QED BY <1>0, <3>1, <3>2, <3>3, <3>4
  <2> QED BY <1>0, <2>4 DEF Contiguous, Consecutive
<1>5. InOrder'
  <2>1. \A d \in Day : Before(backup[d], current)'
    BY <1>0 DEF InOrder, Before
  <2> QED BY <2>1 DEF InOrder, Before
<1> QED BY <1>1, <1>2, <1>3, <1>4, <1>5

\* The elements of a file are lines.
LEMMA Elements ==
  ASSUME RotationTypeOK
  PROVE  /\ \A k \in DOMAIN current : current[k] \in Line
         /\ \A d \in Day : \A k \in DOMAIN backup[d] : backup[d][k] \in Line
         /\ \A k \in DOMAIN view.text : view.text[k] \in Line
<1> USE DEF RotationTypeOK
<1>1. \A s \in Seq(Line) : \A k \in DOMAIN s : s[k] \in Line
  OBVIOUS
<1>2. current \in Seq(Line) /\ view.text \in Seq(Line) /\ \A d \in Day : backup[d] \in Seq(Line)
  BY DEF View
<1> QED BY <1>1, <1>2

LEMMA EmptyFile == DOMAIN <<>> = {} /\ Len(<<>>) = 0 /\ <<>> \in Seq(Line)
  OBVIOUS

LEMMA LogEventKeeps == FilesInv /\ LogEvent => FilesInv'
<1> SUFFICES ASSUME FilesInv, LogEvent PROVE FilesInv'
  OBVIOUS
<1> USE LogAssumption DEF FilesInv
<1> DEFINE n == written + 1
<1>1. n \in Line /\ written \in 0 .. MaxLines /\ roll \in Roll /\ view \in View
  BY DEF LogEvent, RotationTypeOK, Line
<1>2. CASE Len(current) < Cap
  <2>1. /\ current' = Append(current, n) /\ backup' = backup /\ day' = day /\ lost' = lost
        /\ written' = n /\ roll' = roll /\ view' = view /\ roll.pc = "idle"
    BY <1>2 DEF LogEvent
  <2>2. /\ \A k \in DOMAIN current : current[k] < n
        /\ \A d \in Day : \A k \in DOMAIN backup[d] : backup[d][k] < n
    BY <1>1, Elements DEF Written, Line
  <2>3. roll.line = 0
    BY <2>1 DEF RollLine, InRollover
  <2> HIDE DEF n
  <2>4. n = written + 1
    BY DEF n
  <2> QED BY <1>1, <1>2, <2>1, <2>2, <2>3, <2>4, AppendKeeps
<1>3. CASE ~(Len(current) < Cap)
  <2>1. /\ roll.pc = "idle" /\ written' = n /\ UNCHANGED <<current, day, backup, lost, view>>
        /\ roll' = [roll EXCEPT !.line = n, !.i = BackupCount - 1,
                            !.pc = IF BackupCount > 1 THEN "source" ELSE "remove"]
    BY <1>3 DEF LogEvent
  <2>2. Len(current) = Cap /\ current # <<>>
    BY <1>3 DEF RotationTypeOK
  <2>3. RotationTypeOK'
    <3>1. roll' \in Roll
      <4>1. n \in 0 .. MaxLines /\ BackupCount - 1 \in 0 .. BackupCount
        BY <1>1 DEF Line
      <4> HIDE DEF n
      <4> QED BY <1>1, <2>1, <4>1 DEF Roll
    <3>2. written' \in 0 .. MaxLines
      BY <1>1, <2>1 DEF Line
    <3> QED BY <2>1, <3>1, <3>2 DEF RotationTypeOK
  <2>4. RollLine' /\ NamesPast'
    BY <1>1, <2>1, <2>2 DEF RollLine, InRollover, NamesPast, Roll, Line
  <2>5. Written(current)' /\ \A d \in Day : Written(backup[d])'
    <3>1. roll'.line = n
      BY <1>1, <2>1 DEF Roll
    <3> QED BY <1>1, <2>1, <3>1, Elements DEF Written, Line
  <2>6. Contiguous' /\ InOrder'
    BY <2>1, <2>2 DEF Contiguous, Consecutive, InOrder, Before, RotationTypeOK
  <2> QED BY <2>3, <2>4, <2>5, <2>6
<1> QED BY <1>2, <1>3

LEMMA SourceKeeps == FilesInv /\ Source => FilesInv'
<1> SUFFICES ASSUME FilesInv, Source PROVE FilesInv'
  OBVIOUS
<1> USE LogAssumption DEF FilesInv
<1>1. /\ roll.pc = "source" /\ roll' = [roll EXCEPT !.pc = "shift", !.name = day]
      /\ UNCHANGED <<day, written, current, backup, lost, view>>
  BY DEF Source, rotation_filename
<1>2. RotationTypeOK'
  BY <1>1 DEF RotationTypeOK, Roll
<1>3. RollLine' /\ NamesPast'
  BY <1>1 DEF RotationTypeOK, Day, RollLine, InRollover, NamesPast, Roll
<1>4. Written(current)' /\ (\A d \in Day : Written(backup[d])') /\ Contiguous' /\ InOrder'
  BY <1>1 DEF RotationTypeOK, Roll, Written, Contiguous, Consecutive, InOrder, Before
<1> QED BY <1>2, <1>3, <1>4

LEMMA FinishedType ==
  ASSUME roll \in Roll
  PROVE  Finished \in Roll /\ Finished.pc = "idle" /\ Finished.line = 0
<1>1. 0 \in 0 .. MaxLines
  BY LogAssumption
<1> QED BY <1>1 DEF Roll, Finished

\* A file goes, or becomes a backup of a later day when no other is in between.
LEMMA ShiftKeeps == FilesInv /\ Shift => FilesInv'
<1> SUFFICES ASSUME FilesInv, Shift PROVE FilesInv'
  OBVIOUS
<1> USE LogAssumption DEF FilesInv
<1> DEFINE from == roll.name
<1>1. /\ roll.pc = "shift" /\ from \in Day /\ day \in Day
      /\ roll.i \in 1 .. BackupCount /\ roll.line = written
      /\ UNCHANGED <<day, written, current, view>>
  BY DEF Shift, RotationTypeOK, Roll, RollLine, InRollover
<1>2. /\ Shifted \in Roll /\ Shifted.pc \in {"source", "remove"} /\ Shifted.line = roll.line
      /\ Shifted.pc = "source" => Shifted.i > 0
      /\ Finished \in Roll /\ Finished.pc = "idle" /\ Finished.line = 0
  <2>1. roll.i - 1 \in 0 .. BackupCount /\ (roll.i > 1 => roll.i - 1 > 0)
    BY <1>1
  <2>2. roll \in Roll /\ 0 \in 0 .. MaxLines
    BY DEF RotationTypeOK
  <2>3. /\ Shifted.pc = IF roll.i > 1 THEN "source" ELSE "remove"
        /\ Shifted.line = roll.line /\ Shifted.i = roll.i - 1 /\ Shifted \in Roll
    BY <2>1, <2>2 DEF Roll, Shifted
  <2>4. Finished.pc = "idle" /\ Finished.line = 0 /\ Finished \in Roll
    BY <2>2, FinishedType
  <2> QED BY <2>1, <2>3, <2>4
<1>3. CASE backup[from] = <<>>
  <2>1. roll' = Shifted /\ UNCHANGED <<backup, lost>>
    BY <1>3 DEF Shift
  <2>2. RotationTypeOK' /\ RollLine' /\ NamesPast'
    BY <1>1, <1>2, <2>1 DEF RotationTypeOK, RollLine, InRollover, NamesPast
  <2>3. Written(current)' /\ (\A d \in Day : Written(backup[d])') /\ Contiguous' /\ InOrder'
    BY <1>1, <1>2, <2>1 DEF Written, Contiguous, Consecutive, InOrder, Before
  <2> QED BY <2>2, <2>3
<1>4. CASE backup[from] # <<>> /\ from # day
  <2>1. /\ roll' = Shifted
        /\ backup' = [backup EXCEPT ![day] = backup[from], ![from] = <<>>]
        /\ lost' = lost \cup Gone(backup[day], "replaced")
    BY <1>4 DEF Shift, rotation_filename
  <2>2. /\ backup'[day] = backup[from] /\ backup'[from] = <<>>
        /\ \A d \in Day \ {day, from} : backup'[d] = backup[d]
        /\ backup' \in [Day -> Seq(Line)]
    <3>1. backup \in [Day -> Seq(Line)] /\ <<>> \in Seq(Line)
      BY DEF RotationTypeOK
    <3>2. backup' = [d \in Day |-> IF d = from THEN <<>>
                                   ELSE IF d = day THEN backup[from] ELSE backup[d]]
      BY <1>1, <1>4, <2>1, <3>1
    <3> QED BY <1>1, <1>4, <3>1, <3>2
  <2>3. lost' \subseteq Line \X Why
    BY <1>1, <2>1, Elements DEF RotationTypeOK, Gone, Lines, Why
  <2>4. from < day /\ \A d \in Day : d > from => backup[d] = <<>>
    BY <1>1, <1>4 DEF NamesPast, Day
  <2>5. RotationTypeOK'
    BY <1>1, <1>2, <2>1, <2>2, <2>3 DEF RotationTypeOK
  <2>6. RollLine' /\ NamesPast'
    BY <1>1, <1>2, <2>1, <2>2, <2>4 DEF RollLine, InRollover, NamesPast, Day
  <2>7. \A d \in Day : \/ backup'[d] = backup[d] /\ (d = day => backup[d] = <<>>)
                       \/ backup'[d] = <<>>
                       \/ d = day /\ backup'[d] = backup[from]
    <3> TAKE d \in Day
    <3>1. CASE d = day
      BY <2>2, <3>1
    <3>2. CASE d = from
      BY <2>2, <3>2
    <3>3. CASE d # day /\ d # from
      BY <2>2, <3>3
    <3> QED BY <3>1, <3>2, <3>3
  <2>8. Written(current)' /\ (\A d \in Day : Written(backup[d])') /\ Contiguous'
    <3>1. /\ roll'.line = roll.line
          /\ \A d \in Day : \E s \in {backup[d], backup[from], <<>>} : backup'[d] = s
      BY <1>2, <2>1, <2>7
    <3> QED BY <1>1, <3>1, EmptyFile DEF Written, Contiguous, Consecutive
  <2>9. InOrder'
    <3>1. \A d \in Day : Before(backup'[d], current)
      BY <1>1, <2>7, EmptyFile DEF InOrder, Before
    <3>2. ASSUME NEW d \in Day, NEW e \in Day, d < e PROVE Before(backup'[d], backup'[e])
      <4>1. CASE d = from \/ e = from
        BY <2>2, <4>1, EmptyFile DEF Before
      <4>2. CASE e = day /\ d # from
        <5>1. d < from \/ backup[d] = <<>>
          BY <1>1, <2>4, <4>2 DEF Day
        <5> QED BY <1>1, <2>2, <3>2, <4>2, <5>1, EmptyFile DEF InOrder, Before, Day
      <4>3. CASE e # day /\ e # from
        <5>1. e < from \/ backup[e] = <<>>
          BY <1>1, <2>4, <4>3 DEF Day
        <5>2. d # day \/ backup[e] = <<>>
          BY <1>1, <2>4, <3>2, <5>1 DEF Day
        <5> QED BY <2>2, <3>2, <4>3, <5>1, <5>2, EmptyFile DEF InOrder, Before
      <4> QED BY <4>1, <4>2, <4>3
    <3> QED BY <1>1, <3>1, <3>2 DEF InOrder, Before
  <2> QED BY <2>5, <2>6, <2>8, <2>9
<1>5. CASE backup[from] # <<>> /\ from = day
  <2>1. /\ roll' = Finished
        /\ backup' = [backup EXCEPT ![from] = <<>>]
        /\ lost' = lost \cup Gone(backup[from], "unlinked") \cup {<<roll.line, "unwritten">>}
    BY <1>5 DEF Shift, rotation_filename
  <2>2. /\ backup'[from] = <<>> /\ \A d \in Day \ {from} : backup'[d] = backup[d]
        /\ backup' \in [Day -> Seq(Line)]
    BY <1>1, <2>1 DEF RotationTypeOK
  <2>3. roll.line \in Line
    BY <1>1 DEF RollLine, InRollover, RotationTypeOK, Line
  <2>4. lost' \subseteq Line \X Why
    BY <1>1, <2>1, <2>3, Elements DEF RotationTypeOK, Gone, Lines, Why
  <2>5. RotationTypeOK'
    BY <1>1, <1>2, <2>1, <2>2, <2>4 DEF RotationTypeOK
  <2>6. RollLine' /\ NamesPast'
    BY <1>1, <1>2, <2>1, <2>2 DEF RollLine, InRollover, NamesPast
  <2>7. /\ \A k \in DOMAIN current : current[k] # 0
        /\ \A d \in Day : \A k \in DOMAIN backup[d] : backup[d][k] # 0
    BY Elements DEF Line
  <2>8. Written(current)' /\ (\A d \in Day : Written(backup[d])') /\ Contiguous'
    BY <1>1, <1>2, <2>1, <2>2, <2>7 DEF Written, Contiguous, Consecutive
  <2>9. InOrder'
    <3>1. \A d \in Day : backup'[d] = backup[d] \/ backup'[d] = <<>>
      BY <2>2
    <3> QED BY <1>1, <3>1, EmptyFile DEF InOrder, Before
  <2> QED BY <2>5, <2>6, <2>8, <2>9
<1> QED BY <1>3, <1>4, <1>5

LEMMA RemoveKeeps == FilesInv /\ Remove => FilesInv'
<1> SUFFICES ASSUME FilesInv, Remove PROVE FilesInv'
  OBVIOUS
<1> USE LogAssumption DEF FilesInv
<1>1. /\ roll.pc = "remove" /\ day \in Day /\ roll \in Roll
      /\ roll' = [roll EXCEPT !.pc = "rename", !.name = day]
      /\ backup' = [backup EXCEPT ![day] = <<>>]
      /\ lost' = lost \cup Gone(backup[day], "replaced")
      /\ UNCHANGED <<day, written, current, view>>
  BY DEF Remove, rotation_filename, RotationTypeOK
<1>2. /\ backup'[day] = <<>> /\ \A d \in Day \ {day} : backup'[d] = backup[d]
      /\ backup' \in [Day -> Seq(Line)]
  BY <1>1 DEF RotationTypeOK
<1>3. roll'.pc = "rename" /\ roll'.name = day /\ roll'.line = roll.line /\ roll' \in Roll
  BY <1>1 DEF Roll
<1>4. lost' \subseteq Line \X Why
  BY <1>1, Elements DEF RotationTypeOK, Gone, Lines, Why
<1>5. RotationTypeOK'
  BY <1>1, <1>2, <1>3, <1>4 DEF RotationTypeOK
<1>6. RollLine' /\ NamesPast'
  BY <1>1, <1>2, <1>3 DEF RollLine, InRollover, NamesPast
<1>7. \A d \in Day : backup'[d] = backup[d] \/ backup'[d] = <<>>
  BY <1>2
<1>8. Written(current)' /\ (\A d \in Day : Written(backup[d])') /\ Contiguous' /\ InOrder'
  BY <1>1, <1>3, <1>7, EmptyFile DEF Written, Contiguous, Consecutive, InOrder, Before
<1> QED BY <1>5, <1>6, <1>8

LEMMA RenameKeeps == FilesInv /\ Rename => FilesInv'
<1> SUFFICES ASSUME FilesInv, Rename PROVE FilesInv'
  OBVIOUS
<1> USE LogAssumption DEF FilesInv
<1> DEFINE to == roll.name
<1>1. /\ roll.pc = "rename" /\ to \in Day /\ roll \in Roll /\ backup[to] = <<>>
      /\ \A d \in Day : d > to => backup[d] = <<>>
      /\ roll' = [roll EXCEPT !.pc = "write"]
      /\ backup' = [backup EXCEPT ![to] = current]
      /\ current' = <<>>
      /\ UNCHANGED <<day, written, lost>>
  BY DEF Rename, RotationTypeOK, Roll, NamesPast
<1>2. backup'[to] = current /\ backup' \in [Day -> Seq(Line)]
      /\ \A d \in Day \ {to} : backup'[d] = backup[d]
  BY <1>1 DEF RotationTypeOK
<1>3. roll'.pc = "write" /\ roll'.name = to /\ roll'.line = roll.line /\ roll' \in Roll
  BY <1>1 DEF Roll
<1>4. view' \in View
  BY DEF Rename, RotationTypeOK, View
<1>5. Len(current) = Cap
  BY <1>1 DEF RollLine
<1>6. RotationTypeOK'
  BY <1>1, <1>2, <1>3, <1>4, <1>5, EmptyFile DEF RotationTypeOK
<1>7. to <= day
  BY <1>1 DEF NamesPast
<1>8. RollLine' /\ NamesPast'
  <2>1. \A d \in Day : d > day => d > to /\ d # to
    BY <1>1, <1>7 DEF Day, RotationTypeOK
  <2> QED BY <1>1, <1>2, <1>3, <2>1 DEF RollLine, InRollover, NamesPast
<1>9. \A d \in Day : backup'[d] = backup[d] \/ (d = to /\ backup'[d] = current)
  BY <1>2
<1>10. Written(current)' /\ (\A d \in Day : Written(backup[d])') /\ Contiguous'
  BY <1>1, <1>3, <1>9, EmptyFile DEF Written, Contiguous, Consecutive
<1>11. InOrder'
  <2>1. ASSUME NEW d \in Day, NEW e \in Day, d < e PROVE Before(backup'[d], backup'[e])
    <3>1. CASE d = to
      <4>1. e > to /\ e # to
        BY <1>1, <2>1, <3>1 DEF Day
      <4> QED BY <1>1, <1>2, <4>1, EmptyFile DEF Before
    <3>2. CASE d # to /\ e = to
      BY <1>2, <3>2 DEF InOrder
    <3>3. CASE d # to /\ e # to
      BY <1>2, <2>1, <3>3 DEF InOrder
    <3> QED BY <3>1, <3>2, <3>3
  <2> QED BY <1>1, <2>1, EmptyFile DEF InOrder, Before
<1> QED BY <1>6, <1>8, <1>10, <1>11

LEMMA WriteKeeps == FilesInv /\ Write => FilesInv'
<1> SUFFICES ASSUME FilesInv, Write PROVE FilesInv'
  OBVIOUS
<1> USE LogAssumption DEF FilesInv
<1>1. /\ roll.pc = "write" /\ roll \in Roll /\ roll.line = written /\ written > 0
      /\ written \in 0 .. MaxLines /\ current = <<>> /\ view \in View
      /\ roll' = Finished /\ current' = Append(current, written)
      /\ UNCHANGED <<day, written, backup, lost, view>>
  BY DEF Write, RotationTypeOK, RollLine, InRollover
<1>2. Finished.pc = "idle" /\ Finished.line = 0 /\ Finished \in Roll
  BY <1>1, FinishedType
<1>3. written \in Line
  BY <1>1 DEF Line
<1>4. \A d \in Day : \A k \in DOMAIN backup[d] : backup[d][k] < written
  <2> SUFFICES ASSUME NEW d \in Day, NEW k \in DOMAIN backup[d] PROVE backup[d][k] < written
    OBVIOUS
  <2>1. backup[d][k] <= written /\ backup[d][k] # written
    BY <1>1 DEF Written
  <2>2. backup[d][k] \in Line
    BY Elements
  <2> QED BY <1>3, <2>1, <2>2 DEF Line
<1> QED BY <1>1, <1>2, <1>3, <1>4, EmptyFile, AppendKeeps

LEMMA OutsideKeeps == FilesInv /\ (Midnight \/ Killed) => FilesInv'
<1> SUFFICES ASSUME FilesInv, Midnight \/ Killed PROVE FilesInv'
  OBVIOUS
<1> USE LogAssumption DEF FilesInv
<1>1. CASE Midnight
  <2>1. day \in Day /\ day' = day + 1 /\ day < Days
        /\ UNCHANGED <<written, current, backup, roll, lost, view>>
    BY <1>1 DEF Midnight, RotationTypeOK
  <2>2. RotationTypeOK' /\ RollLine'
    BY <2>1 DEF RotationTypeOK, Day, RollLine, InRollover
  <2>3. NamesPast'
    <3>1. roll.name \in Day
      BY DEF RotationTypeOK, Roll
    <3> QED BY <2>1, <3>1 DEF Day, NamesPast
  <2> QED BY <2>1, <2>2, <2>3 DEF Written, Contiguous, Consecutive, InOrder, Before
<1>2. CASE Killed
  <2>1. /\ roll.pc # "idle" /\ lost' = lost \cup {<<roll.line, "killed">>} /\ roll' = Finished
        /\ UNCHANGED <<day, written, current, backup, view>>
    BY <1>2 DEF Killed
  <2>2. Finished.pc = "idle" /\ Finished.line = 0 /\ Finished \in Roll
    BY FinishedType DEF RotationTypeOK
  <2>3. roll.line \in Line
    BY <2>1 DEF RollLine, InRollover, RotationTypeOK, Line
  <2>4. RotationTypeOK'
    BY <2>1, <2>2, <2>3 DEF RotationTypeOK, Why
  <2>5. RollLine' /\ NamesPast'
    BY <2>1, <2>2 DEF RollLine, InRollover, NamesPast
  <2>6. /\ \A k \in DOMAIN current : current[k] # 0
        /\ \A d \in Day : \A k \in DOMAIN backup[d] : backup[d][k] # 0
    BY Elements DEF Line
  <2>7. Written(current)' /\ (\A d \in Day : Written(backup[d])') /\ Contiguous' /\ InOrder'
    BY <2>1, <2>2, <2>6 DEF Written, Contiguous, Consecutive, InOrder, Before
  <2> QED BY <2>4, <2>5, <2>7
<1> QED BY <1>1, <1>2

\* A reader changes nothing but what it has read.
LEMMA ViewSteps ==
  ASSUME RotationInv, ViewOpen \/ ViewLine \/ ViewEnd
  PROVE  RotationInv'
<1> USE LogAssumption DEF RotationInv, FilesInv, files
<1>1. UNCHANGED files
  BY DEF ViewOpen, ViewLine, ViewEnd
<1>2. view' \in View /\ ViewInv'
  <2>1. CASE ViewOpen
    <3>1. view = NoView /\ view' = [view EXCEPT !.pc = "log"]
      BY <2>1 DEF ViewOpen, ViewInv
    <3>2. view' = [pc |-> "log", at |-> 0, last |-> 0, text |-> <<>>]
      BY <3>1 DEF NoView
    <3> QED BY <1>1, <3>2, EmptyFile DEF ViewInv, Viewed, View, RotationTypeOK, Contiguous
  <2>2. CASE ViewLine
    <3>1. /\ view.pc # "idle" /\ view.at < Len(Viewed) /\ view \in View /\ Viewed \in Seq(Line)
          /\ view' = [view EXCEPT !.at = @ + 1, !.last = Viewed[view.at + 1]]
          /\ Len(Viewed) <= Cap
      BY <2>2 DEF ViewLine, ViewInv, RotationTypeOK, View, Viewed
    <3>2. view.at + 1 \in 1 .. Len(Viewed) /\ view.at + 1 \in 0 .. Cap
      BY <3>1 DEF View
    <3>3. Viewed[view.at + 1] \in Line
      BY <3>1, <3>2
    <3>4. /\ view'.pc = view.pc /\ view'.at = view.at + 1 /\ view'.last = Viewed[view.at + 1]
          /\ view'.text = view.text /\ view' \in View
      <4>1. Viewed[view.at + 1] \in 0 .. MaxLines
        BY <3>3 DEF Line
      <4> QED BY <3>1, <3>2, <4>1 DEF View
    <3>5. Viewed' = Viewed
      BY <1>1, <3>4 DEF Viewed
    <3> QED BY <3>1, <3>2, <3>4, <3>5 DEF ViewInv, Consecutive
  <2>3. CASE ViewEnd
    BY <2>3, EmptyFile DEF ViewEnd, ViewInv, NoView, View
  <2> QED BY <2>1, <2>2, <2>3
<1>3. RotationTypeOK'
  BY <1>1, <1>2 DEF RotationTypeOK
<1>4. RollLine' /\ NamesPast' /\ Contiguous' /\ InOrder'
  BY <1>1 DEF RollLine, InRollover, NamesPast, Contiguous, Consecutive, InOrder, Before
<1>5. Written(current)' /\ \A d \in Day : Written(backup[d])'
  BY <1>1 DEF Written
<1> QED BY <1>2, <1>3, <1>4, <1>5

LEMMA FilesStep == RotationInv /\ [Next]_vars => FilesInv'
<1> SUFFICES ASSUME RotationInv, [Next]_vars PROVE FilesInv'
  OBVIOUS
<1>1. CASE UNCHANGED vars
  <2>1. UNCHANGED <<day, written, current, backup, roll, lost, view>>
    BY <1>1 DEF vars, files
  <2>2. RotationTypeOK' /\ RollLine' /\ NamesPast'
    BY <2>1 DEF RotationInv, FilesInv, RotationTypeOK, RollLine, InRollover, NamesPast
  <2>3. Written(current)' /\ (\A d \in Day : Written(backup[d])') /\ Contiguous' /\ InOrder'
    BY <2>1 DEF RotationInv, FilesInv, Written, Contiguous, Consecutive, InOrder, Before
  <2> QED BY <2>2, <2>3 DEF FilesInv
<1>2. CASE ViewOpen \/ ViewLine \/ ViewEnd
  BY <1>2, ViewSteps DEF RotationInv
<1> QED BY <1>1, <1>2, LogEventKeeps, SourceKeeps, ShiftKeeps, RemoveKeeps, RenameKeeps,
           WriteKeeps, OutsideKeeps DEF Next, RotationInv

\* What a reader has before it stays there, whatever the daemon does to the log.
LEMMA ViewStep ==
  ASSUME RotationInv, FilesInv',
         LogEvent \/ Source \/ Shift \/ Remove \/ Rename \/ Write \/ Midnight \/ Killed
  PROVE  ViewInv'
<1> USE DEF RotationInv, FilesInv, RotationTypeOK
<1>1. \/ UNCHANGED <<current, view>>
      \/ \E n : current' = Append(current, n) /\ view' = view
      \/ Rename
  BY DEF LogEvent, Source, Shift, Remove, Write, Midnight, Killed
<1>2. CASE UNCHANGED <<current, view>>
  BY <1>2 DEF ViewInv, Viewed, NoView, Consecutive
<1>3. ASSUME NEW n, current' = Append(current, n), view' = view PROVE ViewInv'
  <2>1. CASE view.pc = "log"
    <3>1. /\ Viewed = current /\ Viewed' = current' /\ Consecutive(current') /\ Len(current') <= Cap
      BY <1>3, <2>1 DEF Viewed, Contiguous
    <3>2. /\ Len(current') = Len(current) + 1
          /\ \A k \in 1 .. Len(current) : current'[k] = current[k]
      BY <1>3
    <3>3. view.at \in Nat /\ view.at <= Len(current) /\ (view.at > 0 => view.last = current[view.at])
      BY <2>1, <3>1 DEF ViewInv, View
    <3>4. view.at \in 1 .. Len(current) => current'[view.at] = current[view.at]
      BY <3>2
    <3>5. Len(current) \in Nat /\ view.at <= Len(current')
      BY <3>2, <3>3
    <3>6. view.at > 0 => view.last = current'[view.at]
      BY <3>3, <3>4, <3>5
    <3> QED BY <1>3, <2>1, <3>1, <3>5, <3>6 DEF ViewInv
  <2>2. CASE view.pc # "log"
    BY <1>3, <2>2 DEF ViewInv, Viewed, NoView, View, Consecutive
  <2> QED BY <2>1, <2>2
<1>4. CASE Rename
  <2>1. view' = IF view.pc = "log" THEN [view EXCEPT !.pc = "moved", !.text = current] ELSE view
    BY <1>4 DEF Rename
  <2>2. CASE view.pc = "log"
    <3>1. /\ view'.pc = "moved" /\ view'.text = current /\ view'.at = view.at
          /\ view'.last = view.last
      BY <2>1, <2>2 DEF View
    <3>2. Viewed' = current /\ Viewed = current
      BY <2>2, <3>1 DEF Viewed
    <3> QED BY <2>2, <3>1, <3>2 DEF ViewInv, Consecutive
  <2>3. CASE view.pc # "log"
    BY <2>1, <2>3 DEF ViewInv, Viewed, NoView, View, Consecutive
  <2> QED BY <2>2, <2>3
<1> QED BY <1>1, <1>2, <1>3, <1>4

LEMMA RotationStep == RotationInv /\ [Next]_vars => RotationInv'
<1> SUFFICES ASSUME RotationInv, [Next]_vars PROVE RotationInv'
  OBVIOUS
<1>1. FilesInv'
  BY FilesStep
<1>2. CASE UNCHANGED vars
  <2>1. current' = current /\ view' = view
    BY <1>2 DEF vars, files
  <2>2. ViewInv'
    BY <2>1 DEF RotationInv, ViewInv, Viewed, NoView, Consecutive
  <2> QED BY <1>1, <2>2 DEF RotationInv
<1>3. CASE ViewOpen \/ ViewLine \/ ViewEnd
  BY <1>3, ViewSteps
<1> QED BY <1>1, <1>2, <1>3, ViewStep DEF Next, RotationInv, ViewInv

LEMMA RotationInvHolds == Spec => []RotationInv
  BY InitFiles, RotationStep, PTL DEF Spec

\* Every variable keeps its type; no file is larger than the limit, and every backup is full.
THEOREM RotationTypeCorrect == Spec => []RotationTypeOK
<1>1. RotationInv => RotationTypeOK
  BY DEF RotationInv, FilesInv
<1> QED BY <1>1, RotationInvHolds, PTL

\* The backups in the order of their names, and then the log, hold the lines in the order
\* they were written, however many names there are and whenever midnight comes.
THEOREM ReadsInOrderAlways == Spec => []ReadsInOrder
<1>1. RotationInv => ReadsInOrder
  <2> SUFFICES ASSUME RotationInv PROVE ReadsInOrder
    OBVIOUS
  <2> USE DEF RotationInv, FilesInv
  <2>1. ASSUME NEW s \in Seq(Line), Consecutive(s) PROVE Ordered(s)
    <3> SUFFICES ASSUME NEW j \in DOMAIN s, NEW k \in DOMAIN s, j < k PROVE s[j] < s[k]
      BY DEF Ordered
    <3>1. s[j] \in Line /\ s[k] \in Line /\ j \in Int /\ k \in Int /\ s[j] - s[k] = j - k
      BY <2>1 DEF Consecutive
    <3> QED BY <3>1 DEF Line
  <2>2. Ordered(current) /\ \A d \in Day : Ordered(backup[d])
    BY <2>1 DEF RotationTypeOK, Contiguous
  <2> QED BY <2>2 DEF ReadsInOrder, InOrder, Before, Lines
<1> QED BY <1>1, RotationInvHolds, PTL

LEMMA EmptyRange == \A a \in Int : a + 1 > a /\ (a + 1) .. (a + 1) - 1 = {}
  OBVIOUS

\* A log command reads a run of the lines, whatever is done to the log meanwhile: it does
\* not even skip one that was given up, for these are never between two lines of a file.
THEOREM ReadsARunAlways == Spec => ReadsARun
<1>1. RotationInv =>
        [ViewLine /\ view.at > 0 =>
           /\ view'.last > view.last
           /\ \A n \in view.last + 1 .. view'.last - 1 :
                \E why \in {"unwritten", "killed"} : <<n, why>> \in lost]_vars
  <2> SUFFICES ASSUME RotationInv, ViewLine, view.at > 0
               PROVE  view'.last = view.last + 1 /\ view.last \in Int
    BY EmptyRange
  <2>1. /\ view \in View /\ view.pc # "idle" /\ view.at < Len(Viewed) /\ Viewed \in Seq(Line)
        /\ view' = [view EXCEPT !.at = @ + 1, !.last = Viewed[view.at + 1]]
        /\ view.last = Viewed[view.at] /\ Consecutive(Viewed)
    BY DEF ViewLine, RotationInv, FilesInv, RotationTypeOK, ViewInv, View, Viewed
  <2>2. view'.last = Viewed[view.at + 1] /\ view.at \in Nat
    BY <2>1 DEF View
  <2>3. view.at \in DOMAIN Viewed /\ view.at + 1 \in DOMAIN Viewed
    BY <2>1, <2>2
  <2>4. Viewed[view.at + 1] - Viewed[view.at] = (view.at + 1) - view.at
    BY <2>1, <2>3 DEF Consecutive
  <2>5. \A s \in Seq(Line) : \A k \in DOMAIN s : s[k] \in Line
    OBVIOUS
  <2>6. Viewed[view.at + 1] \in Int /\ Viewed[view.at] \in Int
    BY <2>1, <2>3, <2>5 DEF Line
  <2>7. (view.at + 1) - view.at = 1
    BY <2>2
  <2>8. \A a, b \in Int : a - b = 1 => a = b + 1
    OBVIOUS
  <2>9. Viewed[view.at + 1] = Viewed[view.at] + 1
    <3> DEFINE a == Viewed[view.at + 1]
               b == Viewed[view.at]
    <3>1. a - b = 1
      BY <2>4, <2>7, Zenon
    <3>2. a \in Int /\ b \in Int
      BY <2>6
    <3> HIDE DEF a, b
    <3>3. a = b + 1
      BY <2>8, <3>1, <3>2
    <3> QED BY <3>3 DEF a, b
  <2> QED BY <2>1, <2>2, <2>6, <2>9
<1> QED BY <1>1, RotationInvHolds, PTL DEF ReadsARun
---------------------------------------------------------------------------
(* Where each line is *)

LEMMA LinesOf ==
  /\ Lines(<<>>) = {}
  /\ \A s \in Seq(Line), n \in Line : Lines(Append(s, n)) = Lines(s) \cup {n}
<1>1. Lines(<<>>) = {}
  BY EmptyFile DEF Lines
<1>2. ASSUME NEW s \in Seq(Line), NEW n \in Line PROVE Lines(Append(s, n)) = Lines(s) \cup {n}
  <2>1. /\ DOMAIN Append(s, n) = 1 .. Len(s) + 1 /\ DOMAIN s = 1 .. Len(s) /\ Len(s) \in Nat
        /\ \A k \in 1 .. Len(s) : Append(s, n)[k] = s[k]
        /\ Append(s, n)[Len(s) + 1] = n
    BY Appended
  <2>2. DOMAIN Append(s, n) = DOMAIN s \cup {Len(s) + 1}
    BY <2>1
  <2> QED BY <2>1, <2>2 DEF Lines
<1> QED BY <1>1, <1>2

\* What the invariant says about the sets of lines.
LEMMA LinesApart ==
  ASSUME FilesInv
  PROVE  /\ Lines(current) \subseteq Line /\ \A d \in Day : Lines(backup[d]) \subseteq Line
         /\ \A k \in Lines(current) : k <= written /\ k # roll.line
         /\ \A d \in Day : \A k \in Lines(backup[d]) : k <= written /\ k # roll.line
         /\ \A d \in Day : \A j \in Lines(backup[d]), k \in Lines(current) : j < k
         /\ \A d, e \in Day : \A j \in Lines(backup[d]) : j \in Lines(backup[e]) => d = e
<1> USE DEF FilesInv, Lines
<1>1. Lines(current) \subseteq Line /\ \A d \in Day : Lines(backup[d]) \subseteq Line
  BY Elements
<1>2. /\ \A k \in Lines(current) : k <= written /\ k # roll.line
      /\ \A d \in Day : \A k \in Lines(backup[d]) : k <= written /\ k # roll.line
  BY DEF Written
<1>3. \A d \in Day : \A j \in Lines(backup[d]), k \in Lines(current) : j < k
  BY DEF InOrder, Before
<1>4. \A d, e \in Day : d < e => \A j \in Lines(backup[d]), k \in Lines(backup[e]) : j < k
  BY DEF InOrder, Before
<1>5. \A j \in Line : ~(j < j)
  BY DEF Line
<1>6. \A d, e \in Day : d < e \/ e < d \/ d = e
  BY DEF Day
<1>7. \A d, e \in Day : \A j \in Lines(backup[d]) : j \in Lines(backup[e]) => d = e
  <2> HIDE DEF Lines
  <2> QED BY <1>1, <1>4, <1>5, <1>6
<1> QED BY <1>1, <1>2, <1>3, <1>7

\* What each step does to the places of lines.
Elsewhere == /\ written' = written /\ Lines(current') = Lines(current)
             /\ \A d \in Day : Lines(backup'[d]) = Lines(backup[d])
             /\ lost' = lost /\ roll'.line = roll.line
Called    == /\ written' = written + 1 /\ roll.line = 0 /\ lost' = lost
             /\ \A d \in Day : Lines(backup'[d]) = Lines(backup[d])
             /\ \/ Lines(current') = Lines(current) \cup {written'} /\ roll'.line = 0
                \/ Lines(current') = Lines(current) /\ roll'.line = written'
Dropped(d, why) ==
  /\ written' = written /\ Lines(current') = Lines(current)
  /\ lost' = lost \cup Gone(backup[d], why) /\ roll'.line = roll.line
Moved(d, e) ==
  /\ Dropped(e, "replaced") /\ d # e
  /\ Lines(backup'[e]) = Lines(backup[d]) /\ Lines(backup'[d]) = {}
  /\ \A c \in Day \ {d, e} : Lines(backup'[c]) = Lines(backup[c])
Removed(d) ==
  /\ Dropped(d, "replaced") /\ Lines(backup'[d]) = {}
  /\ \A c \in Day \ {d} : Lines(backup'[c]) = Lines(backup[c])
Failed(d) ==
  /\ written' = written /\ Lines(current') = Lines(current)
  /\ Lines(backup'[d]) = {} /\ \A c \in Day \ {d} : Lines(backup'[c]) = Lines(backup[c])
  /\ lost' = lost \cup Gone(backup[d], "unlinked") \cup {<<roll.line, "unwritten">>}
  /\ roll.line \in 1 .. written /\ roll'.line = 0
Renamed(d) ==
  /\ written' = written /\ Lines(current') = {} /\ Lines(backup[d]) = {}
  /\ Lines(backup'[d]) = Lines(current)
  /\ \A c \in Day \ {d} : Lines(backup'[c]) = Lines(backup[c])
  /\ lost' = lost /\ roll'.line = roll.line
Ended ==
  /\ written' = written /\ roll.line \in 1 .. written /\ roll'.line = 0
  /\ \A d \in Day : Lines(backup'[d]) = Lines(backup[d])
  /\ \/ Lines(current') = Lines(current) \cup {roll.line} /\ lost' = lost
     \/ Lines(current') = Lines(current) /\ lost' = lost \cup {<<roll.line, "killed">>}

LEMMA StepEffect ==
  ASSUME FilesInv, [Next]_vars
  PROVE  \/ Elsewhere \/ Called \/ Ended
         \/ \E d, e \in Day : Moved(d, e)
         \/ \E d \in Day : Removed(d) \/ Failed(d) \/ Renamed(d)
<1> USE LogAssumption DEF FilesInv, RotationTypeOK
<1>0. /\ roll \in Roll /\ day \in Day /\ roll.name \in Day /\ written \in 0 .. MaxLines
      /\ current \in Seq(Line) /\ backup \in [Day -> Seq(Line)]
      /\ roll.pc # "idle" => roll.line = written /\ written > 0
      /\ roll.pc = "idle" => roll.line = 0
  BY DEF Roll, RollLine, InRollover
<1>1. CASE UNCHANGED vars
  BY <1>1 DEF vars, files, Elsewhere
<1>2. CASE LogEvent
  <2>1. written + 1 \in Line /\ roll.line = 0
    BY <1>0, <1>2 DEF LogEvent, Line
  <2>2. CASE Len(current) < Cap
    <3>1. current' = Append(current, written + 1) /\ roll' = roll /\ written' = written + 1
          /\ UNCHANGED <<backup, lost>>
      BY <1>2, <2>2 DEF LogEvent
    <3> QED BY <1>0, <2>1, <3>1, LinesOf DEF Called
  <2>3. CASE ~(Len(current) < Cap)
    BY <1>0, <1>2, <2>1, <2>3 DEF LogEvent, Called, Roll
  <2> QED BY <2>2, <2>3
<1>3. CASE Source
  BY <1>0, <1>3 DEF Source, Elsewhere, Roll
<1>4. CASE Shift
  <2> DEFINE from == roll.name
  <2>1. roll.pc = "shift" /\ UNCHANGED <<written, current>>
    BY <1>4 DEF Shift
  <2>2. Shifted.line = roll.line /\ Finished.line = 0
    BY <1>0, FinishedType DEF Shifted, Roll
  <2>3. CASE backup[from] = <<>>
    BY <1>4, <2>1, <2>2, <2>3 DEF Shift, Elsewhere
  <2>4. CASE backup[from] # <<>> /\ from # day
    <3>1. /\ roll' = Shifted /\ lost' = lost \cup Gone(backup[day], "replaced")
          /\ backup' = [backup EXCEPT ![day] = backup[from], ![from] = <<>>]
      BY <1>4, <2>4 DEF Shift, rotation_filename
    <3>2. backup' = [d \in Day |-> IF d = from THEN <<>>
                                   ELSE IF d = day THEN backup[from] ELSE backup[d]]
      BY <1>0, <2>4, <3>1
    <3>3. Moved(from, day)
      BY <1>0, <2>1, <2>2, <2>4, <3>1, <3>2, LinesOf DEF Moved, Dropped
    <3> QED BY <1>0, <3>3
  <2>5. CASE backup[from] # <<>> /\ from = day
    <3>1. /\ roll' = Finished /\ backup' = [backup EXCEPT ![from] = <<>>]
          /\ lost' = lost \cup Gone(backup[from], "unlinked") \cup {<<roll.line, "unwritten">>}
      BY <1>4, <2>5 DEF Shift, rotation_filename
    <3>2. Failed(from)
      BY <1>0, <2>1, <2>2, <3>1, LinesOf DEF Failed
    <3> QED BY <1>0, <3>2
  <2> QED BY <2>3, <2>4, <2>5
<1>5. CASE Remove
  <2>1. Removed(day)
    BY <1>0, <1>5, LinesOf DEF Remove, rotation_filename, Removed, Dropped, Roll
  <2> QED BY <1>0, <2>1
<1>6. CASE Rename
  <2>1. backup[roll.name] = <<>>
    BY <1>6 DEF Rename, NamesPast
  <2>2. Renamed(roll.name)
    BY <1>0, <1>6, <2>1, LinesOf DEF Rename, Renamed, Roll
  <2> QED BY <1>0, <2>2
<1>7. CASE Write
  <2>1. /\ roll.pc = "write" /\ current' = Append(current, roll.line) /\ roll' = Finished
        /\ UNCHANGED <<written, backup, lost>>
    BY <1>7 DEF Write
  <2>2. roll.line \in Line /\ roll.line \in 1 .. written
    BY <1>0, <2>1 DEF Line
  <2> QED BY <1>0, <2>1, <2>2, LinesOf, FinishedType DEF Ended
<1>8. CASE Midnight
  BY <1>8 DEF Midnight, Elsewhere
<1>9. CASE Killed
  BY <1>0, <1>9, FinishedType DEF Killed, Ended
<1>10. CASE ViewOpen \/ ViewLine \/ ViewEnd
  BY <1>10 DEF ViewOpen, ViewLine, ViewEnd, files, Elsewhere
<1> QED BY <1>1, <1>2, <1>3, <1>4, <1>5, <1>6, <1>7, <1>8, <1>9, <1>10 DEF Next

\* A line that is gone is in no file, is gone for one reason, and was asked for.
GoneForGood ==
  \A n \in Line, why \in Why : <<n, why>> \in lost =>
    /\ n <= written /\ n # roll.line /\ n \notin Lines(current)
    /\ \A d \in Day : n \notin Lines(backup[d])
    /\ \A other \in Why : <<n, other>> \in lost => other = why

\* A line that was asked for is somewhere.
Somewhere ==
  \A n \in Line : n <= written =>
    \/ n \in Lines(current) \/ n = roll.line
    \/ \E d \in Day : n \in Lines(backup[d])
    \/ \E why \in Why : <<n, why>> \in lost

LEMMA PlacesStep ==
  ASSUME FilesInv, FilesInv', GoneForGood, Somewhere, [Next]_vars
  PROVE  GoneForGood' /\ Somewhere'
<1> USE LogAssumption
<1>0. /\ roll.line \in 0 .. MaxLines /\ written \in 0 .. MaxLines /\ written' \in 0 .. MaxLines
      /\ \A n \in Line : n \in Nat /\ n > 0
      /\ {"replaced", "unlinked", "unwritten", "killed"} = Why
  BY DEF FilesInv, RotationTypeOK, Roll, Line, Why
<1>1. CASE Elsewhere
  BY <1>1 DEF Elsewhere, GoneForGood, Somewhere
<1>2. CASE Called
  <2>1. \A n \in Line : n <= written + 1 => n <= written \/ n = written + 1
    BY <1>0
  <2>2. \A n \in Line : n <= written => n <= written + 1 /\ n # written + 1 /\ n # 0
    BY <1>0
  <2> QED BY <1>2, <2>1, <2>2 DEF Called, GoneForGood, Somewhere
<1>3. CASE Ended
  <2>1. /\ \A n \in Line : n # 0 /\ roll.line <= written
        /\ roll.line \notin Lines(current)
        /\ \A d \in Day : roll.line \notin Lines(backup[d])
        /\ \A why \in Why : <<roll.line, why>> \notin lost
    BY <1>0, <1>3, LinesApart DEF Ended, GoneForGood, Line
  <2> QED BY <1>0, <1>3, <2>1 DEF Ended, GoneForGood, Somewhere
<1>4. ASSUME NEW d \in Day, NEW e \in Day, Moved(d, e) PROVE GoneForGood' /\ Somewhere'
  <2>1. \A n \in Lines(backup[e]) :
           /\ n \in Line /\ n <= written /\ n # roll.line /\ n \notin Lines(current)
           /\ \A c \in Day : n \in Lines(backup[c]) => c = e
    BY LinesApart, <1>0
  <2>2. \A n, why : <<n, why>> \in lost' <=>
                     <<n, why>> \in lost \/ (n \in Lines(backup[e]) /\ why = "replaced")
    BY <1>4 DEF Moved, Dropped, Gone
  <2>3. GoneForGood'
    BY <1>0, <1>4, <2>1, <2>2 DEF Moved, Dropped, GoneForGood
  <2>4. Somewhere'
    BY <1>0, <1>4, <2>2 DEF Moved, Dropped, Somewhere
  <2> QED BY <2>3, <2>4
<1>5. ASSUME NEW d \in Day, Removed(d) \/ Failed(d) PROVE GoneForGood' /\ Somewhere'
  <2>1. \A n \in Lines(backup[d]) :
           /\ n \in Line /\ n <= written /\ n # roll.line /\ n \notin Lines(current)
           /\ \A c \in Day : n \in Lines(backup[c]) => c = d
    BY LinesApart, <1>0
  <2>2. CASE Removed(d)
    <3>1. \A n, why : <<n, why>> \in lost' <=>
                       <<n, why>> \in lost \/ (n \in Lines(backup[d]) /\ why = "replaced")
      BY <2>2 DEF Removed, Dropped, Gone
    <3>2. GoneForGood'
      BY <1>0, <2>1, <2>2, <3>1 DEF Removed, Dropped, GoneForGood
    <3>3. Somewhere'
      BY <1>0, <2>2, <3>1 DEF Removed, Dropped, Somewhere
    <3> QED BY <3>2, <3>3
  <2>3. CASE Failed(d)
    <3>1. \A n, why : <<n, why>> \in lost' <=>
                       \/ <<n, why>> \in lost \/ (n \in Lines(backup[d]) /\ why = "unlinked")
                       \/ (n = roll.line /\ why = "unwritten")
      BY <2>3 DEF Failed, Gone
    <3>2. /\ \A n \in Line : n # 0 /\ roll.line <= written
          /\ roll.line \notin Lines(current)
          /\ \A c \in Day : roll.line \notin Lines(backup[c])
          /\ \A why \in Why : <<roll.line, why>> \notin lost
      BY <1>0, <2>3, LinesApart DEF Failed, GoneForGood, Line
    <3>3. GoneForGood'
      BY <1>0, <2>1, <2>3, <3>1, <3>2 DEF Failed, GoneForGood
    <3>4. Somewhere'
      BY <1>0, <2>3, <3>1 DEF Failed, Somewhere
    <3> QED BY <3>3, <3>4
  <2> QED BY <1>5, <2>2, <2>3
<1>6. ASSUME NEW d \in Day, Renamed(d) PROVE GoneForGood' /\ Somewhere'
  BY <1>0, <1>6 DEF Renamed, GoneForGood, Somewhere
<1> QED BY <1>1, <1>2, <1>3, <1>4, <1>5, <1>6, StepEffect

\* Every line that was asked for is in one place, or about to be written, or gone for one
\* reason, for any number of backups and whenever a rollover fails or is cut off.
THEOREM AccountedAlways == Spec => []Accounted
<1>1. Init => GoneForGood /\ Somewhere
  <2> SUFFICES ASSUME Init PROVE GoneForGood /\ Somewhere
    OBVIOUS
  <2>1. lost = {} /\ written = 0 /\ \A n \in Line : ~(n <= 0)
    BY DEF Init, Line
  <2> QED BY <2>1 DEF GoneForGood, Somewhere
<1>2. RotationInv /\ RotationInv' /\ GoneForGood /\ Somewhere /\ [Next]_vars
        => GoneForGood' /\ Somewhere'
  BY PlacesStep DEF RotationInv
<1>3. RotationInv /\ GoneForGood /\ Somewhere => Accounted
  <2> SUFFICES ASSUME FilesInv, GoneForGood, Somewhere, NEW n \in 1 .. written
               PROVE    Cardinality({d \in Day : n \in Lines(backup[d])})
                      + Cardinality({why \in Why : <<n, why>> \in lost})
                      + Cardinality({n} \cap Lines(current))
                      + (IF roll.line = n THEN 1 ELSE 0) = 1
    BY DEF Accounted, RotationInv
  <2> DEFINE B == {d \in Day : n \in Lines(backup[d])}
             G == {why \in Why : <<n, why>> \in lost}
             C == {n} \cap Lines(current)
             b == Cardinality(B)
             g == Cardinality(G)
             c == Cardinality(C)
             w == IF roll.line = n THEN 1 ELSE 0
  <2>1. n \in Line /\ n <= written /\ \A k \in Line : ~(k < k)
    <3>1. written \in 0 .. MaxLines
      BY DEF FilesInv, RotationTypeOK
    <3> QED BY <3>1, LogAssumption DEF Line
  <2>2. Cardinality({}) = 0 /\ \A x : Cardinality({x}) = 1
    BY FS_EmptySet, FS_Singleton
  <2>3. CASE \E why \in Why : <<n, why>> \in lost
    <3>1. PICK why \in Why : <<n, why>> \in lost
      BY <2>3
    <3>2. B = {} /\ G = {why} /\ C = {} /\ roll.line # n
      BY <2>1, <3>1 DEF GoneForGood
    <3>3. b = 0 /\ g = 1 /\ c = 0 /\ w = 0
      BY <2>2, <3>2
    <3> HIDE DEF b, g, c, w
    <3>4. b + g + c + w = 1
      BY <3>3
    <3> QED BY <3>4 DEF b, g, c, w
  <2>4. CASE (\E d \in Day : n \in Lines(backup[d])) /\ G = {}
    <3>1. PICK d \in Day : n \in Lines(backup[d])
      BY <2>4
    <3>2. B = {d} /\ C = {} /\ roll.line # n
      BY <2>1, <3>1, LinesApart
    <3>3. b = 1 /\ g = 0 /\ c = 0 /\ w = 0
      BY <2>2, <2>4, <3>2
    <3> HIDE DEF b, g, c, w
    <3>4. b + g + c + w = 1
      BY <3>3
    <3> QED BY <3>4 DEF b, g, c, w
  <2>5. CASE n \in Lines(current) /\ B = {} /\ G = {}
    <3>1. C = {n} /\ roll.line # n
      BY <2>5, LinesApart
    <3>2. b = 0 /\ g = 0 /\ c = 1 /\ w = 0
      BY <2>2, <2>5, <3>1
    <3> HIDE DEF b, g, c, w
    <3>3. b + g + c + w = 1
      BY <3>2
    <3> QED BY <3>3 DEF b, g, c, w
  <2>6. CASE n \notin Lines(current) /\ B = {} /\ G = {} /\ roll.line = n
    <3>1. b = 0 /\ g = 0 /\ c = 0 /\ w = 1
      BY <2>2, <2>6
    <3> HIDE DEF b, g, c, w
    <3>2. b + g + c + w = 1
      BY <3>1
    <3> QED BY <3>2 DEF b, g, c, w
  <2> QED BY <2>1, <2>3, <2>4, <2>5, <2>6 DEF Somewhere
<1> QED BY <1>1, <1>2, <1>3, RotationInvHolds, PTL DEF Spec
---------------------------------------------------------------------------
(* What is kept *)

Newer(n, f) == Len(f) >= Cap /\ \A k \in Lines(f) : k > n
Deleted(n)  == <<n, "replaced">> \in lost \/ <<n, "unlinked">> \in lost

\* Before a file is deleted the log is full, and newer than all that is deleted.
LEMMA DeletingKeeps ==
  ASSUME FilesInv, NewestKept, roll.pc \in {"shift", "remove"}, current' = current,
         \A n \in Line : Deleted(n)' => Deleted(n) \/ \E d \in Day : n \in Lines(backup[d])
  PROVE  NewestKept'
<1> USE LogAssumption DEF FilesInv
<1>1. Len(current) = Cap
  BY DEF RollLine
<1>2. \A k \in Line : k \in Int
  BY DEF Line
<1>3. ASSUME NEW n \in Line, NEW d \in Day, n \in Lines(backup[d]) PROVE Newer(n, current)
  BY <1>1, <1>2, <1>3, LinesApart DEF Newer
<1>4. ASSUME NEW n \in Line, Deleted(n) PROVE Newer(n, current)
  <2>1. PICK f \in {current} \cup {backup[d] : d \in Day} : Newer(n, f)
    BY <1>4 DEF NewestKept, Newer, Deleted
  <2>2. CASE f = current
    BY <2>1, <2>2
  <2>3. ASSUME NEW d \in Day, f = backup[d] PROVE Newer(n, current)
    <3>1. f \in Seq(Line) /\ Len(f) >= 1
      BY <2>1, <2>3 DEF Newer, RotationTypeOK
    <3>2. f[1] \in Lines(f)
      BY <3>1 DEF Lines
    <3>3. f[1] > n /\ f[1] \in Line /\ \A k \in Lines(current) : f[1] < k /\ k \in Line
      BY <2>1, <2>3, <3>2, LinesApart DEF Newer
    <3> QED BY <1>1, <1>2, <3>3 DEF Newer
  <2> QED BY <2>1, <2>2, <2>3
<1>5. \A n \in Line : Deleted(n)' => Newer(n, current)
  BY <1>3, <1>4
<1> QED BY <1>5 DEF NewestKept, Newer, Deleted

LEMMA NewestStep ==
  ASSUME FilesInv, NewestKept, [Next]_vars
  PROVE  NewestKept'
<1> USE LogAssumption DEF FilesInv
<1>0. \A n \in Line : Deleted(n) => \E f \in {current} \cup {backup[d] : d \in Day} : Newer(n, f)
  BY DEF NewestKept, Newer, Deleted
<1>2. CASE Shift
  <2>1. roll.pc = "shift" /\ current' = current
    BY <1>2 DEF Shift
  <2>2. \/ lost' = lost \/ lost' = lost \cup Gone(backup[day], "replaced")
        \/ lost' = lost \cup Gone(backup[roll.name], "unlinked") \cup {<<roll.line, "unwritten">>}
    BY <1>2 DEF Shift, rotation_filename
  <2>3. day \in Day /\ roll.name \in Day
    BY DEF RotationTypeOK, Roll
  <2>4. \A n \in Line : Deleted(n)' => Deleted(n) \/ \E d \in Day : n \in Lines(backup[d])
    BY <2>2, <2>3 DEF Deleted, Gone
  <2> QED BY <2>1, <2>4, DeletingKeeps
<1>3. CASE Remove
  <2>1. roll.pc = "remove" /\ current' = current /\ day \in Day
        /\ lost' = lost \cup Gone(backup[day], "replaced")
    BY <1>3 DEF Remove, rotation_filename, RotationTypeOK
  <2>2. \A n \in Line : Deleted(n)' => Deleted(n) \/ \E d \in Day : n \in Lines(backup[d])
    BY <2>1 DEF Deleted, Gone
  <2> QED BY <2>1, <2>2, DeletingKeeps
<1>4. CASE Rename
  <2>1. /\ roll.name \in Day /\ backup[roll.name] = <<>> /\ lost' = lost
        /\ backup \in [Day -> Seq(Line)]
        /\ backup' = [backup EXCEPT ![roll.name] = current]
    BY <1>4 DEF Rename, RotationTypeOK, Roll, NamesPast
  <2>2. ASSUME NEW f \in {current} \cup {backup[d] : d \in Day}, Len(f) >= Cap
        PROVE  \E d \in Day : f = backup'[d]
    <3>1. CASE f = current
      BY <2>1, <3>1
    <3>2. ASSUME NEW d \in Day, f = backup[d] PROVE \E e \in Day : f = backup'[e]
      <4>1. d # roll.name
        BY <2>1, <2>2, <3>2, EmptyFile
      <4> QED BY <2>1, <3>2, <4>1
    <3> QED BY <3>1, <3>2
  <2> QED BY <1>0, <2>1, <2>2 DEF NewestKept, Newer, Deleted
<1>5. CASE Len(current) < Cap /\ UNCHANGED <<backup, lost>>
  <2>1. \A n \in Line : Deleted(n) => \E d \in Day : Newer(n, backup[d])
    BY <1>0, <1>5 DEF Newer, RotationTypeOK
  <2> QED BY <1>5, <2>1 DEF NewestKept, Newer, Deleted
<1>6. CASE /\ UNCHANGED <<current, backup>>
           /\ lost' = lost \/ lost' = lost \cup {<<roll.line, "killed">>}
  <2>1. \A n : Deleted(n)' <=> Deleted(n)
    BY <1>6 DEF Deleted
  <2> QED BY <1>0, <1>6, <2>1 DEF NewestKept, Newer, Deleted
<1>7. CASE Write
  <2>1. current = <<>> /\ UNCHANGED <<backup, lost>>
    BY <1>7 DEF Write, RollLine
  <2> QED BY <1>5, <2>1, EmptyFile
<1> QED BY <1>2, <1>3, <1>4, <1>5, <1>6, <1>7
        DEF Next, vars, files, LogEvent, Source, Midnight, Killed, ViewOpen, ViewLine, ViewEnd

\* A line that got into a file is deleted only while a whole file of newer ones exists.
THEOREM NewestKeptAlways == Spec => []NewestKept
<1>1. Init => NewestKept
  BY DEF Init, NewestKept
<1>2. RotationInv /\ NewestKept /\ [Next]_vars => NewestKept'
  BY NewestStep DEF RotationInv
<1> QED BY <1>1, <1>2, RotationInvHolds, PTL DEF Spec
===========================================================================
