--------------------------- MODULE ProcInfoProofs ---------------------------
(* Theorems about ProcInfo and their proofs, for any images, files and TTLs. *)
EXTENDS ProcInfo, TLAPS

USE DEF Older, Face

LEMMA OlderType == \A a \in Age : Older(a) \in Age
BY ProcAssumption DEF Age

LEMMA AgedType == \A e \in Entry : Aged(e) \in Entry
BY ProcAssumption, OlderType DEF Aged, Entry, Info, NoInfo, Blank, Age

LEMMA LooksType == None \in Look /\ Image \subseteq Look /\ Face \in Look
BY DEF Look

LEMMA RestTypes ==
  /\ Blank \in Info /\ Unused \in Info
  /\ \A k \in Kind, f \in File \cup {None} : Record(k, f) \in Event
  /\ \A e \in Event : Lost(e) \in Event
  /\ \A e \in Event : \A f : Moved(e, f) \in Event
<1>1. Blank \in Info
  BY ProcAssumption DEF Blank, Info, Age, Look
<1>2. Unused \in Info
  BY ProcAssumption, <1>1 DEF Unused, Info, Age
<1>3. \A k \in Kind, f \in File \cup {None} : Record(k, f) \in Event
  BY DEF Record, Event
<1>4. \A e \in Event : Lost(e) \in Event
  BY DEF Lost, Event
<1>5. \A e \in Event : \A f : Moved(e, f) \in Event
  BY DEF Moved, Event
<1>. QED  BY <1>1, <1>2, <1>3, <1>4, <1>5

\* What only the descriptor disturbs.
LEMMA DescriptorType ==
  ASSUME ProcTypeOK, NEW f \in File \cup {None}, Descriptor(f)
  PROVE  /\ fd' \in File \cup {None} /\ named' \in BOOLEAN
         /\ pending' \subseteq Event /\ task' \in Task
<1>1. CASE f = fd
  BY <1>1 DEF Descriptor, ProcTypeOK
<1>2. CASE f # fd
  <2>1. pending' \subseteq Event /\ {Lost(e) : e \in task.batch} \subseteq Event
    BY <1>2, RestTypes DEF Descriptor, ProcTypeOK, Task
  <2>2. PICK e \in Event : task' = [task EXCEPT !.batch = {Lost(d) : d \in task.batch},
                                                !.event = e]
    BY <1>2, RestTypes DEF Descriptor, ProcTypeOK, Task
  <2>3. task' \in Task
    BY <2>1, <2>2 DEF ProcTypeOK, Task
  <2>. QED  BY <1>2, <2>1, <2>3 DEF Descriptor, Opened
<1>. QED  BY <1>1, <1>2

LEMMA BecomesType ==
  ASSUME ProcTypeOK, NEW p \in Image \cup {"free", "zombie"}, Becomes(p)
  PROVE  /\ proc' = p
         /\ seen' \in [Look -> Age] /\ seen'[Face'] = 0
BY ProcAssumption DEF Becomes, ProcTypeOK, Look, Age
---------------------------------------------------------------------------
LEMMA TypeInit == Init => ProcTypeOK
<1>. SUFFICES ASSUME Init PROVE ProcTypeOK
  OBVIOUS
<1>1. Record("call", None) \in Event
  BY RestTypes DEF Kind
<1>2. task \in Task
  BY <1>1, RestTypes, ProcAssumption DEF Init, Task, Pc, Entry, Age
<1>3. seen \in [Look -> Age] /\ seen[Face] = 0
  BY ProcAssumption DEF Init, Look, Age
<1>. QED  BY <1>2, <1>3, ProcAssumption DEF Init, ProcTypeOK, Entry

LEMMA TypeStep == ProcTypeOK /\ [Next]_vars => ProcTypeOK'
<1>. SUFFICES ASSUME ProcTypeOK, [Next]_vars PROVE ProcTypeOK'
  OBVIOUS
<1>. USE ProcAssumption, LooksType
<1>1. CASE Fork
  BY <1>1, BecomesType, RestTypes DEF Fork, Opened, Emitted, ProcTypeOK, Kind
<1>2. CASE Exec
  <2>1. PICK f \in File \cup {None} : Descriptor(f)
    BY <1>2 DEF Exec, ProcTypeOK
  <2>2. PICK i \in Image : Becomes(i)
    BY <1>2 DEF Exec
  <2>3. tree' \in BOOLEAN /\ UNCHANGED <<precache, cache>>
    BY <1>2 DEF Exec, ProcTypeOK
  <2>4. /\ fd' \in File \cup {None} /\ named' \in BOOLEAN
        /\ pending' \subseteq Event /\ task' \in Task
    BY <2>1, DescriptorType
  <2>5. proc' = i /\ seen' \in [Look -> Age] /\ seen'[Face'] = 0
    BY <2>2, BecomesType
  <2>. QED  BY <2>3, <2>4, <2>5 DEF ProcTypeOK
<1>3. CASE OpenClose
  BY <1>3, DescriptorType DEF OpenClose, ProcTypeOK
<1>4. CASE Call
  BY <1>4, RestTypes DEF Call, Emitted, ProcTypeOK, Kind
<1>5. CASE ExitProcess
  BY <1>5, BecomesType, DescriptorType DEF ExitProcess, ProcTypeOK
<1>6. CASE Reap
  BY <1>6, BecomesType DEF Reap, ProcTypeOK, Task
<1>7. CASE Tick
  <2>1. seen' \in [Look -> Age] /\ seen'[Face] = 0
    BY <1>7, OlderType DEF Tick, ProcTypeOK, Age
  <2>2. precache' \in Entry /\ cache' \in Entry
    BY <1>7, AgedType DEF Tick, ProcTypeOK
  <2>3. task' \in Task
    BY <1>7, AgedType, OlderType DEF Tick, ProcTypeOK, Task, Info
  <2>. QED  BY <1>7, <2>1, <2>2, <2>3 DEF Tick, ProcTypeOK, outside
<1>8. CASE Fetch
  BY <1>8 DEF Fetch, ProcTypeOK, Task, Pc
<1>9. CASE PreBegin
  BY <1>9, RestTypes DEF PreBegin, ProcTypeOK, Task, Pc, outside
<1>10. CASE PreEnd
  BY <1>10 DEF PreEnd, ProcTypeOK, Task, Pc, outside
<1>11. CASE ReadExe
  <2>1. [task.info EXCEPT !.exe = Face] \in Info
    BY DEF ProcTypeOK, Task, Info
  <2>. QED  BY <1>11, <2>1 DEF ReadExe, ProcTypeOK, Task, Pc, Visible, outside
<1>12. CASE PreStore
  <2>. DEFINE got == IF task.any \/ Visible THEN task.info ELSE NoInfo
  <2>1. got \in Entry
    BY DEF ProcTypeOK, Task, Entry
  <2>2. precache' \in Entry
    BY <1>12, <2>1 DEF PreStore, ProcTypeOK
  <2>3. task' = [task EXCEPT !.pc = "pre", !.info = Unused, !.any = FALSE,
                             !.caught = got]
    BY <1>12 DEF PreStore
  <2>4. task' \in Task
    <3>. HIDE DEF got
    <3>. QED  BY <2>1, <2>3, RestTypes DEF ProcTypeOK, Task, Pc
  <2>. QED  BY <1>12, <2>2, <2>4 DEF PreStore, ProcTypeOK, outside
<1>13. ASSUME NEW e \in task.batch, Lookup(e) PROVE ProcTypeOK'
  <2>1. e \in Event /\ task.batch \ {e} \subseteq Event
    BY DEF ProcTypeOK, Task
  <2>2. PreValid => precache \in Info
    BY DEF PreValid, ProcTypeOK, Entry
  <2>3. CacheValid => cache \in Info
    BY DEF CacheValid, ProcTypeOK, Entry
  <2>4. task' \in Task
    <3>1. PICK i \in Info, pc \in {"emit", "tree"} :
            task' = [task EXCEPT !.pc = pc, !.batch = @ \ {e}, !.event = e, !.info = i,
                                 !.since = 0]
      <4>1. CASE PreValid
        BY <1>13, <2>2, <4>1 DEF Lookup
      <4>2. CASE ~PreValid /\ CacheValid
        BY <1>13, <2>3, <4>2 DEF Lookup
      <4>3. CASE ~PreValid /\ ~CacheValid
        <5>1. task' = [task EXCEPT !.pc = "tree", !.batch = @ \ {e}, !.event = e,
                                   !.info = Blank, !.since = 0]
          BY <1>13, <4>3 DEF Lookup, ProcTypeOK, Task
        <5>. QED  BY <5>1, RestTypes
      <4>. QED  BY <4>1, <4>2, <4>3
    <3>. QED  BY <2>1, <3>1 DEF ProcTypeOK, Task, Pc, Age
  <2>. QED  BY <1>13, <2>4 DEF Lookup, ProcTypeOK, Entry, outside
<1>14. CASE ReadTree
  BY <1>14 DEF ReadTree, ProcTypeOK, Task, Pc, Info, outside
<1>15. CASE StatOpen
  BY <1>15 DEF StatOpen, ProcTypeOK, Task, Pc, Visible, outside
<1>16. CASE StatRead
  BY <1>16 DEF StatRead, ProcTypeOK, Task, Pc, Info, outside
<1>17. CASE Store
  BY <1>17 DEF Store, Goto, ProcTypeOK, Task, Pc, Entry, outside
<1>18. CASE Emit
  <2>1. Record("call", None) \in Event /\ ProcTtl \in Age
    BY RestTypes DEF Kind, Age
  <2>2. task' \in Task
    BY <1>18, <2>1, RestTypes DEF Emit, ProcTypeOK, Task, Pc
  <2>. QED  BY <1>18, <2>2 DEF Emit, ProcTypeOK, outside
<1>19. CASE LogEnd
  BY <1>19 DEF LogEnd, ProcTypeOK, Task, Pc, Entry, outside
<1>20. CASE UNCHANGED vars
  BY <1>20 DEF vars, ProcTypeOK
<1>21. CASE Register
  BY <1>21 DEF Register, ProcTypeOK, Face
<1>22. CASE Unname
  <2>1. PICK f \in Regular :
          /\ named' \in IF f = fd THEN BOOLEAN ELSE {named}
          /\ pending' = {Moved(e, f) : e \in pending}
          /\ task' = [task EXCEPT !.batch = {Moved(e, f) : e \in @},
                                  !.event = IF task.pc = "write" THEN @ ELSE Moved(@, f),
                                  !.leads = @ /\ task.text # f]
          /\ UNCHANGED <<proc, tree, fd, precache, cache, seen>>
    BY <1>22 DEF Unname
  <2>2. pending' \subseteq Event /\ {Moved(e, f) : e \in task.batch} \subseteq Event
        /\ Moved(task.event, f) \in Event
    BY <2>1, RestTypes DEF ProcTypeOK, Task
  <2>3. task' \in Task
    BY <2>1, <2>2 DEF ProcTypeOK, Task
  <2>. QED  BY <2>1, <2>2, <2>3 DEF ProcTypeOK
<1>23. CASE Resolve
  <2>1. task' \in Task
    BY <1>23 DEF Resolve, Path, ProcTypeOK, Task, Pc
  <2>. QED  BY <1>23, <2>1 DEF Resolve, ProcTypeOK, outside
<1>24. CASE IsFile
  <2>1. PICK b \in BOOLEAN : task' = [task EXCEPT !.pc = "write", !.regular = b]
    BY <1>24 DEF IsFile
  <2>2. task' \in Task
    BY <2>1 DEF ProcTypeOK, Task, Pc
  <2>. QED  BY <1>24, <2>2 DEF IsFile, ProcTypeOK, outside
<1>. QED
  BY <1>1, <1>2, <1>3, <1>4, <1>5, <1>6, <1>7, <1>8, <1>9, <1>10, <1>11, <1>12,
     <1>13, <1>14, <1>15, <1>16, <1>17, <1>18, <1>19, <1>20, <1>21, <1>22, <1>23, <1>24
     DEF Next, Daemon, Process

\* Values of every variable, for any number of images, files and any TTLs.
THEOREM ProcTypeCorrect == Spec => []ProcTypeOK
BY TypeInit, TypeStep, PTL DEF Spec
---------------------------------------------------------------------------
(* Age.  The id looked like what an entry says when the entry was begun, or    *)
(* later; while a record is put together, its information is as old as the     *)
(* look-up, or came from a cache that had checked it.                          *)

Reading == {"tree", "exe", "stat", "stat_read", "store"}
Told    == {"emit", "isfile", "write"}
Read    == {"pre_store", "stat", "stat_read", "store"} \cup Told

Backed(e) == e # NoInfo => seen[e.exe] <= e.age

AgeInv ==
  /\ Backed(precache) /\ Backed(cache)
  /\ task.pc \in Read => seen[task.info.exe] <= task.info.age
  /\ task.pc \in Reading => task.info.age = task.since
  /\ task.pc \in Told => task.info.age < ProcTtl + task.since

\* The outside only makes what was seen more recent.
LEMMA SeenAgain ==
  ASSUME ProcTypeOK, Process
  PROVE  /\ \A x \in Look : seen'[x] <= seen[x]
         /\ precache' = precache /\ cache' = cache
         /\ task'.pc = task.pc /\ task'.info = task.info /\ task'.since = task.since
         /\ task'.caught = task.caught /\ task'.done = task.done
<1>. USE ProcAssumption
<1>1. \A p \in Image \cup {"free", "zombie"} :
        Becomes(p) => \A x \in Look : seen'[x] <= seen[x]
  BY DEF Becomes, ProcTypeOK, Look, Age
<1>2. \A f \in File \cup {None} : Descriptor(f) =>
        /\ task'.pc = task.pc /\ task'.info = task.info /\ task'.since = task.since
        /\ task'.caught = task.caught /\ task'.done = task.done
  BY DEF Descriptor, ProcTypeOK, Task
<1>3. \A x \in Look : seen[x] <= seen[x]
  BY DEF ProcTypeOK, Age
<1>4. CASE Fork
  BY <1>4, <1>1 DEF Fork
<1>5. CASE Exec
  BY <1>5, <1>1, <1>2 DEF Exec, ProcTypeOK
<1>6. CASE OpenClose
  BY <1>6, <1>2, <1>3 DEF OpenClose
<1>7. CASE Call
  BY <1>7, <1>3 DEF Call
<1>8. CASE ExitProcess
  BY <1>8, <1>1, <1>2 DEF ExitProcess
<1>9. CASE Reap
  BY <1>9, <1>1 DEF Reap, ProcTypeOK, Task
<1>10. CASE Unname
  BY <1>10, <1>3 DEF Unname, ProcTypeOK, Task
<1>. QED  BY <1>4, <1>5, <1>6, <1>7, <1>8, <1>9, <1>10 DEF Process

LEMMA OlderMonotone ==
  /\ \A a, b \in Age : a <= b => Older(a) <= Older(b)
  /\ \A a, b \in Age : a < ProcTtl + b => Older(a) < ProcTtl + Older(b)
BY ProcAssumption DEF Age

LEMMA AgeStep == ProcTypeOK /\ AgeInv /\ [Next]_vars => AgeInv'
<1>. SUFFICES ASSUME ProcTypeOK, AgeInv, [Next]_vars PROVE AgeInv'
  OBVIOUS
<1>. USE ProcAssumption, LooksType DEF Told
<1>0. /\ seen \in [Look -> Age] /\ task \in Task /\ task.info \in Info
      /\ precache \in Entry /\ cache \in Entry
      /\ task.since \in Age
  BY DEF ProcTypeOK, Task
<1>1. CASE Process
  <2>1. Backed(precache)' /\ Backed(cache)'
    BY <1>0, <1>1, SeenAgain, TypeStep
       DEF AgeInv, Backed, Entry, Info, ProcTypeOK, Age
  <2>2. seen'[task.info.exe] <= seen[task.info.exe]
    BY <1>0, <1>1, SeenAgain DEF Info
  <2>3. ProcTypeOK'
    BY TypeStep
  <2>. QED
    BY <1>0, <1>1, <2>1, <2>2, <2>3, SeenAgain DEF AgeInv, Info, ProcTypeOK, Age, Read
<1>2. CASE Tick
  <2>1. \A x \in Look, a \in Age : seen[x] <= a => seen'[x] <= Older(a)
    BY <1>0, <1>2, OlderMonotone DEF Tick, Age
  <2>2. \A e \in Entry :
          Backed(e) /\ Aged(e) # NoInfo => seen'[Aged(e).exe] <= Aged(e).age
    BY <2>1 DEF Backed, Aged, Entry, Info
  <2>3. /\ task'.info.exe = task.info.exe /\ task'.info.age = Older(task.info.age)
        /\ task'.since = Older(task.since) /\ task'.pc = task.pc
    BY <1>0, <1>2 DEF Tick, Task, Info
  <2>4. /\ task.pc \in Read => seen'[task'.info.exe] <= task'.info.age
        /\ task.pc \in Reading => task'.info.age = task'.since
        /\ task.pc \in Told => task'.info.age < ProcTtl + task'.since
    <3>. HIDE DEF Older
    <3>. QED  BY <1>0, <2>1, <2>3, OlderMonotone DEF AgeInv, Info
  <2>. QED  BY <1>0, <1>2, <2>2, <2>3, <2>4 DEF Tick, AgeInv, Backed
<1>3. CASE Fetch \/ PreBegin \/ PreEnd \/ LogEnd
  BY <1>0, <1>3 DEF Fetch, PreBegin, PreEnd, LogEnd, AgeInv, Backed, Task, Read,
     Reading, outside
<1>12. CASE Emit
  <2>1. task'.pc = "log"
    BY <1>0, <1>12 DEF Emit, Task
  <2>. QED  BY <1>12, <2>1 DEF Emit, AgeInv, Backed, Read, Reading, outside
<1>4. CASE ReadExe
  <2>1. /\ task'.info.exe = Face /\ task'.info.age = task.info.age
        /\ task'.since = task.since /\ seen[Face] = 0
        /\ task'.pc \in {"pre_store", "store", "stat"}
        /\ task'.pc \in Reading => task.pc = "exe"
    BY <1>0, <1>4 DEF ReadExe, ProcTypeOK, Task, Info, Reading
  <2>. QED
    BY <1>0, <1>4, <2>1 DEF ReadExe, AgeInv, Backed, Info, Age, Reading, Read
<1>5. CASE PreStore
  BY <1>0, <1>5 DEF PreStore, AgeInv, Backed, Task, Read, Reading, outside
<1>6. ASSUME NEW e \in task.batch, Lookup(e) PROVE AgeInv'
  <2>1. CASE PreValid
    BY <1>0, <1>6, <2>1 DEF Lookup, PreValid, AgeInv, Backed, Task, Entry, Info, Age, Read,
       Reading, outside
  <2>2. CASE ~PreValid /\ CacheValid
    BY <1>0, <1>6, <2>2 DEF Lookup, CacheValid, AgeInv, Backed, Task, Entry, Info, Age,
       Read, Reading, outside
  <2>3. CASE ~PreValid /\ ~CacheValid
    <3>1. task'.pc = "tree" /\ task'.info = Blank /\ task'.since = 0
      BY <1>0, <1>6, <2>3 DEF Lookup, Task
    <3>. QED
      BY <1>0, <1>6, <2>3, <3>1 DEF Lookup, AgeInv, Backed, Blank, Read, Reading, outside
  <2>. QED  BY <2>1, <2>2, <2>3
<1>7. CASE ReadTree \/ StatOpen \/ StatRead
  <2>1. /\ task'.info.exe = task.info.exe /\ task'.info.age = task.info.age
        /\ task'.since = task.since
        /\ task.pc \in Reading /\ task'.pc \in Reading \cup {"down"}
        /\ task'.pc \in Read => task.pc \in Read
    <3>1. CASE ReadTree
      BY <1>0, <3>1 DEF ReadTree, Task, Info, Read, Reading
    <3>2. CASE StatOpen
      BY <1>0, <3>2 DEF StatOpen, Task, Info, Read, Reading
    <3>3. CASE StatRead
      BY <1>0, <3>3 DEF StatRead, Task, Info, Read, Reading
    <3>. QED  BY <1>7, <3>1, <3>2, <3>3
  <2>. QED
    BY <1>0, <1>7, <2>1 DEF ReadTree, StatOpen, StatRead, AgeInv, Backed, Read, Reading,
       outside
<1>8. CASE Store
  BY <1>0, <1>8 DEF Store, Goto, AgeInv, Backed, Task, Info, Age, Read, Reading, outside
<1>9. CASE UNCHANGED vars
  BY <1>9 DEF vars, AgeInv, Backed
<1>10. CASE Register
  BY <1>10 DEF Register, AgeInv, Backed
<1>11. CASE Resolve \/ IsFile
  <2>1. /\ task'.info = task.info /\ task'.since = task.since
        /\ task.pc \in Told /\ task'.pc \in Told
    <3>1. CASE Resolve
      BY <1>0, <3>1 DEF Resolve, Task
    <3>2. CASE IsFile
      BY <1>0, <3>2 DEF IsFile, Task
    <3>. QED  BY <1>11, <3>1, <3>2
  <2>. QED
    BY <1>0, <1>11, <2>1 DEF Resolve, IsFile, AgeInv, Backed, Read, Reading, outside
<1>. QED
  BY <1>1, <1>2, <1>3, <1>4, <1>5, <1>6, <1>7, <1>8, <1>9, <1>10, <1>11,
     <1>12 DEF Next, Daemon

\* The image in a record was that of the id's owner less than a TTL before the look-up,
\* or after it, and none only if there was none to be read then: whatever the TTLs.
THEOREM RecordsAreFresh == Spec => []Fresh
<1>1. Init => AgeInv
  BY DEF Init, AgeInv, Backed, Read, Told, Reading
<1>2. ProcTypeOK /\ AgeInv => Fresh
  BY ProcAssumption DEF AgeInv, ProcTypeOK, Task, Info, Age, Read, Told, Fresh, Writing, Recent,
                        Line
<1>. QED  BY <1>1, <1>2, TypeInit, TypeStep, AgeStep, PTL DEF Spec
---------------------------------------------------------------------------
(* What was caught.  As long as it has not expired it is what the pre-cache has, *)
(* because one attempt is made for a batch, so the look-up cannot miss it.      *)

Due == task.caught # NoInfo /\ task.caught.age <= PreTtl

CaughtInv ==
  /\ task.pc \in {"pre_exe", "pre_store"} => task.done
  /\ task.pc \in {"idle", "pre_exe", "pre_store"} => task.caught = NoInfo
  /\ task.pc = "pre" /\ ~task.done => task.caught = NoInfo
  /\ task.pc \in Reading => ~Due
  /\ Due => precache = task.caught
  /\ Due /\ task.pc \in Told => task.info.exe = task.caught.exe

LEMMA CaughtStep == ProcTypeOK /\ CaughtInv /\ [Next]_vars => CaughtInv'
<1>. SUFFICES ASSUME ProcTypeOK, CaughtInv, [Next]_vars PROVE CaughtInv'
  OBVIOUS
<1>. USE ProcAssumption DEF Told
<1>0. /\ task \in Task /\ task.info \in Info /\ task.caught \in Entry
      /\ precache \in Entry
  BY DEF ProcTypeOK, Task
<1>1. CASE Process
  BY <1>1, SeenAgain DEF CaughtInv, Due
<1>2. CASE Tick
  <2>1. /\ task'.pc = task.pc /\ task'.done = task.done /\ precache' = Aged(precache)
        /\ task'.caught = Aged(task.caught) /\ task'.info.exe = task.info.exe
    BY <1>0, <1>2 DEF Tick, Task, Info
  <2>2. Due' => Due /\ task'.caught.exe = task.caught.exe
    BY <1>0, <2>1 DEF Due, Aged, Entry, Info, Age
  <2>3. task.caught = NoInfo => task'.caught = NoInfo
    BY <2>1 DEF Aged
  <2>. QED  BY <2>1, <2>2, <2>3 DEF CaughtInv
<1>3. CASE Fetch
  BY <1>0, <1>3 DEF Fetch, CaughtInv, Due, Task, Reading
<1>13. CASE PreBegin
  BY <1>0, <1>13 DEF PreBegin, CaughtInv, Due, Task, Reading
<1>14. CASE PreEnd
  BY <1>0, <1>14 DEF PreEnd, CaughtInv, Due, Task, Reading
<1>11. CASE ReadExe
  <2>1. /\ task'.pc \in {"pre_store", "store", "stat"} /\ task'.done = task.done
        /\ task'.caught = task.caught /\ precache' = precache
        /\ task'.pc = "pre_store" => task.pc = "pre_exe"
        /\ task'.pc # "pre_store" => task.pc = "exe"
    BY <1>0, <1>11 DEF ReadExe, Task
  <2>. QED  BY <2>1 DEF CaughtInv, Due, Reading
<1>12. CASE LogEnd
  BY <1>0, <1>12 DEF LogEnd, CaughtInv, Due, Task, Reading
<1>4. CASE PreStore
  BY <1>0, <1>4 DEF PreStore, CaughtInv, Due, Task, Reading
<1>5. ASSUME NEW e \in task.batch, Lookup(e) PROVE CaughtInv'
  <2>1. task'.caught = task.caught /\ task'.done = task.done /\ task.pc = "log"
    BY <1>0, <1>5 DEF Lookup, Task
  <2>2. Due => PreValid
    BY DEF CaughtInv, Due, PreValid
  <2>3. CASE PreValid
    <3>1. task'.pc = "emit" /\ task'.info = precache /\ precache' = precache
      BY <1>0, <1>5, <2>3 DEF Lookup, Task
    <3>. QED  BY <2>1, <3>1 DEF CaughtInv, Due, Reading
  <2>4. CASE ~PreValid
    <3>1. ~Due' /\ task'.pc \in {"emit", "tree"}
      BY <1>0, <1>5, <2>1, <2>2, <2>4 DEF Due, Lookup, Task
    <3>. QED  BY <2>1, <3>1 DEF CaughtInv
  <2>. QED  BY <2>3, <2>4
<1>6. CASE ReadTree
  BY <1>0, <1>6 DEF ReadTree, CaughtInv, Due, Task, Reading
<1>7. CASE StatOpen \/ StatRead
  <2>1. /\ task'.caught = task.caught /\ precache' = precache
        /\ task.pc \in Reading /\ task'.pc \in Reading \cup {"down"}
    <3>1. CASE StatOpen
      BY <1>0, <3>1 DEF StatOpen, Task, Reading
    <3>2. CASE StatRead
      BY <1>0, <3>2 DEF StatRead, Task, Reading
    <3>. QED  BY <1>7, <3>1, <3>2
  <2>. QED  BY <2>1 DEF CaughtInv, Due, Reading
<1>8. CASE Store
  BY <1>0, <1>8 DEF Store, Goto, CaughtInv, Due, Task, Reading
<1>9. CASE Emit
  BY <1>0, <1>9 DEF Emit, CaughtInv, Due, Task, Reading
<1>10. CASE UNCHANGED vars
  BY <1>10 DEF vars, CaughtInv, Due
<1>15. CASE Register
  BY <1>15 DEF Register, CaughtInv, Due
<1>16. CASE Resolve \/ IsFile
  <2>1. /\ task'.info = task.info /\ task'.caught = task.caught /\ precache' = precache
        /\ task.pc \in Told /\ task'.pc \in Told
    <3>1. CASE Resolve
      BY <1>0, <3>1 DEF Resolve, Task
    <3>2. CASE IsFile
      BY <1>0, <3>2 DEF IsFile, Task
    <3>. QED  BY <1>16, <3>1, <3>2
  <2>. QED  BY <2>1 DEF CaughtInv, Due, Reading
<1>. QED
  BY <1>1, <1>2, <1>3, <1>4, <1>5, <1>6, <1>7, <1>8, <1>9, <1>10, <1>11, <1>12,
     <1>13, <1>14, <1>15, <1>16 DEF Next, Daemon

\* A child that was caught is described as it was caught, for any TTLs.
THEOREM CaughtIsToldAlways == Spec => []CaughtIsTold
<1>1. Init => CaughtInv
  BY DEF Init, CaughtInv, Due, Reading, Told
<1>2. ProcTypeOK /\ CaughtInv => CaughtIsTold
  <2>1. ProcTypeOK /\ task.caught # NoInfo => task.caught.age \in Int
    BY ProcAssumption DEF ProcTypeOK, Task, Entry, Info, Age
  <2>. QED  BY <2>1, ProcAssumption DEF CaughtInv, CaughtIsTold, Due, Line, Writing, Told
<1>. QED  BY <1>1, <1>2, TypeInit, TypeStep, CaughtStep, PTL DEF Spec
---------------------------------------------------------------------------
(* Files.  A record knows the file its descriptor is open on; while its path is   *)
(* looked up, the text is that file's, and isfile is about it if nobody moved it. *)

\* Only the path of a regular file changes.
Fixed(e) == e.led \/ e.file \in Regular

Held(e) == e.file # None => e.file = fd /\ (e.led => named) /\ Fixed(e)

Resolving(t) ==
  IF t.pc \notin {"isfile", "write"} THEN Held(t.event)
  ELSE t.event.file # None =>
         /\ t.text = t.event.file /\ Fixed(t.event)
         /\ t.event.led => IF t.pc = "isfile" THEN t.leads
                           ELSE t.regular = (t.event.file \in Regular)

FileInv ==
  /\ fd \in File => proc \in Image
  /\ fd \in File \ Regular => named
  /\ \A e \in pending \cup task.batch : Held(e)
  /\ Resolving(task)

\* Records of before a change of the descriptor have no file, those of before a change
\* of a name no path.
LEMMA Changed ==
  /\ \A e \in Event : Lost(e).file = None
  /\ \A e \in Event : \A f : /\ Moved(e, f).file = e.file
                             /\ Moved(e, f).led <=> e.led /\ e.file # f
BY DEF Lost, Moved, Event

LEMMA DescriptorFiles ==
  ASSUME ProcTypeOK, FileInv, NEW f \in File \cup {None}, Descriptor(f)
  PROVE  /\ fd' = f
         /\ fd' \in File \ Regular => named'
         /\ \A e \in (pending \cup task.batch)' : Held(e)'
         /\ Resolving(task)'
<1>1. CASE f = fd
  BY <1>1 DEF Descriptor, FileInv, Held, Resolving
<1>2. CASE f # fd
  <2>1. /\ pending' = {Lost(e) : e \in pending} /\ task'.batch = {Lost(e) : e \in task.batch}
        /\ task'.event = IF task.pc \in {"isfile", "write"} THEN task.event ELSE Lost(task.event)
        /\ task'.pc = task.pc /\ task'.text = task.text
        /\ task'.leads = task.leads /\ task'.regular = task.regular
    BY <1>2 DEF Descriptor, ProcTypeOK, Task
  <2>2. \A e \in (pending \cup task.batch)' : e.file = None
    BY <2>1, Changed DEF ProcTypeOK, Task
  <2>3. Resolving(task)'
    BY <2>1, Changed DEF ProcTypeOK, Task, FileInv, Resolving, Held, Fixed
  <2>4. fd' = f /\ (f \in File \ Regular => named')
    BY <1>2 DEF Descriptor, Opened
  <2>. QED  BY <2>2, <2>3, <2>4 DEF Held
<1>. QED  BY <1>1, <1>2

LEMMA FileStep == ProcTypeOK /\ FileInv /\ [Next]_vars => FileInv'
<1>. SUFFICES ASSUME ProcTypeOK, FileInv, [Next]_vars PROVE FileInv'
  OBVIOUS
<1>. USE ProcAssumption
<1>0. task \in Task /\ task.event \in Event
  BY DEF ProcTypeOK, Task
<1>r. \A k, f : Record(k, f).file = f /\ (Record(k, f).led <=> f # None /\ named)
  BY DEF Record, ProcTypeOK
<1>1. CASE Fork
  <2>1. \A e \in pending \cup task.batch : e.file = None
    BY <1>1 DEF Fork, FileInv, Held, ProcTypeOK, Task, Event
  <2>2. task.pc \notin {"isfile", "write"} => task.event.file = None
    BY <1>0, <1>1 DEF Fork, FileInv, Resolving, Held, ProcTypeOK, Event
  <2>3. \A e \in (pending \cup task.batch)' : e.file = None
    BY <1>1, <1>r, <2>1 DEF Fork, Emitted
  <2>4. task' = task /\ (fd' \in File \ Regular => named') /\ proc' \in Image
    BY <1>1 DEF Fork, Opened, Becomes
  <2>5. Resolving(task)'
    BY <2>2, <2>4 DEF FileInv, Resolving, Held, Fixed
  <2>. QED  BY <2>3, <2>4, <2>5 DEF FileInv, Held
<1>2. CASE Exec
  <2>1. PICK f \in {fd, None} : Descriptor(f)
    BY <1>2 DEF Exec
  <2>. QED  BY <1>2, <2>1, DescriptorFiles DEF Exec, Becomes, FileInv, ProcTypeOK
<1>3. CASE OpenClose
  <2>1. PICK f \in File \cup {None} : Descriptor(f)
    BY <1>3 DEF OpenClose
  <2>. QED  BY <1>3, <2>1, DescriptorFiles DEF OpenClose, FileInv
<1>4. CASE ExitProcess
  BY <1>4, DescriptorFiles DEF ExitProcess, FileInv
<1>5. CASE Unname
  <2>1. PICK f \in Regular :
          /\ named' \in IF f = fd THEN BOOLEAN ELSE {named}
          /\ pending' = {Moved(e, f) : e \in pending}
          /\ task' = [task EXCEPT !.batch = {Moved(e, f) : e \in @},
                                  !.event = IF task.pc = "write" THEN @ ELSE Moved(@, f),
                                  !.leads = @ /\ task.text # f]
          /\ UNCHANGED <<proc, tree, fd, precache, cache, seen>>
    BY <1>5 DEF Unname
  <2>2. /\ task'.batch = {Moved(e, f) : e \in task.batch}
        /\ task'.event = IF task.pc = "write" THEN task.event ELSE Moved(task.event, f)
        /\ task'.leads = (task.leads /\ task.text # f)
        /\ task'.pc = task.pc /\ task'.text = task.text /\ task'.regular = task.regular
    BY <1>0, <2>1 DEF Task
  <2>3. \A e \in Event : Held(e) => Held(Moved(e, f))'
    BY <2>1, Changed DEF Held, Fixed, ProcTypeOK
  <2>4. \A e \in (pending \cup task.batch)' : Held(e)'
    BY <2>1, <2>2, <2>3 DEF FileInv, ProcTypeOK, Task
  <2>5. Resolving(task)'
    <3>1. CASE task.pc \notin {"isfile", "write"}
      BY <1>0, <2>2, <2>3, <3>1 DEF FileInv, Resolving
    <3>2. CASE task.pc = "isfile"
      <4>1. task'.event.file = task.event.file /\ (task'.event.led <=> task.event.led /\ task.event.file # f)
        BY <1>0, <2>2, <3>2, Changed
      <4>2. CASE task.event.file = None
        BY <2>2, <3>2, <4>1, <4>2 DEF Resolving
      <4>3. CASE task.event.file # None
        <5>1. task.text = task.event.file /\ Fixed(task.event) /\ (task.event.led => task.leads)
          BY <3>2, <4>3 DEF FileInv, Resolving
        <5>2. Fixed(task'.event)
          BY <2>1, <4>1, <5>1 DEF Fixed
        <5>. QED  BY <2>2, <3>2, <4>1, <5>1, <5>2 DEF Resolving, Fixed
      <4>. QED  BY <4>2, <4>3
    <3>3. CASE task.pc = "write"
      BY <2>2, <3>3 DEF FileInv, Resolving, Fixed
    <3>. QED  BY <3>1, <3>2, <3>3
  <2>. QED  BY <2>1, <2>4, <2>5 DEF FileInv
<1>6. CASE Call
  BY <1>6, <1>r DEF Call, Emitted, FileInv, Held, Resolving, Fixed
<1>7. CASE Reap
  <2>1. /\ task'.pc = task.pc /\ task'.event = task.event /\ task'.batch = task.batch
        /\ task'.text = task.text /\ task'.leads = task.leads /\ task'.regular = task.regular
    BY <1>0, <1>7 DEF Reap, Task
  <2>. QED  BY <1>7, <2>1 DEF Reap, Becomes, FileInv, Held, Resolving, ProcTypeOK
<1>8. CASE Tick
  <2>1. /\ task'.pc = task.pc /\ task'.event = task.event /\ task'.batch = task.batch
        /\ task'.text = task.text /\ task'.leads = task.leads /\ task'.regular = task.regular
    BY <1>0, <1>8 DEF Tick, Task
  <2>. QED  BY <1>8, <2>1 DEF Tick, outside, FileInv, Held, Resolving
<1>9. CASE Fetch
  <2>1. task'.pc = "pre" /\ task'.event = task.event /\ task'.batch = pending
    BY <1>0, <1>9 DEF Fetch, Task
  <2>. QED  BY <1>9, <2>1 DEF Fetch, FileInv, Held, Resolving
<1>10. ASSUME /\ UNCHANGED outside
              /\ task'.batch \subseteq task.batch
              /\ task'.event \in task.batch \cup {task.event, Record("call", None)}
              /\ task.pc \notin {"isfile", "write"} /\ task'.pc \notin {"isfile", "write"}
       PROVE  FileInv'
  BY <1>10, <1>r DEF outside, FileInv, Held, Resolving
<1>11. CASE PreBegin \/ PreEnd \/ ReadExe \/ PreStore
  BY <1>0, <1>10, <1>11 DEF PreBegin, PreEnd, ReadExe, PreStore, Task
<1>12. ASSUME NEW e \in task.batch, Lookup(e) PROVE FileInv'
  BY <1>0, <1>10, <1>12 DEF Lookup, Task
<1>13. CASE ReadTree \/ StatOpen \/ StatRead
  <2>1. CASE ReadTree
    BY <1>0, <1>10, <2>1 DEF ReadTree, Task
  <2>2. CASE StatOpen
    BY <1>0, <1>10, <2>2 DEF StatOpen, Task
  <2>3. CASE StatRead
    BY <1>0, <1>10, <2>3 DEF StatRead, Task
  <2>. QED  BY <1>13, <2>1, <2>2, <2>3
<1>14. CASE Store \/ LogEnd
  BY <1>0, <1>10, <1>14 DEF Store, Goto, LogEnd, Task
<1>15. CASE Resolve
  <2>1. /\ task'.pc = "isfile" /\ task'.text = Path /\ task'.leads = named
        /\ task'.event = task.event /\ task'.batch = task.batch
    BY <1>0, <1>15 DEF Resolve, Task
  <2>2. Held(task.event) /\ UNCHANGED outside
    BY <1>15 DEF Resolve, FileInv, Resolving
  <2>3. Resolving(task)'
    BY <1>0, <2>1, <2>2 DEF FileInv, Resolving, Held, Fixed, Path, Event
  <2>. QED  BY <2>1, <2>2, <2>3 DEF FileInv, Held, outside
<1>16. CASE IsFile
  <2>1. PICK b \in BOOLEAN :
          /\ task.leads => b = (task.text \in Regular)
          /\ task' = [task EXCEPT !.pc = "write", !.regular = b]
    BY <1>16 DEF IsFile
  <2>2. /\ task'.pc = "write" /\ task'.text = task.text /\ task'.regular = b
        /\ task'.event = task.event /\ task'.batch = task.batch
    BY <1>0, <2>1 DEF Task
  <2>3. task.pc = "isfile" /\ UNCHANGED outside
    BY <1>16 DEF IsFile
  <2>4. Resolving(task)'
    BY <2>1, <2>2, <2>3 DEF FileInv, Resolving, Fixed
  <2>. QED  BY <2>2, <2>3, <2>4 DEF FileInv, Held, outside
<1>17. CASE Emit
  <2>1. task'.pc = "log" /\ task'.event = Record("call", None) /\ task'.batch = task.batch
    BY <1>0, <1>17 DEF Emit, Task
  <2>. QED  BY <1>17, <1>r, <2>1 DEF Emit, FileInv, Held, Resolving, outside
<1>18. CASE UNCHANGED vars
  BY <1>18 DEF vars, FileInv, Held, Resolving
<1>19. CASE Register
  BY <1>19 DEF Register, FileInv, Held, Resolving
<1>. QED
  BY <1>1, <1>2, <1>3, <1>4, <1>5, <1>6, <1>7, <1>8, <1>9, <1>11, <1>12, <1>13,
     <1>14, <1>15, <1>16, <1>17, <1>18, <1>19 DEF Next, Daemon, Process

\* A read or write through a descriptor that stays open is logged with what its link
\* said, and only if it is of a regular file; if nobody has changed the file's name it is
\* dropped only if it is of none.
THEOREM RightFileAlways == Spec => []RightFile
<1>1. Init => FileInv
  BY ProcAssumption DEF Init, FileInv, Held, Resolving, Record
<1>2. ProcTypeOK /\ FileInv => RightFile
  BY DEF FileInv, Resolving, Fixed, RightFile, Writing, Dropped, Line, ProcTypeOK, Task, Event
<1>. QED  BY <1>1, <1>2, TypeInit, TypeStep, FileStep, PTL DEF Spec
===========================================================================
