-------------------------- MODULE ConfigStoreProofs --------------------------
(***************************************************************************)
(* Theorems about ConfigStore, for any number of commands, names and ids   *)
(* and any length of the queue.                                            *)
(***************************************************************************)
EXTENDS ConfigStore, WellFoundedInduction, TLAPS

Unique(c) == \A t, u \in c : t.id = u.id => t = u

\* There is a largest id.
LEMMA MaxOfIds ==
  ASSUME NEW S \in SUBSET (1 .. MaxId), S # {}
  PROVE  Max(S) \in S /\ \A y \in S : Max(S) >= y
<1> USE BoundAssumption
<1> DEFINE T == {MaxId - x : x \in S}
<1>1. T \in SUBSET Nat
  OBVIOUS
<1>2. T # {}
  OBVIOUS
<1> DEFINE R == {ss \in Nat \X Nat : ss[1] < ss[2]}
<1>3. IsWellFoundedOn(R, Nat)
  BY NatLessThanWellFounded, Zenon DEF OpToRel
<1>4. PICK t \in T : \A u \in T : ~(<<u, t>> \in R)
  <2> HIDE DEF T, R
  <2> QED BY <1>1, <1>2, <1>3, WFMin
<1>5. \A u \in T : t <= u
  <2> SUFFICES ASSUME NEW u \in T, u < t PROVE FALSE
    BY <1>1
  <2>1. <<u, t>> \in Nat \X Nat /\ <<u, t>>[1] < <<u, t>>[2]
    BY <1>1
  <2> QED BY <1>4, <2>1
<1>6. PICK x \in S : t = MaxId - x
  BY <1>4
<1>7. \A y \in S : x >= y
  <2> SUFFICES ASSUME NEW y \in S PROVE x >= y
    OBVIOUS
  <2>1. MaxId - x <= MaxId - y
    BY <1>5, <1>6
  <2> QED BY <2>1
<1> QED BY <1>7 DEF Max

\* next_target_id is larger than every id in the list.
LEMMA NextIdIsNew ==
  ASSUME NEW c \in SUBSET Target
  PROVE  /\ NextId(c) \in 1 .. MaxId + 1
         /\ \A t \in c : t.id < NextId(c)
<1> USE BoundAssumption
<1>1. CASE c = {}
  BY <1>1 DEF NextId
<1>2. CASE c # {}
  <2>1. IdsOf(c) \in SUBSET (1 .. MaxId) /\ IdsOf(c) # {} /\ \A t \in c : t.id \in IdsOf(c)
    BY <1>2 DEF IdsOf, Target
  <2>2. Max(IdsOf(c)) \in IdsOf(c) /\ \A y \in IdsOf(c) : Max(IdsOf(c)) >= y
    BY <2>1, MaxOfIds
  <2> QED BY <1>2, <2>1, <2>2 DEF NextId
<1> QED BY <1>1, <1>2

\* A command keeps ids unique in the list it has loaded, and within their bound.
LEMMA EditedIds ==
  ASSUME NEW c \in SUBSET Target, NEW e \in Edits, Unique(c),
         e.op = "add" => NextId(c) <= MaxId
  PROVE  Edited(c, e) \in SUBSET Target /\ Unique(Edited(c, e))
<1>1. CASE e.op = "add"
  <2> DEFINE new == [id |-> NextId(c), name |-> e.name]
  <2>1. new \in Target /\ \A t \in c : t.id # new.id
    BY <1>1, NextIdIsNew, BoundAssumption DEF Edits, Target
  <2>2. Edited(c, e) = c \cup {new}
    BY <1>1 DEF Edited
  <2> QED BY <2>1, <2>2 DEF Unique
<1>2. CASE e.op # "add"
  BY <1>2 DEF Edited, Unique
<1> QED BY <1>1, <1>2
---------------------------------------------------------------------------
(* Types, ids, and who tears the file *)

\* A command carries a list with unique ids and room for the one it adds.
CommandSound(c) ==
  cmd[c].pc # "idle" =>
    /\ cmd[c].edit \in Edits /\ Unique(cmd[c].base)
    /\ cmd[c].edit.op = "add" => NextId(cmd[c].base) <= MaxId

\* A queue beyond its capacity holds the note of its overflow.
Marked(q) == Len(q) > QueueCap => \E i \in DOMAIN q : q[i] = "overflow"

FileInv == /\ StoreTypeOK
           /\ IdsUnique
           /\ TornByHandOnly
           /\ \A c \in Cmd : CommandSound(c)
           /\ Unique(editor.text)
           /\ Marked(queue)

LEMMA QueuedKeeps ==
  ASSUME NEW q \in Seq(Notes), Len(q) <= QueueCap + 1, Marked(q), NEW note \in Notes
  PROVE  /\ Queued(q, note) \in Seq(Notes) /\ Len(Queued(q, note)) <= QueueCap + 1
         /\ Marked(Queued(q, note))
<1> USE BoundAssumption DEF Queued, Notes
<1>1. CASE Len(q) < QueueCap
  BY <1>1 DEF Marked
<1>2. CASE ~(Len(q) < QueueCap) /\ \E i \in DOMAIN q : q[i] = "overflow"
  BY <1>2
<1>3. CASE ~(Len(q) < QueueCap) /\ ~\E i \in DOMAIN q : q[i] = "overflow"
  <2>1. Len(q) = QueueCap
    BY <1>3 DEF Marked
  <2>2. Queued(q, note) = Append(q, "overflow")
    BY <1>3
  <2>3. /\ Append(q, "overflow") \in Seq(Notes)
        /\ Len(Append(q, "overflow")) = QueueCap + 1
        /\ Append(q, "overflow")[QueueCap + 1] = "overflow"
    BY <2>1
  <2> QED BY <2>1, <2>2, <2>3 DEF Marked
<1> QED BY <1>1, <1>2, <1>3

\* A notification changes the queue and the history only, and keeps the queue's types.
LEMMA NotifyKeeps ==
  ASSUME StoreTypeOK, Marked(queue), NEW note \in Notes, Notify(note)
  PROVE  queue' \in Seq(Notes) /\ Len(queue') <= QueueCap + 1 /\ Marked(queue') /\ missed' \in BOOLEAN
<1>1. queue' \in Seq(Notes) /\ Len(queue') <= QueueCap + 1 /\ Marked(queue')
  BY QueuedKeeps DEF StoreTypeOK, Notify
<1>2. missed' \in BOOLEAN
  BY DEF StoreTypeOK, Notify
<1> QED BY <1>1, <1>2

LEMMA MinOfTwo ==
  ASSUME NEW a \in Nat, NEW b \in Nat
  PROVE  Min({a, b}) \in {a, b} /\ Min({a, b}) <= a /\ Min({a, b}) <= b
<1>1. \E x \in {a, b} : \A y \in {a, b} : x <= y
  OBVIOUS
<1> QED BY <1>1 DEF Min

\* Reading takes a nonempty front of the queue.
LEMMA BatchAndRest ==
  ASSUME NEW q \in Seq(Notes), q # <<>>, Len(q) <= QueueCap + 1
  PROVE  LET n     == Min({ReadMax, Len(q)})
             batch == SubSeq(q, 1, n)
             rest  == SubSeq(q, n + 1, Len(q))
         IN  /\ n \in 1 .. Len(q)
             /\ batch \in Seq(Notes) /\ Len(batch) = n
             /\ \A i \in 1 .. n : batch[i] = q[i]
             /\ rest \in Seq(Notes) /\ Len(rest) = Len(q) - n
             /\ \A i \in 1 .. Len(q) - n : rest[i] = q[n + i]
<1> DEFINE n == Min({ReadMax, Len(q)})
<1>1. Len(q) \in Nat /\ Len(q) >= 1
  OBVIOUS
<1>2. n \in 1 .. Len(q)
  BY <1>1, MinOfTwo, BoundAssumption
<1> HIDE DEF n
<1>3. SubSeq(q, 1, n) \in Seq(Notes) /\ Len(SubSeq(q, 1, n)) = n
      /\ \A i \in 1 .. n : SubSeq(q, 1, n)[i] = q[i]
  BY <1>1, <1>2
<1>4. /\ SubSeq(q, n + 1, Len(q)) \in Seq(Notes) /\ Len(SubSeq(q, n + 1, Len(q))) = Len(q) - n
      /\ \A i \in 1 .. Len(q) - n : SubSeq(q, n + 1, Len(q))[i] = q[n + i]
  BY <1>1, <1>2
<1> QED BY <1>2, <1>3, <1>4 DEF n
---------------------------------------------------------------------------
(* Types, ids, and who tears the file *)

LEMMA FileInit == Init => FileInv
<1> SUFFICES ASSUME Init PROVE FileInv
  OBVIOUS
<1> USE BoundAssumption DEF Init
<1>1. StoreTypeOK
  <2>1. AtRest \in [pc : {"idle", "loaded", "temp"}, base : SUBSET Target, edit : Edits \cup {NoEdit}]
    BY DEF AtRest
  <2>2. queue \in Seq(Notes) /\ Len(queue) <= QueueCap + 1
    OBVIOUS
  <2>3. cmd \in [Cmd -> [pc : {"idle", "loaded", "temp"}, base : SUBSET Target,
                          edit : Edits \cup {NoEdit}]]
    BY <2>1
  <2>4. editor \in [pc : {"idle", "read", "write"}, text : SUBSET Target, mine : BOOLEAN]
    BY DEF Closed
  <2> QED BY <2>2, <2>3, <2>4 DEF StoreTypeOK
<1>2. IdsUnique /\ TornByHandOnly /\ Unique(editor.text)
  BY DEF IdsUnique, TornByHandOnly, Unique, Closed
<1>3. \A c \in Cmd : CommandSound(c)
  BY DEF CommandSound, AtRest
<1>4. Marked(queue)
  BY DEF Marked
<1> QED BY <1>1, <1>2, <1>3, <1>4 DEF FileInv

LEMMA FileByCommand ==
  ASSUME FileInv, NEW c \in Cmd,
         (\E e \in Edits : Load(c, e)) \/ WriteTemp(c) \/ Move(c) \/ Kill(c)
  PROVE  FileInv'
<1> USE DEF FileInv, StoreTypeOK, daemons
<1>0. "config" \in Notes /\ "other" \in Notes
  BY DEF Notes
<1>1. ASSUME NEW e \in Edits, Load(c, e) PROVE FileInv'
  <2>1. StoreTypeOK' /\ IdsUnique' /\ TornByHandOnly' /\ Unique(editor.text)' /\ Marked(queue)'
    BY <1>1 DEF Load, IdsUnique, TornByHandOnly, Unique, Marked
  <2>2. cmd'[c] = [pc |-> "loaded", base |-> file, edit |-> e]
        /\ \A d \in Cmd \ {c} : cmd'[d] = cmd[d]
    BY <1>1 DEF Load
  <2>3. e.op = "add" => NextId(file) <= MaxId
    BY <1>1 DEF Load
  <2>4. \A d \in Cmd : CommandSound(d)'
    BY <2>2, <2>3 DEF CommandSound, IdsUnique, Unique
  <2> QED BY <2>1, <2>4
<1>2. CASE WriteTemp(c)
  <2>1. queue' \in Seq(Notes) /\ Len(queue') <= QueueCap + 1 /\ Marked(queue)' /\ missed' \in BOOLEAN
    BY <1>2, <1>0, NotifyKeeps DEF WriteTemp, Marked
  <2>2. StoreTypeOK' /\ IdsUnique' /\ TornByHandOnly' /\ Unique(editor.text)'
    BY <1>2, <2>1 DEF WriteTemp, IdsUnique, TornByHandOnly, Unique
  <2>3. \A d \in Cmd : CommandSound(d)'
    BY <1>2 DEF WriteTemp, CommandSound
  <2> QED BY <2>1, <2>2, <2>3
<1>3. CASE Move(c)
  <2>1. queue' \in Seq(Notes) /\ Len(queue') <= QueueCap + 1 /\ Marked(queue)' /\ missed' \in BOOLEAN
    BY <1>3, <1>0, NotifyKeeps DEF Move, Marked
  <2>2. file' \in SUBSET Target /\ Unique(file')
    BY <1>3, EditedIds DEF Move, CommandSound
  <2>3. cmd'[c] = AtRest /\ \A d \in Cmd \ {c} : cmd'[d] = cmd[d]
    BY <1>3 DEF Move
  <2>4. StoreTypeOK'
    <3>1. cmd' \in [Cmd -> [pc : {"idle", "loaded", "temp"}, base : SUBSET Target,
                            edit : Edits \cup {NoEdit}]]
      BY <1>3 DEF Move, AtRest
    <3>2. editor' \in [pc : {"idle", "read", "write"}, text : SUBSET Target, mine : BOOLEAN]
      BY <1>3 DEF Move
    <3> QED BY <1>3, <2>1, <2>2, <3>1, <3>2 DEF Move
  <2>5. IdsUnique' /\ TornByHandOnly' /\ Unique(editor.text)'
    BY <1>3, <2>2 DEF Move, IdsUnique, TornByHandOnly, Unique
  <2>6. \A d \in Cmd : CommandSound(d)'
    BY <2>3 DEF CommandSound, AtRest
  <2> QED BY <2>1, <2>4, <2>5, <2>6
<1>4. CASE Kill(c)
  <2>1. StoreTypeOK' /\ IdsUnique' /\ TornByHandOnly' /\ Unique(editor.text)' /\ Marked(queue)'
    BY <1>4 DEF Kill, AtRest, IdsUnique, TornByHandOnly, Unique, Marked
  <2>2. \A d \in Cmd : CommandSound(d)'
    BY <1>4 DEF Kill, AtRest, CommandSound
  <2> QED BY <2>1, <2>2
<1> QED BY <1>1, <1>2, <1>3, <1>4

LEMMA FileByEditor ==
  ASSUME FileInv, (\E text \in SUBSET file : EditRead(text)) \/ EditTruncate \/ EditWrite
  PROVE  FileInv'
<1> USE DEF FileInv, StoreTypeOK, daemons
<1>0. "config" \in Notes
  BY DEF Notes
<1>1. ASSUME NEW text \in SUBSET file, EditRead(text) PROVE FileInv'
  BY <1>1 DEF EditRead, IdsUnique, TornByHandOnly, Unique, Marked, CommandSound
<1>2. CASE EditTruncate
  <2>1. queue' \in Seq(Notes) /\ Len(queue') <= QueueCap + 1 /\ Marked(queue)' /\ missed' \in BOOLEAN
    BY <1>2, <1>0, NotifyKeeps DEF EditTruncate, Marked
  <2> QED BY <1>2, <2>1 DEF EditTruncate, IdsUnique, TornByHandOnly, Unique, CommandSound
<1>3. CASE EditWrite
  <2>1. queue' \in Seq(Notes) /\ Len(queue') <= QueueCap + 1 /\ Marked(queue)' /\ missed' \in BOOLEAN
    BY <1>3, <1>0, NotifyKeeps DEF EditWrite, Marked
  <2>2. StoreTypeOK' /\ IdsUnique' /\ Unique(editor.text)'
    BY <1>3, <2>1 DEF EditWrite, Closed, IdsUnique, Unique
  <2>3. TornByHandOnly'
    BY <1>3 DEF EditWrite, Closed, TornByHandOnly
  <2>4. \A d \in Cmd : CommandSound(d)'
    BY <1>3 DEF EditWrite, CommandSound
  <2> QED BY <2>1, <2>2, <2>3, <2>4
<1> QED BY <1>1, <1>2, <1>3

LEMMA FileByDaemon ==
  ASSUME FileInv, Boot \/ Watch \/ FirstSync \/ ReadEvents \/ Reload \/ Sync \/ Die
  PROVE  FileInv'
<1> USE DEF FileInv, StoreTypeOK, store
<1>1. UNCHANGED store
  BY DEF Boot, Watch, FirstSync, ReadEvents, Reload, Sync, Die
<1>2. IdsUnique' /\ TornByHandOnly' /\ Unique(editor.text)' /\ \A c \in Cmd : CommandSound(c)'
  BY <1>1 DEF IdsUnique, TornByHandOnly, Unique, CommandSound
<1>3. \A x \in SUBSET Target : NamesOf(x) \in SUBSET Name
  BY DEF NamesOf, Target
<1>4. CASE ReadEvents
  <2>1. queue' \in Seq(Notes) /\ Len(queue') <= QueueCap
    <3> DEFINE n == Min({ReadMax, Len(queue)})
    <3>1. queue # <<>> /\ queue' = SubSeq(queue, n + 1, Len(queue))
      BY <1>4 DEF ReadEvents
    <3>2. n \in 1 .. Len(queue) /\ queue' \in Seq(Notes) /\ Len(queue') = Len(queue) - n
      BY <3>1, BatchAndRest
    <3> QED BY <3>2, BoundAssumption
  <2>2. daemon' \in {"load", "sync"} /\ missed' \in BOOLEAN /\ UNCHANGED <<watch, cfg, comms>>
    BY <1>4 DEF ReadEvents
  <2> QED BY <1>1, <1>2, <2>1, <2>2, BoundAssumption DEF Marked
<1>5. CASE ~ReadEvents
  <2>1. queue' \in {queue, <<>>}
    BY <1>5 DEF Boot, Watch, FirstSync, Reload, Sync, Die
  <2>2. queue' \in Seq(Notes) /\ Len(queue') <= QueueCap + 1 /\ Marked(queue)'
    <3>1. CASE queue' = queue
      BY <3>1 DEF Marked
    <3>2. CASE queue' = <<>>
      <4>1. <<>> \in Seq(Notes) /\ Len(<<>>) = 0
        OBVIOUS
      <4> QED BY <3>2, <4>1, BoundAssumption DEF Marked
    <3> QED BY <2>1, <3>1, <3>2
  <2>3. /\ watch' \in BOOLEAN /\ missed' \in BOOLEAN
        /\ daemon' \in {"off", "boot", "start", "loop", "load", "sync"}
        /\ cfg' \in SUBSET Target /\ comms' \in SUBSET Name
    BY <1>3, <1>5 DEF Boot, Watch, FirstSync, Reload, Sync, Die
  <2> QED BY <1>1, <1>2, <2>2, <2>3
<1> QED BY <1>4, <1>5

LEMMA FileStep == FileInv /\ [Next]_vars => FileInv'
<1> SUFFICES ASSUME FileInv, [Next]_vars PROVE FileInv'
  OBVIOUS
<1>1. CASE UNCHANGED vars
  BY <1>1 DEF vars, FileInv, StoreTypeOK, IdsUnique, TornByHandOnly, CommandSound, Unique, Marked
<1> QED BY <1>1, FileByCommand, FileByEditor, FileByDaemon DEF Next

LEMMA FileInvHolds == Spec => []FileInv
  BY FileInit, FileStep, PTL DEF Spec

\* All variables keep their types, and the queue is never longer than the kernel's limit
\* and the one note of its overflow.
THEOREM StoreTypeCorrect == Spec => []StoreTypeOK
<1>1. FileInv => StoreTypeOK
  BY DEF FileInv
<1> QED BY <1>1, FileInvHolds, PTL

\* For any number of commands that overlap, overwrite each other or are killed, and
\* whatever an editor deletes, no two targets of config.json share an id.
THEOREM IdsStayUnique == Spec => []IdsUnique
<1>1. FileInv => IdsUnique
  BY DEF FileInv
<1> QED BY <1>1, FileInvHolds, PTL

\* config.json is half-written only while somebody writes it in place by hand.
THEOREM CommandsNeverTear == Spec => []TornByHandOnly
<1>1. FileInv => TornByHandOnly
  BY DEF FileInv
<1> QED BY <1>1, FileInvHolds, PTL

\* A command changes what it was asked to change, for any number of commands that
\* overwrite each other: a deletion takes one target at most, one it names, and an
\* addition takes none and adds one.
THEOREM CommandsChangeTheirOwn == Spec => ChangesItsOwn
<1>1. ASSUME FileInv, NEW c \in Cmd, Move(c)
      PROVE  LET base == cmd[c].base
                 edit == cmd[c].edit
                 gone == (file \ file') \cap base
                 new  == (file' \ file) \ base
             IN  IF edit.op = "add"
                 THEN /\ gone = {}
                      /\ \A t, u \in new : t = u
                      /\ file = base => new # {}
                 ELSE /\ new = {}
                      /\ gone \subseteq Candidates(base, edit)
                      /\ \A t, u \in gone : t = u
  <2> DEFINE base == cmd[c].base
             edit == cmd[c].edit
  <2>1. /\ base \in SUBSET Target /\ edit \in Edits /\ Unique(base)
        /\ file' = Edited(base, edit)
    BY <1>1 DEF FileInv, StoreTypeOK, CommandSound, Move
  <2> HIDE DEF base, edit
  <2>2. CASE edit.op = "add"
    <3> DEFINE t == [id |-> NextId(base), name |-> edit.name]
    <3>1. file' = base \cup {t}
      BY <2>1, <2>2 DEF Edited
    <3>2. t \notin base
      <4>1. \A u \in base : u.id < NextId(base) /\ u.id \in Int
        BY <2>1, NextIdIsNew DEF Target
      <4>2. t.id = NextId(base) /\ NextId(base) \in Int
        BY <2>1, NextIdIsNew
      <4> QED BY <4>1, <4>2
    <3> QED BY <2>2, <3>1, <3>2 DEF base, edit
  <2>3. CASE edit.op # "add"
    <3>1. file' = base \ Match(base, edit)
      BY <2>1, <2>3 DEF Edited
    <3>2. Match(base, edit) \subseteq Candidates(base, edit)
      BY DEF Match
    <3>3. \A t, u \in Match(base, edit) : t = u
      <4> SUFFICES ASSUME NEW t \in Match(base, edit), NEW u \in Match(base, edit) PROVE t = u
        OBVIOUS
      <4>1. t \in base /\ u \in base /\ t.id <= u.id /\ u.id <= t.id
        BY DEF Match, Candidates
      <4>2. t.id = u.id
        BY <2>1, <4>1, BoundAssumption DEF Target
      <4> QED BY <2>1, <4>1, <4>2 DEF Unique
    <3> QED BY <2>3, <3>1, <3>2, <3>3 DEF base, edit
  <2> QED BY <2>2, <2>3
<1>2. FileInv =>
        [\A c \in Cmd : Move(c) =>
           LET base == cmd[c].base
               edit == cmd[c].edit
               gone == (file \ file') \cap base
               new  == (file' \ file) \ base
           IN  IF edit.op = "add"
               THEN /\ gone = {}
                    /\ \A t, u \in new : t = u
                    /\ file = base => new # {}
               ELSE /\ new = {}
                    /\ gone \subseteq Candidates(base, edit)
                    /\ \A t, u \in gone : t = u]_vars
  BY <1>1
<1> QED BY <1>2, FileInvHolds, PTL DEF ChangesItsOwn
---------------------------------------------------------------------------
(* What the daemon works with *)

Told == \E i \in DOMAIN queue : queue[i] = "config"

\* It has the last version, or will be told, or is about to load it.
FollowInv ==
  /\ Up /\ ~missed => cfg = file \/ Told \/ daemon = "load" \/ torn
  /\ daemon \in {"loop", "load"} => comms = NamesOf(cfg)

\* A notification is not forgotten for another one, and one of config.json that is
\* not queued is written down as missed.
LEMMA NotifyTells ==
  ASSUME StoreTypeOK, NEW note \in Notes, Notify(note), daemon' = daemon
  PROVE  /\ Told => Told'
         /\ note # "config" => missed' = missed
         /\ note = "config" /\ Up /\ ~missed' => Told'
<1> USE BoundAssumption DEF Notes
<1>1. queue \in Seq(Notes) /\ Len(queue) \in Nat
  BY DEF StoreTypeOK
<1>2. \A x \in Notes : /\ Append(queue, x)[Len(queue) + 1] = x
                       /\ DOMAIN Append(queue, x) = 1 .. Len(queue) + 1
                       /\ \A i \in DOMAIN queue : Append(queue, x)[i] = queue[i]
  BY <1>1
<1>3. Told => Told'
  BY <1>1, <1>2 DEF Told, Notify, Queued
<1>4. ASSUME note = "config", Up, ~missed' PROVE Told'
  <2>1. watch /\ Len(queue) < QueueCap
    BY <1>4 DEF Notify
  <2>2. queue' = Append(queue, "config")
    BY <1>4, <2>1 DEF Notify, Queued
  <2> QED BY <1>1, <1>2, <2>2 DEF Told
<1> QED BY <1>3, <1>4 DEF Notify

LEMMA FollowStore ==
  ASSUME FileInv, FollowInv,
         \/ \E c \in Cmd : (\E e \in Edits : Load(c, e)) \/ WriteTemp(c) \/ Move(c) \/ Kill(c)
         \/ (\E text \in SUBSET file : EditRead(text)) \/ EditTruncate \/ EditWrite
  PROVE  FollowInv'
<1> USE DEF daemons
<1>1. UNCHANGED daemons
  BY DEF Load, WriteTemp, Move, Kill, EditRead, EditTruncate, EditWrite
<1>2. daemon \in {"loop", "load"} => comms' = NamesOf(cfg')
  BY <1>1 DEF FollowInv
<1>3. CASE UNCHANGED <<file, torn, queue, missed>>
  BY <1>1, <1>2, <1>3 DEF FollowInv, Told, Up
<1>4. CASE Notify("other") /\ UNCHANGED <<file, torn>>
  <2>1. (Told => Told') /\ missed' = missed
    BY <1>1, <1>4, NotifyTells DEF FileInv, Notes
  <2> QED BY <1>1, <1>2, <1>4, <2>1 DEF FollowInv, Up
<1>5. CASE Notify("config")
  <2>1. Up /\ ~missed' => Told'
    BY <1>1, <1>5, NotifyTells DEF FileInv, Notes
  <2> QED BY <1>1, <1>2, <2>1 DEF FollowInv, Up
<1> QED BY <1>3, <1>4, <1>5 DEF Load, WriteTemp, Move, Kill, EditRead, EditTruncate, EditWrite

LEMMA FollowDaemon ==
  ASSUME FileInv, FollowInv, Boot \/ Watch \/ FirstSync \/ ReadEvents \/ Reload \/ Sync \/ Die
  PROVE  FollowInv'
<1> USE DEF store, FollowInv, Up
<1>1. CASE Boot
  BY <1>1 DEF Boot
<1>2. CASE Watch
  BY <1>2 DEF Watch, Told
<1>3. CASE FirstSync
  BY <1>3 DEF FirstSync, Told
<1>4. CASE ReadEvents
  <2> DEFINE n     == Min({ReadMax, Len(queue)})
             batch == SubSeq(queue, 1, n)
             rest  == SubSeq(queue, n + 1, Len(queue))
  <2>1. /\ queue \in Seq(Notes) /\ queue # <<>> /\ Len(queue) <= QueueCap + 1
        /\ queue' = rest /\ daemon = "loop"
        /\ daemon' = IF Names(batch) THEN "load" ELSE "sync"
        /\ missed' = \/ missed
                     \/ /\ \E i \in DOMAIN batch : batch[i] = "config"
                        /\ \E i \in DOMAIN batch : batch[i] = "overflow"
                        /\ ~Names(batch)
                        /\ \A i \in DOMAIN rest : rest[i] # "config"
        /\ UNCHANGED <<file, torn, cfg, comms>>
    BY <1>4 DEF ReadEvents, FileInv, StoreTypeOK
  <2>2. /\ n \in 1 .. Len(queue)
        /\ batch \in Seq(Notes) /\ Len(batch) = n
        /\ \A i \in 1 .. n : batch[i] = queue[i]
        /\ rest \in Seq(Notes) /\ Len(rest) = Len(queue) - n
        /\ \A i \in 1 .. Len(queue) - n : rest[i] = queue[n + i]
    BY <2>1, BatchAndRest
  <2> HIDE DEF n, batch, rest
  <2>3. ASSUME Told, ~missed', ~Names(batch) PROVE Told'
    <3>1. PICK k \in 1 .. Len(queue) : queue[k] = "config"
      BY <2>1, <2>3 DEF Told
    <3>2. CASE k > n
      <4>1. k - n \in DOMAIN rest /\ rest[k - n] = "config"
        BY <2>1, <2>2, <3>1, <3>2
      <4> QED BY <2>1, <4>1 DEF Told
    <3>3. CASE k <= n
      <4>1. k \in DOMAIN batch /\ batch[k] = "config" /\ k \in Nat
        BY <2>1, <2>2, <3>1, <3>3
      <4>2. \E j \in 1 .. k - 1 : batch[j] = "overflow"
        BY <2>3, <4>1 DEF Names
      <4>3. \E j \in DOMAIN batch : batch[j] = "overflow"
        BY <2>2, <3>3, <4>1, <4>2
      <4> QED BY <2>1, <2>3, <4>1, <4>3 DEF Told
    <3> QED BY <2>1, <2>2, <3>1, <3>2, <3>3
  <2> QED BY <2>1, <2>3
<1>5. CASE Reload
  BY <1>5 DEF Reload, Told
<1>6. CASE Sync
  BY <1>6 DEF Sync, Told
<1>7. CASE Die
  BY <1>7 DEF Die
<1> QED BY <1>1, <1>2, <1>3, <1>4, <1>5, <1>6, <1>7

\* A daemon that has nothing to do works with the last version of config.json unless a
\* notification was lost, for any number of commands, any length of the queue
\* and any size of a read.
THEOREM DaemonFollows == Spec => []ConfigIsCurrent
<1>1. Init => FollowInv
  BY DEF Init, FollowInv, Up
<1>2. FileInv /\ FollowInv /\ [Next]_vars => FollowInv'
  <2> SUFFICES ASSUME FileInv, FollowInv, [Next]_vars PROVE FollowInv'
    OBVIOUS
  <2>1. CASE UNCHANGED vars
    BY <2>1 DEF vars, FollowInv, Told, Up
  <2> QED BY <2>1, FollowStore, FollowDaemon DEF Next
<1>3. FollowInv => ConfigIsCurrent
  BY DEF FollowInv, ConfigIsCurrent, Told, Up
<1> QED BY <1>1, <1>2, <1>3, FileInvHolds, PTL DEF Spec
===========================================================================
