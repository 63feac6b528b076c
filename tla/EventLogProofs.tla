--------------------------- MODULE EventLogProofs ---------------------------
(***************************************************************************)
(* Theorems about EventLog, for any number of CPUs and records, any size   *)
(* of the map and of the text.                                             *)
(***************************************************************************)
EXTENDS EventLog, FiniteSetTheorems, TLAPS

\* The positions of s that deduplicate_events keeps.
New(s) == {i \in DOMAIN s : s[i].rec.ts \notin seen}

\* u is s with the entries at `new' left, each once; h tells where it was.
Picks(u, s, new, h) ==
  /\ h \in [DOMAIN u -> new]
  /\ \A m, n \in DOMAIN u : h[m] = h[n] => m = n
  /\ \A i \in new : \E n \in DOMAIN u : h[n] = i
  /\ \A n \in DOMAIN u : u[n] = s[h[n]]

\* Places in a finite set of numbers: every rank is taken, and by one of them.
LEMMA Ranks ==
  ASSUME NEW S \in SUBSET Nat, IsFiniteSet(S)
  PROVE  LET rank(i) == Cardinality({j \in S : j <= i})
         IN  /\ \A i \in S : rank(i) \in 1 .. Cardinality(S)
             /\ \A i, k \in S : rank(i) = rank(k) => i = k
             /\ \A n \in 1 .. Cardinality(S) : \E i \in S : rank(i) = n
<1>. DEFINE below(i) == {j \in S : j <= i}
            rank(i)  == Cardinality(below(i))
            f        == [i \in S |-> rank(i)]
            N        == Cardinality(S)
<1>1. N \in Nat
  BY FS_CardinalityType
<1>2. ASSUME NEW i \in S
      PROVE  IsFiniteSet(below(i)) /\ rank(i) \in Nat /\ rank(i) <= N /\ i \in below(i)
  <2>1. below(i) \in SUBSET S /\ i \in below(i)
    OBVIOUS
  <2>. HIDE DEF below
  <2>2. IsFiniteSet(below(i)) /\ rank(i) <= N
    BY <2>1, FS_Subset
  <2>. QED  BY <2>1, <2>2, FS_CardinalityType
<1>3. ASSUME NEW i \in S PROVE rank(i) \in 1 .. N
  <2>1. below(i) # {} /\ IsFiniteSet(below(i)) /\ rank(i) \in Nat /\ rank(i) <= N
    BY <1>2
  <2>. HIDE DEF below
  <2>2. rank(i) # 0
    BY <2>1, FS_EmptySet
  <2>. QED  BY <1>1, <2>1, <2>2
<1>4. ASSUME NEW i \in S, NEW k \in S, i < k PROVE rank(i) # rank(k)
  <2>1. below(i) \in SUBSET below(k) /\ k \in below(k) /\ k \notin below(i)
    <3>1. i \in Nat /\ k \in Nat /\ \A j \in S : j \in Nat
      OBVIOUS
    <3>2. \A j \in S : j <= i => j <= k
      BY <1>4, <3>1
    <3>3. k <= k /\ ~(k <= i)
      BY <1>4, <3>1
    <3>. QED  BY <3>2, <3>3
  <2>2. IsFiniteSet(below(k))
    BY <1>2
  <2>. HIDE DEF below
  <2>. QED  BY <2>1, <2>2, FS_Subset
<1>5. ASSUME NEW i \in S, NEW k \in S, rank(i) = rank(k) PROVE i = k
  <2>1. i \in Nat /\ k \in Nat /\ ~(i < k) /\ ~(k < i)
    BY <1>4, <1>5
  <2>. QED  BY <2>1
<1>6. IsFiniteSet(1 .. N) /\ Cardinality(1 .. N) = N
  BY <1>1, FS_Interval
<1>. HIDE DEF rank
<1>7. f \in Injection(S, 1 .. N)
  BY <1>3, <1>5 DEF Injection, IsInjective
<1>. HIDE DEF f
<1>8. f \in Surjection(S, 1 .. N)
  BY <1>6, <1>7, FS_Injection
<1>9. \A n \in 1 .. N : \E i \in S : rank(i) = n
  <2>. USE DEF f
  <2>. QED  BY <1>8 DEF Surjection
<1>. USE DEF rank
<1>. QED  BY <1>3, <1>5, <1>9

LEMMA UnseenPicks ==
  ASSUME NEW s \in Seq(Line)
  PROVE  /\ Unseen(s) \in Seq(Line)
         /\ \E h : Picks(Unseen(s), s, New(s), h)
<1>. DEFINE S      == New(s)
            rank(i) == Cardinality({j \in S : j <= i})
            nth(n)  == CHOOSE i \in S : rank(i) = n
            N       == Cardinality(S)
            h       == [n \in 1 .. N |-> nth(n)]
<1>1. S \in SUBSET (1 .. Len(s)) /\ Len(s) \in Nat
  BY DEF New
<1>2. S \in SUBSET Nat /\ IsFiniteSet(S) /\ N \in Nat
  <2>1. IsFiniteSet(1 .. Len(s)) /\ 1 .. Len(s) \in SUBSET Nat
    BY <1>1, FS_Interval
  <2>. HIDE DEF S
  <2>. QED  BY <1>1, <2>1, FS_Subset, FS_CardinalityType
<1>3. Unseen(s) = [n \in 1 .. N |-> s[nth(n)]]
  BY DEF Unseen, New
<1>. HIDE DEF S
<1>4. /\ \A i \in S : rank(i) \in 1 .. N
      /\ \A i, k \in S : rank(i) = rank(k) => i = k
      /\ \A n \in 1 .. N : \E i \in S : rank(i) = n
  BY <1>2, Ranks
<1>. HIDE DEF rank, N
<1>5. \A n \in 1 .. N : nth(n) \in S /\ rank(nth(n)) = n
  BY <1>4
<1>6. \A i \in S : nth(rank(i)) = i
  BY <1>4, <1>5
<1>. HIDE DEF nth
<1>7. DOMAIN Unseen(s) = 1 .. N /\ \A n \in 1 .. N : Unseen(s)[n] = s[nth(n)]
  BY <1>3
<1>8. Picks(Unseen(s), s, S, h)
  BY <1>4, <1>5, <1>6, <1>7 DEF Picks
<1>9. \A n \in 1 .. N : s[nth(n)] \in Line
  <2>1. \A i \in 1 .. Len(s) : s[i] \in Line
    OBVIOUS
  <2>. QED  BY <1>1, <1>5, <2>1
<1>10. Unseen(s) \in Seq(Line)
  <2>1. [n \in 1 .. N |-> s[nth(n)]] \in [1 .. N -> Line]
    BY <1>9
  <2>. HIDE DEF h
  <2>. QED  BY <1>2, <1>3, <2>1
<1>. QED  BY <1>8, <1>10 DEF S
---------------------------------------------------------------------------
(* Types.  The loop writes a line only when there is one, and its head finds *)
(* nothing left of the last batch.                                           *)

Holding ==
  /\ poll.pc = "write" => poll.batch # <<>>
  /\ poll.pc \in {"top", "down", "crashed"} => poll.batch = <<>>

TypeInv == LogTypeOK /\ Holding

Why == {"evicted", "unparsed", "noise", "crash"}

LEMMA KeysOf ==
  ASSUME LogTypeOK
  PROVE  /\ Keys(events) = {t \in Time : events[t] # Absent}
         /\ \A t \in Keys(events) : t \in Time /\ events[t] \in Record
         /\ \A k : Has(events, k) <=> k \in Keys(events)
BY DEF LogTypeOK, Keys, Has, Lookup

\* The locals of the loop, their type with the batches as one set.
Pc == {"top", "next", "take", "parse", "write", "down", "crashed"}

Batches == Seq(Line)

LEMMA PollType ==
  /\ Poll = [pc : Pc, key : 0 .. MaxTs, used : 0 .. BufSize - 2, broken : BOOLEAN,
             batch : Batches, idle : 0 .. MaxExp - 1]
  /\ \A s \in Seq(Line) : s \in Batches
  /\ <<>> \in Batches
BY DEF Poll, Pc, Batches

LEMMA Zeros ==
  /\ 0 \in 0 .. MaxTs /\ 0 \in 0 .. BufSize - 2 /\ 1 \in 0 .. BufSize - 2
  /\ 0 \in 0 .. MaxExp - 1 /\ 1 \in Time
BY CountAssumption, TextAssumption DEF Time

\* json_append keeps the text and its NUL in the buffer.
LEMMA EntryType ==
  ASSUME LogTypeOK, NEW r \in Record
  PROVE  /\ WithEntry(r) \in Poll
         /\ WithEntry(r).pc = "next" /\ WithEntry(r).idle = poll.idle
         /\ \E b \in BOOLEAN :
              WithEntry(r).batch = Append(poll.batch, [rec |-> r, whole |-> b])
<1>. DEFINE head == HeadLen + (IF poll.batch = <<>> THEN 0 ELSE 1)
            h    == Fits(poll.used, head)
            p1   == IF h THEN poll.used + head ELSE poll.used
            d    == Fits(p1, r.len)
            p2   == IF d THEN p1 + r.len ELSE p1
            t    == Fits(p2, TailLen)
            p3   == IF t THEN p2 + TailLen ELSE p2
            b    == Append(poll.batch, [rec |-> r, whole |-> d])
            x    == poll.broken \/ ~h \/ ~t
<1>1. poll \in Poll /\ r.len \in Nat
  BY TextAssumption DEF LogTypeOK, Record
<1>2. head \in Nat /\ TailLen \in Nat /\ BufSize \in Nat /\ poll.used \in 0 .. BufSize - 2
  BY <1>1, TextAssumption DEF Poll
<1>. HIDE DEF head
<1>3. p1 \in 0 .. BufSize - 2
  BY <1>2 DEF Fits
<1>. HIDE DEF p1
<1>4. p2 \in 0 .. BufSize - 2
  BY <1>1, <1>2, <1>3 DEF Fits
<1>. HIDE DEF p2
<1>5. p3 \in 0 .. BufSize - 2
  BY <1>2, <1>4 DEF Fits
<1>6. d \in BOOLEAN /\ x \in BOOLEAN
  BY <1>1 DEF Fits, Poll
<1>7. b \in Seq(Line)
  BY <1>1, <1>6 DEF Line, Poll
<1>8. WithEntry(r) = [poll EXCEPT !.pc = "next", !.key = 0, !.used = p3,
                                  !.broken = x, !.batch = b]
  BY DEF WithEntry, head, p1, p2
<1>. HIDE DEF p3, x, h, t, d
<1>9. WithEntry(r) \in Poll
  <2>. HIDE DEF b
  <2>. QED  BY <1>1, <1>5, <1>6, <1>7, <1>8, Zeros, PollType DEF Pc
<1>. HIDE DEF b
<1>10. WithEntry(r).pc = "next" /\ WithEntry(r).idle = poll.idle /\ WithEntry(r).batch = b
  BY <1>1, <1>8 DEF Poll
<1>. QED  BY <1>6, <1>9, <1>10 DEF b

LEMMA ParsedType ==
  ASSUME LogTypeOK
  PROVE  /\ Parsed \in {<<>>, poll.batch} /\ Parsed \in Seq(Line)
         /\ poll.batch \in Seq(Line)
BY DEF LogTypeOK, Poll, Parsed

LEMMA IdsType ==
  ASSUME NEW s \in Seq(Line)
  PROVE  IdsOf(s) \subseteq Id /\ Times(s) \subseteq Time
<1>1. \A i \in DOMAIN s : s[i] \in Line
  OBVIOUS
<1>2. \A i \in DOMAIN s : s[i].rec.id \in Id /\ s[i].rec.ts \in Time
  BY <1>1 DEF Line, Record
<1>. QED  BY <1>2 DEF IdsOf, Times

LEMMA EmptySeq == <<>> \in Seq(Line) /\ DOMAIN <<>> = {} /\ Len(<<>>) = 0
OBVIOUS

LEMMA TypeStart == Init => TypeInv
<1>. SUFFICES ASSUME Init PROVE TypeInv
  OBVIOUS
<1>1. poll \in Poll
  BY CountAssumption, TextAssumption, EmptySeq DEF Init, Poll
<1>2. Keys(events) = {} /\ events \in [Time -> Record \cup {Absent}]
  BY DEF Init, Keys, Has, Lookup
<1>3. made \in Seq(Record) /\ Len(made) <= MaxRecords /\ log \in Seq(Line)
  BY CountAssumption DEF Init
<1>4. scratch \in [Cpu -> Record \cup {Absent}]
  BY DEF Init
<1>5. Holding
  BY DEF Init, Holding
<1>. QED  BY <1>1, <1>2, <1>3, <1>4, <1>5, Zeros DEF Init, TypeInv, LogTypeOK

LEMMA TypeStep == TypeInv /\ [Next]_vars => TypeInv'
<1>. SUFFICES ASSUME TypeInv, [Next]_vars PROVE TypeInv'
  OBVIOUS
<1>. USE DEF TypeInv
<1>0. /\ poll \in Poll /\ poll.batch \in Seq(Line) /\ poll.idle \in 0 .. MaxExp - 1
      /\ MaxExp \in Nat \ {0} /\ MaxTs \in Nat \ {0} /\ clock \in Time
  BY CountAssumption DEF LogTypeOK, Poll
<1>1. CASE Tick
  BY <1>0, <1>1 DEF Tick, LogTypeOK, Holding, Time, Keys, Has, Lookup
<1>2. CASE Stop
  BY <1>2 DEF Stop, LogTypeOK, Holding, Keys, Has, Lookup
<1>3. ASSUME NEW c \in Cpu, NEW len \in Lens, Stamp(c, len) PROVE TypeInv'
  <2>. DEFINE r == [id |-> Len(made) + 1, ts |-> clock, len |-> len]
  <2>1. made \in Seq(Record) /\ Len(made) \in Nat /\ Len(made) < MaxRecords
    BY <1>3 DEF LogTypeOK, Stamp
  <2>2. r \in Record
    BY <1>0, <2>1, CountAssumption DEF Record, Id
  <2>. HIDE DEF r
  <2>3. made' = Append(made, r) /\ scratch' = [scratch EXCEPT ![c] = r]
    BY <1>3 DEF Stamp, r
  <2>4. made' \in Seq(Record) /\ Len(made') <= MaxRecords
    BY <2>1, <2>2, <2>3, CountAssumption
  <2>. QED  BY <1>3, <2>2, <2>3, <2>4 DEF Stamp, LogTypeOK, Holding, Keys, Has, Lookup
<1>4. ASSUME NEW c \in Cpu, Insert(c) PROVE TypeInv'
  <2>. DEFINE r == scratch[c]
  <2>1. r \in Record /\ r.ts \in Time /\ scratch' \in [Cpu -> Record \cup {Absent}]
        /\ UNCHANGED <<clock, made, poll, seen, log, stopping>>
    BY <1>4 DEF Insert, LogTypeOK, Record
  <2>. HIDE DEF r
  <2>2. CASE events' = [events EXCEPT ![r.ts] = r] /\ UNCHANGED lost
    BY <2>1, <2>2 DEF LogTypeOK, Holding, Keys, Has, Lookup
  <2>3. ASSUME NEW k \in Keys(events), events' = [events EXCEPT ![k] = Absent, ![r.ts] = r],
               GiveUp({events[k].id}, "evicted")
        PROVE  TypeInv'
    <3>1. events[k] \in Record /\ events[k].id \in Id
      BY KeysOf DEF Record
    <3>2. lost' \subseteq Id \X Why
      BY <2>3, <3>1 DEF GiveUp, LogTypeOK, Why
    <3>. QED  BY <2>1, <2>3, <3>2 DEF LogTypeOK, Holding, Keys, Has, Lookup, Why
  <2>. QED  BY <1>4, <2>2, <2>3 DEF Insert, Put, r
<1>5. CASE BeginPoll
  <2>1. poll' \in Poll
    BY <1>0, <1>5, Zeros, PollType DEF Pc, BeginPoll
  <2>2. Holding'
    BY <1>0, <1>5 DEF BeginPoll, Poll, Holding
  <2>. QED  BY <1>5, <2>1, <2>2 DEF BeginPoll, LogTypeOK, Keys, Has, Lookup
<1>6. CASE NextKey
  <2>1. \A k \in Keys(events) : k \in 0 .. MaxTs
    BY KeysOf DEF Time
  <2>2. poll' \in Poll /\ Holding'
    BY <1>0, <1>6, <2>1 DEF NextKey, Poll, Holding
  <2>. QED  BY <1>6, <2>2 DEF NextKey, LogTypeOK, Keys, Has, Lookup
<1>7. CASE Take
  <2>1. /\ UNCHANGED <<clock, made, scratch, seen, log, stopping, lost>>
        /\ events' \in [Time -> Record \cup {Absent}] /\ poll' \in Poll /\ Holding'
        /\ \A t \in Time : events'[t] \in {events[t], Absent}
    <3>1. CASE Has(events, poll.key)
      <4>1. poll.key \in Time /\ events[poll.key] \in Record
        BY <3>1, KeysOf
      <4>2. poll' = WithEntry(events[poll.key]) /\ events' = Del(events, poll.key)
        BY <1>7, <3>1 DEF Take
      <4>3. poll' \in Poll /\ poll'.pc = "next"
        BY <4>1, <4>2, EntryType
      <4>. QED  BY <1>7, <4>1, <4>2, <4>3 DEF Take, Del, LogTypeOK, Holding
    <3>2. CASE ~Has(events, poll.key)
      <4>1. poll' = [poll EXCEPT !.pc = "next", !.key = 0] /\ UNCHANGED events
        BY <1>7, <3>2 DEF Take
      <4>2. poll' \in Poll /\ poll'.pc = "next"
        BY <1>0, <4>1, Zeros, PollType DEF Pc, Poll
      <4>. QED  BY <1>7, <4>1, <4>2 DEF Take, LogTypeOK, Holding
    <3>. QED  BY <3>1, <3>2
  <2>. QED  BY <2>1 DEF LogTypeOK, Keys, Has, Lookup
<1>8. CASE Parse
  <2>. DEFINE u == Unseen(Parsed)
  <2>1. u \in Seq(Line) /\ Times(u) \subseteq Time /\ IdsOf(poll.batch) \subseteq Id
    BY ParsedType, UnseenPicks, IdsType
  <2>. HIDE DEF u
  <2>2. poll' \in Poll /\ Holding'
    <3>1. CASE NothingNew
      <4>1. CASE poll.idle + 1 = MaxExp
        <5>1. poll' = [poll EXCEPT !.pc = "crashed", !.batch = <<>>]
          BY <3>1, <4>1 DEF NothingNew
        <5>. QED  BY <1>0, <5>1, EmptySeq, PollType DEF Pc, Poll, Holding
      <4>2. CASE poll.idle + 1 # MaxExp
        <5>1. poll' = [poll EXCEPT !.pc = "top", !.batch = <<>>, !.idle = @ + 1]
          BY <3>1, <4>2 DEF NothingNew
        <5>2. poll.idle + 1 \in 0 .. MaxExp - 1
          BY <1>0, <4>2
        <5>. QED  BY <1>0, <5>1, <5>2, EmptySeq, PollType DEF Pc, Poll, Holding
      <4>. QED  BY <4>1, <4>2
    <3>2. CASE u # <<>> /\ poll' = [poll EXCEPT !.pc = "write", !.batch = u, !.idle = 0]
      <4>1. poll' \in Poll
        BY <1>0, <2>1, <3>2, Zeros, PollType DEF Pc
      <4>. QED  BY <1>0, <3>2, <4>1 DEF Poll, Holding
    <3>. QED  BY <1>8, <3>1, <3>2 DEF Parse, u
  <2>3. lost' \subseteq Id \X Why
    BY <1>8, <2>1 DEF Parse, GiveUp, LogTypeOK, Why
  <2>4. seen' \subseteq Time
    BY <1>8, <2>1 DEF Parse, LogTypeOK, u
  <2>. QED  BY <1>8, <2>2, <2>3, <2>4 DEF Parse, LogTypeOK, Keys, Has, Lookup, Why
<1>9. CASE Write
  <2>. DEFINE e == Head(poll.batch)
  <2>1. poll.batch # <<>> /\ e \in Line /\ Tail(poll.batch) \in Seq(Line)
    BY <1>0, <1>9 DEF Write, Holding
  <2>2. e.rec.id \in Id /\ IdsOf(poll.batch) \subseteq Id
    BY <1>0, <2>1, IdsType DEF Line, Record
  <2>. HIDE DEF e
  <2>3. poll' \in Poll /\ Holding'
    <3>1. CASE poll' = Rest(Tail(poll.batch))
      BY <1>0, <2>1, <3>1 DEF Rest, Poll, Holding
    <3>2. CASE poll' = [poll EXCEPT !.pc = "crashed", !.batch = <<>>]
      BY <1>0, <3>2, EmptySeq DEF Poll, Holding
    <3>. QED  BY <1>9, <3>1, <3>2 DEF Write
  <2>4. log' \in Seq(Line)
    <3>1. log \in Seq(Line)
      BY DEF LogTypeOK
    <3>2. log' \in {log, Append(log, e)}
      BY <1>9 DEF Write, e
    <3>. QED  BY <2>1, <3>1, <3>2
  <2>5. lost' \subseteq Id \X Why
    BY <1>9, <2>2 DEF Write, GiveUp, LogTypeOK, Why, e
  <2>. QED  BY <1>9, <2>3, <2>4, <2>5 DEF Write, LogTypeOK, Keys, Has, Lookup, Why
<1>10. CASE UNCHANGED vars
  BY <1>10 DEF vars, LogTypeOK, Holding, Keys, Has, Lookup
<1>. QED  BY <1>1, <1>2, <1>3, <1>4, <1>5, <1>6, <1>7, <1>8, <1>9, <1>10 DEF Next, DaemonStep

\* The text and its NUL stay in g_json_buf whatever the records' lengths, a record in the map
\* is under its own time, and a batch only ever holds whole entries of the loop.
THEOREM LogTypeCorrect == Spec => []LogTypeOK
<1>1. TypeInv => LogTypeOK
  BY DEF TypeInv
<1>. QED  BY <1>1, TypeStart, TypeStep, PTL DEF Spec
---------------------------------------------------------------------------
(* Where records are.  A record is known by its id: what is anywhere is what *)
(* was made under that id.                                                   *)

Genuine(r) == r.id \in DOMAIN made /\ made[r.id] = r

Busy      == {c \in Cpu : scratch[c] # Absent}
Scratched == {scratch[c].id : c \in Busy}
Mapped    == {events[t].id : t \in Keys(events)}
Batched   == IdsOf(poll.batch)
Logged    == IdsOf(log)
Gone      == {p[1] : p \in lost}

AllGenuine ==
  /\ \A i \in DOMAIN made : made[i].id = i
  /\ \A c \in Busy : Genuine(scratch[c])
  /\ \A t \in Keys(events) : Genuine(events[t])
  /\ \A n \in DOMAIN poll.batch : Genuine(poll.batch[n].rec)
  /\ \A n \in DOMAIN log : Genuine(log[n].rec)
  /\ Gone \subseteq DOMAIN made

\* In one place a record is once; the map has it under its time only.
Distinct(s) == \A i, j \in DOMAIN s : s[i].rec.id = s[j].rec.id => i = j

EachOnce ==
  /\ \A c, d \in Busy : scratch[c].id = scratch[d].id => c = d
  /\ Distinct(poll.batch) /\ Distinct(log)

Apart ==
  /\ Scratched \cap (Mapped \cup Batched \cup Logged \cup Gone) = {}
  /\ Mapped \cap (Batched \cup Logged \cup Gone) = {}
  /\ Batched \cap (Logged \cup Gone) = {}
  /\ Logged \cap Gone = {}

\* A time that has been seen is that of a record that has left the batch, or is
\* about to: an entry that is dropped at the next parse is another one.
Past == Logged \cup Gone \cup (IF poll.pc = "write" THEN Batched ELSE {})

SeenIsPast == \A t \in seen : \E j \in Past : made[j].ts = t

Somewhere == Scratched \cup Mapped \cup Batched \cup Logged \cup Gone
HasTwin(i) == \E j \in DOMAIN made \ {i} : made[j].ts = made[i].ts

AllKept == \A i \in DOMAIN made : i \in Somewhere \/ HasTwin(i)

LogInv == TypeInv /\ AllGenuine /\ EachOnce /\ Apart /\ SeenIsPast /\ AllKept

LEMMA AppendEntry ==
  ASSUME NEW s \in Seq(Line), NEW e \in Line
  PROVE  /\ IdsOf(Append(s, e)) = IdsOf(s) \cup {e.rec.id}
         /\ \A n \in DOMAIN Append(s, e) :
              \/ n \in DOMAIN s /\ Append(s, e)[n] = s[n]
              \/ n = Len(s) + 1 /\ Append(s, e)[n] = e
         /\ Distinct(s) /\ e.rec.id \notin IdsOf(s) => Distinct(Append(s, e))
<1>. DEFINE a == Append(s, e)
<1>1. /\ DOMAIN a = DOMAIN s \cup {Len(s) + 1} /\ Len(s) + 1 \notin DOMAIN s
      /\ a[Len(s) + 1] = e /\ \A n \in DOMAIN s : a[n] = s[n]
  OBVIOUS
<1>. HIDE DEF a
<1>2. \A n \in DOMAIN a : \/ n \in DOMAIN s /\ a[n] = s[n]
                          \/ n = Len(s) + 1 /\ a[n] = e
  BY <1>1
<1>3. IdsOf(a) = IdsOf(s) \cup {e.rec.id}
  <2>1. ASSUME NEW i \in IdsOf(a) PROVE i \in IdsOf(s) \cup {e.rec.id}
    BY <1>2 DEF IdsOf
  <2>2. ASSUME NEW i \in IdsOf(s) \cup {e.rec.id} PROVE i \in IdsOf(a)
    BY <1>1 DEF IdsOf
  <2>. QED  BY <2>1, <2>2
<1>4. ASSUME Distinct(s), e.rec.id \notin IdsOf(s) PROVE Distinct(a)
  <2>1. \A n \in DOMAIN s : s[n].rec.id # e.rec.id
    BY <1>4 DEF IdsOf
  <2>. QED  BY <1>2, <1>4, <2>1 DEF Distinct
<1>. QED  BY <1>2, <1>3, <1>4 DEF a

LEMMA TailEntries ==
  ASSUME NEW s \in Seq(Line), s # <<>>
  PROVE  /\ Head(s) \in Line /\ Tail(s) \in Seq(Line)
         /\ 1 \in DOMAIN s /\ Head(s) = s[1] /\ Head(s).rec.id \in IdsOf(s)
         /\ \A n \in DOMAIN Tail(s) : n + 1 \in DOMAIN s /\ Tail(s)[n] = s[n + 1]
         /\ Distinct(s) => /\ IdsOf(Tail(s)) = IdsOf(s) \ {Head(s).rec.id}
                           /\ Distinct(Tail(s))
<1>. DEFINE t == Tail(s)
<1>1. /\ Head(s) \in Line /\ t \in Seq(Line) /\ 1 \in DOMAIN s /\ Head(s) = s[1]
      /\ DOMAIN s \subseteq Nat \ {0} /\ DOMAIN t \subseteq Nat
      /\ \A n \in DOMAIN t : n + 1 \in DOMAIN s /\ t[n] = s[n + 1] /\ n + 1 # 1
      /\ \A n \in DOMAIN s \ {1} : n - 1 \in DOMAIN t /\ t[n - 1] = s[n]
  OBVIOUS
<1>. HIDE DEF t
<1>2. Head(s).rec.id \in IdsOf(s)
  BY <1>1 DEF IdsOf
<1>3. ASSUME Distinct(s) PROVE IdsOf(t) = IdsOf(s) \ {Head(s).rec.id} /\ Distinct(t)
  <2>1. ASSUME NEW i \in IdsOf(t) PROVE i \in IdsOf(s) \ {Head(s).rec.id}
    <3>1. PICK n \in DOMAIN t : i = t[n].rec.id
      BY DEF IdsOf
    <3>2. n + 1 \in DOMAIN s /\ s[n + 1].rec.id = i /\ n + 1 # 1
      BY <1>1, <3>1
    <3>. QED  BY <1>1, <1>3, <3>2 DEF IdsOf, Distinct
  <2>2. ASSUME NEW i \in IdsOf(s) \ {Head(s).rec.id} PROVE i \in IdsOf(t)
    <3>1. PICK n \in DOMAIN s : i = s[n].rec.id
      BY DEF IdsOf
    <3>2. n \in DOMAIN s \ {1}
      BY <1>1, <3>1
    <3>3. n - 1 \in DOMAIN t /\ t[n - 1].rec.id = i
      BY <1>1, <3>1, <3>2
    <3>. QED  BY <3>3 DEF IdsOf
  <2>3. ASSUME NEW i \in DOMAIN t, NEW j \in DOMAIN t, t[i].rec.id = t[j].rec.id
        PROVE  i = j
    <3>1. /\ i + 1 \in DOMAIN s /\ j + 1 \in DOMAIN s
          /\ s[i + 1].rec.id = s[j + 1].rec.id
      BY <1>1, <2>3
    <3>2. i + 1 = j + 1
      BY <1>3, <3>1 DEF Distinct
    <3>. QED  BY <1>1, <3>2
  <2>. QED  BY <2>1, <2>2, <2>3 DEF Distinct
<1>. QED  BY <1>1, <1>2, <1>3 DEF t

\* What deduplicate_events leaves of a batch.
LEMMA UnseenEntries ==
  ASSUME NEW s \in Seq(Line), NEW u, u = Unseen(s)
  PROVE  /\ u \in Seq(Line) /\ IdsOf(u) \subseteq IdsOf(s)
         /\ \A n \in DOMAIN u : \E i \in DOMAIN s : u[n] = s[i]
         /\ \A i \in DOMAIN s : s[i].rec.ts \in seen \/ s[i].rec.id \in IdsOf(u)
         /\ Distinct(s) => Distinct(u)
<1>1. PICK h : Picks(u, s, New(s), h)
  BY UnseenPicks
<1>2. /\ \A n \in DOMAIN u : h[n] \in DOMAIN s /\ u[n] = s[h[n]]
      /\ \A m, n \in DOMAIN u : h[m] = h[n] => m = n
      /\ \A i \in New(s) : \E n \in DOMAIN u : h[n] = i
  BY <1>1 DEF Picks, New
<1>3. IdsOf(u) \subseteq IdsOf(s) /\ \A n \in DOMAIN u : \E i \in DOMAIN s : u[n] = s[i]
  BY <1>2 DEF IdsOf
<1>4. ASSUME NEW i \in DOMAIN s, s[i].rec.ts \notin seen PROVE s[i].rec.id \in IdsOf(u)
  <2>1. PICK n \in DOMAIN u : h[n] = i
    BY <1>2, <1>4 DEF New
  <2>. QED  BY <1>2, <2>1 DEF IdsOf
<1>5. Distinct(s) => Distinct(u)
  BY <1>2 DEF Distinct
<1>. QED  BY <1>3, <1>4, <1>5, UnseenPicks
---------------------------------------------------------------------------
(* What each step moves. *)

LEMMA Unmoved ==
  /\ UNCHANGED scratch => UNCHANGED <<Busy, Scratched>>
  /\ UNCHANGED events => Keys(events)' = Keys(events) /\ UNCHANGED Mapped
  /\ poll'.batch = poll.batch => UNCHANGED Batched
  /\ UNCHANGED log => UNCHANGED Logged
  /\ UNCHANGED lost => UNCHANGED Gone
BY DEF Busy, Scratched, Mapped, Batched, Logged, Gone, IdsOf, Keys, Has, Lookup

LEMMA MoreGone ==
  ASSUME NEW ids, NEW why, GiveUp(ids, why)
  PROVE  Gone' = Gone \cup ids
<1>1. lost' = lost \cup (ids \X {why})
  BY DEF GiveUp
<1>2. ASSUME NEW i \in Gone' PROVE i \in Gone \cup ids
  <2>1. PICK p \in lost' : i = p[1]
    BY DEF Gone
  <2>. QED  BY <1>1, <2>1 DEF Gone
<1>3. ASSUME NEW i \in Gone PROVE i \in Gone'
  BY <1>1 DEF Gone
<1>4. ASSUME NEW i \in ids PROVE i \in Gone'
  <2>1. <<i, why>> \in lost' /\ <<i, why>>[1] = i
    BY <1>1
  <2>. QED  BY <2>1 DEF Gone
<1>. QED  BY <1>2, <1>3, <1>4

LEMMA MapOnce ==
  ASSUME LogInv, NEW t \in Keys(events), NEW u \in Keys(events), events[t].id = events[u].id
  PROVE  t = u
<1>1. events[t] = events[u]
  BY DEF LogInv, AllGenuine, Genuine
<1>. QED  BY <1>1 DEF LogInv, TypeInv, LogTypeOK

\* A new record is in the handler's scratch and nowhere else.
LEMMA StampMoves ==
  ASSUME LogInv, NEW c \in Cpu, NEW len \in Lens, Stamp(c, len)
  PROVE  \E r \in Record :
           /\ r.id = Len(made) + 1 /\ r.id \notin DOMAIN made
           /\ made' = Append(made, r) /\ DOMAIN made' = DOMAIN made \cup {r.id}
           /\ made'[r.id] = r /\ \A i \in DOMAIN made : made'[i] = made[i]
           /\ c \notin Busy /\ Busy' = Busy \cup {c}
           /\ scratch' = [scratch EXCEPT ![c] = r] /\ scratch'[c] = r
           /\ \A d \in Busy : scratch'[d] = scratch[d]
           /\ Scratched' = Scratched \cup {r.id}
           /\ UNCHANGED <<events, poll, log, lost, seen>>
<1>. DEFINE r == [id |-> Len(made) + 1, ts |-> clock, len |-> len]
<1>1. /\ made \in Seq(Record) /\ Len(made) \in Nat /\ Len(made) < MaxRecords
      /\ clock \in Time /\ scratch \in [Cpu -> Record \cup {Absent}]
  BY DEF LogInv, TypeInv, LogTypeOK, Stamp
<1>2. r \in Record /\ r # Absent /\ r.id = Len(made) + 1
  BY <1>1, CountAssumption, NoRecordAssumption DEF Record, Id
<1>. HIDE DEF r
<1>3. /\ made' = Append(made, r) /\ scratch' = [scratch EXCEPT ![c] = r]
      /\ scratch[c] = Absent /\ UNCHANGED <<events, poll, log, lost, seen>>
  BY DEF Stamp, r
<1>4. /\ DOMAIN made' = DOMAIN made \cup {r.id} /\ r.id \notin DOMAIN made
      /\ made'[r.id] = r /\ \A i \in DOMAIN made : made'[i] = made[i]
  BY <1>1, <1>2, <1>3
<1>5. /\ c \notin Busy /\ Busy' = Busy \cup {c} /\ scratch'[c] = r
      /\ \A d \in Busy : scratch'[d] = scratch[d]
  BY <1>1, <1>2, <1>3 DEF Busy
<1>6. Scratched' = Scratched \cup {r.id}
  BY <1>5 DEF Scratched
<1>. QED  BY <1>2, <1>3, <1>4, <1>5, <1>6

\* O is what the new record replaces, if anything: what was there under its time,
\* which is not noted, or the victim.
LEMMA InsertMoves ==
  ASSUME LogInv, NEW c \in Cpu, Insert(c)
  PROVE  \E O \in SUBSET Mapped :
           /\ c \in Busy /\ Busy' = Busy \ {c}
           /\ \A d \in Busy' : scratch'[d] = scratch[d]
           /\ scratch[c].id \in Scratched
           /\ Scratched' = Scratched \ {scratch[c].id}
           /\ Mapped' = (Mapped \ O) \cup {scratch[c].id}
           /\ \A t \in Keys(events)' : \/ t \in Keys(events) /\ events'[t] = events[t]
                                       \/ events'[t] = scratch[c]
           /\ \/ /\ UNCHANGED lost
                 /\ \A m \in O : m \in DOMAIN made /\ made[m].ts = scratch[c].ts
              \/ Gone' = Gone \cup O
           /\ UNCHANGED <<made, poll, log, seen>>
<1>. DEFINE r == scratch[c]
            Old(k) == IF Has(events, k) THEN {events[k].id} ELSE {}
<1>1. /\ scratch \in [Cpu -> Record \cup {Absent}]
      /\ events \in [Time -> Record \cup {Absent}]
      /\ \A t \in Keys(events) : events[t].ts = t
  BY DEF LogInv, TypeInv, LogTypeOK
<1>2. r # Absent /\ r \in Record /\ r.ts \in Time
  BY <1>1 DEF Insert, Record
<1>3. scratch' = [scratch EXCEPT ![c] = Absent] /\ UNCHANGED <<made, poll, log, seen>>
  BY DEF Insert
<1>4. /\ c \in Busy /\ Busy' = Busy \ {c} /\ r.id \in Scratched
      /\ \A d \in Busy' : scratch'[d] = scratch[d]
  BY <1>1, <1>2, <1>3 DEF Busy, Scratched
<1>5. Scratched' = Scratched \ {r.id}
  <2>1. \A d \in Busy : scratch[d].id = r.id => d = c
    BY <1>4 DEF LogInv, EachOnce
  <2>. QED  BY <1>4, <2>1 DEF Scratched
<1>. HIDE DEF r
<1>6. ASSUME NEW k \in Time, r.ts = k \/ ~Has(events, r.ts),
             events' = [events EXCEPT ![k] = Absent, ![r.ts] = r]
      PROVE  /\ Old(k) \subseteq Mapped
             /\ Mapped' = (Mapped \ Old(k)) \cup {r.id}
             /\ \A t \in Keys(events)' : \/ t \in Keys(events) /\ events'[t] = events[t]
                                         \/ events'[t] = r
  <2>1. /\ Keys(events)' = (Keys(events) \ {k}) \cup {r.ts}
        /\ events'[r.ts] = r /\ r.ts \notin Keys(events) \ {k}
        /\ \A t \in Keys(events) \ {k} : events'[t] = events[t]
    BY <1>1, <1>2, <1>6 DEF Keys, Has, Lookup
  <2>2. /\ Old(k) = {events[t].id : t \in Keys(events) \cap {k}}
    BY <1>1, KeysOf DEF LogInv, TypeInv
  <2>3. Mapped' = {events[t].id : t \in Keys(events) \ {k}} \cup {r.id}
    BY <2>1 DEF Mapped
  <2>4. {events[t].id : t \in Keys(events) \ {k}} = Mapped \ Old(k)
    BY <2>2, MapOnce DEF Mapped
  <2>. QED  BY <2>1, <2>2, <2>3, <2>4 DEF Mapped
<1>7. CASE Accepts(events, MapCap, r.ts)
  <2>1. events' = [events EXCEPT ![r.ts] = r] /\ UNCHANGED lost
    BY <1>7 DEF Insert, Put, r
  <2>2. events' = [events EXCEPT ![r.ts] = Absent, ![r.ts] = r]
    BY <1>1, <2>1
  <2>3. \A m \in Old(r.ts) : m \in DOMAIN made /\ made[m].ts = r.ts
    BY <1>1, KeysOf DEF LogInv, TypeInv, AllGenuine, Genuine
  <2>4. /\ Old(r.ts) \subseteq Mapped
        /\ Mapped' = (Mapped \ Old(r.ts)) \cup {r.id}
        /\ \A t \in Keys(events)' : \/ t \in Keys(events) /\ events'[t] = events[t]
                                    \/ events'[t] = r
    BY <1>2, <1>6, <2>1, <2>2
  <2>. HIDE DEF Old
  <2>. QED  BY <1>3, <1>4, <1>5, <2>1, <2>3, <2>4 DEF r
<1>8. CASE ~Accepts(events, MapCap, r.ts)
  <2>1. PICK k \in Keys(events) : /\ events' = [events EXCEPT ![k] = Absent, ![r.ts] = r]
                                  /\ GiveUp({events[k].id}, "evicted")
    BY <1>8 DEF Insert, r
  <2>2. k \in Time /\ Old(k) = {events[k].id} /\ ~Has(events, r.ts)
    BY <1>8, KeysOf DEF LogInv, TypeInv, Accepts
  <2>3. Gone' = Gone \cup Old(k)
    BY <2>1, <2>2, MoreGone
  <2>4. /\ Old(k) \subseteq Mapped
        /\ Mapped' = (Mapped \ Old(k)) \cup {r.id}
        /\ \A t \in Keys(events)' : \/ t \in Keys(events) /\ events'[t] = events[t]
                                    \/ events'[t] = r
    BY <1>2, <1>6, <2>1, <2>2
  <2>. HIDE DEF Old
  <2>. QED  BY <1>3, <1>4, <1>5, <2>1, <2>3, <2>4 DEF r
<1>. QED  BY <1>7, <1>8

\* Reading an entry takes it out of the map in the same step.
LEMMA TakeMoves ==
  ASSUME LogInv, Take
  PROVE  /\ UNCHANGED <<made, scratch, log, lost, seen>>
         /\ poll.pc = "take" /\ poll'.pc = "next"
         /\ \/ UNCHANGED events /\ poll'.batch = poll.batch
            \/ \E k \in Keys(events), e \in Line :
                 /\ e.rec = events[k] /\ e.rec.id \in Mapped
                 /\ poll'.batch = Append(poll.batch, e)
                 /\ Keys(events)' = Keys(events) \ {k}
                 /\ \A t \in Keys(events)' : events'[t] = events[t]
                 /\ Mapped' = Mapped \ {e.rec.id}
<1>1. /\ poll \in Poll /\ events \in [Time -> Record \cup {Absent}]
      /\ UNCHANGED <<made, scratch, log, lost, seen>> /\ poll.pc = "take"
  BY DEF LogInv, TypeInv, LogTypeOK, Take
<1>2. CASE Has(events, poll.key)
  <2>. DEFINE k == poll.key
  <2>1. k \in Keys(events) /\ events[k] \in Record
    BY <1>2, KeysOf DEF LogInv, TypeInv
  <2>2. poll' = WithEntry(events[k]) /\ events' = Del(events, k)
    BY <1>2 DEF Take
  <2>. HIDE DEF k
  <2>3. /\ poll'.pc = "next"
        /\ \E b \in BOOLEAN : poll'.batch = Append(poll.batch, [rec |-> events[k], whole |-> b])
    BY <2>1, <2>2, EntryType DEF LogInv, TypeInv
  <2>4. PICK b \in BOOLEAN : poll'.batch = Append(poll.batch, [rec |-> events[k], whole |-> b])
    BY <2>3
  <2>. DEFINE e == [rec |-> events[k], whole |-> b]
  <2>5. e \in Line /\ e.rec = events[k] /\ e.rec.id \in Mapped
    BY <2>1 DEF Line, Mapped
  <2>6. Keys(events)' = Keys(events) \ {k} /\ \A t \in Keys(events)' : events'[t] = events[t]
    BY <1>1, <2>1, <2>2 DEF Del, Keys, Has, Lookup
  <2>7. Mapped' = Mapped \ {events[k].id}
    <3>1. Mapped' = {events[t].id : t \in Keys(events) \ {k}}
      BY <2>6 DEF Mapped
    <3>. QED  BY <2>1, <3>1, MapOnce DEF Mapped
  <2>. QED  BY <1>1, <2>1, <2>3, <2>4, <2>5, <2>6, <2>7
<1>3. CASE ~Has(events, poll.key)
  <2>1. poll' = [poll EXCEPT !.pc = "next", !.key = 0] /\ UNCHANGED events
    BY <1>3 DEF Take
  <2>. QED  BY <1>1, <2>1 DEF Poll
<1>. QED  BY <1>2, <1>3

\* The entries that are left go on; the others have been seen, or the whole text
\* is given up.
LEMMA ParseMoves ==
  ASSUME LogInv, Parse
  PROVE  /\ UNCHANGED <<made, scratch, events, log>>
         /\ poll.pc = "parse" /\ Batched' \subseteq Batched
         /\ \A n \in DOMAIN poll'.batch : \E i \in DOMAIN poll.batch : poll'.batch[n] = poll.batch[i]
         /\ Distinct(poll'.batch)
         /\ \/ /\ UNCHANGED lost
               /\ \A m \in Batched \ Batched' : m \in DOMAIN made /\ made[m].ts \in seen
            \/ Batched' = {} /\ Gone' = Gone \cup Batched
         /\ \/ UNCHANGED seen
            \/ seen' = seen \cup Times(poll'.batch) /\ poll'.pc = "write"
         /\ poll'.pc \in {"write", "top", "crashed"}
<1>. DEFINE u == Unseen(Parsed)
<1>1. /\ poll \in Poll /\ poll.batch \in Seq(Line) /\ Parsed \in Seq(Line)
      /\ Parsed \in {<<>>, poll.batch}
      /\ UNCHANGED <<made, scratch, events, log>> /\ poll.pc = "parse"
  BY ParsedType DEF LogInv, TypeInv, LogTypeOK, Parse
<1>2. /\ IdsOf(u) \subseteq IdsOf(Parsed)
      /\ \A n \in DOMAIN u : \E i \in DOMAIN Parsed : u[n] = Parsed[i]
      /\ \A i \in DOMAIN Parsed : Parsed[i].rec.ts \in seen \/ Parsed[i].rec.id \in IdsOf(u)
      /\ Distinct(Parsed) => Distinct(u)
  BY <1>1, UnseenEntries
<1>3. seen' = seen \cup Times(u)
  BY DEF Parse
<1>4. (u = <<>> /\ NothingNew) \/ (u # <<>> /\ poll' = [poll EXCEPT !.pc = "write", !.batch = u, !.idle = 0])
  BY DEF Parse
<1>5. IF Parsed = poll.batch THEN UNCHANGED lost ELSE GiveUp(IdsOf(poll.batch), "unparsed")
  BY DEF Parse
<1>. HIDE DEF u
<1>6. Distinct(u)
  BY <1>1, <1>2 DEF LogInv, EachOnce, Distinct
<1>7. \/ u = <<>> /\ poll'.batch = u /\ poll'.pc \in {"top", "crashed"}
      \/ poll'.batch = u /\ poll'.pc = "write"
  BY <1>1, <1>4 DEF NothingNew, Poll
<1>8. poll'.batch = u /\ Batched' = IdsOf(u)
  BY <1>7 DEF Batched, IdsOf
<1>9. UNCHANGED seen \/ (seen' = seen \cup Times(poll'.batch) /\ poll'.pc = "write")
  <2>1. Times(<<>>) = {}
    BY DEF Times
  <2>. QED  BY <1>3, <1>7, <2>1
<1>10. CASE Parsed = poll.batch
  <2>1. ASSUME NEW m \in Batched \ Batched' PROVE m \in DOMAIN made /\ made[m].ts \in seen
    <3>1. PICK i \in DOMAIN poll.batch : m = poll.batch[i].rec.id
      BY DEF Batched, IdsOf
    <3>2. poll.batch[i].rec.ts \in seen
      BY <1>2, <1>8, <1>10, <3>1
    <3>. QED  BY <3>1, <3>2 DEF LogInv, AllGenuine, Genuine
  <2>2. UNCHANGED lost
    BY <1>5, <1>10
  <2>. QED  BY <1>1, <1>2, <1>6, <1>7, <1>8, <1>9, <1>10, <2>1, <2>2 DEF Batched
<1>11. CASE Parsed # poll.batch
  <2>1. Parsed = <<>> /\ DOMAIN Parsed = {}
    BY <1>1, <1>11
  <2>2. IdsOf(u) = {} /\ DOMAIN u = {}
    BY <1>2, <2>1 DEF IdsOf
  <2>3. Gone' = Gone \cup Batched
    BY <1>5, <1>11, MoreGone DEF Batched
  <2>. QED  BY <1>1, <1>6, <1>7, <1>8, <1>9, <2>2, <2>3
<1>. QED  BY <1>10, <1>11

\* One event is written or is noise, or the batch is lost.
LEMMA WriteMoves ==
  ASSUME LogInv, Write
  PROVE  /\ UNCHANGED <<made, scratch, events, seen>>
         /\ poll.pc = "write" /\ Distinct(poll'.batch)
         /\ \A n \in DOMAIN poll'.batch : \E i \in DOMAIN poll.batch : poll'.batch[n] = poll.batch[i]
         /\ poll'.batch # <<>> => poll'.pc = "write"
         /\ \/ \E e \in Line :
                 /\ \E i \in DOMAIN poll.batch : e = poll.batch[i]
                 /\ e.rec.id \in Batched /\ Batched' = Batched \ {e.rec.id}
                 /\ poll'.pc \in {"write", "top"}
                 /\ \/ log' = Append(log, e) /\ UNCHANGED lost
                    \/ UNCHANGED log /\ Gone' = Gone \cup {e.rec.id}
            \/ /\ UNCHANGED log /\ Batched' = {} /\ Gone' = Gone \cup Batched
               /\ poll'.pc = "crashed"
<1>. DEFINE b == poll.batch
            e == Head(b)
<1>1. poll \in Poll /\ b \in Seq(Line) /\ b # <<>> /\ Distinct(b)
      /\ UNCHANGED <<made, scratch, events, seen>> /\ poll.pc = "write"
  BY DEF LogInv, TypeInv, LogTypeOK, Holding, EachOnce, Poll, Write
<1>. HIDE DEF b
<1>2. /\ e \in Line /\ Tail(b) \in Seq(Line) /\ \E i \in DOMAIN b : e = b[i]
      /\ e.rec.id \in IdsOf(b)
      /\ \A n \in DOMAIN Tail(b) : \E i \in DOMAIN b : Tail(b)[n] = b[i]
      /\ IdsOf(Tail(b)) = IdsOf(b) \ {e.rec.id} /\ Distinct(Tail(b))
  BY <1>1, TailEntries
<1>3. \/ log' = Append(log, e) /\ poll' = Rest(Tail(b)) /\ UNCHANGED lost
      \/ UNCHANGED log /\ poll' = Rest(Tail(b)) /\ GiveUp({e.rec.id}, "noise")
      \/ /\ UNCHANGED log /\ GiveUp(IdsOf(b), "crash")
         /\ poll' = [poll EXCEPT !.pc = "crashed", !.batch = <<>>]
  BY DEF Write, b
<1>. HIDE DEF e
<1>4. CASE poll' = Rest(Tail(b))
  <2>1. /\ poll'.batch = Tail(b) /\ poll'.pc \in {"write", "top"}
        /\ Tail(b) # <<>> => poll'.pc = "write"
    BY <1>1, <1>4 DEF Rest, Poll
  <2>2. Batched' = Batched \ {e.rec.id}
    BY <1>2, <2>1 DEF Batched, IdsOf, b
  <2>3. \/ log' = Append(log, e) /\ UNCHANGED lost
        \/ UNCHANGED log /\ Gone' = Gone \cup {e.rec.id}
        \/ poll' = [poll EXCEPT !.pc = "crashed", !.batch = <<>>]
    BY <1>3, MoreGone
  <2>4. poll' # [poll EXCEPT !.pc = "crashed", !.batch = <<>>]
    BY <1>1, <2>1 DEF Poll
  <2>. QED  BY <1>1, <1>2, <2>1, <2>2, <2>3, <2>4 DEF Batched, b
<1>5. CASE /\ UNCHANGED log /\ GiveUp(IdsOf(b), "crash")
           /\ poll' = [poll EXCEPT !.pc = "crashed", !.batch = <<>>]
  <2>1. poll'.batch = <<>> /\ poll'.pc = "crashed"
    BY <1>1, <1>5 DEF Poll
  <2>2. Batched' = {} /\ DOMAIN <<>> = {} /\ Distinct(<<>>)
    BY <2>1 DEF Batched, IdsOf, Distinct
  <2>3. Gone' = Gone \cup Batched
    BY <1>5, MoreGone DEF Batched, b
  <2>. QED  BY <1>1, <1>5, <2>1, <2>2, <2>3
<1>. QED  BY <1>3, <1>4, <1>5
---------------------------------------------------------------------------
\* What is anywhere was made, and is what was made.
LEMMA Known ==
  ASSUME LogInv
  PROVE  /\ Somewhere \subseteq DOMAIN made /\ Past \subseteq Somewhere
         /\ \A n \in DOMAIN poll.batch : /\ poll.batch[n].rec.id \in Batched
                                         /\ Genuine(poll.batch[n].rec)
<1>1. Scratched \subseteq DOMAIN made
  BY DEF LogInv, AllGenuine, Scratched, Genuine
<1>2. Mapped \subseteq DOMAIN made
  BY DEF LogInv, AllGenuine, Mapped, Genuine
<1>3. Batched \subseteq DOMAIN made /\ Logged \subseteq DOMAIN made
  BY DEF LogInv, AllGenuine, Batched, Logged, IdsOf, Genuine
<1>4. Gone \subseteq DOMAIN made
  BY DEF LogInv, AllGenuine
<1>5. Past \subseteq Somewhere
  BY DEF Past, Somewhere
<1>6. \A n \in DOMAIN poll.batch : /\ poll.batch[n].rec.id \in Batched
                                   /\ Genuine(poll.batch[n].rec)
  BY DEF LogInv, AllGenuine, Batched, IdsOf
<1>. QED  BY <1>1, <1>2, <1>3, <1>4, <1>5, <1>6 DEF Somewhere

\* As long as no record is made, the two parts that speak of times hold when
\* nothing leaves the past, and what leaves all places has a twin.
LEMMA TimesKept ==
  ASSUME LogInv, UNCHANGED made, Past \subseteq Past',
         \A t \in seen' \ seen : \E j \in Past' : made[j].ts = t,
         \A i \in Somewhere \ Somewhere' : HasTwin(i)
  PROVE  SeenIsPast' /\ AllKept'
<1>1. SeenIsPast'
  BY DEF LogInv, SeenIsPast
<1>2. AllKept'
  BY DEF LogInv, AllKept, HasTwin
<1>. QED  BY <1>1, <1>2

LEMMA QuietStep ==
  ASSUME LogInv, UNCHANGED <<made, scratch, events, seen, log, lost>>,
         poll'.batch = poll.batch, poll'.pc = "write" <=> poll.pc = "write"
  PROVE  (AllGenuine /\ EachOnce /\ Apart /\ SeenIsPast /\ AllKept)'
<1>1. UNCHANGED <<Busy, Scratched, Mapped, Batched, Logged, Gone>> /\ Keys(events)' = Keys(events)
  BY Unmoved
<1>2. UNCHANGED <<Past, Somewhere>>
  BY <1>1 DEF Past, Somewhere
<1>3. SeenIsPast' /\ AllKept'
  BY <1>2, TimesKept
<1>4. AllGenuine'
  BY <1>1 DEF LogInv, AllGenuine, Genuine
<1>5. EachOnce' /\ Apart'
  BY <1>1 DEF LogInv, EachOnce, Distinct, Apart
<1>. QED  BY <1>3, <1>4, <1>5

LEMMA StampStep ==
  ASSUME LogInv, NEW c \in Cpu, NEW len \in Lens, Stamp(c, len)
  PROVE  (AllGenuine /\ EachOnce /\ Apart /\ SeenIsPast /\ AllKept)'
<1>1. PICK r \in Record :
           /\ r.id = Len(made) + 1 /\ r.id \notin DOMAIN made
           /\ made' = Append(made, r) /\ DOMAIN made' = DOMAIN made \cup {r.id}
           /\ made'[r.id] = r /\ \A i \in DOMAIN made : made'[i] = made[i]
           /\ c \notin Busy /\ Busy' = Busy \cup {c}
           /\ scratch' = [scratch EXCEPT ![c] = r] /\ scratch'[c] = r
           /\ \A d \in Busy : scratch'[d] = scratch[d]
           /\ Scratched' = Scratched \cup {r.id}
           /\ UNCHANGED <<events, poll, log, lost, seen>>
  BY StampMoves
<1>2. UNCHANGED <<Mapped, Batched, Logged, Gone, Past>> /\ Keys(events)' = Keys(events)
  BY <1>1, Unmoved DEF Past
<1>3. /\ Somewhere \subseteq DOMAIN made /\ Past \subseteq DOMAIN made
      /\ r.id \notin Somewhere
  BY <1>1, Known
<1>5. AllGenuine'
  <2>1. \A i \in DOMAIN made' : made'[i].id = i
    BY <1>1 DEF LogInv, AllGenuine
  <2>2. (\A d \in Busy : Genuine(scratch[d]))'
    BY <1>1 DEF LogInv, AllGenuine, Genuine
  <2>3. /\ (\A t \in Keys(events) : Genuine(events[t]))'
        /\ (\A n \in DOMAIN poll.batch : Genuine(poll.batch[n].rec))'
        /\ (\A n \in DOMAIN log : Genuine(log[n].rec))'
    BY <1>1, <1>2 DEF LogInv, AllGenuine, Genuine
  <2>4. Gone' \subseteq DOMAIN made'
    BY <1>1, <1>2 DEF LogInv, AllGenuine
  <2>. QED  BY <2>1, <2>2, <2>3, <2>4 DEF AllGenuine
<1>6. EachOnce'
  <2>1. \A d \in Busy : scratch[d].id # r.id
    BY <1>3 DEF Somewhere, Scratched
  <2>2. \A d, f \in Busy' : scratch'[d].id = scratch'[f].id => d = f
    BY <1>1, <2>1 DEF LogInv, EachOnce
  <2>. QED  BY <1>1, <2>2 DEF LogInv, EachOnce, Distinct
<1>7. Apart'
  BY <1>1, <1>2, <1>3 DEF LogInv, Apart, Somewhere
<1>8. SeenIsPast'
  BY <1>1, <1>2, <1>3 DEF LogInv, SeenIsPast
<1>9. AllKept'
  BY <1>1, <1>2 DEF LogInv, AllKept, Somewhere, HasTwin
<1>. QED  BY <1>5, <1>6, <1>7, <1>8, <1>9

LEMMA InsertStep ==
  ASSUME LogInv, NEW c \in Cpu, Insert(c)
  PROVE  (AllGenuine /\ EachOnce /\ Apart /\ SeenIsPast /\ AllKept)'
<1>. DEFINE r == scratch[c]
<1>1. PICK O \in SUBSET Mapped :
           /\ c \in Busy /\ Busy' = Busy \ {c}
           /\ \A d \in Busy' : scratch'[d] = scratch[d]
           /\ r.id \in Scratched
           /\ Scratched' = Scratched \ {r.id}
           /\ Mapped' = (Mapped \ O) \cup {r.id}
           /\ \A t \in Keys(events)' : \/ t \in Keys(events) /\ events'[t] = events[t]
                                       \/ events'[t] = r
           /\ \/ /\ UNCHANGED lost
                 /\ \A m \in O : m \in DOMAIN made /\ made[m].ts = r.ts
              \/ Gone' = Gone \cup O
           /\ UNCHANGED <<made, poll, log, seen>>
  BY InsertMoves
<1>2. Genuine(r)
  BY <1>1 DEF LogInv, AllGenuine
<1>. HIDE DEF r
<1>3. UNCHANGED <<Batched, Logged>> /\ Gone' \in {Gone, Gone \cup O}
  BY <1>1, Unmoved
<1>4. /\ Mapped \subseteq DOMAIN made /\ Gone \subseteq DOMAIN made
      /\ r.id \notin Mapped
  BY <1>1, Known DEF Somewhere, LogInv, Apart
<1>5. AllGenuine'
  <2>1. Gone' \subseteq DOMAIN made'
    BY <1>1, <1>3, <1>4
  <2>2. /\ (\A d \in Busy : Genuine(scratch[d]))'
        /\ (\A t \in Keys(events) : Genuine(events[t]))'
    BY <1>1, <1>2 DEF LogInv, AllGenuine, Genuine
  <2>. QED  BY <1>1, <2>1, <2>2 DEF LogInv, AllGenuine, Genuine
<1>6. EachOnce'
  BY <1>1 DEF LogInv, EachOnce, Distinct
<1>7. Apart'
  BY <1>1, <1>3 DEF LogInv, Apart
<1>8. Past \subseteq Past'
  BY <1>1, <1>3 DEF Past
<1>9. ASSUME NEW i \in Somewhere \ Somewhere' PROVE HasTwin(i)
  <2>1. i \in O /\ i \notin Gone'
    BY <1>1, <1>3, <1>9 DEF Somewhere
  <2>2. made[i].ts = r.ts /\ i # r.id
    BY <1>1, <1>4, <2>1
  <2>. QED  BY <1>2, <2>2 DEF HasTwin, Genuine
<1>10. SeenIsPast' /\ AllKept'
  BY <1>1, <1>8, <1>9, TimesKept
<1>. QED  BY <1>5, <1>6, <1>7, <1>10

LEMMA TakeStep ==
  ASSUME LogInv, Take
  PROVE  (AllGenuine /\ EachOnce /\ Apart /\ SeenIsPast /\ AllKept)'
<1>1. /\ UNCHANGED <<made, scratch, log, lost, seen>>
      /\ poll.pc = "take" /\ poll'.pc = "next"
  BY TakeMoves
<1>2. CASE UNCHANGED events /\ poll'.batch = poll.batch
  BY <1>1, <1>2, QuietStep
<1>3. ASSUME NEW k \in Keys(events), NEW e \in Line,
             e.rec = events[k], e.rec.id \in Mapped, poll'.batch = Append(poll.batch, e),
             Keys(events)' = Keys(events) \ {k},
             \A t \in Keys(events)' : events'[t] = events[t],
             Mapped' = Mapped \ {e.rec.id}
      PROVE  (AllGenuine /\ EachOnce /\ Apart /\ SeenIsPast /\ AllKept)'
  <2>1. UNCHANGED <<Busy, Scratched, Logged, Gone>>
    BY <1>1, Unmoved
  <2>2. poll.batch \in Seq(Line)
    BY DEF LogInv, TypeInv, LogTypeOK, Poll
  <2>3. e.rec.id \notin Batched
    BY <1>3 DEF LogInv, Apart
  <2>4. Batched' = Batched \cup {e.rec.id} /\ Distinct(poll'.batch)
    BY <1>3, <2>2, <2>3, AppendEntry DEF Batched, IdsOf, LogInv, EachOnce
  <2>5. AllGenuine'
    <3>1. Genuine(e.rec) /\ \A n \in DOMAIN poll.batch : Genuine(poll.batch[n].rec)
      BY <1>3 DEF LogInv, AllGenuine
    <3>2. \A n \in DOMAIN poll'.batch : Genuine(poll'.batch[n].rec)
      BY <1>3, <2>2, <3>1, AppendEntry
    <3>. QED  BY <1>1, <1>3, <2>1, <3>2 DEF LogInv, AllGenuine, Genuine
  <2>6. EachOnce'
    BY <1>1, <2>1, <2>4 DEF LogInv, EachOnce, Distinct
  <2>7. Apart'
    BY <1>3, <2>1, <2>4 DEF LogInv, Apart
  <2>8. SeenIsPast' /\ AllKept'
    <3>1. Past \subseteq Past' /\ Somewhere \subseteq Somewhere'
      BY <1>1, <1>3, <2>1, <2>4 DEF Past, Somewhere
    <3>. QED  BY <1>1, <3>1, TimesKept
  <2>. QED  BY <2>5, <2>6, <2>7, <2>8
<1>. QED  BY <1>2, <1>3, TakeMoves

LEMMA ParseStep ==
  ASSUME LogInv, Parse
  PROVE  (AllGenuine /\ EachOnce /\ Apart /\ SeenIsPast /\ AllKept)'
<1>1. /\ UNCHANGED <<made, scratch, events, log>>
      /\ poll.pc = "parse" /\ Batched' \subseteq Batched
      /\ \A n \in DOMAIN poll'.batch : \E i \in DOMAIN poll.batch : poll'.batch[n] = poll.batch[i]
      /\ Distinct(poll'.batch)
  BY ParseMoves
<1>2. \/ /\ UNCHANGED lost
         /\ \A m \in Batched \ Batched' : m \in DOMAIN made /\ made[m].ts \in seen
      \/ Batched' = {} /\ Gone' = Gone \cup Batched
  BY ParseMoves
<1>3. \/ UNCHANGED seen
      \/ seen' = seen \cup Times(poll'.batch) /\ poll'.pc = "write"
  BY ParseMoves
<1>4. UNCHANGED <<Busy, Scratched, Mapped, Logged>> /\ Keys(events)' = Keys(events)
  BY <1>1, Unmoved
<1>5. Gone' \in {Gone, Gone \cup Batched}
  BY <1>2, Unmoved
<1>6. \A n \in DOMAIN poll'.batch : Genuine(poll'.batch[n].rec)
  BY <1>1, Known
<1>7. AllGenuine'
  <2>1. Gone' \subseteq DOMAIN made'
    BY <1>1, <1>5, Known DEF Somewhere
  <2>. QED  BY <1>1, <1>4, <1>6, <2>1 DEF LogInv, AllGenuine, Genuine
<1>8. EachOnce'
  BY <1>1, <1>4 DEF LogInv, EachOnce, Distinct
<1>9. Apart'
  BY <1>1, <1>2, <1>4, Unmoved DEF LogInv, Apart
<1>10. Past \subseteq Past'
  BY <1>1, <1>4, <1>5 DEF Past
<1>11. ASSUME NEW t \in seen' \ seen PROVE \E j \in Past' : made[j].ts = t
  <2>1. t \in Times(poll'.batch) /\ poll'.pc = "write"
    BY <1>3, <1>11
  <2>2. PICK n \in DOMAIN poll'.batch : t = poll'.batch[n].rec.ts
    BY <2>1 DEF Times
  <2>3. poll'.batch[n].rec.id \in Batched' /\ Genuine(poll'.batch[n].rec)
    BY <1>6 DEF Batched, IdsOf
  <2>. QED  BY <2>1, <2>2, <2>3 DEF Past, Genuine
<1>12. ASSUME NEW i \in Somewhere \ Somewhere' PROVE HasTwin(i)
  <2>1. i \in Batched \ Batched' /\ i \notin Gone'
    BY <1>4, <1>5, <1>12 DEF Somewhere
  <2>2. made[i].ts \in seen
    BY <1>2, <2>1
  <2>3. PICK j \in Past : made[j].ts = made[i].ts
    BY <2>2 DEF LogInv, SeenIsPast
  <2>4. j \in Logged \cup Gone /\ j \in DOMAIN made
    BY <1>1, Known DEF Past
  <2>. QED  BY <2>1, <2>3, <2>4 DEF HasTwin, LogInv, Apart
<1>13. SeenIsPast' /\ AllKept'
  BY <1>1, <1>10, <1>11, <1>12, TimesKept
<1>. QED  BY <1>7, <1>8, <1>9, <1>13

LEMMA WriteStep ==
  ASSUME LogInv, Write
  PROVE  (AllGenuine /\ EachOnce /\ Apart /\ SeenIsPast /\ AllKept)'
<1>1. /\ UNCHANGED <<made, scratch, events, seen>>
      /\ poll.pc = "write" /\ Distinct(poll'.batch)
      /\ \A n \in DOMAIN poll'.batch : \E i \in DOMAIN poll.batch : poll'.batch[n] = poll.batch[i]
      /\ poll'.batch # <<>> => poll'.pc = "write"
  BY WriteMoves
<1>2. UNCHANGED <<Busy, Scratched, Mapped>> /\ Keys(events)' = Keys(events)
  BY <1>1, Unmoved
<1>3. \A n \in DOMAIN poll'.batch : Genuine(poll'.batch[n].rec)
  BY <1>1, Known
<1>4. poll'.pc # "write" => Batched' = {}
  <2>1. poll'.batch = <<>> => Batched' = {}
    BY DEF Batched, IdsOf
  <2>. QED  BY <1>1, <2>1
<1>5. ASSUME NEW e \in Line, \E i \in DOMAIN poll.batch : e = poll.batch[i],
             e.rec.id \in Batched, Batched' = Batched \ {e.rec.id},
             log' = Append(log, e), UNCHANGED lost
      PROVE  (AllGenuine /\ EachOnce /\ Apart /\ SeenIsPast /\ AllKept)'
  <2>1. log \in Seq(Line) /\ e.rec.id \notin Logged /\ Genuine(e.rec)
    BY <1>5, Known DEF LogInv, TypeInv, LogTypeOK, Apart
  <2>2. Logged' = Logged \cup {e.rec.id} /\ Distinct(log') /\ UNCHANGED Gone
    BY <1>5, <2>1, AppendEntry, Unmoved DEF Logged, IdsOf, LogInv, EachOnce
  <2>3. \A n \in DOMAIN log' : Genuine(log'[n].rec)
    <3>1. \A n \in DOMAIN log : Genuine(log[n].rec)
      BY DEF LogInv, AllGenuine
    <3>. QED  BY <1>5, <2>1, <3>1, AppendEntry
  <2>4. AllGenuine'
    BY <1>1, <1>2, <1>3, <2>2, <2>3 DEF LogInv, AllGenuine, Genuine
  <2>5. EachOnce'
    BY <1>1, <1>2, <2>2 DEF LogInv, EachOnce, Distinct
  <2>6. Apart'
    BY <1>2, <1>5, <2>2 DEF LogInv, Apart
  <2>7. Past \subseteq Past' /\ Somewhere \subseteq Somewhere'
    BY <1>1, <1>2, <1>4, <1>5, <2>2 DEF Past, Somewhere
  <2>. QED  BY <1>1, <2>4, <2>5, <2>6, <2>7, TimesKept
<1>6. ASSUME NEW D \in SUBSET Batched, Batched' = Batched \ D, UNCHANGED log, Gone' = Gone \cup D
      PROVE  (AllGenuine /\ EachOnce /\ Apart /\ SeenIsPast /\ AllKept)'
  <2>1. UNCHANGED Logged
    BY <1>6, Unmoved
  <2>2. AllGenuine'
    <3>1. Gone' \subseteq DOMAIN made'
      BY <1>1, <1>6, Known DEF Somewhere
    <3>. QED  BY <1>1, <1>2, <1>3, <1>6, <3>1 DEF LogInv, AllGenuine, Genuine
  <2>3. EachOnce'
    BY <1>1, <1>2, <1>6 DEF LogInv, EachOnce, Distinct
  <2>4. Apart'
    BY <1>2, <1>6, <2>1 DEF LogInv, Apart
  <2>5. Past \subseteq Past' /\ Somewhere \subseteq Somewhere'
    BY <1>1, <1>2, <1>4, <1>6, <2>1 DEF Past, Somewhere
  <2>. QED  BY <1>1, <2>2, <2>3, <2>4, <2>5, TimesKept
<1>7. CASE UNCHANGED log /\ Batched' = {} /\ Gone' = Gone \cup Batched
  BY <1>6, <1>7
<1>. QED  BY <1>5, <1>6, <1>7, WriteMoves
---------------------------------------------------------------------------
LEMMA LogStart == Init => LogInv
<1>. SUFFICES ASSUME Init PROVE LogInv
  OBVIOUS
<1>1. /\ made = <<>> /\ log = <<>> /\ poll.batch = <<>> /\ lost = {} /\ seen = {}
      /\ scratch = [c \in Cpu |-> Absent] /\ events = [t \in Time |-> Absent]
  BY DEF Init
<1>2. DOMAIN <<>> = {}
  OBVIOUS
<1>3. Busy = {} /\ Keys(events) = {}
  BY <1>1 DEF Busy, Keys, Has, Lookup
<1>4. Scratched = {} /\ Mapped = {} /\ Batched = {} /\ Logged = {} /\ Gone = {}
  BY <1>1, <1>2, <1>3 DEF Scratched, Mapped, Batched, Logged, Gone, IdsOf
<1>5. AllGenuine
  BY <1>1, <1>2, <1>3, <1>4 DEF AllGenuine
<1>6. EachOnce /\ Apart /\ SeenIsPast /\ AllKept
  BY <1>1, <1>2, <1>3, <1>4 DEF EachOnce, Distinct, Apart, SeenIsPast, AllKept
<1>. QED  BY <1>5, <1>6, TypeStart DEF LogInv

LEMMA LogStep == LogInv /\ [Next]_vars => LogInv'
<1>. SUFFICES ASSUME LogInv, [Next]_vars PROVE (AllGenuine /\ EachOnce /\ Apart /\ SeenIsPast /\ AllKept)'
  BY TypeStep DEF LogInv
<1>1. CASE Tick
  BY <1>1, QuietStep DEF Tick
<1>2. CASE Stop
  BY <1>2, QuietStep DEF Stop
<1>3. ASSUME NEW c \in Cpu, NEW len \in Lens, Stamp(c, len)
      PROVE  (AllGenuine /\ EachOnce /\ Apart /\ SeenIsPast /\ AllKept)'
  BY <1>3, StampStep
<1>4. ASSUME NEW c \in Cpu, Insert(c)
      PROVE  (AllGenuine /\ EachOnce /\ Apart /\ SeenIsPast /\ AllKept)'
  BY <1>4, InsertStep
<1>5. CASE BeginPoll
  <2>1. poll'.batch = poll.batch /\ poll.pc = "top" /\ poll'.pc \in {"down", "next"}
    BY <1>5 DEF BeginPoll, LogInv, TypeInv, LogTypeOK, Poll
  <2>. QED  BY <1>5, <2>1, QuietStep DEF BeginPoll
<1>6. CASE NextKey
  <2>1. poll'.batch = poll.batch /\ poll.pc = "next" /\ poll'.pc \in {"take", "parse"}
    BY <1>6 DEF NextKey, LogInv, TypeInv, LogTypeOK, Poll
  <2>. QED  BY <1>6, <2>1, QuietStep DEF NextKey
<1>7. CASE Take
  BY <1>7, TakeStep
<1>8. CASE Parse
  BY <1>8, ParseStep
<1>9. CASE Write
  BY <1>9, WriteStep
<1>10. CASE UNCHANGED vars
  BY <1>10, QuietStep DEF vars
<1>. QED  BY <1>1, <1>2, <1>3, <1>4, <1>5, <1>6, <1>7, <1>8, <1>9, <1>10 DEF Next, DaemonStep

LEMMA LogInvAlways == Spec => []LogInv
BY LogStart, LogStep, PTL DEF Spec

\* The places of EventLog are the sets above.
LEMMA Located ==
  ASSUME LogInv, NEW i
  PROVE  /\ In(i, "scratch") <=> i \in Scratched
         /\ In(i, "map") <=> i \in Mapped
         /\ In(i, "batch") <=> i \in Batched
         /\ In(i, "log") <=> i \in Logged
         /\ In(i, "lost") <=> i \in Gone
         /\ Pending(i) <=> i \in Scratched \cup Mapped \cup Batched
<1>1. In(i, "scratch") <=> i \in Scratched
  BY DEF In, Scratched, Busy
<1>2. In(i, "map") <=> i \in Mapped
  BY DEF In, Mapped
<1>3. In(i, "batch") <=> i \in Batched
  BY DEF In, Batched
<1>4. In(i, "log") <=> i \in Logged
  BY DEF In, Logged
<1>5. In(i, "lost") <=> i \in Gone
  <2>1. In(i, "lost") <=> \E why \in Why : <<i, why>> \in lost
    BY DEF In, Why
  <2>2. ASSUME NEW why, <<i, why>> \in lost PROVE i \in Gone
    <3>1. <<i, why>>[1] = i
      OBVIOUS
    <3>. QED  BY <2>2, <3>1 DEF Gone
  <2>3. ASSUME i \in Gone PROVE \E why \in Why : <<i, why>> \in lost
    <3>1. PICK p \in lost : i = p[1]
      BY <2>3 DEF Gone
    <3>2. p \in Id \X Why
      BY DEF LogInv, TypeInv, LogTypeOK, Why
    <3>3. p = <<i, p[2]>> /\ p[2] \in Why
      BY <3>1, <3>2
    <3>. QED  BY <3>3
  <2>. QED  BY <2>1, <2>2, <2>3
<1>6. Pending(i) <=> i \in Scratched \cup Mapped \cup Batched
  BY <1>1, <1>2, <1>3 DEF Pending
<1>. QED  BY <1>1, <1>2, <1>3, <1>4, <1>5, <1>6

\* No record is logged twice, and none that is logged is also given up or still under way,
\* with any number of handlers, evictions and polls at once.
THEOREM OnePlaceAlways == Spec => []OnePlace
<1>1. ASSUME LogInv PROVE OnePlace
  <2>1. ASSUME NEW i \in Id, NEW p \in Places, NEW q \in Places, In(i, p), In(i, q)
        PROVE  p = q
    BY <1>1, <2>1, Located DEF Places, LogInv, Apart
  <2>2. ASSUME NEW s, Distinct(s) PROVE NoRepeats(s)
    BY <2>2 DEF Distinct, NoRepeats
  <2>3. Distinct(poll.batch) /\ Distinct(log)
    BY <1>1 DEF LogInv, EachOnce
  <2>. QED  BY <2>1, <2>2, <2>3 DEF OnePlace
<1>. QED  BY <1>1, LogInvAlways, PTL

\* A record that is not in the log has been given up in one of the four ways, is under way, or
\* has the time of another one: eviction, the text that is too long, noise and the crash are the
\* only leaks but for equal timestamps.
THEOREM NothingVanishesAlways == Spec => []NothingVanishes
<1>1. ASSUME LogInv PROVE NothingVanishes
  <2>1. SUFFICES ASSUME NEW i \in DOMAIN made
                 PROVE  (\E p \in Places : In(i, p)) \/ HasTwin(i)
    BY DEF NothingVanishes, HasTwin
  <2>2. i \in Somewhere \/ HasTwin(i)
    BY <1>1 DEF LogInv, AllKept
  <2>. QED  BY <1>1, <2>2, Located DEF Somewhere, Places
<1>. QED  BY <1>1, LogInvAlways, PTL
---------------------------------------------------------------------------
(* EventLog implements LossyChannel. *)

Sent     == [i \in DOMAIN made |-> made[i].ts]
Flight   == {i \in DOMAIN made : Pending(i)}
Received == [n \in DOMAIN log |-> log[n].rec.id]

\* What is under way is what is in a handler, in the map or in the batch.
LEMMA FlightIs ==
  ASSUME LogInv
  PROVE  Flight = Scratched \cup Mapped \cup Batched
BY Known, Located DEF Flight, Somewhere

LEMMA ChannelStart == Init => Channel!Init
<1>. SUFFICES ASSUME Init PROVE Channel!Init
  OBVIOUS
<1>1. made = <<>> /\ log = <<>> /\ lost = {} /\ poll.pc = "top"
  BY DEF Init
<1>2. Sent = <<>> /\ Received = <<>>
  BY <1>1 DEF Sent, Received
<1>3. Flight = {}
  BY <1>1 DEF Flight
<1>. QED  BY <1>1, <1>2, <1>3 DEF Channel!Init, Sent, Received, Flight, Up

LEMMA UpEnds ==
  ASSUME Up
  PROVE  Up' \in {Up, FALSE}
<1>1. Up = TRUE /\ Up' \in BOOLEAN
  BY DEF Up
<1>. QED  BY <1>1

\* A step of the channel in the terms of this module.
LEMMA ChannelSends ==
  ASSUME NEW t \in Time, Up, Len(Sent) < MaxRecords, Sent' = Append(Sent, t),
         Flight' = Flight \cup {Len(Sent) + 1}, UNCHANGED <<Received, Gone, Up>>
  PROVE  Channel!Next
<1>1. Channel!Send(t)
  BY DEF Channel!Send, Sent, Flight, Received, Gone
<1>. QED  BY <1>1 DEF Channel!Next

LEMMA ChannelDelivers ==
  ASSUME NEW m \in Flight, Up, Flight' = Flight \ {m}, Received' = Append(Received, m),
         UNCHANGED <<Sent, Gone, Up>>
  PROVE  Channel!Next
<1>1. Channel!Deliver(m)
  BY DEF Channel!Deliver, Sent, Flight, Received, Gone
<1>. QED  BY <1>1 DEF Channel!Next, Flight

LEMMA ChannelLoses ==
  ASSUME NEW L \in SUBSET Flight, Flight' = Flight \ L,
         Gone \subseteq Gone', Gone' \subseteq Gone \cup L,
         \A m \in L \ Gone' : m \in DOMAIN made /\ HasTwin(m),
         UNCHANGED <<Sent, Received>>, Up' \in {Up, FALSE}
  PROVE  Channel!Next
<1>1. ASSUME NEW m \in L \ Gone' PROVE Channel!Twin(m)
  <2>1. PICK j \in DOMAIN made \ {m} : made[j].ts = made[m].ts
    BY DEF HasTwin
  <2>2. j \in DOMAIN Sent \ {m} /\ Sent[j] = Sent[m]
    BY <2>1 DEF Sent
  <2>. QED  BY <2>2 DEF Channel!Twin, Sent
<1>2. Channel!Lose(L)
  BY <1>1 DEF Channel!Lose, Sent, Flight, Received, Gone
<1>. QED  BY <1>2 DEF Channel!Next, Flight

LEMMA ChannelStutters ==
  ASSUME UNCHANGED <<Sent, Flight, Received, Gone, Up>>
  PROVE  UNCHANGED Channel!vars
BY DEF Channel!vars, Sent, Flight, Received, Gone

\* A step that stamps a record sends one; a line delivers one; all others lose some or
\* are not seen.
LEMMA ChannelStep == LogInv /\ LogInv' /\ [Next]_vars => [Channel!Next]_(Channel!vars)
<1>. SUFFICES ASSUME LogInv, LogInv', [Next]_vars PROVE [Channel!Next]_(Channel!vars)
  OBVIOUS
<1>1. /\ Flight = Scratched \cup Mapped \cup Batched
      /\ Flight' = Scratched' \cup Mapped' \cup Batched'
  <2>1. (LogInv => Flight = Scratched \cup Mapped \cup Batched)'
    BY FlightIs, PTL
  <2>. QED  BY <2>1, FlightIs
<1>2. ASSUME UNCHANGED <<made, scratch, events, log, lost, Up>>, poll'.batch = poll.batch
      PROVE  UNCHANGED Channel!vars
  <2>1. UNCHANGED <<Sent, Received, Flight, Gone>>
    BY <1>1, <1>2, Unmoved DEF Sent, Received
  <2>. QED  BY <1>2, <2>1, ChannelStutters
<1>3. CASE Tick \/ Stop \/ UNCHANGED vars
  BY <1>2, <1>3 DEF Tick, Stop, Up, vars
<1>4. ASSUME NEW c \in Cpu, NEW len \in Lens, Stamp(c, len) PROVE Channel!Next
  <2>1. PICK r \in Record :
           /\ r.id = Len(made) + 1 /\ made' = Append(made, r)
           /\ Scratched' = Scratched \cup {r.id}
           /\ UNCHANGED <<events, poll, log, lost>>
    BY <1>4, StampMoves
  <2>2. made \in Seq(Record) /\ Len(made) < MaxRecords /\ Up
    BY <1>4 DEF Stamp, LogInv, TypeInv, LogTypeOK
  <2>3. Sent \in Seq(Time) /\ Len(Sent) = Len(made)
    <3>1. \A i \in 1 .. Len(made) : made[i].ts \in Time
      <4>1. \A i \in 1 .. Len(made) : made[i] \in Record
        BY <2>2
      <4>. QED  BY <4>1 DEF Record
    <3>. QED  BY <2>2, <3>1 DEF Sent
  <2>4. Sent' = Append(Sent, r.ts) /\ r.ts \in Time
    <3>1. r.ts \in Time
      BY DEF Record
    <3>. QED  BY <2>1, <2>2, <2>3, <3>1 DEF Sent
  <2>5. UNCHANGED <<Mapped, Batched, Gone, Received, Up>>
    BY <2>1, Unmoved DEF Received, Up
  <2>6. Flight' = Flight \cup {Len(Sent) + 1}
    BY <1>1, <2>1, <2>3, <2>5
  <2>. QED  BY <2>2, <2>3, <2>4, <2>5, <2>6, ChannelSends
<1>5. ASSUME NEW c \in Cpu, Insert(c) PROVE Channel!Next
  <2>. DEFINE r == scratch[c]
  <2>1. PICK O \in SUBSET Mapped :
           /\ c \in Busy /\ r.id \in Scratched
           /\ Scratched' = Scratched \ {r.id}
           /\ Mapped' = (Mapped \ O) \cup {r.id}
           /\ \/ /\ UNCHANGED lost
                 /\ \A m \in O : m \in DOMAIN made /\ made[m].ts = r.ts
              \/ Gone' = Gone \cup O
           /\ UNCHANGED <<made, poll, log, seen>>
    BY <1>5, InsertMoves
  <2>2. Genuine(r) /\ r.id \notin Mapped
    BY <2>1 DEF LogInv, AllGenuine, Apart
  <2>. HIDE DEF r
  <2>3. UNCHANGED <<Batched, Sent, Received, Up>>
    BY <2>1, Unmoved DEF Sent, Received, Up
  <2>4. O \subseteq Flight /\ Flight' = Flight \ O
    BY <1>1, <2>1, <2>3 DEF LogInv, Apart
  <2>5. Gone \subseteq Gone' /\ Gone' \subseteq Gone \cup O
    BY <2>1, Unmoved
  <2>6. ASSUME NEW m \in O \ Gone' PROVE m \in DOMAIN made /\ HasTwin(m)
    <3>1. m \in DOMAIN made /\ made[m].ts = r.ts /\ m # r.id
      BY <2>1, <2>2
    <3>. QED  BY <2>2, <3>1 DEF HasTwin, Genuine
  <2>. QED  BY <2>3, <2>4, <2>5, <2>6, ChannelLoses
<1>6. CASE BeginPoll
  <2>1. /\ poll'.batch = poll.batch /\ UNCHANGED <<made, scratch, events, log, lost>>
        /\ poll.pc = "top" /\ poll'.pc \in {"down", "next"}
    BY <1>6 DEF BeginPoll, LogInv, TypeInv, LogTypeOK, Poll
  <2>2. UNCHANGED <<Scratched, Mapped, Batched, Gone, Sent, Received>>
    BY <2>1, Unmoved DEF Sent, Received
  <2>3. Up' \in {Up, FALSE}
    <3>1. Up
      BY <2>1 DEF Up
    <3>. QED  BY <3>1, UpEnds
  <2>4. {} \in SUBSET Flight /\ Flight' = Flight \ {}
    BY <1>1, <2>2
  <2>5. Channel!Next
    <3>1. Gone \subseteq Gone' /\ Gone' \subseteq Gone \cup {}
      BY <2>2
    <3>2. \A m \in {} \ Gone' : m \in DOMAIN made /\ HasTwin(m)
      OBVIOUS
    <3>. QED  BY <2>2, <2>3, <2>4, <3>1, <3>2, ChannelLoses
  <2>. QED  BY <2>5
<1>7. CASE NextKey
  <2>1. /\ poll'.batch = poll.batch /\ UNCHANGED <<made, scratch, events, log, lost>>
        /\ poll.pc = "next" /\ poll'.pc \in {"take", "parse"}
    BY <1>7 DEF NextKey, LogInv, TypeInv, LogTypeOK, Poll
  <2>. QED  BY <1>2, <2>1 DEF Up
<1>8. CASE Take
  <2>1. /\ UNCHANGED <<made, scratch, log, lost>>
        /\ poll.pc = "take" /\ poll'.pc = "next"
    BY <1>8, TakeMoves
  <2>2. UNCHANGED <<Scratched, Sent, Received, Gone, Up>>
    BY <2>1, Unmoved DEF Sent, Received, Up
  <2>3. CASE UNCHANGED events /\ poll'.batch = poll.batch
    BY <1>2, <2>1, <2>2, <2>3
  <2>4. ASSUME NEW k \in Keys(events), NEW e \in Line,
               e.rec.id \in Mapped, poll'.batch = Append(poll.batch, e),
               Mapped' = Mapped \ {e.rec.id}
        PROVE  UNCHANGED Channel!vars
    <3>1. poll.batch \in Seq(Line)
      BY DEF LogInv, TypeInv, LogTypeOK, Poll
    <3>2. Batched' = Batched \cup {e.rec.id}
      <4>1. IdsOf(Append(poll.batch, e)) = Batched \cup {e.rec.id}
        BY <3>1, AppendEntry DEF Batched
      <4>. QED  BY <2>4, <4>1 DEF Batched, IdsOf
    <3>3. Flight' = Flight
      BY <1>1, <2>2, <2>4, <3>2
    <3>. QED  BY <2>2, <3>3, ChannelStutters
  <2>. QED  BY <1>8, <2>3, <2>4, TakeMoves
<1>9. CASE Parse
  <2>1. /\ UNCHANGED <<made, scratch, events, log>> /\ poll.pc = "parse"
        /\ Batched' \subseteq Batched
        /\ \/ /\ UNCHANGED lost
              /\ \A m \in Batched \ Batched' : m \in DOMAIN made /\ made[m].ts \in seen
           \/ Batched' = {} /\ Gone' = Gone \cup Batched
    BY <1>9, ParseMoves
  <2>2. UNCHANGED <<Scratched, Mapped, Sent, Received>>
    BY <2>1, Unmoved DEF Sent, Received
  <2>. DEFINE D == Batched \ Batched'
  <2>3. D \subseteq Flight /\ Flight' = Flight \ D
    BY <1>1, <2>1, <2>2 DEF LogInv, Apart
  <2>4. Gone \subseteq Gone' /\ Gone' \subseteq Gone \cup D
    BY <2>1, Unmoved
  <2>5. ASSUME NEW m \in D \ Gone' PROVE m \in DOMAIN made /\ HasTwin(m)
    <3>1. m \in DOMAIN made /\ made[m].ts \in seen
      BY <2>1
    <3>2. PICK j \in Past : made[j].ts = made[m].ts
      BY <3>1 DEF LogInv, SeenIsPast
    <3>3. j \in Logged \cup Gone /\ j \in DOMAIN made
      BY <2>1, Known DEF Past
    <3>. QED  BY <3>1, <3>2, <3>3 DEF HasTwin, LogInv, Apart
  <2>6. Up' \in {Up, FALSE}
    <3>1. Up
      BY <2>1 DEF Up
    <3>. QED  BY <3>1, UpEnds
  <2>. QED  BY <2>2, <2>3, <2>4, <2>5, <2>6, ChannelLoses
<1>10. CASE Write
  <2>1. UNCHANGED <<made, scratch, events>> /\ poll.pc = "write"
    BY <1>10, WriteMoves
  <2>2. UNCHANGED <<Scratched, Mapped, Sent>> /\ Up
    BY <2>1, Unmoved DEF Sent, Up
  <2>3. ASSUME NEW e \in Line, e.rec.id \in Batched, Batched' = Batched \ {e.rec.id},
               poll'.pc \in {"write", "top"}, log' = Append(log, e), UNCHANGED lost
        PROVE  Channel!Next
    <3>1. e.rec.id \in Flight /\ Flight' = Flight \ {e.rec.id}
      BY <1>1, <2>2, <2>3 DEF LogInv, Apart
    <3>2. log \in Seq(Line) /\ e.rec.id \in Id
      BY DEF LogInv, TypeInv, LogTypeOK, Line, Record
    <3>3. Received \in Seq(Id) /\ Len(Received) = Len(log)
      <4>1. \A n \in 1 .. Len(log) : log[n] \in Line
        BY <3>2
      <4>2. \A n \in 1 .. Len(log) : log[n].rec.id \in Id
        BY <4>1 DEF Line, Record
      <4>. QED  BY <3>2, <4>2 DEF Received
    <3>4. Received' = Append(Received, e.rec.id)
      BY <2>3, <3>2, <3>3 DEF Received
    <3>5. UNCHANGED <<Gone, Up>>
      BY <2>1, <2>3, Unmoved DEF Up
    <3>. QED  BY <2>2, <3>1, <3>4, <3>5, ChannelDelivers
  <2>4. ASSUME NEW D \in SUBSET Batched, Batched' = Batched \ D, UNCHANGED log, Gone' = Gone \cup D
        PROVE  Channel!Next
    <3>1. D \subseteq Flight /\ Flight' = Flight \ D
      BY <1>1, <2>2, <2>4 DEF LogInv, Apart
    <3>2. UNCHANGED Received
      BY <2>4 DEF Received
    <3>3. Up' \in {Up, FALSE}
      BY <2>2, UpEnds
    <3>. QED  BY <2>2, <2>4, <3>1, <3>2, <3>3, ChannelLoses
  <2>5. CASE Batched' = {} /\ UNCHANGED log /\ Gone' = Gone \cup Batched
    BY <2>4, <2>5
  <2>. QED  BY <1>10, <2>3, <2>4, <2>5, WriteMoves
<1>. QED  BY <1>3, <1>4, <1>5, <1>6, <1>7, <1>8, <1>9, <1>10 DEF Next, DaemonStep

\* The map, the dump, the text and the loop deliver a record once at most, only one that was
\* made, and give up openly what they do not deliver, unless it has a twin.
THEOREM ChannelImplemented == Spec => ImplementsChannel
<1>. DEFINE CVars == Channel!vars
            CNext == Channel!Next
<1>1. Spec => []LogInv
  BY LogInvAlways
<1>2. Init => Channel!Init
  BY ChannelStart
<1>3. LogInv /\ LogInv' /\ [Next]_vars => [CNext]_CVars
  BY ChannelStep
<1>. HIDE DEF CVars, CNext
<1>4. Spec => Channel!Init /\ [][CNext]_CVars
  BY <1>1, <1>2, <1>3, PTL DEF Spec
<1>. QED  BY <1>4 DEF CVars, CNext, ImplementsChannel, Channel!Spec
---------------------------------------------------------------------------
(* The text of a batch, while it is built. *)

Size(n, longest) == n * (HeadLen + 1 + longest + TailLen)

\* As long as n entries no longer than `longest' fit, the text has them all.
WholeText ==
  poll.pc \in {"next", "take", "parse"} =>
    \A longest \in Lens :
      LET n == Len(poll.batch)
      IN  (\A i \in DOMAIN poll.batch : poll.batch[i].rec.len <= longest)
            /\ Size(n, longest) + 1 < BufSize - 1
          => /\ ~poll.broken
             /\ poll.used <= IF n = 0 THEN 1 ELSE Size(n, longest)
             /\ \A i \in DOMAIN poll.batch : poll.batch[i].whole

LEMMA SizeGrows ==
  ASSUME NEW n \in Nat, NEW longest \in Lens
  PROVE  /\ longest \in Nat /\ Size(n, longest) \in Nat
         /\ Size(n + 1, longest) = Size(n, longest) + (HeadLen + 1 + longest + TailLen)
         /\ Size(0, longest) = 0
<1>. DEFINE e == HeadLen + 1 + longest + TailLen
<1>1. longest \in Nat /\ e \in Nat
  BY TextAssumption
<1>. HIDE DEF e
<1>2. n * e \in Nat /\ (n + 1) * e = n * e + e /\ 0 * e = 0
  BY <1>1
<1>. QED  BY <1>1, <1>2 DEF Size, e

\* One more entry that fits, with its separator, and the bracket behind it.
LEMMA EntryFits ==
  ASSUME LogTypeOK, WholeText, poll.pc = "take", NEW r \in Record, NEW longest \in Lens,
         \A i \in DOMAIN poll.batch : poll.batch[i].rec.len <= longest, r.len <= longest,
         Size(Len(poll.batch) + 1, longest) + 1 < BufSize - 1
  PROVE  /\ ~WithEntry(r).broken
         /\ WithEntry(r).used <= Size(Len(poll.batch) + 1, longest)
         /\ WithEntry(r).batch = Append(poll.batch, [rec |-> r, whole |-> TRUE])
         /\ \A i \in DOMAIN poll.batch : poll.batch[i].whole
<1>. DEFINE n    == Len(poll.batch)
            head == HeadLen + (IF poll.batch = <<>> THEN 0 ELSE 1)
            h    == Fits(poll.used, head)
            p1   == IF h THEN poll.used + head ELSE poll.used
            d    == Fits(p1, r.len)
            p2   == IF d THEN p1 + r.len ELSE p1
            t    == Fits(p2, TailLen)
            p3   == IF t THEN p2 + TailLen ELSE p2
            b    == Append(poll.batch, [rec |-> r, whole |-> d])
            x    == poll.broken \/ ~h \/ ~t
<1>1. /\ poll \in Poll /\ poll.batch \in Seq(Line) /\ n \in Nat /\ r.len \in Nat
      /\ poll.used \in Nat /\ BufSize \in Nat /\ HeadLen \in Nat /\ TailLen \in Nat
      /\ poll.batch = <<>> <=> n = 0
  BY TextAssumption DEF LogTypeOK, Poll, Record
<1>. HIDE DEF n
<1>2. /\ longest \in Nat /\ Size(n, longest) \in Nat
      /\ Size(n + 1, longest) = Size(n, longest) + (HeadLen + 1 + longest + TailLen)
      /\ Size(n + 1, longest) + 1 < BufSize - 1
      /\ n = 0 => Size(n, longest) = 0
  BY <1>1, SizeGrows DEF n
<1>3. /\ ~poll.broken /\ poll.used <= IF n = 0 THEN 1 ELSE Size(n, longest)
      /\ \A i \in DOMAIN poll.batch : poll.batch[i].whole
  <2>1. Size(n, longest) + 1 < BufSize - 1
    BY <1>1, <1>2
  <2>. QED  BY <2>1 DEF WholeText, n
<1>4. poll.used + head <= Size(n, longest) + HeadLen + 1 /\ head \in Nat
  BY <1>1, <1>2, <1>3
<1>. HIDE DEF head
<1>5. h /\ p1 = poll.used + head
  BY <1>1, <1>2, <1>4 DEF Fits
<1>. HIDE DEF h, p1
<1>6. d /\ p2 = p1 + r.len /\ p2 <= Size(n, longest) + HeadLen + 1 + longest
  <2>1. p1 \in Nat /\ p1 <= Size(n, longest) + HeadLen + 1
    BY <1>1, <1>4, <1>5
  <2>2. p1 + r.len <= Size(n, longest) + HeadLen + 1 + longest
    BY <1>1, <1>2, <2>1
  <2>3. d
    BY <1>1, <1>2, <2>1, <2>2 DEF Fits
  <2>. QED  BY <2>2, <2>3
<1>7. d = TRUE /\ p2 \in Nat
  BY <1>1, <1>4, <1>5, <1>6
<1>. HIDE DEF d, p2
<1>8. t /\ p3 = p2 + TailLen /\ p3 <= Size(n + 1, longest)
  <2>1. p2 + TailLen <= Size(n + 1, longest)
    BY <1>1, <1>2, <1>6, <1>7
  <2>2. t
    BY <1>1, <1>2, <1>7, <2>1 DEF Fits
  <2>. QED  BY <2>1, <2>2
<1>. HIDE DEF t, p3
<1>9. ~x
  BY <1>3, <1>5, <1>8
<1>. HIDE DEF x, b
<1>10. WithEntry(r) = [poll EXCEPT !.pc = "next", !.key = 0, !.used = p3,
                                   !.broken = x, !.batch = b]
  BY DEF WithEntry, head, h, p1, d, p2, t, p3, x, b
<1>11. WithEntry(r).broken = x /\ WithEntry(r).used = p3 /\ WithEntry(r).batch = b
  BY <1>1, <1>10 DEF Poll
<1>. QED  BY <1>3, <1>7, <1>8, <1>9, <1>11 DEF b, n

LEMMA WholeStep == TypeInv /\ WholeText /\ [Next]_vars => WholeText'
<1>. SUFFICES ASSUME TypeInv, WholeText, [Next]_vars PROVE WholeText'
  OBVIOUS
<1>0. poll \in Poll /\ poll.batch \in Seq(Line) /\ LogTypeOK
  BY DEF TypeInv, LogTypeOK, Poll
<1>1. CASE UNCHANGED poll
  BY <1>1 DEF WholeText
<1>2. CASE BeginPoll
  <2>1. poll.batch = <<>> /\ poll'.batch = <<>> /\ Len(<<>>) = 0 /\ DOMAIN <<>> = {}
    <3>1. poll.batch = <<>> /\ poll'.batch = poll.batch
      BY <1>0, <1>2 DEF BeginPoll, TypeInv, Holding, Poll
    <3>. QED  BY <3>1
  <2>2. poll'.pc = "down" \/ (~poll'.broken /\ poll'.used = 1)
    BY <1>0, <1>2 DEF BeginPoll, Poll
  <2>. QED  BY <2>1, <2>2 DEF WholeText
<1>3. CASE NextKey
  <2>1. /\ poll'.batch = poll.batch /\ poll'.broken = poll.broken /\ poll'.used = poll.used
        /\ poll.pc = "next"
    BY <1>0, <1>3 DEF NextKey, Poll
  <2>. QED  BY <2>1 DEF WholeText
<1>4. CASE Take
  <2>1. CASE Has(events, poll.key)
    <3>. DEFINE r == events[poll.key]
    <3>1. r \in Record /\ poll' = WithEntry(r) /\ poll.pc = "take"
      BY <1>0, <1>4, <2>1, KeysOf DEF Take
    <3>. HIDE DEF r
    <3>2. PICK w \in BOOLEAN : poll'.batch = Append(poll.batch, [rec |-> r, whole |-> w])
      BY <1>0, <3>1, EntryType
    <3>3. /\ Len(poll'.batch) = Len(poll.batch) + 1
          /\ \A i \in DOMAIN poll.batch : i \in DOMAIN poll'.batch /\ poll'.batch[i] = poll.batch[i]
          /\ Len(poll.batch) + 1 \in DOMAIN poll'.batch
          /\ poll'.batch[Len(poll.batch) + 1] = [rec |-> r, whole |-> w]
          /\ \A i \in DOMAIN poll'.batch : i \in DOMAIN poll.batch \/ i = Len(poll.batch) + 1
          /\ Len(poll.batch) \in Nat
      BY <1>0, <3>2
    <3>4. ASSUME NEW longest \in Lens,
                 \A i \in DOMAIN poll'.batch : poll'.batch[i].rec.len <= longest,
                 Size(Len(poll'.batch), longest) + 1 < BufSize - 1
          PROVE  /\ ~poll'.broken
                 /\ poll'.used <= IF Len(poll'.batch) = 0 THEN 1 ELSE Size(Len(poll'.batch), longest)
                 /\ \A i \in DOMAIN poll'.batch : poll'.batch[i].whole
      <4>1. /\ \A i \in DOMAIN poll.batch : poll.batch[i].rec.len <= longest
            /\ r.len <= longest
        <5>1. \A i \in DOMAIN poll.batch : poll.batch[i].rec.len <= longest
          BY <3>3, <3>4
        <5>2. [rec |-> r, whole |-> w].rec.len <= longest
          BY <3>3, <3>4
        <5>. QED  BY <5>1, <5>2
      <4>2. /\ ~poll'.broken /\ poll'.used <= Size(Len(poll.batch) + 1, longest)
            /\ poll'.batch = Append(poll.batch, [rec |-> r, whole |-> TRUE])
            /\ \A i \in DOMAIN poll.batch : poll.batch[i].whole
        BY <1>0, <3>1, <3>3, <3>4, <4>1, EntryFits
      <4>3. poll'.batch[Len(poll.batch) + 1].whole
        BY <1>0, <4>2
      <4>4. Len(poll.batch) + 1 # 0
        BY <3>3
      <4>. QED  BY <3>3, <4>2, <4>3, <4>4
    <3>. QED  BY <3>4 DEF WholeText
  <2>2. CASE ~Has(events, poll.key)
    <3>1. /\ poll'.batch = poll.batch /\ poll'.broken = poll.broken /\ poll'.used = poll.used
          /\ poll.pc = "take"
      BY <1>0, <1>4, <2>2 DEF Take, Poll
    <3>. QED  BY <3>1 DEF WholeText
  <2>. QED  BY <2>1, <2>2
<1>5. CASE Parse \/ Write
  <2>1. poll'.pc \in {"write", "top", "crashed"}
    BY <1>0, <1>5 DEF Parse, Write, NothingNew, Rest, Poll
  <2>. QED  BY <2>1 DEF WholeText
<1>. QED  BY <1>1, <1>2, <1>3, <1>4, <1>5
          DEF Next, DaemonStep, Tick, Stop, Stamp, Insert, vars

\* Nothing is dropped or cut short by the dump as long as the text of the batch fits the buffer,
\* whatever the texts of earlier polls were and however long the records are.
THEOREM FitsIsParsedAlways == Spec => []FitsIsParsed
<1>1. Init => WholeText
  BY DEF Init, WholeText
<1>2. ASSUME TypeInv, WholeText PROVE FitsIsParsed
  <2>. SUFFICES ASSUME poll.pc = "parse", TextFits
                PROVE  /\ Parsed = poll.batch
                       /\ \A i \in DOMAIN poll.batch : poll.batch[i].whole
    BY DEF FitsIsParsed
  <2>0. /\ poll.batch \in Seq(Line) /\ Len(poll.batch) \in Nat /\ poll.used \in Nat
        /\ BufSize \in Nat /\ (poll.batch = <<>> <=> Len(poll.batch) = 0)
    BY <1>2, TextAssumption DEF TypeInv, LogTypeOK, Poll
  <2>1. PICK longest \in Lens :
          /\ \A i \in DOMAIN poll.batch : poll.batch[i].rec.len <= longest
          /\ Size(Len(poll.batch), longest) + 1 < BufSize - 1
    BY DEF TextFits, Size
  <2>2. /\ ~poll.broken
        /\ poll.used <= IF Len(poll.batch) = 0 THEN 1 ELSE Size(Len(poll.batch), longest)
        /\ \A i \in DOMAIN poll.batch : poll.batch[i].whole
    BY <1>2, <2>1 DEF WholeText
  <2>3. CASE poll.batch = <<>>
    BY <2>2, <2>3 DEF Parsed
  <2>4. CASE poll.batch # <<>>
    <3>1. Size(Len(poll.batch), longest) \in Nat
      BY <2>0, SizeGrows
    <3>2. poll.used <= Size(Len(poll.batch), longest)
      BY <2>0, <2>2, <2>4
    <3>3. Fits(poll.used, 1)
      BY <2>0, <2>1, <3>1, <3>2 DEF Fits
    <3>. QED  BY <2>2, <3>3 DEF Parsed
  <2>. QED  BY <2>3, <2>4
<1>. QED  BY <1>1, <1>2, TypeStart, TypeStep, WholeStep, PTL DEF Spec
=============================================================================
