------------------------- MODULE HistoryStoreProofs -------------------------
(***************************************************************************)
(* Proofs about HistoryStore: its invariants for any ports, processes,     *)
(* times and bounds.                                                       *)
(***************************************************************************)
EXTENDS HistoryStore, ListProofs

-----------------------------------------------------------------------------
(* The inductive invariant. *)

\* A process that is not running has no memory; what is known about the ports
\* is what the file holds.
NoMemory ==
  ~running =>
    /\ entries = NoEntries
    /\ announced = {}
    /\ baseline
    /\ lastSave = 0
    /\ seenAt = seenSaved

\* Before the first refresh nothing is seen or announced.
NothingSeenYet == baseline => lastKeys = {} /\ announced = {}

\* The clocks of the store, of the file and of the reader.
Clocks ==
  /\ SaveInterval <= now
  /\ disk.at <= now
  /\ lastSave = 0 \/ lastSave = disk.at
  /\ \A k \in Keys : seenAt[k] <= now /\ seenSaved[k] <= disk.at

\* A set of entries holds every port last found within the retention at time
\* t, and only ports found when the entry says.
Remembers(es, seen, t) ==
  /\ \A k \in Keys : WithinRetention(seen[k], t) => k \in DOMAIN es
  /\ \A k \in DOMAIN es : es[k].lastSeen = seen[k] /\ seen[k] > 0

MemoryRemembers ==
  running =>
    /\ Remembers(entries, seenAt, now)
    /\ \A k \in DOMAIN entries \ lastKeys : WithinRetention(seenAt[k], now)

DiskRemembers == Remembers(disk.entries, seenSaved, disk.at)

IInv ==
  /\ TypeOK
  /\ NoSilentStop
  /\ ClocksOrdered
  /\ NoMemory
  /\ NothingSeenYet
  /\ Clocks
  /\ MemoryRemembers
  /\ DiskRemembers
  /\ BoundedLoss

-----------------------------------------------------------------------------
(* Lemmas about the operators. *)

\* The latest of a list of times are times of the list, in its order; and the latest of
\* the latest are the latest.
LEMMA NewestIs ==
  ASSUME NEW s \in Seq(Nat)
  PROVE  /\ Newest(s) \in Seq(Nat)
         /\ \E d \in Nat : \A i \in 1..Len(Newest(s)) : i + d \in 1..Len(s) /\ Newest(s)[i] = s[i + d]
         /\ Newest(Newest(s)) = Newest(s)
<1>1. RestartsSaved \in Nat \ {0} /\ Len(s) \in Nat
  BY TimesAssumption
<1>2. CASE Len(s) <= RestartsSaved
  <2>1. Newest(s) = s
    BY <1>2 DEF Newest
  <2>2. \A i \in 1..Len(s) : i + 0 \in 1..Len(s) /\ s[i] = s[i + 0]
    BY <1>1
  <2> QED
    BY <2>1, <2>2
<1>3. CASE ~(Len(s) <= RestartsSaved)
  <2> DEFINE d == Len(s) - RestartsSaved
             r == SubSeq(s, d + 1, Len(s))
  <2>1. Newest(s) = r /\ d \in Nat
    BY <1>1, <1>3 DEF Newest
  <2>2. r \in Seq(Nat) /\ Len(r) = RestartsSaved /\ \A i \in 1..Len(r) : r[i] = s[i + d]
    BY <1>1, <1>3
  <2>3. \A i \in 1..Len(r) : i + d \in 1..Len(s)
    BY <1>1, <1>3, <2>2
  <2> HIDE DEF r
  <2>4. Newest(r) = r
    BY <1>1, <2>2 DEF Newest
  <2> QED
    BY <2>1, <2>2, <2>3, <2>4
<1> QED
  BY <1>2, <1>3

\* A list of times with one more time added some times over.
LEMMA CountedTimes ==
  ASSUME NEW s \in Seq(Nat), NEW c \in Nat, NEW t \in Nat, NEW r, r = s \o [n \in 1..c |-> t]
  PROVE  /\ r \in Seq(Nat) /\ Len(r) = Len(s) + c
         /\ \A i \in 1..Len(r) : r[i] = IF i <= Len(s) THEN s[i] ELSE t
         /\ r # s <=> c # 0
<1>1. [n \in 1..c |-> t] \in Seq(Nat) /\ Len([n \in 1..c |-> t]) = c
  OBVIOUS
<1>2. PICK u \in Seq(Nat) : u = [n \in 1..c |-> t] /\ Len(u) = c
  BY <1>1
<1>3. r = s \o u /\ \A i \in 1..c : u[i] = t
  BY <1>2
<1>4. r \in Seq(Nat) /\ Len(r) = Len(s) + c
  BY <1>2, <1>3
<1>5. \A i \in 1..Len(r) : r[i] = IF i <= Len(s) THEN s[i] ELSE t
  BY <1>2, <1>3, <1>4
<1>6. c = 0 => r = s
  <2> HAVE c = 0
  <2>1. Len(r) = Len(s) /\ \A i \in 1..Len(r) : r[i] = s[i]
    BY <1>4, <1>5
  <2> QED
    BY <1>4, <2>1, SeqEqual
<1> QED
  BY <1>4, <1>5, <1>6

\* Saving trims the restart times of an entry and keeps everything else.
LEMMA TrimKeeps ==
  ASSUME NEW e \in Entry
  PROVE  /\ Trim(e) \in Entry
         /\ Trim(e).changes = Newest(e.changes)
         /\ Trim(e).firstSeen = e.firstSeen
         /\ Trim(e).lastSeen = e.lastSeen
         /\ Trim(e).uptimeStart = e.uptimeStart
         /\ EntryClock(e) => EntryClock(Trim(e))
<1>1. e.changes \in Seq(Nat) /\ e.firstSeen \in Nat /\ e.uptimeStart \in Nat
  BY DEF Entry
<1>2. PICK r : r = Newest(e.changes)
  OBVIOUS
<1>3. r \in Seq(Nat)
  BY <1>1, <1>2, NewestIs
<1>4. /\ Trim(e) = [e EXCEPT !.changes = r] /\ Trim(e) \in Entry /\ Trim(e).changes = r
      /\ Trim(e).firstSeen = e.firstSeen /\ Trim(e).lastSeen = e.lastSeen
      /\ Trim(e).uptimeStart = e.uptimeStart
  BY <1>2, <1>3 DEF Trim, Entry
<1>5. PICK d \in Nat : \A i \in 1..Len(r) : i + d \in 1..Len(e.changes) /\ r[i] = e.changes[i + d]
  BY <1>1, <1>2, NewestIs
<1>6. ASSUME EntryClock(e) PROVE EntryClock(Trim(e))
  <2>1. DOMAIN r = 1..Len(r) /\ DOMAIN e.changes = 1..Len(e.changes) /\ Len(r) \in Nat
    BY <1>1, <1>3
  <2>2. ASSUME NEW i \in 1..Len(r)
        PROVE  /\ e.firstSeen <= r[i] /\ r[i] <= e.uptimeStart
               /\ \A j \in 1..Len(r) : i <= j => r[i] <= r[j]
    <3>1. i + d \in 1..Len(e.changes) /\ r[i] = e.changes[i + d]
      BY <1>5
    <3>2. \A j \in 1..Len(r) : j + d \in 1..Len(e.changes) /\ r[j] = e.changes[j + d]
                              /\ (i <= j => i + d <= j + d)
      BY <1>5, <2>1
    <3> QED
      BY <1>6, <2>1, <3>1, <3>2 DEF EntryClock
  <2> QED
    BY <1>4, <1>6, <2>1, <2>2 DEF EntryClock
<1> QED
  BY <1>2, <1>4, <1>6

\* The saved form of well-formed entries is well formed and keeps their clocks.
LEMMA SavedKeeps ==
  ASSUME NEW es, NEW t \in Nat, EntriesOK(es)
  PROVE  /\ Saved(es, t).at = t
         /\ DOMAIN Saved(es, t).entries = DOMAIN es
         /\ EntriesOK(Saved(es, t).entries)
         /\ \A k \in DOMAIN es :
              /\ Saved(es, t).entries[k].lastSeen = es[k].lastSeen
              /\ EntryClock(es[k]) => EntryClock(Saved(es, t).entries[k])
<1>1. \A k \in DOMAIN es : es[k] \in Entry
  BY DEF EntriesOK
<1>2. /\ Saved(es, t).at = t
      /\ DOMAIN Saved(es, t).entries = DOMAIN es
      /\ \A k \in DOMAIN es : Saved(es, t).entries[k] = Trim(es[k])
  BY DEF Saved
<1>3. EntriesOK(Saved(es, t).entries)
  BY <1>1, <1>2, TrimKeeps DEF EntriesOK
<1>4. ASSUME NEW k \in DOMAIN es
      PROVE  /\ Saved(es, t).entries[k].lastSeen = es[k].lastSeen
             /\ EntryClock(es[k]) => EntryClock(Saved(es, t).entries[k])
  BY <1>1, <1>2, TrimKeeps
<1> QED
  BY <1>2, <1>3, <1>4

\* A new entry is well formed and its clock is ordered.
LEMMA NewEntryClock ==
  ASSUME NEW s \in Sighting, NEW t \in Nat
  PROVE  /\ NewEntry(s, t) \in Entry
         /\ EntryClock(NewEntry(s, t))
         /\ NewEntry(s, t).lastSeen = t
BY DEF NewEntry, Entry, EntryClock, Sighting

\* The rows of a port are sightings, at least one, and only the last has processes.
RowsOK(rows) ==
  /\ rows \in Seq(Sighting) /\ rows # <<>>
  /\ \A i \in 1..(Len(rows) - 1) : rows[i].pids = {}

LEMMA RowsAreOK == ASSUME NEW k \in Keys, NEW rows \in RowsOf[k] PROVE RowsOK(rows)
<1>1. PICK n \in Nat \ {0} : rows \in [1..n -> Sighting]
  BY TimesAssumption DEF RowsOf
<1>2. rows \in Seq(Sighting) /\ Len(rows) = n
  BY <1>1
<1>3. \A i \in 1..(Len(rows) - 1) : rows[i].pids = {}
  BY DEF RowsOf
<1> QED
  BY <1>2, <1>3 DEF RowsOK

LEMMA RowsHave ==
  ASSUME NEW rows, RowsOK(rows)
  PROVE  /\ Len(rows) \in Nat \ {0} /\ DOMAIN rows = 1..Len(rows)
         /\ \A i \in 1..Len(rows) : rows[i] \in Sighting
         /\ Head(rows) = rows[1]
         /\ Len(rows) # 1 => /\ RowsOK(Tail(rows)) /\ Len(Tail(rows)) = Len(rows) - 1
                             /\ \A i \in 1..(Len(rows) - 1) : Tail(rows)[i] = rows[i + 1]
<1>1. rows \in Seq(Sighting) /\ rows # <<>>
  BY DEF RowsOK
<1>2. Len(rows) \in Nat \ {0} /\ DOMAIN rows = 1..Len(rows) /\ Head(rows) = rows[1]
  BY <1>1
<1>3. \A i \in 1..Len(rows) : rows[i] \in Sighting
  BY <1>1, <1>2
<1>4. ASSUME Len(rows) # 1
      PROVE  /\ RowsOK(Tail(rows)) /\ Len(Tail(rows)) = Len(rows) - 1
             /\ \A i \in 1..(Len(rows) - 1) : Tail(rows)[i] = rows[i + 1]
  <2>1. /\ Tail(rows) \in Seq(Sighting) /\ Len(Tail(rows)) = Len(rows) - 1
        /\ \A i \in 1..(Len(rows) - 1) : Tail(rows)[i] = rows[i + 1]
    BY <1>1, <1>2
  <2>2. Tail(rows) # <<>>
    <3>1. Len(Tail(rows)) # 0 /\ Len(<<>>) = 0
      BY <1>2, <1>4, <2>1
    <3> QED
      BY <3>1
  <2>3. \A i \in 1..(Len(rows) - 2) : Tail(rows)[i] = rows[i + 1] /\ rows[i + 1].pids = {}
    BY <1>2, <2>1 DEF RowsOK
  <2> QED
    BY <1>2, <2>1, <2>2, <2>3 DEF RowsOK
<1> QED
  BY <1>2, <1>3, <1>4

\* The rows that count a restart are finitely many.
LEMMA FewRows ==
  ASSUME NEW rows, RowsOK(rows), NEW some \in SUBSET DOMAIN rows
  PROVE  Cardinality(some) \in Nat /\ (Cardinality(some) = 0 <=> some = {})
<1>1. IsFiniteSet(1..Len(rows))
  BY RowsHave, FS_Interval
<1>2. IsFiniteSet(some)
  BY <1>1, RowsHave, FS_Subset
<1> QED
  BY <1>2, FS_CardinalityType, FS_EmptySet

\* The indices of the rows that count a restart.
CountedRows(e, rows, t, wasAbsent, first) ==
  {i \in DOMAIN rows : RowChange(e, rows, t, wasAbsent, first, i) \in Counted}

\* Folding later rows into an entry keeps it well formed and ordered, and counts one
\* restart for each row that shows one.
LEMMA FoldRowsClock ==
  ASSUME NEW e \in Entry, NEW rows, RowsOK(rows), NEW t \in Nat,
         NEW wasAbsent \in BOOLEAN, NEW first \in BOOLEAN,
         EntryClock(e), e.lastSeen <= t
  PROVE  LET f == FoldRows(e, rows, t, wasAbsent, first) IN
         /\ f \in Entry
         /\ EntryClock(f)
         /\ f.lastSeen = t /\ f.pids = rows[Len(rows)].pids /\ f.health = rows[Len(rows)].status
         /\ f.changes # e.changes <=> CountedRows(e, rows, t, wasAbsent, first) # {}
<1> DEFINE change == [i \in DOMAIN rows |-> RowChange(e, rows, t, wasAbsent, first, i)]
           counted == {i \in DOMAIN rows : change[i] \in Counted}
           resets == \E i \in DOMAIN rows : change[i] \in {"restarted", "replaced"}
           reset == ~first /\ (wasAbsent \/ resets)
           last == rows[Len(rows)]
           f == FoldRows(e, rows, t, wasAbsent, first)
<1>1. last \in Sighting
  BY RowsHave
<1>2. PICK c : c = Cardinality(counted)
  OBVIOUS
<1>3. c \in Nat /\ (c # 0 <=> counted # {})
  BY <1>2, FewRows
<1>4. counted = CountedRows(e, rows, t, wasAbsent, first)
  BY DEF CountedRows
<1>5. PICK r : r = e.changes \o [n \in 1..c |-> t]
  OBVIOUS
<1>6. e.changes \in Seq(Nat) /\ e.firstSeen \in Nat /\ e.uptimeStart \in Nat /\ e.lastSeen \in Nat
  BY DEF Entry
<1>7. /\ r \in Seq(Nat) /\ Len(r) = Len(e.changes) + c
      /\ \A i \in 1..Len(r) : r[i] = IF i <= Len(e.changes) THEN e.changes[i] ELSE t
      /\ r # e.changes <=> c # 0
  BY <1>3, <1>5, <1>6, CountedTimes
<1>8. PICK u : u = (IF reset THEN t ELSE e.uptimeStart)
  OBVIOUS
<1>9. PICK a : a = (IF \E i \in DOMAIN rows : rows[i].active THEN t ELSE e.lastActive)
  OBVIOUS
<1>10. f = [firstSeen |-> e.firstSeen, lastSeen |-> t, pids |-> last.pids, changes |-> r,
            uptimeStart |-> u, lastActive |-> a, conflict |-> last.conflict, health |-> last.status]
  BY <1>2, <1>5, <1>8, <1>9, Zenon DEF FoldRows
<1>11. u \in Nat /\ a \in Nat
  BY <1>8, <1>9 DEF Entry
<1>12. f \in Entry
  BY <1>1, <1>6, <1>7, <1>10, <1>11 DEF Entry, Sighting
<1>13. counted # {} => u = t
  <2>1. first => counted = {}
    BY DEF RowChange, Counted
  <2>2. \A i \in DOMAIN rows : change[i] = "back" => wasAbsent
    BY DEF RowChange, PidChange
  <2>3. ~first /\ counted # {} => reset
    BY <2>2 DEF Counted
  <2> QED
    BY <1>8, <2>1, <2>3
<1>14. EntryClock(f)
  <2> DEFINE m == Len(e.changes)
  <2>1. /\ f.firstSeen = e.firstSeen /\ f.uptimeStart = u /\ f.lastSeen = t /\ f.changes = r
        /\ DOMAIN r = 1..Len(r) /\ m \in Nat /\ DOMAIN e.changes = 1..m
    BY <1>6, <1>7, <1>10
  <2>2. e.uptimeStart <= u /\ u <= t /\ e.firstSeen <= u
    BY <1>6, <1>8 DEF EntryClock
  <2>3. \A i \in 1..m : /\ e.firstSeen <= e.changes[i] /\ e.changes[i] <= e.uptimeStart
                        /\ e.changes[i] \in Nat
                        /\ \A j \in 1..m : i <= j => e.changes[i] <= e.changes[j]
    <3>1. \A i \in 1..m : e.changes[i] \in Nat
      BY <1>6
    <3>2. \A i \in 1..m : /\ e.firstSeen <= e.changes[i] /\ e.changes[i] <= e.uptimeStart
                          /\ \A j \in 1..m : i <= j => e.changes[i] <= e.changes[j]
      <4> HIDE DEF m
      <4> QED
        BY <2>1 DEF EntryClock
    <3> QED
      BY <3>1, <3>2
  <2>4. ASSUME NEW i \in 1..Len(r)
        PROVE  e.firstSeen <= r[i] /\ r[i] <= u /\ \A j \in 1..Len(r) : i <= j => r[i] <= r[j]
    <3>1. CASE i <= m
      <4>1. i \in 1..m /\ r[i] = e.changes[i]
        BY <1>7, <2>1, <3>1
      <4>2. e.firstSeen <= r[i] /\ r[i] <= e.uptimeStart /\ r[i] \in Nat
        BY <2>3, <4>1
      <4>3. ASSUME NEW j \in 1..Len(r), i <= j PROVE r[i] <= r[j]
        <5>1. CASE j <= m
          <6>1. j \in 1..m /\ r[j] = e.changes[j]
            BY <1>7, <2>1, <5>1
          <6> QED
            BY <2>3, <4>1, <4>3, <6>1
        <5>2. CASE ~(j <= m)
          <6>1. r[j] = t
            BY <1>7, <5>2
          <6> QED
            BY <1>6, <1>11, <2>2, <4>2, <6>1
        <5> QED
          BY <5>1, <5>2
      <4> QED
        BY <1>6, <1>11, <2>2, <4>2, <4>3
    <3>2. CASE ~(i <= m)
      <4>1. r[i] = t /\ c # 0
        BY <1>3, <1>7, <2>1, <3>2
      <4>2. u = t
        BY <1>3, <1>13, <4>1
      <4>3. ASSUME NEW j \in 1..Len(r), i <= j PROVE r[j] = t
        <5>1. ~(j <= m)
          BY <2>1, <3>2, <4>3
        <5> QED
          BY <1>7, <5>1
      <4> QED
        BY <1>6, <2>2, <4>1, <4>2, <4>3
    <3> QED
      BY <3>1, <3>2
  <2> QED
    BY <2>1, <2>2, <2>4 DEF EntryClock
<1>15. /\ f.lastSeen = t /\ f.pids = last.pids /\ f.health = last.status /\ f.changes = r
  BY <1>10
<1>16. f.changes # e.changes <=> counted # {}
  BY <1>3, <1>7, <1>15
<1> HIDE DEF f
<1>17. /\ f \in Entry /\ EntryClock(f)
       /\ f.lastSeen = t /\ f.pids = rows[Len(rows)].pids /\ f.health = rows[Len(rows)].status
       /\ f.changes # e.changes <=> CountedRows(e, rows, t, wasAbsent, first) # {}
  BY <1>4, <1>12, <1>14, <1>15, <1>16
<1> QED
  BY <1>17 DEF f

\* The entry after the rows of a refresh is well formed and ordered, whether the port
\* was known or not.
LEMMA AfterRowsClock ==
  ASSUME TypeOK, ClocksOrdered, NEW t \in Nat, now < t, NEW k, NEW rows, RowsOK(rows)
  PROVE  LET f == AfterRows(k, rows, t) IN
         /\ f \in Entry /\ EntryClock(f)
         /\ f.lastSeen = t /\ f.pids = rows[Len(rows)].pids /\ f.health = rows[Len(rows)].status
<1> DEFINE absent == k \notin lastKeys
           new == NewEntry(Head(rows), t)
<1>1. absent \in BOOLEAN /\ baseline \in BOOLEAN
  BY DEF TypeOK
<1>2. /\ Len(rows) \in Nat \ {0} /\ Head(rows) \in Sighting /\ Head(rows) = rows[1]
      /\ Len(rows) # 1 => /\ RowsOK(Tail(rows)) /\ Len(Tail(rows)) = Len(rows) - 1
                          /\ Tail(rows)[Len(rows) - 1] = rows[Len(rows)]
  <2>1. /\ Len(rows) \in Nat \ {0} /\ Head(rows) = rows[1] /\ rows[1] \in Sighting
        /\ Len(rows) # 1 => /\ RowsOK(Tail(rows)) /\ Len(Tail(rows)) = Len(rows) - 1
                            /\ \A i \in 1..(Len(rows) - 1) : Tail(rows)[i] = rows[i + 1]
    BY RowsHave
  <2>2. Len(rows) # 1 => Len(rows) - 1 \in 1..(Len(rows) - 1) /\ (Len(rows) - 1) + 1 = Len(rows)
    BY <2>1
  <2>3. Len(rows) # 1 => Tail(rows)[Len(rows) - 1] = rows[(Len(rows) - 1) + 1]
    BY <2>1, <2>2
  <2> QED
    BY <2>1, <2>2, <2>3
<1> HIDE DEF absent
<1>3. CASE k \in DOMAIN entries
  <2>1. entries[k] \in Entry /\ EntryClock(entries[k]) /\ entries[k].lastSeen <= t
    BY <1>3 DEF TypeOK, EntriesOK, ClocksOrdered, Entry
  <2>2. AfterRows(k, rows, t) = FoldRows(entries[k], rows, t, absent, baseline)
    BY <1>3 DEF AfterRows, absent
  <2> QED
    BY <1>1, <2>1, <2>2, FoldRowsClock
<1>4. CASE k \notin DOMAIN entries
  <2>1. new \in Entry /\ EntryClock(new) /\ new.lastSeen = t
    BY <1>2, NewEntryClock
  <2>2. new.pids = Head(rows).pids /\ new.health = Head(rows).status
    BY DEF NewEntry
  <2> HIDE DEF new
  <2>3. CASE Len(rows) = 1
    <3>1. AfterRows(k, rows, t) = new
      BY <1>4, <2>3 DEF AfterRows, new
    <3> QED
      BY <1>2, <2>1, <2>2, <2>3, <3>1
  <2>4. CASE Len(rows) # 1
    <3>1. AfterRows(k, rows, t) = FoldRows(new, Tail(rows), t, absent, baseline)
      BY <1>4, <2>4 DEF AfterRows, new, absent
    <3>2. PICK tail : tail = Tail(rows)
      OBVIOUS
    <3>3. RowsOK(tail) /\ tail[Len(tail)] = rows[Len(rows)]
      BY <1>2, <2>4, <3>2
    <3>4. new.lastSeen <= t
      BY <2>1
    <3>5. LET f == FoldRows(new, tail, t, absent, baseline) IN
          /\ f \in Entry /\ EntryClock(f) /\ f.lastSeen = t
          /\ f.pids = tail[Len(tail)].pids /\ f.health = tail[Len(tail)].status
      BY <1>1, <2>1, <3>3, <3>4, FoldRowsClock
    <3> QED
      BY <3>1, <3>2, <3>3, <3>5
  <2> QED
    BY <2>3, <2>4
<1> QED
  BY <1>3, <1>4

\* The keys of the events that announce a port are ports that were found, a
\* missing port of a collected protocol is reported stopped, and every event
\* is about a known key.
LEMMA EmittedKeys ==
  ASSUME TypeOK, NEW obs, NEW udp, NEW t, DOMAIN obs \subseteq Keys
  PROVE  /\ KeysWith(EmittedEvents(obs, udp, t), {"started", "back"}) \subseteq DOMAIN obs
         /\ Stopped(obs, udp) \subseteq
              KeysWith(EmittedEvents(obs, udp, t), {"stopped"})
         /\ \A kinds : KeysWith(EmittedEvents(obs, udp, t), kinds) \subseteq Keys
<1> DEFINE evs == EmittedEvents(obs, udp, t)
<1>1. \A ev \in evs : \/ ev.key \in DOMAIN obs
                      \/ ev.key \in Stopped(obs, udp) /\ ev.kind = "stopped"
  BY DEF EmittedEvents, RowEvents, Event
<1>2. \A k \in Stopped(obs, udp) : Event("stopped", k) \in evs
  BY DEF EmittedEvents
<1>3. Stopped(obs, udp) \subseteq Keys
  BY DEF Stopped, Missing, TypeOK
<1>4. KeysWith(evs, {"started", "back"}) \subseteq DOMAIN obs
  BY <1>1 DEF KeysWith
<1>5. Stopped(obs, udp) \subseteq KeysWith(evs, {"stopped"})
  <2> SUFFICES ASSUME NEW k \in Stopped(obs, udp)
               PROVE  k \in KeysWith(evs, {"stopped"})
    OBVIOUS
  <2>1. Event("stopped", k).key = k /\ Event("stopped", k).kind = "stopped"
    BY DEF Event
  <2> QED
    BY <1>2, <2>1 DEF KeysWith
<1>6. \A kinds : KeysWith(evs, kinds) \subseteq Keys
  BY <1>1, <1>3 DEF KeysWith
<1> QED
  BY <1>4, <1>5, <1>6

-----------------------------------------------------------------------------
(***************************************************************************)
(* One refresh: update of a store in a good state with any sightings at a  *)
(* later time, then the throttled save, leads to a good state.  Stated for *)
(* any `obs` so that the compositions of the store can use it as well.     *)
(***************************************************************************)
LEMMA RefreshKeepsIInv ==
  ASSUME IInv, running, running' = running,
         NEW t \in Nat, now < t, now' = t,
         NEW udp \in BOOLEAN, NEW obs, DOMAIN obs \subseteq Keys,
         \A k \in DOMAIN obs : RowsOK(obs[k]),
         Update(obs, udp, t), ThrottledSave(entries', t)
  PROVE  IInv'
<1> USE TimesAssumption DEF IInv
<1> DEFINE seen == SeenKeys(obs, udp)
<1>1. /\ DOMAIN entries \subseteq Keys
      /\ \A k \in DOMAIN entries : entries[k] \in Entry
      /\ now \in Nat
  BY DEF TypeOK, EntriesOK
<1>2. Kept(obs, udp) \subseteq lastKeys /\ Stopped(obs, udp) \subseteq lastKeys
  BY DEF Kept, Stopped, Missing
<1>3. /\ seen \subseteq Keys
      /\ DOMAIN obs \subseteq seen
      /\ seen \subseteq DOMAIN entries \cup DOMAIN obs
  BY <1>1, <1>2 DEF SeenKeys, NoSilentStop
<1>4. /\ DOMAIN entries' = Remembered(obs, udp, t)
      /\ \A k \in DOMAIN entries' : entries'[k] = Folded(obs, t)[k]
      /\ lastKeys' = seen
      /\ baseline' = FALSE
  BY DEF Update
<1>5. /\ DOMAIN entries' \subseteq DOMAIN entries \cup DOMAIN obs
      /\ seen \subseteq DOMAIN entries'
  BY <1>3, <1>4 DEF Remembered
<1>6. ASSUME NEW k \in DOMAIN obs
      PROVE  /\ Folded(obs, t)[k] \in Entry
             /\ EntryClock(Folded(obs, t)[k])
             /\ Folded(obs, t)[k].lastSeen = t
  <2>1. Folded(obs, t)[k] = AfterRows(k, obs[k], t)
    BY DEF Folded
  <2> QED
    BY <2>1, AfterRowsClock
<1>7. \A k \in DOMAIN entries \ DOMAIN obs : Folded(obs, t)[k] = entries[k]
  BY DEF Folded
<1>8. \A k \in DOMAIN entries' :
        \/ k \in DOMAIN obs
        \/ k \in DOMAIN entries \ DOMAIN obs /\ entries'[k] = entries[k]
  BY <1>4, <1>5, <1>7
<1>9. EntriesOK(entries')
  BY <1>1, <1>4, <1>5, <1>6, <1>8 DEF EntriesOK
<1>10. \A k \in DOMAIN entries' : EntryClock(entries'[k]) /\ entries'[k].lastSeen <= t
  BY <1>1, <1>4, <1>6, <1>8 DEF ClocksOrdered, Entry
<1>11. /\ DOMAIN seenAt' = Keys
       /\ \A k \in DOMAIN obs : seenAt'[k] = t
       /\ \A k \in Keys \ DOMAIN obs : seenAt'[k] = seenAt[k]
       /\ seenAt' \in [Keys -> Nat]
  BY DEF Update, TypeOK
<1>12. Remembers(entries', seenAt', t)
  <2>1. ASSUME NEW k \in Keys, WithinRetention(seenAt'[k], t)
        PROVE  k \in DOMAIN entries'
    <3>1. CASE k \in DOMAIN obs
      BY <1>3, <1>5, <3>1
    <3>2. CASE k \notin DOMAIN obs
      <4>1. WithinRetention(seenAt[k], t) /\ seenAt[k] \in Nat
        BY <1>11, <2>1, <3>2 DEF TypeOK
      <4>2. WithinRetention(seenAt[k], now)
        BY <1>1, <4>1 DEF WithinRetention
      <4>3. k \in DOMAIN entries /\ entries[k].lastSeen = seenAt[k]
        BY <4>2 DEF MemoryRemembers, Remembers
      <4>4. ~Expired(Folded(obs, t)[k], t)
        BY <1>7, <3>2, <4>1, <4>3 DEF Expired, WithinRetention
      <4> QED
        BY <1>4, <4>3, <4>4 DEF Remembered
    <3> QED
      BY <3>1, <3>2
  <2>2. ASSUME NEW k \in DOMAIN entries'
        PROVE  entries'[k].lastSeen = seenAt'[k] /\ seenAt'[k] > 0
    <3>1. CASE k \in DOMAIN obs
      BY <1>1, <1>4, <1>6, <1>11, <3>1
    <3>2. CASE k \notin DOMAIN obs
      <4>1. k \in DOMAIN entries /\ entries'[k] = entries[k]
        BY <1>8, <3>2
      <4> QED
        BY <1>1, <1>11, <3>2, <4>1 DEF MemoryRemembers, Remembers
    <3> QED
      BY <3>1, <3>2
  <2> QED
    BY <2>1, <2>2 DEF Remembers
<1>13. \A k \in DOMAIN entries' \ lastKeys' : WithinRetention(seenAt'[k], t)
  <2> SUFFICES ASSUME NEW k \in DOMAIN entries' \ lastKeys'
               PROVE  WithinRetention(seenAt'[k], t)
    OBVIOUS
  <2>1. k \notin DOMAIN obs /\ ~Expired(Folded(obs, t)[k], t)
    BY <1>3, <1>4 DEF Remembered
  <2>2. entries'[k].lastSeen = seenAt'[k] /\ seenAt'[k] > 0
    BY <1>12 DEF Remembers
  <2>3. entries'[k] = Folded(obs, t)[k]
    BY <1>4
  <2>4. seenAt'[k] \in Nat
    BY <1>1, <1>8, <1>11, <2>1
  <2> QED
    BY <2>1, <2>2, <2>3, <2>4 DEF Expired, WithinRetention
<1>14. announced' \subseteq lastKeys'
  <2>1. CASE baseline
    BY <1>3, <1>4, <2>1 DEF Update
  <2>2. CASE ~baseline
    <3>1. /\ emitted' = EmittedEvents(obs, udp, t)
          /\ announced' = (announced \ KeysWith(emitted', {"stopped"}))
                             \cup KeysWith(emitted', {"started", "back"})
      BY <2>2 DEF Update
    <3>2. KeysWith(emitted', {"started", "back"}) \subseteq DOMAIN obs
      BY <3>1, EmittedKeys
    <3>3. Stopped(obs, udp) \subseteq KeysWith(emitted', {"stopped"})
      BY <3>1, EmittedKeys
    <3>4. lastKeys \subseteq DOMAIN obs \cup Kept(obs, udp) \cup Stopped(obs, udp)
      BY <2>2 DEF Kept, Stopped, Missing
    <3> QED
      BY <1>4, <3>1, <3>2, <3>3, <3>4 DEF NoSilentStop, SeenKeys
  <2> QED
    BY <2>1, <2>2 DEF TypeOK
<1>15. NoSilentStop'
  BY <1>4, <1>5, <1>14 DEF NoSilentStop
<1>16. alarmed' \subseteq Keys
  <2>1. alarmed' \subseteq InTrouble(obs, t)
    BY DEF Update
  <2> QED
    BY <2>1 DEF InTrouble, TypeOK
<1>17. \/ /\ disk' = disk /\ lastSave' = lastSave /\ seenSaved' = seenSaved
          /\ dirty' = TRUE
          /\ saveFailed' = FALSE => t - lastSave < SaveInterval
       \/ /\ disk' = Saved(entries', t) /\ lastSave' = t /\ dirty' = FALSE
          /\ seenSaved' = seenAt'
  BY DEF ThrottledSave, Write, NoWrite
<1>18. saveFailed' \in BOOLEAN
  BY DEF ThrottledSave
<1>19. /\ TypeOK'
       /\ ClocksOrdered'
       /\ Clocks'
       /\ DiskRemembers'
       /\ BoundedLoss'
  <2>1. CASE /\ disk' = disk /\ lastSave' = lastSave /\ seenSaved' = seenSaved
             /\ dirty' = TRUE
             /\ saveFailed' = FALSE => t - lastSave < SaveInterval
    <3>1. TypeOK'
      BY <1>3, <1>4, <1>9, <1>11, <1>14, <1>16, <1>18, <2>1 DEF TypeOK
    <3>2. ClocksOrdered'
      BY <1>10, <2>1 DEF ClocksOrdered
    <3>3. Clocks'
      BY <1>1, <1>11, <2>1 DEF Clocks, TypeOK
    <3>4. DiskRemembers'
      BY <2>1 DEF DiskRemembers
    <3>5. BoundedLoss'
      BY <1>1, <2>1 DEF BoundedLoss, Clocks, TypeOK
    <3> QED
      BY <3>1, <3>2, <3>3, <3>4, <3>5
  <2>2. CASE /\ disk' = Saved(entries', t) /\ lastSave' = t /\ dirty' = FALSE
             /\ seenSaved' = seenAt'
    <3>1. /\ disk'.at = t
          /\ DOMAIN disk'.entries = DOMAIN entries'
          /\ EntriesOK(disk'.entries)
          /\ \A k \in DOMAIN entries' :
               /\ disk'.entries[k].lastSeen = entries'[k].lastSeen
               /\ EntryClock(disk'.entries[k])
      BY <1>9, <1>10, <2>2, SavedKeeps
    <3>2. TypeOK'
      BY <1>3, <1>4, <1>9, <1>11, <1>14, <1>16, <1>18, <2>2, <3>1 DEF TypeOK
    <3>3. ClocksOrdered'
      BY <1>10, <3>1 DEF ClocksOrdered
    <3>4. \A k \in Keys : seenAt'[k] <= t
      BY <1>1, <1>11 DEF Clocks, TypeOK
    <3>5. Clocks'
      BY <1>1, <2>2, <3>1, <3>4 DEF Clocks
    <3>6. DiskRemembers'
      BY <1>12, <2>2, <3>1 DEF DiskRemembers, Remembers
    <3>7. BoundedLoss'
      BY <3>1 DEF BoundedLoss
    <3> QED
      BY <3>2, <3>3, <3>5, <3>6, <3>7
  <2> QED
    BY <1>17, <2>1, <2>2
<1>20. NoMemory' /\ NothingSeenYet' /\ MemoryRemembers'
  BY <1>4, <1>12, <1>13 DEF NoMemory, NothingSeenYet, MemoryRemembers
<1> QED
  BY <1>15, <1>19, <1>20

-----------------------------------------------------------------------------
(* The invariant holds initially and is kept by every step. *)

\* The store starts with nothing in memory and nothing saved.
LEMMA InitIInv == Init => IInv
<1> SUFFICES ASSUME Init PROVE IInv
  OBVIOUS
<1> USE TimesAssumption DEF Init
<1>1. DOMAIN NoEntries = {}
  BY DEF NoEntries
<1>2. TypeOK
  BY <1>1 DEF TypeOK, EntriesOK
<1>3. NoSilentStop /\ ClocksOrdered
  BY <1>1 DEF NoSilentStop, ClocksOrdered
<1>4. NoMemory /\ NothingSeenYet /\ Clocks
  BY DEF NoMemory, NothingSeenYet, Clocks
<1>5. MemoryRemembers /\ DiskRemembers /\ BoundedLoss
  BY <1>1 DEF MemoryRemembers, DiskRemembers, Remembers, WithinRetention, BoundedLoss
<1> QED
  BY <1>2, <1>3, <1>4, <1>5 DEF IInv

\* Closing and crashing forget the memory and keep or replace the file.
LEMMA EndKeepsIInv == IInv /\ (Close \/ Crash) => IInv'
<1> SUFFICES ASSUME IInv, Close \/ Crash PROVE IInv'
  OBVIOUS
<1> USE DEF IInv
<1>1. running /\ Forget
  BY DEF Close, Crash
<1>2. DOMAIN NoEntries = {}
  BY DEF NoEntries
<1>3. /\ EntriesOK(entries)
      /\ \A k \in DOMAIN entries : EntryClock(entries[k]) /\ entries[k].lastSeen <= now
      /\ now \in Nat
  BY DEF TypeOK, ClocksOrdered
<1>4. \/ disk' = disk /\ seenSaved' = seenSaved /\ seenAt' = seenSaved
      \/ disk' = Saved(entries, now) /\ seenSaved' = seenAt /\ seenAt' = seenAt
  BY DEF Close, Crash
<1>5. NoSilentStop' /\ NoMemory' /\ NothingSeenYet' /\ MemoryRemembers' /\ BoundedLoss'
  BY <1>1, <1>2, <1>4
     DEF Forget, NoSilentStop, NoMemory, NothingSeenYet, MemoryRemembers, BoundedLoss
<1>6. TypeOK' /\ ClocksOrdered' /\ Clocks' /\ DiskRemembers'
  <2>1. CASE disk' = disk /\ seenSaved' = seenSaved /\ seenAt' = seenSaved
    <3>1. TypeOK'
      BY <1>1, <1>2, <2>1 DEF Forget, TypeOK, EntriesOK
    <3>2. ClocksOrdered'
      BY <1>1, <1>2, <2>1 DEF Forget, ClocksOrdered
    <3>3. Clocks'
      BY <1>1, <1>3, <2>1 DEF Forget, Clocks, TypeOK
    <3> QED
      BY <2>1, <3>1, <3>2, <3>3 DEF DiskRemembers
  <2>2. CASE disk' = Saved(entries, now) /\ seenSaved' = seenAt /\ seenAt' = seenAt
    <3>1. /\ disk'.at = now
          /\ DOMAIN disk'.entries = DOMAIN entries
          /\ EntriesOK(disk'.entries)
          /\ \A k \in DOMAIN entries :
               /\ disk'.entries[k].lastSeen = entries[k].lastSeen
               /\ EntryClock(disk'.entries[k])
      BY <1>3, <2>2, SavedKeeps
    <3>2. TypeOK'
      BY <1>1, <1>2, <1>3, <2>2, <3>1 DEF Forget, TypeOK, EntriesOK
    <3>3. ClocksOrdered'
      BY <1>1, <1>2, <1>3, <3>1 DEF Forget, ClocksOrdered
    <3>4. Clocks'
      BY <1>1, <1>3, <2>2, <3>1 DEF Forget, Clocks, TypeOK
    <3>5. DiskRemembers'
      BY <1>1, <2>2, <3>1 DEF DiskRemembers, MemoryRemembers, Remembers
    <3> QED
      BY <3>2, <3>3, <3>4, <3>5
  <2> QED
    BY <1>4, <2>1, <2>2
<1> QED
  BY <1>5, <1>6

\* Loading brings back the ports the file remembers.
LEMMA StartKeepsIInv ==
  ASSUME IInv, NEW t \in Nat, now < t, Start(t)
  PROVE  IInv'
<1> USE DEF IInv
<1>1. /\ ~running /\ running' = TRUE /\ now' = t
      /\ DOMAIN entries' = {k \in DOMAIN disk.entries : ~Expired(disk.entries[k], t)}
      /\ \A k \in DOMAIN entries' : entries'[k] = disk.entries[k]
      /\ lastKeys' = lastKeys /\ baseline' = baseline /\ dirty' = dirty
      /\ lastSave' = lastSave /\ disk' = disk /\ announced' = announced
      /\ alarmed' = alarmed /\ seenAt' = seenAt /\ seenSaved' = seenSaved
      /\ saveFailed' = saveFailed
  BY DEF Start, reader
<1>2. /\ baseline /\ lastKeys = {} /\ announced = {} /\ seenAt = seenSaved
  BY <1>1 DEF NoMemory, NothingSeenYet
<1>3. TypeOK'
  BY <1>1 DEF TypeOK, EntriesOK
<1>4. /\ now \in Nat /\ disk.at \in Nat
      /\ \A k \in DOMAIN disk.entries :
           disk.entries[k].lastSeen \in Nat /\ disk.entries[k].lastSeen <= disk.at
      /\ \A k \in Keys : seenSaved[k] \in Nat
      /\ disk.at <= now
  BY DEF TypeOK, EntriesOK, Entry, ClocksOrdered, Clocks
<1> USE TimesAssumption
<1>5. NoSilentStop' /\ NoMemory' /\ NothingSeenYet' /\ BoundedLoss'
  BY <1>1, <1>2 DEF NoSilentStop, NoMemory, NothingSeenYet, BoundedLoss
<1>6. ClocksOrdered' /\ Clocks'
  <2>1. ClocksOrdered'
    BY <1>1, <1>4 DEF ClocksOrdered
  <2>2. Clocks'
    BY <1>1, <1>4, TimesAssumption DEF Clocks, TypeOK
  <2> QED
    BY <2>1, <2>2
<1>7. DiskRemembers'
  BY <1>1 DEF DiskRemembers
<1>8. MemoryRemembers'
  <2>1. ASSUME NEW k \in Keys, WithinRetention(seenSaved[k], t)
        PROVE  k \in DOMAIN entries'
    <3>1. WithinRetention(seenSaved[k], disk.at)
      BY <1>4, <2>1 DEF WithinRetention
    <3>2. k \in DOMAIN disk.entries /\ disk.entries[k].lastSeen = seenSaved[k]
      BY <3>1 DEF DiskRemembers, Remembers
    <3>3. ~Expired(disk.entries[k], t)
      BY <1>4, <2>1, <3>2 DEF Expired, WithinRetention
    <3> QED
      BY <1>1, <3>2, <3>3
  <2>2. ASSUME NEW k \in DOMAIN entries'
        PROVE  /\ entries'[k].lastSeen = seenSaved[k] /\ seenSaved[k] > 0
               /\ WithinRetention(seenSaved[k], t)
    <3>1. /\ k \in DOMAIN disk.entries /\ ~Expired(disk.entries[k], t)
          /\ entries'[k] = disk.entries[k]
      BY <1>1
    <3>2. disk.entries[k].lastSeen = seenSaved[k] /\ seenSaved[k] > 0
      BY <3>1 DEF DiskRemembers, Remembers
    <3>3. seenSaved[k] \in Nat
      BY <3>1, <3>2, <1>4
    <3>4. WithinRetention(seenSaved[k], t)
      BY <1>4, <3>1, <3>2, <3>3 DEF Expired, WithinRetention
    <3> QED
      BY <3>1, <3>2, <3>4
  <2> QED
    BY <1>1, <1>2, <2>1, <2>2 DEF MemoryRemembers, Remembers
<1> QED
  BY <1>3, <1>5, <1>6, <1>7, <1>8

\* The times of a step lie after the last clock reading.
LEMMA TimesAhead == ASSUME TypeOK PROVE \A t \in Times : t \in Nat /\ now < t
BY TimesAssumption DEF Times, TypeOK

LEMMA NextIInv == IInv /\ [Next]_vars => IInv'
<1> SUFFICES ASSUME IInv, [Next]_vars PROVE IInv'
  OBVIOUS
<1>1. ASSUME NEW t \in Times, NEW udp \in BOOLEAN, NEW obs \in Observations(udp),
             Refresh(obs, udp, t)
      PROVE  IInv'
  <2>1. t \in Nat /\ now < t
    BY TimesAhead DEF IInv
  <2>2. DOMAIN obs \subseteq Keys /\ \A k \in DOMAIN obs : RowsOK(obs[k])
    BY RowsAreOK DEF Observations, Collected
  <2>3. /\ running /\ running' = running /\ now' = t
        /\ Update(obs, udp, t) /\ ThrottledSave(entries', t)
    BY <1>1 DEF Refresh
  <2> QED
    BY <2>1, <2>2, <2>3, RefreshKeepsIInv
<1>2. CASE Note
  <2>1. /\ now' = now /\ running' = running /\ entries' = entries /\ lastKeys' = lastKeys
        /\ baseline' = baseline /\ dirty' = TRUE /\ lastSave' = lastSave /\ disk' = disk
        /\ announced' = announced /\ alarmed' = alarmed /\ seenAt' = seenAt
        /\ seenSaved' = seenSaved /\ saveFailed' = saveFailed
    BY <1>2 DEF Note, reader
  <2>2. TypeOK' /\ NoSilentStop' /\ ClocksOrdered' /\ BoundedLoss'
    BY <2>1 DEF IInv, TypeOK, NoSilentStop, ClocksOrdered, BoundedLoss
  <2>3. NoMemory' /\ NothingSeenYet' /\ Clocks' /\ MemoryRemembers' /\ DiskRemembers'
    BY <2>1 DEF IInv, NoMemory, NothingSeenYet, Clocks, MemoryRemembers, DiskRemembers
  <2> QED
    BY <2>2, <2>3 DEF IInv
<1>3. CASE Close \/ Crash
  BY <1>3, EndKeepsIInv
<1>4. ASSUME NEW t \in Times, Start(t)
      PROVE  IInv'
  BY <1>4, TimesAhead, StartKeepsIInv DEF IInv
<1>5. CASE UNCHANGED vars
  <2>1. TypeOK' /\ NoSilentStop' /\ ClocksOrdered' /\ BoundedLoss'
    BY <1>5 DEF vars, memory, reader, IInv, TypeOK, NoSilentStop, ClocksOrdered, BoundedLoss
  <2>2. NoMemory' /\ NothingSeenYet' /\ Clocks' /\ MemoryRemembers' /\ DiskRemembers'
    BY <1>5 DEF vars, memory, reader, IInv, NoMemory, NothingSeenYet, Clocks,
                MemoryRemembers, DiskRemembers
  <2> QED
    BY <2>1, <2>2 DEF IInv
<1> QED
  BY <1>1, <1>2, <1>3, <1>4, <1>5 DEF Next

THEOREM Inductive == Spec => []IInv
<1> QED
  BY InitIInv, NextIInv, PTL DEF Spec

-----------------------------------------------------------------------------
(* The results. *)

\* Every variable keeps its type.
THEOREM TypeCorrect == Spec => []TypeOK
<1>1. IInv => TypeOK
  BY DEF IInv
<1> QED
  BY Inductive, <1>1, PTL

\* No port the events call up disappears without an event.
THEOREM StopsAreTold == Spec => []NoSilentStop
<1>1. IInv => NoSilentStop
  BY DEF IInv
<1> QED
  BY Inductive, <1>1, PTL

\* The clocks of every entry, in memory and on disk, run forward.
THEOREM ClocksRunForward == Spec => []ClocksOrdered
<1>1. IInv => ClocksOrdered
  BY DEF IInv
<1> QED
  BY Inductive, <1>1, PTL

\* No port found within the retention is forgotten, none is kept for longer.
THEOREM PortsAreRemembered == Spec => []PortsRemembered
<1>1. IInv => PortsRemembered
  BY DEF IInv, MemoryRemembers, Remembers, PortsRemembered
<1> QED
  BY Inductive, <1>1, PTL

\* A crash loses at most one save interval unless the last write failed.
THEOREM LossIsBounded == Spec => []BoundedLoss
<1>1. IInv => BoundedLoss
  BY DEF IInv
<1> QED
  BY Inductive, <1>1, PTL

-----------------------------------------------------------------------------
(* The restart counter. *)

\* A port that was there all along counts a restart only if it has one row, whose PIDs are
\* none of those before.
LEMMA CountedAlone ==
  ASSUME NEW e, NEW rows, RowsOK(rows), NEW t, NEW first,
         NEW i \in CountedRows(e, rows, t, FALSE, first)
  PROVE  Len(rows) = 1 /\ rows[1].pids \cap e.pids = {}
<1>1. i \in 1..Len(rows) /\ Len(rows) \in Nat \ {0}
  BY RowsHave DEF CountedRows
<1>2. PidChange(Held(e, rows, t, i), rows[i], t, FALSE) \in Counted
  BY DEF CountedRows, RowChange, Counted
<1>3. /\ rows[i].pids # {} /\ Held(e, rows, t, i).pids # {}
      /\ rows[i].pids \cap Held(e, rows, t, i).pids = {}
  BY <1>2 DEF PidChange, Counted
<1>4. \A j \in 1..(Len(rows) - 1) : rows[j].pids = {}
  BY DEF RowsOK
<1>5. i = 1
  <2> SUFFICES ASSUME i # 1 PROVE FALSE
    OBVIOUS
  <2>1. Held(e, rows, t, i).pids = rows[i - 1].pids /\ i - 1 \in 1..(Len(rows) - 1)
    BY <1>1 DEF Held
  <2> QED
    BY <1>3, <1>4, <2>1
<1>6. Len(rows) = 1
  <2> SUFFICES ASSUME Len(rows) # 1 PROVE FALSE
    OBVIOUS
  <2>1. 1 \in 1..(Len(rows) - 1)
    BY <1>1
  <2> QED
    BY <1>3, <1>4, <1>5, <2>1
<1> QED
  BY <1>3, <1>5, <1>6 DEF Held

\* An event of a row found is one of the kinds of that row.
LEMMA RowEventsAre ==
  ASSUME NEW obs, NEW t, NEW kind, NEW k
  PROVE  Event(kind, k) \in RowEvents(obs, t) <=>
           k \in DOMAIN obs /\ \E i \in DOMAIN obs[k] : kind \in SeenKinds(k, obs[k], t, i)
<1>1. \A j, x : Event(kind, k) = Event(x, j) <=> kind = x /\ k = j
  BY DEF Event
<1> QED
  BY <1>1 DEF RowEvents, KindsOf

\* The events of a known port that count a restart are its PID changes.
LEMMA CountingEvents ==
  ASSUME NEW obs, NEW udp, NEW t, NEW k \in DOMAIN obs, k \in DOMAIN entries
  PROVE  (\E kind \in Counted : Event(kind, k) \in EmittedEvents(obs, udp, t)) <=>
           CountedRows(entries[k], obs[k], t, k \notin lastKeys, baseline) # {}
<1>1. \A kind \in Counted : kind \notin {"started", "stopped", "conflict", "none"}
  BY DEF Counted
<1>2. \A old, r : StatusChange(old, r) \notin Counted
  BY DEF StatusChange, Counted
<1>3. \A kind \in Counted : Event(kind, k) \in EmittedEvents(obs, udp, t)
                               <=> Event(kind, k) \in RowEvents(obs, t)
  BY <1>1 DEF EmittedEvents, Event
<1>4. ASSUME NEW kind \in Counted, NEW i \in DOMAIN obs[k]
      PROVE  kind \in SeenKinds(k, obs[k], t, i)
               <=> kind = RowChange(entries[k], obs[k], t, k \notin lastKeys, baseline, i)
  BY <1>1, <1>2 DEF SeenKinds, RowKinds
<1> QED
  BY <1>3, <1>4, RowEventsAre DEF CountedRows

LEMMA NextRestartStep == IInv /\ [Next]_vars => [\A k \in Keys : RestartStep(k)]_vars
<1> SUFFICES ASSUME IInv, Next, NEW k \in Keys, Remembering(k)
             PROVE  RestartStep(k)
  BY DEF RestartStep
<1>1. ASSUME NEW t \in Times, NEW udp \in BOOLEAN, NEW obs \in Observations(udp),
             Refresh(obs, udp, t)
      PROVE  RestartStep(k)
  <2>1. t \in Nat /\ now < t /\ now \in Nat
    BY TimesAhead DEF IInv, TypeOK
  <2>2. k \in DOMAIN entries /\ k \in DOMAIN entries' /\ now' = t
    BY <1>1 DEF Remembering, Refresh
  <2>3. /\ entries'[k] = Folded(obs, t)[k]
        /\ emitted' = EmittedEvents(obs, udp, t)
    BY <1>1, <2>2 DEF Refresh, Update
  <2>4. CASE k \in DOMAIN obs
    <3> DEFINE wasAbsent == k \notin lastKeys
               counted == CountedRows(entries[k], obs[k], t, wasAbsent, baseline)
    <3>1. entries'[k] = FoldRows(entries[k], obs[k], t, wasAbsent, baseline)
      BY <2>2, <2>3, <2>4 DEF Folded, AfterRows
    <3>2. /\ entries[k] \in Entry /\ RowsOK(obs[k])
          /\ EntryClock(entries[k]) /\ entries[k].lastSeen <= t
          /\ wasAbsent \in BOOLEAN /\ baseline \in BOOLEAN
      <4>1. entries[k] \in Entry /\ baseline \in BOOLEAN
        BY <2>2 DEF IInv, TypeOK, EntriesOK
      <4>2. EntryClock(entries[k]) /\ entries[k].lastSeen <= now
        BY <2>2 DEF IInv, ClocksOrdered
      <4>3. obs[k] \in RowsOf[k]
        BY <2>4 DEF Observations
      <4>4. RowsOK(obs[k])
        BY <4>3, RowsAreOK
      <4>5. entries[k].lastSeen \in Nat
        BY <4>1 DEF Entry
      <4> QED
        BY <2>1, <4>1, <4>2, <4>4, <4>5
    <3>3. (\E kind \in Counted : Event(kind, k) \in emitted') <=> counted # {}
      BY <2>2, <2>3, <2>4, CountingEvents
    <3>4. k \in lastKeys => wasAbsent = FALSE
      OBVIOUS
    <3> HIDE DEF wasAbsent
    <3>5. /\ CountedNow(k) <=> counted # {}
          /\ entries'[k].pids = obs[k][Len(obs[k])].pids
      BY <2>1, <3>1, <3>2, FoldRowsClock DEF CountedNow
    <3>6. k \in lastKeys /\ counted # {} => obs[k][Len(obs[k])].pids \cap entries[k].pids = {}
      BY <3>2, <3>4, CountedAlone
    <3> HIDE DEF counted
    <3> QED
      BY <2>1, <2>2, <3>3, <3>5, <3>6 DEF RestartStep
  <2>5. CASE k \notin DOMAIN obs
    <3>1. ~CountedNow(k)
      BY <2>2, <2>3, <2>5 DEF Folded, CountedNow
    <3>2. \A kind \in Counted : Event(kind, k) \notin emitted'
      <4>1. \A kind \in Counted : kind # "stopped"
        BY DEF Counted
      <4>2. \A kind : Event(kind, k) \notin RowEvents(obs, t)
        BY <2>5, RowEventsAre
      <4> QED
        BY <2>3, <4>1, <4>2 DEF EmittedEvents, Event
    <3> QED
      BY <3>1, <3>2 DEF RestartStep
  <2> QED
    BY <2>4, <2>5
<1>2. CASE Note
  BY <1>2 DEF Note, RestartStep, CountedNow
<1>3. CASE Close \/ Crash
  BY <1>3 DEF Close, Crash, Forget, Remembering
<1>4. ASSUME NEW t \in Times, Start(t) PROVE RestartStep(k)
  BY <1>4 DEF Start, Remembering
<1> QED
  BY <1>1, <1>2, <1>3, <1>4 DEF Next

\* A restart is counted exactly when an event says so, and a port that was
\* there all along is restarted only when every previous PID is gone.
THEOREM RestartsAreTold == Spec => RestartsAreEvents
<1> QED
  BY Inductive, NextRestartStep, PTL DEF Spec, RestartsAreEvents

-----------------------------------------------------------------------------
(* The event stream implements the port log. *)

LEMMA InitLog == Init => Log!Init
BY DEF Init, Log!Init

\* Only a port that was away is told as started or back, and a row tells no stop.
LEMMA KindsTold ==
  ASSUME NEW k, lastKeys \subseteq DOMAIN entries, NEW rows, NEW t, NEW i,
         NEW kind \in SeenKinds(k, rows, t, i)
  PROVE  /\ kind # "stopped"
         /\ kind \in {"started", "back"} => k \notin lastKeys
<1>1. \A old, r : StatusChange(old, r) \notin {"started", "back", "stopped"}
  BY DEF StatusChange
<1>2. \A e, r, absent : /\ PidChange(e, r, t, absent) \notin {"started", "stopped"}
                        /\ PidChange(e, r, t, absent) = "back" => absent
  BY DEF PidChange
<1>3. \A e, rs, absent, j : kind \in RowKinds(e, rs, t, absent, j) =>
        kind \notin {"started", "stopped"} /\ (kind = "back" => absent)
  BY <1>1, <1>2 DEF RowKinds, RowChange
<1> QED
  BY <1>3 DEF SeenKinds

LEMMA NextLog == IInv /\ [Next]_vars => [Log!Next]_(Log!logVars)
<1> SUFFICES ASSUME IInv, [Next]_vars PROVE [Log!Next]_(Log!logVars)
  OBVIOUS
<1> USE DEF Log!Next, Log!logVars
<1>1. ASSUME NEW t \in Times, NEW udp \in BOOLEAN, NEW obs \in Observations(udp),
             Refresh(obs, udp, t)
      PROVE  Log!Next
  <2>1. /\ lastKeys' = SeenKeys(obs, udp) /\ baseline' = FALSE
        /\ emitted' = EmittedEvents(obs, udp, t)
    BY <1>1 DEF Refresh, Update
  <2>2. DOMAIN obs \subseteq Keys /\ lastKeys \subseteq Keys /\ announced \subseteq lastKeys
    BY DEF Observations, Collected, IInv, TypeOK, NoSilentStop
  <2>3. lastKeys' \subseteq Keys
    BY <2>1, <2>2 DEF SeenKeys, Kept, Missing
  <2>4. CASE baseline
    <3>1. announced' = DOMAIN obs
      BY <1>1, <2>4 DEF Refresh, Update
    <3>2. lastKeys' = DOMAIN obs
      BY <2>1, <2>4 DEF SeenKeys, Kept, Missing
    <3> QED
      BY <2>1, <2>3, <2>4, <3>1, <3>2 DEF Log!FirstPicture
  <2>5. CASE ~baseline
    <3>1. announced' = (announced \ KeysWith(emitted', {"stopped"}))
                         \cup KeysWith(emitted', {"started", "back"})
      BY <1>1, <2>5 DEF Refresh, Update
    <3>2. /\ KeysWith(emitted', {"started", "back"}) \subseteq DOMAIN obs \ lastKeys
          /\ KeysWith(emitted', {"stopped"}) = Stopped(obs, udp)
      <4>1. \A ev \in emitted' :
              \/ ev.key \in Stopped(obs, udp) /\ ev.kind = "stopped"
              \/ /\ ev.key \in DOMAIN obs /\ ev.kind # "stopped"
                 /\ ev.kind \in {"started", "back"} => ev.key \notin lastKeys
        <5>1. lastKeys \subseteq DOMAIN entries
          BY DEF IInv, NoSilentStop
        <5>2. \A ev \in RowEvents(obs, t) :
                ev.key \in DOMAIN obs /\ \E i : ev.kind \in SeenKinds(ev.key, obs[ev.key], t, i)
          BY DEF RowEvents, KindsOf, Event
        <5>3. \A ev \in RowEvents(obs, t) :
                ev.key \in DOMAIN obs /\ ev.kind # "stopped"
                /\ (ev.kind \in {"started", "back"} => ev.key \notin lastKeys)
          BY <5>1, <5>2, KindsTold
        <5> QED
          BY <2>1, <5>3 DEF EmittedEvents, Event
      <4>2. Stopped(obs, udp) \subseteq KeysWith(emitted', {"stopped"})
        BY <2>1, <2>2, EmittedKeys DEF IInv
      <4> QED
        BY <4>1, <4>2 DEF KeysWith
    <3>3. /\ lastKeys' = DOMAIN obs \cup Kept(obs, udp)
          /\ lastKeys \subseteq DOMAIN obs \cup Kept(obs, udp) \cup Stopped(obs, udp)
          /\ Stopped(obs, udp) \cap (DOMAIN obs \cup Kept(obs, udp)) = {}
      BY <2>1, <2>5 DEF SeenKeys, Kept, Stopped, Missing
    <3>4. /\ announced' \subseteq lastKeys'
          /\ announced \cap lastKeys' \subseteq announced'
          /\ announced' \ announced \subseteq lastKeys' \ lastKeys
      BY <2>2, <3>1, <3>2, <3>3
    <3> QED
      BY <2>1, <2>3, <2>5, <3>4 DEF Log!Observe
  <2> QED
    BY <2>4, <2>5 DEF IInv, TypeOK
<1>2. CASE Note
  BY <1>2 DEF Note, reader
<1>3. CASE Close \/ Crash
  BY <1>3 DEF Close, Crash, Forget, Log!NewSession
<1>4. ASSUME NEW t \in Times, Start(t) PROVE UNCHANGED Log!logVars
  BY <1>4 DEF Start, reader
<1>5. CASE UNCHANGED vars
  BY <1>5 DEF vars, memory, reader
<1> QED
  BY <1>1, <1>2, <1>3, <1>4, <1>5 DEF Next

\* The events a process of lirts emits are a faithful log of its ports.
THEOREM EventsAreAPortLog == Spec => LogSpec
<1> QED
  BY Inductive, InitLog, NextLog, PTL DEF Spec, LogSpec, Log!Spec

-----------------------------------------------------------------------------
(* Reported trouble. *)

\* Trouble is known only of ports that were seen, and of none at the start.
AlarmInv ==
  /\ alarmed \subseteq lastKeys
  /\ baseline => alarmed = {}
  /\ FailureIsResolved

\* A row that is found healthy after trouble is told as recovered, and trouble is told of
\* no row that is healthy.
LEMMA AlarmKinds ==
  ASSUME "unknown" \notin Statuses,
         NEW old \in Statuses, NEW s \in Sighting
  PROVE  /\ s.status = "healthy" /\ old # "healthy" => StatusChange(old, s) = "recovered"
         /\ StatusChange(old, s) \in {"failing", "degraded"} => s.status # "healthy"
         /\ s.conflict => s.status # "healthy" /\ s.pids # {}
BY StatusesAssumption DEF StatusChange, Sighting, AllStatuses, Conflict

\* The first refresh of a process tells trouble only of the last row of a port; a row in
\* trouble is not healthy.
LEMMA TroubleTold ==
  ASSUME NEW k, NEW rows, RowsOK(rows), NEW t, NEW i \in 1..Len(rows),
         SeenKinds(k, rows, t, i) \cap Troubles # {}
  PROVE  rows[i].status # "healthy" /\ (baseline => i = Len(rows))
<1>1. PICK kind \in Troubles : kind \in SeenKinds(k, rows, t, i)
  OBVIOUS
<1>2. \A e, r, absent : PidChange(e, r, t, absent) \notin Troubles
  BY DEF PidChange, Troubles
<1>3. \A old, r : StatusChange(old, r) \in Troubles => r.status # "healthy"
  BY DEF StatusChange, Troubles
<1>4. \A e, rs, absent, j : kind \in RowKinds(e, rs, t, absent, j) =>
        rs[j].conflict \/ (rs[j].status # "healthy" /\ ~baseline)
  BY <1>1, <1>2, <1>3 DEF RowKinds, RowChange, Troubles
<1>5. rows[i].conflict \/ (rows[i].status # "healthy" /\ ~baseline)
  <2>1. CASE k \in DOMAIN entries \/ i = 1
    BY <1>1, <1>4, <2>1 DEF SeenKinds, Troubles
  <2>2. CASE k \notin DOMAIN entries /\ i # 1
    <3>1. i - 1 \in 1..(Len(rows) - 1) /\ Len(rows) # 1
      BY <2>2, RowsHave
    <3>2. Tail(rows)[i - 1] = rows[(i - 1) + 1] /\ (i - 1) + 1 = i
      BY <3>1, RowsHave
    <3>3. Tail(rows)[i - 1] = rows[i]
      BY <3>2
    <3> QED
      BY <1>1, <1>4, <2>2, <3>3 DEF SeenKinds
  <2> QED
    BY <2>1, <2>2
<1>6. rows[i].conflict => rows[i].status # "healthy" /\ rows[i].pids # {}
  BY RowsHave DEF Sighting, Conflict
<1>7. rows[i].conflict => i = Len(rows)
  BY <1>6, RowsHave DEF RowsOK
<1> QED
  BY <1>5, <1>6, <1>7

\* A row that is healthy after one that was not is told as recovered.
LEMMA RecoveryTold ==
  ASSUME "unknown" \notin Statuses, ~baseline,
         NEW k, NEW rows, RowsOK(rows), NEW t, NEW j \in 1..Len(rows), rows[j].status = "healthy",
         j = 1 => /\ k \in DOMAIN entries /\ entries[k].health \in Statuses
                  /\ entries[k].health # "healthy",
         j # 1 => rows[j - 1].status # "healthy"
  PROVE  "recovered" \in SeenKinds(k, rows, t, j)
<1>1. rows[j] \in Sighting /\ (j # 1 => j - 1 \in 1..Len(rows) /\ rows[j - 1] \in Sighting)
  BY RowsHave
<1>2. \A e, rs, absent, i : StatusChange(Held(e, rs, t, i).health, rs[i]) = "recovered"
                           => "recovered" \in RowKinds(e, rs, t, absent, i)
  BY DEF RowKinds
<1>3. CASE k \in DOMAIN entries
  <2>1. Held(entries[k], rows, t, j).health
          = IF j = 1 THEN entries[k].health ELSE rows[j - 1].status
    BY DEF Held
  <2>2. /\ Held(entries[k], rows, t, j).health \in Statuses
        /\ Held(entries[k], rows, t, j).health # "healthy"
    BY <1>1, <2>1 DEF Sighting
  <2> QED
    BY <1>1, <1>2, <1>3, <2>2, AlarmKinds DEF SeenKinds
<1>4. CASE k \notin DOMAIN entries
  <2> DEFINE new == NewEntry(Head(rows), t)
  <2>1. j # 1 /\ Len(rows) # 1 /\ j - 1 \in 1..(Len(rows) - 1) /\ Len(rows) \in Nat
    BY <1>4, RowsHave
  <2>2. /\ \A i \in 1..(Len(rows) - 1) : Tail(rows)[i] = rows[i + 1]
        /\ new.health = rows[1].status
    BY <2>1, RowsHave DEF NewEntry
  <2>3. Tail(rows)[j - 1] = rows[j]
    <3>1. Tail(rows)[j - 1] = rows[(j - 1) + 1] /\ (j - 1) + 1 = j
      BY <2>1, <2>2
    <3> QED
      BY <3>1
  <2>4. Held(new, Tail(rows), t, j - 1).health = rows[j - 1].status
    <3>1. CASE j = 2
      BY <2>2, <3>1 DEF Held
    <3>2. CASE j # 2
      <4>1. j - 2 \in 1..(Len(rows) - 1) /\ (j - 2) + 1 = j - 1 /\ (j - 1) - 1 = j - 2
        BY <2>1, <3>2
      <4>2. Tail(rows)[j - 2] = rows[j - 1]
        BY <2>2, <4>1
      <4> QED
        BY <2>1, <3>2, <4>1, <4>2 DEF Held
    <3> QED
      BY <3>1, <3>2
  <2> HIDE DEF new
  <2>5. StatusChange(rows[j - 1].status, rows[j]) = "recovered"
    BY <1>1, <2>1, AlarmKinds DEF Sighting
  <2>6. "recovered" \in RowKinds(new, Tail(rows), t, k \notin lastKeys, j - 1)
    BY <1>2, <2>3, <2>4, <2>5
  <2> QED
    BY <1>4, <2>1, <2>6 DEF SeenKinds, new
<1> QED
  BY <1>3, <1>4

\* A port that was not healthy before some row, and is after the last, has a row between
\* that is told as recovered.
LEMMA HealingTold ==
  ASSUME "unknown" \notin Statuses, ~baseline,
         NEW k, NEW rows, RowsOK(rows), NEW t, NEW i \in 0..Len(rows),
         rows[Len(rows)].status = "healthy",
         i = 0 => /\ k \in DOMAIN entries /\ entries[k].health \in Statuses
                  /\ entries[k].health # "healthy",
         i # 0 => rows[i].status # "healthy"
  PROVE  \E j \in 1..Len(rows) : j > i /\ "recovered" \in SeenKinds(k, rows, t, j)
<1> DEFINE T == {j \in 1..Len(rows) : j > i /\ rows[j].status = "healthy"}
<1>1. Len(rows) \in Nat \ {0}
  BY RowsHave
<1>2. T \in SUBSET Nat /\ Len(rows) \in T
  BY <1>1
<1>3. PICK j \in T : \A m \in T : j <= m
  BY <1>2, LeastNatural
<1>4. j = 1 => i = 0
  BY <1>1, <1>3
<1>5. j # 1 => rows[j - 1].status # "healthy"
  <2> SUFFICES ASSUME j # 1, rows[j - 1].status = "healthy" PROVE FALSE
    OBVIOUS
  <2>1. j \in 1..Len(rows) /\ j > i /\ j - 1 \in 1..Len(rows)
    BY <1>1, <1>3
  <2>2. j - 1 # i
    BY <2>1
  <2>3. j - 1 \in T
    BY <1>1, <2>1, <2>2
  <2> QED
    BY <1>3, <2>1, <2>3
<1> QED
  BY <1>3, <1>4, <1>5, RecoveryTold

LEMMA NextAlarm ==
  ASSUME "unknown" \notin Statuses
  PROVE  IInv /\ AlarmInv /\ [Next]_vars => AlarmInv'
<1> SUFFICES ASSUME IInv, AlarmInv, [Next]_vars PROVE AlarmInv'
  OBVIOUS
<1>1. ASSUME NEW t \in Times, NEW udp \in BOOLEAN, NEW obs \in Observations(udp),
             Refresh(obs, udp, t)
      PROVE  AlarmInv'
  <2>1. /\ lastKeys' = SeenKeys(obs, udp) /\ baseline' = FALSE
        /\ emitted' = EmittedEvents(obs, udp, t)
        /\ alarmed' = InTrouble(obs, t) \ KeysWith(emitted', {"stopped"})
        /\ \A k \in DOMAIN entries' : entries'[k] = Folded(obs, t)[k]
        /\ SeenKeys(obs, udp) \cap (DOMAIN entries \cup DOMAIN obs) \subseteq DOMAIN entries'
    BY <1>1 DEF Refresh, Update, Remembered
  <2>2. /\ lastKeys \subseteq DOMAIN entries /\ DOMAIN obs \subseteq Keys
        /\ \A k \in DOMAIN entries : entries[k].health \in Statuses
        /\ \A k \in DOMAIN obs : RowsOK(obs[k])
    BY RowsAreOK DEF IInv, NoSilentStop, TypeOK, EntriesOK, Entry, Observations, Collected
  <2>3. ASSUME NEW k \in alarmed'
        PROVE  k \in lastKeys' /\ k \in DOMAIN entries' /\ entries'[k].health # "healthy"
    <3>1. CASE k \notin DOMAIN obs
      <4>1. k \in alarmed
        BY <2>1, <3>1 DEF InTrouble
      <4>2. ~baseline /\ k \in lastKeys
        BY <4>1 DEF AlarmInv
      <4>3. Stopped(obs, udp) \subseteq KeysWith(emitted', {"stopped"})
        BY <2>1, <2>2, EmittedKeys DEF IInv
      <4>5. k \in Kept(obs, udp)
        BY <2>1, <3>1, <4>2, <4>3 DEF Kept, Stopped, Missing
      <4>6. entries'[k] = entries[k] /\ k \in DOMAIN entries'
        BY <2>1, <2>2, <3>1, <4>2, <4>5 DEF Folded, SeenKeys
      <4> QED
        BY <2>1, <4>1, <4>5, <4>6 DEF AlarmInv, FailureIsResolved, SeenKeys
    <3>2. CASE k \in DOMAIN obs
      <4>1. k \in lastKeys' /\ k \in DOMAIN entries'
        BY <2>1, <3>2 DEF SeenKeys
      <4> DEFINE rows == obs[k]
      <4>2. RowsOK(rows) /\ Len(rows) \in Nat \ {0} /\ DOMAIN rows = 1..Len(rows)
        BY <2>2, <3>2, RowsHave
      <4>3. entries'[k].health = rows[Len(rows)].status
        <5>1. entries'[k] = AfterRows(k, rows, t)
          BY <2>1, <3>2, <4>1 DEF Folded
        <5>2. TypeOK /\ ClocksOrdered /\ t \in Nat /\ now < t
          BY TimesAhead DEF IInv
        <5> QED
          BY <4>2, <5>1, <5>2, AfterRowsClock
      <4>4. SUFFICES ASSUME rows[Len(rows)].status = "healthy" PROVE FALSE
        BY <4>1, <4>3
      <4>5. CASE /\ k \in alarmed
                 /\ \A i \in DOMAIN rows : "recovered" \notin SeenKinds(k, rows, t, i)
        <5>1. ~baseline /\ k \in DOMAIN entries /\ entries[k].health # "healthy"
              /\ entries[k].health \in Statuses
          BY <2>2, <4>5 DEF AlarmInv, FailureIsResolved
        <5>2. \E j \in 1..Len(rows) : j > 0 /\ "recovered" \in SeenKinds(k, rows, t, j)
          <6>1. 0 \in 0..Len(rows)
            BY <4>2
          <6> HIDE DEF rows
          <6> QED
            BY <4>2, <4>4, <5>1, <6>1, HealingTold
        <5> QED
          BY <4>2, <4>5, <5>2
      <4>6. ASSUME NEW i \in DOMAIN rows, SeenKinds(k, rows, t, i) \cap Troubles # {},
                   \A j \in DOMAIN rows : j > i => "recovered" \notin SeenKinds(k, rows, t, j)
            PROVE  FALSE
        <5>1. i \in 1..Len(rows) /\ rows[i].status # "healthy" /\ (baseline => i = Len(rows))
          BY <4>2, <4>6, TroubleTold
        <5>2. ~baseline
          BY <4>4, <5>1
        <5>3. \E j \in 1..Len(rows) : j > i /\ "recovered" \in SeenKinds(k, rows, t, j)
          <6>1. i \in 0..Len(rows) /\ i # 0
            BY <4>2, <5>1
          <6> HIDE DEF rows
          <6> QED
            BY <4>2, <4>4, <5>1, <5>2, <6>1, HealingTold
        <5> QED
          BY <4>2, <4>6, <5>3
      <4> HIDE DEF rows
      <4>7. k \in InTrouble(obs, t)
        BY <2>1
      <4>8. \/ /\ k \in alarmed
               /\ \A i \in DOMAIN rows : "recovered" \notin SeenKinds(k, rows, t, i)
            \/ \E i \in DOMAIN rows :
                 /\ SeenKinds(k, rows, t, i) \cap Troubles # {}
                 /\ \A j \in DOMAIN rows : j > i => "recovered" \notin SeenKinds(k, rows, t, j)
        BY <3>2, <4>7 DEF InTrouble, KindsOf, rows
      <4> QED
        BY <4>5, <4>6, <4>8
    <3> QED
      BY <3>1, <3>2
  <2> QED
    BY <2>1, <2>3 DEF AlarmInv, FailureIsResolved
<1>2. CASE Note
  BY <1>2 DEF Note, reader, AlarmInv, FailureIsResolved
<1>3. CASE Close \/ Crash
  BY <1>3 DEF Close, Crash, Forget, AlarmInv, FailureIsResolved
<1>4. ASSUME NEW t \in Times, Start(t) PROVE AlarmInv'
  BY <1>4 DEF Start, reader, AlarmInv, FailureIsResolved, IInv, NoMemory
<1>5. CASE UNCHANGED vars
  BY <1>5 DEF vars, memory, reader, AlarmInv, FailureIsResolved
<1> QED
  BY <1>1, <1>2, <1>3, <1>4, <1>5 DEF Next

\* Reported trouble ends with a "recovered" event, as long as no port is seen
\* with status UNKNOWN.
THEOREM TroubleIsResolved ==
  ASSUME "unknown" \notin Statuses
  PROVE  Spec => []FailureIsResolved
<1>1. Init => AlarmInv
  BY DEF Init, AlarmInv, FailureIsResolved
<1>2. AlarmInv => FailureIsResolved
  BY DEF AlarmInv
<1> QED
  BY <1>1, <1>2, Inductive, NextAlarm, PTL DEF Spec

-----------------------------------------------------------------------------
(* What a clean store has in the file. *)

\* Saving what was saved and loaded changes nothing: the latest restarts of the
\* latest restarts are all of them.
LEMMA TrimTwice ==
  ASSUME NEW e \in Entry
  PROVE  Trim(Trim(e)) = Trim(e)
<1>1. PICK r : r = Newest(e.changes)
  OBVIOUS
<1>2. Newest(r) = r /\ Trim(e) = [e EXCEPT !.changes = r]
  BY <1>1, NewestIs DEF Trim, Entry
<1>3. PICK f : f = Trim(e)
  OBVIOUS
<1>4. f \in Entry /\ f.changes = r
  BY <1>1, <1>3, TrimKeeps
<1>5. Trim(f) = [f EXCEPT !.changes = r]
  BY <1>2, <1>4 DEF Trim
<1>6. [f EXCEPT !.changes = r] = f
  BY <1>4 DEF Entry
<1> QED
  BY <1>3, <1>5, <1>6

\* What the file holds, saved again, stays as it is; and a store that is not
\* open has nothing to save.
CleanInv ==
  /\ ~running => ~dirty
  /\ \A k \in DOMAIN disk.entries : Trim(disk.entries[k]) = disk.entries[k]
  /\ CleanIsSaved

\* A successful save writes every entry in its trimmed form.
LEMMA SavedIsTrimmed ==
  ASSUME NEW es, NEW t \in Nat, EntriesOK(es), \A k \in DOMAIN es : EntryClock(es[k])
  PROVE  /\ DOMAIN Saved(es, t).entries = DOMAIN es
         /\ \A k \in DOMAIN es :
              /\ Saved(es, t).entries[k] = Trim(es[k])
              /\ Trim(Saved(es, t).entries[k]) = Saved(es, t).entries[k]
<1>1. /\ DOMAIN Saved(es, t).entries = DOMAIN es
      /\ \A k \in DOMAIN es : Saved(es, t).entries[k] = Trim(es[k])
  BY DEF Saved
<1>2. \A k \in DOMAIN es : Trim(Trim(es[k])) = Trim(es[k])
  BY TrimTwice DEF EntriesOK
<1> QED
  BY <1>1, <1>2

LEMMA NextClean == IInv /\ IInv' /\ CleanInv /\ [Next]_vars => CleanInv'
<1> SUFFICES ASSUME IInv, IInv', CleanInv, [Next]_vars PROVE CleanInv'
  OBVIOUS
<1>1. ASSUME NEW t \in Times, NEW udp \in BOOLEAN, NEW obs \in Observations(udp),
             Refresh(obs, udp, t)
      PROVE  CleanInv'
  <2>1. /\ running /\ running' /\ ThrottledSave(entries', t)
        /\ t \in Nat /\ EntriesOK(entries') /\ \A k \in DOMAIN entries' : EntryClock(entries'[k])
    BY <1>1, TimesAhead DEF Refresh, IInv, TypeOK, ClocksOrdered
  <2>2. CASE disk' = disk /\ dirty' = TRUE
    BY <2>1, <2>2 DEF CleanInv, CleanIsSaved
  <2>3. CASE disk' = Saved(entries', t)
    <3>1. PICK es : es = entries'
      OBVIOUS
    <3>2. /\ DOMAIN disk'.entries = DOMAIN es
          /\ \A k \in DOMAIN es : /\ disk'.entries[k] = Trim(es[k])
                                  /\ Trim(disk'.entries[k]) = disk'.entries[k]
      BY <2>1, <2>3, <3>1, SavedIsTrimmed
    <3> QED
      BY <2>1, <3>1, <3>2 DEF CleanInv, CleanIsSaved
  <2> QED
    BY <2>1, <2>2, <2>3 DEF ThrottledSave, Write, NoWrite
<1>2. CASE Note
  BY <1>2 DEF Note, CleanInv, CleanIsSaved
<1>3. CASE Close \/ Crash
  <2>1. running' = FALSE /\ dirty' = FALSE
    BY <1>3 DEF Close, Crash, Forget
  <2>2. disk' = disk \/ disk' = Saved(entries, now)
    BY <1>3 DEF Close, Crash
  <2>3. now \in Nat /\ EntriesOK(entries) /\ \A k \in DOMAIN entries : EntryClock(entries[k])
    BY DEF IInv, TypeOK, ClocksOrdered
  <2>4. \A k \in DOMAIN disk'.entries : Trim(disk'.entries[k]) = disk'.entries[k]
    BY <2>2, <2>3, SavedIsTrimmed DEF CleanInv
  <2> QED
    BY <2>1, <2>4 DEF CleanInv, CleanIsSaved
<1>4. ASSUME NEW t \in Times, Start(t) PROVE CleanInv'
  <2>1. /\ running' = TRUE /\ disk' = disk
        /\ \A k \in DOMAIN entries' : k \in DOMAIN disk.entries /\ entries'[k] = disk.entries[k]
    BY <1>4 DEF Start
  <2> QED
    BY <2>1 DEF CleanInv, CleanIsSaved
<1>5. CASE UNCHANGED vars
  BY <1>5 DEF vars, memory, CleanInv, CleanIsSaved
<1> QED
  BY <1>1, <1>2, <1>3, <1>4, <1>5 DEF Next

\* A store that is not dirty has nothing to lose: every entry is in the file, with
\* as many of its restarts as a save keeps.
THEOREM CleanStoreIsSaved == Spec => []CleanIsSaved
<1>1. Init => CleanInv
  BY DEF Init, NoEntries, CleanInv, CleanIsSaved
<1>2. CleanInv => CleanIsSaved
  BY DEF CleanInv
<1> QED
  BY <1>1, <1>2, Inductive, NextClean, PTL DEF Spec

=============================================================================
