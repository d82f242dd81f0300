---------------------------- MODULE RaftLogProofs ----------------------------
(***************************************************************************)
(* What the logs, the requests and the snapshots of RaftCluster hold, for  *)
(* every number of nodes, terms, entries, crashes and failed writes: the   *)
(* second part of the inductive invariant; then lines, what it says of a log*)
(* that each of its entries goes back to where the entry's term began.     *)
(***************************************************************************)
EXTENDS RaftSafety, RaftElectionProofs, WellFoundedInduction

Zero == Nat \X {0}

LEMMA HeldEntry ==
  ASSUME NEW s \in HardState, NEW i \in Held(s)
  PROVE  EntryAt(s, i) \in HeldEntries(s)
<1>1. i - s.lastIncludedIndex + 1 \in 2 .. Len(s.log)
  BY HardStateFields DEF Held, LastLogIndex
<1> QED BY <1>1 DEF EntryAt, HeldEntries

LEMMA HeldEntryType ==
  ASSUME NEW s \in HardState, NEW e \in HeldEntries(s)
  PROVE  /\ e \in LogEntry
         /\ \E i \in Held(s) : e = EntryAt(s, i)
<1>1. PICK k \in 2 .. Len(s.log) : e = s.log[k]
  BY DEF HeldEntries
<1>2. Len(s.log) \in Nat /\ s.lastIncludedIndex \in Nat
  BY HardStateFields
<1>3. k \in 1 .. Len(s.log)
  BY <1>2
<1>4. s.lastIncludedIndex + k - 1 \in Held(s)
  BY <1>2 DEF Held, LastLogIndex
<1>5. (s.lastIncludedIndex + k - 1) - s.lastIncludedIndex + 1 = k
  BY <1>2
<1> QED BY <1>1, <1>3, <1>4, <1>5, HardStateFields DEF EntryAt

(* An entry of a log in order is at its index.                             *)
LEMMA EntryIndex ==
  ASSUME NEW s \in HardState, LogOK(s), NEW i \in Held(s)
  PROVE  EntryAt(s, i).index = i
<1>1. /\ i - s.lastIncludedIndex + 1 \in 1 .. Len(s.log)
      /\ s.lastIncludedIndex + (i - s.lastIncludedIndex + 1) - 1 = i
  BY HardStateFields DEF Held, LastLogIndex
<1> QED BY <1>1 DEF EntryAt, LogOK

LEMMA TermMark ==
  ASSUME NEW s \in HardState, LogOK(s), NEW i \in Nat
  PROVE  /\ <<i, GetLogTerm(s, i)>> \in Marks(s) \cup Zero
         /\ i = 0 => GetLogTerm(s, i) = 0
         /\ InMemory(s, i) => <<i, GetLogTerm(s, i)>> \in Marks(s)
<1>1. s.lastIncludedIndex \in Nat /\ LastLogIndex(s) \in Nat
  BY HardStateFields
<1>2. CASE i = s.lastIncludedIndex
  BY <1>2 DEF GetLogTerm, Marks, Base, LogOK
<1>3. CASE i # s.lastIncludedIndex /\ InMemory(s, i)
  <2>1. i \in Held(s) /\ i # 0
    BY <1>1, <1>3 DEF InMemory, Held
  <2>2. EntryAt(s, i) \in HeldEntries(s) /\ EntryAt(s, i).index = i
    BY <2>1, HeldEntry, EntryIndex
  <2> QED BY <1>3, <2>1, <2>2 DEF GetLogTerm, Marks, EntryMark
<1>4. CASE i # s.lastIncludedIndex /\ ~InMemory(s, i)
  BY <1>4 DEF GetLogTerm, Zero
<1> QED BY <1>2, <1>3, <1>4

LEMMA LastMark ==
  ASSUME NEW s \in HardState, LogOK(s)
  PROVE  /\ <<LastLogIndex(s), LastLogTerm(s)>> \in Marks(s)
         /\ LastLogTerm(s) = GetLogTerm(s, LastLogIndex(s))
<1>1. /\ Len(s.log) \in Nat /\ Len(s.log) >= 1
      /\ s.lastIncludedIndex \in Nat /\ LastLogIndex(s) = s.lastIncludedIndex + Len(s.log) - 1
  BY HardStateFields DEF LastLogIndex
<1>2. CASE Len(s.log) = 1
  <2>1. LastLogIndex(s) = s.lastIncludedIndex
    BY <1>1, <1>2
  <2>2. LastLogTerm(s) = s.lastIncludedTerm
    BY <1>2 DEF LastLogTerm, LogOK, Placeholder
  <2> QED BY <2>1, <2>2 DEF Marks, Base, GetLogTerm
<1>3. CASE Len(s.log) > 1
  <2>1. LastLogIndex(s) \in Held(s) /\ InMemory(s, LastLogIndex(s))
        /\ LastLogIndex(s) # s.lastIncludedIndex
    BY <1>1, <1>3 DEF Held, InMemory
  <2>2. LastLogIndex(s) - s.lastIncludedIndex + 1 = Len(s.log)
    BY <1>1
  <2>3. EntryAt(s, LastLogIndex(s)).term = LastLogTerm(s)
    BY <2>2 DEF EntryAt, LastLogTerm
  <2>4. /\ EntryAt(s, LastLogIndex(s)) \in HeldEntries(s)
        /\ EntryAt(s, LastLogIndex(s)).index = LastLogIndex(s)
    BY <2>1, HeldEntry, EntryIndex
  <2> QED BY <2>1, <2>3, <2>4 DEF Marks, EntryMark, GetLogTerm
<1>4. \A x \in Nat : x >= 1 => x = 1 \/ x > 1
  OBVIOUS
<1> QED BY <1>1, <1>2, <1>3, <1>4

(* The entries that a log in order sends from an index on.                 *)
LEMMA SentFrom ==
  ASSUME NEW s \in HardState, LogOK(s), NEW j \in Nat, j > s.lastIncludedIndex
  PROVE  LET e == EntriesBetween(s, j, LastLogIndex(s))
         IN  \A k \in 1 .. Len(e) : e[k] \in HeldEntries(s) /\ e[k].index = (j - 1) + k
<1> DEFINE e == EntriesBetween(s, j, LastLogIndex(s))
<1>1. /\ e \in Seq(LogEntry) /\ Len(e) \in Nat
      /\ Len(e) = IF j <= LastLogIndex(s) THEN LastLogIndex(s) - j + 1 ELSE 0
      /\ \A k \in 1 .. Len(e) : e[k] = EntryAt(s, j + k - 1)
  BY EntriesFrom
<1>2. s.lastIncludedIndex \in Nat /\ LastLogIndex(s) \in Nat
  BY HardStateFields
<1> HIDE DEF e
<1>3. ASSUME NEW k \in 1 .. Len(e)
      PROVE  e[k] \in HeldEntries(s) /\ e[k].index = (j - 1) + k
  <2>1. j + k - 1 \in Held(s) /\ j + k - 1 = (j - 1) + k
    BY <1>1, <1>2 DEF Held
  <2> QED BY <1>1, <2>1, HeldEntry, EntryIndex
<1> QED BY <1>3 DEF e

(* What the functions that rewrite a log keep of it.                       *)

LEMMA PushedLogOK ==
  ASSUME NEW s \in HardState, LogOK(s), NEW v \in Command
  PROVE  LET e == [term |-> s.currentTerm, index |-> LastLogIndex(s) + 1, command |-> v]
             p == PushEntry(s, v)
         IN  /\ LogOK(p)
             /\ HeldEntries(p) = HeldEntries(s) \cup {e}
             /\ Base(p) = Base(s)
<1> DEFINE e == [term |-> s.currentTerm, index |-> LastLogIndex(s) + 1, command |-> v]
           p == PushEntry(s, v)
<1>1. p.lastIncludedIndex = s.lastIncludedIndex
  BY PushedFields
<1>2. p.lastIncludedTerm = s.lastIncludedTerm
  BY PushedFields
<1>3. Len(p.log) = Len(s.log) + 1
  BY PushedFields
<1>4. \A k \in 1 .. Len(s.log) : p.log[k] = s.log[k]
  BY PushedFields
<1>5. p.log[Len(p.log)] = e
  BY PushedFields
<1>6. e.index = s.lastIncludedIndex + Len(p.log) - 1
  BY <1>3, HardStateFields DEF LastLogIndex
<1>7. Len(s.log) \in Nat /\ Len(s.log) >= 1
  BY HardStateFields
<1> HIDE DEF e, p
<1>8. LogOK(p)
  <2>1. p.log[1] = Placeholder(p.lastIncludedIndex, p.lastIncludedTerm)
    BY <1>1, <1>2, <1>4, <1>7 DEF LogOK
  <2>2. ASSUME NEW k \in 1 .. Len(p.log)
        PROVE  p.log[k].index = p.lastIncludedIndex + k - 1
    <3>1. CASE k = Len(p.log)
      BY <1>1, <1>5, <1>6, <3>1
    <3>2. CASE k # Len(p.log)
      <4>1. k \in 1 .. Len(s.log)
        BY <1>3, <1>7, <3>2
      <4> QED BY <1>1, <1>4, <4>1 DEF LogOK
    <3> QED BY <3>1, <3>2
  <2> QED BY <1>1, <1>2, <2>1, <2>2 DEF LogOK
<1>9. HeldEntries(p) = HeldEntries(s) \cup {e}
  <2>1. 2 .. Len(p.log) = (2 .. Len(s.log)) \cup {Len(p.log)}
    BY <1>3, <1>7
  <2>2. \A k \in 2 .. Len(s.log) : p.log[k] = s.log[k]
    BY <1>4, <1>7
  <2> QED BY <1>5, <2>1, <2>2, SMTT(30) DEF HeldEntries
<1>10. Base(p) = Base(s)
  BY <1>1, <1>2 DEF Base
<1> QED BY <1>8, <1>9, <1>10 DEF e, p

LEMMA MergedLogOK ==
  ASSUME NEW s \in HardState, LogOK(s), NEW prev \in Nat, NEW entries \in Seq(LogEntry),
         InMemory(s, prev), \A k \in 1 .. Len(entries) : entries[k].index = prev + k
  PROVE  LET w == WithEntries(s, prev, entries)
         IN  /\ LogOK(w)
             /\ HeldEntries(w) \subseteq HeldEntries(s) \cup {entries[k] : k \in 1 .. Len(entries)}
             /\ Base(w) = Base(s)
<1> DEFINE w == WithEntries(s, prev, entries)
           base == prev - s.lastIncludedIndex + 1
           held == \A k \in 1 .. Len(entries) :
                     base + k <= Len(s.log) /\ s.log[base + k].term = entries[k].term
           sent == {entries[k] : k \in 1 .. Len(entries)}
<1>1. CASE held
  <2>1. w = s
    BY <1>1, MergedLog
  <2> QED BY <2>1
<1>2. CASE ~held
  <2>1. Len(w.log) = base + Len(entries)
    BY <1>2, MergedLog
  <2>2. \A i \in 1 .. base : w.log[i] = s.log[i]
    BY <1>2, MergedLog
  <2>3. \A k \in 1 .. Len(entries) :
          w.log[base + k] = entries[k] \/ (base + k <= Len(s.log) /\ w.log[base + k] = s.log[base + k])
    BY <1>2, MergedLog
  <2>4. w.lastIncludedIndex = s.lastIncludedIndex /\ w.lastIncludedTerm = s.lastIncludedTerm
    BY DEF WithEntries, HardState
  <2>5. /\ s.lastIncludedIndex \in Nat /\ Len(s.log) \in Nat /\ Len(entries) \in Nat
        /\ base \in Nat /\ base >= 1 /\ base <= Len(s.log)
        /\ prev = s.lastIncludedIndex + base - 1
    BY HardStateFields, LenProperties DEF InMemory, LastLogIndex
  <2> HIDE DEF w, base
  <2>6. \A i \in 1 .. Len(w.log) :
          \/ i \in 1 .. base /\ w.log[i] = s.log[i] /\ i \in 1 .. Len(s.log)
          \/ i > base /\ i \in 1 .. Len(s.log) /\ w.log[i] = s.log[i]
          \/ \E k \in 1 .. Len(entries) : i = base + k /\ w.log[i] = entries[k]
    <3> SUFFICES ASSUME NEW i \in 1 .. Len(w.log), i \notin 1 .. base
                 PROVE  \/ i > base /\ i \in 1 .. Len(s.log) /\ w.log[i] = s.log[i]
                        \/ \E k \in 1 .. Len(entries) : i = base + k /\ w.log[i] = entries[k]
      BY <2>2, <2>5
    <3>1. i - base \in 1 .. Len(entries) /\ i = base + (i - base) /\ i > base /\ i >= 1
      BY <2>1, <2>5
    <3> QED BY <2>3, <2>5, <3>1
  <2>7. LogOK(w)
    <3>1. w.log[1] = Placeholder(w.lastIncludedIndex, w.lastIncludedTerm)
      BY <2>2, <2>4, <2>5 DEF LogOK
    <3>2. ASSUME NEW i \in 1 .. Len(w.log)
          PROVE  w.log[i].index = w.lastIncludedIndex + i - 1
      <4>1. CASE i \in 1 .. Len(s.log) /\ w.log[i] = s.log[i]
        BY <2>4, <4>1 DEF LogOK
      <4>2. ASSUME NEW k \in 1 .. Len(entries), i = base + k, w.log[i] = entries[k]
            PROVE  w.log[i].index = w.lastIncludedIndex + i - 1
        <5>1. prev + k = s.lastIncludedIndex + i - 1
          BY <2>5, <4>2
        <5> QED BY <2>4, <4>2, <5>1
      <4> QED BY <2>6, <4>1, <4>2
    <3> QED BY <2>4, <3>1, <3>2 DEF LogOK
  <2>8. ASSUME NEW e \in HeldEntries(w)
        PROVE  e \in HeldEntries(s) \cup sent
    <3>1. PICK i \in 2 .. Len(w.log) : e = w.log[i]
      BY DEF HeldEntries
    <3>2. i \in 1 .. Len(w.log) /\ i >= 2
      BY <2>1, <2>5
    <3>3. CASE i \in 1 .. Len(s.log) /\ w.log[i] = s.log[i]
      <4>1. i \in 2 .. Len(s.log)
        BY <3>2, <3>3
      <4> QED BY <3>1, <3>3, <4>1 DEF HeldEntries
    <3>4. CASE \E k \in 1 .. Len(entries) : i = base + k /\ w.log[i] = entries[k]
      BY <3>1, <3>4
    <3> QED BY <2>6, <3>2, <3>3, <3>4
  <2>9. Base(w) = Base(s)
    BY <2>4 DEF Base
  <2> QED BY <2>7, <2>8, <2>9 DEF w
<1> QED BY <1>1, <1>2

LEMMA CompactedLogOK ==
  ASSUME NEW s \in HardState, LogOK(s), NEW i \in Nat, i >= s.lastIncludedIndex,
         NEW t \in Nat, i = 0 => t = 0
  PROVE  LET c == StartAt(s, i, t, EntriesBetween(s, i + 1, LastLogIndex(s)))
         IN  /\ LogOK(c)
             /\ HeldEntries(c) \subseteq HeldEntries(s)
             /\ Base(c) = <<i, t>>
<1> DEFINE c == StartAt(s, i, t, EntriesBetween(s, i + 1, LastLogIndex(s)))
<1>1. c \in HardState
  BY CompactedFields
<1>2. c.lastIncludedIndex = i
  BY CompactedFields
<1>3. c.lastIncludedTerm = t
  BY CompactedFields
<1>4. c.log[1] = Placeholder(i, t)
  BY CompactedFields
<1>5. LastLogIndex(c) = IF i <= LastLogIndex(s) THEN LastLogIndex(s) ELSE i
  BY CompactedFields
<1>6. \A j \in i + 1 .. LastLogIndex(c) : EntryAt(c, j) = EntryAt(s, j)
  BY CompactedFields
<1> HIDE DEF c
<1>7. \A j \in i + 1 .. LastLogIndex(c) : j \in Held(s)
  BY <1>5, HardStateFields DEF Held
<1>8. Len(c.log) \in Nat /\ LastLogIndex(c) = i + Len(c.log) - 1
  BY <1>1, <1>2, HardStateFields DEF LastLogIndex
<1>9. \A k \in 2 .. Len(c.log) :
        \E j \in i + 1 .. LastLogIndex(c) : j = i + k - 1 /\ c.log[k] = EntryAt(c, j)
  <2> SUFFICES ASSUME NEW k \in 2 .. Len(c.log)
               PROVE  /\ i + k - 1 \in i + 1 .. LastLogIndex(c)
                      /\ c.log[k] = EntryAt(c, i + k - 1)
    OBVIOUS
  <2>1. i + k - 1 \in i + 1 .. LastLogIndex(c) /\ (i + k - 1) - i + 1 = k
    BY <1>8
  <2> QED BY <1>2, <2>1 DEF EntryAt
<1>10. LogOK(c)
  <2>1. \A k \in 1 .. Len(c.log) : c.log[k].index = i + k - 1
    <3> SUFFICES ASSUME NEW k \in 1 .. Len(c.log)
                 PROVE  c.log[k].index = i + k - 1
      OBVIOUS
    <3>1. CASE k = 1
      BY <1>4, <3>1 DEF Placeholder
    <3>2. CASE k # 1
      <4>1. k \in 2 .. Len(c.log)
        BY <3>2
      <4> QED BY <1>6, <1>7, <1>9, <4>1, EntryIndex
    <3> QED BY <3>1, <3>2
  <2> QED BY <1>2, <1>3, <1>4, <2>1 DEF LogOK
<1>11. ASSUME NEW e \in HeldEntries(c)
       PROVE  e \in HeldEntries(s)
  <2>1. PICK k \in 2 .. Len(c.log) : e = c.log[k]
    BY DEF HeldEntries
  <2> QED BY <1>6, <1>7, <1>9, <2>1, HeldEntry
<1>12. Base(c) = <<i, t>>
  BY <1>2, <1>3 DEF Base
<1> QED BY <1>10, <1>11, <1>12 DEF c

LEMMA InstalledLogOK ==
  ASSUME NEW s \in HardState, NEW i \in Nat, NEW t \in Nat, i = 0 => t = 0
  PROVE  LET c == InstalledAt(s, i, t)
         IN  LogOK(c) /\ HeldEntries(c) = {} /\ Base(c) = <<i, t>>
<1> DEFINE c == InstalledAt(s, i, t)
<1>1. c.log = <<Placeholder(i, t)>> \o <<>> /\ c.lastIncludedIndex = i /\ c.lastIncludedTerm = t
  BY DEF InstalledAt, StartAt, HardState
<1>2. c.log = <<Placeholder(i, t)>>
  BY <1>1, PlaceholderType, ConcatEmptySeq
<1> HIDE DEF c
<1>3. Len(c.log) = 1 /\ c.log[1] = Placeholder(i, t)
  BY <1>2
<1> QED BY <1>1, <1>3 DEF LogOK, HeldEntries, Base, Placeholder, c
------------------------------------------------------------------------------
(* What a step may do to the log and the snapshot of its node.             *)

KeptLog(n) ==
  /\ SameLog(st'[n], st[n])
  /\ SameLog(hs'[n], hs[n]) \/ SameLog(hs'[n], st[n])
  /\ snapFile'[n] = snapFile[n]

PushedLog(n) ==
  /\ role[n] = "Leader" /\ role'[n] = "Leader"
  /\ \E v \in Value : /\ hs'[n] = PushEntry(st[n], v)
                      /\ st'[n] = PushEntry(st[n], v) \/ st'[n] = st[n]
  /\ snapFile'[n] = snapFile[n]

MergedLogs(n) ==
  \E m \in Appends : LET s == UpdateTerm(st[n], m.term) IN
    /\ m.dst = n /\ m.term >= st[n].currentTerm
    /\ AppendConsistent(s, m.prevIndex, m.prevTerm)
    /\ hs'[n] = WithEntries(s, m.prevIndex, m.entries)
    /\ st'[n] = s \/ st'[n] = hs'[n]
    /\ role'[n] = "Follower" /\ snapFile'[n] = snapFile[n]

OwnSnapshot(n) == Snapshot(lastApplied[n], GetLogTerm(st[n], lastApplied[n]), data[n])

CompactedLog(n) ==
  /\ lastApplied[n] > st[n].lastIncludedIndex
  /\ role'[n] = role[n] /\ snapFile'[n] = OwnSnapshot(n)
  /\ \/ hs'[n] = hs[n] /\ st'[n] = st[n]
     \/ /\ InMemory(st[n], lastApplied[n])
        /\ hs'[n] = CompactTo(st[n], lastApplied[n]) /\ st'[n] = hs'[n]

InstalledLog(n) ==
  \E m \in Installs :
    /\ m.dst = n /\ BodyMatches(m) /\ m.term >= st[n].currentTerm
    /\ hs'[n] = InstalledAt(UpdateTerm(st[n], m.term), m.index, m.snapTerm)
    /\ st'[n] = hs'[n] /\ snapFile'[n] = m.body /\ role'[n] = "Follower"

LostLog(n) ==
  /\ role'[n] = "Follower" /\ ~up'[n] /\ st'[n] = hs'[n]
  /\ SameLog(hs'[n], hs[n]) \/ SameLog(hs'[n], st[n])
  /\ \/ snapFile'[n] = snapFile[n]
     \/ lastApplied[n] > st[n].lastIncludedIndex /\ snapFile'[n] = OwnSnapshot(n)
     \/ \E m \in Installs : m.dst = n /\ BodyMatches(m) /\ snapFile'[n] = m.body

RecoveredLog(n) ==
  /\ ~up[n] /\ role'[n] = role[n]
  /\ hs'[n] = Recovered(hs[n], snapFile[n]) /\ st'[n] = hs'[n]
  /\ snapFile'[n] = snapFile[n]

LogChange(n) ==
  \/ KeptLog(n) \/ PushedLog(n) \/ MergedLogs(n) \/ CompactedLog(n)
  \/ InstalledLog(n) \/ LostLog(n) \/ RecoveredLog(n)

LEMMA SameLogSelf ==
  ASSUME NEW s
  PROVE  SameLog(s, s)
BY DEF SameLog

LEMMA WrittenLog ==
  ASSUME TypeOK, NEW n \in Node, NEW s, NEW memory
  PROVE  /\ Write(n, s) => hs'[n] = s /\ st'[n] = s
         /\ WriteFails(n, s, memory) => st'[n] = memory /\ (hs'[n] = s \/ hs'[n] = hs[n])
BY DEF Write, WriteFails, TypeOK, DiskType, ProcessType

LEMMA StepLog ==
  ASSUME TypeOK, NEW n \in Node, Step(n)
  PROVE  LogChange(n)
<1>1. st[n] \in HardState
  BY DEF TypeOK, ProcessType
<1>2. CASE UNCHANGED <<disk, st>>
  BY <1>2, SameLogSelf DEF LogChange, KeptLog, disk
<1>3. CASE StartElection(n) \/ StartElectionUnsaved(n)
  <2> DEFINE s == IncrementTerm(st[n], n)
  <2>1. SameLog(s, st[n])
    BY <1>1, UpdatedLog
  <2>2. st'[n] = s /\ (hs'[n] = s \/ hs'[n] = hs[n]) /\ snapFile' = snapFile
    BY <1>3, WrittenLog DEF StartElection, StartElectionUnsaved
  <2> HIDE DEF s
  <2> QED BY <2>1, <2>2, SameLogSelf DEF LogChange, KeptLog
<1>4. ASSUME NEW v \in Value, ClientRequest(n, v)
      PROVE  LogChange(n)
  <2> DEFINE s == PushEntry(st[n], v)
  <2>1. \/ st'[n] = s /\ hs'[n] = s
        \/ st'[n] = st[n] /\ (hs'[n] = s \/ hs'[n] = hs[n])
    BY <1>4, WrittenLog DEF ClientRequest
  <2>2. snapFile' = snapFile /\ role[n] = "Leader" /\ role' = role
    BY <1>4 DEF ClientRequest
  <2>3. CASE hs'[n] = hs[n] /\ st'[n] = st[n]
    BY <2>2, <2>3, SameLogSelf DEF LogChange, KeptLog
  <2>4. CASE hs'[n] = s
    BY <2>1, <2>2, <2>4 DEF LogChange, PushedLog
  <2> QED BY <2>1, <2>3, <2>4
<1>5. CASE TriggerSnapshot(n)
  <2>1. CASE UNCHANGED <<disk, st>>
    BY <1>2, <2>1
  <2>2. CASE /\ lastApplied[n] > st[n].lastIncludedIndex
             /\ snapFile' = [snapFile EXCEPT ![n] = OwnSnapshot(n)]
             /\ IF InMemory(st[n], lastApplied[n])
                THEN Write(n, CompactTo(st[n], lastApplied[n])) ELSE UNCHANGED <<hs, st>>
    <3>1. snapFile'[n] = OwnSnapshot(n)
      BY <2>2 DEF TypeOK, DiskType
    <3>2. role' = role
      BY <1>5 DEF TriggerSnapshot
    <3> QED BY <2>2, <3>1, <3>2, WrittenLog DEF LogChange, CompactedLog
  <2> QED BY <1>5, <2>1, <2>2 DEF TriggerSnapshot, OwnSnapshot
<1>6. ASSUME GoDown(n), UNCHANGED hs,
             \/ snapFile' = snapFile
             \/ /\ lastApplied[n] > st[n].lastIncludedIndex
                /\ snapFile' = [snapFile EXCEPT ![n] = OwnSnapshot(n)]
      PROVE  LogChange(n)
  <2>1. /\ role'[n] = "Follower" /\ ~up'[n] /\ st'[n] = hs'[n]
        /\ SameLog(hs'[n], hs[n])
    BY <1>6, SameLogSelf DEF GoDown, StepDown, TypeOK, ProcessType
  <2>2. \/ snapFile'[n] = snapFile[n]
        \/ lastApplied[n] > st[n].lastIncludedIndex /\ snapFile'[n] = OwnSnapshot(n)
    BY <1>6 DEF TypeOK, DiskType
  <2> QED BY <2>1, <2>2 DEF LogChange, LostLog
<1>7. CASE TriggerSnapshotInterrupted(n) \/ Crash(n)
  BY <1>6, <1>7 DEF TriggerSnapshotInterrupted, Crash, OwnSnapshot, disk
<1>8. CASE Restart(n)
  BY <1>8, WrittenLog DEF Restart, LogChange, RecoveredLog
<1> QED
  BY <1>2, <1>3, <1>4, <1>5, <1>7, <1>8 DEF Step, ElectionEnds, HeartbeatTick

LEMMA ReceiveLog ==
  ASSUME TypeOK, NEW m \in messages, NEW n \in Receivers(m), Receive(n, m)
  PROVE  LogChange(n)
<1>1. n \in Node /\ (m.type # "RequestVote" => n = m.dst)
  BY ReceiversAreNodes DEF Receivers, TypeOK, NetworkType
<1>2. st[n] \in HardState
  BY <1>1 DEF TypeOK, ProcessType
<1> DEFINE s == UpdateTerm(st[n], m.term)
<1>3. SameLog(s, st[n]) /\ SameLog([s EXCEPT !.votedFor = m.src], st[n])
  BY <1>2, UpdatedLog
<1> HIDE DEF s
<1>4. ASSUME \/ st'[n] = st[n]
             \/ st'[n] = s
             \/ st'[n] = [s EXCEPT !.votedFor = m.src],
             hs'[n] = st'[n] \/ hs'[n] = hs[n], snapFile'[n] = snapFile[n]
      PROVE  LogChange(n)
  BY <1>3, <1>4, SameLogSelf DEF LogChange, KeptLog
<1>5. CASE ReceiveVote(n, m)
  <2>1. \/ st'[n] = s /\ hs'[n] = s
        \/ st'[n] = st[n] /\ hs'[n] = hs[n]
    BY <1>1, <1>5, WrittenLog DEF ReceiveVote, s
  <2> QED BY <1>4, <1>5, <2>1 DEF ReceiveVote
<1>6. CASE HandleRequestVote(n, m)
  <2>1. PICK voted : /\ voted = s \/ voted = [s EXCEPT !.votedFor = m.src]
                     /\ Write(n, voted) \/ WriteFails(n, voted, voted)
    BY <1>6 DEF HandleRequestVote, s
  <2>2. st'[n] = voted /\ (hs'[n] = voted \/ hs'[n] = hs[n])
    BY <1>1, <2>1, WrittenLog
  <2>3. snapFile' = snapFile
    BY <1>6 DEF HandleRequestVote
  <2> QED BY <1>4, <2>1, <2>2, <2>3
<1>7. CASE StaleAppendEntries(n, m) \/ StaleInstallSnapshot(n, m)
  BY <1>4, <1>7 DEF StaleAppendEntries, StaleInstallSnapshot, disk
<1>8. CASE HandleAppendEntries(n, m)
  <2> DEFINE consistent == AppendConsistent(s, m.prevIndex, m.prevTerm)
             w == WithEntries(s, m.prevIndex, m.entries)
             merged == IF consistent THEN w ELSE s
  <2>1. \/ hs'[n] = merged /\ st'[n] = merged
        \/ (hs'[n] = merged \/ hs'[n] = hs[n]) /\ st'[n] = s
    <3>1. Write(n, merged) \/ WriteFails(n, merged, s)
      BY <1>8 DEF HandleAppendEntries, s
    <3> HIDE DEF merged
    <3> QED BY <1>1, <3>1, WrittenLog
  <2>2. snapFile' = snapFile /\ role'[n] = "Follower"
    BY <1>1, <1>8 DEF HandleAppendEntries, Follow, TypeOK, ProcessType
  <2>3. m \in Appends /\ m.dst = n /\ m.term >= st[n].currentTerm
    BY <1>1, <1>8 DEF HandleAppendEntries, Appends
  <2> HIDE DEF w
  <2>4. CASE ~consistent
    BY <1>4, <2>1, <2>2, <2>4
  <2>5. CASE consistent /\ hs'[n] = w
    BY <2>1, <2>2, <2>3, <2>5 DEF LogChange, MergedLogs, s, w
  <2>6. CASE st'[n] = s /\ hs'[n] = hs[n]
    BY <1>4, <2>2, <2>6
  <2> QED BY <2>1, <2>4, <2>5, <2>6
<1>9. CASE HandleResult(n, m)
  <2>1. \/ st'[n] = s /\ hs'[n] = s
        \/ st'[n] = st[n] /\ hs'[n] = hs[n]
    BY <1>1, <1>9, WrittenLog DEF HandleResult, s
  <2> QED BY <1>4, <1>9, <2>1 DEF HandleResult
<1>10. CASE InstallSnapshotTermUnsaved(n, m)
  <2>1. st'[n] = s /\ (hs'[n] = s \/ hs'[n] = hs[n])
    BY <1>1, <1>10, WrittenLog DEF InstallSnapshotTermUnsaved, s
  <2> QED BY <1>4, <1>10, <2>1 DEF InstallSnapshotTermUnsaved
<1>11. CASE RefuseSnapshot(n, m)
  <2>1. st'[n] = s /\ hs'[n] = TermSaved(n, m)
    BY <1>1, <1>11 DEF RefuseSnapshot, TypeOK, DiskType, ProcessType, s
  <2> QED BY <1>4, <1>11, <2>1 DEF RefuseSnapshot, TermSaved, s
<1>12. CASE HandleInstallSnapshot(n, m)
  <2>1. st'[n] = InstalledAt(s, m.index, m.snapTerm) /\ hs'[n] = st'[n]
    BY <1>1, <1>12, WrittenLog, SMTT(30) DEF HandleInstallSnapshot, s
  <2>2. snapFile'[n] = m.body /\ role'[n] = "Follower"
    BY <1>1, <1>12 DEF HandleInstallSnapshot, Follow, TypeOK, DiskType, ProcessType
  <2>3. m \in Installs /\ m.dst = n /\ BodyMatches(m) /\ m.term >= st[n].currentTerm
    BY <1>1, <1>12 DEF HandleInstallSnapshot, Delivered, Installs
  <2> QED BY <2>1, <2>2, <2>3 DEF LogChange, InstalledLog, s
<1>13. CASE InstallSnapshotInterrupted(n, m)
  <2>1. GoDown(n) /\ hs'[n] = TermSaved(n, m)
    BY <1>1, <1>13 DEF InstallSnapshotInterrupted, TypeOK, DiskType
  <2>2. role'[n] = "Follower" /\ ~up'[n] /\ st'[n] = hs'[n]
    BY <1>1, <2>1 DEF GoDown, StepDown, TypeOK, ProcessType
  <2>3. SameLog(hs'[n], hs[n]) \/ SameLog(hs'[n], st[n])
    BY <1>3, <2>1, SameLogSelf DEF TermSaved, s
  <2>4. snapFile'[n] = snapFile[n] \/ snapFile'[n] = m.body
    BY <1>1, <1>13 DEF InstallSnapshotInterrupted, TypeOK, DiskType
  <2>5. m \in Installs /\ m.dst = n /\ BodyMatches(m)
    BY <1>1, <1>13 DEF InstallSnapshotInterrupted, Delivered, Installs
  <2> QED BY <2>2, <2>3, <2>4, <2>5 DEF LogChange, LostLog
<1> QED
  BY <1>5, <1>6, <1>7, <1>8, <1>9, <1>10, <1>11, <1>12, <1>13 DEF Receive

(* What a step sends and decides, it has in its log at its end.            *)
Sends(n) ==
  /\ \A m \in messages' \ messages :
       /\ m.type # "InstallSnapshot"
       /\ m.type = "RequestVote" => m = RequestVote(n, st'[n])
       /\ m.type = "AppendEntries" =>
            /\ role'[n] = "Leader" /\ m.dst \in Node \ {n}
            /\ nextIndex'[n][m.dst] > st'[n].lastIncludedIndex
            /\ m = AppendEntries(n, m.dst, st'[n], nextIndex'[n][m.dst], commitIndex[n])
  /\ \A t \in snapTasks' \ snapTasks :
       /\ role'[n] = "Leader" /\ t.dst \in Node \ {n}
       /\ nextIndex'[n][t.dst] <= st'[n].lastIncludedIndex
       /\ t = SnapshotTask(n, t.dst, st'[n])
  /\ \A e \in decided' \ decided : role'[n] = "Leader" /\ e \in HeldEntries(st'[n])

LEMMA SendsHeartbeats ==
  ASSUME TypeOK, NEW n \in Node, NEW ms, messages' = messages \cup ms, role'[n] = "Leader",
         ms \subseteq Heartbeats(n, st'[n], nextIndex'[n], commitIndex[n])
                      \cup {RequestVote(n, st'[n])},
         snapTasks' = snapTasks \cup SnapshotTasks(n, st'[n], nextIndex'[n]),
         \A e \in decided' \ decided : e \in HeldEntries(st'[n])
  PROVE  Sends(n)
<1>1. ASSUME NEW m \in messages' \ messages
      PROVE  /\ m.type # "InstallSnapshot"
             /\ m.type = "RequestVote" => m = RequestVote(n, st'[n])
             /\ m.type = "AppendEntries" =>
                  /\ role'[n] = "Leader" /\ m.dst \in Node \ {n}
                  /\ nextIndex'[n][m.dst] > st'[n].lastIncludedIndex
                  /\ m = AppendEntries(n, m.dst, st'[n], nextIndex'[n][m.dst], commitIndex[n])
  <2>1. CASE m \in Heartbeats(n, st'[n], nextIndex'[n], commitIndex[n])
    BY <2>1, HeartbeatFields
  <2>2. CASE m = RequestVote(n, st'[n])
    BY <2>2 DEF RequestVote
  <2> QED BY <2>1, <2>2
<1>2. ASSUME NEW t \in snapTasks' \ snapTasks
      PROVE  /\ role'[n] = "Leader" /\ t.dst \in Node \ {n}
             /\ nextIndex'[n][t.dst] <= st'[n].lastIncludedIndex
             /\ t = SnapshotTask(n, t.dst, st'[n])
  BY DEF SnapshotTasks, SnapshotTask
<1> QED BY <1>1, <1>2 DEF Sends

LEMMA AdvanceDecides ==
  ASSUME NEW n \in Node, NEW s \in HardState, commitIndex[n] \in Nat, NEW match, NEW waiting,
         AdvanceCommit(n, s, match, waiting)
  PROVE  \A e \in decided' \ decided : e \in HeldEntries(s)
<1> SUFFICES ASSUME NEW e \in decided' \ decided
             PROVE  e \in HeldEntries(s)
  OBVIOUS
<1>1. PICK i \in Committable(s, n, match, commitIndex[n]) :
        decided' = decided \cup
          {EntryAt(s, j) : j \in Larger(commitIndex[n], s.lastIncludedIndex) + 1 .. i}
  BY DEF AdvanceCommit
<1>2. PICK j \in Larger(commitIndex[n], s.lastIncludedIndex) + 1 .. i : e = EntryAt(s, j)
  BY <1>1
<1>3. i \in Nat /\ i <= LastLogIndex(s) /\ s.lastIncludedIndex \in Nat
  BY HardStateFields DEF Committable
<1>4. j \in Held(s)
  BY <1>2, <1>3, HardStateFields DEF Held, Larger
<1> QED BY <1>2, <1>4, HeldEntry

LEMMA StepSent ==
  ASSUME TypeOK, NEW n \in Node, Step(n)
  PROVE  Sends(n)
<1>1. st[n] \in HardState /\ commitIndex[n] \in Nat
  BY DEF TypeOK, ProcessType, ProgressType
<1>2. ASSUME UNCHANGED <<messages, decided>>, snapTasks' \subseteq snapTasks
      PROVE  Sends(n)
  BY <1>2 DEF Sends
<1>3. CASE StartElection(n)
  <2> DEFINE s == IncrementTerm(st[n], n)
             r == RequestVote(n, s)
  <2>1. st'[n] = s /\ messages' = messages \cup {r} /\ decided' = decided
    BY <1>3, WrittenLog DEF StartElection, Send
  <2>2. CASE snapTasks' = snapTasks
    BY <2>1, <2>2 DEF Sends, RequestVote
  <2>3. CASE BecomeLeader(n, s)
    <3>1. role'[n] = "Leader" /\ snapTasks' = snapTasks \cup SnapshotTasks(n, s, nextIndex'[n])
      BY <2>3 DEF BecomeLeader, TypeOK, ProcessType, LeadershipType
    <3> HIDE DEF s
    <3> QED BY <2>1, <3>1, SendsHeartbeats
  <2> QED BY <1>3, <2>2, <2>3 DEF StartElection
<1>4. CASE StartElectionUnsaved(n)
  BY <1>2, <1>4 DEF StartElectionUnsaved, history
<1>5. CASE ElectionEnds(n)
  BY <1>2, <1>5 DEF ElectionEnds, history
<1>6. CASE HeartbeatTick(n)
  <2>1. /\ role'[n] = "Leader" /\ UNCHANGED <<st, nextIndex, decided>>
        /\ messages' = messages \cup Heartbeats(n, st[n], nextIndex[n], commitIndex[n])
        /\ snapTasks' = snapTasks \cup SnapshotTasks(n, st[n], nextIndex[n])
    BY <1>6 DEF HeartbeatTick, SendHeartbeats, Send, leadership, history
  <2> QED BY <2>1, SendsHeartbeats
<1>7. ASSUME NEW v \in Value, ClientRequest(n, v)
      PROVE  Sends(n)
  <2> DEFINE s == PushEntry(st[n], v)
  <2>1. s \in HardState
    BY PushedNotBehind
  <2>2. role'[n] = "Leader" /\ nextIndex' = nextIndex
    BY <1>7 DEF ClientRequest, leadership
  <2>3. CASE UNCHANGED <<messages, snapTasks, decided>>
    BY <1>2, <2>3
  <2>4. ASSUME NEW waiting, Write(n, s), SendHeartbeats(n, s, nextIndex[n]),
               AdvanceCommit(n, s, matchIndex[n], waiting)
        PROVE  Sends(n)
    <3> HIDE DEF s
    <3>1. st'[n] = s
      BY <2>4, WrittenLog
    <3>2. \A e \in decided' \ decided : e \in HeldEntries(s)
      BY <1>1, <2>1, <2>4, AdvanceDecides
    <3> QED BY <2>2, <2>4, <3>1, <3>2, SendsHeartbeats DEF SendHeartbeats, Send
  <2> QED BY <1>7, <2>3, <2>4 DEF ClientRequest
<1>8. CASE TriggerSnapshot(n)
  BY <1>2, <1>8 DEF TriggerSnapshot, history
<1>9. CASE TriggerSnapshotInterrupted(n) \/ Crash(n)
  BY <1>2, <1>9 DEF TriggerSnapshotInterrupted, Crash, GoDown, history
<1>10. CASE Restart(n)
  BY <1>2, <1>10 DEF Restart, history
<1> QED BY <1>3, <1>4, <1>5, <1>6, <1>7, <1>8, <1>9, <1>10 DEF Step

LEMMA ReceiveSent ==
  ASSUME TypeOK, NEW m \in messages, NEW n \in Receivers(m), Receive(n, m)
  PROVE  Sends(n)
<1>1. n \in Node
  BY ReceiversAreNodes DEF TypeOK, NetworkType
<1>2. st[n] \in HardState /\ commitIndex[n] \in Nat
  BY <1>1 DEF TypeOK, ProcessType, ProgressType
<1>3. ASSUME UNCHANGED <<messages, snapTasks, decided>>
      PROVE  Sends(n)
  BY <1>3 DEF Sends
<1>4. ASSUME NEW term, NEW success \in BOOLEAN, NEW index,
             Send({Result(m, term, success, index)}), UNCHANGED <<snapTasks, decided>>
      PROVE  Sends(n)
  <2> DEFINE r == Result(m, term, success, index)
  <2>1. r.type = "AppendEntriesResult" /\ messages' = messages \cup {r}
    BY <1>4 DEF Send, Result
  <2> HIDE DEF r
  <2> QED BY <1>4, <2>1 DEF Sends
<1>5. CASE ReceiveVote(n, m)
  <2>1. decided' = decided /\ UNCHANGED commitIndex
    BY <1>5 DEF ReceiveVote, progress
  <2>2. CASE UNCHANGED <<messages, snapTasks>>
    BY <1>3, <2>1, <2>2
  <2>3. CASE /\ BecomeLeader(n, st[n])
             /\ Send(Heartbeats(n, st[n], nextIndex'[n], commitIndex[n]))
             /\ UNCHANGED st
    <3>1. role'[n] = "Leader" /\ snapTasks' = snapTasks \cup SnapshotTasks(n, st'[n], nextIndex'[n])
      BY <1>1, <2>3 DEF BecomeLeader, TypeOK, ProcessType, LeadershipType
    <3> QED BY <1>1, <2>1, <2>3, <3>1, SendsHeartbeats DEF Send
  <2> QED BY <1>5, <2>2, <2>3 DEF ReceiveVote
<1>6. CASE HandleRequestVote(n, m)
  <2>1. PICK r : r.type = "RequestVoteReply" /\ messages' = messages \cup {r}
    BY <1>6 DEF HandleRequestVote, Send, RequestVoteReply
  <2>2. snapTasks' = snapTasks /\ decided' = decided
    BY <1>6 DEF HandleRequestVote, history
  <2> QED BY <2>1, <2>2 DEF Sends
<1>7. CASE StaleAppendEntries(n, m)
  BY <1>4, <1>7 DEF StaleAppendEntries, history
<1>8. CASE HandleAppendEntries(n, m)
  <2>1. PICK success \in BOOLEAN :
          \E index : Send({Result(m, UpdateTerm(st[n], m.term).currentTerm, success, index)})
    BY <1>8 DEF HandleAppendEntries, AppendConsistent, InMemory
  <2>2. PICK index : Send({Result(m, UpdateTerm(st[n], m.term).currentTerm, success, index)})
    BY <2>1
  <2> QED BY <1>4, <1>8, <2>2 DEF HandleAppendEntries, history
<1>9. CASE HandleResult(n, m)
  <2>1. UNCHANGED <<messages, snapTasks>>
    BY <1>9 DEF HandleResult
  <2>2. CASE UNCHANGED decided
    BY <1>3, <2>1, <2>2
  <2>3. ASSUME NEW match, role[n] = "Leader", AdvanceCommit(n, st[n], match, pending[n]),
               UNCHANGED <<st, role>>
        PROVE  Sends(n)
    BY <1>1, <1>2, <2>1, <2>3, AdvanceDecides DEF Sends
  <2> QED BY <1>9, <2>2, <2>3 DEF HandleResult
<1>10. CASE StaleInstallSnapshot(n, m)
  BY <1>4, <1>10 DEF StaleInstallSnapshot, history
<1>11. CASE InstallSnapshotTermUnsaved(n, m)
  BY <1>4, <1>11 DEF InstallSnapshotTermUnsaved, history
<1>12. CASE RefuseSnapshot(n, m)
  BY <1>4, <1>12 DEF RefuseSnapshot, history
<1>13. CASE HandleInstallSnapshot(n, m)
  BY <1>4, <1>13 DEF HandleInstallSnapshot, history
<1>14. CASE InstallSnapshotInterrupted(n, m)
  <2>1. UNCHANGED <<messages, decided>> /\ snapTasks' \subseteq snapTasks
    BY <1>14 DEF InstallSnapshotInterrupted, GoDown, history
  <2> QED BY <2>1 DEF Sends
<1> QED
  BY <1>5, <1>6, <1>7, <1>8, <1>9, <1>10, <1>11, <1>12, <1>13, <1>14 DEF Receive
------------------------------------------------------------------------------
(* Marks and entries are copied.                                           *)

Common == SentMarks \cup StoredMarks \cup Zero

FileMark(file) == <<file.index, file.term>>

(* A step that makes no entry takes what it stores from what was there; a  *)
(* leader takes it from its memory.                                        *)
Taken(n) == {e \in SentEntries : e.term <= hs'[n].currentTerm}

Copied(n) ==
  /\ LogOK(st'[n]) /\ LogOK(hs'[n])
  /\ HeldEntries(st'[n]) \subseteq HeldEntries(st[n]) \cup HeldEntries(hs[n]) \cup Taken(n)
  /\ HeldEntries(hs'[n]) \subseteq HeldEntries(st[n]) \cup HeldEntries(hs[n]) \cup Taken(n)
  /\ Base(st'[n]) \in Marks(st[n]) \cup Marks(hs[n]) \cup Common
  /\ Base(hs'[n]) \in Marks(st[n]) \cup Marks(hs[n]) \cup Common
  /\ role'[n] = "Leader" => /\ HeldEntries(st'[n]) \subseteq HeldEntries(st[n])
                            /\ Base(st'[n]) \in Marks(st[n])
  /\ snapFile'[n] # Nil => FileMark(snapFile'[n]) \in Marks(st[n]) \cup Common

LEMMA AppendFields ==
  ASSUME TypeOK, LogsOK, NEW m \in Appends
  PROVE  /\ m \in AppendEntriesType
         /\ m.prevIndex \in Nat /\ m.prevTerm \in Nat /\ m.entries \in Seq(LogEntry)
         /\ \A k \in 1 .. Len(m.entries) :
              m.entries[k].index = m.prevIndex + k /\ m.entries[k] \in SentEntries
<1>1. m \in AppendEntriesType
  BY MessageKinds DEF TypeOK, NetworkType, Appends
<1> QED BY <1>1 DEF AppendEntriesType, LogsOK, SentEntries

LEMMA InstallFields ==
  ASSUME TypeOK, LogsOK, NEW m \in Installs
  PROVE  /\ m.index \in Nat /\ m.snapTerm \in Nat /\ (m.index = 0 => m.snapTerm = 0)
         /\ m.body \in SnapshotBody
         /\ <<m.index, m.snapTerm>> \in SentMarks /\ FileMark(m.body) \in SentMarks
<1>1. m \in InstallSnapshotType
  BY MessageKinds DEF TypeOK, NetworkType, Installs
<1>2. <<m.index, m.snapTerm>> \in SentMarks /\ FileMark(m.body) \in SentMarks
  BY DEF SentMarks, FileMark
<1> QED BY <1>1, <1>2 DEF InstallSnapshotType, LogsOK

LEMMA OwnSnapshotMark ==
  ASSUME TypeOK, LogsOK, NEW n \in Node
  PROVE  FileMark(OwnSnapshot(n)) \in Marks(st[n]) \cup Zero
<1>1. st[n] \in HardState /\ lastApplied[n] \in Nat /\ LogOK(st[n])
  BY DEF TypeOK, ProcessType, ProgressType, LogsOK
<1>2. FileMark(OwnSnapshot(n)) = <<lastApplied[n], GetLogTerm(st[n], lastApplied[n])>>
  BY DEF OwnSnapshot, Snapshot, FileMark
<1> QED BY <1>1, <1>2, TermMark

LEMMA StoredMark ==
  ASSUME NEW n \in Node, snapFile[n] # Nil
  PROVE  FileMark(snapFile[n]) \in StoredMarks
BY DEF StoredMarks, FileMark

LEMMA HeldMarksType ==
  ASSUME NEW s \in HardState
  PROVE  Marks(s) \subseteq Nat \X Nat
<1>1. Base(s) \in Nat \X Nat
  BY HardStateFields DEF Base
<1>2. \A e \in HeldEntries(s) : EntryMark(e) \in Nat \X Nat
  BY HeldEntryType DEF EntryMark, LogEntry
<1> QED BY <1>1, <1>2 DEF Marks

LEMMA CommonType ==
  ASSUME TypeOK
  PROVE  SentMarks \cup StoredMarks \subseteq Nat \X Nat
<1>1. \A m \in Appends : m \in AppendEntriesType
  BY MessageKinds DEF TypeOK, NetworkType, Appends
<1>2. \A m \in Requests : <<m.lastLogIndex, m.lastLogTerm>> \in Nat \X Nat
  BY MessageKinds DEF TypeOK, NetworkType, Requests, RequestVoteType
<1>3. \A m \in Installs : /\ <<m.index, m.snapTerm>> \in Nat \X Nat
                          /\ <<m.body.index, m.body.term>> \in Nat \X Nat
  BY MessageKinds DEF TypeOK, NetworkType, Installs, InstallSnapshotType, SnapshotBody
<1>4. \A t \in snapTasks : <<t.index, t.snapTerm>> \in Nat \X Nat
  BY DEF TypeOK, NetworkType, TaskType
<1>5. \A e \in SentEntries \cup decided : EntryMark(e) \in Nat \X Nat
  <2>1. \A m \in Appends : \A k \in 1 .. Len(m.entries) : m.entries[k] \in LogEntry
    BY <1>1 DEF AppendEntriesType
  <2>2. SentEntries \cup decided \subseteq LogEntry
    BY <2>1 DEF SentEntries, TypeOK, HistoryType
  <2> QED BY <2>2 DEF EntryMark, LogEntry
<1>6. \A n \in Node : snapFile[n] # Nil => <<snapFile[n].index, snapFile[n].term>> \in Nat \X Nat
  BY DEF TypeOK, DiskType, SnapshotBody
<1>7. SentMarks \subseteq Nat \X Nat
  <2>1. \A m \in Appends : <<m.prevIndex, m.prevTerm>> \in Nat \X Nat
    BY <1>1 DEF AppendEntriesType
  <2> QED BY <1>2, <1>3, <1>4, <1>5, <2>1 DEF SentMarks
<1>8. StoredMarks \subseteq Nat \X Nat
  BY <1>5, <1>6 DEF StoredMarks
<1> QED BY <1>7, <1>8

LEMMA MarksType ==
  ASSUME TypeOK, NEW l \in Node
  PROVE  MarksBut(l) \cup Marks(hs[l]) \subseteq Nat \X Nat
<1>1. \A n \in Node : Marks(st[n]) \subseteq Nat \X Nat /\ Marks(hs[n]) \subseteq Nat \X Nat
  BY HeldMarksType DEF TypeOK, DiskType, ProcessType
<1>2. SentMarks \cup StoredMarks \subseteq Nat \X Nat
  BY CommonType
<1> QED BY <1>1, <1>2 DEF MarksBut

LEMMA ChangeCopies ==
  ASSUME TypeOK, TypeOK', LeaderInv, LogsOK, TermsBounded,
         NEW n \in Node, LogChange(n), ~PushedLog(n)
  PROVE  Copied(n)
<1>1. /\ st[n] \in HardState /\ hs[n] \in HardState /\ lastApplied[n] \in Nat
      /\ st'[n] \in HardState /\ hs'[n] \in HardState
      /\ LogOK(st[n]) /\ LogOK(hs[n])
  BY DEF TypeOK, DiskType, ProcessType, ProgressType, LogsOK
<1>2. Base(st[n]) \in Marks(st[n]) /\ Base(hs[n]) \in Marks(hs[n])
  BY DEF Marks
<1>3. ASSUME NEW s \in HardState, NEW t \in HardState, SameLog(s, t), LogOK(t)
      PROVE  LogOK(s) /\ HeldEntries(s) = HeldEntries(t) /\ Base(s) = Base(t)
  BY <1>3, LogFields DEF SameLog, Base
<1>4. snapFile'[n] = snapFile[n] =>
        (snapFile'[n] # Nil => FileMark(snapFile'[n]) \in Common)
  BY StoredMark DEF Common
<1>5. FileMark(OwnSnapshot(n)) \in Marks(st[n]) \cup Common
  BY OwnSnapshotMark DEF Common
<1>6. \A m \in Installs : FileMark(m.body) \in Common
  BY InstallFields DEF Common
<1>7. CASE KeptLog(n)
  <2>1. LogOK(st'[n]) /\ HeldEntries(st'[n]) = HeldEntries(st[n]) /\ Base(st'[n]) = Base(st[n])
    BY <1>1, <1>3, <1>7 DEF KeptLog
  <2>2. /\ LogOK(hs'[n])
        /\ \/ HeldEntries(hs'[n]) = HeldEntries(st[n]) /\ Base(hs'[n]) = Base(st[n])
           \/ HeldEntries(hs'[n]) = HeldEntries(hs[n]) /\ Base(hs'[n]) = Base(hs[n])
    BY <1>1, <1>3, <1>7 DEF KeptLog
  <2> QED BY <1>2, <1>4, <1>7, <2>1, <2>2 DEF KeptLog, Copied
<1>8. CASE MergedLogs(n)
  <2>1. PICK m \in Appends :
          /\ m.term >= st[n].currentTerm
          /\ AppendConsistent(UpdateTerm(st[n], m.term), m.prevIndex, m.prevTerm)
          /\ hs'[n] = WithEntries(UpdateTerm(st[n], m.term), m.prevIndex, m.entries)
          /\ st'[n] = UpdateTerm(st[n], m.term) \/ st'[n] = hs'[n]
          /\ role'[n] = "Follower" /\ snapFile'[n] = snapFile[n]
    BY <1>8 DEF MergedLogs
  <2> DEFINE s == UpdateTerm(st[n], m.term)
             w == WithEntries(s, m.prevIndex, m.entries)
  <2>2. m.term \in Nat /\ m.prevIndex \in Nat /\ m.entries \in Seq(LogEntry)
    BY AppendFields DEF AppendEntriesType
  <2>3. s \in HardState /\ SameLog(s, st[n]) /\ InMemory(s, m.prevIndex)
    BY <1>1, <2>1, <2>2, UpdateTermType, UpdatedLog DEF AppendConsistent
  <2> HIDE DEF s
  <2>4. LogOK(s) /\ HeldEntries(s) = HeldEntries(st[n]) /\ Base(s) = Base(st[n])
    BY <1>1, <1>3, <2>3
  <2>5. \A k \in 1 .. Len(m.entries) : m.entries[k].index = m.prevIndex + k /\ m.entries[k] \in SentEntries
    BY AppendFields
  <2>6. /\ LogOK(w) /\ Base(w) = Base(s)
        /\ HeldEntries(w) \subseteq HeldEntries(s) \cup {m.entries[k] : k \in 1 .. Len(m.entries)}
    BY <2>2, <2>3, <2>4, <2>5, MergedLogOK
  <2> HIDE DEF w
  <2>7. hs'[n] = w /\ (st'[n] = s \/ st'[n] = w)
    BY <2>1 DEF s, w
  <2>8. w.currentTerm = m.term
    <3>1. s.currentTerm = m.term
      BY <2>1, ReachedTerm DEF Appends, s
    <3>2. w.currentTerm = s.currentTerm
      BY <2>2, <2>3, WithEntriesType DEF w
    <3> QED BY <3>1, <3>2
  <2>9. \A k \in 1 .. Len(m.entries) : m.entries[k] \in Taken(n)
    BY <2>5, <2>7, <2>8 DEF TermsBounded, Taken
  <2>10. /\ HeldEntries(w) \subseteq HeldEntries(st[n]) \cup Taken(n)
         /\ Base(w) \in Marks(st[n]) /\ Base(s) \in Marks(st[n])
    BY <1>2, <2>4, <2>6, <2>9
  <2> QED BY <1>4, <2>1, <2>4, <2>6, <2>7, <2>10 DEF Copied
<1>9. CASE CompactedLog(n)
  <2> DEFINE i == lastApplied[n]
             c == CompactTo(st[n], i)
  <2>1. CASE hs'[n] = hs[n] /\ st'[n] = st[n]
    BY <1>1, <1>2, <1>5, <1>9, <2>1 DEF CompactedLog, Copied
  <2>2. CASE InMemory(st[n], i) /\ hs'[n] = c /\ st'[n] = c
    <3>1. st[n].lastIncludedIndex \in Nat /\ i >= st[n].lastIncludedIndex
      BY <1>1, <1>9, HardStateFields DEF CompactedLog
    <3>2. /\ GetLogTerm(st[n], i) \in Nat /\ (i = 0 => GetLogTerm(st[n], i) = 0)
          /\ <<i, GetLogTerm(st[n], i)>> \in Marks(st[n])
      BY <1>1, <2>2, TermMark, GetLogTermType
    <3>3. /\ LogOK(c) /\ HeldEntries(c) \subseteq HeldEntries(st[n])
          /\ Base(c) = <<i, GetLogTerm(st[n], i)>>
      BY <1>1, <3>1, <3>2, CompactedLogOK DEF CompactTo
    <3> HIDE DEF c
    <3> QED BY <1>5, <1>9, <2>2, <3>2, <3>3 DEF CompactedLog, Copied
  <2> QED BY <1>9, <2>1, <2>2 DEF CompactedLog
<1>10. CASE InstalledLog(n)
  <2>1. PICK m \in Installs :
          /\ hs'[n] = InstalledAt(UpdateTerm(st[n], m.term), m.index, m.snapTerm)
          /\ st'[n] = hs'[n] /\ snapFile'[n] = m.body /\ role'[n] = "Follower"
    BY <1>10 DEF InstalledLog
  <2> DEFINE s == UpdateTerm(st[n], m.term)
             c == InstalledAt(s, m.index, m.snapTerm)
  <2>2. /\ m.index \in Nat /\ m.snapTerm \in Nat /\ (m.index = 0 => m.snapTerm = 0)
        /\ <<m.index, m.snapTerm>> \in Common /\ m.term \in Nat
    BY InstallFields, MessageKinds DEF Common, Installs, TypeOK, NetworkType, InstallSnapshotType
  <2>3. s \in HardState
    BY <1>1, <2>2, UpdateTermType
  <2> HIDE DEF s
  <2>4. LogOK(c) /\ HeldEntries(c) = {} /\ Base(c) = <<m.index, m.snapTerm>>
    BY <2>2, <2>3, InstalledLogOK
  <2> HIDE DEF c
  <2>5. hs'[n] = c /\ st'[n] = c
    BY <2>1 DEF c, s
  <2> QED BY <1>6, <2>1, <2>2, <2>4, <2>5 DEF Copied
<1>11. CASE LostLog(n)
  <2>1. /\ LogOK(hs'[n])
        /\ \/ HeldEntries(hs'[n]) = HeldEntries(st[n]) /\ Base(hs'[n]) = Base(st[n])
           \/ HeldEntries(hs'[n]) = HeldEntries(hs[n]) /\ Base(hs'[n]) = Base(hs[n])
    BY <1>1, <1>3, <1>11 DEF LostLog
  <2>2. st'[n] = hs'[n] /\ role'[n] = "Follower"
    BY <1>11 DEF LostLog
  <2>3. snapFile'[n] # Nil => FileMark(snapFile'[n]) \in Marks(st[n]) \cup Common
    BY <1>4, <1>5, <1>6, <1>11 DEF LostLog
  <2> QED BY <1>2, <2>1, <2>2, <2>3 DEF Copied
<1>12. CASE RecoveredLog(n)
  <2>1. role'[n] = "Follower" /\ st'[n] = hs'[n] /\ snapFile'[n] = snapFile[n]
        /\ hs'[n] = Recovered(hs[n], snapFile[n])
    BY <1>12 DEF RecoveredLog, LeaderInv, DownIsFollower
  <2>2. CASE hs'[n] = hs[n]
    BY <1>1, <1>2, <1>4, <2>1, <2>2 DEF Copied
  <2>3. CASE /\ snapFile[n] # Nil /\ snapFile[n].index > hs[n].lastIncludedIndex
             /\ hs'[n] = Reconciled(hs[n], snapFile[n].index, snapFile[n].term)
    <3> DEFINE i == snapFile[n].index
               c == Reconciled(hs[n], i, snapFile[n].term)
    <3>1. snapFile[n] \in SnapshotBody
      BY <2>3 DEF TypeOK, DiskType
    <3>2. i \in Nat /\ snapFile[n].term \in Nat /\ hs[n].lastIncludedIndex \in Nat
      BY <1>1, <3>1, HardStateFields DEF SnapshotBody
    <3>3. i # 0 /\ i >= hs[n].lastIncludedIndex
      BY <2>3, <3>2
    <3>4. /\ LogOK(c) /\ HeldEntries(c) \subseteq HeldEntries(hs[n])
          /\ Base(c) = <<i, snapFile[n].term>>
      BY <1>1, <3>2, <3>3, CompactedLogOK DEF Reconciled
    <3>5. Base(c) \in Common
      BY <2>3, <3>4, StoredMark DEF Common, FileMark
    <3>6. hs'[n] = c
      BY <2>3
    <3> HIDE DEF c
    <3> QED BY <1>4, <2>1, <3>4, <3>5, <3>6 DEF Copied
  <2> QED BY <2>1, <2>2, <2>3 DEF Recovered
<1> QED BY <1>7, <1>8, <1>9, <1>10, <1>11, <1>12 DEF LogChange

LEMMA NewAppend ==
  ASSUME NEW s \in HardState, LogOK(s), NEW next \in Nat, next > s.lastIncludedIndex,
         NEW n, NEW p, NEW commit
  PROVE  LET m == AppendEntries(n, p, s, next, commit)
         IN  /\ m.prevIndex = next - 1 /\ m.prevIndex \in Nat /\ m.term = s.currentTerm
             /\ m.prevTerm = GetLogTerm(s, m.prevIndex)
             /\ <<m.prevIndex, m.prevTerm>> \in Marks(s) \cup Zero
             /\ m.prevIndex = 0 => m.prevTerm = 0
             /\ \A k \in 1 .. Len(m.entries) :
                  m.entries[k] \in HeldEntries(s) /\ m.entries[k].index = m.prevIndex + k
<1> DEFINE m == AppendEntries(n, p, s, next, commit)
<1>1. /\ m.prevIndex = next - 1 /\ m.prevTerm = GetLogTerm(s, next - 1)
      /\ m.entries = EntriesBetween(s, next, LastLogIndex(s)) /\ m.term = s.currentTerm
  BY DEF AppendEntries
<1>2. next - 1 \in Nat
  BY HardStateFields
<1>3. /\ <<next - 1, GetLogTerm(s, next - 1)>> \in Marks(s) \cup Zero
      /\ next - 1 = 0 => GetLogTerm(s, next - 1) = 0
  BY <1>2, TermMark
<1>4. \A k \in 1 .. Len(m.entries) :
        m.entries[k] \in HeldEntries(s) /\ m.entries[k].index = (next - 1) + k
  BY <1>1, SentFrom
<1> HIDE DEF m
<1> QED BY <1>1, <1>2, <1>3, <1>4 DEF m

LEMMA SentCopied ==
  ASSUME TypeOK, TypeOK', LogsOK, NEW n \in Node, LogOK(st'[n]), Sends(n)
  PROVE  /\ SentMarks' \subseteq SentMarks \cup Marks(st'[n]) \cup Zero
         /\ SentEntries' \subseteq SentEntries \cup HeldEntries(st'[n])
         /\ \A m \in Appends' :
              /\ \A k \in 1 .. Len(m.entries) : m.entries[k].index = m.prevIndex + k
              /\ m.prevIndex = 0 => m.prevTerm = 0
         /\ \A m \in (Installs \cup snapTasks)' : m.index = 0 => m.snapTerm = 0
<1> DEFINE s == st'[n]
<1>1. s \in HardState /\ \A p \in Node : nextIndex'[n][p] \in Nat
  BY DEF TypeOK, ProcessType, LeadershipType
<1>2. ASSUME NEW m \in messages' \ messages, m.type = "AppendEntries"
      PROVE  /\ <<m.prevIndex, m.prevTerm>> \in Marks(s) \cup Zero
             /\ m.prevIndex = 0 => m.prevTerm = 0
             /\ \A k \in 1 .. Len(m.entries) :
                  m.entries[k] \in HeldEntries(s) /\ m.entries[k].index = m.prevIndex + k
  <2>1. /\ m.dst \in Node /\ nextIndex'[n][m.dst] > s.lastIncludedIndex
        /\ m = AppendEntries(n, m.dst, s, nextIndex'[n][m.dst], commitIndex[n])
    BY <1>2 DEF Sends
  <2>2. nextIndex'[n][m.dst] \in Nat
    BY <1>1, <2>1
  <2> QED BY <1>1, <2>1, <2>2, NewAppend
<1>3. ASSUME NEW m \in messages' \ messages, m.type = "RequestVote"
      PROVE  <<m.lastLogIndex, m.lastLogTerm>> \in Marks(s)
  <2>1. m = RequestVote(n, s)
    BY <1>3 DEF Sends
  <2>2. m.lastLogIndex = LastLogIndex(s) /\ m.lastLogTerm = LastLogTerm(s)
    BY <2>1 DEF RequestVote
  <2> QED BY <1>1, <2>2, LastMark
<1>4. Installs' \subseteq Installs
  BY DEF Sends, Installs
<1>5. ASSUME NEW t \in snapTasks' \ snapTasks
      PROVE  <<t.index, t.snapTerm>> = Base(s)
  <2>1. t = SnapshotTask(n, t.dst, s)
    BY DEF Sends
  <2>2. t.index = s.lastIncludedIndex /\ t.snapTerm = s.lastIncludedTerm
    BY <2>1 DEF SnapshotTask
  <2> QED BY <2>2 DEF Base
<1> HIDE DEF s
<1>6. SentEntries' \subseteq SentEntries \cup HeldEntries(s)
  <2> SUFFICES ASSUME NEW m \in Appends', NEW k \in 1 .. Len(m.entries)
               PROVE  m.entries[k] \in SentEntries \cup HeldEntries(s)
    BY DEF SentEntries
  <2>1. CASE m \in messages
    BY <2>1 DEF Appends, SentEntries
  <2>2. CASE m \notin messages
    BY <1>2, <2>2 DEF Appends
  <2> QED BY <2>1, <2>2
<1>7. ASSUME NEW x \in SentMarks'
      PROVE  x \in SentMarks \cup Marks(s) \cup Zero
  <2>1. CASE \E m \in Appends' : x = <<m.prevIndex, m.prevTerm>>
    BY <1>2, <2>1 DEF Appends, SentMarks
  <2>2. CASE \E e \in SentEntries' : x = EntryMark(e)
    BY <1>6, <2>2 DEF SentMarks, Marks
  <2>3. CASE \E m \in Requests' : x = <<m.lastLogIndex, m.lastLogTerm>>
    BY <1>3, <2>3 DEF Requests, SentMarks
  <2>4. CASE \E m \in (Installs \cup snapTasks)' : x = <<m.index, m.snapTerm>>
    BY <1>4, <1>5, <2>4 DEF SentMarks, Marks
  <2>5. CASE \E m \in Installs' : x = <<m.body.index, m.body.term>>
    BY <1>4, <2>5 DEF SentMarks
  <2> QED BY <2>1, <2>2, <2>3, <2>4, <2>5 DEF SentMarks
<1>8. \A m \in Appends' :
        /\ \A k \in 1 .. Len(m.entries) : m.entries[k].index = m.prevIndex + k
        /\ m.prevIndex = 0 => m.prevTerm = 0
  BY <1>2 DEF LogsOK, Appends
<1>9. \A m \in (Installs \cup snapTasks)' : m.index = 0 => m.snapTerm = 0
  <2> SUFFICES ASSUME NEW m \in (Installs \cup snapTasks)', m.index = 0
               PROVE  m.snapTerm = 0
    OBVIOUS
  <2>1. CASE m \in Installs \cup snapTasks
    BY <2>1 DEF LogsOK
  <2>2. CASE m \in snapTasks' \ snapTasks
    BY <1>5, <2>2 DEF Base, LogOK, s
  <2> QED BY <1>4, <2>1, <2>2
<1> QED BY <1>6, <1>7, <1>8, <1>9 DEF s

(* Every mark after a step is an old one or in the log of its node.        *)
LEMMA MarksGrow ==
  ASSUME TypeOK, TypeOK', LogsOK, NEW n \in Node, \A p \in Node \ {n} : Untouched(p),
         LogOK(st'[n]), Sends(n),
         snapFile'[n] # Nil => FileMark(snapFile'[n]) \in Marks(st[n]) \cup Common
  PROVE  /\ \A l \in Node : \A k \in MarksBut(l)' :
              \/ k \in MarksBut(l) \cup Zero \cup Marks(st'[n])
              \/ l # n /\ k \in Marks(hs'[n])
         /\ \A l \in Node \ {n} : Marks(hs'[l]) = Marks(hs[l])
         /\ \A e \in Entries' : \/ e \in HeldEntries(st'[n]) \cup HeldEntries(hs'[n])
                                \/ e \in Entries /\ EntryMark(e) \in MarksBut(n)
<1>1. /\ SentMarks' \subseteq SentMarks \cup Marks(st'[n]) \cup Zero
      /\ SentEntries' \subseteq SentEntries \cup HeldEntries(st'[n])
  BY SentCopied
<1>2. \A e \in decided' : e \in decided \/ e \in HeldEntries(st'[n])
  BY DEF Sends
<1>3. \A p \in Node \ {n} : st'[p] = st[p] /\ hs'[p] = hs[p] /\ snapFile'[p] = snapFile[p]
  BY DEF Untouched
<1>4. StoredMarks' \subseteq StoredMarks \cup SentMarks \cup Zero \cup Marks(st[n]) \cup Marks(st'[n])
  <2> SUFFICES ASSUME NEW k \in StoredMarks'
               PROVE  k \in StoredMarks \cup SentMarks \cup Zero \cup Marks(st[n]) \cup Marks(st'[n])
    OBVIOUS
  <2>1. CASE \E e \in decided' : k = EntryMark(e)
    BY <1>2, <2>1 DEF StoredMarks, Marks
  <2>2. ASSUME NEW p \in Node, snapFile'[p] # Nil, k = FileMark(snapFile'[p])
        PROVE  k \in StoredMarks \cup SentMarks \cup Zero \cup Marks(st[n])
    <3>1. CASE p = n
      BY <2>2, <3>1 DEF Common
    <3>2. CASE p # n
      BY <1>3, <2>2, <3>2, StoredMark
    <3> QED BY <3>1, <3>2
  <2> QED BY <2>1, <2>2 DEF StoredMarks, FileMark
<1>5. ASSUME NEW l \in Node, NEW k \in MarksBut(l)'
      PROVE  \/ k \in MarksBut(l) \cup Zero \cup Marks(st'[n])
             \/ l # n /\ k \in Marks(hs'[n])
  <2>1. CASE k \in SentMarks' \cup StoredMarks'
    BY <1>1, <1>4, <2>1 DEF MarksBut
  <2>2. ASSUME NEW p \in Node, k \in Marks(st'[p])
        PROVE  k \in MarksBut(l) \cup Marks(st'[n])
    BY <1>3, <2>2 DEF MarksBut
  <2>3. ASSUME NEW p \in Node \ {l}, k \in Marks(hs'[p])
        PROVE  k \in MarksBut(l) \/ (l # n /\ k \in Marks(hs'[n]))
    BY <1>3, <2>3 DEF MarksBut
  <2> QED BY <2>1, <2>2, <2>3 DEF MarksBut, Marks, Base, HeldEntries
<1>6. ASSUME NEW e \in Entries'
      PROVE  \/ e \in HeldEntries(st'[n]) \cup HeldEntries(hs'[n])
             \/ e \in Entries /\ EntryMark(e) \in MarksBut(n)
  <2>1. CASE e \in SentEntries' \cup decided'
    <3>1. e \in SentEntries \cup decided => EntryMark(e) \in SentMarks \cup StoredMarks
      BY DEF SentMarks, StoredMarks
    <3> QED BY <1>1, <1>2, <2>1, <3>1 DEF Entries, MarksBut
  <2>2. ASSUME NEW p \in Node, e \in HeldEntries(st'[p]) \cup HeldEntries(hs'[p])
        PROVE  \/ e \in HeldEntries(st'[n]) \cup HeldEntries(hs'[n])
               \/ e \in Entries /\ EntryMark(e) \in MarksBut(n)
    <3>1. CASE p = n
      BY <2>2, <3>1
    <3>2. CASE p # n
      <4>1. e \in HeldEntries(st[p]) \cup HeldEntries(hs[p]) /\ p \in Node \ {n}
        BY <1>3, <2>2, <3>2
      <4>2. EntryMark(e) \in Marks(st[p]) \cup Marks(hs[p])
        BY <4>1 DEF Marks
      <4> QED BY <4>1, <4>2 DEF Entries, MarksBut
    <3> QED BY <3>1, <3>2
  <2> QED BY <2>1, <2>2 DEF Entries, HeldEntries
<1>7. \A l \in Node \ {n} : Marks(hs'[l]) = Marks(hs[l])
  BY <1>3
<1>8. \A l \in Node : \A k \in MarksBut(l)' :
        \/ k \in MarksBut(l) \cup Zero \cup Marks(st'[n])
        \/ l # n /\ k \in Marks(hs'[n])
  BY <1>5
<1>9. \A e \in Entries' : \/ e \in HeldEntries(st'[n]) \cup HeldEntries(hs'[n])
                          \/ e \in Entries /\ EntryMark(e) \in MarksBut(n)
  BY <1>6
<1> QED BY <1>7, <1>8, <1>9

LEMMA LogsStayOK ==
  ASSUME TypeOK, TypeOK', LogsOK, NEW n \in Node, \A p \in Node \ {n} : Untouched(p),
         LogOK(st'[n]), LogOK(hs'[n]), Sends(n)
  PROVE  LogsOK'
<1>1. \A p \in Node : LogOK(st'[p]) /\ LogOK(hs'[p])
  BY DEF LogsOK, Untouched
<1>2. /\ \A m \in Appends' :
           /\ \A k \in 1 .. Len(m.entries) : m.entries[k].index = m.prevIndex + k
           /\ m.prevIndex = 0 => m.prevTerm = 0
      /\ \A m \in (Installs \cup snapTasks)' : m.index = 0 => m.snapTerm = 0
  BY SentCopied
<1> QED BY <1>1, <1>2 DEF LogsOK, LogOK

(* How a leader's log and the leaders go on.                               *)
GoesOn(n) ==
  role'[n] = "Leader" =>
    \/ <<st'[n].currentTerm, n>> \notin elected
    \/ /\ role[n] = "Leader" /\ st'[n].currentTerm = st[n].currentTerm
       /\ LastLogIndex(st'[n]) >= LastLogIndex(st[n])

LEMMA CopiedMarks ==
  ASSUME TypeOK, TypeOK', LogsOK, MarksElected, LeaderAhead, EntryUnique,
         LeadersElected', ElectionSafety', elected \subseteq elected', \A e \in elected' : e[1] > 0,
         NEW n \in Node, \A p \in Node \ {n} : Untouched(p), GoesOn(n), Copied(n), Sends(n)
  PROVE  LogsOK' /\ MarksElected' /\ LeaderAhead' /\ EntryUnique'
<1>1. LogsOK'
  BY LogsStayOK DEF Copied
<1>2. /\ \A l \in Node : \A k \in MarksBut(l)' :
           \/ k \in MarksBut(l) \cup Zero \cup Marks(st'[n])
           \/ l # n /\ k \in Marks(hs'[n])
      /\ \A l \in Node \ {n} : Marks(hs'[l]) = Marks(hs[l])
      /\ \A e \in Entries' : \/ e \in HeldEntries(st'[n]) \cup HeldEntries(hs'[n])
                             \/ e \in Entries /\ EntryMark(e) \in MarksBut(n)
  BY MarksGrow DEF Copied
<1>3. /\ SentEntries \subseteq Entries
      /\ HeldEntries(st[n]) \subseteq Entries /\ HeldEntries(hs[n]) \subseteq Entries
  BY DEF Entries
<1>4. EntryUnique'
  BY <1>2, <1>3 DEF EntryUnique, Copied, Taken
<1>5. \A e \in SentEntries : EntryMark(e) \in SentMarks
  BY DEF SentMarks
<1>6. /\ Marks(st'[n]) \subseteq Marks(st[n]) \cup Marks(hs[n]) \cup Common
      /\ Marks(hs'[n]) \subseteq Marks(st[n]) \cup Marks(hs[n]) \cup Common
      /\ role'[n] = "Leader" => Marks(st'[n]) \subseteq Marks(st[n])
  BY <1>5 DEF Copied, Marks, Common, Taken
<1>7. \A l \in Node : Marks(st[n]) \subseteq MarksBut(l) /\ Common \subseteq MarksBut(l) \cup Zero
  BY DEF MarksBut, Common
<1>8. \A l \in Node \ {n} : Marks(hs[n]) \subseteq MarksBut(l)
  BY DEF MarksBut
<1>9. \A l \in Node : \A k \in (MarksBut(l) \cup Marks(hs[l]))' :
        k \in MarksBut(l) \cup Marks(hs[l]) \cup Zero
  <2> SUFFICES ASSUME NEW l \in Node, NEW k \in (MarksBut(l) \cup Marks(hs[l]))'
               PROVE  k \in MarksBut(l) \cup Marks(hs[l]) \cup Zero
    OBVIOUS
  <2>1. CASE l = n
    BY <1>2, <1>6, <1>7, <2>1
  <2>2. CASE l # n
    BY <1>2, <1>6, <1>7, <1>8, <2>2
  <2> QED BY <2>1, <2>2
<1>10. MarksElected'
  BY <1>9 DEF MarksElected, IsElected, Zero
<1>11. LeaderAhead'
  <2> SUFFICES ASSUME NEW l \in Node, role'[l] = "Leader"
               PROVE  /\ \A k \in MarksBut(l)' : k[2] = st'[l].currentTerm => k[1] <= LastLogIndex(st'[l])
                      /\ \A k \in Marks(hs'[l]) :
                           k[2] = st'[l].currentTerm => k[1] <= LastLogIndex(st'[l]) + 1
    BY DEF LeaderAhead
  <2>1. <<st'[l].currentTerm, l>> \in elected' /\ st'[l].currentTerm > 0
    BY DEF LeadersElected
  <2>2. \A k \in Zero : k[2] # st'[l].currentTerm
    BY <2>1 DEF Zero, TypeOK, HistoryType
  <2>3. CASE l # n
    <3>1. role[l] = "Leader" /\ st'[l] = st[l] /\ hs'[l] = hs[l]
      BY <2>3 DEF Untouched
    <3>2. MarksBut(l)' \subseteq MarksBut(l) \cup Zero
      BY <1>2, <1>6, <1>7, <1>8, <2>3
    <3> QED BY <2>2, <3>1, <3>2 DEF LeaderAhead
  <2>4. CASE l = n /\ <<st'[n].currentTerm, n>> \notin elected
    <3>1. ~IsElected(st'[n].currentTerm)
      BY <2>1, <2>4 DEF IsElected, ElectionSafety
    <3> QED BY <1>9, <2>1, <2>2, <2>4, <3>1 DEF MarksElected
  <2>5. CASE /\ l = n /\ role[n] = "Leader" /\ st'[n].currentTerm = st[n].currentTerm
             /\ LastLogIndex(st'[n]) >= LastLogIndex(st[n])
    <3>1. MarksBut(n)' \subseteq MarksBut(n) \cup Zero
      BY <1>2, <1>6, <1>7, <2>5
    <3>2. Marks(hs'[n]) \subseteq MarksBut(n) \cup Marks(hs[n]) \cup Zero
      BY <1>6, <1>7
    <3>3. LastLogIndex(st'[n]) \in Nat /\ LastLogIndex(st[n]) \in Nat
      BY HardStateFields DEF TypeOK, ProcessType
    <3>4. \A k \in MarksBut(n) \cup Marks(hs[n]) \cup Zero : k[1] \in Nat
      <4>1. MarksBut(n) \cup Marks(hs[n]) \subseteq Nat \X Nat
        BY MarksType
      <4> QED BY <4>1 DEF Zero
    <3> QED BY <2>2, <2>5, <3>1, <3>2, <3>3, <3>4 DEF LeaderAhead
  <2> QED BY <2>3, <2>4, <2>5 DEF GoesOn
<1> QED BY <1>1, <1>4, <1>10, <1>11

(* A leader's new entry is the first of its index and term.                *)
LEMMA PushedMarks ==
  ASSUME TypeOK, TypeOK', LogsOK, MarksElected, LeaderAhead, EntryUnique,
         LeadersElected, LeadersElected', ElectionSafety', elected \subseteq elected',
         \A e \in elected' : e[1] > 0,
         NEW n \in Node, \A p \in Node \ {n} : Untouched(p), PushedLog(n), Sends(n)
  PROVE  /\ LogsOK' /\ MarksElected' /\ LeaderAhead' /\ EntryUnique'
         /\ \A e \in HeldEntries(st'[n]) \cup HeldEntries(hs'[n]) :
              e \in HeldEntries(st[n]) \/ e.term <= hs'[n].currentTerm
<1>1. PICK v \in Value : /\ hs'[n] = PushEntry(st[n], v)
                         /\ st'[n] = PushEntry(st[n], v) \/ st'[n] = st[n]
  BY DEF PushedLog
<1> DEFINE s == st[n]
           p == PushEntry(s, v)
           e == [term |-> s.currentTerm, index |-> LastLogIndex(s) + 1, command |-> v]
           mk == EntryMark(e)
<1>2. s \in HardState /\ LogOK(s) /\ v \in Command
  BY DEF TypeOK, ProcessType, LogsOK, Command
<1>3. /\ p.currentTerm = s.currentTerm /\ LastLogIndex(p) = LastLogIndex(s) + 1
      /\ p \in HardState
  BY <1>2, PushedFields, PushEntryType
<1>4. LogOK(p) /\ HeldEntries(p) = HeldEntries(s) \cup {e} /\ Base(p) = Base(s)
  BY <1>2, PushedLogOK
<1>5. mk = <<LastLogIndex(s) + 1, s.currentTerm>> /\ e.term = s.currentTerm
  BY DEF EntryMark
<1>6. Marks(p) = Marks(s) \cup {mk}
  BY <1>4 DEF Marks
<1>7. hs'[n] = p /\ (st'[n] = p \/ st'[n] = s) /\ role[n] = "Leader" /\ role'[n] = "Leader"
  BY <1>1 DEF PushedLog
<1>8. LastLogIndex(s) \in Nat /\ s.currentTerm \in Nat
  BY <1>2, HardStateFields
<1> HIDE DEF s, p, e, mk
<1>9. LogOK(st'[n]) /\ LogOK(hs'[n])
  BY <1>2, <1>4, <1>7
<1>10. LogsOK'
  BY <1>9, LogsStayOK
<1>11. snapFile'[n] # Nil => FileMark(snapFile'[n]) \in Common
  BY StoredMark DEF PushedLog, Common
<1>12. /\ \A l \in Node : \A k \in MarksBut(l)' :
            \/ k \in MarksBut(l) \cup Zero \cup Marks(st'[n])
            \/ l # n /\ k \in Marks(hs'[n])
       /\ \A l \in Node \ {n} : Marks(hs'[l]) = Marks(hs[l])
       /\ \A f \in Entries' :
            \/ f \in HeldEntries(st'[n]) \cup HeldEntries(hs'[n])
            \/ f \in Entries /\ EntryMark(f) \in MarksBut(n)
  BY <1>9, <1>11, MarksGrow
<1>13. \A l \in Node : Marks(s) \subseteq MarksBut(l)
  BY DEF MarksBut, s
<1>14. /\ \A l \in Node : \A k \in MarksBut(l)' : k \in MarksBut(l) \cup Zero \cup {mk}
       /\ st'[n] = s => \A k \in MarksBut(n)' : k \in MarksBut(n) \cup Zero
       /\ Marks(hs'[n]) \subseteq MarksBut(n) \cup {mk}
  BY <1>6, <1>7, <1>12, <1>13
<1>15. <<s.currentTerm, n>> \in elected /\ s.currentTerm > 0
  BY <1>7 DEF LeadersElected, s
<1>16. MarksElected'
  <2> SUFFICES ASSUME NEW l \in Node, NEW k \in (MarksBut(l) \cup Marks(hs[l]))'
               PROVE  k[2] = 0 \/ IsElected(k[2])'
    BY DEF MarksElected
  <2>1. k \in MarksBut(l) \cup Marks(hs[l]) \cup MarksBut(n) \cup Zero \cup {mk}
    BY <1>12, <1>14
  <2>2. mk[2] = s.currentTerm
    BY <1>5
  <2> QED BY <1>15, <2>1, <2>2 DEF MarksElected, IsElected, Zero
<1>17. LeaderAhead'
  <2> SUFFICES ASSUME NEW l \in Node, role'[l] = "Leader"
               PROVE  /\ \A k \in MarksBut(l)' : k[2] = st'[l].currentTerm => k[1] <= LastLogIndex(st'[l])
                      /\ \A k \in Marks(hs'[l]) :
                           k[2] = st'[l].currentTerm => k[1] <= LastLogIndex(st'[l]) + 1
    BY DEF LeaderAhead
  <2>1. <<st'[l].currentTerm, l>> \in elected' /\ st'[l].currentTerm > 0
    BY DEF LeadersElected
  <2>2. \A k \in Zero : k[2] # st'[l].currentTerm
    BY <2>1 DEF Zero
  <2>3. CASE l # n
    <3>1. role[l] = "Leader" /\ st'[l] = st[l] /\ hs'[l] = hs[l]
      BY <2>3 DEF Untouched
    <3>2. st'[l].currentTerm # s.currentTerm
      BY <1>15, <2>1, <2>3 DEF ElectionSafety
    <3>3. mk[2] # st'[l].currentTerm
      BY <1>5, <3>2
    <3> QED BY <1>14, <2>2, <3>1, <3>3 DEF LeaderAhead
  <2>4. CASE l = n
    <3>1. st'[n].currentTerm = s.currentTerm
      BY <1>3, <1>7
    <3>2. /\ \A k \in MarksBut(n) : k[2] = s.currentTerm => k[1] <= LastLogIndex(s)
          /\ \A k \in MarksBut(n) : k[1] \in Nat
      BY <1>7, MarksType DEF LeaderAhead, s
    <3>3. mk[1] = LastLogIndex(s) + 1
      BY <1>5
    <3>4. CASE st'[n] = s
      BY <1>8, <1>14, <2>2, <2>4, <3>1, <3>2, <3>3, <3>4
    <3>5. CASE st'[n] = p
      BY <1>3, <1>8, <1>14, <2>2, <2>4, <3>1, <3>2, <3>3, <3>5
    <3> QED BY <1>7, <3>4, <3>5
  <2> QED BY <2>3, <2>4
<1>18. EntryUnique'
  <2> SUFFICES ASSUME NEW f \in Entries', NEW g \in Entries', EntryMark(f) = EntryMark(g)
               PROVE  f = g
    BY DEF EntryUnique
  <2>1. \A k \in MarksBut(n) : k # mk
    <3>1. \A k \in MarksBut(n) : k[2] = s.currentTerm => k[1] <= LastLogIndex(s) /\ k[1] \in Nat
      BY <1>7, MarksType DEF LeaderAhead, s
    <3>2. mk[1] = LastLogIndex(s) + 1 /\ mk[2] = s.currentTerm
      BY <1>5
    <3> QED BY <1>8, <3>1, <3>2
  <2>2. HeldEntries(s) \subseteq Entries /\ \A x \in HeldEntries(s) : EntryMark(x) \in MarksBut(n)
    BY <1>13 DEF Entries, Marks, s
  <2>3. \A x \in Entries' : x = e \/ (x \in Entries /\ EntryMark(x) \in MarksBut(n))
    BY <1>4, <1>7, <1>12, <2>2
  <2> QED BY <2>1, <2>3 DEF EntryUnique, mk
<1>19. \A x \in HeldEntries(st'[n]) \cup HeldEntries(hs'[n]) :
         x \in HeldEntries(st[n]) \/ x.term <= hs'[n].currentTerm
  BY <1>3, <1>4, <1>5, <1>7, <1>8 DEF s
<1> QED BY <1>10, <1>16, <1>17, <1>18, <1>19
------------------------------------------------------------------------------
(* What a step has to do with elections.                                   *)

Campaigned(n) ==
  /\ ~ballot[n].open /\ role[n] # "Leader"
  /\ st'[n] = IncrementTerm(st[n], n) /\ hs'[n] = st'[n]
  /\ Requests' = Requests \cup {RequestVote(n, st'[n])}
  /\ Votes' = Votes \cup {<<n, st'[n].currentTerm, n>>}
  /\ \/ elected' = elected /\ role'[n] # "Leader"
     \/ elected' = elected \cup {<<st'[n].currentTerm, n>>} /\ ~ballot'[n].open

Won(n) ==
  /\ ballot[n].open /\ ~ballot'[n].open
  /\ st'[n] = st[n] /\ hs'[n] = hs[n]
  /\ elected' = elected \cup {<<st[n].currentTerm, n>>}
  /\ Requests' = Requests /\ Votes' = Votes

NoElection(n) ==
  /\ elected' = elected
  /\ role'[n] = "Leader" => role[n] = "Leader"
  /\ ballot'[n].open => ballot[n].open /\ st'[n] = st[n] /\ hs'[n] = hs[n]
  /\ Requests' = Requests
  /\ Votes \subseteq Votes'
  /\ \A v \in Votes' \ Votes :
       /\ v[1] = n /\ hs'[n].currentTerm = v[2] /\ hs'[n].votedFor = v[3]
       /\ SameLog(st'[n], st[n]) /\ SameLog(hs'[n], st[n])
       /\ \E m \in RequestsOf(v[2], v[3]) :
            IsLogUpToDate(st[n], m.lastLogIndex, m.lastLogTerm)

Elects(n) == Campaigned(n) \/ Won(n) \/ NoElection(n)

LEMMA NoRequests ==
  ASSUME NEW n, NEW ms, messages' = messages \cup ms,
         \A m \in ms : m.type \notin {"RequestVote", "RequestVoteReply"},
         elected' = elected, role'[n] = "Leader" => role[n] = "Leader",
         ballot'[n].open => ballot[n].open /\ st'[n] = st[n] /\ hs'[n] = hs[n]
  PROVE  NoElection(n)
<1>1. Requests' = Requests
  BY DEF Requests
<1>2. Votes' = Votes
  BY NoNewVotes
<1> QED BY <1>1, <1>2 DEF NoElection

LEMMA NothingRequested ==
  ASSUME NEW n, UNCHANGED <<messages, elected>>, role'[n] = "Leader" => role[n] = "Leader",
         ballot'[n].open => ballot[n].open /\ st'[n] = st[n] /\ hs'[n] = hs[n]
  PROVE  NoElection(n)
<1>1. Requests' = Requests /\ Votes' = Votes
  BY DEF Requests, Votes
<1> QED BY <1>1 DEF NoElection

LEMMA GoDownElects ==
  ASSUME TypeOK, NEW n \in Node, GoDown(n), UNCHANGED messages
  PROVE  NoElection(n)
<1>1. /\ messages' = messages /\ elected' = elected
      /\ role'[n] # "Leader" /\ ~ballot'[n].open
  BY DEF GoDown, StepDown, Closed, history, TypeOK, ProcessType
<1> QED BY <1>1, NothingRequested

LEMMA StepElects ==
  ASSUME TypeOK, BallotsBacked, NEW n \in Node, Step(n)
  PROVE  Elects(n)
<1>1. ASSUME Ready(n), UNCHANGED <<ballot, elected, messages>>,
             role'[n] = "Leader" => role[n] = "Leader"
      PROVE  NoElection(n)
  <2>1. messages' = messages /\ ~ballot'[n].open /\ elected' = elected
    BY <1>1 DEF Ready
  <2> QED BY <1>1, <2>1, NothingRequested
<1>2. CASE StartElection(n)
  <2> DEFINE s == IncrementTerm(st[n], n)
             r == RequestVote(n, s)
  <2>1. ~ballot[n].open /\ role[n] # "Leader" /\ st'[n] = s /\ hs'[n] = s
    BY <1>2, WrittenLog DEF StartElection, Ready
  <2>2. messages' = messages \cup {r} /\ r.type = "RequestVote" /\ <<r.src, r.term, r.src>> = <<n, s.currentTerm, n>>
    BY <1>2 DEF StartElection, Send, RequestVote
  <2>3. \/ elected' = elected /\ role'[n] # "Leader"
        \/ elected' = elected \cup {<<s.currentTerm, n>>} /\ ~ballot'[n].open
    BY <1>2, <2>1 DEF StartElection, BecomeLeader, TypeOK, ProcessType
  <2> HIDE DEF s, r
  <2>4. Requests' = Requests \cup {r}
    BY <2>2 DEF Requests
  <2>5. Votes' = Votes \cup {<<n, s.currentTerm, n>>}
    BY <2>2 DEF Votes
  <2>6. Campaigned(n)
    BY <2>1, <2>3, <2>4, <2>5 DEF Campaigned, s, r
  <2> QED BY <2>6 DEF Elects
<1>3. CASE StartElectionUnsaved(n)
  BY <1>1, <1>3 DEF StartElectionUnsaved, StepDown, history, TypeOK, ProcessType, Elects
<1>4. CASE ElectionEnds(n)
  <2>1. messages' = messages /\ ~ballot'[n].open /\ elected' = elected /\ role' = role
    BY <1>4 DEF ElectionEnds, history, Closed, TypeOK, ProcessType
  <2> QED BY <2>1, NothingRequested DEF Elects
<1>5. ASSUME NEW ms, messages' = messages \cup ms, Ready(n), UNCHANGED <<ballot, elected, role>>,
             ms \subseteq Heartbeats(n, st'[n], nextIndex'[n], commitIndex[n])
      PROVE  NoElection(n)
  <2>1. \A m \in ms : m.type \notin {"RequestVote", "RequestVoteReply"}
    BY <1>5, ReplicationMessages
  <2>2. ~ballot'[n].open
    BY <1>5 DEF Ready
  <2> QED BY <1>5, <2>1, <2>2, NoRequests
<1>6. CASE HeartbeatTick(n)
  BY <1>5, <1>6 DEF HeartbeatTick, SendHeartbeats, Send, leadership, history, Elects
<1>7. ASSUME NEW v \in Value, ClientRequest(n, v)
      PROVE  Elects(n)
  <2>1. Ready(n) /\ UNCHANGED <<ballot, elected, role, nextIndex>>
    BY <1>7 DEF ClientRequest, leadership
  <2>2. CASE UNCHANGED messages
    BY <1>1, <2>1, <2>2 DEF Elects
  <2>3. CASE /\ Write(n, PushEntry(st[n], v))
             /\ SendHeartbeats(n, PushEntry(st[n], v), nextIndex[n])
    <3>1. st'[n] = PushEntry(st[n], v)
      BY <2>3, WrittenLog
    <3> QED BY <1>5, <2>1, <2>3, <3>1 DEF SendHeartbeats, Send, Elects
  <2> QED BY <1>7, <2>2, <2>3 DEF ClientRequest
<1>8. CASE TriggerSnapshot(n)
  BY <1>1, <1>8 DEF TriggerSnapshot, history, Elects
<1>9. CASE TriggerSnapshotInterrupted(n) \/ Crash(n)
  BY <1>9, GoDownElects DEF TriggerSnapshotInterrupted, Crash, Elects
<1>10. CASE Restart(n)
  <2>1. messages' = messages /\ elected' = elected /\ role' = role /\ ballot' = ballot /\ ~up[n]
    BY <1>10 DEF Restart, history
  <2>2. ~ballot'[n].open
    BY <2>1 DEF BallotsBacked
  <2> QED BY <2>1, <2>2, NothingRequested DEF Elects
<1> QED BY <1>2, <1>3, <1>4, <1>6, <1>7, <1>8, <1>9, <1>10 DEF Step

LEMMA ReceiveElects ==
  ASSUME TypeOK, NEW m \in messages, NEW n \in Receivers(m), Receive(n, m)
  PROVE  Elects(n)
<1>1. n \in Node /\ st[n] \in HardState /\ m.term \in Nat
  BY ReceiversAreNodes, MessageKinds DEF TypeOK, ProcessType, NetworkType
<1>2. ASSUME Ready(n), UNCHANGED <<ballot, elected>>, role'[n] = "Follower" \/ role' = role,
             messages' = messages
             \/ \E term, success, index : messages' = messages \cup {Result(m, term, success, index)}
      PROVE  Elects(n)
  <2>1. ~ballot'[n].open /\ (role'[n] = "Leader" => role[n] = "Leader") /\ elected' = elected
    BY <1>2 DEF Ready
  <2>2. CASE messages' = messages
    BY <2>1, <2>2, NothingRequested DEF Elects
  <2>3. ASSUME NEW term, NEW success, NEW index,
               messages' = messages \cup {Result(m, term, success, index)}
        PROVE  Elects(n)
    <3> DEFINE ms == {Result(m, term, success, index)}
    <3>1. \A x \in ms : x.type \notin {"RequestVote", "RequestVoteReply"}
      BY ReplicationMessages
    <3>2. messages' = messages \cup ms
      BY <2>3
    <3> HIDE DEF ms
    <3> QED BY <2>1, <3>1, <3>2, NoRequests DEF Elects
  <2> QED BY <1>2, <2>2, <2>3
<1>3. CASE ReceiveVote(n, m)
  <2>1. ballot[n].open
    BY <1>3 DEF ReceiveVote
  <2>2. CASE /\ StepDown(n) /\ ballot' = [ballot EXCEPT ![n] = Closed]
             /\ UNCHANGED <<messages, elected>>
    <3>1. ~ballot'[n].open /\ role'[n] # "Leader" /\ elected' = elected
      BY <1>1, <2>2 DEF StepDown, Closed, TypeOK, ProcessType
    <3> QED BY <2>2, <3>1, NothingRequested DEF Elects
  <2>3. CASE UNCHANGED <<hs, st, role, messages, elected>>
    BY <2>1, <2>3, NothingRequested DEF Elects
  <2>4. CASE /\ BecomeLeader(n, st[n])
             /\ Send(Heartbeats(n, st[n], nextIndex'[n], commitIndex[n]))
             /\ ballot' = [ballot EXCEPT ![n] = Closed]
             /\ UNCHANGED <<hs, st>>
    <3> DEFINE ms == Heartbeats(n, st[n], nextIndex'[n], commitIndex[n])
    <3>1. ~ballot'[n].open /\ elected' = elected \cup {<<st[n].currentTerm, n>>}
      BY <1>1, <2>4 DEF BecomeLeader, Closed, TypeOK, ProcessType
    <3>2. \A x \in ms : x.type \notin {"RequestVote", "RequestVoteReply"}
      BY ReplicationMessages
    <3>3. messages' = messages \cup ms
      BY <2>4 DEF Send
    <3> HIDE DEF ms
    <3>4. Requests' = Requests /\ Votes' = Votes
      BY <3>2, <3>3, NoNewVotes DEF Requests
    <3> QED BY <2>1, <2>4, <3>1, <3>4 DEF Elects, Won
  <2> QED BY <1>3, <2>2, <2>3, <2>4 DEF ReceiveVote
<1>4. CASE HandleRequestVote(n, m)
  <2> DEFINE s == UpdateTerm(st[n], m.term)
             grant == /\ m.term >= s.currentTerm
                      /\ s.votedFor \in {Nil, m.src}
                      /\ IsLogUpToDate(s, m.lastLogIndex, m.lastLogTerm)
             voted == IF grant THEN [s EXCEPT !.votedFor = m.src] ELSE s
             reply(g) == RequestVoteReply(m, n, s.currentTerm, g)
  <2>1. m.type = "RequestVote" /\ grant \in BOOLEAN
    BY <1>4 DEF HandleRequestVote, IsLogUpToDate
  <2>2. /\ voted \in HardState /\ voted.currentTerm = s.currentTerm
        /\ grant => voted.votedFor = m.src
    BY <1>1, <2>1, VoteNotBehind
  <2>3. grant => s.currentTerm = m.term
    <3>1. st[n].currentTerm \in Nat
      BY <1>1, HardStateFields
    <3> QED BY <1>1, <3>1 DEF UpdateTerm, HardState
  <2>4. grant => IsLogUpToDate(st[n], m.lastLogIndex, m.lastLogTerm)
    <3>1. SameLog(s, st[n])
      BY <1>1, UpdatedLog
    <3> QED BY <3>1 DEF SameLog, IsLogUpToDate, LastLogIndex, LastLogTerm
  <2>5. SameLog(voted, st[n])
    BY <1>1, UpdatedLog
  <2>6. /\ ~ballot[n].open /\ UNCHANGED <<ballot, elected>>
        /\ Write(n, voted) \/ WriteFails(n, voted, voted)
        /\ role'[n] = "Follower" \/ role' = role
    BY <1>1, <1>4 DEF HandleRequestVote, Ready, history, StepDown, TypeOK, ProcessType
  <2>7. \/ messages' = messages \cup {reply(FALSE)}
        \/ grant /\ Write(n, voted) /\ messages' = messages \cup {reply(TRUE)}
    BY <1>4 DEF HandleRequestVote, Send
  <2>8. \A g \in BOOLEAN : /\ reply(g).type = "RequestVoteReply" /\ reply(g).granted = g
                           /\ reply(g).src = n /\ reply(g).forTerm = m.term /\ reply(g).dst = m.src
    BY DEF RequestVoteReply
  <2> HIDE DEF s, grant, voted, reply
  <2>9. st'[n] = voted
    BY <1>1, <2>6, WrittenLog
  <2>10. Requests' = Requests
    BY <2>7, <2>8 DEF Requests
  <2>11. Votes \subseteq Votes'
    BY <2>7, VotesGrow
  <2>12. ASSUME NEW v \in Votes' \ Votes
         PROVE  /\ v[1] = n /\ hs'[n].currentTerm = v[2] /\ hs'[n].votedFor = v[3]
                /\ SameLog(st'[n], st[n]) /\ SameLog(hs'[n], st[n])
                /\ \E r \in RequestsOf(v[2], v[3]) :
                     IsLogUpToDate(st[n], r.lastLogIndex, r.lastLogTerm)
    <3>1. CASE messages' = messages \cup {reply(FALSE)}
      BY <2>8, <3>1 DEF Votes
    <3>2. CASE grant /\ Write(n, voted) /\ messages' = messages \cup {reply(TRUE)}
      <4>1. hs'[n] = voted
        BY <1>1, <3>2, WrittenLog
      <4>2. v = <<n, m.term, m.src>>
        BY <2>8, <3>2 DEF Votes
      <4>3. m \in RequestsOf(v[2], v[3])
        BY <2>1, <4>2 DEF RequestsOf, Requests
      <4> QED BY <2>2, <2>3, <2>4, <2>5, <2>9, <3>2, <4>1, <4>2, <4>3
    <3> QED BY <2>7, <3>1, <3>2
  <2>13. NoElection(n)
    BY <2>6, <2>10, <2>11, <2>12 DEF NoElection
  <2> QED BY <2>13 DEF Elects
<1>5. CASE StaleAppendEntries(n, m) \/ StaleInstallSnapshot(n, m)
  BY <1>2, <1>5 DEF StaleAppendEntries, StaleInstallSnapshot, Send, history
<1>6. CASE HandleAppendEntries(n, m)
  <2>1. \E term, success, index : messages' = messages \cup {Result(m, term, success, index)}
    BY <1>6 DEF HandleAppendEntries, Send
  <2>2. Ready(n) /\ UNCHANGED <<ballot, elected>> /\ role'[n] = "Follower"
    BY <1>1, <1>6 DEF HandleAppendEntries, Follow, history, TypeOK, ProcessType
  <2> QED BY <1>2, <2>1, <2>2
<1>7. CASE HandleResult(n, m)
  <2>1. role'[n] = "Follower" \/ role' = role
    BY <1>1, <1>7 DEF HandleResult, StepDown, TypeOK, ProcessType
  <2> QED BY <1>2, <1>7, <2>1 DEF HandleResult
<1>8. CASE InstallSnapshotTermUnsaved(n, m)
  <2>1. role'[n] = "Follower"
    BY <1>1, <1>8 DEF InstallSnapshotTermUnsaved, StepDown, TypeOK, ProcessType
  <2> QED BY <1>2, <1>8, <2>1 DEF InstallSnapshotTermUnsaved, Send, history
<1>9. CASE RefuseSnapshot(n, m)
  <2>1. role'[n] = "Follower"
    BY <1>1, <1>9 DEF RefuseSnapshot, Follow, TypeOK, ProcessType
  <2> QED BY <1>2, <1>9, <2>1 DEF RefuseSnapshot, Send, history
<1>10. CASE HandleInstallSnapshot(n, m)
  <2>1. role'[n] = "Follower"
    BY <1>1, <1>10 DEF HandleInstallSnapshot, Follow, TypeOK, ProcessType
  <2> QED BY <1>2, <1>10, <2>1 DEF HandleInstallSnapshot, Send, history
<1>11. CASE InstallSnapshotInterrupted(n, m)
  BY <1>1, <1>11, GoDownElects DEF InstallSnapshotInterrupted, Elects
<1> QED
  BY <1>3, <1>4, <1>5, <1>6, <1>7, <1>8, <1>9, <1>10, <1>11 DEF Receive

LEMMA ElectsVotes ==
  ASSUME TypeOK, NEW n \in Node, Elects(n)
  PROVE  /\ Votes \subseteq Votes' /\ NewVotesSaved
         /\ elected \subseteq elected' /\ Requests \subseteq Requests'
<1>1. CASE Campaigned(n)
  <2>1. hs'[n].votedFor = n
    BY <1>1, IncrementTermType DEF Campaigned, TypeOK, ProcessType
  <2> QED BY <1>1, <2>1 DEF Campaigned, NewVotesSaved
<1>2. CASE Won(n)
  BY <1>2 DEF Won, NewVotesSaved
<1>3. CASE NoElection(n)
  BY <1>3 DEF NoElection, NewVotesSaved
<1> QED BY <1>1, <1>2, <1>3 DEF Elects

(* A candidate's own vote keeps its requests from being repeated.          *)
LEMMA RequestsPast ==
  ASSUME TypeOK, ElectionInv, NEW m \in Requests
  PROVE  /\ m.src \in Node /\ m.term \in Nat
         /\ m.term <= hs[m.src].currentTerm
         /\ hs[m.src].currentTerm <= st[m.src].currentTerm
<1>1. m.src \in Node /\ m.term \in Nat
  BY MessageKinds DEF TypeOK, NetworkType, Requests
<1>2. <<m.src, m.term, m.src>> \in Votes
  BY DEF Requests, Votes
<1>3. hs[m.src].currentTerm \in Nat /\ st[m.src].currentTerm \in Nat
  BY <1>1, HardStateFields DEF TypeOK, DiskType, ProcessType
<1>4. m.term <= hs[m.src].currentTerm
  BY <1>1, <1>2, <1>3 DEF ElectionInv, VotesDurable
<1>5. hs[m.src].currentTerm <= st[m.src].currentTerm
  BY <1>1, <1>3 DEF ElectionInv, MemoryNotBehind, NotBehind
<1> QED BY <1>1, <1>4, <1>5

ElectedHadHope == \A e \in elected : ~Hopeless(e[1], e[2])

LEMMA ElectedNotHopeless == LeadersBacked => ElectedHadHope
<1> SUFFICES ASSUME LeadersBacked, NEW e \in elected, Hopeless(e[1], e[2])
             PROVE  FALSE
  BY DEF ElectedHadHope
<1>1. PICK Q \in SUBSET Node :
        Cardinality(Q) >= Majority /\ \A q \in Q : Refuses(q, e[1], e[2])
  BY DEF Hopeless
<1>2. VotersOf(e) \subseteq Node /\ Cardinality(VotersOf(e)) >= Majority
  BY DEF VotersOf, LeadersBacked
<1>3. IsFiniteSet(Node) /\ IsFiniteSet(Q) /\ IsFiniteSet(VotersOf(e))
  BY <1>2, NodeAssumption, FS_Subset
<1>4. Cardinality(Node) \in Nat /\ Cardinality(Q) \in Nat /\ Cardinality(VotersOf(e)) \in Nat
  BY <1>3, FS_CardinalityType
<1>5. Cardinality(Q) + Cardinality(VotersOf(e)) > Cardinality(Node)
  BY <1>1, <1>2, <1>4 DEF Majority
<1>6. PICK q \in Q : q \in VotersOf(e)
  BY <1>2, <1>3, <1>5, FS_MajoritiesIntersect
<1> QED BY <1>1, <1>6 DEF Refuses, VotersOf

LEMMA HopelessStays ==
  ASSUME TypeOK, TypeOK', DiskStep, Votes \subseteq Votes', NewVotesSaved,
         NEW term \in Nat, NEW p \in Node, Hopeless(term, p)
  PROVE  Hopeless(term, p)'
<1>1. PICK Q \in SUBSET Node : Cardinality(Q) >= Majority /\ \A q \in Q : Refuses(q, term, p)
  BY DEF Hopeless
<1>2. ASSUME NEW q \in Q
      PROVE  Refuses(q, term, p)'
  <2>1. hs[q].currentTerm \in Nat /\ hs'[q].currentTerm \in Nat /\ NotBehind(hs'[q], hs[q])
    BY HardStateFields DEF TypeOK, DiskType, DiskStep
  <2>2. \/ hs'[q].currentTerm > term
        \/ hs'[q].currentTerm = term /\ hs'[q].votedFor \notin {Nil, p}
    <3>1. \/ hs[q].currentTerm > term
          \/ hs[q].currentTerm = term /\ hs[q].votedFor \notin {Nil, p}
      BY <1>1 DEF Refuses
    <3> QED BY <2>1, <3>1 DEF NotBehind
  <2>3. <<q, term, p>> \notin Votes'
    BY <1>1, <2>1, <2>2 DEF Refuses, NewVotesSaved
  <2> QED BY <2>2, <2>3 DEF Refuses
<1> QED BY <1>1, <1>2 DEF Hopeless

(* Who starts an election with a base of its own term or a later one has   *)
(* that base from a leader, whose voters refuse.                           *)
LEMMA LateFromStart ==
  ASSUME TypeOK, TypeOK', ElectionInv, LeaderInv, MarksElected, RequestsTrue, DiskStep,
         NEW n \in Node, Campaigned(n), NEW T, T = st'[n].currentTerm,
         st'[n].lastIncludedTerm >= T
  PROVE  Hopeless(T, n)'
<1> DEFINE d == st'[n].lastIncludedTerm
<1>1. /\ st[n] \in HardState /\ hs[n] \in HardState /\ st[n].currentTerm \in Nat
      /\ hs[n].currentTerm \in Nat /\ hs[n].currentTerm <= st[n].currentTerm
  <2>1. st[n] \in HardState /\ hs[n] \in HardState /\ NotBehind(st[n], hs[n])
    BY DEF TypeOK, ProcessType, DiskType, ElectionInv, MemoryNotBehind
  <2> QED BY <2>1, HardStateFields DEF NotBehind
<1>2. T = st[n].currentTerm + 1 /\ d = st[n].lastIncludedTerm /\ d \in Nat /\ d >= T
  <2>1. SameLog(IncrementTerm(st[n], n), st[n])
    BY <1>1, UpdatedLog
  <2> QED BY <1>1, <2>1, IncrementTermType, HardStateFields, SMTT(30) DEF Campaigned, SameLog
<1>3. PICK x \in Node : <<d, x>> \in elected
  <2>1. Base(st[n]) \in MarksBut(n)
    BY DEF MarksBut, Marks
  <2> QED BY <1>1, <1>2, <2>1 DEF MarksElected, IsElected, Base
<1>4. <<T, n>> \notin elected
  BY TermIsNew DEF Campaigned, ElectionInv
<1> DEFINE Q == VotersOf(<<d, x>>)
<1>5. Q \in SUBSET Node /\ Cardinality(Q) >= Majority /\ \A q \in Q : <<q, d, x>> \in Votes
  BY <1>3 DEF VotersOf, ElectionInv, LeadersBacked
<1> HIDE DEF Q
<1>6. ASSUME NEW q \in Q
      PROVE  Refuses(q, T, n)'
  <2>1. /\ hs[q].currentTerm \in Nat /\ hs'[q].currentTerm \in Nat /\ NotBehind(hs'[q], hs[q])
        /\ q \in Node
    BY <1>5, HardStateFields DEF TypeOK, DiskType, DiskStep
  <2>2. \/ hs[q].currentTerm > d
        \/ hs[q].currentTerm = d /\ hs[q].votedFor = x
    BY <1>5 DEF ElectionInv, VotesDurable
  <2>3. q # n
    BY <1>1, <1>2, <2>2
  <2>4. \/ hs'[q].currentTerm > T
        \/ hs'[q].currentTerm = T /\ hs'[q].votedFor \notin {Nil, n}
    <3>1. x # Nil /\ (d = T => x # n)
      BY <1>3, <1>4, NodeAssumption
    <3> QED BY <1>1, <1>2, <2>1, <2>2, <3>1 DEF NotBehind
  <2>5. <<q, T, n>> \notin Votes'
    <3>1. RequestsOf(T, n) = {}
      BY <1>1, <1>2, RequestsPast DEF RequestsOf
    <3>2. <<q, T, n>> \notin Votes
      BY <3>1 DEF RequestsTrue
    <3> QED BY <2>3, <3>2 DEF Campaigned
  <2> QED BY <2>4, <2>5 DEF Refuses
<1> QED BY <1>5, <1>6 DEF Hopeless

LEMMA LastTermHeld ==
  ASSUME NEW s \in HardState, LogOK(s)
  PROVE  \/ LastLogTerm(s) = s.lastIncludedTerm
         \/ \E e \in HeldEntries(s) : LastLogTerm(s) = e.term
<1>1. Len(s.log) \in Nat /\ Len(s.log) >= 1
  BY HardStateFields
<1>2. CASE Len(s.log) = 1
  BY <1>2 DEF LastLogTerm, LogOK, Placeholder
<1>3. CASE Len(s.log) # 1
  <2>1. \A x \in Nat : x >= 1 /\ x # 1 => x \in 2 .. x
    OBVIOUS
  <2>2. Len(s.log) \in 2 .. Len(s.log)
    BY <1>1, <1>3, <2>1
  <2> QED BY <2>2 DEF LastLogTerm, HeldEntries
<1> QED BY <1>2, <1>3

(* A new leader's log is of earlier terms.                                 *)
LEMMA WinnersLog ==
  ASSUME TypeOK, TypeOK', ElectionInv, ElectionInv', ElectionSafety', LeaderInv,
         LogsOK, MarksElected, TermsBounded, RequestsTrue, LateCandidates, DiskStep,
         NEW n \in Node, Elects(n), NEW T, T = st'[n].currentTerm,
         <<T, n>> \in elected', <<T, n>> \notin elected
  PROVE  /\ LastLogTerm(st'[n]) < T /\ st'[n].lastIncludedTerm < T
         /\ Campaigned(n) \/ Won(n)
<1>1. Campaigned(n) \/ Won(n)
  BY DEF Elects, NoElection
<1>2. /\ st[n] \in HardState /\ hs[n] \in HardState /\ NotBehind(st[n], hs[n])
      /\ st'[n] \in HardState /\ LogOK(st[n])
  BY DEF TypeOK, ProcessType, DiskType, ElectionInv, MemoryNotBehind, LogsOK
<1>3. /\ hs[n].currentTerm \in Nat /\ st[n].currentTerm \in Nat
      /\ hs[n].currentTerm <= st[n].currentTerm
  BY <1>2, HardStateFields DEF NotBehind
<1>4. SameLog(st'[n], st[n])
  BY <1>1, <1>2, UpdatedLog, SameLogSelf DEF Campaigned, Won
<1>5. Votes \subseteq Votes' /\ NewVotesSaved
  BY ElectsVotes
<1>6. \/ T = st[n].currentTerm + 1
      \/ T = st[n].currentTerm /\ ballot[n].open
  BY <1>1, <1>2, IncrementTermType DEF Campaigned, Won
<1>7. T \in Nat /\ T >= hs[n].currentTerm
  BY <1>3, <1>6
<1>8. T > 0
  <2>1. CASE T = st[n].currentTerm + 1
    BY <1>3, <2>1
  <2>2. CASE T = st[n].currentTerm /\ ballot[n].open
    <3>1. \E m \in Requests : m.term = T
      BY <2>2 DEF RequestsTrue, RequestsOf
    <3> QED BY <3>1 DEF RequestsTrue
  <2> QED BY <1>6, <2>1, <2>2
<1>9. ~Hopeless(T, n)'
  <2>1. LeadersBacked' => ElectedHadHope'
    BY ElectedNotHopeless, PTL
  <2>2. ~Hopeless(<<T, n>>[1], <<T, n>>[2])'
    BY <2>1 DEF ElectionInv, ElectedHadHope
  <2> QED BY <2>2
<1>10. st'[n].lastIncludedTerm < T
  <2>1. st'[n].lastIncludedTerm \in Nat /\ st'[n].lastIncludedTerm = st[n].lastIncludedTerm
    BY <1>2, <1>4, HardStateFields DEF SameLog
  <2>2. CASE Campaigned(n)
    <3>1. ~(st'[n].lastIncludedTerm >= T)
      BY <1>9, <2>2, LateFromStart
    <3> QED BY <1>7, <2>1, <3>1
  <2>3. CASE Won(n)
    <3>1. T = st[n].currentTerm /\ ballot[n].open
      BY <2>3 DEF Won
    <3>2. ~Hopeless(T, n)
      BY <1>5, <1>7, <1>9, HopelessStays
    <3> QED BY <2>1, <3>1, <3>2 DEF LateCandidates
  <2> QED BY <1>1, <2>2, <2>3
<1>11. \A e \in HeldEntries(st[n]) : e.term \in Nat /\ e.term < T
  <2> SUFFICES ASSUME NEW e \in HeldEntries(st[n])
               PROVE  e.term \in Nat /\ e.term < T
    OBVIOUS
  <2>1. e.term \in Nat /\ e.term <= hs[n].currentTerm
    BY <1>2, HeldEntryType DEF TermsBounded, LogEntry
  <2>2. e.term # T
    <3>1. EntryMark(e) \in MarksBut(n)
      BY DEF MarksBut, Marks
    <3>2. e.term = 0 \/ IsElected(e.term)
      BY <3>1 DEF MarksElected, EntryMark
    <3>3. elected \subseteq elected'
      BY ElectsVotes
    <3>4. ~IsElected(T)
      BY <3>3 DEF IsElected, ElectionSafety
    <3> QED BY <1>8, <3>2, <3>4
  <2> QED BY <1>3, <1>7, <2>1, <2>2
<1>12. LastLogTerm(st'[n]) < T
  <2>1. LogOK(st'[n]) /\ HeldEntries(st'[n]) = HeldEntries(st[n])
    BY <1>2, <1>4, LogFields
  <2> QED BY <1>2, <1>10, <1>11, <2>1, LastTermHeld
<1> QED BY <1>1, <1>10, <1>12

LEMMA RequestsStayTrue ==
  ASSUME TypeOK, TypeOK', ElectionInv, ElectionInv', ElectionSafety', LeaderInv,
         LogsOK, MarksElected, TermsBounded, RequestsTrue, LateCandidates, DiskStep,
         NEW n \in Node, \A p \in Node \ {n} : Untouched(p), Elects(n)
  PROVE  RequestsTrue' /\ LateCandidates'
<1>1. /\ st[n] \in HardState /\ st[n].currentTerm \in Nat /\ st'[n] \in HardState
      /\ \A p \in Node : st[p].currentTerm \in Nat
  BY HardStateFields DEF TypeOK, ProcessType
<1>2. Votes \subseteq Votes' /\ NewVotesSaved /\ elected \subseteq elected' /\ Requests \subseteq Requests'
  BY ElectsVotes
<1> PICK r : r = RequestVote(n, st'[n])
  OBVIOUS
<1>3. /\ r = RequestVote(n, st'[n])
      /\ r.term = st'[n].currentTerm /\ r.src = n
      /\ r.lastLogIndex = LastLogIndex(st'[n]) /\ r.lastLogTerm = LastLogTerm(st'[n])
  BY DEF RequestVote
<1>4. Requests' \subseteq Requests \cup {r} /\ (Requests' # Requests => Campaigned(n))
  BY <1>3 DEF Elects, Campaigned, Won, NoElection
<1>5. Campaigned(n) => /\ r \in Requests' /\ r.term = st[n].currentTerm + 1
                       /\ \A m \in Requests : ~(m.term = r.term /\ m.src = n)
                       /\ <<r.term, n>> \notin elected
  <2> SUFFICES ASSUME Campaigned(n)
               PROVE  /\ r \in Requests' /\ r.term = st[n].currentTerm + 1
                      /\ \A m \in Requests : ~(m.term = r.term /\ m.src = n)
                      /\ <<r.term, n>> \notin elected
    OBVIOUS
  <2>1. r.term = st[n].currentTerm + 1
    BY <1>1, <1>3, IncrementTermType DEF Campaigned
  <2>2. \A m \in Requests : m.src = n => m.term <= st[n].currentTerm /\ m.term \in Nat
    <3> SUFFICES ASSUME NEW m \in Requests, m.src = n
                 PROVE  m.term <= st[n].currentTerm /\ m.term \in Nat
      OBVIOUS
    <3>1. hs[n].currentTerm \in Nat
      BY HardStateFields DEF TypeOK, DiskType
    <3> QED BY <1>1, <3>1, RequestsPast
  <2>3. <<r.term, n>> \notin elected
    BY <1>3, TermIsNew DEF Campaigned, ElectionInv
  <2> QED BY <1>1, <1>3, <2>1, <2>2, <2>3 DEF Campaigned
<1>6. \A m \in Requests' : m.term > 0
  BY <1>1, <1>4, <1>5 DEF RequestsTrue
<1>7. \A m, k \in Requests' : m.term = k.term /\ m.src = k.src => m = k
  BY <1>3, <1>4, <1>5 DEF RequestsTrue
<1>8. \A term, p : /\ RequestsOf(term, p) \subseteq RequestsOf(term, p)'
                   /\ RequestsOf(term, p)' # RequestsOf(term, p) =>
                        Campaigned(n) /\ term = r.term /\ p = n
  BY <1>2, <1>3, <1>4 DEF RequestsOf
<1>9. Campaigned(n) => RequestsOf(r.term, n)' = {r}
  BY <1>3, <1>4, <1>5 DEF RequestsOf
<1>10. ASSUME NEW v \in Votes'
       PROVE  RequestsOf(v[2], v[3])' # {}
  <2>1. CASE v \in Votes
    BY <1>8, <2>1 DEF RequestsTrue
  <2>2. CASE v \notin Votes
    <3>1. CASE Campaigned(n)
      BY <1>3, <1>9, <2>2, <3>1 DEF Campaigned
    <3>2. CASE ~Campaigned(n)
      BY <1>8, <2>2, <3>2 DEF Elects, Won, NoElection
    <3> QED BY <3>1, <3>2
  <2> QED BY <2>1, <2>2
<1>11. ASSUME NEW p \in Node, ballot'[p].open
       PROVE  \/ p = n /\ Campaigned(n)
              \/ /\ ballot[p].open /\ st'[p] = st[p]
                 /\ ~(p = n /\ Campaigned(n))
  BY <1>11 DEF Untouched, Elects, Won, NoElection, Campaigned
<1>12. ASSUME NEW p \in Node, ballot'[p].open
       PROVE  /\ RequestsOf(st[p].currentTerm, p)' # {}
              /\ \A m \in RequestsOf(st[p].currentTerm, p)' :
                   m.lastLogIndex = LastLogIndex(st'[p]) /\ m.lastLogTerm = LastLogTerm(st'[p])
  <2>1. PICK T : T = st'[p].currentTerm
    OBVIOUS
  <2>2. /\ RequestsOf(T, p)' # {}
        /\ \A m \in RequestsOf(T, p)' :
             m.lastLogIndex = LastLogIndex(st'[p]) /\ m.lastLogTerm = LastLogTerm(st'[p])
    <3>1. CASE p = n /\ Campaigned(n)
      BY <1>3, <1>9, <2>1, <3>1
    <3>2. CASE ballot[p].open /\ st'[p] = st[p] /\ ~(p = n /\ Campaigned(n))
      <4>1. RequestsOf(T, p)' = RequestsOf(T, p)
        BY <1>8, <3>2
      <4> QED BY <2>1, <3>2, <4>1 DEF RequestsTrue
    <3> QED BY <1>11, <1>12, <3>1, <3>2
  <2> QED BY <2>1, <2>2 DEF RequestsOf
<1>13. ASSUME NEW e \in elected'
       PROVE  /\ RequestsOf(e[1], e[2])' # {}
              /\ \A m \in RequestsOf(e[1], e[2])' : m.lastLogTerm < e[1]
  <2>1. CASE e \in elected
    <3>1. RequestsOf(e[1], e[2])' = RequestsOf(e[1], e[2])
      <4>1. elected \subseteq Nat \X Node
        BY DEF TypeOK, HistoryType
      <4>2. e = <<e[1], e[2]>>
        BY <2>1, <4>1
      <4> QED BY <1>5, <1>8, <2>1, <4>2
    <3> QED BY <2>1, <3>1 DEF RequestsTrue
  <2>2. CASE e \notin elected
    <3>1. e = <<st'[n].currentTerm, n>>
      BY <2>2 DEF Elects, Campaigned, Won, NoElection
    <3>2. LastLogTerm(st'[n]) < st'[n].currentTerm /\ (Campaigned(n) \/ Won(n))
      BY <2>2, <3>1, WinnersLog
    <3>3. CASE Campaigned(n)
      BY <1>3, <1>9, <3>1, <3>2, <3>3
    <3>4. CASE Won(n)
      <4>1. ballot[n].open /\ st'[n] = st[n] /\ Requests' = Requests
        BY <3>4 DEF Won
      <4> QED BY <3>1, <3>2, <4>1 DEF RequestsTrue, RequestsOf
    <3> QED BY <3>2, <3>3, <3>4
  <2> QED BY <2>1, <2>2
<1>14. RequestsTrue'
  BY <1>6, <1>7, <1>10, <1>12, <1>13 DEF RequestsTrue
<1>15. ASSUME NEW p \in Node, ballot'[p].open
       PROVE  \/ st'[p].lastIncludedTerm < st'[p].currentTerm
              \/ Hopeless(st[p].currentTerm, p)'
  <2>1. CASE p = n /\ Campaigned(n)
    <3>1. PICK T : T = st'[n].currentTerm
      OBVIOUS
    <3>2. st'[n].lastIncludedTerm >= T => Hopeless(T, n)'
      BY <2>1, <3>1, LateFromStart
    <3>3. st'[n].lastIncludedTerm \in Nat /\ T \in Nat
      BY <1>1, <3>1, HardStateFields
    <3> QED BY <2>1, <3>1, <3>2, <3>3 DEF Hopeless, Refuses
  <2>2. CASE ballot[p].open /\ st'[p] = st[p]
    <3>1. Hopeless(st[p].currentTerm, p) => \E T : T = st[p].currentTerm /\ Hopeless(T, p)'
      BY <1>1, <1>2, HopelessStays
    <3> QED BY <2>2, <3>1 DEF LateCandidates, Hopeless, Refuses
  <2> QED BY <1>11, <1>15, <2>1, <2>2
<1>16. LateCandidates'
  BY <1>15 DEF LateCandidates
<1> QED BY <1>14, <1>16
------------------------------------------------------------------------------
(* The invariant of logs.                                                  *)

LEMMA LeaderGoesOn ==
  ASSUME TypeOK, TypeOK', LeaderInv, ElectionInv, LogsOK, NEW n \in Node, Elects(n),
         role[n] = "Leader" /\ role'[n] = "Leader" => LeaderStep(n)
  PROVE  GoesOn(n)
<1> SUFFICES ASSUME role'[n] = "Leader"
             PROVE  \/ <<st'[n].currentTerm, n>> \notin elected
                    \/ /\ role[n] = "Leader" /\ st'[n].currentTerm = st[n].currentTerm
                       /\ LastLogIndex(st'[n]) >= LastLogIndex(st[n])
  BY DEF GoesOn
<1>1. st[n] \in HardState /\ st'[n] \in HardState /\ lastApplied[n] \in Nat
  BY DEF TypeOK, ProcessType, ProgressType
<1>2. LastLogIndex(st[n]) \in Nat /\ st[n].lastIncludedIndex \in Nat
  BY <1>1, HardStateFields
<1>3. CASE role[n] = "Leader"
  <2>1. LeaderStep(n)
    BY <1>3
  <2>2. CASE SameLog(st'[n], st[n])
    BY <1>1, <1>2, <1>3, <2>1, <2>2, LogFields DEF LeaderStep
  <2>3. ASSUME NEW v \in Value, Write(n, PushEntry(st[n], v))
        PROVE  LastLogIndex(st'[n]) >= LastLogIndex(st[n])
    <3>1. st'[n] = PushEntry(st[n], v)
      BY <2>3, WrittenLog
    <3>2. v \in Command
      BY DEF Command
    <3>3. LastLogIndex(PushEntry(st[n], v)) = LastLogIndex(st[n]) + 1
      BY <1>1, <3>2, PushedFields
    <3> QED BY <1>2, <3>1, <3>3
  <2>4. CASE /\ Write(n, CompactTo(st[n], lastApplied[n]))
             /\ lastApplied[n] > st[n].lastIncludedIndex /\ InMemory(st[n], lastApplied[n])
    <3>1. st'[n] = CompactTo(st[n], lastApplied[n])
      BY <2>4, WrittenLog
    <3>2. lastApplied[n] <= LastLogIndex(st[n]) /\ lastApplied[n] >= st[n].lastIncludedIndex
      BY <1>1, <1>2, <2>4 DEF InMemory
    <3>3. GetLogTerm(st[n], lastApplied[n]) \in Nat
      BY <1>1, GetLogTermType
    <3>4. LastLogIndex(st'[n]) = LastLogIndex(st[n])
      BY <1>1, <3>1, <3>2, <3>3, CompactedFields DEF CompactTo
    <3> QED BY <1>2, <1>3, <2>1, <3>4 DEF LeaderStep
  <2> QED BY <1>3, <2>1, <2>2, <2>3, <2>4 DEF LeaderStep
<1>4. CASE role[n] # "Leader"
  <2>1. CASE Campaigned(n)
    <3>1. <<IncrementTerm(st[n], n).currentTerm, n>> \notin elected
      BY TermIsNew DEF ElectionInv
    <3> QED BY <2>1, <3>1 DEF Campaigned
  <2>2. CASE Won(n)
    BY <2>2 DEF Won, LeaderInv, CandidatesNew
  <2> QED BY <1>4, <2>1, <2>2 DEF Elects, NoElection
<1> QED BY <1>3, <1>4

LEMMA LeaderBase ==
  ASSUME TypeOK, TypeOK', LeaderInv, LeadersElected', ElectionInv, ElectionInv', ElectionSafety',
         LogsOK, MarksElected, TermsBounded, RequestsTrue, LateCandidates, DiskStep,
         NEW n \in Node, Elects(n), role'[n] = "Leader",
         role[n] = "Leader" /\ role'[n] = "Leader" => LeaderStep(n)
  PROVE  st'[n].lastIncludedTerm <= st'[n].currentTerm
<1>1. st[n] \in HardState /\ st'[n] \in HardState /\ lastApplied[n] \in Nat /\ hs[n] \in HardState
  BY DEF TypeOK, ProcessType, ProgressType, DiskType
<1>2. /\ st[n].currentTerm \in Nat /\ st[n].lastIncludedTerm \in Nat /\ st'[n].currentTerm \in Nat
      /\ st'[n].lastIncludedTerm \in Nat /\ hs[n].currentTerm \in Nat
      /\ st[n].lastIncludedIndex \in Nat /\ LastLogIndex(st[n]) \in Nat
  BY <1>1, HardStateFields
<1>3. hs[n].currentTerm <= st[n].currentTerm
  BY <1>2 DEF ElectionInv, MemoryNotBehind, NotBehind
<1>4. CASE role[n] = "Leader"
  <2>1. LeaderStep(n) /\ st'[n].currentTerm = st[n].currentTerm
    BY <1>4 DEF LeaderStep
  <2>2. st[n].lastIncludedTerm <= st[n].currentTerm
    BY <1>4 DEF TermsBounded
  <2>3. CASE SameLog(st'[n], st[n])
    BY <2>1, <2>2, <2>3 DEF SameLog
  <2>4. ASSUME NEW v \in Value, Write(n, PushEntry(st[n], v))
        PROVE  st'[n].lastIncludedTerm = st[n].lastIncludedTerm
    <3>1. st'[n] = PushEntry(st[n], v)
      BY <2>4, WrittenLog
    <3>2. v \in Command
      BY DEF Command
    <3>3. PushEntry(st[n], v).lastIncludedTerm = st[n].lastIncludedTerm
      BY <1>1, <3>2, PushedFields
    <3> QED BY <3>1, <3>3
  <2>5. CASE /\ Write(n, CompactTo(st[n], lastApplied[n]))
             /\ lastApplied[n] > st[n].lastIncludedIndex /\ InMemory(st[n], lastApplied[n])
    <3>1. st'[n] = CompactTo(st[n], lastApplied[n])
      BY <2>5, WrittenLog
    <3>2. lastApplied[n] \in Held(st[n]) /\ lastApplied[n] # st[n].lastIncludedIndex
      BY <1>1, <1>2, <2>5 DEF InMemory, Held
    <3>3. GetLogTerm(st[n], lastApplied[n]) = EntryAt(st[n], lastApplied[n]).term
      BY <2>5, <3>2 DEF GetLogTerm
    <3>4. /\ EntryAt(st[n], lastApplied[n]).term <= hs[n].currentTerm
          /\ EntryAt(st[n], lastApplied[n]).term \in Nat
      BY <1>1, <3>2, HeldEntry, HeldEntryType DEF TermsBounded, LogEntry
    <3>5. st'[n].lastIncludedTerm = GetLogTerm(st[n], lastApplied[n])
      <4>1. /\ GetLogTerm(st[n], lastApplied[n]) \in Nat
            /\ lastApplied[n] >= st[n].lastIncludedIndex
        BY <1>1, <1>2, <2>5, <3>3, <3>4
      <4> QED BY <1>1, <3>1, <4>1, CompactedFields DEF CompactTo
    <3> QED BY <1>2, <1>3, <2>1, <3>3, <3>4, <3>5
  <2> QED BY <2>1, <2>2, <2>3, <2>4, <2>5 DEF LeaderStep
<1>5. CASE role[n] # "Leader"
  <2>1. <<st'[n].currentTerm, n>> \notin elected
    BY <1>5, LeaderGoesOn DEF GoesOn
  <2>2. <<st'[n].currentTerm, n>> \in elected'
    BY DEF LeadersElected
  <2>3. st'[n].lastIncludedTerm < st'[n].currentTerm
    BY <2>1, <2>2, WinnersLog
  <2> QED BY <1>2, <2>3
<1> QED BY <1>4, <1>5

LEMMA NewAppendTerms ==
  ASSUME NEW s \in HardState, LogOK(s), NEW next \in Nat, next > s.lastIncludedIndex,
         NEW n, NEW p, NEW commit, NEW m, m = AppendEntries(n, p, s, next, commit)
  PROVE  /\ m.prevIndex \in Nat /\ m.term = s.currentTerm
         /\ m.prevTerm = GetLogTerm(s, m.prevIndex)
         /\ \A k \in 1 .. Len(m.entries) : m.entries[k] \in HeldEntries(s)
<1> DEFINE a == AppendEntries(n, p, s, next, commit)
<1>1. a.prevIndex = next - 1 /\ a.prevTerm = GetLogTerm(s, next - 1) /\ a.term = s.currentTerm
  BY DEF AppendEntries
<1>2. next - 1 \in Nat
  BY HardStateFields
<1>3. \A k \in 1 .. Len(a.entries) : a.entries[k] \in HeldEntries(s)
  BY NewAppend
<1> HIDE DEF a
<1> QED BY <1>1, <1>2, <1>3 DEF a

LEMMA TermsStayBounded ==
  ASSUME TypeOK, TypeOK', LogsOK, ElectionInv', TermsBounded, DiskStep,
         NEW n \in Node, \A p \in Node \ {n} : Untouched(p), Sends(n), LogOK(st'[n]),
         \A e \in HeldEntries(st'[n]) \cup HeldEntries(hs'[n]) :
           \/ e \in HeldEntries(st[n]) \cup HeldEntries(hs[n])
           \/ e.term <= hs'[n].currentTerm,
         role'[n] = "Leader" => st'[n].lastIncludedTerm <= st'[n].currentTerm
  PROVE  TermsBounded'
<1>1. /\ \A p \in Node : /\ hs[p] \in HardState /\ hs'[p] \in HardState /\ st'[p] \in HardState
                         /\ st[p] \in HardState
      /\ \A p \in Node : \A q \in Node : nextIndex'[p][q] \in Nat
  BY DEF TypeOK, ProcessType, DiskType, LeadershipType
<1>2. /\ hs[n].currentTerm \in Nat /\ hs'[n].currentTerm \in Nat /\ st'[n].currentTerm \in Nat
      /\ hs[n].currentTerm <= hs'[n].currentTerm
      /\ hs'[n].currentTerm <= st'[n].currentTerm
      /\ st'[n].lastIncludedTerm \in Nat
  BY <1>1, HardStateFields DEF DiskStep, NotBehind
<1>3. \A e \in HeldEntries(st'[n]) \cup HeldEntries(hs'[n]) :
        e.term \in Nat /\ e.term <= hs'[n].currentTerm
  <2> SUFFICES ASSUME NEW e \in HeldEntries(st'[n]) \cup HeldEntries(hs'[n])
               PROVE  e.term \in Nat /\ e.term <= hs'[n].currentTerm
    OBVIOUS
  <2>1. e.term \in Nat
    BY <1>1, HeldEntryType DEF LogEntry
  <2>2. e \in HeldEntries(st[n]) \cup HeldEntries(hs[n]) => e.term <= hs[n].currentTerm
    BY DEF TermsBounded
  <2> QED BY <1>2, <2>1, <2>2
<1>4. \A p \in Node : \A e \in HeldEntries(st'[p]) \cup HeldEntries(hs'[p]) :
        e.term <= hs'[p].currentTerm
  BY <1>3 DEF TermsBounded, Untouched
<1>5. \A l \in Node : role'[l] = "Leader" => st'[l].lastIncludedTerm <= st'[l].currentTerm
  BY DEF TermsBounded, Untouched
<1>6. ASSUME NEW m \in Appends', m \notin messages
      PROVE  /\ m.prevTerm <= m.term
             /\ \A k \in 1 .. Len(m.entries) : m.entries[k].term <= m.term
  <2>1. /\ role'[n] = "Leader" /\ m.dst \in Node
        /\ nextIndex'[n][m.dst] > st'[n].lastIncludedIndex
        /\ m = AppendEntries(n, m.dst, st'[n], nextIndex'[n][m.dst], commitIndex[n])
    BY <1>6 DEF Appends, Sends
  <2>2. nextIndex'[n][m.dst] \in Nat
    BY <1>1, <2>1
  <2>3. /\ m.prevIndex \in Nat /\ m.term = st'[n].currentTerm
        /\ m.prevTerm = GetLogTerm(st'[n], m.prevIndex)
        /\ \A k \in 1 .. Len(m.entries) : m.entries[k] \in HeldEntries(st'[n])
    <3>1. PICK s \in HardState : s = st'[n]
      BY <1>1
    <3>2. PICK next \in Nat : next = nextIndex'[n][m.dst]
      BY <2>2
    <3>3. LogOK(s) /\ next > s.lastIncludedIndex
      BY <2>1, <3>1, <3>2
    <3>4. m = AppendEntries(n, m.dst, s, next, commitIndex[n])
      BY <2>1, <3>1, <3>2
    <3> QED BY <3>1, <3>2, <3>3, <3>4, NewAppendTerms
  <2>4. m.prevTerm <= m.term
    <3>1. CASE m.prevIndex = st'[n].lastIncludedIndex
      BY <2>1, <2>3, <3>1 DEF GetLogTerm
    <3>2. CASE m.prevIndex # st'[n].lastIncludedIndex /\ InMemory(st'[n], m.prevIndex)
      <4>1. m.prevIndex \in Held(st'[n])
        BY <1>1, <2>3, <3>2, HardStateFields DEF InMemory, Held
      <4>2. EntryAt(st'[n], m.prevIndex) \in HeldEntries(st'[n])
        BY <1>1, <4>1, HeldEntry
      <4> QED BY <1>2, <1>3, <2>3, <3>2, <4>2 DEF GetLogTerm
    <3>3. CASE m.prevIndex # st'[n].lastIncludedIndex /\ ~InMemory(st'[n], m.prevIndex)
      BY <1>2, <2>3, <3>3 DEF GetLogTerm
    <3> QED BY <3>1, <3>2, <3>3
  <2> QED BY <1>2, <1>3, <2>3, <2>4
<1>7. \A m \in Appends' : /\ m.prevTerm <= m.term
                         /\ \A k \in 1 .. Len(m.entries) : m.entries[k].term <= m.term
  BY <1>6 DEF TermsBounded, Appends
<1>8. ASSUME NEW t \in (Installs \cup snapTasks)'
      PROVE  t.snapTerm <= t.term
  <2>1. CASE t \in Installs \cup snapTasks
    BY <2>1 DEF TermsBounded
  <2>2. CASE t \in snapTasks' \ snapTasks
    BY <2>2 DEF Sends, SnapshotTask
  <2>3. Installs' \subseteq Installs
    BY DEF Sends, Installs
  <2> QED BY <2>1, <2>2, <2>3
<1> QED BY <1>4, <1>5, <1>7, <1>8 DEF TermsBounded

------------------------------------------------------------------------------
(* The invariant of marks.                                                 *)

(* A step of one node keeps the invariant, whatever it does to its log, its*)
(* votes and what it sends.                                                *)
LEMMA NodeKeepsLogs ==
  ASSUME TypeOK, TypeOK', ElectionInv, ElectionInv', ElectionSafety', LeaderInv, LeaderInv',
         LogInv, DiskStep,
         NEW n \in Node, \A p \in Node \ {n} : Untouched(p),
         LogChange(n), Sends(n), Elects(n),
         role[n] = "Leader" /\ role'[n] = "Leader" => LeaderStep(n)
  PROVE  LogInv'
<1>1. /\ LogsOK /\ MarksElected /\ LeaderAhead /\ EntryUnique /\ TermsBounded
      /\ RequestsTrue /\ LateCandidates
  BY DEF LogInv
<1>2. LeadersElected /\ LeadersElected'
  BY DEF LeaderInv
<1>3. RequestsTrue' /\ LateCandidates'
  BY <1>1, RequestsStayTrue
<1>4. GoesOn(n)
  BY <1>1, LeaderGoesOn
<1>5. elected \subseteq elected'
  BY ElectsVotes
<1>6. \A e \in elected' : e[1] > 0
  BY <1>3 DEF RequestsTrue, RequestsOf
<1>7. role'[n] = "Leader" => st'[n].lastIncludedTerm <= st'[n].currentTerm
  BY <1>1, <1>2, LeaderBase
<1>8. /\ LogsOK' /\ MarksElected' /\ LeaderAhead' /\ EntryUnique'
      /\ \A e \in HeldEntries(st'[n]) \cup HeldEntries(hs'[n]) :
           \/ e \in HeldEntries(st[n]) \cup HeldEntries(hs[n])
           \/ e.term <= hs'[n].currentTerm
  <2>1. CASE PushedLog(n)
    <3>1. LogsOK' /\ MarksElected' /\ LeaderAhead' /\ EntryUnique'
      BY <1>1, <1>2, <1>5, <1>6, <2>1, PushedMarks
    <3>2. \A e \in HeldEntries(st'[n]) \cup HeldEntries(hs'[n]) :
            e \in HeldEntries(st[n]) \/ e.term <= hs'[n].currentTerm
      BY <1>1, <1>2, <1>5, <1>6, <2>1, PushedMarks
    <3> QED BY <3>1, <3>2
  <2>2. CASE ~PushedLog(n)
    <3>1. Copied(n)
      BY <1>1, <2>2, ChangeCopies
    <3>2. LogsOK' /\ MarksElected' /\ LeaderAhead' /\ EntryUnique'
      BY <1>1, <1>2, <1>4, <1>5, <1>6, <3>1, CopiedMarks
    <3> QED BY <3>1, <3>2 DEF Copied, Taken
  <2> QED BY <2>1, <2>2
<1>9. LogOK(st'[n])
  BY <1>8 DEF LogsOK
<1>10. TermsBounded'
  BY <1>1, <1>7, <1>8, <1>9, TermsStayBounded
<1> QED BY <1>3, <1>8, <1>10 DEF LogInv

LEMMA StepKeepsLogs ==
  ASSUME TypeOK, TypeOK', ElectionInv, ElectionInv', ElectionSafety', LeaderInv, LeaderInv',
         LogInv, DiskStep, NEW n \in Node, Step(n)
  PROVE  LogInv'
<1>1. \A p \in Node \ {n} : Untouched(p)
  BY StepOthers
<1>2. LogChange(n) /\ Sends(n)
  BY StepLog, StepSent
<1>3. Elects(n)
  BY StepElects DEF ElectionInv
<1>4. role[n] = "Leader" /\ role'[n] = "Leader" => LeaderStep(n)
  BY StepOfLeader
<1> QED BY <1>1, <1>2, <1>3, <1>4, NodeKeepsLogs

LEMMA ReceiveKeepsLogs ==
  ASSUME TypeOK, TypeOK', ElectionInv, ElectionInv', ElectionSafety', LeaderInv, LeaderInv',
         LogInv, DiskStep, NEW m \in messages, NEW n \in Receivers(m), Receive(n, m)
  PROVE  LogInv'
<1>1. n \in Node
  BY DEF TypeOK, NetworkType, Receivers, Message, RequestVoteType, RequestVoteReplyType,
         AppendEntriesType, ResultType, InstallSnapshotType
<1>2. \A p \in Node \ {n} : Untouched(p)
  BY <1>1, ReceiveOthers
<1>3. LogChange(n) /\ Sends(n) /\ Elects(n)
  BY ReceiveLog, ReceiveSent, ReceiveElects
<1>4. role[n] = "Leader" /\ role'[n] = "Leader" => LeaderStep(n)
  BY <1>1, ReceiveOfLeader
<1> QED BY <1>1, <1>2, <1>3, <1>4, NodeKeepsLogs

(* A snapshot task that reads its file sends what is announced and stored. *)
LEMMA ReadKeepsLogs ==
  ASSUME TypeOK, TypeOK', LogInv, NEW t \in snapTasks, ReadSnapshot(t)
  PROVE  LogInv'
<1> DEFINE i == InstallSnapshot(t, snapFile[t.src])
<1>1. /\ messages' = messages \cup {i} /\ i.type = "InstallSnapshot" /\ t.src \in Node
      /\ i.term = t.term /\ i.index = t.index /\ i.snapTerm = t.snapTerm
      /\ i.body = snapFile[t.src] /\ snapFile[t.src] # Nil
      /\ UNCHANGED <<hs, snapFile, st, role, ballot, snapTasks, elected, decided>>
  BY DEF ReadSnapshot, Send, InstallSnapshot, TypeOK, NetworkType, TaskType, history, disk
<1> HIDE DEF i
<1>2. /\ Requests' = Requests /\ Appends' = Appends /\ Installs' = Installs \cup {i}
      /\ Votes' = Votes
  BY <1>1 DEF Requests, Appends, Installs, Votes
<1>3. /\ SentEntries' = SentEntries /\ StoredMarks' = StoredMarks /\ Entries' = Entries
      /\ \A term, n : RequestsOf(term, n)' = RequestsOf(term, n)
  BY <1>1, <1>2 DEF SentEntries, StoredMarks, Entries, RequestsOf
<1>4. SentMarks' \subseteq SentMarks \cup StoredMarks
  BY <1>1, <1>2, <1>3 DEF SentMarks, StoredMarks
<1>5. \A l \in Node : MarksBut(l)' \subseteq MarksBut(l) /\ Marks(hs[l])' = Marks(hs[l])
  BY <1>1, <1>3, <1>4 DEF MarksBut
<1>6. LogsOK'
  BY <1>1, <1>2 DEF LogInv, LogsOK
<1>7. MarksElected' /\ LeaderAhead' /\ EntryUnique'
  BY <1>1, <1>3, <1>5 DEF LogInv, MarksElected, LeaderAhead, EntryUnique, IsElected
<1>8. TermsBounded'
  BY <1>1, <1>2 DEF LogInv, TermsBounded
<1>9. RequestsTrue' /\ LateCandidates'
  BY <1>1, <1>2, <1>3 DEF LogInv, RequestsTrue, LateCandidates, Hopeless, Refuses
<1> QED BY <1>6, <1>7, <1>8, <1>9 DEF LogInv

LEMMA StutterKeepsLogs ==
  ASSUME LogInv, UNCHANGED vars
  PROVE  LogInv'
<1>1. UNCHANGED <<hs, snapFile, st, role, ballot, messages, snapTasks, elected, decided>>
  BY DEF vars, disk, history
<1>2. /\ Requests' = Requests /\ Appends' = Appends /\ Installs' = Installs /\ Votes' = Votes
      /\ \A term, n : RequestsOf(term, n)' = RequestsOf(term, n)
  BY <1>1 DEF Requests, Appends, Installs, Votes, RequestsOf
<1>3. SentEntries' = SentEntries /\ StoredMarks' = StoredMarks
  BY <1>1, <1>2 DEF SentEntries, StoredMarks
<1>4. SentMarks' = SentMarks /\ Entries' = Entries
  BY <1>1, <1>2, <1>3 DEF SentMarks, Entries
<1>5. \A l \in Node : MarksBut(l)' = MarksBut(l)
  BY <1>1, <1>3, <1>4 DEF MarksBut
<1>6. LogsOK' /\ TermsBounded'
  BY <1>1, <1>2 DEF LogInv, LogsOK, TermsBounded
<1>7. MarksElected' /\ LeaderAhead' /\ EntryUnique'
  BY <1>1, <1>4, <1>5 DEF LogInv, MarksElected, LeaderAhead, EntryUnique, IsElected
<1>8. RequestsTrue' /\ LateCandidates'
  BY <1>1, <1>2 DEF LogInv, RequestsTrue, LateCandidates, Hopeless, Refuses
<1> QED BY <1>6, <1>7, <1>8 DEF LogInv

LEMMA InitLogs ==
  ASSUME Init
  PROVE  LogInv
<1>1. /\ \A n \in Node : st[n] = FreshState /\ hs[n] = FreshState /\ role[n] = "Follower"
                         /\ ~ballot[n].open /\ snapFile[n] = Nil
      /\ messages = {} /\ snapTasks = {} /\ elected = {} /\ decided = {}
  BY DEF Init, Closed
<1>2. /\ Requests = {} /\ Appends = {} /\ Installs = {} /\ Votes = {}
  BY <1>1 DEF Requests, Appends, Installs, Votes
<1>3. /\ LogOK(FreshState) /\ HeldEntries(FreshState) = {} /\ Base(FreshState) = <<0, 0>>
      /\ FreshState.lastIncludedTerm = 0
  BY DEF LogOK, HeldEntries, Base, FreshState, Placeholder
<1>4. Marks(FreshState) = {<<0, 0>>}
  BY <1>3 DEF Marks
<1>5. SentEntries = {} /\ StoredMarks = {}
  BY <1>1, <1>2 DEF SentEntries, StoredMarks
<1>6. SentMarks = {} /\ Entries = {}
  BY <1>1, <1>2, <1>3, <1>5 DEF SentMarks, Entries
<1>7. \A l \in Node : \A k \in MarksBut(l) \cup Marks(hs[l]) : k = <<0, 0>>
  BY <1>1, <1>4, <1>5, <1>6 DEF MarksBut
<1>8. LogsOK /\ MarksElected /\ LeaderAhead /\ EntryUnique
  BY <1>1, <1>2, <1>3, <1>6, <1>7 DEF LogsOK, MarksElected, LeaderAhead, EntryUnique
<1>9. TermsBounded /\ RequestsTrue /\ LateCandidates
  BY <1>1, <1>2, <1>3 DEF TermsBounded, RequestsTrue, LateCandidates
<1> QED BY <1>8, <1>9 DEF LogInv

LEMMA NextLogs ==
  ASSUME TypeOK, TypeOK', ElectionInv, ElectionInv', ElectionSafety', LeaderInv, LeaderInv',
         LogInv, [Next]_vars
  PROVE  LogInv'
<1>1. DiskStep
  BY NextDisk DEF ElectionInv
<1>2. ASSUME NEW n \in Node, Step(n)
      PROVE  LogInv'
  BY <1>1, <1>2, StepKeepsLogs
<1>3. ASSUME NEW m \in messages, NEW n \in Receivers(m), Receive(n, m)
      PROVE  LogInv'
  BY <1>1, <1>3, ReceiveKeepsLogs
<1>4. ASSUME NEW t \in snapTasks, ReadSnapshot(t)
      PROVE  LogInv'
  BY <1>4, ReadKeepsLogs
<1>5. CASE UNCHANGED vars
  BY <1>5, StutterKeepsLogs
<1> QED BY <1>2, <1>3, <1>4, <1>5 DEF Next

(* Every entry of a log, of a message or of a snapshot was made by the     *)
(* leader of its term, no node is ahead of that leader, and an index and a *)
(* term tell the entry, in spite of failed writes and crashes.             *)
THEOREM LogsInvariant == Spec => []LogInv
<1>1. Init => LogInv
  BY InitLogs
<1>2. TypeOK /\ TypeOK' /\ ElectionInv /\ ElectionInv' /\ ElectionSafety'
      /\ LeaderInv /\ LeaderInv' /\ LogInv /\ [Next]_vars => LogInv'
  BY NextLogs
<1> QED BY <1>1, <1>2, TypeCorrect, ElectionsInvariant, OneLeaderPerTerm, LeadersInvariant, PTL
     DEF Spec

(* Every entry of every log, in memory and on disk, carries the index of   *)
(* its place (the two ways in which actor.rs cuts a log agree).            *)
THEOREM LogsAreAligned == Spec => []LogAligned
<1>1. LogInv => LogAligned
  BY DEF LogInv, LogsOK, LogOK, LogAligned
<1> QED BY <1>1, LogsInvariant, PTL

(* Two entries of one index and one term are the same, in whatever log,    *)
(* message or commit they are: append_entries compares terms only.         *)
THEOREM EntriesAreUnique == Spec => []EntryUnique
<1>1. LogInv => EntryUnique
  BY DEF LogInv
<1> QED BY <1>1, LogsInvariant, PTL

------------------------------------------------------------------------------
(* Lines, S being any table of the beginnings of terms.                    *)

GoodStarts(S) ==
  \A c \in DOMAIN S :
    /\ c \in Nat /\ c > 0
    /\ S[c].index \in Nat /\ S[c].term \in Nat /\ S[c].term < c
    /\ MarkOK(S, S[c].index, S[c].term)

IsLine(f) ==
  /\ DOMAIN f \subseteq Nat
  /\ \A i \in DOMAIN f : f[i] \in Nat
  /\ \A i, j \in DOMAIN f : \A x \in Nat : i <= x /\ x <= j => x \in DOMAIN f

------------------------------------------------------------------------------
(* Induction over terms, for a set of them.                                *)
LEMMA EveryTerm ==
  ASSUME NEW G, \A d \in Nat : (\A x \in Nat : x < d => x \in G) => d \in G
  PROVE  \A d \in Nat : d \in G
<1> DEFINE Missing == {d \in Nat : d \notin G}
<1>1. SUFFICES ASSUME Missing # {} PROVE FALSE
  OBVIOUS
<1>2. IsWellFoundedOn(OpToRel(<, Nat), Nat)
  BY NatLessThanWellFounded
<1>3. \E x \in Missing : \A y \in Missing : ~ (<<y, x>> \in OpToRel(<, Nat))
  <2> HIDE DEF Missing
  <2>1. Missing \subseteq Nat
    BY DEF Missing
  <2> QED BY <1>1, <1>2, <2>1, WFMin
<1>4. PICK x \in Missing : \A y \in Missing : ~ (<<y, x>> \in OpToRel(<, Nat))
  BY <1>3
<1>5. \A y \in Nat : y < x => y \in G
  BY <1>4 DEF OpToRel
<1> QED BY <1>4, <1>5

(* A line's terms never fall.                                              *)
LEMMA LineMonotone ==
  ASSUME NEW S, GoodStarts(S), NEW f, IsLine(f), Rooted(S, f),
         NEW i \in DOMAIN f, NEW j \in DOMAIN f, i <= j
  PROVE  f[i] <= f[j]
<1> DEFINE G == {d \in Nat : \A x, y \in DOMAIN f : x <= y /\ f[y] = d => f[x] <= d}
<1>1. ASSUME NEW d \in Nat, \A z \in Nat : z < d => z \in G
      PROVE  d \in G
  <2> SUFFICES ASSUME NEW x \in DOMAIN f, NEW y \in DOMAIN f, x <= y, f[y] = d
               PROVE  f[x] <= d
    OBVIOUS
  <2>0. x \in Nat /\ y \in Nat /\ f[x] \in Nat
    BY DEF IsLine
  <2>1. MarkOK(S, y, d)
    BY DEF Rooted
  <2>2. CASE d = 0
    <3>1. y = 0
      BY <2>1, <2>2 DEF MarkOK, GoodStarts
    <3> QED BY <2>0, <2>2, <3>1
  <2>3. CASE d # 0
    <3>1. d \in DOMAIN S /\ y > S[d].index
      BY <2>1, <2>3 DEF MarkOK
    <3>2. S[d].index \in Nat /\ S[d].term \in Nat /\ S[d].term < d
      BY <3>1 DEF GoodStarts
    <3>3. OwnMark(S, x, f[x], d)
      BY <2>3 DEF Rooted
    <3>4. CASE x >= S[d].index
      BY <2>0, <3>2, <3>3, <3>4 DEF OwnMark
    <3>5. CASE x < S[d].index
      <4>1. S[d].index \in DOMAIN f
        BY <2>0, <3>1, <3>2, <3>5 DEF IsLine
      <4>2. OwnMark(S, S[d].index, f[S[d].index], d)
        BY <2>0, <2>3, <3>1, <3>2, <4>1 DEF Rooted
      <4>3. f[S[d].index] = S[d].term
        BY <4>2 DEF OwnMark
      <4>4. S[d].term \in G
        BY <1>1, <3>2
      <4>5. f[x] <= S[d].term
        BY <2>0, <3>2, <3>5, <4>1, <4>3, <4>4
      <4> QED BY <2>0, <3>2, <4>5
    <3> QED BY <2>0, <3>2, <3>4, <3>5
  <2> QED BY <2>2, <2>3
<1>2. f[j] \in G
  <2>1. f[j] \in Nat
    BY DEF IsLine
  <2> HIDE DEF G
  <2> QED BY <1>1, <2>1, EveryTerm
<1> QED BY <1>2

(* Two lines that agree somewhere agree below.                             *)
LEMMA LinesMatch ==
  ASSUME NEW S, GoodStarts(S), NEW f, IsLine(f), Rooted(S, f), NEW g, IsLine(g), Rooted(S, g),
         NEW i \in DOMAIN f, i \in DOMAIN g, f[i] = g[i],
         NEW j \in DOMAIN f, j \in DOMAIN g, j <= i
  PROVE  f[j] = g[j]
<1> DEFINE Both == (DOMAIN f) \cap (DOMAIN g)
           G == {d \in Nat : \A x, y \in Both : x <= y /\ f[y] = d /\ g[y] = d => f[x] = g[x]}
<1>1. ASSUME NEW d \in Nat, \A z \in Nat : z < d => z \in G
      PROVE  d \in G
  <2> SUFFICES ASSUME NEW x \in Both, NEW y \in Both, x <= y, f[y] = d, g[y] = d
               PROVE  f[x] = g[x]
    OBVIOUS
  <2>0. x \in Nat /\ y \in Nat /\ f[x] \in Nat /\ g[x] \in Nat
    BY DEF IsLine
  <2>1. MarkOK(S, y, d)
    BY DEF Rooted
  <2>2. CASE d = 0
    <3>1. y = 0
      BY <2>1, <2>2 DEF MarkOK, GoodStarts
    <3> QED BY <2>0, <3>1
  <2>3. CASE d # 0
    <3>1. d \in DOMAIN S /\ y > S[d].index
      BY <2>1, <2>3 DEF MarkOK
    <3>2. S[d].index \in Nat /\ S[d].term \in Nat /\ S[d].term < d
      BY <3>1 DEF GoodStarts
    <3>3. OwnMark(S, x, f[x], d) /\ OwnMark(S, x, g[x], d)
      BY <2>3 DEF Rooted
    <3>4. CASE x >= S[d].index
      BY <2>0, <3>2, <3>3, <3>4 DEF OwnMark
    <3>5. CASE x < S[d].index
      <4>1. S[d].index \in Both
        BY <2>0, <3>1, <3>2, <3>5 DEF IsLine
      <4>2. OwnMark(S, S[d].index, f[S[d].index], d) /\ OwnMark(S, S[d].index, g[S[d].index], d)
        BY <2>0, <2>3, <3>1, <3>2, <4>1 DEF Rooted
      <4>3. f[S[d].index] = S[d].term /\ g[S[d].index] = S[d].term
        BY <4>2 DEF OwnMark
      <4>4. S[d].term \in G
        BY <1>1, <3>2
      <4> QED BY <2>0, <3>2, <3>5, <4>1, <4>3, <4>4
    <3> QED BY <2>0, <3>2, <3>4, <3>5
  <2> QED BY <2>2, <2>3
<1>2. f[i] \in G
  <2>1. f[i] \in Nat
    BY DEF IsLine
  <2> HIDE DEF G
  <2> QED BY <1>1, <2>1, EveryTerm
<1> QED BY <1>2

(* A mark past (k, c), when each leader up to its term was elected with a  *)
(* log past (k, c), lies after k if its term is later.                     *)
LEMMA LaterMark ==
  ASSUME NEW S, GoodStarts(S), NEW i \in Nat, NEW d \in Nat, MarkOK(S, i, d),
         NEW k \in Nat, NEW c \in Nat, Past(i, d, k, c), NoBad(S, k, c, d)
  PROVE  i >= k /\ (d > c => i > k)
<1> DEFINE G == {x \in Nat : \A j \in Nat : MarkOK(S, j, x) /\ Past(j, x, k, c) /\ NoBad(S, k, c, x)
                               => j >= k /\ (x > c => j > k)}
<1>1. ASSUME NEW x \in Nat, \A z \in Nat : z < x => z \in G
      PROVE  x \in G
  <2> SUFFICES ASSUME NEW j \in Nat, MarkOK(S, j, x), Past(j, x, k, c), NoBad(S, k, c, x)
               PROVE  j >= k /\ (x > c => j > k)
    OBVIOUS
  <2>1. CASE ~(x > c)
    BY <2>1 DEF Past
  <2>2. CASE x > c
    <3>1. x \in DOMAIN S /\ j > S[x].index
      BY <2>2 DEF MarkOK
    <3>2. S[x].index \in Nat /\ S[x].term \in Nat /\ S[x].term < x /\ MarkOK(S, S[x].index, S[x].term)
      BY <3>1 DEF GoodStarts
    <3>3. Past(S[x].index, S[x].term, k, c)
      BY <2>2, <3>1 DEF NoBad
    <3>4. NoBad(S, k, c, S[x].term)
      BY <3>2 DEF NoBad, GoodStarts
    <3>5. S[x].term \in G
      BY <1>1, <3>2
    <3>6. S[x].index >= k
      BY <3>2, <3>3, <3>4, <3>5
    <3> QED BY <3>1, <3>2, <3>6
  <2> QED BY <2>1, <2>2
<1>2. d \in G
  <2> HIDE DEF G
  <2> QED BY <1>1, EveryTerm
<1> QED BY <1>2

(* And a line that goes so far has (k, c), and nothing of an earlier term  *)
(* after k.                                                                *)
LEMMA LineHas ==
  ASSUME NEW S, GoodStarts(S), NEW f, IsLine(f), Rooted(S, f),
         NEW k \in Nat, NEW c \in Nat, MarkOK(S, k, c),
         NEW i \in DOMAIN f, Past(i, f[i], k, c), NoBad(S, k, c, f[i])
  PROVE  /\ i >= k
         /\ k \in DOMAIN f => f[k] = c
         /\ \A j \in DOMAIN f : k <= j /\ j <= i => f[j] >= c
<1> DEFINE Has(y) == \A j \in DOMAIN f : k <= j /\ j <= y => f[j] >= c /\ (j = k => f[j] = c)
           G == {d \in Nat : \A y \in DOMAIN f :
                    f[y] = d /\ Past(y, d, k, c) /\ NoBad(S, k, c, d) => Has(y)}
<1>0. \A j \in DOMAIN f : j \in Nat /\ f[j] \in Nat /\ MarkOK(S, j, f[j])
  BY DEF IsLine, Rooted
<1>1. ASSUME NEW d \in Nat, \A z \in Nat : z < d => z \in G
      PROVE  d \in G
  <2> SUFFICES ASSUME NEW y \in DOMAIN f, f[y] = d, Past(y, d, k, c), NoBad(S, k, c, d),
                      NEW j \in DOMAIN f, k <= j, j <= y
               PROVE  f[j] >= c /\ (j = k => f[j] = c)
    OBVIOUS
  <2>1. j \in Nat /\ y \in Nat /\ f[j] \in Nat /\ MarkOK(S, y, d)
    BY <1>0
  <2>2. CASE d = 0
    <3>1. y = 0 /\ c = 0
      BY <2>1, <2>2 DEF MarkOK, Past, GoodStarts
    <3> QED BY <2>1, <2>2, <3>1
  <2>3. CASE d # 0
    <3>1. d \in DOMAIN S /\ y > S[d].index
      BY <2>1, <2>3 DEF MarkOK
    <3>2. S[d].index \in Nat /\ S[d].term \in Nat /\ S[d].term < d /\ MarkOK(S, S[d].index, S[d].term)
      BY <3>1 DEF GoodStarts
    <3>3. OwnMark(S, j, f[j], d)
      BY <2>3 DEF Rooted
    <3>4. CASE d = c
      <4>1. k > S[c].index
        BY <2>3, <3>4 DEF MarkOK
      <4> QED BY <2>1, <3>2, <3>3, <3>4, <4>1 DEF OwnMark
    <3>5. CASE d > c
      <4>1. Past(S[d].index, S[d].term, k, c)
        BY <3>1, <3>5 DEF NoBad
      <4>2. NoBad(S, k, c, S[d].term)
        BY <3>2 DEF NoBad, GoodStarts
      <4>3. S[d].index >= k
        BY <3>2, <4>1, <4>2, LaterMark
      <4>4. CASE j > S[d].index
        BY <2>1, <3>2, <3>3, <3>5, <4>3, <4>4 DEF OwnMark
      <4>5. CASE j <= S[d].index
        <5>1. S[d].index \in DOMAIN f
          BY <2>1, <3>1, <3>2, <4>5 DEF IsLine
        <5>2. OwnMark(S, S[d].index, f[S[d].index], d)
          BY <2>1, <2>3, <3>1, <3>2, <5>1 DEF Rooted
        <5>3. f[S[d].index] = S[d].term
          BY <5>2 DEF OwnMark
        <5>4. S[d].term \in G
          BY <1>1, <3>2
        <5>5. Has(S[d].index)
          BY <4>1, <4>2, <5>1, <5>3, <5>4
        <5> QED BY <4>5, <5>5
      <4> QED BY <2>1, <3>2, <4>4, <4>5
    <3> QED BY <2>1, <3>4, <3>5 DEF Past
  <2> QED BY <2>2, <2>3
<1>2. f[i] \in G
  <2>1. f[i] \in Nat
    BY <1>0
  <2> HIDE DEF G
  <2> QED BY <1>1, <2>1, EveryTerm
<1>3. Has(i)
  BY <1>2
<1>4. i >= k
  BY <1>0, LaterMark
<1> QED BY <1>0, <1>3, <1>4

------------------------------------------------------------------------------
(* New lines from old ones.                                                *)

LEMMA PastTransitive ==
  ASSUME NEW i \in Nat, NEW d \in Nat, NEW j \in Nat, NEW x \in Nat, NEW k \in Nat, NEW c \in Nat,
         Past(i, d, j, x), Past(j, x, k, c)
  PROVE  Past(i, d, k, c)
BY DEF Past

(* More terms may have begun.                                              *)
Extends(T, S) == DOMAIN S \subseteq DOMAIN T /\ \A c \in DOMAIN S : T[c] = S[c]

LEMMA MoreTerms ==
  ASSUME NEW S, GoodStarts(S), NEW T, Extends(T, S)
  PROVE  /\ \A i, c : MarkOK(S, i, c) => MarkOK(T, i, c)
         /\ \A f : Rooted(S, f) => Rooted(T, f)
         /\ \A f, c : c \in DOMAIN S /\ Owned(S, f, c) => Owned(T, f, c)
         /\ \A i, t, c : c \in DOMAIN S => (OwnMark(S, i, t, c) <=> OwnMark(T, i, t, c))
         /\ \A k, c, term : NoBad(T, k, c, term) => NoBad(S, k, c, term)
<1>1. \A i, c : MarkOK(S, i, c) => MarkOK(T, i, c)
  BY DEF MarkOK, Extends
<1>2. \A i, t, c : c \in DOMAIN S => (OwnMark(S, i, t, c) <=> OwnMark(T, i, t, c))
  BY DEF OwnMark, Extends
<1>3. \A f : Rooted(S, f) => Rooted(T, f)
  <2> SUFFICES ASSUME NEW f, Rooted(S, f), NEW i \in DOMAIN f
               PROVE  /\ MarkOK(T, i, f[i])
                      /\ \A j \in DOMAIN f : j <= i /\ f[i] # 0 => OwnMark(T, j, f[j], f[i])
    BY DEF Rooted
  <2>1. MarkOK(S, i, f[i])
    BY DEF Rooted
  <2>2. f[i] # 0 => f[i] \in DOMAIN S
    BY <2>1 DEF MarkOK
  <2> QED BY <1>1, <1>2, <2>1, <2>2 DEF Rooted
<1>4. \A f, c : c \in DOMAIN S /\ Owned(S, f, c) => Owned(T, f, c)
  BY <1>2 DEF Owned
<1>5. \A k, c, term : NoBad(T, k, c, term) => NoBad(S, k, c, term)
  BY DEF NoBad, Extends
<1> QED BY <1>1, <1>2, <1>3, <1>4, <1>5

LEMMA PartOfLine ==
  ASSUME NEW S, NEW f, Rooted(S, f), NEW g, \A i \in DOMAIN g : i \in DOMAIN f /\ g[i] = f[i]
  PROVE  Rooted(S, g) /\ \A c : Owned(S, f, c) => Owned(S, g, c)
BY DEF Rooted, Owned

(* A line up to p and another from p on.                                   *)
LEMMA JoinedLine ==
  ASSUME NEW S, GoodStarts(S), NEW f, IsLine(f), Rooted(S, f), NEW g, IsLine(g), Rooted(S, g),
         NEW p \in DOMAIN f, p \in DOMAIN g, f[p] = g[p],
         NEW h, \A i \in DOMAIN h : \/ i \in DOMAIN f /\ i <= p /\ h[i] = f[i]
                                    \/ i \in DOMAIN g /\ i >= p /\ h[i] = g[i]
  PROVE  Rooted(S, h)
<1>1. SUFFICES ASSUME NEW i \in DOMAIN h
               PROVE  /\ MarkOK(S, i, h[i])
                      /\ \A j \in DOMAIN h : j <= i /\ h[i] # 0 => OwnMark(S, j, h[j], h[i])
  BY DEF Rooted
<1>2. p \in Nat /\ i \in Nat /\ \A j \in DOMAIN h : j \in Nat
  BY DEF IsLine
<1>3. MarkOK(S, i, h[i])
  BY DEF Rooted
<1>4. ASSUME NEW j \in DOMAIN h, j <= i, h[i] # 0
      PROVE  OwnMark(S, j, h[j], h[i])
  <2>1. CASE i \in DOMAIN f /\ i <= p /\ h[i] = f[i]
    <3>1. j \in DOMAIN f /\ h[j] = f[j]
      BY <1>2, <1>4, <2>1
    <3> QED BY <1>4, <2>1, <3>1 DEF Rooted
  <2>2. CASE i \in DOMAIN g /\ i >= p /\ h[i] = g[i]
    <3>1. CASE j \in DOMAIN g /\ j >= p /\ h[j] = g[j]
      BY <1>4, <2>2, <3>1 DEF Rooted
    <3>2. CASE j \in DOMAIN f /\ j <= p /\ h[j] = f[j]
      <4>1. h[i] \in DOMAIN S /\ i > S[h[i]].index
        BY <1>3, <1>4 DEF MarkOK
      <4>2. S[h[i]].index \in Nat
        BY <4>1 DEF GoodStarts
      <4>3. OwnMark(S, p, g[p], h[i])
        BY <1>4, <2>2 DEF Rooted
      <4>4. CASE p > S[h[i]].index
        <5>1. f[p] = h[i]
          BY <4>3, <4>4 DEF OwnMark
        <5> QED BY <1>4, <3>2, <5>1 DEF Rooted
      <4>5. CASE p = S[h[i]].index
        BY <1>2, <3>2, <4>2, <4>3, <4>5 DEF OwnMark
      <4>6. CASE p < S[h[i]].index
        BY <1>2, <3>2, <4>2, <4>6 DEF OwnMark
      <4> QED BY <1>2, <4>2, <4>4, <4>5, <4>6
    <3> QED BY <3>1, <3>2
  <2> QED BY <2>1, <2>2
<1> QED BY <1>3, <1>4

(* A leader's line and one entry more.                                     *)
LEMMA PushedLine ==
  ASSUME NEW S, GoodStarts(S), NEW f, IsLine(f), Rooted(S, f), NEW c \in DOMAIN S, Owned(S, f, c),
         NEW top \in Nat, top > S[c].index,
         NEW h, \A i \in DOMAIN h : \/ i \in DOMAIN f /\ i < top /\ h[i] = f[i]
                                    \/ i = top /\ h[i] = c
  PROVE  Rooted(S, h) /\ Owned(S, h, c)
<1>1. c # 0 /\ S[c].index \in Nat
  BY DEF GoodStarts
<1>2. Owned(S, h, c)
  BY <1>1 DEF Owned, OwnMark
<1>3. ASSUME NEW i \in DOMAIN h
      PROVE  /\ MarkOK(S, i, h[i])
             /\ \A j \in DOMAIN h : j <= i /\ h[i] # 0 => OwnMark(S, j, h[j], h[i])
  <2>1. CASE i = top /\ h[i] = c
    <3>1. MarkOK(S, i, h[i])
      BY <2>1 DEF MarkOK
    <3> QED BY <1>2, <2>1, <3>1 DEF Owned
  <2>2. CASE i \in DOMAIN f /\ i < top /\ h[i] = f[i]
    <3>1. \A j \in DOMAIN h : j <= i => j \in DOMAIN f /\ h[j] = f[j]
      BY <2>2 DEF IsLine
    <3> QED BY <2>2, <3>1 DEF Rooted
  <2> QED BY <2>1, <2>2
<1> QED BY <1>2, <1>3 DEF Rooted

(* A line on top of a mark that every later leader's log is past.          *)
LEMMA BasedLine ==
  ASSUME NEW S, GoodStarts(S), NEW f, IsLine(f), Rooted(S, f),
         NEW k \in Nat, NEW c \in Nat, MarkOK(S, k, c), Safe(S, k, c),
         NEW top \in Nat, DOMAIN f = k + 1 .. top, top > k => Past(top, f[top], k, c),
         NEW h, DOMAIN h = k .. top, h[k] = c, \A i \in DOMAIN f : h[i] = f[i]
  PROVE  Rooted(S, h)
<1>0. \A j \in DOMAIN f : j \in Nat /\ f[j] \in Nat /\ MarkOK(S, j, f[j])
  BY DEF IsLine, Rooted
<1>1. \A x : NoBad(S, k, c, x)
  BY DEF Safe, NoBad
<1>2. \A i \in DOMAIN f : f[i] >= c
  <2> SUFFICES ASSUME NEW i \in DOMAIN f
               PROVE  f[i] >= c
    OBVIOUS
  <2>1. top \in DOMAIN f /\ top > k /\ k <= i /\ i <= top
    OBVIOUS
  <2> QED BY <1>1, <2>1, LineHas
<1>3. ASSUME NEW i \in DOMAIN f, f[i] # 0
      PROVE  OwnMark(S, k, c, f[i])
  <2>1. f[i] \in Nat /\ f[i] >= c /\ i \in Nat
    BY <1>0, <1>2
  <2>2. f[i] \in DOMAIN S /\ i > S[f[i]].index
    BY <1>0, <1>3 DEF MarkOK
  <2>3. S[f[i]].index \in Nat /\ S[f[i]].term \in Nat /\ S[f[i]].term < f[i]
        /\ MarkOK(S, S[f[i]].index, S[f[i]].term)
    BY <2>2 DEF GoodStarts
  <2>4. CASE f[i] = c
    <3>1. k > S[c].index
      BY <1>3, <2>4 DEF MarkOK
    <3> QED BY <2>3, <2>4, <3>1 DEF OwnMark
  <2>5. CASE f[i] > c
    <3>1. Past(S[f[i]].index, S[f[i]].term, k, c)
      BY <2>2, <2>5 DEF Safe
    <3>2. S[f[i]].index >= k /\ (S[f[i]].term > c => S[f[i]].index > k)
      BY <1>1, <2>3, <3>1, LaterMark
    <3> QED BY <2>3, <3>1, <3>2 DEF OwnMark, Past
  <2> QED BY <2>1, <2>4, <2>5
<1>4. ASSUME NEW i \in DOMAIN h
      PROVE  /\ MarkOK(S, i, h[i])
             /\ \A j \in DOMAIN h : j <= i /\ h[i] # 0 => OwnMark(S, j, h[j], h[i])
  <2>1. CASE i = k
    <3>1. h[i] # 0 => h[i] \in DOMAIN S /\ i > S[h[i]].index
      BY <2>1 DEF MarkOK
    <3>2. h[i] # 0 => S[h[i]].index \in Nat
      BY <3>1 DEF GoodStarts
    <3>3. \A j \in DOMAIN h : j <= i => j = k
      BY <2>1
    <3> QED BY <2>1, <3>1, <3>2, <3>3 DEF OwnMark
  <2>2. CASE i # k
    <3>1. i \in DOMAIN f /\ h[i] = f[i]
      BY <2>2
    <3>2. \A j \in DOMAIN h : j = k \/ (j \in DOMAIN f /\ h[j] = f[j])
      OBVIOUS
    <3> QED BY <1>3, <3>1, <3>2 DEF Rooted
  <2> QED BY <2>1, <2>2
<1> QED BY <1>4 DEF Rooted

(* What the leader of term c has from its beginning on is past all that    *)
(* its predecessors had to be past.                                        *)
LEMMA OwnerPast ==
  ASSUME NEW S, GoodStarts(S), NEW x \in DOMAIN S, NEW i \in Nat, NEW t \in Nat,
         OwnMark(S, i, t, x), i >= S[x].index,
         NEW k \in Nat, NEW c \in Nat, NoBad(S, k, c, x), c < x \/ (c = x /\ k <= i /\ k > S[x].index)
  PROVE  Past(i, t, k, c)
<1>1. x \in Nat /\ S[x].index \in Nat /\ S[x].term \in Nat
  BY DEF GoodStarts
<1>2. CASE c < x
  <2>1. Past(S[x].index, S[x].term, k, c)
    BY <1>1, <1>2 DEF NoBad
  <2> QED BY <1>1, <1>2, <2>1 DEF OwnMark, Past
<1>3. CASE c = x /\ k <= i /\ k > S[x].index
  BY <1>1, <1>3 DEF OwnMark, Past
<1> QED BY <1>2, <1>3

------------------------------------------------------------------------------
(* Lines of a state.                                                       *)

(* What is proved before: types, elections, leaders and logs.              *)
Known == TypeOK /\ ElectionInv /\ ElectionSafety /\ LeaderInv /\ LogInv

------------------------------------------------------------------------------
(* Two majorities meet.                                                    *)
LEMMA QuorumsMeet ==
  ASSUME NEW P, NEW Q, P \subseteq Node, Q \subseteq Node,
         Cardinality(P) >= Majority, Cardinality(Q) >= Majority
  PROVE  \E q \in P : q \in Q
<1>1. IsFiniteSet(Node) /\ IsFiniteSet(P) /\ IsFiniteSet(Q)
  BY NodeAssumption, FS_Subset
<1>2. Cardinality(Node) \in Nat /\ Cardinality(P) \in Nat /\ Cardinality(Q) \in Nat
  BY <1>1, FS_CardinalityType
<1>3. Cardinality(P) + Cardinality(Q) > Cardinality(Node)
  BY <1>2 DEF Majority
<1> QED BY <1>1, <1>3, FS_MajoritiesIntersect

LEMMA LargerQuorum ==
  ASSUME NEW P, NEW Q, P \subseteq Q, Q \subseteq Node, Cardinality(P) >= Majority
  PROVE  Cardinality(Q) >= Majority
<1>1. IsFiniteSet(Node) /\ IsFiniteSet(P) /\ IsFiniteSet(Q)
  BY NodeAssumption, FS_Subset
<1>2. Cardinality(P) <= Cardinality(Q) /\ Cardinality(P) \in Nat /\ Cardinality(Q) \in Nat
  BY <1>1, FS_Subset, FS_CardinalityType
<1>3. Majority \in Nat
  BY NodeAssumption, FS_CardinalityType DEF Majority
<1> QED BY <1>2, <1>3

------------------------------------------------------------------------------
(* The beginnings of terms.                                                *)

LEMMA RequestFields ==
  ASSUME TypeOK, NEW m \in Requests
  PROVE  /\ m.src \in Node /\ m.term \in Nat
         /\ m.lastLogIndex \in Nat /\ m.lastLogTerm \in Nat
BY MessageKinds DEF TypeOK, NetworkType, Requests, RequestVoteType

LEMMA AckFields ==
  ASSUME TypeOK, NEW r \in Acks
  PROVE  /\ r.src \in Node /\ r.dst \in Node /\ r.term \in Nat /\ r.lastLogIndex \in Nat
BY MessageKinds DEF TypeOK, NetworkType, Acks, ResultType

(* The request with which a node won its term tells the term's beginning.  *)
TrueStarts ==
  /\ DOMAIN Starts = ElectedTerms
  /\ \A e \in elected : \A m \in RequestsOf(e[1], e[2]) :
       Starts[e[1]] = [index |-> m.lastLogIndex, term |-> m.lastLogTerm]

LEMMA StartsTrue == Known => TrueStarts
<1> SUFFICES ASSUME Known
             PROVE  TrueStarts
  OBVIOUS
<1>1. DOMAIN Starts = ElectedTerms
  BY DEF Starts
<1>2. ASSUME NEW e \in elected, NEW m \in RequestsOf(e[1], e[2])
      PROVE  Starts[e[1]] = [index |-> m.lastLogIndex, term |-> m.lastLogTerm]
  <2>1. e[1] \in ElectedTerms /\ e = <<e[1], e[2]>> /\ e[2] \in Node
    BY DEF ElectedTerms, Known, TypeOK, HistoryType
  <2>2. m \in Requests /\ m.term = e[1] /\ m.src = e[2]
    BY DEF RequestsOf
  <2>3. \E k \in Requests : k.term = e[1] /\ <<e[1], k.src>> \in elected
    BY <2>1, <2>2
  <2>4. /\ Candidacy(e[1]) \in Requests /\ Candidacy(e[1]).term = e[1]
        /\ <<e[1], Candidacy(e[1]).src>> \in elected
    BY <2>3 DEF Candidacy
  <2>5. Candidacy(e[1]).src = e[2]
    BY <2>1, <2>4 DEF Known, ElectionSafety
  <2>6. Candidacy(e[1]) = m
    BY <2>2, <2>4, <2>5 DEF Known, LogInv, RequestsTrue
  <2> QED BY <2>1, <2>6 DEF Starts
<1> QED BY <1>1, <1>2 DEF TrueStarts

LEMMA ElectedRequest ==
  ASSUME Known, NEW c \in ElectedTerms
  PROVE  \E n \in Node : \E m \in RequestsOf(c, n) :
           /\ <<c, n>> \in elected
           /\ m \in Requests /\ m.lastLogIndex \in Nat /\ m.lastLogTerm \in Nat
           /\ c \in Nat /\ c > 0 /\ m.lastLogTerm < c
           /\ Starts[c] = [index |-> m.lastLogIndex, term |-> m.lastLogTerm]
<1>1. PICK e \in elected : e[1] = c
  BY DEF ElectedTerms
<1>2. e = <<c, e[2]>> /\ e[2] \in Node /\ c \in Nat
  BY <1>1 DEF Known, TypeOK, HistoryType
<1>3. PICK m \in RequestsOf(e[1], e[2]) : TRUE
  BY DEF Known, LogInv, RequestsTrue
<1>4. m \in RequestsOf(c, e[2]) /\ m \in Requests /\ m.term = c
  BY <1>1, <1>3 DEF RequestsOf
<1>5. m.lastLogTerm < c /\ m.term > 0
  BY <1>1, <1>3, <1>4 DEF Known, LogInv, RequestsTrue
<1>6. Starts[c] = [index |-> m.lastLogIndex, term |-> m.lastLogTerm]
  BY <1>1, <1>3, StartsTrue DEF TrueStarts
<1>7. m.lastLogIndex \in Nat /\ m.lastLogTerm \in Nat
  BY <1>4, RequestFields DEF Known
<1> QED BY <1>1, <1>2, <1>4, <1>5, <1>6, <1>7

LEMMA StartsGood == Known /\ MarksOK => GoodStarts(Starts)
<1> SUFFICES ASSUME Known, MarksOK, NEW c \in DOMAIN Starts
             PROVE  /\ c \in Nat /\ c > 0
                    /\ Starts[c].index \in Nat /\ Starts[c].term \in Nat /\ Starts[c].term < c
                    /\ MarkOK(Starts, Starts[c].index, Starts[c].term)
  BY DEF GoodStarts
<1>1. c \in ElectedTerms
  BY DEF Starts
<1>2. PICK n \in Node : \E m \in RequestsOf(c, n) :
           /\ <<c, n>> \in elected
           /\ m \in Requests /\ m.lastLogIndex \in Nat /\ m.lastLogTerm \in Nat
           /\ c \in Nat /\ c > 0 /\ m.lastLogTerm < c
           /\ Starts[c] = [index |-> m.lastLogIndex, term |-> m.lastLogTerm]
  BY <1>1, ElectedRequest
<1>3. PICK m \in RequestsOf(c, n) :
           /\ <<c, n>> \in elected
           /\ m \in Requests /\ m.lastLogIndex \in Nat /\ m.lastLogTerm \in Nat
           /\ c \in Nat /\ c > 0 /\ m.lastLogTerm < c
           /\ Starts[c] = [index |-> m.lastLogIndex, term |-> m.lastLogTerm]
  BY <1>2
<1>4. <<m.lastLogIndex, m.lastLogTerm>> \in AllMarks
  BY <1>3 DEF AllMarks, MarksBut, SentMarks
<1>5. MarkOK(Starts, m.lastLogIndex, m.lastLogTerm)
  BY <1>4 DEF MarksOK
<1> QED BY <1>3, <1>5

(* Beginnings are never changed.                                           *)
LEMMA StartsStay ==
  ASSUME Known, Known', elected \subseteq elected', Requests \subseteq Requests'
  PROVE  Extends(Starts', Starts)
<1>1. TrueStarts'
  BY StartsTrue, PTL
<1>2. DOMAIN Starts = ElectedTerms /\ DOMAIN Starts' = ElectedTerms'
  BY <1>1, StartsTrue DEF TrueStarts
<1>3. ElectedTerms \subseteq ElectedTerms'
  BY DEF ElectedTerms
<1>4. ASSUME NEW c \in ElectedTerms
      PROVE  Starts'[c] = Starts[c]
  <2>1. PICK n \in Node : \E m \in RequestsOf(c, n) :
           /\ <<c, n>> \in elected
           /\ m \in Requests /\ m.lastLogIndex \in Nat /\ m.lastLogTerm \in Nat
           /\ c \in Nat /\ c > 0 /\ m.lastLogTerm < c
           /\ Starts[c] = [index |-> m.lastLogIndex, term |-> m.lastLogTerm]
    BY ElectedRequest
  <2>2. PICK m \in RequestsOf(c, n) :
           /\ <<c, n>> \in elected
           /\ m \in Requests
           /\ Starts[c] = [index |-> m.lastLogIndex, term |-> m.lastLogTerm]
    BY <2>1
  <2>3. m.term = c /\ m.src = n
    BY DEF RequestsOf
  <2>4. m \in RequestsOf(<<c, n>>[1], <<c, n>>[2])'
    BY <2>2, <2>3 DEF RequestsOf
  <2>5. <<c, n>> \in elected'
    BY <2>2
  <2>6. Starts'[<<c, n>>[1]] = [index |-> m.lastLogIndex, term |-> m.lastLogTerm]
    BY <1>1, <2>4, <2>5 DEF TrueStarts
  <2> QED BY <2>2, <2>6
<1> QED BY <1>2, <1>3, <1>4 DEF Extends

------------------------------------------------------------------------------
(* The lines of a state.                                                   *)

LEMMA TermsLine ==
  ASSUME NEW s \in HardState
  PROVE  /\ IsLine(Terms(s)) /\ DOMAIN Terms(s) = Held(s)
         /\ \A i \in Held(s) : /\ i \in Nat /\ InMemory(s, i) /\ i > s.lastIncludedIndex
                               /\ EntryAt(s, i) \in LogEntry /\ EntryAt(s, i).term \in Nat
                               /\ Terms(s)[i] = EntryAt(s, i).term
                               /\ GetLogTerm(s, i) = EntryAt(s, i).term
<1>1. s.lastIncludedIndex \in Nat /\ LastLogIndex(s) \in Nat
  BY HardStateFields
<1>2. DOMAIN Terms(s) = Held(s)
  BY DEF Terms
<1>3. \A i \in Held(s) : i \in Nat /\ InMemory(s, i) /\ i > s.lastIncludedIndex
  BY <1>1 DEF Held, InMemory
<1>4. \A i \in Held(s) : EntryAt(s, i) \in LogEntry /\ EntryAt(s, i).term \in Nat
  BY <1>3, EntryAtType DEF LogEntry
<1>5. \A i \in Held(s) : Terms(s)[i] = EntryAt(s, i).term
  BY DEF Terms
<1>6. \A i \in Held(s) : GetLogTerm(s, i) = EntryAt(s, i).term
  BY <1>1, <1>3 DEF GetLogTerm
<1>7. IsLine(Terms(s))
  BY <1>1, <1>2, <1>3, <1>4, <1>5 DEF IsLine, Held
<1> QED BY <1>2, <1>3, <1>4, <1>5, <1>6, <1>7

LEMMA FullLine ==
  ASSUME NEW s \in HardState
  PROVE  /\ IsLine(Full(s)) /\ DOMAIN Full(s) = s.lastIncludedIndex .. LastLogIndex(s)
         /\ s.lastIncludedIndex \in DOMAIN Full(s)
         /\ Full(s)[s.lastIncludedIndex] = s.lastIncludedTerm
         /\ \A i \in Held(s) : i \in DOMAIN Full(s) /\ Full(s)[i] = Terms(s)[i]
         /\ \A i \in DOMAIN Full(s) : /\ Full(s)[i] = GetLogTerm(s, i)
                                      /\ i = s.lastIncludedIndex \/ i \in Held(s)
<1>1. /\ s.lastIncludedIndex \in Nat /\ LastLogIndex(s) \in Nat
      /\ LastLogIndex(s) >= s.lastIncludedIndex
  BY HardStateFields
<1>2. DOMAIN Full(s) = s.lastIncludedIndex .. LastLogIndex(s)
  BY DEF Full
<1>3. \A i \in DOMAIN Full(s) : Full(s)[i] = GetLogTerm(s, i)
  BY DEF Full
<1>4. \A i \in DOMAIN Full(s) : i \in Nat /\ Full(s)[i] \in Nat
  BY <1>1, <1>2, <1>3, GetLogTermType
<1>5. IsLine(Full(s))
  BY <1>1, <1>2, <1>4 DEF IsLine
<1>6. \A i \in Held(s) : i \in DOMAIN Full(s) /\ Full(s)[i] = Terms(s)[i]
  BY <1>1, <1>2, <1>3, TermsLine DEF Held
<1>7. Full(s)[s.lastIncludedIndex] = s.lastIncludedTerm
  BY <1>1, <1>2, <1>3 DEF GetLogTerm
<1>8. \A i \in DOMAIN Full(s) : i = s.lastIncludedIndex \/ i \in Held(s)
  BY <1>1, <1>2 DEF Held
<1> QED BY <1>1, <1>2, <1>3, <1>5, <1>6, <1>7, <1>8

(* The last index and term are those of the last entry, or of the snapshot.*)
LEMMA LastOfLine ==
  ASSUME NEW s \in HardState, LogOK(s)
  PROVE  /\ LastLogIndex(s) \in Nat /\ LastLogTerm(s) \in Nat
         /\ s.lastIncludedIndex \in Nat /\ s.lastIncludedTerm \in Nat
         /\ LastLogIndex(s) >= s.lastIncludedIndex
         /\ LastLogTerm(s) = GetLogTerm(s, LastLogIndex(s))
         /\ LastLogTerm(s) = Full(s)[LastLogIndex(s)]
         /\ LastLogIndex(s) \in DOMAIN Full(s)
         /\ \/ /\ LastLogIndex(s) = s.lastIncludedIndex /\ LastLogTerm(s) = s.lastIncludedTerm
               /\ Held(s) = {}
            \/ /\ LastLogIndex(s) > s.lastIncludedIndex /\ LastLogIndex(s) \in Held(s)
               /\ LastLogTerm(s) = Terms(s)[LastLogIndex(s)]
<1>1. /\ s.lastIncludedIndex \in Nat /\ LastLogIndex(s) \in Nat /\ s.lastIncludedTerm \in Nat
      /\ LastLogIndex(s) >= s.lastIncludedIndex
  BY HardStateFields
<1>2. LastLogTerm(s) \in Nat /\ LastLogTerm(s) = GetLogTerm(s, LastLogIndex(s))
  BY LastLogTermType, LastMark
<1>3. LastLogIndex(s) \in DOMAIN Full(s) /\ Full(s)[LastLogIndex(s)] = GetLogTerm(s, LastLogIndex(s))
  BY <1>1, FullLine
<1>4. CASE LastLogIndex(s) = s.lastIncludedIndex
  <2>1. Held(s) = {}
    BY <1>1, <1>4 DEF Held
  <2>2. LastLogTerm(s) = s.lastIncludedTerm
    BY <1>2, <1>4 DEF GetLogTerm
  <2> QED BY <1>1, <1>2, <1>3, <1>4, <2>1, <2>2
<1>5. CASE LastLogIndex(s) > s.lastIncludedIndex
  <2>1. LastLogIndex(s) \in Held(s)
    BY <1>1, <1>5 DEF Held
  <2>2. LastLogTerm(s) = Terms(s)[LastLogIndex(s)]
    BY <1>2, <2>1, TermsLine
  <2> QED BY <1>1, <1>2, <1>3, <1>5, <2>1, <2>2
<1> QED BY <1>1, <1>4, <1>5

LEMMA AppendLine ==
  ASSUME TypeOK, LogsOK, NEW m \in Appends
  PROVE  /\ IsLine(AppendTerms(m)) /\ DOMAIN AppendTerms(m) = m.prevIndex .. End(m)
         /\ m.src \in Node /\ m.dst \in Node /\ m.term \in Nat /\ m.leaderCommit \in Nat
         /\ m.prevIndex \in Nat /\ m.prevTerm \in Nat /\ m.entries \in Seq(LogEntry)
         /\ Len(m.entries) \in Nat /\ End(m) \in Nat /\ End(m) = m.prevIndex + Len(m.entries)
         /\ m.prevIndex \in DOMAIN AppendTerms(m) /\ End(m) \in DOMAIN AppendTerms(m)
         /\ AppendTerms(m)[m.prevIndex] = m.prevTerm
         /\ \A k \in 1 .. Len(m.entries) :
              /\ m.entries[k] \in LogEntry /\ m.entries[k].term \in Nat
              /\ m.entries[k] \in SentEntries
              /\ m.entries[k].index = m.prevIndex + k
              /\ m.prevIndex + k \in DOMAIN AppendTerms(m)
              /\ AppendTerms(m)[m.prevIndex + k] = m.entries[k].term
<1>1. /\ m.prevIndex \in Nat /\ m.prevTerm \in Nat /\ m.entries \in Seq(LogEntry)
      /\ m \in AppendEntriesType
      /\ \A k \in 1 .. Len(m.entries) :
           m.entries[k].index = m.prevIndex + k /\ m.entries[k] \in SentEntries
  BY AppendFields
<1>2. /\ m.src \in Node /\ m.dst \in Node /\ m.term \in Nat /\ m.leaderCommit \in Nat
  BY <1>1 DEF AppendEntriesType
<1>3. Len(m.entries) \in Nat
  BY <1>1
<1>4. \A k \in 1 .. Len(m.entries) : m.entries[k] \in LogEntry
  BY <1>1
<1>5. \A k \in 1 .. Len(m.entries) : m.entries[k].term \in Nat
  BY <1>4 DEF LogEntry
<1>6. End(m) = m.prevIndex + Len(m.entries) /\ End(m) \in Nat
  BY <1>1, <1>3 DEF End
<1>7. DOMAIN AppendTerms(m) = m.prevIndex .. End(m)
  BY DEF AppendTerms
<1>8. AppendTerms(m)[m.prevIndex] = m.prevTerm
  BY <1>1, <1>3, <1>6 DEF AppendTerms
<1>9. \A k \in 1 .. Len(m.entries) :
        m.prevIndex + k \in DOMAIN AppendTerms(m) /\ AppendTerms(m)[m.prevIndex + k] = m.entries[k].term
  <2> SUFFICES ASSUME NEW k \in 1 .. Len(m.entries)
               PROVE  /\ m.prevIndex + k \in DOMAIN AppendTerms(m)
                      /\ AppendTerms(m)[m.prevIndex + k] = m.entries[k].term
    OBVIOUS
  <2>1. m.prevIndex + k \in m.prevIndex .. End(m)
    BY <1>1, <1>3, <1>6
  <2>2. m.prevIndex + k # m.prevIndex /\ (m.prevIndex + k) - m.prevIndex = k
    BY <1>1, <1>3
  <2> QED BY <1>7, <2>1, <2>2 DEF AppendTerms
<1>10. \A i \in DOMAIN AppendTerms(m) : AppendTerms(m)[i] \in Nat
  <2> SUFFICES ASSUME NEW i \in m.prevIndex .. End(m)
               PROVE  AppendTerms(m)[i] \in Nat
    BY <1>7
  <2>1. CASE i = m.prevIndex
    BY <1>1, <1>8, <2>1
  <2>2. CASE i # m.prevIndex
    <3>1. i - m.prevIndex \in 1 .. Len(m.entries) /\ m.prevIndex + (i - m.prevIndex) = i
      BY <1>1, <1>3, <1>6, <2>2
    <3> QED BY <1>5, <1>9, <3>1
  <2> QED BY <2>1, <2>2
<1>11. IsLine(AppendTerms(m))
  BY <1>1, <1>6, <1>7, <1>10 DEF IsLine
<1>12. m.prevIndex \in DOMAIN AppendTerms(m) /\ End(m) \in DOMAIN AppendTerms(m)
  BY <1>1, <1>3, <1>6, <1>7
<1> QED BY <1>1, <1>2, <1>3, <1>4, <1>5, <1>6, <1>7, <1>8, <1>9, <1>11, <1>12

LEMMA DecidedLine ==
  ASSUME TypeOK, DecidedOK
  PROVE  /\ IsLine(DecidedTerms)
         /\ \A e \in decided : /\ e.index \in Nat /\ e.term \in Nat /\ e.index >= 1
                               /\ e.index \in DOMAIN DecidedTerms
                               /\ DecidedTerms[e.index] = e.term
         /\ \A i \in DOMAIN DecidedTerms : /\ \E e \in decided : e.index = i
                                           /\ \A j \in 1 .. i : j \in DOMAIN DecidedTerms
<1>1. decided \subseteq LogEntry
  BY DEF TypeOK, HistoryType
<1>2. \A e \in decided : e.index \in Nat /\ e.term \in Nat /\ e.index >= 1
  BY <1>1 DEF LogEntry, DecidedOK
<1>3. DOMAIN DecidedTerms = {e.index : e \in decided}
  BY DEF DecidedTerms
<1>4. \A e \in decided : DecidedTerms[e.index] = e.term
  <2> SUFFICES ASSUME NEW e \in decided
               PROVE  DecidedTerms[e.index] = e.term
    OBVIOUS
  <2>1. (CHOOSE f \in decided : f.index = e.index) = e
    BY DEF DecidedOK
  <2> QED BY <2>1 DEF DecidedTerms
<1>5. \A i \in DOMAIN DecidedTerms : \E e \in decided : e.index = i
  BY <1>3
<1>6. \A i \in DOMAIN DecidedTerms : i \in Nat /\ i >= 1 /\ DecidedTerms[i] \in Nat
  BY <1>2, <1>4, <1>5
<1>7. \A i \in DOMAIN DecidedTerms : \A j \in 1 .. i : j \in DOMAIN DecidedTerms
  BY <1>3, <1>5 DEF DecidedOK
<1>8. IsLine(DecidedTerms)
  BY <1>6, <1>7 DEF IsLine
<1> QED BY <1>2, <1>3, <1>4, <1>5, <1>7, <1>8

------------------------------------------------------------------------------
(* Evidence, and what is chosen.                                           *)

IsMark(k) == k = <<k[1], k[2]>> /\ k[1] \in Nat /\ k[2] \in Nat

LEMMA AckedMark ==
  ASSUME Known, MarksOK, NEW q \in Node, NEW k
  PROVE  k \in Acked(q) <=>
           \E r \in Acks : /\ r.src = q /\ r.term = k[2] /\ IsMark(k)
                           /\ k[1] > Starts[r.term].index /\ k[1] <= r.lastLogIndex
<1>1. GoodStarts(Starts)
  BY StartsGood
<1>2. \A r \in Acks : /\ r.term \in Nat /\ r.lastLogIndex \in Nat
                      /\ Starts[r.term].index \in Nat
  <2> SUFFICES ASSUME NEW r \in Acks
               PROVE  /\ r.term \in Nat /\ r.lastLogIndex \in Nat
                      /\ Starts[r.term].index \in Nat
    OBVIOUS
  <2>1. <<r.term, r.dst>> \in elected
    BY DEF Known, LeaderInv, SentByElected
  <2>2. r.term \in DOMAIN Starts
    BY <2>1 DEF Starts, ElectedTerms
  <2> QED BY <1>1, <2>2, AckFields DEF GoodStarts, Known
<1>3. ASSUME k \in Acked(q)
      PROVE  \E r \in Acks : /\ r.src = q /\ r.term = k[2] /\ IsMark(k)
                             /\ k[1] > Starts[r.term].index /\ k[1] <= r.lastLogIndex
  <2>1. PICK r \in Acks : r.src = q /\ k \in {<<j, r.term>> : j \in Starts[r.term].index + 1 .. r.lastLogIndex}
    BY <1>3 DEF Acked
  <2>2. PICK j \in Starts[r.term].index + 1 .. r.lastLogIndex : k = <<j, r.term>>
    BY <2>1
  <2>3. j \in Nat /\ j > Starts[r.term].index /\ j <= r.lastLogIndex
    BY <1>2, <2>2
  <2> QED BY <1>2, <2>1, <2>2, <2>3 DEF IsMark
<1>4. ASSUME NEW r \in Acks, r.src = q, r.term = k[2], IsMark(k),
             k[1] > Starts[r.term].index, k[1] <= r.lastLogIndex
      PROVE  k \in Acked(q)
  <2>1. k[1] \in Starts[r.term].index + 1 .. r.lastLogIndex
    BY <1>2, <1>4 DEF IsMark
  <2>2. k \in {<<j, r.term>> : j \in Starts[r.term].index + 1 .. r.lastLogIndex}
    BY <1>4, <2>1 DEF IsMark
  <2> QED BY <1>4, <2>2 DEF Acked
<1> QED BY <1>3, <1>4

LEMMA EvidenceMark ==
  ASSUME Known, MarksOK, NEW q \in Node, NEW k \in Evidence(q)
  PROVE  /\ IsMark(k) /\ MarkOK(Starts, k[1], k[2])
         /\ k[2] \in DOMAIN Starts /\ k[1] > Starts[k[2]].index /\ k[2] > 0
<1>1. GoodStarts(Starts)
  BY StartsGood
<1>2. IsMark(k) /\ k[2] \in DOMAIN Starts /\ k[1] > Starts[k[2]].index
  <2>1. CASE k \in Acked(q)
    <3>1. PICK r \in Acks : /\ r.src = q /\ r.term = k[2] /\ IsMark(k)
                            /\ k[1] > Starts[r.term].index /\ k[1] <= r.lastLogIndex
      BY <2>1, AckedMark
    <3>2. <<r.term, r.dst>> \in elected
      BY DEF Known, LeaderInv, SentByElected
    <3>3. r.term \in DOMAIN Starts
      BY <3>2 DEF Starts, ElectedTerms
    <3> QED BY <3>1, <3>3
  <2>2. CASE k \in Own(q)
    <3>1. k \in MarksBut(q) /\ <<k[2], q>> \in elected
      BY <2>2 DEF Own
    <3>2. IsMark(k)
      BY <3>1, MarksType DEF Known, IsMark
    <3>3. k[2] \in DOMAIN Starts
      BY <3>1 DEF Starts, ElectedTerms
    <3>4. MarkOK(Starts, k[1], k[2])
      BY <3>1 DEF MarksOK, AllMarks
    <3>5. k[2] # 0
      BY <1>1, <3>3 DEF GoodStarts
    <3> QED BY <3>2, <3>3, <3>4, <3>5 DEF MarkOK
  <2> QED BY <2>1, <2>2 DEF Evidence
<1> QED BY <1>1, <1>2 DEF MarkOK, GoodStarts

(* A mark that was on a majority in its own term is in the log of every    *)
(* later leader: the first leader without it would have a voter who had it.*)
LEMMA MajorityIsSafe ==
  ASSUME Known, MarksOK, VotesGood, NEW k,
         Cardinality({q \in Node : k \in Evidence(q)}) >= Majority
  PROVE  Safe(Starts, k[1], k[2])
<1> DEFINE G == {d \in Nat : d \in DOMAIN Starts /\ k[2] < d =>
                   Past(Starts[d].index, Starts[d].term, k[1], k[2])}
<1>1. ASSUME NEW d \in Nat, \A z \in Nat : z < d => z \in G
      PROVE  d \in G
  <2> SUFFICES ASSUME d \in DOMAIN Starts, k[2] < d,
                      ~Past(Starts[d].index, Starts[d].term, k[1], k[2])
               PROVE  FALSE
    OBVIOUS
  <2>1. d \in ElectedTerms
    BY DEF Starts
  <2>2. PICK n \in Node : \E m \in RequestsOf(d, n) :
           /\ <<d, n>> \in elected
           /\ Starts[d] = [index |-> m.lastLogIndex, term |-> m.lastLogTerm]
    BY <2>1, ElectedRequest
  <2>3. PICK m \in RequestsOf(d, n) :
           /\ <<d, n>> \in elected
           /\ Starts[d] = [index |-> m.lastLogIndex, term |-> m.lastLogTerm]
    BY <2>2
  <2>4. Cardinality(GoodVoters(<<d, n>>)) >= Majority
    BY <2>3 DEF VotesGood
  <2>5. PICK q \in GoodVoters(<<d, n>>) : q \in {p \in Node : k \in Evidence(p)}
    <3>1. GoodVoters(<<d, n>>) \subseteq Node
      BY DEF GoodVoters, VotersOf
    <3>2. {p \in Node : k \in Evidence(p)} \subseteq Node
      OBVIOUS
    <3> HIDE DEF G
    <3> QED BY <2>4, <3>1, <3>2, QuorumsMeet
  <2>6. VoteGood(q, d, n) /\ q \in Node /\ k \in Evidence(q)
    BY <2>5 DEF GoodVoters
  <2>7. ~Past(m.lastLogIndex, m.lastLogTerm, k[1], k[2])
    BY <2>3
  <2>8. ~NoBad(Starts, k[1], k[2], d - 1)
    BY <2>3, <2>6, <2>7 DEF VoteGood
  <2>9. PICK x \in DOMAIN Starts : k[2] < x /\ x <= d - 1 /\ ~Past(Starts[x].index, Starts[x].term, k[1], k[2])
    BY <2>8 DEF NoBad
  <2>10. x \in Nat
    BY <2>9, StartsGood DEF GoodStarts
  <2>11. x \in G
    BY <1>1, <2>9, <2>10
  <2> QED BY <2>9, <2>11
<1>2. \A d \in Nat : d \in G
  <2> HIDE DEF G
  <2> QED BY <1>1, EveryTerm
<1>3. \A d \in DOMAIN Starts : d \in Nat
  BY StartsGood DEF GoodStarts
<1> QED BY <1>2, <1>3 DEF Safe

LEMMA MajorityNotEmpty ==
  ASSUME NEW P, P \subseteq Node, Cardinality(P) >= Majority
  PROVE  P # {}
<1>1. Cardinality({}) = 0 /\ Cardinality(Node) \in Nat
  BY NodeAssumption, FS_EmptySet, FS_CardinalityType
<1>2. Majority \in Nat /\ Majority > 0
  BY <1>1 DEF Majority
<1> QED BY <1>1, <1>2

LEMMA SafeMeansNoBad ==
  ASSUME NEW S, NEW k, NEW c, Safe(S, k, c)
  PROVE  \A term : NoBad(S, k, c, term)
BY DEF Safe, NoBad

LEMMA ChosenFacts ==
  ASSUME Known, MarksOK, VotesGood, DecidedOK, NEW k, Chosen(k)
  PROVE  /\ IsMark(k) /\ k[1] >= 1 /\ k[2] > 0 /\ MarkOK(Starts, k[1], k[2])
         /\ k[2] \in DOMAIN Starts
         /\ Safe(Starts, k[1], k[2]) /\ \A term : NoBad(Starts, k[1], k[2], term)
         /\ \E e \in decided : EntryMark(e) = k
         /\ k[1] \in DOMAIN DecidedTerms /\ DecidedTerms[k[1]] = k[2]
<1>1. PICK e \in decided : EntryMark(e) = k
  BY DEF Chosen
<1>2. {q \in Node : k \in Evidence(q)} # {}
  <2>1. {q \in Node : k \in Evidence(q)} \subseteq Node
    OBVIOUS
  <2> QED BY <2>1, MajorityNotEmpty DEF Chosen
<1>3. PICK q \in Node : k \in Evidence(q)
  BY <1>2
<1>4. IsMark(k) /\ MarkOK(Starts, k[1], k[2]) /\ k[2] \in DOMAIN Starts /\ k[2] > 0
  BY <1>3, EvidenceMark
<1>5. Safe(Starts, k[1], k[2])
  BY MajorityIsSafe DEF Chosen
<1>6. \A term : NoBad(Starts, k[1], k[2], term)
  BY <1>5, SafeMeansNoBad
<1>7. /\ e.index >= 1 /\ e.index \in DOMAIN DecidedTerms /\ DecidedTerms[e.index] = e.term
  BY DecidedLine DEF Known
<1>8. k[1] = e.index /\ k[2] = e.term
  BY <1>1 DEF EntryMark
<1> QED BY <1>1, <1>4, <1>5, <1>6, <1>7, <1>8

(* A line that ends past a chosen mark has it.                             *)
LEMMA LineHasChosen ==
  ASSUME Known, MarksOK, VotesGood, DecidedOK, NEW k, Chosen(k),
         NEW f, IsLine(f), Rooted(Starts, f), NEW i \in DOMAIN f, Past(i, f[i], k[1], k[2])
  PROVE  /\ i \in Nat /\ i >= k[1]
         /\ k[1] \in DOMAIN f => f[k[1]] = k[2]
         /\ \A j \in DOMAIN f : k[1] <= j /\ j <= i => f[j] >= k[2]
<1>1. k[1] \in Nat /\ k[2] \in Nat /\ MarkOK(Starts, k[1], k[2]) /\ NoBad(Starts, k[1], k[2], f[i])
  BY ChosenFacts DEF IsMark
<1>2. GoodStarts(Starts)
  BY StartsGood
<1>3. i \in Nat
  BY DEF IsLine
<1> QED BY <1>1, <1>2, <1>3, LineHas

(* And agrees with what is decided up to there.                            *)
LEMMA LineIsDecided ==
  ASSUME Known, MarksOK, VotesGood, DecidedOK, Rooted(Starts, DecidedTerms), NEW k, Chosen(k),
         NEW f, IsLine(f), Rooted(Starts, f), k[1] \in DOMAIN f, f[k[1]] = k[2],
         NEW j \in DOMAIN f, j <= k[1], j >= 1
  PROVE  j \in DOMAIN DecidedTerms /\ f[j] = DecidedTerms[j]
<1>1. /\ k[1] \in Nat /\ k[1] \in DOMAIN DecidedTerms /\ DecidedTerms[k[1]] = k[2]
  BY ChosenFacts DEF IsMark
<1>2. GoodStarts(Starts)
  BY StartsGood
<1>3. IsLine(DecidedTerms) /\ j \in Nat
  BY DecidedLine DEF Known, IsLine
<1>4. j \in DOMAIN DecidedTerms
  BY <1>1, <1>3, DecidedLine DEF Known
<1> QED BY <1>1, <1>2, <1>3, <1>4, LinesMatch

(* A held entry of a decided index and term is the decided entry.          *)
LEMMA HeldIsDecided ==
  ASSUME Known, DecidedOK, NEW s \in HardState, LogOK(s), HeldEntries(s) \subseteq Entries,
         NEW j \in Held(s), j \in DOMAIN DecidedTerms, Terms(s)[j] = DecidedTerms[j]
  PROVE  EntryAt(s, j) \in decided /\ EntryAt(s, j).index = j
<1>1. PICK e \in decided : e.index = j
  BY DecidedLine DEF Known
<1>2. DecidedTerms[j] = e.term
  BY <1>1, DecidedLine DEF Known
<1>3. EntryAt(s, j) \in Entries /\ e \in Entries
  BY HeldEntry DEF Entries
<1>4. EntryAt(s, j).index = j
  BY EntryIndex
<1>5. EntryAt(s, j).term = e.term
  BY <1>2, TermsLine
<1>6. EntryAt(s, j) = e
  BY <1>1, <1>3, <1>4, <1>5 DEF Known, LogInv, EntryUnique, EntryMark
<1> QED BY <1>4, <1>6
==============================================================================
