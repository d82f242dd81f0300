------------------------- MODULE RaftElectionProofs --------------------------
(***************************************************************************)
(* The types and the elections of RaftCluster, for every number of nodes,  *)
(* terms, crashes and failed writes.  First what the functions of          *)
(* RaftState return, and the type invariant; then the terms and votes on   *)
(* the disks and in memory, which no step turns back; then the votes       *)
(* themselves; then who leads, what is sent in a term, and what a leader   *)
(* does to its log.                                                        *)
(***************************************************************************)
EXTENDS RaftInvariants, SequenceTheorems, FiniteSetTheorems, TLAPS

(* A log is never empty, so the last index is at least the snapshot's.     *)
LEMMA HardStateFields ==
  ASSUME NEW s \in HardState
  PROVE  /\ s.log \in Seq(LogEntry) /\ s.log # <<>>
         /\ Len(s.log) \in Nat /\ Len(s.log) >= 1
         /\ \A k \in 1 .. Len(s.log) : s.log[k] \in LogEntry
         /\ s.lastIncludedIndex \in Nat /\ s.lastIncludedTerm \in Nat
         /\ s.currentTerm \in Nat /\ s.votedFor \in Node \cup {Nil}
         /\ LastLogIndex(s) \in Nat /\ LastLogIndex(s) >= s.lastIncludedIndex
<1>1. /\ s.log \in Seq(LogEntry) /\ s.log # <<>>
      /\ s.lastIncludedIndex \in Nat /\ s.lastIncludedTerm \in Nat
      /\ s.currentTerm \in Nat /\ s.votedFor \in Node \cup {Nil}
  BY DEF HardState
<1>2. Len(s.log) \in Nat /\ Len(s.log) >= 1
  BY <1>1, LenProperties, EmptySeq
<1>3. \A k \in 1 .. Len(s.log) : s.log[k] \in LogEntry
  BY <1>1, ElementOfSeq
<1> QED BY <1>1, <1>2, <1>3 DEF LastLogIndex

(* EXCEPT on the fields of a HardState. *)
LEMMA HardStateUpdates ==
  ASSUME NEW s \in HardState
  PROVE  /\ \A t \in Nat, v \in Node \cup {Nil} :
              [s EXCEPT !.currentTerm = t, !.votedFor = v] \in HardState
         /\ \A v \in Node \cup {Nil} : [s EXCEPT !.votedFor = v] \in HardState
         /\ \A log \in Seq(LogEntry) \ {<<>>} : [s EXCEPT !.log = log] \in HardState
         /\ \A log \in Seq(LogEntry) \ {<<>>}, i \in Nat, t \in Nat :
              [s EXCEPT !.log = log, !.lastIncludedIndex = i, !.lastIncludedTerm = t]
                \in HardState
BY DEF HardState

LEMMA PlaceholderType ==
  ASSUME NEW i \in Nat, NEW t \in Nat
  PROVE  Placeholder(i, t) \in LogEntry
BY DEF Placeholder, LogEntry, Command

LEMMA FreshStateType == FreshState \in HardState
<1>1. <<Placeholder(0, 0)>> \in Seq(LogEntry) \ {<<>>}
  BY PlaceholderType
<1> QED BY <1>1 DEF FreshState, HardState

(* Elements of a part of a log are log entries. *)
LEMMA EntriesBetweenType ==
  ASSUME NEW s \in HardState, NEW from \in Nat, NEW to \in Nat,
         from >= s.lastIncludedIndex, to <= LastLogIndex(s)
  PROVE  EntriesBetween(s, from, to) \in Seq(LogEntry)
<1> DEFINE m == from - s.lastIncludedIndex + 1
           n == to - s.lastIncludedIndex + 1
<1>1. /\ s.log \in Seq(LogEntry) /\ s.lastIncludedIndex \in Nat /\ Len(s.log) \in Nat
      /\ \A k \in 1 .. Len(s.log) : s.log[k] \in LogEntry
  BY HardStateFields
<1>2. m \in Int /\ n \in Int /\ m >= 1 /\ n <= Len(s.log)
  BY <1>1 DEF LastLogIndex
<1> HIDE DEF m, n
<1>3. \A i \in m .. n : s.log[i] \in LogEntry
  BY <1>1, <1>2
<1>4. SubSeq(s.log, m, n) \in Seq(LogEntry)
  BY <1>1, <1>2, <1>3, SubSeqProperties
<1> QED BY <1>4 DEF EntriesBetween, m, n

LEMMA EntryAtType ==
  ASSUME NEW s \in HardState, NEW i \in Nat, InMemory(s, i)
  PROVE  EntryAt(s, i) \in LogEntry
<1>1. i - s.lastIncludedIndex + 1 \in 1 .. Len(s.log)
  BY HardStateFields DEF InMemory, LastLogIndex
<1> QED BY <1>1, HardStateFields DEF EntryAt

LEMMA GetLogTermType ==
  ASSUME NEW s \in HardState, NEW i \in Nat
  PROVE  GetLogTerm(s, i) \in Nat
BY HardStateFields, EntryAtType DEF GetLogTerm, LogEntry

LEMMA LastLogTermType ==
  ASSUME NEW s \in HardState
  PROVE  LastLogTerm(s) \in Nat
BY HardStateFields DEF LastLogTerm, LogEntry

------------------------------------------------------------------------------
(* Terms and votes.                                                        *)

LEMMA UpdateTermType ==
  ASSUME NEW s \in HardState, NEW term \in Nat
  PROVE  UpdateTerm(s, term) \in HardState
BY HardStateUpdates DEF UpdateTerm

(* update_term raises the term and forgets the vote, or does nothing.      *)
LEMMA UpdateTermFields ==
  ASSUME NEW s \in HardState, NEW term \in Nat
  PROVE  /\ term > s.currentTerm => /\ UpdateTerm(s, term).currentTerm = term
                                    /\ UpdateTerm(s, term).votedFor = Nil
         /\ ~(term > s.currentTerm) => UpdateTerm(s, term) = s
         /\ UpdateTerm(s, term).log = s.log
         /\ UpdateTerm(s, term).lastIncludedIndex = s.lastIncludedIndex
         /\ UpdateTerm(s, term).lastIncludedTerm = s.lastIncludedTerm
BY DEF UpdateTerm, HardState

LEMMA IncrementTermType ==
  ASSUME NEW s \in HardState, NEW self \in Node
  PROVE  /\ IncrementTerm(s, self) \in HardState
         /\ IncrementTerm(s, self).currentTerm = s.currentTerm + 1
         /\ IncrementTerm(s, self).votedFor = self
<1> DEFINE next == s.currentTerm + 1
<1>1. next \in Nat /\ self \in Node \cup {Nil}
  BY DEF HardState
<1>2. IncrementTerm(s, self) = [s EXCEPT !.currentTerm = next, !.votedFor = self]
  BY DEF IncrementTerm
<1> HIDE DEF next
<1>3. IncrementTerm(s, self) \in HardState
  BY <1>1, <1>2 DEF HardState
<1>4. DOMAIN s = {"currentTerm", "votedFor", "log", "lastIncludedIndex", "lastIncludedTerm"}
  BY DEF HardState
<1>5. IncrementTerm(s, self).currentTerm = next /\ IncrementTerm(s, self).votedFor = self
  BY <1>2, <1>4
<1> QED BY <1>3, <1>5 DEF next

LEMMA PushEntryType ==
  ASSUME NEW s \in HardState, NEW c \in Command
  PROVE  /\ PushEntry(s, c) \in HardState
         /\ PushEntry(s, c).currentTerm = s.currentTerm
         /\ PushEntry(s, c).votedFor = s.votedFor
<1> DEFINE e == [term |-> s.currentTerm, index |-> LastLogIndex(s) + 1, command |-> c]
<1>1. e \in LogEntry
  BY HardStateFields DEF LogEntry
<1> HIDE DEF e
<1>2. Append(s.log, e) \in Seq(LogEntry) /\ Append(s.log, e) # <<>>
  BY <1>1, HardStateFields, AppendProperties
<1>3. PushEntry(s, c) = [s EXCEPT !.log = Append(s.log, e)]
  BY DEF PushEntry, e
<1> QED BY <1>2, <1>3 DEF HardState

------------------------------------------------------------------------------
(* The merge of append_entries.                                            *)

LEMMA MergeEntriesType ==
  ASSUME NEW s \in HardState, NEW p \in Nat, NEW entries \in Seq(LogEntry),
         InMemory(s, p)
  PROVE  MergeEntries(s, p, entries) \in Seq(LogEntry) \ {<<>>}
<1> DEFINE base == p - s.lastIncludedIndex + 1
           total == base + Len(entries)
           Conflict(i) == /\ i \in base + 1 .. base + Len(entries)
                          /\ i <= Len(s.log)
                          /\ s.log[i].term # entries[i - base].term
           replaced(i) == i > Len(s.log) \/ \E j \in base + 1 .. i : Conflict(j)
           length == IF replaced(base + Len(entries)) THEN total ELSE Len(s.log)
           merged == [i \in 1 .. length |-> IF replaced(i) THEN entries[i - base] ELSE s.log[i]]
<1>1. /\ Len(s.log) \in Nat /\ Len(s.log) >= 1
      /\ \A k \in 1 .. Len(s.log) : s.log[k] \in LogEntry
      /\ s.lastIncludedIndex \in Nat
  BY HardStateFields
<1>2. /\ Len(entries) \in Nat
      /\ \A k \in 1 .. Len(entries) : entries[k] \in LogEntry
  BY LenProperties, ElementOfSeq
<1>3. base \in Nat /\ base >= 1 /\ base <= Len(s.log)
  BY <1>1 DEF InMemory, LastLogIndex
<1>4. length \in Nat /\ length >= 1
  BY <1>1, <1>2, <1>3
<1>5. ASSUME NEW i \in 1 .. length
      PROVE  merged[i] \in LogEntry
  <2>1. CASE replaced(i)
    <3>1. i > base
      BY <2>1, <1>1, <1>3, <1>4, SMTT(30)
    <3>2. i <= total
      <4>1. CASE replaced(base + Len(entries))
        BY <4>1
      <4>2. CASE ~replaced(base + Len(entries))
        <5>1. i <= Len(s.log)
          BY <4>2, <1>4
        <5>2. PICK j \in base + 1 .. i : Conflict(j)
          BY <2>1, <5>1, <1>1
        <5>3. j > base + Len(entries)
          BY <4>2, <5>2, <1>2, <1>3
        <5> QED BY <5>2, <5>3, <1>2, <1>3
      <4> QED BY <4>1, <4>2
    <3>3. i - base \in 1 .. Len(entries)
      BY <3>1, <3>2, <1>2, <1>3, <1>4, SMTT(30)
    <3> QED BY <2>1, <3>3, <1>2
  <2>2. CASE ~replaced(i)
    BY <2>2, <1>1, <1>4
  <2> QED BY <2>1, <2>2
<1> HIDE DEF length, replaced
<1>6. merged \in [1 .. length -> LogEntry]
  BY <1>5
<1>7. merged \in Seq(LogEntry) /\ Len(merged) = length
  BY <1>4, <1>6, SeqDef, LenProperties
<1>8. merged # <<>>
  BY <1>4, <1>7, EmptySeq
<1>9. MergeEntries(s, p, entries) = merged
  BY DEF MergeEntries, length, replaced
<1> QED BY <1>7, <1>8, <1>9

LEMMA WithEntriesType ==
  ASSUME NEW s \in HardState, NEW p \in Nat, NEW entries \in Seq(LogEntry),
         InMemory(s, p)
  PROVE  /\ WithEntries(s, p, entries) \in HardState
         /\ WithEntries(s, p, entries).currentTerm = s.currentTerm
         /\ WithEntries(s, p, entries).votedFor = s.votedFor
<1>1. MergeEntries(s, p, entries) \in Seq(LogEntry) \ {<<>>}
  BY MergeEntriesType
<1> QED BY <1>1 DEF WithEntries, HardState

------------------------------------------------------------------------------
(* Compaction.                                                             *)

LEMMA StartAtType ==
  ASSUME NEW s \in HardState, NEW i \in Nat, NEW t \in Nat, NEW suffix \in Seq(LogEntry)
  PROVE  /\ StartAt(s, i, t, suffix) \in HardState
         /\ StartAt(s, i, t, suffix).currentTerm = s.currentTerm
         /\ StartAt(s, i, t, suffix).votedFor = s.votedFor
         /\ StartAt(s, i, t, suffix).lastIncludedIndex = i
         /\ StartAt(s, i, t, suffix).lastIncludedTerm = t
<1>1. <<Placeholder(i, t)>> \in Seq(LogEntry)
  BY PlaceholderType
<1>2. <<Placeholder(i, t)>> \o suffix \in Seq(LogEntry)
  BY <1>1, ConcatProperties
<1>3. <<Placeholder(i, t)>> \o suffix # <<>>
  BY <1>1, ConcatProperties, LenProperties, EmptySeq
<1> QED BY <1>2, <1>3 DEF StartAt, HardState

(* The entries of s from an index above its snapshot to its last.          *)
LEMMA EntriesFrom ==
  ASSUME NEW s \in HardState, NEW j \in Nat, j > s.lastIncludedIndex
  PROVE  LET e == EntriesBetween(s, j, LastLogIndex(s))
         IN  /\ e \in Seq(LogEntry) /\ Len(e) \in Nat
             /\ Len(e) = IF j <= LastLogIndex(s) THEN LastLogIndex(s) - j + 1 ELSE 0
             /\ \A k \in 1 .. Len(e) : e[k] = EntryAt(s, j + k - 1)
<1> DEFINE first == j - s.lastIncludedIndex + 1
           e == EntriesBetween(s, j, LastLogIndex(s))
<1>1. /\ Len(s.log) \in Nat /\ Len(s.log) >= 1
      /\ s.lastIncludedIndex \in Nat /\ LastLogIndex(s) = s.lastIncludedIndex + Len(s.log) - 1
      /\ \A k \in 1 .. Len(s.log) : s.log[k] \in LogEntry
  BY HardStateFields DEF LastLogIndex
<1>2. LastLogIndex(s) - s.lastIncludedIndex + 1 = Len(s.log)
  BY <1>1
<1>3. e = SubSeq(s.log, first, Len(s.log))
  BY <1>2 DEF EntriesBetween
<1>4. first \in Nat /\ first >= 2
  BY <1>1
<1>5. \A k \in Int : (j + k - 1) - s.lastIncludedIndex + 1 = first + k - 1
  BY <1>1
<1>6. first <= Len(s.log) <=> j <= LastLogIndex(s)
  BY <1>1
<1>7. first <= Len(s.log) => Len(s.log) - first + 1 = LastLogIndex(s) - j + 1
  BY <1>1
<1> HIDE DEF first, e
<1>8. \A k \in first .. Len(s.log) : s.log[k] \in LogEntry
  BY <1>1, <1>4
<1>9. /\ e \in Seq(LogEntry)
      /\ Len(e) = IF first <= Len(s.log) THEN Len(s.log) - first + 1 ELSE 0
      /\ \A k \in 1 .. Len(s.log) - first + 1 : e[k] = s.log[first + k - 1]
  BY <1>1, <1>3, <1>4, <1>8, SubSeqProperties, SMTT(30)
<1>10. Len(e) \in Nat
  BY <1>9, LenProperties
<1>11. ASSUME NEW k \in 1 .. Len(e)
       PROVE  e[k] = EntryAt(s, j + k - 1)
  <2>1. k \in 1 .. Len(s.log) - first + 1
    BY <1>1, <1>4, <1>9
  <2>2. (j + k - 1) - s.lastIncludedIndex + 1 = first + k - 1
    <3>1. k \in Int
      BY <1>10
    <3> QED BY <1>5, <3>1
  <2>3. e[k] = s.log[first + k - 1]
    BY <1>9, <2>1
  <2> QED BY <2>2, <2>3 DEF EntryAt
<1> QED BY <1>6, <1>7, <1>9, <1>10, <1>11 DEF e

(* Where StartAt puts a suffix.                                            *)
LEMMA StartAtLog ==
  ASSUME NEW s \in HardState, NEW i \in Nat, NEW t \in Nat, NEW suffix \in Seq(LogEntry)
  PROVE  LET a == StartAt(s, i, t, suffix)
         IN  /\ Len(a.log) = 1 + Len(suffix) /\ LastLogIndex(a) = i + Len(suffix)
             /\ a.log[1] = Placeholder(i, t)
             /\ \A k \in 1 .. Len(suffix) : a.log[1 + k] = suffix[k]
             /\ \A k \in 1 .. Len(suffix) : EntryAt(a, i + k) = suffix[k]
<1> DEFINE a == StartAt(s, i, t, suffix)
<1>1. a.log = <<Placeholder(i, t)>> \o suffix /\ a.lastIncludedIndex = i
  BY DEF StartAt, HardState
<1>2. <<Placeholder(i, t)>> \in Seq(LogEntry) /\ Len(<<Placeholder(i, t)>>) = 1
      /\ <<Placeholder(i, t)>>[1] = Placeholder(i, t)
  BY PlaceholderType
<1>3. Len(suffix) \in Nat
  BY LenProperties
<1> HIDE DEF a
<1>4. /\ Len(a.log) = 1 + Len(suffix)
      /\ \A k \in 1 .. 1 + Len(suffix) :
           a.log[k] = IF k <= 1 THEN <<Placeholder(i, t)>>[k] ELSE suffix[k - 1]
  BY <1>1, <1>2, ConcatProperties
<1>5. a.log[1] = Placeholder(i, t)
  BY <1>2, <1>3, <1>4
<1>6. ASSUME NEW k \in 1 .. Len(suffix)
      PROVE  a.log[1 + k] = suffix[k]
  <2>1. 1 + k \in 1 .. 1 + Len(suffix) /\ ~(1 + k <= 1) /\ (1 + k) - 1 = k
    BY <1>3
  <2> QED BY <1>4, <2>1
<1>7. LastLogIndex(a) = i + Len(suffix)
  BY <1>1, <1>3, <1>4 DEF LastLogIndex
<1>8. ASSUME NEW k \in 1 .. Len(suffix)
      PROVE  EntryAt(a, i + k) = suffix[k]
  <2>1. i + k - i + 1 = 1 + k
    BY <1>3
  <2> QED BY <1>1, <1>6, <2>1 DEF EntryAt
<1> QED BY <1>4, <1>5, <1>6, <1>7, <1>8 DEF a

(* Compaction keeps the entries above its index where they are.            *)
LEMMA CompactedFields ==
  ASSUME NEW s \in HardState, NEW i \in Nat, i >= s.lastIncludedIndex, NEW t \in Nat
  PROVE  LET c == StartAt(s, i, t, EntriesBetween(s, i + 1, LastLogIndex(s)))
         IN  /\ c \in HardState
             /\ c.lastIncludedIndex = i /\ c.lastIncludedTerm = t
             /\ c.currentTerm = s.currentTerm /\ c.votedFor = s.votedFor
             /\ c.log[1] = Placeholder(i, t)
             /\ LastLogIndex(c) = IF i <= LastLogIndex(s) THEN LastLogIndex(s) ELSE i
             /\ \A j \in i + 1 .. LastLogIndex(c) : EntryAt(c, j) = EntryAt(s, j)
<1> DEFINE suffix == EntriesBetween(s, i + 1, LastLogIndex(s))
           c == StartAt(s, i, t, suffix)
<1>1. s.lastIncludedIndex \in Nat /\ LastLogIndex(s) \in Nat
  BY HardStateFields
<1>2. i + 1 \in Nat /\ i + 1 > s.lastIncludedIndex
  BY <1>1
<1>3. /\ suffix \in Seq(LogEntry) /\ Len(suffix) \in Nat
      /\ Len(suffix) = IF i + 1 <= LastLogIndex(s) THEN LastLogIndex(s) - (i + 1) + 1 ELSE 0
      /\ \A k \in 1 .. Len(suffix) : suffix[k] = EntryAt(s, (i + 1) + k - 1)
  BY <1>2, EntriesFrom
<1> HIDE DEF suffix, c
<1>0. c = StartAt(s, i, t, suffix)
  BY DEF c
<1>4. /\ c \in HardState /\ c.lastIncludedIndex = i /\ c.lastIncludedTerm = t
      /\ c.currentTerm = s.currentTerm /\ c.votedFor = s.votedFor
  <2>1. suffix \in Seq(LogEntry)
    BY <1>3
  <2>2. StartAt(s, i, t, suffix) \in HardState
    BY <2>1, StartAtType
  <2>3. StartAt(s, i, t, suffix).lastIncludedIndex = i
    BY <2>1, StartAtType
  <2>4. StartAt(s, i, t, suffix).votedFor = s.votedFor
    BY <2>1, StartAtType
  <2>5. StartAt(s, i, t, suffix).currentTerm = s.currentTerm
    BY <2>1, StartAtType
  <2>6. StartAt(s, i, t, suffix).lastIncludedTerm = t
    BY <2>1, StartAtType
  <2> QED BY <1>0, <2>2, <2>3, <2>4, <2>5, <2>6
<1>5. /\ LastLogIndex(c) = i + Len(suffix) /\ c.log[1] = Placeholder(i, t)
      /\ \A k \in 1 .. Len(suffix) : EntryAt(c, i + k) = suffix[k]
  <2>1. suffix \in Seq(LogEntry)
    BY <1>3
  <2>2. LastLogIndex(StartAt(s, i, t, suffix)) = i + Len(suffix)
    BY <2>1, StartAtLog, ZenonT(60)
  <2>3. StartAt(s, i, t, suffix).log[1] = Placeholder(i, t)
    BY <2>1, StartAtLog
  <2>4. \A k \in 1 .. Len(suffix) : EntryAt(StartAt(s, i, t, suffix), i + k) = suffix[k]
    BY <2>1, StartAtLog
  <2> QED BY <1>0, <2>2, <2>3, <2>4
<1>6. LastLogIndex(c) = IF i <= LastLogIndex(s) THEN LastLogIndex(s) ELSE i
  <2>1. LastLogIndex(c) = i + Len(suffix)
    BY <1>5
  <2>2. PICK n, l : n = Len(suffix) /\ l = LastLogIndex(s)
    OBVIOUS
  <2>3. n \in Nat /\ l \in Nat /\ n = IF i + 1 <= l THEN l - (i + 1) + 1 ELSE 0
    BY <1>1, <1>3, <2>2
  <2>4. i + n = IF i <= l THEN l ELSE i
    BY <2>3
  <2> QED BY <2>1, <2>2, <2>4
<1>7. ASSUME NEW j \in i + 1 .. LastLogIndex(c)
      PROVE  EntryAt(c, j) = EntryAt(s, j)
  <2>1. j - i \in 1 .. Len(suffix) /\ i + (j - i) = j /\ (i + 1) + (j - i) - 1 = j
    BY <1>3, <1>5
  <2> QED BY <1>3, <1>5, <2>1
<1> QED BY <1>4, <1>5, <1>6, <1>7 DEF c, suffix

(* The entry of a request comes after the last one.                        *)
LEMMA PushedFields ==
  ASSUME NEW s \in HardState, NEW c \in Command
  PROVE  LET e == [term |-> s.currentTerm, index |-> LastLogIndex(s) + 1, command |-> c]
             p == PushEntry(s, c)
         IN  /\ e \in LogEntry
             /\ p \in HardState /\ p.lastIncludedIndex = s.lastIncludedIndex
             /\ p.lastIncludedTerm = s.lastIncludedTerm
             /\ Len(p.log) = Len(s.log) + 1 /\ LastLogIndex(p) = LastLogIndex(s) + 1
             /\ \A k \in 1 .. Len(s.log) : p.log[k] = s.log[k]
             /\ p.log[Len(p.log)] = e
             /\ EntryAt(p, LastLogIndex(p)) = e
             /\ \A i \in s.lastIncludedIndex .. LastLogIndex(s) : EntryAt(p, i) = EntryAt(s, i)
<1> DEFINE e == [term |-> s.currentTerm, index |-> LastLogIndex(s) + 1, command |-> c]
           p == PushEntry(s, c)
<1>1. e \in LogEntry
  BY HardStateFields DEF LogEntry
<1>2. p.log = Append(s.log, e) /\ p.lastIncludedIndex = s.lastIncludedIndex
      /\ p.lastIncludedTerm = s.lastIncludedTerm
  BY DEF PushEntry, HardState
<1>3. p \in HardState
  BY PushEntryType
<1> HIDE DEF e, p
<1>4. /\ s.log \in Seq(LogEntry) /\ Len(s.log) \in Nat /\ Len(s.log) >= 1
      /\ s.lastIncludedIndex \in Nat /\ LastLogIndex(s) = s.lastIncludedIndex + Len(s.log) - 1
  BY HardStateFields DEF LastLogIndex
<1>5. /\ Len(p.log) = Len(s.log) + 1
      /\ \A k \in 1 .. Len(s.log) : p.log[k] = s.log[k]
      /\ p.log[Len(s.log) + 1] = e
  BY <1>1, <1>2, <1>4, AppendProperties
<1>6. LastLogIndex(p) = LastLogIndex(s) + 1
  BY <1>2, <1>4, <1>5 DEF LastLogIndex
<1>7. EntryAt(p, LastLogIndex(p)) = e
  <2>1. LastLogIndex(p) - p.lastIncludedIndex + 1 = Len(s.log) + 1
    BY <1>2, <1>4, <1>6
  <2> QED BY <1>5, <2>1 DEF EntryAt
<1>8. ASSUME NEW i \in s.lastIncludedIndex .. LastLogIndex(s)
      PROVE  EntryAt(p, i) = EntryAt(s, i)
  <2>1. i - s.lastIncludedIndex + 1 \in 1 .. Len(s.log)
    BY <1>4
  <2> QED BY <1>2, <1>5, <2>1 DEF EntryAt
<1> QED BY <1>1, <1>2, <1>3, <1>5, <1>6, <1>7, <1>8 DEF e, p

(* A log that has all of the request's entries is left as it is; any other *)
(* ends where the request ends, with the request's terms.                  *)
LEMMA MergedLog ==
  ASSUME NEW s \in HardState, NEW prev \in Nat, NEW entries \in Seq(LogEntry),
         InMemory(s, prev)
  PROVE  LET w == WithEntries(s, prev, entries)
             base == prev - s.lastIncludedIndex + 1
             held == \A k \in 1 .. Len(entries) :
                       base + k <= Len(s.log) /\ s.log[base + k].term = entries[k].term
         IN  /\ held => w = s
             /\ ~held =>
                  /\ Len(w.log) = base + Len(entries)
                  /\ \A i \in 1 .. base : w.log[i] = s.log[i]
                  /\ \A k \in 1 .. Len(entries) :
                       /\ w.log[base + k].term = entries[k].term
                       /\ \/ w.log[base + k] = entries[k]
                          \/ base + k <= Len(s.log) /\ w.log[base + k] = s.log[base + k]
<1> DEFINE w == WithEntries(s, prev, entries)
           base == prev - s.lastIncludedIndex + 1
           total == base + Len(entries)
           held == \A k \in 1 .. Len(entries) :
                     base + k <= Len(s.log) /\ s.log[base + k].term = entries[k].term
           Conflict(i) == /\ i \in base + 1 .. base + Len(entries)
                          /\ i <= Len(s.log)
                          /\ s.log[i].term # entries[i - base].term
           replaced(i) == i > Len(s.log) \/ \E j \in base + 1 .. i : Conflict(j)
           length == IF replaced(base + Len(entries)) THEN total ELSE Len(s.log)
           merged == [i \in 1 .. length |-> IF replaced(i) THEN entries[i - base] ELSE s.log[i]]
<1>1. /\ Len(s.log) \in Nat /\ Len(s.log) >= 1 /\ s.log \in Seq(LogEntry)
      /\ s.lastIncludedIndex \in Nat
  BY HardStateFields
<1>2. Len(entries) \in Nat
  BY LenProperties
<1>3. base \in Nat /\ base >= 1 /\ base <= Len(s.log) /\ total \in Nat
  BY <1>1, <1>2, SMTT(30) DEF InMemory, LastLogIndex
<1>4. merged = MergeEntries(s, prev, entries)
  BY DEF MergeEntries
<1>5. w.log = merged /\ w = [s EXCEPT !.log = merged]
  BY <1>4 DEF WithEntries, HardState
<1>6. ASSUME held
      PROVE  w = s
  <2> HIDE DEF base
  <2>1. \A i \in 1 .. Len(s.log) : ~replaced(i)
    <3> SUFFICES ASSUME NEW i \in 1 .. Len(s.log), NEW j \in base + 1 .. i, Conflict(j)
                 PROVE  FALSE
      BY <1>1
    <3>1. j - base \in 1 .. Len(entries) /\ base + (j - base) = j
      BY <1>2, <1>3
    <3> QED BY <1>6, <3>1
  <2>2. ~replaced(base + Len(entries))
    <3>1. base + Len(entries) <= Len(s.log)
      <4>1. CASE Len(entries) = 0
        BY <1>3, <4>1
      <4>2. CASE Len(entries) # 0
        <5>1. Len(entries) \in 1 .. Len(entries)
          BY <1>2, <4>2
        <5> QED BY <1>6, <5>1
      <4> QED BY <4>1, <4>2
    <3> QED BY <1>2, <1>3, <2>1, <3>1
  <2>3. length = Len(s.log)
    BY <2>2
  <2> HIDE DEF length, replaced
  <2>4. merged = s.log
    <3>1. merged = [i \in 1 .. Len(s.log) |-> s.log[i]]
      BY <2>1, <2>3
    <3>2. s.log = [i \in 1 .. Len(s.log) |-> s.log[i]]
      BY <1>1, LenProperties
    <3> QED BY <3>1, <3>2
  <2> HIDE DEF w, merged
  <2> QED BY <1>5, <2>4 DEF HardState
<1>7. ASSUME ~held
      PROVE  /\ Len(w.log) = base + Len(entries)
             /\ \A i \in 1 .. base : w.log[i] = s.log[i]
             /\ \A k \in 1 .. Len(entries) :
                  /\ w.log[base + k].term = entries[k].term
                  /\ \/ w.log[base + k] = entries[k]
                     \/ base + k <= Len(s.log) /\ w.log[base + k] = s.log[base + k]
  <2>1. PICK k \in 1 .. Len(entries) :
          ~(base + k <= Len(s.log) /\ s.log[base + k].term = entries[k].term)
    BY <1>7
  <2> HIDE DEF base
  <2>2. replaced(base + Len(entries))
    <3>1. CASE base + k > Len(s.log)
      BY <1>1, <1>2, <1>3, <3>1
    <3>2. CASE base + k <= Len(s.log)
      <4>1. (base + k) - base = k /\ base + k \in base + 1 .. base + Len(entries)
        BY <1>2, <1>3
      <4>2. Conflict(base + k)
        BY <2>1, <3>2, <4>1
      <4> QED BY <4>1, <4>2
    <3> QED BY <1>1, <1>3, <3>1, <3>2
  <2>3. length = base + Len(entries)
    BY <2>2
  <2> HIDE DEF length
  <2>4. \A i \in 1 .. base + Len(entries) :
          merged[i] = IF replaced(i) THEN entries[i - base] ELSE s.log[i]
    BY <2>3
  <2>5. DOMAIN merged = 1 .. base + Len(entries)
    BY <2>3
  <2> HIDE DEF replaced
  <2>6. merged \in Seq(LogEntry)
    BY <1>4, MergeEntriesType
  <2> HIDE DEF merged
  <2>7. Len(merged) = base + Len(entries)
    <3>1. Len(merged) \in Nat /\ DOMAIN merged = 1 .. Len(merged)
      BY <2>6, LenProperties
    <3> QED BY <1>2, <1>3, <2>5, <3>1
  <2>8. \A i \in 1 .. base : merged[i] = s.log[i]
    BY <1>1, <1>2, <1>3, <2>4, SMTT(30) DEF replaced
  <2>9. ASSUME NEW h \in 1 .. Len(entries)
        PROVE  /\ merged[base + h].term = entries[h].term
               /\ \/ merged[base + h] = entries[h]
                  \/ base + h <= Len(s.log) /\ merged[base + h] = s.log[base + h]
    <3>1. base + h \in 1 .. base + Len(entries) /\ (base + h) - base = h
          /\ base + h \in base + 1 .. base + h
          /\ base + h \in base + 1 .. base + Len(entries)
      BY <1>2, <1>3
    <3>2. CASE replaced(base + h)
      BY <2>4, <3>1, <3>2
    <3>3. CASE ~replaced(base + h)
      <4>1. base + h <= Len(s.log) /\ ~Conflict(base + h)
        <5>1. ~(base + h > Len(s.log))
          BY <3>3 DEF replaced
        <5>2. base + h <= Len(s.log)
          BY <1>1, <1>2, <1>3, <5>1
        <5> HIDE DEF Conflict
        <5>3. ~Conflict(base + h)
          BY <3>1, <3>3 DEF replaced
        <5> QED BY <5>2, <5>3
      <4>2. s.log[base + h].term = entries[h].term
        BY <3>1, <4>1
      <4> QED BY <2>4, <3>1, <3>3, <4>1, <4>2
    <3> QED BY <3>2, <3>3
  <2> QED BY <1>5, <2>7, <2>8, <2>9
<1> QED BY <1>6, <1>7

------------------------------------------------------------------------------
(* Types of the cluster.                                                   *)

(* A message's kind tells its fields. *)
LEMMA MessageKinds ==
  ASSUME NEW m \in Message
  PROVE  /\ m.type = "RequestVote" => m \in RequestVoteType
         /\ m.type = "RequestVoteReply" => m \in RequestVoteReplyType
         /\ m.type = "AppendEntries" => m \in AppendEntriesType
         /\ m.type = "AppendEntriesResult" => m \in ResultType
         /\ m.type = "InstallSnapshot" => m \in InstallSnapshotType
         /\ m.src \in Node /\ m.term \in Nat
BY DEF Message, RequestVoteType, RequestVoteReplyType, AppendEntriesType, ResultType,
       InstallSnapshotType

------------------------------------------------------------------------------
(* The steps that handlers share.                                          *)

LEMMA WriteType ==
  ASSUME DiskType, ProcessType, NEW n \in Node, NEW s \in HardState, Write(n, s)
  PROVE  hs' \in [Node -> HardState] /\ st' \in [Node -> HardState]
BY DEF Write, DiskType, ProcessType

LEMMA WriteFailsType ==
  ASSUME DiskType, ProcessType, BudgetType, NEW n \in Node,
         NEW s \in HardState, NEW memory \in HardState, WriteFails(n, s, memory)
  PROVE  /\ hs' \in [Node -> HardState] /\ st' \in [Node -> HardState]
         /\ faults' \in Nat
BY DEF WriteFails, DiskType, ProcessType, BudgetType

LEMMA StepDownType ==
  ASSUME ProcessType, NEW n \in Node, StepDown(n)
  PROVE  /\ role' \in [Node -> {"Follower", "Candidate", "Leader"}]
         /\ currentLeader' \in [Node -> Node \cup {Nil}]
BY DEF StepDown, ProcessType

LEMMA FollowType ==
  ASSUME ProcessType, NEW n \in Node, NEW leader \in Node, Follow(n, leader)
  PROVE  /\ role' \in [Node -> {"Follower", "Candidate", "Leader"}]
         /\ currentLeader' \in [Node -> Node \cup {Nil}]
BY DEF Follow, ProcessType

LEMMA ApplyCommittedType ==
  ASSUME ProgressType, NEW n \in Node, NEW s \in HardState, NEW commit \in Nat,
         NEW waiting \in SUBSET LogEntry, ApplyCommitted(n, s, commit, waiting)
  PROVE  ProgressType'
<1> DEFINE from == Larger(lastApplied[n] + 1, s.lastIncludedIndex)
           to == Smaller(commit, LastLogIndex(s))
           served == {p \in waiting : p.index \in from .. to}
<1>1. /\ from \in Nat /\ from >= s.lastIncludedIndex
      /\ to \in Nat /\ to <= LastLogIndex(s)
  BY HardStateFields DEF Larger, Smaller, ProgressType
<1>2. EntriesBetween(s, from, to) \in Seq(LogEntry)
  BY <1>1, EntriesBetweenType
<1>3. \A p \in served : EntryAt(s, p.index) \in LogEntry
  <2>1. \A p \in served : p.index \in Nat /\ InMemory(s, p.index)
    BY <1>1, HardStateFields DEF InMemory, LogEntry
  <2> QED BY <2>1, EntryAtType
<1> HIDE DEF from, to
<1>4. data' \in [Node -> Seq(LogEntry)]
  <2>1. data[n] \o EntriesBetween(s, from, to) \in Seq(LogEntry)
    BY <1>2, ConcatProperties DEF ProgressType
  <2>2. data' = [data EXCEPT ![n] = data[n] \o EntriesBetween(s, from, to)]
    BY DEF ApplyCommitted, from, to
  <2> QED BY <2>1, <2>2 DEF ProgressType
<1>5. answered' \in SUBSET [asked : LogEntry, applied : LogEntry]
  <2>1. answered' = answered \cup {[asked |-> p, applied |-> EntryAt(s, p.index)] : p \in served}
    BY DEF ApplyCommitted, from, to
  <2>2. \A p \in served : [asked |-> p, applied |-> EntryAt(s, p.index)]
                            \in [asked : LogEntry, applied : LogEntry]
    BY <1>3
  <2> QED BY <2>1, <2>2 DEF ProgressType
<1>6. pending' \in [Node -> SUBSET LogEntry]
  <2>1. pending' = [pending EXCEPT ![n] = waiting \ served]
    BY DEF ApplyCommitted, from, to
  <2> QED BY <2>1 DEF ProgressType
<1>7. commitIndex' \in [Node -> Nat] /\ lastApplied' \in [Node -> Nat]
  BY DEF ApplyCommitted, ProgressType, Larger
<1>8. snapQueue' \in [Node -> Nat]
  BY DEF ApplyCommitted, ProgressType
<1> QED BY <1>4, <1>5, <1>6, <1>7, <1>8 DEF ProgressType

LEMMA AdvanceCommitType ==
  ASSUME ProgressType, HistoryType, NEW n \in Node, NEW s \in HardState, NEW match,
         NEW waiting \in SUBSET LogEntry, AdvanceCommit(n, s, match, waiting)
  PROVE  ProgressType' /\ decided' \in SUBSET LogEntry
<1> DEFINE new == Committable(s, n, match, commitIndex[n])
<1>1. CASE /\ new = {}
           /\ pending' = [pending EXCEPT ![n] = waiting]
           /\ UNCHANGED <<commitIndex, lastApplied, data, snapQueue, answered, decided>>
  BY <1>1 DEF ProgressType, HistoryType
<1>2. ASSUME NEW i \in new,
             ApplyCommitted(n, s, i, waiting),
             decided' = decided \cup
               {EntryAt(s, j) : j \in Larger(commitIndex[n], s.lastIncludedIndex) + 1 .. i}
      PROVE  ProgressType' /\ decided' \in SUBSET LogEntry
  <2>1. i \in Nat /\ i <= LastLogIndex(s)
    BY <1>2, HardStateFields DEF Committable, ProgressType
  <2>2. ProgressType'
    BY <1>2, <2>1, ApplyCommittedType
  <2>3. ASSUME NEW j \in Larger(commitIndex[n], s.lastIncludedIndex) + 1 .. i
        PROVE  EntryAt(s, j) \in LogEntry
    <3>1. j \in Nat /\ InMemory(s, j)
      BY <2>1, HardStateFields DEF InMemory, Larger, ProgressType
    <3> QED BY <3>1, EntryAtType
  <2> QED BY <1>2, <2>2, <2>3 DEF HistoryType
<1> QED BY <1>1, <1>2 DEF AdvanceCommit

(* Every entry an AppendEntries carries is in the log: the others' next    *)
(* index is above the placeholder.                                         *)
LEMMA HeartbeatsType ==
  ASSUME NEW n \in Node, NEW s \in HardState, NEW next \in [Node -> Nat], NEW commit \in Nat
  PROVE  Heartbeats(n, s, next, commit) \in SUBSET Message
<1>1. ASSUME NEW p \in Node, next[p] > s.lastIncludedIndex
      PROVE  AppendEntries(n, p, s, next[p], commit) \in AppendEntriesType
  <2>1. next[p] \in Nat /\ next[p] - 1 \in Nat
    BY <1>1, HardStateFields
  <2>2. GetLogTerm(s, next[p] - 1) \in Nat
    BY <2>1, GetLogTermType
  <2>3. EntriesBetween(s, next[p], LastLogIndex(s)) \in Seq(LogEntry)
    BY <1>1, <2>1, HardStateFields, EntriesBetweenType
  <2> QED BY <2>1, <2>2, <2>3, HardStateFields DEF AppendEntries, AppendEntriesType
<1> QED BY <1>1 DEF Heartbeats, Message

LEMMA SnapshotTasksType ==
  ASSUME NEW n \in Node, NEW s \in HardState, NEW next
  PROVE  SnapshotTasks(n, s, next) \in SUBSET TaskType
BY HardStateFields DEF SnapshotTasks, SnapshotTask, TaskType

LEMMA BecomeLeaderType ==
  ASSUME TypeOK, NEW n \in Node, NEW s \in HardState, BecomeLeader(n, s)
  PROVE  /\ role' \in [Node -> {"Follower", "Candidate", "Leader"}]
         /\ currentLeader' \in [Node -> Node \cup {Nil}]
         /\ LeadershipType'
         /\ elected' \in SUBSET (Nat \X Node)
         /\ snapTasks' \in SUBSET TaskType
<1> DEFINE next == [p \in Node |-> IF p = n THEN 0 ELSE LastLogIndex(s) + 1]
<1>1. next \in [Node -> Nat] /\ NoIndex \in [Node -> Nat]
  BY HardStateFields DEF NoIndex
<1> HIDE DEF next
<1>2. LeadershipType'
  BY <1>1 DEF BecomeLeader, TypeOK, LeadershipType, next
<1>3. snapTasks' \in SUBSET TaskType
  BY SnapshotTasksType DEF BecomeLeader, TypeOK, NetworkType, next
<1>4. elected' \in SUBSET (Nat \X Node)
  BY HardStateFields DEF BecomeLeader, TypeOK, HistoryType
<1>5. /\ role' \in [Node -> {"Follower", "Candidate", "Leader"}]
      /\ currentLeader' \in [Node -> Node \cup {Nil}]
  BY DEF BecomeLeader, TypeOK, ProcessType
<1> QED BY <1>2, <1>3, <1>4, <1>5

LEMMA GoDownType ==
  ASSUME TypeOK, NEW n \in Node, hs' \in [Node -> HardState], GoDown(n)
  PROVE  /\ ProcessType' /\ ProgressType' /\ LeadershipType' /\ HistoryType'
         /\ snapTasks' \in SUBSET TaskType
         /\ crashes' \in Nat
<1>1. ProcessType'
  <2>1. st' \in [Node -> HardState] /\ up' \in [Node -> BOOLEAN]
    BY DEF GoDown, TypeOK, ProcessType
  <2>2. ballot' \in [Node -> [open : BOOLEAN, heard : SUBSET Node, granted : SUBSET Node]]
    BY DEF GoDown, TypeOK, ProcessType, Closed
  <2> QED BY <2>1, <2>2, StepDownType DEF GoDown, TypeOK, ProcessType
<1>2. ProgressType'
  BY DEF GoDown, TypeOK, ProgressType
<1>3. LeadershipType'
  <2>1. NoIndex \in [Node -> Nat]
    BY DEF NoIndex
  <2> QED BY <2>1 DEF GoDown, TypeOK, LeadershipType
<1>4. snapTasks' \in SUBSET TaskType
  BY DEF GoDown, TypeOK, NetworkType
<1>5. HistoryType' /\ crashes' \in Nat
  BY DEF GoDown, history, TypeOK, HistoryType, BudgetType
<1> QED BY <1>1, <1>2, <1>3, <1>4, <1>5

------------------------------------------------------------------------------
(* Elections.                                                              *)

LEMMA StartElectionType ==
  ASSUME TypeOK, NEW n \in Node, StartElection(n)
  PROVE  TypeOK'
<1> DEFINE s == IncrementTerm(st[n], n)
<1>1. s \in HardState
  BY IncrementTermType DEF TypeOK, ProcessType
<1>2. RequestVote(n, s) \in Message
  BY <1>1, HardStateFields, LastLogTermType DEF RequestVote, Message, RequestVoteType
<1> HIDE DEF s
<1>3. /\ Write(n, s) /\ Send({RequestVote(n, s)})
      /\ UNCHANGED <<snapFile, up, progress, decided, budget>>
      /\ \/ BecomeLeader(n, s) /\ UNCHANGED ballot
         \/ /\ role' = [role EXCEPT ![n] = "Candidate"]
            /\ currentLeader' = [currentLeader EXCEPT ![n] = Nil]
            /\ ballot' = [ballot EXCEPT ![n] = [open |-> TRUE, heard |-> {}, granted |-> {n}]]
            /\ UNCHANGED <<leadership, elected, snapTasks>>
  BY DEF StartElection, s
<1>4. /\ DiskType' /\ st' \in [Node -> HardState]
      /\ messages' \in SUBSET Message
      /\ ProgressType' /\ BudgetType'
      /\ up' \in [Node -> BOOLEAN] /\ decided' \in SUBSET LogEntry
  BY <1>1, <1>2, <1>3, WriteType
  DEF Send, TypeOK, DiskType, ProcessType, NetworkType, HistoryType, BudgetType, ProgressType,
      progress, budget
<1>5. CASE BecomeLeader(n, s) /\ UNCHANGED ballot
  BY <1>1, <1>4, <1>5, BecomeLeaderType DEF TypeOK, ProcessType, NetworkType, HistoryType
<1>6. CASE /\ role' = [role EXCEPT ![n] = "Candidate"]
           /\ currentLeader' = [currentLeader EXCEPT ![n] = Nil]
           /\ ballot' = [ballot EXCEPT ![n] = [open |-> TRUE, heard |-> {}, granted |-> {n}]]
           /\ UNCHANGED <<leadership, elected, snapTasks>>
  BY <1>4, <1>6
  DEF leadership, TypeOK, ProcessType, NetworkType, HistoryType, LeadershipType
<1> QED BY <1>3, <1>5, <1>6

LEMMA StartElectionUnsavedType ==
  ASSUME TypeOK, NEW n \in Node, StartElectionUnsaved(n)
  PROVE  TypeOK'
<1> DEFINE s == IncrementTerm(st[n], n)
<1>1. s \in HardState
  BY IncrementTermType DEF TypeOK, ProcessType
<1>2. DiskType' /\ st' \in [Node -> HardState] /\ faults' \in Nat
  BY <1>1, WriteFailsType DEF StartElectionUnsaved, TypeOK, DiskType
<1>3. ProcessType' /\ BudgetType'
  BY <1>2, StepDownType DEF StartElectionUnsaved, TypeOK, ProcessType, BudgetType
<1> QED
  BY <1>2, <1>3
  DEF StartElectionUnsaved, TypeOK, ProgressType, LeadershipType, NetworkType, HistoryType,
      progress, leadership, history

LEMMA ReceiveVoteType ==
  ASSUME TypeOK, NEW n \in Node, NEW m \in messages, ReceiveVote(n, m)
  PROVE  TypeOK'
<1> DEFINE granted == IF m.granted THEN ballot[n].granted \cup {m.src} ELSE ballot[n].granted
<1>1. /\ m \in Message /\ m.src \in Node /\ m.term \in Nat
      /\ st[n] \in HardState
  BY MessageKinds DEF TypeOK, NetworkType, ProcessType
<1>2. granted \in SUBSET Node
  BY <1>1 DEF TypeOK, ProcessType
<1>3. ProgressType' /\ BudgetType' /\ UNCHANGED <<snapFile, up, decided>>
  BY DEF ReceiveVote, TypeOK, ProgressType, BudgetType, progress, budget
<1> HIDE DEF granted
<1>4. CASE /\ Write(n, UpdateTerm(st[n], m.term))
           /\ StepDown(n)
           /\ ballot' = [ballot EXCEPT ![n] = Closed]
           /\ UNCHANGED <<leadership, messages, snapTasks, elected>>
  <2>1. DiskType' /\ st' \in [Node -> HardState]
    BY <1>1, <1>3, <1>4, UpdateTermType, WriteType DEF TypeOK, DiskType
  <2>2. ProcessType'
    BY <1>3, <1>4, <2>1, StepDownType DEF TypeOK, ProcessType, Closed
  <2> QED
    BY <1>3, <1>4, <2>1, <2>2 DEF TypeOK, LeadershipType, NetworkType, HistoryType, leadership
<1>5. CASE /\ ballot' = [ballot EXCEPT ![n] =
                [open |-> TRUE, heard |-> @.heard \cup {m.src}, granted |-> granted]]
           /\ UNCHANGED <<hs, st, role, currentLeader, leadership, messages, snapTasks, elected>>
  <2>1. ProcessType'
    BY <1>1, <1>2, <1>3, <1>5 DEF TypeOK, ProcessType
  <2> QED
    BY <1>3, <1>5, <2>1
    DEF TypeOK, DiskType, LeadershipType, NetworkType, HistoryType, leadership
<1>6. CASE /\ BecomeLeader(n, st[n])
           /\ Send(Heartbeats(n, st[n], nextIndex'[n], commitIndex[n]))
           /\ ballot' = [ballot EXCEPT ![n] = Closed]
           /\ UNCHANGED <<hs, st>>
  <2>1. /\ role' \in [Node -> {"Follower", "Candidate", "Leader"}]
        /\ currentLeader' \in [Node -> Node \cup {Nil}]
        /\ LeadershipType'
        /\ elected' \in SUBSET (Nat \X Node)
        /\ snapTasks' \in SUBSET TaskType
    BY <1>1, <1>6, BecomeLeaderType
  <2>2. messages' \in SUBSET Message
    BY <1>1, <1>6, <2>1, HeartbeatsType
    DEF Send, TypeOK, NetworkType, ProgressType, LeadershipType
  <2>3. ProcessType'
    BY <1>3, <1>6, <2>1 DEF TypeOK, ProcessType, Closed
  <2> QED
    BY <1>3, <1>6, <2>1, <2>2, <2>3 DEF TypeOK, DiskType, NetworkType, HistoryType
<1> QED BY <1>4, <1>5, <1>6 DEF ReceiveVote, granted

LEMMA ElectionEndsType ==
  ASSUME TypeOK, NEW n \in Node, ElectionEnds(n)
  PROVE  TypeOK'
<1>1. ballot' \in [Node -> [open : BOOLEAN, heard : SUBSET Node, granted : SUBSET Node]]
  BY DEF ElectionEnds, TypeOK, ProcessType, Closed
<1> QED
  BY <1>1
  DEF ElectionEnds, TypeOK, DiskType, ProcessType, ProgressType, LeadershipType, NetworkType,
      HistoryType, BudgetType, disk, progress, leadership, history, budget

LEMMA HandleRequestVoteType ==
  ASSUME TypeOK, NEW n \in Node, NEW m \in messages, HandleRequestVote(n, m)
  PROVE  TypeOK'
<1> DEFINE s == UpdateTerm(st[n], m.term)
           grant == /\ m.term >= s.currentTerm
                    /\ s.votedFor \in {Nil, m.src}
                    /\ IsLogUpToDate(s, m.lastLogIndex, m.lastLogTerm)
           voted == IF grant THEN [s EXCEPT !.votedFor = m.src] ELSE s
<1>1. m \in RequestVoteType /\ s \in HardState
  BY MessageKinds, UpdateTermType DEF HandleRequestVote, TypeOK, NetworkType, ProcessType
<1>2. voted \in HardState
  BY <1>1, HardStateUpdates DEF RequestVoteType
<1>3. \A g \in BOOLEAN : RequestVoteReply(m, n, s.currentTerm, g) \in Message
  BY <1>1, HardStateFields DEF RequestVoteReply, RequestVoteReplyType, RequestVoteType, Message
<1>4. /\ IF m.term > st[n].currentTerm THEN StepDown(n) ELSE UNCHANGED <<role, currentLeader>>
      /\ \/ /\ Write(n, voted)
            /\ Send({RequestVoteReply(m, n, s.currentTerm, grant)})
            /\ UNCHANGED faults
         \/ /\ WriteFails(n, voted, voted)
            /\ Send({RequestVoteReply(m, n, s.currentTerm, FALSE)})
      /\ UNCHANGED <<snapFile, up, progress, leadership, ballot, snapTasks, history, crashes, ticks>>
  BY DEF HandleRequestVote
<1>5. grant \in BOOLEAN
  BY DEF IsLogUpToDate
<1> HIDE DEF s, grant, voted
<1>6. messages' \in SUBSET Message
  BY <1>3, <1>4, <1>5 DEF Send, TypeOK, NetworkType
<1>7. hs' \in [Node -> HardState] /\ st' \in [Node -> HardState] /\ faults' \in Nat
  BY <1>2, <1>4, WriteType, WriteFailsType DEF TypeOK, BudgetType
<1>8. DiskType' /\ ProcessType'
  BY <1>4, <1>7, StepDownType DEF TypeOK, DiskType, ProcessType
<1> QED
  BY <1>4, <1>6, <1>7, <1>8
  DEF TypeOK, ProgressType, LeadershipType, NetworkType, HistoryType, BudgetType,
      progress, leadership, history

------------------------------------------------------------------------------
(* Replication.                                                            *)

LEMMA HeartbeatTickType ==
  ASSUME TypeOK, NEW n \in Node, HeartbeatTick(n)
  PROVE  TypeOK'
<1>1. Heartbeats(n, st[n], nextIndex[n], commitIndex[n]) \in SUBSET Message
  BY HeartbeatsType DEF TypeOK, ProcessType, ProgressType, LeadershipType
<1>2. SnapshotTasks(n, st[n], nextIndex[n]) \in SUBSET TaskType
  BY SnapshotTasksType DEF TypeOK, ProcessType
<1>3. NetworkType'
  BY <1>1, <1>2 DEF HeartbeatTick, SendHeartbeats, Send, TypeOK, NetworkType
<1>4. BudgetType'
  BY DEF HeartbeatTick, TypeOK, BudgetType
<1>5. UNCHANGED <<disk, up, st, role, currentLeader, progress, leadership, ballot, history>>
  BY DEF HeartbeatTick
<1> QED
  BY <1>3, <1>4, <1>5
  DEF TypeOK, DiskType, ProcessType, ProgressType, LeadershipType, HistoryType,
      disk, progress, leadership, history

LEMMA ClientRequestType ==
  ASSUME TypeOK, NEW n \in Node, NEW v \in Value, ClientRequest(n, v)
  PROVE  TypeOK'
<1> DEFINE s == PushEntry(st[n], v)
           entry == EntryAt(s, LastLogIndex(s))
           others == {p \in pending[n] : p.index # entry.index}
<1>1. st[n] \in HardState /\ s \in HardState
  BY PushEntryType DEF TypeOK, ProcessType, Command
<1>2. entry \in LogEntry
  <2>1. LastLogIndex(s) \in Nat /\ InMemory(s, LastLogIndex(s))
    BY <1>1, HardStateFields DEF InMemory
  <2> QED BY <1>1, <2>1, EntryAtType
<1>3. others \in SUBSET LogEntry
  BY DEF TypeOK, ProgressType
<1>4. /\ \/ /\ Write(n, s)
            /\ SendHeartbeats(n, s, nextIndex[n])
            /\ AdvanceCommit(n, s, matchIndex[n], others \cup {entry})
            /\ UNCHANGED faults
         \/ /\ WriteFails(n, s, st[n])
            /\ pending' = [pending EXCEPT ![n] = others]
            /\ UNCHANGED <<commitIndex, lastApplied, data, snapQueue, answered, decided,
                           messages, snapTasks>>
      /\ UNCHANGED <<snapFile, up, role, currentLeader, leadership, ballot, elected, crashes, ticks>>
  BY DEF ClientRequest
<1> HIDE DEF s, entry, others
<1>5. hs' \in [Node -> HardState] /\ st' \in [Node -> HardState] /\ faults' \in Nat
  BY <1>1, <1>4, WriteType, WriteFailsType DEF TypeOK, BudgetType
<1>6. NetworkType' /\ ProgressType' /\ decided' \in SUBSET LogEntry
  <2>1. CASE /\ SendHeartbeats(n, s, nextIndex[n])
             /\ AdvanceCommit(n, s, matchIndex[n], others \cup {entry})
    <3>1. ProgressType' /\ decided' \in SUBSET LogEntry
      BY <1>1, <1>2, <1>3, <2>1, AdvanceCommitType DEF TypeOK
    <3>2. Heartbeats(n, s, nextIndex[n], commitIndex[n]) \in SUBSET Message
      BY <1>1, HeartbeatsType DEF TypeOK, ProgressType, LeadershipType
    <3>3. SnapshotTasks(n, s, nextIndex[n]) \in SUBSET TaskType
      BY <1>1, SnapshotTasksType
    <3> QED BY <2>1, <3>1, <3>2, <3>3 DEF SendHeartbeats, Send, TypeOK, NetworkType
  <2>2. CASE /\ pending' = [pending EXCEPT ![n] = others]
             /\ UNCHANGED <<commitIndex, lastApplied, data, snapQueue, answered, decided,
                            messages, snapTasks>>
    BY <1>3, <2>2 DEF TypeOK, NetworkType, ProgressType, HistoryType
  <2> QED BY <1>4, <2>1, <2>2
<1> QED
  BY <1>4, <1>5, <1>6
  DEF TypeOK, DiskType, ProcessType, LeadershipType, HistoryType, BudgetType, leadership

LEMMA ResultInMessage ==
  ASSUME NEW m, m.src \in Node, m.dst \in Node, NEW term \in Nat,
         NEW success \in BOOLEAN, NEW index \in Nat
  PROVE  Result(m, term, success, index) \in Message
BY DEF Result, ResultType, Message

LEMMA StaleAppendEntriesType ==
  ASSUME TypeOK, NEW n \in Node, NEW m \in messages, StaleAppendEntries(n, m)
  PROVE  TypeOK'
<1>1. m \in AppendEntriesType
  BY MessageKinds DEF StaleAppendEntries, TypeOK, NetworkType
<1>2. Result(m, st[n].currentTerm, FALSE, 0) \in Message
  BY <1>1, HardStateFields, ResultInMessage DEF AppendEntriesType, TypeOK, ProcessType
<1> QED
  BY <1>2
  DEF StaleAppendEntries, Send, TypeOK, DiskType, ProcessType, ProgressType, LeadershipType,
      NetworkType, HistoryType, BudgetType, disk, progress, leadership, history, budget

LEMMA HandleAppendEntriesType ==
  ASSUME TypeOK, NEW n \in Node, NEW m \in messages, HandleAppendEntries(n, m)
  PROVE  TypeOK'
<1> DEFINE s == UpdateTerm(st[n], m.term)
           consistent == AppendConsistent(s, m.prevIndex, m.prevTerm)
           merged == IF consistent THEN WithEntries(s, m.prevIndex, m.entries) ELSE s
           last == m.prevIndex + Len(m.entries)
           commit == Smaller(m.leaderCommit, LastLogIndex(merged))
<1>1. /\ m \in AppendEntriesType /\ m.src \in Node /\ m.dst \in Node
      /\ m.prevIndex \in Nat /\ m.entries \in Seq(LogEntry) /\ m.leaderCommit \in Nat
      /\ s \in HardState
  BY MessageKinds, UpdateTermType
  DEF HandleAppendEntries, TypeOK, NetworkType, ProcessType, AppendEntriesType
<1>2. merged \in HardState
  BY <1>1, WithEntriesType DEF AppendConsistent
<1>3. last \in Nat /\ consistent \in BOOLEAN
  BY <1>1, LenProperties DEF AppendConsistent
<1>4. commit \in Nat
  BY <1>1, <1>2, HardStateFields DEF Smaller
<1>5. /\ Follow(n, m.src)
      /\ \/ /\ Write(n, merged)
            /\ Send({Result(m, s.currentTerm, consistent, last)})
            /\ IF consistent /\ m.leaderCommit > commitIndex[n]
               THEN ApplyCommitted(n, merged, commit, pending[n])
               ELSE UNCHANGED progress
            /\ UNCHANGED faults
         \/ /\ WriteFails(n, merged, s)
            /\ Send({Result(m, s.currentTerm, FALSE, last)})
            /\ UNCHANGED progress
      /\ UNCHANGED <<snapFile, up, leadership, ballot, snapTasks, history, crashes, ticks>>
  BY DEF HandleAppendEntries
<1>6. s.currentTerm \in Nat
  BY <1>1, HardStateFields
<1> HIDE DEF s, consistent, merged, last, commit
<1>7. hs' \in [Node -> HardState] /\ st' \in [Node -> HardState] /\ faults' \in Nat
  BY <1>1, <1>2, <1>5, WriteType, WriteFailsType DEF TypeOK, BudgetType
<1>8. messages' \in SUBSET Message
  <2>1. \A success \in BOOLEAN : Result(m, s.currentTerm, success, last) \in Message
    BY <1>1, <1>3, <1>6, ResultInMessage
  <2>2. \E success \in BOOLEAN : Send({Result(m, s.currentTerm, success, last)})
    BY <1>3, <1>5
  <2> QED BY <2>1, <2>2 DEF Send, TypeOK, NetworkType
<1>9. ProgressType'
  <2>1. CASE UNCHANGED progress
    BY <2>1 DEF progress, TypeOK, ProgressType
  <2>2. CASE ApplyCommitted(n, merged, commit, pending[n])
    <3>1. pending[n] \in SUBSET LogEntry
      BY DEF TypeOK, ProgressType
    <3> QED BY <1>2, <1>4, <2>2, <3>1, ApplyCommittedType DEF TypeOK
  <2> QED BY <1>5, <2>1, <2>2
<1>10. DiskType' /\ ProcessType'
  BY <1>1, <1>5, <1>7, FollowType DEF TypeOK, DiskType, ProcessType
<1> QED
  BY <1>5, <1>7, <1>8, <1>9, <1>10
  DEF TypeOK, LeadershipType, NetworkType, HistoryType, BudgetType, leadership, history

LEMMA HandleResultType ==
  ASSUME TypeOK, NEW n \in Node, NEW m \in messages, HandleResult(n, m)
  PROVE  TypeOK'
<1>1. /\ m \in ResultType /\ m.src \in Node /\ m.term \in Nat /\ m.lastLogIndex \in Nat
      /\ st[n] \in HardState
  BY MessageKinds DEF HandleResult, TypeOK, NetworkType, ProcessType, ResultType
<1>2. /\ UNCHANGED <<snapFile, up, ballot, messages, snapTasks, elected>>
      /\ BudgetType' /\ NetworkType'
  BY DEF HandleResult, TypeOK, BudgetType, NetworkType, budget
<1>3. CASE /\ Write(n, UpdateTerm(st[n], m.term))
           /\ StepDown(n)
           /\ UNCHANGED <<progress, leadership, decided>>
  <2>1. hs' \in [Node -> HardState] /\ st' \in [Node -> HardState]
    BY <1>1, <1>3, UpdateTermType, WriteType DEF TypeOK
  <2>2. DiskType' /\ ProcessType'
    BY <1>2, <1>3, <2>1, StepDownType DEF TypeOK, DiskType, ProcessType
  <2> QED
    BY <1>2, <1>3, <2>2 DEF TypeOK, ProgressType, LeadershipType, HistoryType, progress, leadership
<1>4. CASE /\ IF m.success
              THEN LET match == [matchIndex[n] EXCEPT ![m.src] = m.lastLogIndex]
                   IN  /\ matchIndex' = [matchIndex EXCEPT ![n] = match]
                       /\ nextIndex' = [nextIndex EXCEPT ![n][m.src] = m.lastLogIndex + 1]
                       /\ AdvanceCommit(n, st[n], match, pending[n])
              ELSE /\ nextIndex' = [nextIndex EXCEPT ![n][m.src] = StepBack(@)]
                   /\ UNCHANGED <<matchIndex, progress, decided>>
           /\ UNCHANGED <<hs, st, role, currentLeader>>
  <2>1. DiskType' /\ ProcessType'
    BY <1>2, <1>4 DEF TypeOK, DiskType, ProcessType
  <2>2. nextIndex' \in [Node -> [Node -> Nat]]
    <3>1. \A i \in Nat : [nextIndex EXCEPT ![n][m.src] = i] \in [Node -> [Node -> Nat]]
      BY <1>1 DEF TypeOK, LeadershipType
    <3>2. nextIndex[n][m.src] \in Nat
      BY <1>1 DEF TypeOK, LeadershipType
    <3>3. CASE m.success
      BY <1>1, <1>4, <3>1, <3>3
    <3>4. CASE ~m.success
      <4> DEFINE i == StepBack(nextIndex[n][m.src])
      <4>1. i \in Nat
        BY <3>2 DEF StepBack
      <4>2. nextIndex' = [nextIndex EXCEPT ![n][m.src] = i]
        BY <1>4, <3>4
      <4> HIDE DEF i
      <4> QED BY <3>1, <4>1, <4>2
    <3> QED BY <3>3, <3>4
  <2>3. matchIndex' \in [Node -> [Node -> Nat]]
    BY <1>1, <1>4 DEF TypeOK, LeadershipType
  <2>4. ProgressType' /\ decided' \in SUBSET LogEntry
    <3>1. pending[n] \in SUBSET LogEntry
      BY DEF TypeOK, ProgressType
    <3>2. CASE m.success
      BY <1>1, <1>4, <3>1, <3>2, AdvanceCommitType DEF TypeOK
    <3>3. CASE ~m.success
      BY <1>4, <3>3 DEF progress, TypeOK, ProgressType, HistoryType
    <3> QED BY <3>2, <3>3
  <2> QED
    BY <1>2, <2>1, <2>2, <2>3, <2>4 DEF TypeOK, LeadershipType, HistoryType
<1> QED BY <1>3, <1>4 DEF HandleResult

------------------------------------------------------------------------------
(* Snapshots.                                                              *)

(* What is compacted lies between two indices of the log. *)
LEMMA CompactedType ==
  ASSUME NEW s \in HardState, NEW index \in Nat, NEW term \in Nat,
         index >= s.lastIncludedIndex
  PROVE  CompactTo(s, index) \in HardState /\ Reconciled(s, index, term) \in HardState
<1>1. EntriesBetween(s, index + 1, LastLogIndex(s)) \in Seq(LogEntry)
  <2>1. s.lastIncludedIndex \in Nat /\ LastLogIndex(s) \in Nat
    BY HardStateFields
  <2>2. index + 1 \in Nat /\ index + 1 >= s.lastIncludedIndex
    BY <2>1
  <2>3. LastLogIndex(s) <= LastLogIndex(s)
    BY <2>1
  <2> QED BY <2>1, <2>2, <2>3, EntriesBetweenType
<1>2. GetLogTerm(s, index) \in Nat
  BY GetLogTermType
<1> QED BY <1>1, <1>2, StartAtType DEF CompactTo, Reconciled

LEMMA InstalledAtType ==
  ASSUME NEW s \in HardState, NEW index \in Nat, NEW term \in Nat
  PROVE  InstalledAt(s, index, term) \in HardState
BY StartAtType, EmptySeq DEF InstalledAt

LEMMA OwnSnapshotType ==
  ASSUME TypeOK, NEW n \in Node
  PROVE  Snapshot(lastApplied[n], GetLogTerm(st[n], lastApplied[n]), data[n]) \in SnapshotBody
<1>1. lastApplied[n] \in Nat /\ data[n] \in Seq(LogEntry) /\ st[n] \in HardState
  BY DEF TypeOK, ProcessType, ProgressType
<1>2. GetLogTerm(st[n], lastApplied[n]) \in Nat
  BY <1>1, GetLogTermType
<1> QED BY <1>1, <1>2 DEF Snapshot, SnapshotBody

LEMMA TriggerSnapshotType ==
  ASSUME TypeOK, NEW n \in Node, TriggerSnapshot(n)
  PROVE  TypeOK'
<1> DEFINE index == lastApplied[n]
           snapshot == Snapshot(index, GetLogTerm(st[n], index), data[n])
<1>1. snapshot \in SnapshotBody /\ index \in Nat /\ st[n] \in HardState
  BY OwnSnapshotType DEF TypeOK, ProcessType, ProgressType
<1> HIDE DEF snapshot
<1>2. /\ snapQueue' = [snapQueue EXCEPT ![n] = @ - 1] /\ snapQueue[n] > 0
      /\ UNCHANGED <<up, role, currentLeader, commitIndex, lastApplied, data, pending, answered,
                     leadership, ballot, messages, snapTasks, history, crashes, ticks>>
  BY DEF TriggerSnapshot
<1>3. \/ UNCHANGED <<disk, st, faults>>
      \/ faults' = faults + 1 /\ UNCHANGED <<disk, st>>
      \/ /\ index > st[n].lastIncludedIndex
         /\ snapFile' = [snapFile EXCEPT ![n] = snapshot]
         /\ \/ Write(n, CompactTo(st[n], index))
            \/ UNCHANGED <<hs, st>>
         /\ UNCHANGED faults
  BY DEF TriggerSnapshot, snapshot
<1>4. faults' \in Nat
  BY <1>3 DEF TypeOK, BudgetType
<1>5. DiskType' /\ st' \in [Node -> HardState]
  <2>1. CASE UNCHANGED <<disk, st>>
    BY <2>1 DEF disk, TypeOK, DiskType, ProcessType
  <2>2. CASE /\ index > st[n].lastIncludedIndex
             /\ snapFile' = [snapFile EXCEPT ![n] = snapshot]
             /\ \/ Write(n, CompactTo(st[n], index))
                \/ UNCHANGED <<hs, st>>
    <3>1. snapFile' \in [Node -> SnapshotBody \cup {Nil}]
      BY <1>1, <2>2 DEF TypeOK, DiskType
    <3>2. CompactTo(st[n], index) \in HardState
      BY <1>1, <2>2, HardStateFields, CompactedType
    <3>3. hs' \in [Node -> HardState] /\ st' \in [Node -> HardState]
      BY <2>2, <3>2, WriteType DEF TypeOK, DiskType, ProcessType
    <3> QED BY <3>1, <3>3 DEF DiskType
  <2> QED BY <1>3, <2>1, <2>2
<1>6. ProgressType'
  BY <1>2 DEF TypeOK, ProgressType
<1> QED
  BY <1>2, <1>4, <1>5, <1>6
  DEF TypeOK, ProcessType, LeadershipType, NetworkType, HistoryType, BudgetType,
      leadership, history

LEMMA TriggerSnapshotInterruptedType ==
  ASSUME TypeOK, NEW n \in Node, TriggerSnapshotInterrupted(n)
  PROVE  TypeOK'
<1> DEFINE snapshot == Snapshot(lastApplied[n], GetLogTerm(st[n], lastApplied[n]), data[n])
<1>1. snapshot \in SnapshotBody
  BY OwnSnapshotType
<1> HIDE DEF snapshot
<1>2. /\ snapFile' = [snapFile EXCEPT ![n] = snapshot]
      /\ UNCHANGED hs /\ GoDown(n) /\ UNCHANGED <<messages, faults, ticks>>
  BY DEF TriggerSnapshotInterrupted, snapshot
<1>3. DiskType'
  BY <1>1, <1>2 DEF TypeOK, DiskType
<1> QED BY <1>2, <1>3, GoDownType DEF TypeOK, DiskType, NetworkType, BudgetType

LEMMA ReadSnapshotType ==
  ASSUME TypeOK, NEW t \in snapTasks, ReadSnapshot(t)
  PROVE  TypeOK'
<1>1. t \in TaskType /\ snapFile[t.src] \in SnapshotBody
  BY DEF ReadSnapshot, TypeOK, NetworkType, DiskType, TaskType
<1>2. InstallSnapshot(t, snapFile[t.src]) \in Message
  BY <1>1 DEF InstallSnapshot, TaskType, InstallSnapshotType, Message
<1>3. NetworkType'
  BY <1>2 DEF ReadSnapshot, Send, TypeOK, NetworkType
<1> QED
  BY <1>3
  DEF ReadSnapshot, TypeOK, DiskType, ProcessType, ProgressType, LeadershipType,
      HistoryType, BudgetType, disk, progress, leadership, history, budget

(* What the handlers of InstallSnapshot find in the message.               *)
LEMMA InstallSnapshotFields ==
  ASSUME TypeOK, NEW n \in Node, NEW m \in messages, Delivered(n, m)
  PROVE  /\ m.src \in Node /\ m.dst \in Node /\ m.term \in Nat
         /\ m.index \in Nat /\ m.snapTerm \in Nat /\ m.body \in SnapshotBody
         /\ m.body.data \in Seq(LogEntry)
         /\ st[n] \in HardState /\ hs[n] \in HardState
         /\ st[n].currentTerm \in Nat
         /\ UpdateTerm(st[n], m.term) \in HardState
         /\ TermSaved(n, m) \in HardState
<1>1. m \in InstallSnapshotType /\ st[n] \in HardState /\ hs[n] \in HardState
  BY MessageKinds DEF Delivered, TypeOK, NetworkType, ProcessType, DiskType
<1>2. UpdateTerm(st[n], m.term) \in HardState
  BY <1>1, UpdateTermType DEF InstallSnapshotType
<1> QED
  BY <1>1, <1>2, HardStateFields DEF InstallSnapshotType, SnapshotBody, TermSaved

LEMMA StaleInstallSnapshotType ==
  ASSUME TypeOK, NEW n \in Node, NEW m \in messages, StaleInstallSnapshot(n, m)
  PROVE  TypeOK'
<1>1. Delivered(n, m)
  BY DEF StaleInstallSnapshot
<1>2. Result(m, st[n].currentTerm, FALSE, 0) \in Message
  BY <1>1, InstallSnapshotFields, ResultInMessage
<1> QED
  BY <1>2
  DEF StaleInstallSnapshot, Send, TypeOK, DiskType, ProcessType, ProgressType, LeadershipType,
      NetworkType, HistoryType, BudgetType, disk, progress, leadership, history, budget

LEMMA InstallSnapshotTermUnsavedType ==
  ASSUME TypeOK, NEW n \in Node, NEW m \in messages, InstallSnapshotTermUnsaved(n, m)
  PROVE  TypeOK'
<1> DEFINE s == UpdateTerm(st[n], m.term)
<1>1. Delivered(n, m) /\ WriteFails(n, s, s) /\ StepDown(n)
  BY DEF InstallSnapshotTermUnsaved
<1>2. s \in HardState /\ Result(m, m.term, FALSE, 0) \in Message
  BY <1>1, InstallSnapshotFields, ResultInMessage
<1> HIDE DEF s
<1>3. hs' \in [Node -> HardState] /\ st' \in [Node -> HardState] /\ faults' \in Nat
  BY <1>1, <1>2, WriteFailsType DEF TypeOK
<1>4. DiskType' /\ ProcessType'
  BY <1>1, <1>3, StepDownType DEF InstallSnapshotTermUnsaved, TypeOK, DiskType, ProcessType
<1>5. NetworkType'
  BY <1>2 DEF InstallSnapshotTermUnsaved, Send, TypeOK, NetworkType
<1> QED
  BY <1>3, <1>4, <1>5
  DEF InstallSnapshotTermUnsaved, TypeOK, ProgressType, LeadershipType, HistoryType,
      BudgetType, progress, leadership, history

LEMMA RefuseSnapshotType ==
  ASSUME TypeOK, NEW n \in Node, NEW m \in messages, RefuseSnapshot(n, m)
  PROVE  TypeOK'
<1>1. Delivered(n, m) /\ Follow(n, m.src)
  BY DEF RefuseSnapshot
<1>2. Result(m, m.term, FALSE, 0) \in Message
  BY <1>1, InstallSnapshotFields, ResultInMessage
<1>3. hs' \in [Node -> HardState] /\ st' \in [Node -> HardState]
  BY <1>1, InstallSnapshotFields DEF RefuseSnapshot, TypeOK, DiskType, ProcessType
<1>4. DiskType' /\ ProcessType'
  BY <1>1, <1>3, FollowType, InstallSnapshotFields
  DEF RefuseSnapshot, TypeOK, DiskType, ProcessType
<1>5. NetworkType'
  BY <1>2 DEF RefuseSnapshot, Send, TypeOK, NetworkType
<1>6. BudgetType'
  BY DEF RefuseSnapshot, TypeOK, BudgetType
<1> QED
  BY <1>4, <1>5, <1>6
  DEF RefuseSnapshot, TypeOK, ProgressType, LeadershipType, HistoryType,
      progress, leadership, history

LEMMA HandleInstallSnapshotType ==
  ASSUME TypeOK, NEW n \in Node, NEW m \in messages, HandleInstallSnapshot(n, m)
  PROVE  TypeOK'
<1> DEFINE s == InstalledAt(UpdateTerm(st[n], m.term), m.index, m.snapTerm)
<1>1. Delivered(n, m) /\ Follow(n, m.src) /\ Write(n, s)
  BY DEF HandleInstallSnapshot
<1>2. s \in HardState /\ Result(m, m.term, TRUE, m.index) \in Message
  BY <1>1, InstallSnapshotFields, InstalledAtType, ResultInMessage
<1> HIDE DEF s
<1>3. hs' \in [Node -> HardState] /\ st' \in [Node -> HardState]
  BY <1>1, <1>2, WriteType DEF TypeOK
<1>4. DiskType' /\ ProcessType'
  BY <1>1, <1>3, FollowType, InstallSnapshotFields
  DEF HandleInstallSnapshot, TypeOK, DiskType, ProcessType
<1>5. NetworkType'
  BY <1>2 DEF HandleInstallSnapshot, Send, TypeOK, NetworkType
<1>6. ProgressType'
  BY <1>1, InstallSnapshotFields DEF HandleInstallSnapshot, TypeOK, ProgressType
<1> QED
  BY <1>4, <1>5, <1>6
  DEF HandleInstallSnapshot, TypeOK, LeadershipType, HistoryType, BudgetType,
      leadership, history, budget

LEMMA InstallSnapshotInterruptedType ==
  ASSUME TypeOK, NEW n \in Node, NEW m \in messages, InstallSnapshotInterrupted(n, m)
  PROVE  TypeOK'
<1>1. Delivered(n, m) /\ GoDown(n) /\ UNCHANGED <<messages, faults, ticks>>
  BY DEF InstallSnapshotInterrupted
<1>2. hs' \in [Node -> HardState]
  BY <1>1, InstallSnapshotFields DEF InstallSnapshotInterrupted, TypeOK, DiskType
<1>3. snapFile' \in [Node -> SnapshotBody \cup {Nil}]
  BY <1>1, InstallSnapshotFields DEF InstallSnapshotInterrupted, TypeOK, DiskType
<1> QED
  BY <1>1, <1>2, <1>3, GoDownType DEF TypeOK, DiskType, NetworkType, BudgetType

------------------------------------------------------------------------------
(* Crashes.                                                                *)

LEMMA CrashType ==
  ASSUME TypeOK, NEW n \in Node, Crash(n)
  PROVE  TypeOK'
<1>1. DiskType'
  BY DEF Crash, disk, TypeOK, DiskType
<1> QED BY <1>1, GoDownType DEF Crash, TypeOK, DiskType, NetworkType, BudgetType

LEMMA RestartType ==
  ASSUME TypeOK, NEW n \in Node, Restart(n)
  PROVE  TypeOK'
<1> DEFINE s == Recovered(hs[n], snapFile[n])
<1>1. hs[n] \in HardState /\ snapFile[n] \in SnapshotBody \cup {Nil}
  BY DEF TypeOK, DiskType
<1>2. s \in HardState
  <2>1. CASE snapFile[n] # Nil /\ snapFile[n].index > hs[n].lastIncludedIndex
    <3>1. snapFile[n].index \in Nat /\ snapFile[n].term \in Nat
      BY <1>1, <2>1 DEF SnapshotBody
    <3>2. snapFile[n].index >= hs[n].lastIncludedIndex
      BY <1>1, <2>1, <3>1, HardStateFields
    <3>3. s = Reconciled(hs[n], snapFile[n].index, snapFile[n].term)
      BY <2>1 DEF Recovered
    <3> QED BY <1>1, <3>1, <3>2, <3>3, CompactedType
  <2>2. CASE ~(snapFile[n] # Nil /\ snapFile[n].index > hs[n].lastIncludedIndex)
    BY <1>1, <2>2 DEF Recovered
  <2> QED BY <2>1, <2>2
<1> HIDE DEF s
<1>3. /\ Write(n, s)
      /\ up' = [up EXCEPT ![n] = TRUE]
      /\ commitIndex' = [commitIndex EXCEPT ![n] = s.lastIncludedIndex]
      /\ lastApplied' = [lastApplied EXCEPT ![n] = s.lastIncludedIndex]
      /\ data' = [data EXCEPT ![n] = IF snapFile[n] = Nil THEN <<>> ELSE snapFile[n].data]
      /\ UNCHANGED <<snapFile, role, currentLeader, pending, snapQueue, answered, leadership,
                     ballot, messages, snapTasks, history, budget>>
  BY DEF Restart, s
<1>4. DiskType' /\ ProcessType'
  BY <1>2, <1>3, WriteType DEF TypeOK, DiskType, ProcessType
<1>5. ProgressType'
  <2>1. (IF snapFile[n] = Nil THEN <<>> ELSE snapFile[n].data) \in Seq(LogEntry)
    BY <1>1, EmptySeq DEF SnapshotBody
  <2> QED BY <1>2, <1>3, <2>1, HardStateFields DEF TypeOK, ProgressType
<1> QED
  BY <1>3, <1>4, <1>5
  DEF TypeOK, LeadershipType, NetworkType, HistoryType, BudgetType, leadership, history, budget

------------------------------------------------------------------------------
(* Every variable keeps its type, whatever the cluster's size and the      *)
(* bounds: no handler computes an entry outside its log, a negative index  *)
(* or a state without a log.                                               *)
LEMMA InitType == Init => TypeOK
<1> SUFFICES ASSUME Init PROVE TypeOK
  OBVIOUS
<1>1. NoIndex \in [Node -> Nat]
  BY DEF NoIndex
<1>2. Closed \in [open : BOOLEAN, heard : SUBSET Node, granted : SUBSET Node]
  BY DEF Closed
<1>3. DiskType /\ ProcessType
  BY <1>2, FreshStateType DEF Init, DiskType, ProcessType
<1>4. ProgressType
  BY <1>1, EmptySeq DEF Init, ProgressType
<1>5. LeadershipType
  BY <1>1 DEF Init, LeadershipType
<1>6. NetworkType /\ HistoryType /\ BudgetType
  BY DEF Init, NetworkType, HistoryType, BudgetType
<1> QED BY <1>3, <1>4, <1>5, <1>6 DEF TypeOK

LEMMA StepType ==
  ASSUME TypeOK, NEW n \in Node, Step(n)
  PROVE  TypeOK'
BY StartElectionType, StartElectionUnsavedType, ElectionEndsType, HeartbeatTickType,
   ClientRequestType, TriggerSnapshotType, TriggerSnapshotInterruptedType, CrashType, RestartType
DEF Step

LEMMA ReceiveType ==
  ASSUME TypeOK, NEW n \in Node, NEW m \in messages, Receive(n, m)
  PROVE  TypeOK'
BY ReceiveVoteType, HandleRequestVoteType, StaleAppendEntriesType, HandleAppendEntriesType,
   HandleResultType, StaleInstallSnapshotType, InstallSnapshotTermUnsavedType,
   RefuseSnapshotType, HandleInstallSnapshotType, InstallSnapshotInterruptedType
DEF Receive

(* Messages go to nodes. *)
LEMMA ReceiversAreNodes ==
  ASSUME NEW m \in Message
  PROVE  Receivers(m) \subseteq Node
BY DEF Receivers, Message, RequestVoteType, RequestVoteReplyType, AppendEntriesType, ResultType,
       InstallSnapshotType

LEMMA NextType == TypeOK /\ [Next]_vars => TypeOK'
<1> SUFFICES ASSUME TypeOK, [Next]_vars PROVE TypeOK'
  OBVIOUS
<1>1. CASE \E n \in Node : Step(n)
  BY <1>1, StepType
<1>2. CASE \E m \in messages : \E n \in Receivers(m) : Receive(n, m)
  BY <1>2, ReceiveType, ReceiversAreNodes DEF TypeOK, NetworkType
<1>3. CASE \E t \in snapTasks : ReadSnapshot(t)
  BY <1>3, ReadSnapshotType
<1>4. CASE UNCHANGED vars
  BY <1>4
  DEF vars, disk, progress, leadership, history, budget, TypeOK, DiskType, ProcessType,
      ProgressType, LeadershipType, NetworkType, HistoryType, BudgetType
<1> QED BY <1>1, <1>2, <1>3, <1>4 DEF Next

THEOREM TypeCorrect == Spec => []TypeOK
BY InitType, NextType, PTL DEF Spec

------------------------------------------------------------------------------
(* Elections.                                                              *)

(* No node's disk falls behind what it was, nor its memory behind its disk.*)
DiskStep ==
  \A n \in Node : NotBehind(hs'[n], hs[n]) /\ NotBehind(st'[n], hs'[n])

LEMMA NotBehindReflexive ==
  ASSUME NEW s, NEW t, s.currentTerm = t.currentTerm, s.votedFor = t.votedFor
  PROVE  NotBehind(s, t)
BY DEF NotBehind

LEMMA NotBehindTransitive ==
  ASSUME NEW r \in HardState, NEW s \in HardState, NEW t \in HardState,
         NotBehind(r, s), NotBehind(s, t)
  PROVE  NotBehind(r, t)
BY DEF NotBehind, HardState

LEMMA UpdateTermNotBehind ==
  ASSUME NEW s \in HardState, NEW term \in Nat
  PROVE  NotBehind(UpdateTerm(s, term), s)
BY UpdateTermFields DEF NotBehind

------------------------------------------------------------------------------
(* How a handler may change the disk and the memory of its node.           *)

LEMMA UnchangedDisk ==
  ASSUME MemoryNotBehind, UNCHANGED <<hs, st>>
  PROVE  DiskStep
BY DEF MemoryNotBehind, DiskStep, NotBehind

LEMMA WriteStep ==
  ASSUME TypeOK, MemoryNotBehind, NEW n \in Node, NEW s \in HardState,
         NotBehind(s, hs[n]), Write(n, s)
  PROVE  DiskStep
BY DEF Write, MemoryNotBehind, DiskStep, NotBehind, TypeOK, DiskType, ProcessType

LEMMA WriteFailsStep ==
  ASSUME TypeOK, MemoryNotBehind, NEW n \in Node,
         NEW s \in HardState, NEW memory \in HardState,
         NotBehind(s, st[n]), s.currentTerm = memory.currentTerm,
         s.votedFor = memory.votedFor, WriteFails(n, s, memory)
  PROVE  DiskStep
<1>1. hs[n] \in HardState /\ st[n] \in HardState /\ NotBehind(st[n], hs[n])
  BY DEF TypeOK, DiskType, ProcessType, MemoryNotBehind
<1>2. NotBehind(s, hs[n])
  BY <1>1, NotBehindTransitive
<1>3. NotBehind(memory, s) /\ NotBehind(memory, hs[n])
  BY <1>2 DEF NotBehind
<1> QED
  BY <1>2, <1>3
  DEF WriteFails, MemoryNotBehind, DiskStep, NotBehind, TypeOK, DiskType, ProcessType

(* A process that goes down after its disk became hs'. *)
LEMMA GoDownStep ==
  ASSUME TypeOK, MemoryNotBehind, NEW n \in Node, GoDown(n), NEW s \in HardState,
         NotBehind(s, hs[n]), hs' = [hs EXCEPT ![n] = s]
  PROVE  DiskStep
BY DEF GoDown, MemoryNotBehind, DiskStep, NotBehind, TypeOK, DiskType, ProcessType

(* It is enough that a handler does not fall behind the memory. *)
LEMMA AheadOfMemory ==
  ASSUME TypeOK, MemoryNotBehind, NEW n \in Node, NEW s \in HardState, NotBehind(s, st[n])
  PROVE  NotBehind(s, hs[n])
<1>1. hs[n] \in HardState /\ st[n] \in HardState /\ NotBehind(st[n], hs[n])
  BY DEF TypeOK, DiskType, ProcessType, MemoryNotBehind
<1> QED BY <1>1, NotBehindTransitive

------------------------------------------------------------------------------
(* What each handler writes.                                               *)

LEMMA CandidateNotBehind ==
  ASSUME TypeOK, NEW n \in Node
  PROVE  /\ IncrementTerm(st[n], n) \in HardState
         /\ NotBehind(IncrementTerm(st[n], n), st[n])
<1>1. st[n] \in HardState
  BY DEF TypeOK, ProcessType
<1>2. /\ IncrementTerm(st[n], n) \in HardState
      /\ IncrementTerm(st[n], n).currentTerm = st[n].currentTerm + 1
  BY <1>1, IncrementTermType
<1>3. st[n].currentTerm \in Nat
  BY <1>1, HardStateFields
<1> QED BY <1>2, <1>3 DEF NotBehind

LEMMA UpdatedNotBehind ==
  ASSUME TypeOK, NEW n \in Node, NEW m \in messages
  PROVE  /\ UpdateTerm(st[n], m.term) \in HardState
         /\ NotBehind(UpdateTerm(st[n], m.term), st[n])
<1>1. st[n] \in HardState /\ m.term \in Nat
  BY MessageKinds DEF TypeOK, ProcessType, NetworkType
<1> QED BY <1>1, UpdateTermType, UpdateTermNotBehind

LEMMA PushedNotBehind ==
  ASSUME TypeOK, NEW n \in Node, NEW v \in Value
  PROVE  /\ PushEntry(st[n], v) \in HardState
         /\ NotBehind(PushEntry(st[n], v), st[n])
         /\ PushEntry(st[n], v).currentTerm = st[n].currentTerm
         /\ PushEntry(st[n], v).votedFor = st[n].votedFor
<1>1. st[n] \in HardState /\ v \in Command
  BY DEF TypeOK, ProcessType, Command
<1> QED BY <1>1, PushEntryType DEF NotBehind

LEMMA CompactedNotBehind ==
  ASSUME NEW s \in HardState, NEW index \in Nat, NEW term \in Nat,
         index >= s.lastIncludedIndex
  PROVE  /\ CompactTo(s, index) \in HardState /\ NotBehind(CompactTo(s, index), s)
         /\ Reconciled(s, index, term) \in HardState
         /\ NotBehind(Reconciled(s, index, term), s)
         /\ CompactTo(s, index).currentTerm = s.currentTerm
         /\ Reconciled(s, index, term).currentTerm = s.currentTerm
<1>1. CompactTo(s, index) \in HardState /\ Reconciled(s, index, term) \in HardState
  BY CompactedType
<1>2. /\ CompactTo(s, index).currentTerm = s.currentTerm
      /\ CompactTo(s, index).votedFor = s.votedFor
  BY DEF CompactTo, StartAt, HardState
<1>3. /\ Reconciled(s, index, term).currentTerm = s.currentTerm
      /\ Reconciled(s, index, term).votedFor = s.votedFor
  BY DEF Reconciled, StartAt, HardState
<1> QED BY <1>1, <1>2, <1>3, NotBehindReflexive

LEMMA InstalledNotBehind ==
  ASSUME NEW s \in HardState, NEW index \in Nat, NEW term \in Nat
  PROVE  /\ InstalledAt(s, index, term) \in HardState
         /\ InstalledAt(s, index, term).currentTerm = s.currentTerm
         /\ InstalledAt(s, index, term).votedFor = s.votedFor
<1>1. InstalledAt(s, index, term) \in HardState
  BY InstalledAtType
<1>2. /\ InstalledAt(s, index, term).currentTerm = s.currentTerm
      /\ InstalledAt(s, index, term).votedFor = s.votedFor
  BY DEF InstalledAt, StartAt, HardState
<1> QED BY <1>1, <1>2

LEMMA TermSavedNotBehind ==
  ASSUME TypeOK, MemoryNotBehind, NEW n \in Node, NEW m \in messages, Delivered(n, m)
  PROVE  TermSaved(n, m) \in HardState /\ NotBehind(TermSaved(n, m), hs[n])
<1>1. UpdateTerm(st[n], m.term) \in HardState /\ NotBehind(UpdateTerm(st[n], m.term), hs[n])
  BY UpdatedNotBehind, AheadOfMemory
<1>2. NotBehind(hs[n], hs[n])
  BY NotBehindReflexive
<1> QED BY <1>1, <1>2, InstallSnapshotFields DEF TermSaved

LEMMA RecoveredNotBehind ==
  ASSUME TypeOK, NEW n \in Node
  PROVE  /\ Recovered(hs[n], snapFile[n]) \in HardState
         /\ NotBehind(Recovered(hs[n], snapFile[n]), hs[n])
<1>1. hs[n] \in HardState /\ snapFile[n] \in SnapshotBody \cup {Nil}
  BY DEF TypeOK, DiskType
<1>2. CASE snapFile[n] # Nil /\ snapFile[n].index > hs[n].lastIncludedIndex
  <2>1. snapFile[n].index \in Nat /\ snapFile[n].term \in Nat
    BY <1>1, <1>2 DEF SnapshotBody
  <2>2. snapFile[n].index >= hs[n].lastIncludedIndex
    BY <1>1, <1>2, <2>1, HardStateFields
  <2>3. Recovered(hs[n], snapFile[n]) = Reconciled(hs[n], snapFile[n].index, snapFile[n].term)
    BY <1>2 DEF Recovered
  <2> QED BY <1>1, <2>1, <2>2, <2>3, CompactedNotBehind
<1>3. CASE ~(snapFile[n] # Nil /\ snapFile[n].index > hs[n].lastIncludedIndex)
  BY <1>1, <1>3, NotBehindReflexive DEF Recovered
<1> QED BY <1>2, <1>3

------------------------------------------------------------------------------
(* Every step is a DiskStep.                                               *)

LEMMA StepDisk ==
  ASSUME TypeOK, MemoryNotBehind, NEW n \in Node, Step(n)
  PROVE  DiskStep
<1>1. CASE StartElection(n)
  BY <1>1, CandidateNotBehind, AheadOfMemory, WriteStep DEF StartElection
<1>2. CASE StartElectionUnsaved(n)
  BY <1>2, CandidateNotBehind, WriteFailsStep DEF StartElectionUnsaved
<1>3. CASE ElectionEnds(n)
  BY <1>3, UnchangedDisk DEF ElectionEnds, disk
<1>4. CASE HeartbeatTick(n)
  BY <1>4, UnchangedDisk DEF HeartbeatTick, disk
<1>5. ASSUME NEW v \in Value, ClientRequest(n, v)
      PROVE  DiskStep
  <2>1. CASE Write(n, PushEntry(st[n], v))
    BY <2>1, PushedNotBehind, AheadOfMemory, WriteStep
  <2>2. CASE WriteFails(n, PushEntry(st[n], v), st[n])
    <3>1. st[n] \in HardState
      BY DEF TypeOK, ProcessType
    <3> QED BY <2>2, <3>1, PushedNotBehind, WriteFailsStep
  <2> QED BY <1>5, <2>1, <2>2 DEF ClientRequest
<1>6. CASE TriggerSnapshot(n)
  <2>1. CASE UNCHANGED <<hs, st>>
    BY <2>1, UnchangedDisk
  <2>2. CASE lastApplied[n] > st[n].lastIncludedIndex /\ Write(n, CompactTo(st[n], lastApplied[n]))
    <3>1. st[n] \in HardState /\ lastApplied[n] \in Nat
      BY DEF TypeOK, ProcessType, ProgressType
    <3>2. lastApplied[n] >= st[n].lastIncludedIndex
      BY <2>2, <3>1, HardStateFields
    <3>3. /\ CompactTo(st[n], lastApplied[n]) \in HardState
          /\ NotBehind(CompactTo(st[n], lastApplied[n]), st[n])
      BY <3>1, <3>2, CompactedNotBehind
    <3> QED BY <2>2, <3>3, AheadOfMemory, WriteStep
  <2> QED BY <1>6, <2>1, <2>2 DEF TriggerSnapshot, disk
<1>7. CASE TriggerSnapshotInterrupted(n)
  <2>1. hs' = [hs EXCEPT ![n] = hs[n]] /\ hs[n] \in HardState
    BY <1>7 DEF TriggerSnapshotInterrupted, TypeOK, DiskType
  <2> QED BY <1>7, <2>1, NotBehindReflexive, GoDownStep DEF TriggerSnapshotInterrupted
<1>8. CASE Crash(n)
  <2>1. hs' = [hs EXCEPT ![n] = hs[n]] /\ hs[n] \in HardState
    BY <1>8 DEF Crash, disk, TypeOK, DiskType
  <2> QED BY <1>8, <2>1, NotBehindReflexive, GoDownStep DEF Crash
<1>9. CASE Restart(n)
  BY <1>9, RecoveredNotBehind, WriteStep DEF Restart
<1> QED BY <1>1, <1>2, <1>3, <1>4, <1>5, <1>6, <1>7, <1>8, <1>9 DEF Step

LEMMA VoteNotBehind ==
  ASSUME TypeOK, NEW n \in Node, NEW m \in messages, m.type = "RequestVote",
         NEW grant \in BOOLEAN, grant => UpdateTerm(st[n], m.term).votedFor \in {Nil, m.src}
  PROVE  LET s == UpdateTerm(st[n], m.term)
             voted == IF grant THEN [s EXCEPT !.votedFor = m.src] ELSE s
         IN  /\ voted \in HardState
             /\ NotBehind(voted, st[n])
             /\ voted.currentTerm = s.currentTerm
             /\ grant => voted.votedFor = m.src
<1> DEFINE s == UpdateTerm(st[n], m.term)
           voted == IF grant THEN [s EXCEPT !.votedFor = m.src] ELSE s
<1>1. s \in HardState /\ st[n] \in HardState /\ NotBehind(s, st[n])
  BY UpdatedNotBehind DEF TypeOK, ProcessType
<1>2. m.src \in Node
  BY MessageKinds DEF TypeOK, NetworkType
<1> HIDE DEF s
<1>3. voted \in HardState
  BY <1>1, <1>2, HardStateUpdates
<1>4. voted.currentTerm = s.currentTerm /\ (grant => voted.votedFor = m.src)
  BY <1>1 DEF HardState
<1>5. NotBehind(voted, s)
  BY <1>1, <1>4 DEF NotBehind, s
<1>6. NotBehind(voted, st[n])
  BY <1>1, <1>3, <1>5, NotBehindTransitive
<1> QED BY <1>3, <1>4, <1>6 DEF s

LEMMA ReceiveDisk ==
  ASSUME TypeOK, MemoryNotBehind, NEW n \in Node, NEW m \in messages, Receive(n, m)
  PROVE  DiskStep
<1>1. /\ UpdateTerm(st[n], m.term) \in HardState
      /\ NotBehind(UpdateTerm(st[n], m.term), st[n])
      /\ NotBehind(UpdateTerm(st[n], m.term), hs[n])
  BY UpdatedNotBehind, AheadOfMemory
<1>2. CASE ReceiveVote(n, m)
  <2>1. \/ Write(n, UpdateTerm(st[n], m.term))
        \/ UNCHANGED <<hs, st>>
    BY <1>2 DEF ReceiveVote
  <2> QED BY <1>1, <2>1, WriteStep, UnchangedDisk
<1>3. CASE HandleRequestVote(n, m)
  <2> DEFINE s == UpdateTerm(st[n], m.term)
             grant == /\ m.term >= s.currentTerm
                      /\ s.votedFor \in {Nil, m.src}
                      /\ IsLogUpToDate(s, m.lastLogIndex, m.lastLogTerm)
             voted == IF grant THEN [s EXCEPT !.votedFor = m.src] ELSE s
  <2>1. m.type = "RequestVote" /\ grant \in BOOLEAN
    BY <1>3 DEF HandleRequestVote, IsLogUpToDate
  <2>2. voted \in HardState /\ NotBehind(voted, st[n])
    BY <2>1, VoteNotBehind
  <2>3. Write(n, voted) \/ WriteFails(n, voted, voted)
    BY <1>3 DEF HandleRequestVote
  <2> HIDE DEF voted
  <2>4. NotBehind(voted, hs[n])
    BY <2>2, AheadOfMemory
  <2> QED BY <2>2, <2>3, <2>4, WriteStep, WriteFailsStep
<1>4. CASE StaleAppendEntries(n, m)
  BY <1>4, UnchangedDisk DEF StaleAppendEntries, disk
<1>5. CASE HandleAppendEntries(n, m)
  <2> DEFINE s == UpdateTerm(st[n], m.term)
             consistent == AppendConsistent(s, m.prevIndex, m.prevTerm)
             merged == IF consistent THEN WithEntries(s, m.prevIndex, m.entries) ELSE s
  <2>1. m \in AppendEntriesType
    BY <1>5, MessageKinds DEF HandleAppendEntries, TypeOK, NetworkType
  <2>2. /\ merged \in HardState /\ merged.currentTerm = s.currentTerm
        /\ merged.votedFor = s.votedFor
    BY <1>1, <2>1, WithEntriesType DEF AppendConsistent, AppendEntriesType
  <2>3. Write(n, merged) \/ WriteFails(n, merged, s)
    BY <1>5 DEF HandleAppendEntries
  <2>4. NotBehind(merged, st[n]) /\ NotBehind(merged, hs[n])
    BY <1>1, <2>2 DEF NotBehind
  <2> HIDE DEF merged, s
  <2> QED BY <1>1, <2>2, <2>3, <2>4, WriteStep, WriteFailsStep DEF s
<1>6. CASE HandleResult(n, m)
  <2>1. \/ Write(n, UpdateTerm(st[n], m.term))
        \/ UNCHANGED <<hs, st>>
    BY <1>6 DEF HandleResult
  <2> QED BY <1>1, <2>1, WriteStep, UnchangedDisk
<1>7. CASE StaleInstallSnapshot(n, m)
  BY <1>7, UnchangedDisk DEF StaleInstallSnapshot, disk
<1>8. CASE InstallSnapshotTermUnsaved(n, m)
  BY <1>1, <1>8, WriteFailsStep DEF InstallSnapshotTermUnsaved
<1>9. CASE RefuseSnapshot(n, m)
  <2> DEFINE s == UpdateTerm(st[n], m.term)
  <2>1. st[n] \in HardState /\ hs[n] \in HardState /\ NotBehind(st[n], hs[n]) /\ m.term \in Nat
    BY MessageKinds DEF TypeOK, DiskType, ProcessType, NetworkType, MemoryNotBehind
  <2>2. TermSaved(n, m) \in {s, hs[n]} /\ NotBehind(s, TermSaved(n, m))
    <3>1. CASE m.term > st[n].currentTerm
      BY <3>1, NotBehindReflexive DEF TermSaved
    <3>2. CASE ~(m.term > st[n].currentTerm)
      BY <1>1, <3>2 DEF TermSaved
    <3> QED BY <3>1, <3>2
  <2>3. NotBehind(hs[n], hs[n])
    BY NotBehindReflexive
  <2>4. /\ st' = [st EXCEPT ![n] = s]
        /\ hs' = [hs EXCEPT ![n] = TermSaved(n, m)]
    BY <1>9 DEF RefuseSnapshot
  <2>5. TermSaved(n, m) \in HardState /\ NotBehind(TermSaved(n, m), hs[n])
    BY <1>1, <2>1, <2>2, <2>3
  <2> HIDE DEF s
  <2> QED
    BY <2>2, <2>4, <2>5, NotBehindReflexive
    DEF DiskStep, MemoryNotBehind, TypeOK, ProcessType
<1>10. CASE HandleInstallSnapshot(n, m)
  <2> DEFINE s == InstalledAt(UpdateTerm(st[n], m.term), m.index, m.snapTerm)
  <2>1. m.index \in Nat /\ m.snapTerm \in Nat /\ Write(n, s)
    BY <1>10, InstallSnapshotFields DEF HandleInstallSnapshot
  <2>2. s \in HardState /\ NotBehind(s, hs[n])
    BY <1>1, <2>1, InstalledNotBehind DEF NotBehind
  <2> QED BY <2>1, <2>2, WriteStep
<1>11. CASE InstallSnapshotInterrupted(n, m)
  BY <1>11, TermSavedNotBehind, GoDownStep DEF InstallSnapshotInterrupted
<1> QED
  BY <1>2, <1>3, <1>4, <1>5, <1>6, <1>7, <1>8, <1>9, <1>10, <1>11 DEF Receive

LEMMA NextDisk ==
  ASSUME TypeOK, MemoryNotBehind, [Next]_vars
  PROVE  DiskStep
<1>1. CASE \E n \in Node : Step(n)
  BY <1>1, StepDisk
<1>2. CASE \E m \in messages : \E n \in Receivers(m) : Receive(n, m)
  BY <1>2, ReceiveDisk, ReceiversAreNodes DEF TypeOK, NetworkType
<1>3. CASE \E t \in snapTasks : ReadSnapshot(t)
  BY <1>3, UnchangedDisk DEF ReadSnapshot, disk
<1>4. CASE UNCHANGED vars
  BY <1>4, UnchangedDisk DEF vars, disk
<1> QED BY <1>1, <1>2, <1>3, <1>4 DEF Next

(* The memory of a node is never behind its disk (Fix 11 and Fix 15 keep   *)
(* it so when a write fails).                                              *)
THEOREM MemoryCorrect == Spec => []MemoryNotBehind
<1>1. Init => MemoryNotBehind
  BY NotBehindReflexive DEF Init, MemoryNotBehind
<1>2. TypeOK /\ MemoryNotBehind /\ [Next]_vars => MemoryNotBehind'
  BY NextDisk DEF DiskStep, MemoryNotBehind
<1> QED BY <1>1, <1>2, TypeCorrect, PTL DEF Spec

(* A disk's term never falls and its vote never changes within a term, for *)
(* any interleaving of handlers, crashes, restarts and failed writes.      *)
THEOREM DiskTermsMonotonic == Spec => DiskTermMonotonic
<1>1. TypeOK /\ MemoryNotBehind /\ [Next]_vars => [\A n \in Node : NotBehind(hs'[n], hs[n])]_vars
  BY NextDisk DEF DiskStep
<1> QED BY <1>1, TypeCorrect, MemoryCorrect, PTL DEF Spec, DiskTermMonotonic

------------------------------------------------------------------------------
(* Votes.                                                                  *)

LEMMA VotesGrow ==
  ASSUME messages \subseteq messages'
  PROVE  Votes \subseteq Votes'
BY DEF Votes

(* Only a request for votes or a granted reply is a vote. *)
LEMMA NoNewVotes ==
  ASSUME NEW ms, messages' = messages \cup ms,
         \A m \in ms : m.type \notin {"RequestVote", "RequestVoteReply"}
  PROVE  Votes' = Votes
BY DEF Votes

LEMMA VotesType ==
  ASSUME TypeOK
  PROVE  Votes \subseteq Node \X Nat \X Node
BY DEF Votes, TypeOK, NetworkType, Message, RequestVoteType, RequestVoteReplyType,
       AppendEntriesType, ResultType, InstallSnapshotType

(* A vote that is cast in a step is written to the disk in that step.      *)
NewVotesSaved ==
  \A v \in Votes' \ Votes :
    hs'[v[1]].currentTerm = v[2] /\ hs'[v[1]].votedFor = v[3]

(* Such steps keep what disks and votes have to do with each other.        *)
LEMMA VotesKept ==
  ASSUME TypeOK, TypeOK', ElectionInv, DiskStep, Votes \subseteq Votes', NewVotesSaved
  PROVE  /\ MemoryNotBehind' /\ VotesDurable' /\ OneVote'
         /\ \A e \in elected : Cardinality(VotersOf(e)') >= Majority
<1>1. MemoryNotBehind'
  BY DEF DiskStep, MemoryNotBehind
<1>2. /\ Votes \subseteq Node \X Nat \X Node
      /\ Votes' \subseteq Node \X Nat \X Node
  <2>1. Votes \subseteq Node \X Nat \X Node
    BY VotesType
  <2>2. TypeOK' => Votes' \subseteq Node \X Nat \X Node
    BY DEF Votes, TypeOK, NetworkType, Message, RequestVoteType, RequestVoteReplyType,
       AppendEntriesType, ResultType, InstallSnapshotType
  <2> QED BY <2>1, <2>2
<1>3. VotesDurable'
  <2> SUFFICES ASSUME NEW v \in Votes'
               PROVE  \/ hs'[v[1]].currentTerm > v[2]
                      \/ hs'[v[1]].currentTerm = v[2] /\ hs'[v[1]].votedFor = v[3]
    BY DEF VotesDurable
  <2>1. CASE v \notin Votes
    BY <2>1 DEF NewVotesSaved
  <2>2. CASE v \in Votes
    <3>1. /\ v[1] \in Node /\ v[2] \in Nat /\ v[3] \in Node /\ v[3] # Nil
      BY <1>2, NodeAssumption
    <3>2. \/ hs[v[1]].currentTerm > v[2]
          \/ hs[v[1]].currentTerm = v[2] /\ hs[v[1]].votedFor = v[3]
      BY <2>2 DEF ElectionInv, VotesDurable
    <3>3. /\ hs[v[1]].currentTerm \in Nat /\ hs'[v[1]].currentTerm \in Nat
      BY <3>1 DEF TypeOK, DiskType, HardState
    <3>4. NotBehind(hs'[v[1]], hs[v[1]])
      BY <3>1 DEF DiskStep
    <3> QED BY <3>1, <3>2, <3>3, <3>4 DEF NotBehind
  <2> QED BY <2>1, <2>2
<1>4. OneVote'
  <2>1. ASSUME NEW v \in Votes', NEW w \in Votes', v \notin Votes, v[1] = w[1], v[2] = w[2]
        PROVE  v[3] = w[3]
    <3>1. hs'[v[1]].currentTerm = v[2] /\ hs'[v[1]].votedFor = v[3]
      BY <2>1 DEF NewVotesSaved
    <3>2. \/ hs'[w[1]].currentTerm > w[2]
          \/ hs'[w[1]].currentTerm = w[2] /\ hs'[w[1]].votedFor = w[3]
      BY <1>3 DEF VotesDurable
    <3>3. v[2] \in Nat
      BY <1>2
    <3> QED BY <2>1, <3>1, <3>2, <3>3
  <2>2. ASSUME NEW v \in Votes, NEW w \in Votes, v[1] = w[1], v[2] = w[2]
        PROVE  v[3] = w[3]
    BY <2>2 DEF ElectionInv, OneVote
  <2>3. ASSUME NEW v \in Votes', NEW w \in Votes', v[1] = w[1], v[2] = w[2]
        PROVE  v[3] = w[3]
    <3>1. CASE v \notin Votes
      BY <2>1, <2>3, <3>1
    <3>2. CASE w \notin Votes
      BY <2>1, <2>3, <3>2
    <3>3. CASE v \in Votes /\ w \in Votes
      BY <2>2, <2>3, <3>3
    <3> QED BY <3>1, <3>2, <3>3
  <2> QED BY <2>3 DEF OneVote
<1>5. ASSUME NEW e \in elected
      PROVE  Cardinality(VotersOf(e)') >= Majority
  <2>1. VotersOf(e) \subseteq VotersOf(e)' /\ VotersOf(e)' \subseteq Node
    BY DEF VotersOf
  <2>2. IsFiniteSet(VotersOf(e)')
    BY <2>1, NodeAssumption, FS_Subset
  <2>3. /\ Cardinality(VotersOf(e)) <= Cardinality(VotersOf(e)')
        /\ Cardinality(VotersOf(e)) \in Nat /\ Cardinality(VotersOf(e)') \in Nat
    BY <2>1, <2>2, FS_Subset, FS_CardinalityType
  <2>4. Majority \in Nat
    BY NodeAssumption, FS_CardinalityType DEF Majority
  <2>5. Cardinality(VotersOf(e)) >= Majority
    BY DEF ElectionInv, LeadersBacked
  <2> QED BY <2>3, <2>4, <2>5
<1> QED BY <1>1, <1>3, <1>4, <1>5

(* A step that changes no term during an election and elects no one.       *)
LEMMA QuietStep ==
  ASSUME TypeOK, TypeOK', ElectionInv, DiskStep, Votes \subseteq Votes', NewVotesSaved,
         elected' = elected,
         \A n \in Node : ballot'[n].open =>
           /\ ballot[n].open /\ ballot'[n].granted = ballot[n].granted /\ up'[n]
           /\ st'[n].currentTerm = st[n].currentTerm
  PROVE  ElectionInv'
<1>1. /\ MemoryNotBehind' /\ VotesDurable' /\ OneVote'
      /\ \A e \in elected : Cardinality(VotersOf(e)') >= Majority
  BY VotesKept
<1>2. BallotsBacked'
  BY DEF ElectionInv, BallotsBacked
<1>3. LeadersBacked'
  BY <1>1 DEF LeadersBacked
<1> QED BY <1>1, <1>2, <1>3 DEF ElectionInv

(* A handler runs when its node has no election under way.                 *)
LEMMA HandlerStep ==
  ASSUME TypeOK, TypeOK', ElectionInv, DiskStep, Votes \subseteq Votes', NewVotesSaved,
         elected' = elected, NEW n \in Node, ~ballot[n].open,
         UNCHANGED <<up, ballot>>,
         \A p \in Node \ {n} : st'[p] = st[p]
  PROVE  ElectionInv'
<1>1. \A p \in Node : ballot'[p].open =>
           /\ ballot[p].open /\ ballot'[p].granted = ballot[p].granted /\ up'[p]
           /\ st'[p].currentTerm = st[p].currentTerm
  BY DEF ElectionInv, BallotsBacked
<1> QED BY <1>1, QuietStep

LEMMA OthersUntouched ==
  ASSUME TypeOK, NEW n \in Node, NEW s, NEW memory,
         \/ Write(n, s)
         \/ WriteFails(n, s, memory)
         \/ UNCHANGED st
  PROVE  \A p \in Node \ {n} : st'[p] = st[p]
BY DEF Write, WriteFails, TypeOK, ProcessType

(* A process that goes down takes its election with it.                    *)
LEMMA GoDownElection ==
  ASSUME TypeOK, TypeOK', ElectionInv, DiskStep, UNCHANGED messages,
         NEW n \in Node, GoDown(n)
  PROVE  ElectionInv'
<1>1. Votes' = Votes
  BY DEF Votes
<1>2. elected' = elected
  BY DEF GoDown, history
<1>3. ASSUME NEW p \in Node, ballot'[p].open
      PROVE  /\ ballot[p].open /\ ballot'[p].granted = ballot[p].granted /\ up'[p]
             /\ st'[p].currentTerm = st[p].currentTerm
  <2>1. p # n
    BY <1>3 DEF GoDown, Closed, TypeOK, ProcessType
  <2>2. ballot'[p] = ballot[p] /\ up'[p] = up[p] /\ st'[p] = st[p]
    BY <2>1 DEF GoDown, TypeOK, ProcessType
  <2> QED BY <1>3, <2>2 DEF ElectionInv, BallotsBacked
<1> QED BY <1>1, <1>2, <1>3, QuietStep DEF NewVotesSaved

(* start_election asks for votes after its own vote is durable.            *)
LEMMA StartElectionElection ==
  ASSUME TypeOK, TypeOK', ElectionInv, DiskStep, NEW n \in Node, StartElection(n)
  PROVE  ElectionInv'
<1> DEFINE s == IncrementTerm(st[n], n)
           vote == <<n, s.currentTerm, n>>
<1>1. s \in HardState /\ s.votedFor = n
  BY IncrementTermType DEF TypeOK, ProcessType
<1> HIDE DEF s
<1>2. Write(n, s) /\ Send({RequestVote(n, s)}) /\ UNCHANGED up
  BY DEF StartElection, s
<1>3. hs'[n] = s /\ st'[n] = s
  BY <1>2 DEF Write, TypeOK, DiskType, ProcessType
<1>4. Votes' = Votes \cup {vote}
  <2> DEFINE r == RequestVote(n, s)
  <2>1. r.type = "RequestVote" /\ <<r.src, r.term, r.src>> = vote
    BY DEF RequestVote
  <2>2. messages' = messages \cup {r}
    BY <1>2 DEF Send
  <2> HIDE DEF r, vote
  <2> QED BY <2>1, <2>2 DEF Votes
<1> HIDE DEF vote
<1>5. NewVotesSaved
  BY <1>1, <1>3, <1>4 DEF NewVotesSaved, vote
<1>6. /\ MemoryNotBehind' /\ VotesDurable' /\ OneVote'
      /\ \A e \in elected : Cardinality(VotersOf(e)') >= Majority
  BY <1>4, <1>5, VotesKept
<1>7. \A p \in Node \ {n} : st'[p] = st[p]
  BY <1>2, OthersUntouched
<1>8. BallotsBacked'
  <2> SUFFICES ASSUME NEW p \in Node, ballot'[p].open
               PROVE  /\ up'[p]
                      /\ \A q \in ballot'[p].granted : <<q, st'[p].currentTerm, p>> \in Votes'
    BY DEF BallotsBacked
  <2>1. CASE ballot' = ballot
    <3>1. ballot[p].open /\ p # n
      BY <2>1 DEF StartElection, Ready
    <3> QED BY <1>2, <1>4, <1>7, <2>1, <3>1 DEF ElectionInv, BallotsBacked
  <2>2. CASE ballot' = [ballot EXCEPT ![n] = [open |-> TRUE, heard |-> {}, granted |-> {n}]]
    <3>1. CASE p = n
      <4>1. ballot'[p].granted = {n}
        BY <2>2, <3>1 DEF TypeOK, ProcessType
      <4>2. up'[p]
        BY <1>2, <3>1 DEF StartElection, Ready
      <4> QED BY <1>3, <1>4, <3>1, <4>1, <4>2 DEF vote
    <3>2. CASE p # n
      <4>1. ballot'[p] = ballot[p]
        BY <2>2, <3>2 DEF TypeOK, ProcessType
      <4> QED BY <1>2, <1>4, <1>7, <3>2, <4>1 DEF ElectionInv, BallotsBacked
    <3> QED BY <3>1, <3>2
  <2> QED BY <2>1, <2>2 DEF StartElection
<1>9. LeadersBacked'
  <2>1. CASE UNCHANGED elected
    BY <1>6, <2>1 DEF LeadersBacked
  <2>2. CASE Majority = 1 /\ BecomeLeader(n, s)
    <3> PICK e : e = <<s.currentTerm, n>>
      OBVIOUS
    <3>1. elected' = elected \cup {e}
      BY <2>2 DEF BecomeLeader
    <3>2. {n} \subseteq VotersOf(e)' /\ VotersOf(e)' \subseteq Node
      BY <1>4 DEF VotersOf, vote
    <3>3. IsFiniteSet(VotersOf(e)')
      BY <3>2, NodeAssumption, FS_Subset
    <3>4. Cardinality({n}) = 1 /\ Cardinality({n}) <= Cardinality(VotersOf(e)')
      BY <3>2, <3>3, FS_Subset, FS_Singleton
    <3>5. Cardinality(VotersOf(e)') >= Majority
      BY <2>2, <3>3, <3>4, FS_CardinalityType
    <3> QED BY <1>6, <3>1, <3>5 DEF LeadersBacked
  <2> QED BY <2>1, <2>2 DEF StartElection, s
<1> QED BY <1>6, <1>8, <1>9 DEF ElectionInv

(* A candidate counts granted replies to its own request only.             *)
LEMMA ReceiveVoteElection ==
  ASSUME TypeOK, TypeOK', ElectionInv, DiskStep, NEW n \in Node, NEW m \in messages,
         n = m.dst, ReceiveVote(n, m)
  PROVE  ElectionInv'
<1> DEFINE granted == IF m.granted THEN ballot[n].granted \cup {m.src} ELSE ballot[n].granted
<1>1. granted \subseteq VotersOf(<<st[n].currentTerm, n>>)
  <2>1. \A q \in ballot[n].granted : q \in Node /\ <<q, st[n].currentTerm, n>> \in Votes
    BY DEF ReceiveVote, ElectionInv, BallotsBacked, TypeOK, ProcessType
  <2>2. m.granted => m.src \in Node /\ <<m.src, st[n].currentTerm, n>> \in Votes
    BY MessageKinds DEF ReceiveVote, Votes, TypeOK, NetworkType
  <2> QED BY <2>1, <2>2 DEF VotersOf
<1> HIDE DEF granted
<1>2. UNCHANGED up /\ up[n] /\ ballot[n].open
  BY DEF ReceiveVote
<1>3. CASE /\ Write(n, UpdateTerm(st[n], m.term))
           /\ ballot' = [ballot EXCEPT ![n] = Closed]
           /\ UNCHANGED <<messages, elected>>
  <2>1. \A p \in Node \ {n} : st'[p] = st[p]
    BY <1>3, OthersUntouched
  <2>2. \A p \in Node : ballot'[p].open => p # n /\ ballot'[p] = ballot[p]
    BY <1>3 DEF Closed, TypeOK, ProcessType
  <2>3. Votes' = Votes
    BY <1>3 DEF Votes
  <2> QED
    BY <1>2, <1>3, <2>1, <2>2, <2>3, QuietStep DEF NewVotesSaved, ElectionInv, BallotsBacked
<1>4. CASE /\ ballot' = [ballot EXCEPT ![n] =
                [open |-> TRUE, heard |-> @.heard \cup {m.src}, granted |-> granted]]
           /\ UNCHANGED <<hs, st, messages, elected>>
  <2>1. Votes' = Votes
    BY <1>4 DEF Votes
  <2>2. /\ MemoryNotBehind' /\ VotesDurable' /\ OneVote'
        /\ \A e \in elected : Cardinality(VotersOf(e)') >= Majority
    BY <2>1, VotesKept DEF NewVotesSaved
  <2>3. BallotsBacked'
    <3> SUFFICES ASSUME NEW p \in Node, ballot'[p].open
                 PROVE  /\ up'[p]
                        /\ \A q \in ballot'[p].granted : <<q, st'[p].currentTerm, p>> \in Votes'
      BY DEF BallotsBacked
    <3>1. CASE p = n
      <4>1. ballot'[p].granted = granted
        BY <1>4, <3>1 DEF TypeOK, ProcessType
      <4> QED BY <1>1, <1>2, <1>4, <2>1, <3>1, <4>1 DEF VotersOf
    <3>2. CASE p # n
      <4>1. ballot'[p] = ballot[p]
        BY <1>4, <3>2 DEF TypeOK, ProcessType
      <4> QED BY <1>2, <1>4, <2>1, <4>1 DEF ElectionInv, BallotsBacked
    <3> QED BY <3>1, <3>2
  <2> QED BY <1>4, <2>2, <2>3 DEF ElectionInv, LeadersBacked
<1>5. CASE /\ Cardinality(granted) >= Majority
           /\ BecomeLeader(n, st[n])
           /\ Send(Heartbeats(n, st[n], nextIndex'[n], commitIndex[n]))
           /\ ballot' = [ballot EXCEPT ![n] = Closed]
           /\ UNCHANGED <<hs, st>>
  <2> PICK e : e = <<st[n].currentTerm, n>>
    OBVIOUS
  <2> DEFINE ms == Heartbeats(n, st[n], nextIndex'[n], commitIndex[n])
  <2>1. Votes' = Votes
    <3>1. \A h \in ms : h.type = "AppendEntries"
      BY DEF Heartbeats, AppendEntries
    <3>2. messages' = messages \cup ms
      BY <1>5 DEF Send
    <3> HIDE DEF ms
    <3> QED BY <3>1, <3>2, NoNewVotes
  <2>2. /\ MemoryNotBehind' /\ VotesDurable' /\ OneVote'
        /\ \A f \in elected : Cardinality(VotersOf(f)') >= Majority
    BY <2>1, VotesKept DEF NewVotesSaved
  <2>3. BallotsBacked'
    <3>1. \A p \in Node : ballot'[p].open => ballot'[p] = ballot[p]
      BY <1>5 DEF Closed, TypeOK, ProcessType
    <3> QED BY <1>2, <1>5, <2>1, <3>1 DEF ElectionInv, BallotsBacked
  <2>4. elected' = elected \cup {e}
    BY <1>5 DEF BecomeLeader
  <2>5. Cardinality(VotersOf(e)') >= Majority
    <3>1. granted \subseteq VotersOf(e)' /\ VotersOf(e)' \subseteq Node
      BY <1>1, <2>1 DEF VotersOf
    <3>2. IsFiniteSet(VotersOf(e)') /\ IsFiniteSet(granted)
      BY <3>1, NodeAssumption, FS_Subset
    <3>3. /\ Cardinality(granted) <= Cardinality(VotersOf(e)')
          /\ Cardinality(granted) \in Nat /\ Cardinality(VotersOf(e)') \in Nat
      BY <3>1, <3>2, FS_Subset, FS_CardinalityType
    <3>4. Majority \in Nat
      BY NodeAssumption, FS_CardinalityType DEF Majority
    <3> QED BY <1>5, <3>3, <3>4
  <2> QED BY <2>2, <2>3, <2>4, <2>5 DEF ElectionInv, LeadersBacked
<1> QED BY <1>3, <1>4, <1>5 DEF ReceiveVote, granted

(* A vote is granted only once it is on the disk.                          *)
LEMMA HandleRequestVoteElection ==
  ASSUME TypeOK, TypeOK', ElectionInv, DiskStep, NEW n \in Node, NEW m \in messages,
         HandleRequestVote(n, m)
  PROVE  ElectionInv'
<1> DEFINE s == UpdateTerm(st[n], m.term)
           grant == /\ m.term >= s.currentTerm
                    /\ s.votedFor \in {Nil, m.src}
                    /\ IsLogUpToDate(s, m.lastLogIndex, m.lastLogTerm)
           voted == IF grant THEN [s EXCEPT !.votedFor = m.src] ELSE s
           reply(g) == RequestVoteReply(m, n, s.currentTerm, g)
<1>1. m.type = "RequestVote" /\ grant \in BOOLEAN
  BY DEF HandleRequestVote, IsLogUpToDate
<1>2. /\ voted \in HardState /\ voted.currentTerm = s.currentTerm
      /\ grant => voted.votedFor = m.src
  BY <1>1, VoteNotBehind
<1>3. grant => s.currentTerm = m.term
  <2>1. st[n] \in HardState /\ m.term \in Nat
    BY MessageKinds DEF TypeOK, ProcessType, NetworkType
  <2>2. st[n].currentTerm \in Nat
    BY <2>1, HardStateFields
  <2>3. CASE m.term > st[n].currentTerm
    BY <2>1, <2>3, UpdateTermFields
  <2>4. CASE ~(m.term > st[n].currentTerm)
    <3>1. s = st[n]
      BY <2>4 DEF UpdateTerm
    <3> QED BY <2>1, <2>2, <2>4, <3>1
  <2> QED BY <2>3, <2>4
<1>4. /\ ~ballot[n].open /\ UNCHANGED <<up, ballot, elected>>
      /\ Write(n, voted) \/ WriteFails(n, voted, voted)
  BY DEF HandleRequestVote, Ready, history
<1>5. \/ ~grant /\ messages' = messages \cup {reply(FALSE)}
      \/ grant /\ Write(n, voted) /\ messages' = messages \cup {reply(TRUE)}
      \/ messages' = messages \cup {reply(FALSE)}
  BY DEF HandleRequestVote, Send
<1>6. \A g \in BOOLEAN : /\ reply(g).type = "RequestVoteReply" /\ reply(g).granted = g
                         /\ reply(g).src = n /\ reply(g).forTerm = m.term /\ reply(g).dst = m.src
  BY DEF RequestVoteReply
<1> HIDE DEF s, grant, voted, reply
<1>7. Votes \subseteq Votes'
  BY <1>5, VotesGrow
<1>8. NewVotesSaved
  <2>1. CASE messages' = messages \cup {reply(FALSE)}
    BY <1>6, <2>1 DEF NewVotesSaved, Votes
  <2>2. CASE grant /\ Write(n, voted) /\ messages' = messages \cup {reply(TRUE)}
    <3>1. hs'[n] = voted
      BY <2>2 DEF Write, TypeOK, DiskType
    <3>2. Votes' \ Votes \subseteq {<<n, m.term, m.src>>}
      BY <1>6, <2>2 DEF Votes
    <3> QED BY <1>2, <1>3, <2>2, <3>1, <3>2 DEF NewVotesSaved
  <2> QED BY <1>5, <2>1, <2>2
<1>9. \A p \in Node \ {n} : st'[p] = st[p]
  BY <1>4, OthersUntouched
<1> QED BY <1>4, <1>7, <1>8, <1>9, HandlerStep

(* The other handlers send no vote and elect no one.                       *)
LEMMA QuietHandler ==
  ASSUME TypeOK, TypeOK', ElectionInv, DiskStep, NEW n \in Node, Ready(n),
         UNCHANGED <<up, ballot, elected>>,
         NEW ms, messages' = messages \cup ms,
         \A m \in ms : m.type \notin {"RequestVote", "RequestVoteReply"},
         \A p \in Node \ {n} : st'[p] = st[p]
  PROVE  ElectionInv'
<1>1. Votes' = Votes
  BY NoNewVotes
<1> QED BY <1>1, HandlerStep DEF Ready, NewVotesSaved

LEMMA SilentHandler ==
  ASSUME TypeOK, TypeOK', ElectionInv, DiskStep, NEW n \in Node, Ready(n),
         UNCHANGED <<up, ballot, elected, messages>>,
         \A p \in Node \ {n} : st'[p] = st[p]
  PROVE  ElectionInv'
<1>1. Votes' = Votes
  BY DEF Votes
<1> QED BY <1>1, HandlerStep DEF Ready, NewVotesSaved

LEMMA ReplicationMessages ==
  /\ \A n, s, next, commit : \A m \in Heartbeats(n, s, next, commit) :
       m.type \notin {"RequestVote", "RequestVoteReply"}
  /\ \A m, term, success, index :
       Result(m, term, success, index).type \notin {"RequestVote", "RequestVoteReply"}
  /\ \A t, body : InstallSnapshot(t, body).type \notin {"RequestVote", "RequestVoteReply"}
BY DEF Heartbeats, AppendEntries, Result, InstallSnapshot

LEMMA StepElection ==
  ASSUME TypeOK, TypeOK', ElectionInv, DiskStep, NEW n \in Node, Step(n)
  PROVE  ElectionInv'
<1>1. CASE StartElection(n)
  BY <1>1, StartElectionElection
<1>2. CASE StartElectionUnsaved(n)
  <2>1. Ready(n) /\ UNCHANGED <<up, ballot, elected, messages>>
    BY <1>2 DEF StartElectionUnsaved, history
  <2>2. \A p \in Node \ {n} : st'[p] = st[p]
    BY <1>2, OthersUntouched DEF StartElectionUnsaved
  <2> QED BY <2>1, <2>2, SilentHandler
<1>3. CASE ElectionEnds(n)
  <2>1. Votes' = Votes /\ UNCHANGED <<up, st, elected>>
    BY <1>3 DEF ElectionEnds, Votes, history
  <2>2. \A p \in Node : ballot'[p].open => ballot'[p] = ballot[p]
    BY <1>3 DEF ElectionEnds, Closed, TypeOK, ProcessType
  <2> QED BY <2>1, <2>2, QuietStep DEF NewVotesSaved, ElectionInv, BallotsBacked
<1>4. CASE HeartbeatTick(n)
  <2> DEFINE ms == Heartbeats(n, st[n], nextIndex[n], commitIndex[n])
  <2>1. /\ Ready(n) /\ UNCHANGED <<up, ballot, elected, st>> /\ messages' = messages \cup ms
    BY <1>4 DEF HeartbeatTick, SendHeartbeats, Send, history
  <2>2. \A m \in ms : m.type \notin {"RequestVote", "RequestVoteReply"}
    BY ReplicationMessages
  <2> HIDE DEF ms
  <2> QED BY <2>1, <2>2, QuietHandler
<1>5. ASSUME NEW v \in Value, ClientRequest(n, v)
      PROVE  ElectionInv'
  <2> DEFINE ms == Heartbeats(n, PushEntry(st[n], v), nextIndex[n], commitIndex[n])
  <2>1. \A m \in ms : m.type \notin {"RequestVote", "RequestVoteReply"}
    BY ReplicationMessages
  <2>2. Ready(n) /\ UNCHANGED <<up, ballot, elected>>
    BY <1>5 DEF ClientRequest
  <2>3. messages' = messages \cup ms \/ UNCHANGED messages
    BY <1>5 DEF ClientRequest, SendHeartbeats, Send
  <2>4. \A p \in Node \ {n} : st'[p] = st[p]
    BY <1>5, OthersUntouched DEF ClientRequest
  <2> HIDE DEF ms
  <2> QED BY <2>1, <2>2, <2>3, <2>4, QuietHandler, SilentHandler
<1>6. CASE TriggerSnapshot(n)
  <2>1. Ready(n) /\ UNCHANGED <<up, ballot, elected, messages>>
    BY <1>6 DEF TriggerSnapshot, history
  <2>2. \A p \in Node \ {n} : st'[p] = st[p]
    BY <1>6, OthersUntouched DEF TriggerSnapshot, disk
  <2> QED BY <2>1, <2>2, SilentHandler
<1>7. CASE TriggerSnapshotInterrupted(n)
  BY <1>7, GoDownElection DEF TriggerSnapshotInterrupted
<1>8. CASE Crash(n)
  BY <1>8, GoDownElection DEF Crash
<1>9. CASE Restart(n)
  <2>1. Votes' = Votes /\ UNCHANGED <<ballot, elected>> /\ ~up[n]
    BY <1>9 DEF Restart, Votes, history
  <2>2. \A p \in Node : ballot'[p].open => p # n
    BY <2>1 DEF ElectionInv, BallotsBacked
  <2>3. \A p \in Node \ {n} : st'[p] = st[p] /\ up'[p] = up[p]
    BY <1>9, OthersUntouched DEF Restart, TypeOK, ProcessType
  <2> QED BY <2>1, <2>2, <2>3, QuietStep DEF NewVotesSaved, ElectionInv, BallotsBacked
<1> QED BY <1>1, <1>2, <1>3, <1>4, <1>5, <1>6, <1>7, <1>8, <1>9 DEF Step

LEMMA ReceiveElection ==
  ASSUME TypeOK, TypeOK', ElectionInv, DiskStep, NEW m \in messages, NEW n \in Receivers(m),
         Receive(n, m)
  PROVE  ElectionInv'
<1>1. n \in Node /\ (m.type # "RequestVote" => n = m.dst)
  BY ReceiversAreNodes DEF Receivers, TypeOK, NetworkType
<1>2. CASE ReceiveVote(n, m)
  BY <1>1, <1>2, ReceiveVoteElection DEF ReceiveVote
<1>3. CASE HandleRequestVote(n, m)
  BY <1>1, <1>3, HandleRequestVoteElection
<1>4. ASSUME NEW term, NEW success, NEW index,
             Send({Result(m, term, success, index)}),
             Ready(n), UNCHANGED <<up, ballot, elected>>,
             \A p \in Node \ {n} : st'[p] = st[p]
      PROVE  ElectionInv'
  <2> DEFINE ms == {Result(m, term, success, index)}
  <2>1. messages' = messages \cup ms
    BY <1>4 DEF Send
  <2>2. \A r \in ms : r.type \notin {"RequestVote", "RequestVoteReply"}
    BY ReplicationMessages
  <2> HIDE DEF ms
  <2> QED BY <1>1, <1>4, <2>1, <2>2, QuietHandler
<1>5. CASE StaleAppendEntries(n, m)
  BY <1>1, <1>4, <1>5 DEF StaleAppendEntries, history
<1>6. CASE HandleAppendEntries(n, m)
  <2>1. Ready(n) /\ UNCHANGED <<up, ballot, elected>>
    BY <1>6 DEF HandleAppendEntries, history
  <2>2. \A p \in Node \ {n} : st'[p] = st[p]
    BY <1>1, <1>6, OthersUntouched DEF HandleAppendEntries
  <2>3. \E term, success, index : Send({Result(m, term, success, index)})
    BY <1>6 DEF HandleAppendEntries
  <2> QED BY <1>4, <2>1, <2>2, <2>3
<1>7. CASE HandleResult(n, m)
  <2>1. Ready(n) /\ UNCHANGED <<up, ballot, elected, messages>>
    BY <1>7 DEF HandleResult
  <2>2. \A p \in Node \ {n} : st'[p] = st[p]
    BY <1>1, <1>7, OthersUntouched DEF HandleResult
  <2> QED BY <1>1, <2>1, <2>2, SilentHandler
<1>8. CASE StaleInstallSnapshot(n, m)
  BY <1>1, <1>4, <1>8 DEF StaleInstallSnapshot, history
<1>9. CASE InstallSnapshotTermUnsaved(n, m)
  <2>1. \A p \in Node \ {n} : st'[p] = st[p]
    BY <1>1, <1>9, OthersUntouched DEF InstallSnapshotTermUnsaved
  <2> QED BY <1>4, <1>9, <2>1 DEF InstallSnapshotTermUnsaved, history
<1>10. CASE RefuseSnapshot(n, m)
  <2>1. \A p \in Node \ {n} : st'[p] = st[p]
    BY <1>10 DEF RefuseSnapshot, TypeOK, ProcessType
  <2> QED BY <1>4, <1>10, <2>1 DEF RefuseSnapshot, history
<1>11. CASE HandleInstallSnapshot(n, m)
  <2>1. \A p \in Node \ {n} : st'[p] = st[p]
    BY <1>1, <1>11, OthersUntouched DEF HandleInstallSnapshot
  <2> QED BY <1>4, <1>11, <2>1 DEF HandleInstallSnapshot, history
<1>12. CASE InstallSnapshotInterrupted(n, m)
  BY <1>1, <1>12, GoDownElection DEF InstallSnapshotInterrupted
<1> QED
  BY <1>2, <1>3, <1>5, <1>6, <1>7, <1>8, <1>9, <1>10, <1>11, <1>12 DEF Receive

LEMMA NextElection ==
  ASSUME TypeOK, TypeOK', ElectionInv, [Next]_vars
  PROVE  ElectionInv'
<1>1. DiskStep
  BY NextDisk DEF ElectionInv
<1>2. CASE \E n \in Node : Step(n)
  BY <1>1, <1>2, StepElection
<1>3. CASE \E m \in messages : \E n \in Receivers(m) : Receive(n, m)
  BY <1>1, <1>3, ReceiveElection
<1>4. ASSUME UNCHANGED <<up, st, ballot, elected>>, Votes' = Votes
      PROVE  ElectionInv'
  BY <1>1, <1>4, QuietStep DEF NewVotesSaved, ElectionInv, BallotsBacked
<1>5. ASSUME NEW t \in snapTasks, ReadSnapshot(t)
      PROVE  ElectionInv'
  <2> DEFINE ms == {InstallSnapshot(t, snapFile[t.src])}
  <2>1. messages' = messages \cup ms /\ UNCHANGED <<up, st, ballot, elected>>
    BY <1>5 DEF ReadSnapshot, Send, history
  <2>2. \A m \in ms : m.type \notin {"RequestVote", "RequestVoteReply"}
    BY ReplicationMessages
  <2> HIDE DEF ms
  <2>3. Votes' = Votes
    BY <2>1, <2>2, NoNewVotes
  <2> QED BY <1>4, <2>1, <2>3
<1>6. CASE UNCHANGED vars
  BY <1>4, <1>6 DEF vars, history, Votes
<1> QED BY <1>2, <1>3, <1>5, <1>6 DEF Next

------------------------------------------------------------------------------
(* The theorems.                                                           *)

(* The inductive invariant holds of every reachable state.                 *)
THEOREM ElectionsInvariant == Spec => []ElectionInv
<1>1. Init => ElectionInv
  <2> SUFFICES ASSUME Init PROVE ElectionInv
    OBVIOUS
  <2>1. Votes = {}
    BY DEF Init, Votes
  <2>2. MemoryNotBehind
    BY NotBehindReflexive DEF Init, MemoryNotBehind
  <2>3. BallotsBacked
    BY DEF Init, BallotsBacked, Closed
  <2>4. LeadersBacked
    BY DEF Init, LeadersBacked
  <2> QED BY <2>1, <2>2, <2>3, <2>4 DEF ElectionInv, VotesDurable, OneVote
<1>2. TypeOK /\ TypeOK' /\ ElectionInv /\ [Next]_vars => ElectionInv'
  BY NextElection
<1> QED BY <1>1, <1>2, TypeCorrect, PTL DEF Spec

(* Whatever crashes, restarts and failed writes happen, a vote that a      *)
(* candidate may count is on its voter's disk until a later term replaces  *)
(* it.                                                                     *)
THEOREM VotesAreDurable == Spec => []VotesDurable
<1>1. ElectionInv => VotesDurable
  BY DEF ElectionInv
<1> QED BY <1>1, ElectionsInvariant, PTL

(* No node's vote is counted for two candidates of a term.                 *)
THEOREM VotesAreUnique == Spec => []OneVote
<1>1. ElectionInv => OneVote
  BY DEF ElectionInv
<1> QED BY <1>1, ElectionsInvariant, PTL

(* Two quorums of one term share a voter, who voted once.                  *)
LEMMA ElectionInvSafe == ElectionInv => ElectionSafety
<1> SUFFICES ASSUME ElectionInv, NEW e \in elected, NEW f \in elected, e[1] = f[1]
             PROVE  e[2] = f[2]
  BY DEF ElectionSafety
<1>1. VotersOf(e) \subseteq Node /\ VotersOf(f) \subseteq Node
  BY DEF VotersOf
<1>2. IsFiniteSet(Node) /\ IsFiniteSet(VotersOf(e)) /\ IsFiniteSet(VotersOf(f))
  BY <1>1, NodeAssumption, FS_Subset
<1>3. /\ Cardinality(Node) \in Nat
      /\ Cardinality(VotersOf(e)) \in Nat /\ Cardinality(VotersOf(f)) \in Nat
  BY <1>2, FS_CardinalityType
<1>4. Cardinality(VotersOf(e)) >= Majority /\ Cardinality(VotersOf(f)) >= Majority
  BY DEF ElectionInv, LeadersBacked
<1>5. Cardinality(VotersOf(e)) + Cardinality(VotersOf(f)) > Cardinality(Node)
  BY <1>3, <1>4 DEF Majority
<1>6. PICK q \in VotersOf(e) : q \in VotersOf(f)
  BY <1>1, <1>2, <1>5, FS_MajoritiesIntersect
<1> QED BY <1>6 DEF ElectionInv, OneVote, VotersOf

(* At most one leader is elected in a term, in a cluster of any size.      *)
THEOREM OneLeaderPerTerm == Spec => []ElectionSafety
BY ElectionsInvariant, ElectionInvSafe, PTL

------------------------------------------------------------------------------
(* Leaders.                                                                *)

(* What belongs to a node, its files included, stays as it is.             *)
Untouched(p) ==
  /\ hs'[p] = hs[p] /\ snapFile'[p] = snapFile[p]
  /\ up'[p] = up[p] /\ st'[p] = st[p] /\ role'[p] = role[p]
  /\ currentLeader'[p] = currentLeader[p] /\ ballot'[p] = ballot[p]
  /\ commitIndex'[p] = commitIndex[p] /\ lastApplied'[p] = lastApplied[p]
  /\ data'[p] = data[p]
  /\ nextIndex'[p] = nextIndex[p] /\ matchIndex'[p] = matchIndex[p]

LEMMA GoDownOthers ==
  ASSUME TypeOK, NEW n \in Node, GoDown(n), NEW p \in Node \ {n},
         hs'[p] = hs[p], snapFile'[p] = snapFile[p]
  PROVE  Untouched(p)
BY DEF GoDown, StepDown, Untouched, TypeOK, ProcessType, ProgressType, LeadershipType

LEMMA WriteOthers ==
  ASSUME TypeOK, NEW n \in Node, NEW s, NEW memory, NEW p \in Node \ {n},
         Write(n, s) \/ WriteFails(n, s, memory)
  PROVE  hs'[p] = hs[p] /\ st'[p] = st[p]
BY DEF Write, WriteFails, TypeOK, ProcessType, DiskType

LEMMA ProgressOthers ==
  ASSUME TypeOK, NEW n \in Node, NEW s, NEW x, NEW waiting, NEW p \in Node \ {n},
         ApplyCommitted(n, s, x, waiting) \/ AdvanceCommit(n, s, x, waiting)
  PROVE  /\ commitIndex'[p] = commitIndex[p] /\ lastApplied'[p] = lastApplied[p]
         /\ data'[p] = data[p]
BY DEF ApplyCommitted, AdvanceCommit, TypeOK, ProgressType

LEMMA BecomeLeaderOthers ==
  ASSUME TypeOK, NEW n \in Node, NEW s, NEW p \in Node \ {n}, BecomeLeader(n, s)
  PROVE  /\ role'[p] = role[p] /\ currentLeader'[p] = currentLeader[p]
         /\ nextIndex'[p] = nextIndex[p] /\ matchIndex'[p] = matchIndex[p]
BY DEF BecomeLeader, TypeOK, ProcessType, LeadershipType

LEMMA FollowOthers ==
  ASSUME TypeOK, NEW n \in Node, NEW leader, NEW p \in Node \ {n},
         Follow(n, leader) \/ StepDown(n)
  PROVE  role'[p] = role[p] /\ currentLeader'[p] = currentLeader[p]
BY DEF Follow, StepDown, TypeOK, ProcessType

(* A step of a node touches no other node.                                 *)
LEMMA StepOthers ==
  ASSUME TypeOK, NEW n \in Node, Step(n), NEW p \in Node \ {n}
  PROVE  Untouched(p)
<1> USE DEF Untouched, progress, leadership, disk
<1>1. CASE StartElection(n)
  <2>1. hs'[p] = hs[p] /\ st'[p] = st[p]
    BY <1>1, WriteOthers DEF StartElection
  <2>2. CASE BecomeLeader(n, IncrementTerm(st[n], n)) /\ UNCHANGED ballot
    BY <1>1, <2>1, <2>2, BecomeLeaderOthers DEF StartElection
  <2>3. CASE /\ role' = [role EXCEPT ![n] = "Candidate"]
             /\ currentLeader' = [currentLeader EXCEPT ![n] = Nil]
             /\ ballot' = [ballot EXCEPT ![n] = [open |-> TRUE, heard |-> {}, granted |-> {n}]]
             /\ UNCHANGED leadership
    BY <1>1, <2>1, <2>3 DEF StartElection, TypeOK, ProcessType
  <2> QED BY <1>1, <2>2, <2>3 DEF StartElection
<1>2. CASE StartElectionUnsaved(n)
  BY <1>2, WriteOthers, FollowOthers DEF StartElectionUnsaved
<1>3. CASE ElectionEnds(n)
  BY <1>3 DEF ElectionEnds, TypeOK, ProcessType
<1>4. CASE HeartbeatTick(n)
  BY <1>4 DEF HeartbeatTick
<1>5. ASSUME NEW v \in Value, ClientRequest(n, v)
      PROVE  Untouched(p)
  <2>1. hs'[p] = hs[p] /\ st'[p] = st[p]
    BY <1>5, WriteOthers DEF ClientRequest
  <2>2. /\ commitIndex'[p] = commitIndex[p] /\ lastApplied'[p] = lastApplied[p]
        /\ data'[p] = data[p]
    BY <1>5, ProgressOthers DEF ClientRequest
  <2> QED BY <1>5, <2>1, <2>2 DEF ClientRequest
<1>6. CASE TriggerSnapshot(n)
  BY <1>6, WriteOthers DEF TriggerSnapshot, TypeOK, DiskType
<1>7. CASE TriggerSnapshotInterrupted(n)
  <2>1. GoDown(n) /\ hs'[p] = hs[p] /\ snapFile'[p] = snapFile[p]
    BY <1>7 DEF TriggerSnapshotInterrupted, TypeOK, DiskType
  <2> QED BY <2>1, GoDownOthers
<1>8. CASE Crash(n)
  BY <1>8, GoDownOthers DEF Crash
<1>9. CASE Restart(n)
  <2>1. hs'[p] = hs[p] /\ st'[p] = st[p]
    BY <1>9, WriteOthers DEF Restart
  <2> QED BY <1>9, <2>1 DEF Restart, TypeOK, ProcessType, ProgressType
<1> QED BY <1>1, <1>2, <1>3, <1>4, <1>5, <1>6, <1>7, <1>8, <1>9 DEF Step

LEMMA ReceiveOthers ==
  ASSUME TypeOK, NEW n \in Node, NEW m \in messages, Receive(n, m), NEW p \in Node \ {n}
  PROVE  Untouched(p)
<1> USE DEF Untouched, progress, leadership, disk
<1>1. CASE ReceiveVote(n, m)
  <2>1. hs'[p] = hs[p] /\ st'[p] = st[p]
    BY <1>1, WriteOthers DEF ReceiveVote
  <2>2. ballot'[p] = ballot[p]
    BY <1>1 DEF ReceiveVote, TypeOK, ProcessType
  <2>3. /\ role'[p] = role[p] /\ currentLeader'[p] = currentLeader[p]
        /\ nextIndex'[p] = nextIndex[p] /\ matchIndex'[p] = matchIndex[p]
    BY <1>1, FollowOthers, BecomeLeaderOthers DEF ReceiveVote
  <2> QED BY <1>1, <2>1, <2>2, <2>3 DEF ReceiveVote
<1>2. CASE HandleRequestVote(n, m)
  <2>1. hs'[p] = hs[p] /\ st'[p] = st[p]
    BY <1>2, WriteOthers DEF HandleRequestVote
  <2> QED BY <1>2, <2>1, FollowOthers DEF HandleRequestVote
<1>3. CASE StaleAppendEntries(n, m)
  BY <1>3 DEF StaleAppendEntries
<1>4. CASE HandleAppendEntries(n, m)
  <2>1. hs'[p] = hs[p] /\ st'[p] = st[p]
    BY <1>4, WriteOthers DEF HandleAppendEntries
  <2>2. /\ commitIndex'[p] = commitIndex[p] /\ lastApplied'[p] = lastApplied[p]
        /\ data'[p] = data[p]
    BY <1>4, ProgressOthers DEF HandleAppendEntries
  <2> QED BY <1>4, <2>1, <2>2, FollowOthers DEF HandleAppendEntries
<1>5. CASE HandleResult(n, m)
  <2>1. hs'[p] = hs[p] /\ st'[p] = st[p]
    BY <1>5, WriteOthers DEF HandleResult
  <2>2. /\ commitIndex'[p] = commitIndex[p] /\ lastApplied'[p] = lastApplied[p]
        /\ data'[p] = data[p]
    BY <1>5, ProgressOthers DEF HandleResult
  <2>3. nextIndex'[p] = nextIndex[p] /\ matchIndex'[p] = matchIndex[p]
    BY <1>5 DEF HandleResult, TypeOK, LeadershipType
  <2>4. role'[p] = role[p] /\ currentLeader'[p] = currentLeader[p]
    BY <1>5, FollowOthers DEF HandleResult
  <2> QED BY <1>5, <2>1, <2>2, <2>3, <2>4 DEF HandleResult
<1>6. CASE StaleInstallSnapshot(n, m)
  BY <1>6 DEF StaleInstallSnapshot
<1>7. CASE InstallSnapshotTermUnsaved(n, m)
  BY <1>7, WriteOthers, FollowOthers DEF InstallSnapshotTermUnsaved
<1>8. CASE RefuseSnapshot(n, m)
  BY <1>8, FollowOthers DEF RefuseSnapshot, TypeOK, DiskType, ProcessType
<1>9. CASE HandleInstallSnapshot(n, m)
  BY <1>9, WriteOthers, FollowOthers, ZenonT(60) DEF HandleInstallSnapshot, TypeOK, DiskType, ProgressType
<1>10. CASE InstallSnapshotInterrupted(n, m)
  <2>1. GoDown(n) /\ hs'[p] = hs[p] /\ snapFile'[p] = snapFile[p]
    BY <1>10 DEF InstallSnapshotInterrupted, TypeOK, DiskType
  <2> QED BY <2>1, GoDownOthers
<1> QED BY <1>1, <1>2, <1>3, <1>4, <1>5, <1>6, <1>7, <1>8, <1>9, <1>10 DEF Receive

------------------------------------------------------------------------------
(* Who sends.                                                              *)

RightlySent(m) ==
  /\ m.type \in {"AppendEntries", "InstallSnapshot"} =>
       <<m.term, m.src>> \in elected' /\ m.dst # m.src
  /\ m.type = "AppendEntriesResult" /\ m.success =>
       <<m.term, m.dst>> \in elected' /\ m.dst # m.src

LEMMA SentKept ==
  ASSUME SentByElected, elected \subseteq elected',
         \A m \in messages' \ messages : RightlySent(m),
         \A t \in snapTasks' \ snapTasks : <<t.term, t.src>> \in elected' /\ t.dst # t.src
  PROVE  SentByElected'
BY DEF SentByElected, Appends, Installs, Acks, RightlySent

LEMMA HeartbeatFields ==
  ASSUME NEW n, NEW s, NEW next, NEW commit, NEW m \in Heartbeats(n, s, next, commit)
  PROVE  /\ m.type = "AppendEntries" /\ m.src = n /\ m.term = s.currentTerm
         /\ m.dst \in Node \ {n} /\ next[m.dst] > s.lastIncludedIndex
         /\ m = AppendEntries(n, m.dst, s, next[m.dst], commit)
<1>1. PICK p \in {q \in Node \ {n} : next[q] > s.lastIncludedIndex} :
        m = AppendEntries(n, p, s, next[p], commit)
  BY DEF Heartbeats
<1> QED BY <1>1 DEF AppendEntries

LEMMA SnapshotTaskFields ==
  ASSUME NEW n, NEW s, NEW next, NEW t \in SnapshotTasks(n, s, next)
  PROVE  /\ t.src = n /\ t.term = s.currentTerm /\ t.dst \in Node \ {n}
         /\ t.index = s.lastIncludedIndex /\ t.snapTerm = s.lastIncludedTerm
BY DEF SnapshotTasks, SnapshotTask

LEMMA LeaderSends ==
  ASSUME NEW n \in Node, NEW s, NEW next, NEW commit, <<s.currentTerm, n>> \in elected'
  PROVE  /\ \A m \in Heartbeats(n, s, next, commit) : RightlySent(m)
         /\ \A t \in SnapshotTasks(n, s, next) :
              <<t.term, t.src>> \in elected' /\ t.dst # t.src
BY HeartbeatFields, SnapshotTaskFields DEF RightlySent

LEMMA ResultFields ==
  ASSUME NEW m, NEW term, NEW success \in BOOLEAN, NEW index
  PROVE  /\ Result(m, term, success, index).type = "AppendEntriesResult"
         /\ Result(m, term, success, index).src = m.dst
         /\ Result(m, term, success, index).dst = m.src
         /\ Result(m, term, success, index).term = term
         /\ Result(m, term, success, index).success = success
         /\ success => Result(m, term, success, index).lastLogIndex = index
         /\ ~success => Result(m, term, success, index).lastLogIndex = 0
BY DEF Result

(* A step that sends at most a refusal.                                    *)
LEMMA RefusalSent ==
  ASSUME SentByElected, elected' = elected, NEW m, NEW term, NEW index,
         Send({Result(m, term, FALSE, index)}), UNCHANGED snapTasks
  PROVE  SentByElected'
<1> DEFINE r == Result(m, term, FALSE, index)
<1>1. RightlySent(r)
  BY ResultFields DEF RightlySent
<1> HIDE DEF r
<1> QED BY <1>1, SentKept DEF Send, r

LEMMA NothingSent ==
  ASSUME SentByElected, elected' = elected, UNCHANGED messages, snapTasks' \subseteq snapTasks
  PROVE  SentByElected'
BY DEF SentByElected, Appends, Installs, Acks

LEMMA StepSends ==
  ASSUME TypeOK, LeaderInv, NEW n \in Node, Step(n)
  PROVE  SentByElected'
<1>1. SentByElected /\ LeadersElected
  BY DEF LeaderInv
<1>2. CASE StartElection(n)
  <2> DEFINE s == IncrementTerm(st[n], n)
             r == RequestVote(n, s)
             next == [p \in Node |-> IF p = n THEN 0 ELSE LastLogIndex(s) + 1]
  <2>1. messages' = messages \cup {r}
    BY <1>2 DEF StartElection, Send
  <2>2. RightlySent(r)
    BY DEF RequestVote, RightlySent
  <2>3. \/ elected' = elected /\ snapTasks' = snapTasks
        \/ /\ elected' = elected \cup {<<s.currentTerm, n>>}
           /\ snapTasks' = snapTasks \cup SnapshotTasks(n, s, next)
    BY <1>2 DEF StartElection, BecomeLeader
  <2> HIDE DEF s, r, next
  <2>4. CASE elected' = elected /\ snapTasks' = snapTasks
    BY <1>1, <2>1, <2>2, <2>4, SentKept
  <2>5. CASE /\ elected' = elected \cup {<<s.currentTerm, n>>}
             /\ snapTasks' = snapTasks \cup SnapshotTasks(n, s, next)
    <3>1. \A t \in SnapshotTasks(n, s, next) : <<t.term, t.src>> \in elected' /\ t.dst # t.src
      BY <2>5, LeaderSends
    <3> QED BY <1>1, <2>1, <2>2, <2>5, <3>1, SentKept
  <2> QED BY <2>3, <2>4, <2>5
<1>3. CASE StartElectionUnsaved(n)
  BY <1>1, <1>3, NothingSent DEF StartElectionUnsaved, history
<1>4. CASE ElectionEnds(n)
  BY <1>1, <1>4, NothingSent DEF ElectionEnds, history
<1>5. CASE HeartbeatTick(n)
  <2>1. <<st[n].currentTerm, n>> \in elected' /\ elected' = elected
    BY <1>1, <1>5 DEF HeartbeatTick, LeadersElected, history
  <2>2. /\ messages' = messages \cup Heartbeats(n, st[n], nextIndex[n], commitIndex[n])
        /\ snapTasks' = snapTasks \cup SnapshotTasks(n, st[n], nextIndex[n])
    BY <1>5 DEF HeartbeatTick, SendHeartbeats, Send
  <2>3. /\ \A m \in Heartbeats(n, st[n], nextIndex[n], commitIndex[n]) : RightlySent(m)
        /\ \A t \in SnapshotTasks(n, st[n], nextIndex[n]) :
              <<t.term, t.src>> \in elected' /\ t.dst # t.src
    BY <2>1, LeaderSends
  <2> QED BY <1>1, <2>1, <2>2, <2>3, SentKept
<1>6. ASSUME NEW v \in Value, ClientRequest(n, v)
      PROVE  SentByElected'
  <2> DEFINE s == PushEntry(st[n], v)
  <2>1. s.currentTerm = st[n].currentTerm
    BY PushedNotBehind
  <2>2. <<s.currentTerm, n>> \in elected' /\ elected' = elected
    BY <1>1, <1>6, <2>1 DEF ClientRequest, LeadersElected
  <2>3. \/ UNCHANGED <<messages, snapTasks>>
        \/ /\ messages' = messages \cup Heartbeats(n, s, nextIndex[n], commitIndex[n])
           /\ snapTasks' = snapTasks \cup SnapshotTasks(n, s, nextIndex[n])
    BY <1>6 DEF ClientRequest, SendHeartbeats, Send
  <2> HIDE DEF s
  <2>4. /\ \A m \in Heartbeats(n, s, nextIndex[n], commitIndex[n]) : RightlySent(m)
        /\ \A t \in SnapshotTasks(n, s, nextIndex[n]) :
              <<t.term, t.src>> \in elected' /\ t.dst # t.src
    BY <2>2, LeaderSends
  <2>5. CASE UNCHANGED <<messages, snapTasks>>
    BY <1>1, <2>2, <2>5, NothingSent
  <2>6. CASE /\ messages' = messages \cup Heartbeats(n, s, nextIndex[n], commitIndex[n])
             /\ snapTasks' = snapTasks \cup SnapshotTasks(n, s, nextIndex[n])
    BY <1>1, <2>2, <2>4, <2>6, SentKept
  <2> QED BY <2>3, <2>5, <2>6
<1>7. CASE TriggerSnapshot(n)
  BY <1>1, <1>7, NothingSent DEF TriggerSnapshot, history
<1>8. CASE TriggerSnapshotInterrupted(n)
  BY <1>1, <1>8, NothingSent DEF TriggerSnapshotInterrupted, GoDown, history
<1>9. CASE Crash(n)
  BY <1>1, <1>9, NothingSent DEF Crash, GoDown, history
<1>10. CASE Restart(n)
  BY <1>1, <1>10, NothingSent DEF Restart, history
<1> QED BY <1>2, <1>3, <1>4, <1>5, <1>6, <1>7, <1>8, <1>9, <1>10 DEF Step

(* A follower acknowledges in the term it has reached.                     *)
LEMMA ReachedTerm ==
  ASSUME TypeOK, NEW n \in Node, NEW m \in messages, m.term >= st[n].currentTerm
  PROVE  UpdateTerm(st[n], m.term).currentTerm = m.term
<1>1. st[n] \in HardState /\ m.term \in Nat /\ st[n].currentTerm \in Nat
  BY MessageKinds, HardStateFields DEF TypeOK, ProcessType, NetworkType
<1> QED BY <1>1, UpdateTermFields

LEMMA ReceiveSends ==
  ASSUME TypeOK, LeaderInv, NEW n \in Node, NEW m \in messages, Receive(n, m)
  PROVE  SentByElected'
<1>1. SentByElected
  BY DEF LeaderInv
<1>2. CASE ReceiveVote(n, m)
  <2> DEFINE next == [p \in Node |-> IF p = n THEN 0 ELSE LastLogIndex(st[n]) + 1]
  <2>1. \/ UNCHANGED <<messages, snapTasks, elected>>
        \/ /\ elected' = elected \cup {<<st[n].currentTerm, n>>}
           /\ messages' = messages \cup Heartbeats(n, st[n], nextIndex'[n], commitIndex[n])
           /\ snapTasks' = snapTasks \cup SnapshotTasks(n, st[n], next)
    BY <1>2 DEF ReceiveVote, BecomeLeader, Send
  <2> HIDE DEF next
  <2>2. CASE UNCHANGED <<messages, snapTasks, elected>>
    BY <1>1, <2>2, NothingSent
  <2>3. CASE /\ elected' = elected \cup {<<st[n].currentTerm, n>>}
             /\ messages' = messages \cup Heartbeats(n, st[n], nextIndex'[n], commitIndex[n])
             /\ snapTasks' = snapTasks \cup SnapshotTasks(n, st[n], next)
    <3>1. <<st[n].currentTerm, n>> \in elected'
      BY <2>3
    <3>2. /\ \A h \in Heartbeats(n, st[n], nextIndex'[n], commitIndex[n]) : RightlySent(h)
          /\ \A t \in SnapshotTasks(n, st[n], next) :
                <<t.term, t.src>> \in elected' /\ t.dst # t.src
      BY <3>1, LeaderSends
    <3> QED BY <1>1, <2>3, <3>2, SentKept
  <2> QED BY <2>1, <2>2, <2>3
<1>3. CASE HandleRequestVote(n, m)
  <2>1. PICK r : r.type = "RequestVoteReply" /\ messages' = messages \cup {r}
    BY <1>3 DEF HandleRequestVote, Send, RequestVoteReply
  <2>2. RightlySent(r)
    BY <2>1 DEF RightlySent
  <2> QED BY <1>1, <1>3, <2>1, <2>2, SentKept DEF HandleRequestVote, history
<1>4. CASE StaleAppendEntries(n, m)
  BY <1>1, <1>4, RefusalSent DEF StaleAppendEntries, history
<1>5. CASE HandleAppendEntries(n, m)
  <2>1. PICK success \in BOOLEAN :
          \E index : messages' = messages \cup {Result(m, UpdateTerm(st[n], m.term).currentTerm,
                                                      success, index)}
    BY <1>5 DEF HandleAppendEntries, Send, AppendConsistent, InMemory
  <2>2. PICK index : messages' = messages \cup {Result(m, UpdateTerm(st[n], m.term).currentTerm,
                                                      success, index)}
    BY <2>1
  <2>3. UpdateTerm(st[n], m.term).currentTerm = m.term
    BY <1>5, ReachedTerm DEF HandleAppendEntries
  <2>4. <<m.term, m.src>> \in elected /\ m.dst # m.src
    BY <1>1, <1>5 DEF HandleAppendEntries, SentByElected, Appends
  <2>5. RightlySent(Result(m, m.term, success, index))
    BY <1>5, <2>4, ResultFields DEF RightlySent, HandleAppendEntries, history
  <2> QED BY <1>1, <1>5, <2>2, <2>3, <2>5, SentKept DEF HandleAppendEntries, history
<1>6. CASE HandleResult(n, m)
  BY <1>1, <1>6, NothingSent DEF HandleResult
<1>7. CASE StaleInstallSnapshot(n, m)
  BY <1>1, <1>7, RefusalSent DEF StaleInstallSnapshot, history
<1>8. CASE InstallSnapshotTermUnsaved(n, m)
  BY <1>1, <1>8, RefusalSent DEF InstallSnapshotTermUnsaved, history
<1>9. CASE RefuseSnapshot(n, m)
  BY <1>1, <1>9, RefusalSent DEF RefuseSnapshot, history
<1>10. CASE HandleInstallSnapshot(n, m)
  <2>1. <<m.term, m.src>> \in elected /\ m.dst # m.src /\ elected' = elected
    BY <1>1, <1>10 DEF HandleInstallSnapshot, Delivered, SentByElected, Installs, history
  <2>2. RightlySent(Result(m, m.term, TRUE, m.index))
    BY <2>1 DEF RightlySent, Result
  <2> QED BY <1>1, <1>10, <2>2, SentKept DEF HandleInstallSnapshot, history, Send
<1>11. CASE InstallSnapshotInterrupted(n, m)
  BY <1>1, <1>11, NothingSent DEF InstallSnapshotInterrupted, GoDown, history
<1> QED
  BY <1>2, <1>3, <1>4, <1>5, <1>6, <1>7, <1>8, <1>9, <1>10, <1>11 DEF Receive

------------------------------------------------------------------------------
(* Who leads.                                                              *)

(* A node goes on as it was, or follows a leader of its term or no one.    *)
LEMMA LeadersKept ==
  ASSUME TypeOK, TypeOK', LeaderInv, DiskStep, elected' = elected, NEW n \in Node,
         \A p \in Node \ {n} : Untouched(p),
         \/ /\ role'[n] = role[n] /\ currentLeader'[n] = currentLeader[n]
            /\ st'[n].currentTerm = st[n].currentTerm
         \/ /\ role'[n] # "Leader" /\ up'[n]
            /\ \/ currentLeader'[n] = Nil
               \/ <<st'[n].currentTerm, currentLeader'[n]>> \in elected
         \/ role'[n] = "Follower" /\ currentLeader'[n] = Nil,
         ~up'[n] => ~up[n] \/ (role'[n] = "Follower" /\ currentLeader'[n] = Nil),
         ballot'[n].open =>
           /\ ballot[n].open
           /\ hs'[n].currentTerm = hs[n].currentTerm /\ st'[n].currentTerm = st[n].currentTerm
  PROVE  LeadersElected' /\ DownIsFollower' /\ ElectedDurable' /\ CandidatesNew' /\ LeaderHint'
<1>1. /\ LeadersElected /\ DownIsFollower /\ ElectedDurable /\ CandidatesNew /\ LeaderHint
  BY DEF LeaderInv
<1>2. LeadersElected'
  BY <1>1 DEF LeadersElected, Untouched
<1>3. DownIsFollower'
  BY <1>1 DEF DownIsFollower, Untouched
<1>4. ElectedDurable'
  <2> SUFFICES ASSUME NEW e \in elected
               PROVE  hs'[e[2]].currentTerm >= e[1]
    BY DEF ElectedDurable
  <2>1. e[1] \in Nat /\ e[2] \in Node
    BY DEF TypeOK, HistoryType
  <2>2. hs[e[2]].currentTerm >= e[1] /\ NotBehind(hs'[e[2]], hs[e[2]])
    BY <1>1, <2>1 DEF ElectedDurable, DiskStep
  <2>3. hs[e[2]].currentTerm \in Nat /\ hs'[e[2]].currentTerm \in Nat
    BY <2>1 DEF TypeOK, DiskType, HardState
  <2> QED BY <2>1, <2>2, <2>3 DEF NotBehind
<1>5. CandidatesNew'
  BY <1>1 DEF CandidatesNew, Untouched
<1>6. LeaderHint'
  BY <1>1, SMTT(30) DEF LeaderHint, Untouched
<1> QED BY <1>2, <1>3, <1>4, <1>5, <1>6

(* A candidate of a new term has not led in it before.                     *)
LEMMA TermIsNew ==
  ASSUME TypeOK, LeaderInv, MemoryNotBehind, NEW n \in Node
  PROVE  <<IncrementTerm(st[n], n).currentTerm, n>> \notin elected
<1>1. st[n] \in HardState /\ hs[n] \in HardState /\ NotBehind(st[n], hs[n])
  BY DEF TypeOK, DiskType, ProcessType, MemoryNotBehind
<1>2. IncrementTerm(st[n], n).currentTerm = st[n].currentTerm + 1
  BY <1>1, IncrementTermType
<1>3. \A e \in elected : e[2] = n => hs[n].currentTerm >= e[1]
  BY DEF LeaderInv, ElectedDurable
<1>4. st[n].currentTerm \in Nat /\ hs[n].currentTerm \in Nat
  BY <1>1, HardStateFields
<1>5. hs[n].currentTerm <= st[n].currentTerm
  BY <1>1, <1>4 DEF NotBehind
<1> QED BY <1>2, <1>3, <1>4, <1>5

(* A node that wins an election.                                           *)
LEMMA NewLeader ==
  ASSUME TypeOK, TypeOK', LeaderInv, DiskStep, NEW n \in Node,
         \A p \in Node \ {n} : Untouched(p),
         BecomeLeader(n, st'[n]), hs'[n].currentTerm = st'[n].currentTerm,
         up'[n], ~ballot'[n].open
  PROVE  LeadersElected' /\ DownIsFollower' /\ ElectedDurable' /\ CandidatesNew' /\ LeaderHint'
<1>1. /\ LeadersElected /\ DownIsFollower /\ ElectedDurable /\ CandidatesNew /\ LeaderHint
  BY DEF LeaderInv
<1>2. /\ role'[n] = "Leader" /\ currentLeader'[n] = n
      /\ elected' = elected \cup {<<st'[n].currentTerm, n>>}
  BY DEF BecomeLeader, TypeOK, ProcessType
<1>3. LeadersElected'
  BY <1>1, <1>2 DEF LeadersElected, Untouched
<1>4. DownIsFollower'
  BY <1>1, <1>2 DEF DownIsFollower, Untouched
<1>5. ElectedDurable'
  <2> SUFFICES ASSUME NEW e \in elected'
               PROVE  hs'[e[2]].currentTerm >= e[1]
    BY DEF ElectedDurable
  <2>1. e[1] \in Nat /\ e[2] \in Node
    BY DEF TypeOK, HistoryType
  <2>2. hs[e[2]].currentTerm \in Nat /\ hs'[e[2]].currentTerm \in Nat
    BY <2>1 DEF TypeOK, DiskType, HardState
  <2>3. CASE e \in elected
    <3>1. hs[e[2]].currentTerm >= e[1] /\ NotBehind(hs'[e[2]], hs[e[2]])
      BY <1>1, <2>1, <2>3 DEF ElectedDurable, DiskStep
    <3> QED BY <2>1, <2>2, <3>1 DEF NotBehind
  <2>4. CASE e = <<st'[n].currentTerm, n>>
    BY <2>1, <2>2, <2>4
  <2> QED BY <1>2, <2>3, <2>4
<1>6. CandidatesNew'
  BY <1>1, <1>2 DEF CandidatesNew, Untouched
<1>7. LeaderHint'
  BY <1>1, <1>2 DEF LeaderHint, Untouched
<1> QED BY <1>3, <1>4, <1>5, <1>6, <1>7

Leading == LeadersElected /\ DownIsFollower /\ ElectedDurable /\ CandidatesNew /\ LeaderHint

LEMMA StepLeaders ==
  ASSUME TypeOK, TypeOK', LeaderInv, ElectionInv, DiskStep, NEW n \in Node, Step(n)
  PROVE  Leading'
<1> USE DEF Leading
<1>1. \A p \in Node \ {n} : Untouched(p)
  BY StepOthers
<1>2. /\ hs[n] \in HardState /\ st[n] \in HardState
      /\ role[n] \in {"Follower", "Candidate", "Leader"}
  BY DEF TypeOK, DiskType, ProcessType
<1>3. CASE StartElection(n)
  <2> DEFINE s == IncrementTerm(st[n], n)
  <2>1. hs'[n] = s /\ st'[n] = s /\ up'[n]
    BY <1>3 DEF StartElection, Ready, Write, TypeOK, DiskType, ProcessType
  <2>2. CASE BecomeLeader(n, s) /\ UNCHANGED ballot
    <3>1. ~ballot'[n].open
      BY <1>3, <2>2 DEF StartElection, Ready
    <3> QED BY <1>1, <2>1, <2>2, <3>1, NewLeader
  <2>3. CASE /\ role' = [role EXCEPT ![n] = "Candidate"]
             /\ currentLeader' = [currentLeader EXCEPT ![n] = Nil]
             /\ UNCHANGED elected
    <3>1. role'[n] = "Candidate" /\ currentLeader'[n] = Nil
      BY <2>3 DEF TypeOK, ProcessType
    <3>2. <<s.currentTerm, n>> \notin elected
      BY TermIsNew DEF ElectionInv
    <3>3. ElectedDurable'
      <4> SUFFICES ASSUME NEW e \in elected
                   PROVE  hs'[e[2]].currentTerm >= e[1]
        BY <2>3 DEF ElectedDurable
      <4>1. e[1] \in Nat /\ e[2] \in Node
        BY DEF TypeOK, HistoryType
      <4>2. hs[e[2]].currentTerm >= e[1] /\ NotBehind(hs'[e[2]], hs[e[2]])
        BY <4>1 DEF LeaderInv, ElectedDurable, DiskStep
      <4>3. hs[e[2]].currentTerm \in Nat /\ hs'[e[2]].currentTerm \in Nat
        BY <4>1 DEF TypeOK, DiskType, HardState
      <4> QED BY <4>1, <4>2, <4>3 DEF NotBehind
    <3> HIDE DEF s
    <3>4. CandidatesNew'
      BY <1>1, <2>1, <2>3, <3>2 DEF CandidatesNew, LeaderInv, Untouched
    <3>5. LeadersElected' /\ DownIsFollower' /\ LeaderHint'
      BY <1>1, <2>1, <2>3, <3>1
      DEF LeadersElected, DownIsFollower, LeaderHint, LeaderInv, Untouched
    <3> QED BY <3>3, <3>4, <3>5
  <2> QED BY <1>3, <2>2, <2>3 DEF StartElection
<1>4. CASE StartElectionUnsaved(n)
  <2>1. /\ role'[n] = "Follower" /\ currentLeader'[n] = Nil
        /\ ~ballot'[n].open /\ up'[n] /\ elected' = elected
    BY <1>4 DEF StartElectionUnsaved, Ready, StepDown, TypeOK, ProcessType, history
  <2> QED BY <1>1, <2>1, LeadersKept
<1>5. CASE ElectionEnds(n)
  <2>1. /\ role'[n] = role[n] /\ currentLeader'[n] = currentLeader[n] /\ st'[n] = st[n]
        /\ ~ballot'[n].open /\ up'[n] /\ elected' = elected
    BY <1>5 DEF ElectionEnds, Closed, TypeOK, ProcessType, history
  <2> QED BY <1>1, <2>1, LeadersKept
<1>6. CASE HeartbeatTick(n)
  <2>1. /\ role'[n] = role[n] /\ currentLeader'[n] = currentLeader[n] /\ st'[n] = st[n]
        /\ ~ballot'[n].open /\ up'[n] /\ elected' = elected
    BY <1>6 DEF HeartbeatTick, Ready, history
  <2> QED BY <1>1, <2>1, LeadersKept
<1>7. ASSUME NEW v \in Value, ClientRequest(n, v)
      PROVE  Leading'
  <2>1. st'[n].currentTerm = st[n].currentTerm
    BY <1>7, PushedNotBehind DEF ClientRequest, Write, WriteFails, TypeOK, ProcessType
  <2>2. /\ role'[n] = role[n] /\ currentLeader'[n] = currentLeader[n]
        /\ ~ballot'[n].open /\ up'[n] /\ elected' = elected
    BY <1>7 DEF ClientRequest, Ready
  <2> QED BY <1>1, <2>1, <2>2, LeadersKept
<1>8. CASE TriggerSnapshot(n)
  <2>1. \/ UNCHANGED st
        \/ /\ lastApplied[n] > st[n].lastIncludedIndex
           /\ Write(n, CompactTo(st[n], lastApplied[n]))
    BY <1>8 DEF TriggerSnapshot
  <2>2. CompactTo(st[n], lastApplied[n]).currentTerm = st[n].currentTerm
    BY <1>2 DEF CompactTo, StartAt, HardState
  <2>3. st'[n].currentTerm = st[n].currentTerm
    BY <2>1, <2>2 DEF Write, TypeOK, ProcessType
  <2>4. /\ role'[n] = role[n] /\ currentLeader'[n] = currentLeader[n]
        /\ ~ballot'[n].open /\ up'[n] /\ elected' = elected
    BY <1>8 DEF TriggerSnapshot, Ready, history
  <2> QED BY <1>1, <2>3, <2>4, LeadersKept
<1>9. ASSUME GoDown(n)
      PROVE  Leading'
  <2>1. /\ role'[n] = "Follower" /\ currentLeader'[n] = Nil
        /\ ~ballot'[n].open /\ elected' = elected
    BY <1>9 DEF GoDown, StepDown, Closed, TypeOK, ProcessType, history
  <2> QED BY <1>1, <2>1, LeadersKept
<1>10. CASE Restart(n)
  <2>1. role[n] = "Follower" /\ currentLeader[n] = Nil /\ ~up[n]
    BY <1>10 DEF Restart, LeaderInv, DownIsFollower
  <2>2. role'[n] = role[n] /\ currentLeader'[n] = currentLeader[n] /\ elected' = elected
    BY <1>10 DEF Restart, history
  <2>3. up'[n]
    BY <1>10 DEF Restart, TypeOK, ProcessType
  <2>4. ~ballot'[n].open
    BY <1>10 DEF Restart, ElectionInv, BallotsBacked
  <2> QED BY <1>1, <2>1, <2>2, <2>3, <2>4, LeadersKept
<1> QED
  BY <1>3, <1>4, <1>5, <1>6, <1>7, <1>8, <1>9, <1>10
  DEF Step, TriggerSnapshotInterrupted, Crash

LEMMA ReceiveLeaders ==
  ASSUME TypeOK, TypeOK', LeaderInv, MemoryNotBehind, DiskStep,
         NEW n \in Node, NEW m \in messages, Receive(n, m)
  PROVE  Leading'
<1> USE DEF Leading
<1>1. \A p \in Node \ {n} : Untouched(p)
  BY ReceiveOthers
<1>2. /\ hs[n] \in HardState /\ st[n] \in HardState
      /\ role[n] \in {"Follower", "Candidate", "Leader"}
      /\ UpdateTerm(st[n], m.term) \in HardState
  BY UpdatedNotBehind DEF TypeOK, DiskType, ProcessType
<1>3. CASE ReceiveVote(n, m)
  <2>1. CASE StepDown(n) /\ ballot' = [ballot EXCEPT ![n] = Closed] /\ UNCHANGED elected
    <3>1. /\ role'[n] = "Follower" /\ currentLeader'[n] = Nil
          /\ ~ballot'[n].open /\ up'[n] /\ elected' = elected
      BY <1>3, <2>1 DEF ReceiveVote, StepDown, Closed, TypeOK, ProcessType
    <3> QED BY <1>1, <3>1, LeadersKept
  <2>2. CASE UNCHANGED <<hs, st, role, currentLeader, elected>>
    BY <1>1, <1>3, <2>2, LeadersKept DEF ReceiveVote
  <2>3. CASE /\ BecomeLeader(n, st[n]) /\ ballot' = [ballot EXCEPT ![n] = Closed]
             /\ UNCHANGED <<hs, st>>
    <3>1. up'[n] /\ ~ballot'[n].open /\ st'[n] = st[n]
      BY <1>3, <2>3 DEF ReceiveVote, Closed, TypeOK, ProcessType
    <3>2. hs'[n].currentTerm = st'[n].currentTerm
      BY <1>3, <2>3 DEF ReceiveVote, LeaderInv, CandidatesNew
    <3> QED BY <1>1, <2>3, <3>1, <3>2, NewLeader
  <2> QED BY <1>3, <2>1, <2>2, <2>3 DEF ReceiveVote
(* A handler that keeps the role, steps down, or follows the sender.       *)
<1>4. ASSUME Ready(n), UNCHANGED <<up, ballot, elected>>,
             \/ UNCHANGED <<role, currentLeader>> /\ st'[n].currentTerm = st[n].currentTerm
             \/ StepDown(n)
             \/ Follow(n, m.src) /\ <<st'[n].currentTerm, m.src>> \in elected
      PROVE  Leading'
  <2>1. ~ballot'[n].open /\ up'[n] /\ elected' = elected
    BY <1>4 DEF Ready
  <2>2. \/ role'[n] = role[n] /\ currentLeader'[n] = currentLeader[n]
           /\ st'[n].currentTerm = st[n].currentTerm
        \/ role'[n] = "Follower" /\ currentLeader'[n] = Nil
        \/ role'[n] = "Follower" /\ <<st'[n].currentTerm, currentLeader'[n]>> \in elected
    BY <1>4, ZenonT(60) DEF StepDown, Follow, TypeOK, ProcessType
  <2> QED BY <1>1, <2>1, <2>2, LeadersKept
<1>5. CASE HandleRequestVote(n, m)
  <2> DEFINE s == UpdateTerm(st[n], m.term)
  <2>1. PICK voted : /\ voted = s \/ voted = [s EXCEPT !.votedFor = m.src]
                     /\ Write(n, voted) \/ WriteFails(n, voted, voted)
    BY <1>5 DEF HandleRequestVote
  <2>2. voted.currentTerm = s.currentTerm /\ st'[n] = voted
    BY <1>2, <2>1 DEF Write, WriteFails, TypeOK, ProcessType, HardState
  <2>3. m.term > st[n].currentTerm \/ s = st[n]
    BY DEF UpdateTerm
  <2>4. /\ Ready(n) /\ UNCHANGED <<up, ballot, elected>>
        /\ IF m.term > st[n].currentTerm THEN StepDown(n) ELSE UNCHANGED <<role, currentLeader>>
    BY <1>5 DEF HandleRequestVote, history
  <2> QED BY <1>4, <2>2, <2>3, <2>4
<1>6. CASE StaleAppendEntries(n, m)
  BY <1>4, <1>6 DEF StaleAppendEntries, history
<1>7. CASE HandleAppendEntries(n, m)
  <2> DEFINE s == UpdateTerm(st[n], m.term)
             consistent == AppendConsistent(s, m.prevIndex, m.prevTerm)
             merged == IF consistent THEN WithEntries(s, m.prevIndex, m.entries) ELSE s
  <2>1. m \in AppendEntriesType
    BY <1>7, MessageKinds DEF HandleAppendEntries, TypeOK, NetworkType
  <2>2. merged.currentTerm = s.currentTerm /\ s.currentTerm = m.term
    BY <1>2, <1>7, <2>1, WithEntriesType, ReachedTerm
    DEF AppendConsistent, AppendEntriesType, HandleAppendEntries
  <2>3. st'[n].currentTerm = m.term
    BY <1>7, <2>2 DEF HandleAppendEntries, Write, WriteFails, TypeOK, ProcessType
  <2>4. <<m.term, m.src>> \in elected
    BY <1>7 DEF HandleAppendEntries, LeaderInv, SentByElected, Appends
  <2> QED BY <1>4, <1>7, <2>3, <2>4 DEF HandleAppendEntries, history
<1>8. CASE HandleResult(n, m)
  BY <1>4, <1>8 DEF HandleResult
<1>9. CASE StaleInstallSnapshot(n, m)
  BY <1>4, <1>9 DEF StaleInstallSnapshot, history
<1>10. CASE InstallSnapshotTermUnsaved(n, m)
  BY <1>4, <1>10 DEF InstallSnapshotTermUnsaved, history
<1>11. CASE RefuseSnapshot(n, m)
  <2>1. st'[n].currentTerm = m.term
    BY <1>11, ReachedTerm DEF RefuseSnapshot, TypeOK, ProcessType
  <2>2. <<m.term, m.src>> \in elected
    BY <1>11 DEF RefuseSnapshot, Delivered, LeaderInv, SentByElected, Installs
  <2> QED BY <1>4, <1>11, <2>1, <2>2 DEF RefuseSnapshot, history
<1>12. CASE HandleInstallSnapshot(n, m)
  <2>1. UpdateTerm(st[n], m.term).currentTerm = m.term
    BY <1>12, ReachedTerm DEF HandleInstallSnapshot
  <2>2. m.index \in Nat /\ m.snapTerm \in Nat
    BY <1>12, InstallSnapshotFields DEF HandleInstallSnapshot
  <2> DEFINE s == InstalledAt(UpdateTerm(st[n], m.term), m.index, m.snapTerm)
  <2>3. st'[n].currentTerm = m.term
    <3>1. s.currentTerm = m.term
      BY <1>2, <2>1, <2>2, InstalledNotBehind
    <3>2. st' = [st EXCEPT ![n] = s]
      BY <1>12 DEF HandleInstallSnapshot, Write
    <3> HIDE DEF s
    <3> QED BY <3>1, <3>2 DEF TypeOK, ProcessType
  <2>4. <<m.term, m.src>> \in elected
    BY <1>12 DEF HandleInstallSnapshot, Delivered, LeaderInv, SentByElected, Installs
  <2> QED BY <1>4, <1>12, <2>3, <2>4 DEF HandleInstallSnapshot, history
<1>13. CASE InstallSnapshotInterrupted(n, m)
  <2>1. /\ role'[n] = "Follower" /\ currentLeader'[n] = Nil
        /\ ~ballot'[n].open /\ elected' = elected
    BY <1>13 DEF InstallSnapshotInterrupted, GoDown, StepDown, Closed, TypeOK, ProcessType, history
  <2> QED BY <1>1, <2>1, LeadersKept
<1> QED
  BY <1>3, <1>5, <1>6, <1>7, <1>8, <1>9, <1>10, <1>11, <1>12, <1>13 DEF Receive

LEMMA NextLeaders ==
  ASSUME TypeOK, TypeOK', ElectionInv, LeaderInv, [Next]_vars
  PROVE  LeaderInv'
<1>1. DiskStep /\ MemoryNotBehind
  BY NextDisk DEF ElectionInv
<1>2. ASSUME NEW n \in Node, Step(n)
      PROVE  LeaderInv'
  BY <1>1, <1>2, StepSends, StepLeaders DEF LeaderInv, Leading
<1>3. ASSUME NEW m \in messages, NEW n \in Receivers(m), Receive(n, m)
      PROVE  LeaderInv'
  <2>1. n \in Node
    BY ReceiversAreNodes DEF TypeOK, NetworkType
  <2> QED BY <1>1, <1>3, <2>1, ReceiveSends, ReceiveLeaders DEF LeaderInv, Leading
<1>4. ASSUME UNCHANGED <<hs, up, st, role, currentLeader, ballot, elected>>
      PROVE  Leading'
  BY <1>4
  DEF Leading, LeaderInv, LeadersElected, DownIsFollower, ElectedDurable, CandidatesNew, LeaderHint
<1>5. ASSUME NEW t \in snapTasks, ReadSnapshot(t)
      PROVE  LeaderInv'
  <2> DEFINE r == InstallSnapshot(t, snapFile[t.src])
  <2>1. messages' = messages \cup {r} /\ UNCHANGED <<snapTasks, elected>>
    BY <1>5 DEF ReadSnapshot, Send, history
  <2>2. <<t.term, t.src>> \in elected /\ t.dst # t.src
    BY DEF LeaderInv, SentByElected
  <2>3. RightlySent(r)
    BY <2>1, <2>2 DEF RightlySent, InstallSnapshot
  <2> HIDE DEF r
  <2>4. SentByElected'
    BY <2>1, <2>3, SentKept DEF LeaderInv
  <2> QED BY <1>4, <1>5, <2>4 DEF ReadSnapshot, disk, history, LeaderInv, Leading
<1>6. CASE UNCHANGED vars
  BY <1>4, <1>6, NothingSent DEF vars, disk, history, LeaderInv, Leading
<1> QED BY <1>2, <1>3, <1>5, <1>6 DEF Next

(* Entries, snapshots and what acknowledges them come from elected nodes,  *)
(* and a node that leads or names a leader knows of its election.          *)
THEOREM LeadersInvariant == Spec => []LeaderInv
<1>1. Init => LeaderInv
  BY DEF Init, LeaderInv, SentByElected, Appends, Installs, Acks, LeadersElected, DownIsFollower,
         ElectedDurable, CandidatesNew, LeaderHint, Closed
<1>2. TypeOK /\ TypeOK' /\ ElectionInv /\ LeaderInv /\ [Next]_vars => LeaderInv'
  BY NextLeaders
<1> QED BY <1>1, <1>2, TypeCorrect, ElectionsInvariant, PTL DEF Spec

(* The leader a node redirects its clients to was elected in the node's    *)
(* term, whatever messages came late and writes failed.                    *)
THEOREM HintsAreLeaders == Spec => []LeaderHint
<1>1. LeaderInv => LeaderHint
  BY DEF LeaderInv
<1> QED BY <1>1, LeadersInvariant, PTL

------------------------------------------------------------------------------
(* What a leader does to its log.                                          *)

SameLog(s, t) ==
  /\ s.log = t.log
  /\ s.lastIncludedIndex = t.lastIncludedIndex /\ s.lastIncludedTerm = t.lastIncludedTerm

LEMMA UpdatedLog ==
  ASSUME NEW s \in HardState, NEW term, NEW v
  PROVE  /\ SameLog(UpdateTerm(s, term), s) /\ SameLog([s EXCEPT !.votedFor = v], s)
         /\ SameLog([UpdateTerm(s, term) EXCEPT !.votedFor = v], s)
         /\ SameLog(IncrementTerm(s, v), s)
BY DEF SameLog, UpdateTerm, IncrementTerm, HardState

(* A leader pushes an entry, compacts its log or leaves it alone.          *)
LeaderStep(n) ==
  /\ st'[n].currentTerm = st[n].currentTerm
  /\ \/ SameLog(st'[n], st[n])
     \/ \E v \in Value : ClientRequest(n, v) /\ Write(n, PushEntry(st[n], v))
     \/ /\ TriggerSnapshot(n) /\ Write(n, CompactTo(st[n], lastApplied[n]))
        /\ lastApplied[n] > st[n].lastIncludedIndex /\ InMemory(st[n], lastApplied[n])

LEMMA StepOfLeader ==
  ASSUME TypeOK, LeaderInv, NEW n \in Node, Step(n), role[n] = "Leader", role'[n] = "Leader"
  PROVE  LeaderStep(n)
<1>1. st[n] \in HardState /\ lastApplied[n] \in Nat
  BY DEF TypeOK, ProcessType, ProgressType
<1>2. CASE StartElection(n) \/ StartElectionUnsaved(n)
  BY <1>2 DEF StartElection, StartElectionUnsaved
<1>3. CASE ElectionEnds(n) \/ HeartbeatTick(n)
  BY <1>3 DEF ElectionEnds, HeartbeatTick, LeaderStep, SameLog
<1>4. ASSUME NEW v \in Value, ClientRequest(n, v)
      PROVE  LeaderStep(n)
  <2>1. CASE Write(n, PushEntry(st[n], v))
    <3>1. st'[n].currentTerm = st[n].currentTerm
      BY <2>1, PushedNotBehind DEF Write, TypeOK, ProcessType
    <3> QED BY <1>4, <2>1, <3>1 DEF LeaderStep
  <2>2. CASE WriteFails(n, PushEntry(st[n], v), st[n])
    <3>1. st'[n] = st[n]
      BY <2>2 DEF WriteFails, TypeOK, ProcessType
    <3> QED BY <3>1 DEF LeaderStep, SameLog
  <2> QED BY <1>4, <2>1, <2>2 DEF ClientRequest
<1>5. CASE TriggerSnapshot(n)
  <2>1. CASE UNCHANGED st
    BY <2>1 DEF LeaderStep, SameLog
  <2>2. CASE /\ lastApplied[n] > st[n].lastIncludedIndex /\ InMemory(st[n], lastApplied[n])
             /\ Write(n, CompactTo(st[n], lastApplied[n]))
    <3>1. CompactTo(st[n], lastApplied[n]).currentTerm = st[n].currentTerm
      BY <1>1 DEF CompactTo, StartAt, HardState
    <3>2. st'[n].currentTerm = st[n].currentTerm
      BY <2>2, <3>1 DEF Write, TypeOK, ProcessType
    <3> QED BY <1>5, <2>2, <3>2 DEF LeaderStep
  <2> QED BY <1>5, <2>1, <2>2 DEF TriggerSnapshot
<1>6. CASE GoDown(n)
  BY <1>6 DEF GoDown, StepDown, TypeOK, ProcessType
<1>7. CASE Restart(n)
  BY <1>7 DEF Restart, LeaderInv, DownIsFollower
<1> QED
  BY <1>2, <1>3, <1>4, <1>5, <1>6, <1>7 DEF Step, TriggerSnapshotInterrupted, Crash

LEMMA ReceiveOfLeader ==
  ASSUME TypeOK, LeaderInv, NEW n \in Node, NEW m \in messages, Receive(n, m),
         role[n] = "Leader", role'[n] = "Leader"
  PROVE  LeaderStep(n)
<1>1. st[n] \in HardState
  BY DEF TypeOK, ProcessType
<1>2. ASSUME StepDown(n) \/ Follow(n, m.src) \/ GoDown(n)
      PROVE  FALSE
  BY <1>2 DEF StepDown, Follow, GoDown, TypeOK, ProcessType
<1>3. CASE UNCHANGED st
  BY <1>3 DEF LeaderStep, SameLog
<1>4. CASE HandleRequestVote(n, m)
  <2> DEFINE s == UpdateTerm(st[n], m.term)
  <2>1. s = st[n]
    BY <1>2, <1>4 DEF HandleRequestVote, UpdateTerm
  <2>2. PICK voted : /\ voted = s \/ voted = [s EXCEPT !.votedFor = m.src]
                     /\ Write(n, voted) \/ WriteFails(n, voted, voted)
    BY <1>4 DEF HandleRequestVote
  <2>3. st'[n] = voted
    BY <2>2 DEF Write, WriteFails, TypeOK, ProcessType
  <2> HIDE DEF s
  <2>4. voted.currentTerm = st[n].currentTerm /\ SameLog(voted, st[n])
    BY <1>1, <2>1, <2>2 DEF SameLog, HardState
  <2> QED BY <2>3, <2>4 DEF LeaderStep
<1> QED
  BY <1>2, <1>3, <1>4
  DEF Receive, ReceiveVote, StaleAppendEntries, HandleAppendEntries, HandleResult,
      StaleInstallSnapshot, InstallSnapshotTermUnsaved, RefuseSnapshot, HandleInstallSnapshot,
      InstallSnapshotInterrupted

LEMMA NextOfLeader ==
  ASSUME TypeOK, LeaderInv, [Next]_vars, NEW n \in Node, role[n] = "Leader", role'[n] = "Leader"
  PROVE  LeaderStep(n)
<1>1. CASE UNCHANGED st
  BY <1>1 DEF LeaderStep, SameLog
<1>2. ASSUME NEW p \in Node, Step(p)
      PROVE  LeaderStep(n)
  <2>1. CASE p = n
    BY <1>2, <2>1, StepOfLeader
  <2>2. CASE p # n
    BY <1>2, <2>2, StepOthers DEF LeaderStep, SameLog, Untouched
  <2> QED BY <2>1, <2>2
<1>3. ASSUME NEW m \in messages, NEW p \in Receivers(m), Receive(p, m)
      PROVE  LeaderStep(n)
  <2>1. p \in Node
    BY ReceiversAreNodes DEF TypeOK, NetworkType
  <2>2. CASE p = n
    BY <1>3, <2>2, ReceiveOfLeader
  <2>3. CASE p # n
    BY <1>3, <2>1, <2>3, ReceiveOthers DEF LeaderStep, SameLog, Untouched
  <2> QED BY <2>2, <2>3
<1> QED BY <1>1, <1>2, <1>3 DEF Next, ReadSnapshot, vars

LEMMA LogFields ==
  ASSUME NEW s \in HardState, NEW t \in HardState, SameLog(s, t)
  PROVE  /\ LastLogIndex(s) = LastLogIndex(t) /\ LastLogTerm(s) = LastLogTerm(t)
         /\ Held(s) = Held(t) /\ Marks(s) = Marks(t) /\ HeldEntries(s) = HeldEntries(t)
         /\ LogOK(s) <=> LogOK(t)
         /\ \A i : EntryAt(s, i) = EntryAt(t, i) /\ GetLogTerm(s, i) = GetLogTerm(t, i)
                   /\ (InMemory(s, i) <=> InMemory(t, i))
BY DEF SameLog, LastLogIndex, LastLogTerm, Held, Marks, Base, HeldEntries, LogOK, EntryAt,
       GetLogTerm, InMemory

(* A step of a leader that stays one appends, or compacts what is applied. *)
LEMMA LeaderKeeps ==
  ASSUME TypeOK, TypeOK', NEW n \in Node, LeaderStep(n)
  PROVE  /\ LastLogIndex(st'[n]) >= LastLogIndex(st[n])
         /\ \A i \in Held(st[n]) :
              \/ i \in Held(st'[n]) /\ EntryAt(st'[n], i) = EntryAt(st[n], i)
              \/ i <= lastApplied[n] /\ i <= st'[n].lastIncludedIndex
<1>1. /\ st[n] \in HardState /\ st'[n] \in HardState /\ lastApplied[n] \in Nat
      /\ st[n].lastIncludedIndex \in Nat /\ LastLogIndex(st[n]) \in Nat
  BY HardStateFields DEF TypeOK, ProcessType, ProgressType
<1>2. CASE SameLog(st'[n], st[n])
  BY <1>1, <1>2, LogFields
<1>3. ASSUME NEW v \in Value, Write(n, PushEntry(st[n], v))
      PROVE  /\ LastLogIndex(st'[n]) >= LastLogIndex(st[n])
             /\ \A i \in Held(st[n]) :
                  i \in Held(st'[n]) /\ EntryAt(st'[n], i) = EntryAt(st[n], i)
  <2> DEFINE p == PushEntry(st[n], v)
  <2>1. v \in Command
    BY DEF Command
  <2>2. /\ p.lastIncludedIndex = st[n].lastIncludedIndex
        /\ LastLogIndex(p) = LastLogIndex(st[n]) + 1
        /\ \A i \in st[n].lastIncludedIndex .. LastLogIndex(st[n]) :
             EntryAt(p, i) = EntryAt(st[n], i)
    BY <1>1, <2>1, PushedFields
  <2> HIDE DEF p
  <2>3. st'[n] = p
    BY <1>1, <1>3 DEF Write, TypeOK, ProcessType, p
  <2> QED BY <1>1, <2>2, <2>3 DEF Held
<1>4. CASE /\ Write(n, CompactTo(st[n], lastApplied[n]))
           /\ lastApplied[n] > st[n].lastIncludedIndex /\ InMemory(st[n], lastApplied[n])
  <2> DEFINE a == lastApplied[n]
             c == CompactTo(st[n], a)
  <2>1. GetLogTerm(st[n], a) \in Nat /\ a \in Nat /\ a >= st[n].lastIncludedIndex
    BY <1>1, <1>4, GetLogTermType
  <2>2. a <= LastLogIndex(st[n])
    BY <1>1, <1>4 DEF InMemory
  <2>3. c.lastIncludedIndex = a /\ LastLogIndex(c) = LastLogIndex(st[n])
    BY <1>1, <2>1, <2>2, CompactedFields DEF CompactTo
  <2>4. \A j \in a + 1 .. LastLogIndex(c) : EntryAt(c, j) = EntryAt(st[n], j)
    BY <1>1, <2>1, CompactedFields DEF CompactTo
  <2> HIDE DEF c
  <2>5. st'[n] = c
    BY <1>1, <1>4 DEF Write, TypeOK, ProcessType, c
  <2> QED BY <1>1, <2>1, <2>3, <2>4, <2>5 DEF Held
<1> QED BY <1>2, <1>3, <1>4 DEF LeaderStep

(* No request, snapshot, vote or late message, and no save that fails,     *)
(* makes a leader lose or rewrite an entry that is not applied, or rewrite *)
(* any, while it leads.                                                    *)
THEOREM LeadersOnlyAppend == Spec => LeaderAppendOnly
<1>1. ASSUME TypeOK, TypeOK', LeaderInv, [Next]_vars, NEW n \in Node,
             role[n] = "Leader", role'[n] = "Leader"
      PROVE  /\ LastLogIndex(st'[n]) >= LastLogIndex(st[n])
             /\ \A i \in Held(st[n]) :
                  \/ i \in Held(st'[n]) /\ EntryAt(st'[n], i) = EntryAt(st[n], i)
                  \/ i <= lastApplied[n] /\ i <= st'[n].lastIncludedIndex
  <2>1. LeaderStep(n)
    BY <1>1, NextOfLeader
  <2> QED BY <1>1, <2>1, LeaderKeeps
<1>2. TypeOK /\ TypeOK' /\ LeaderInv /\ [Next]_vars =>
        [\A n \in Node :
           role[n] = "Leader" /\ role'[n] = "Leader" =>
             /\ LastLogIndex(st'[n]) >= LastLogIndex(st[n])
             /\ \A i \in Held(st[n]) :
                  \/ i \in Held(st'[n]) /\ EntryAt(st'[n], i) = EntryAt(st[n], i)
                  \/ i <= lastApplied[n] /\ i <= st'[n].lastIncludedIndex]_vars
  BY <1>1
<1> QED BY <1>2, TypeCorrect, LeadersInvariant, PTL DEF Spec, LeaderAppendOnly
==============================================================================
