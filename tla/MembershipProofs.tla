--------------------------- MODULE MembershipProofs ---------------------------
(***************************************************************************)
(* Theorems about Membership: the types, that two leaders of a term share  *)
(* no voter whatever the changes, and, where the cluster makes at most one *)
(* change, that nobody forgets it and that it elects one leader per term   *)
(* with the votes of members.                                              *)
(*                                                                         *)
(* The invariants are those of MembershipInvariants.  The lemmas about an  *)
(* action A come in up to three kinds: AStep, that it keeps the types and  *)
(* the votes; AUnder, that it keeps the configurations under a set of      *)
(* changes; AAsked, that candidates go on asking members only.             *)
(***************************************************************************)
EXTENDS MembershipInvariants, SequenceTheorems, FiniteSetTheorems, WellFoundedInduction, TLAPS

(* A log is never empty and its first entry has index 0.                   *)
LEMMA MemberFields ==
  ASSUME NEW s \in MemberState
  PROVE  /\ s.log \in Seq(EntryType) /\ s.log # <<>>
         /\ Len(s.log) \in Nat /\ Len(s.log) >= 1
         /\ \A k \in 1 .. Len(s.log) : s.log[k] \in EntryType
         /\ s.lastIncludedIndex = 0 /\ s.lastIncludedTerm = 0
         /\ s.currentTerm \in Nat /\ s.votedFor \in Node \cup {Nil}
         /\ LastLogIndex(s) \in Nat /\ LastLogIndex(s) = Len(s.log) - 1
<1>1. /\ s.log \in Seq(EntryType) /\ s.log # <<>>
      /\ s.lastIncludedIndex = 0 /\ s.lastIncludedTerm = 0
      /\ s.currentTerm \in Nat /\ s.votedFor \in Node \cup {Nil}
  BY DEF MemberState
<1>2. Len(s.log) \in Nat /\ Len(s.log) >= 1
  BY <1>1, LenProperties, EmptySeq
<1>3. \A k \in 1 .. Len(s.log) : s.log[k] \in EntryType
  BY <1>1, ElementOfSeq
<1> QED BY <1>1, <1>2, <1>3 DEF LastLogIndex

LEMMA FreshMember == FreshState \in MemberState /\ \A C : Uses(FreshState.log, C)
<1>1. Placeholder(0, 0) \in EntryType /\ Placeholder(0, 0).command \notin Change
  BY ChangeAssumption DEF Placeholder, EntryType, Command
<1>2. <<Placeholder(0, 0)>> \in Seq(EntryType) \ {<<>>}
  BY <1>1
<1>3. FreshState.log = <<Placeholder(0, 0)>>
  BY DEF FreshState
<1> QED BY <1>1, <1>2, <1>3 DEF FreshState, MemberState, Uses

(* The later of two states by the same node: of a higher term, or with the *)
(* vote the first has cast.                                                *)
Later(s, t) ==
  \/ t.currentTerm > s.currentTerm
  \/ t.currentTerm = s.currentTerm /\ s.votedFor \in {Nil, t.votedFor}

SameVote(s, t) == s.currentTerm = t.currentTerm /\ s.votedFor = t.votedFor

LEMMA UpdateTermMember ==
  ASSUME NEW s \in MemberState, NEW term \in Nat
  PROVE  /\ UpdateTerm(s, term) \in MemberState /\ UpdateTerm(s, term).log = s.log
         /\ term > s.currentTerm => /\ UpdateTerm(s, term).currentTerm = term
                                    /\ UpdateTerm(s, term).votedFor = Nil
         /\ ~(term > s.currentTerm) => UpdateTerm(s, term) = s
         /\ Later(s, UpdateTerm(s, term))
BY DEF UpdateTerm, MemberState, Later

LEMMA IncrementTermMember ==
  ASSUME NEW s \in MemberState, NEW self \in Node
  PROVE  /\ IncrementTerm(s, self) \in MemberState
         /\ IncrementTerm(s, self).currentTerm = s.currentTerm + 1
         /\ IncrementTerm(s, self).votedFor = self
         /\ IncrementTerm(s, self).log = s.log
<1> DEFINE next == s.currentTerm + 1
<1>1. next \in Nat /\ self \in Node \cup {Nil}
  BY DEF MemberState
<1>2. IncrementTerm(s, self) = [s EXCEPT !.currentTerm = next, !.votedFor = self]
  BY DEF IncrementTerm
<1> HIDE DEF next
<1>3. IncrementTerm(s, self) \in MemberState
  BY <1>1, <1>2 DEF MemberState
<1>4. DOMAIN s = {"currentTerm", "votedFor", "log", "lastIncludedIndex", "lastIncludedTerm"}
  BY DEF MemberState
<1>5. /\ IncrementTerm(s, self).currentTerm = next /\ IncrementTerm(s, self).votedFor = self
      /\ IncrementTerm(s, self).log = s.log
  BY <1>2, <1>4
<1> QED BY <1>3, <1>5 DEF next

LEMMA VoteMember ==
  ASSUME NEW s \in MemberState, NEW v \in Node
  PROVE  /\ [s EXCEPT !.votedFor = v] \in MemberState
         /\ [s EXCEPT !.votedFor = v].currentTerm = s.currentTerm
         /\ [s EXCEPT !.votedFor = v].votedFor = v
         /\ [s EXCEPT !.votedFor = v].log = s.log
BY DEF MemberState

(* A push adds one entry with the command.                                 *)
LEMMA PushEntryMember ==
  ASSUME NEW s \in MemberState, NEW c \in Command \cup Change
  PROVE  /\ PushEntry(s, c) \in MemberState /\ SameVote(PushEntry(s, c), s)
         /\ \A C : Uses(s.log, C) /\ (c \in Change => c \in C) => Uses(PushEntry(s, c).log, C)
<1> DEFINE e == [term |-> s.currentTerm, index |-> LastLogIndex(s) + 1, command |-> c]
<1>1. e \in EntryType /\ e.command = c
  BY MemberFields DEF EntryType
<1> HIDE DEF e
<1>2. /\ s.log \in Seq(EntryType) /\ Len(s.log) \in Nat
  BY MemberFields
<1>3. /\ Append(s.log, e) \in Seq(EntryType) /\ Append(s.log, e) # <<>>
      /\ Len(Append(s.log, e)) = Len(s.log) + 1
      /\ \A k \in 1 .. Len(s.log) : Append(s.log, e)[k] = s.log[k]
      /\ Append(s.log, e)[Len(s.log) + 1] = e
  BY <1>1, <1>2, AppendProperties
<1>4. PushEntry(s, c) = [s EXCEPT !.log = Append(s.log, e)]
  BY DEF PushEntry, e
<1>5. /\ PushEntry(s, c) \in MemberState /\ SameVote(PushEntry(s, c), s)
      /\ PushEntry(s, c).log = Append(s.log, e)
  BY <1>3, <1>4 DEF MemberState, SameVote
<1>6. ASSUME NEW C, Uses(s.log, C), c \in Change => c \in C
      PROVE  Uses(Append(s.log, e), C)
  <2>1. ASSUME NEW k \in 1 .. Len(Append(s.log, e)), Append(s.log, e)[k].command \in Change
        PROVE  Append(s.log, e)[k].command \in C
    <3>1. CASE k \in 1 .. Len(s.log)
      BY <1>3, <1>6, <2>1, <3>1 DEF Uses
    <3>2. CASE k = Len(s.log) + 1
      BY <1>1, <1>3, <1>6, <2>1, <3>2
    <3> QED BY <1>2, <1>3, <3>1, <3>2
  <2> QED BY <2>1 DEF Uses
<1> QED BY <1>5, <1>6

------------------------------------------------------------------------------
(* The entries of a part of a log, and of a merge.                         *)

LEMMA EntriesBetweenMember ==
  ASSUME NEW s \in MemberState, NEW from \in Nat, NEW to \in Nat, to <= LastLogIndex(s)
  PROVE  LET e == EntriesBetween(s, from, to)
         IN  /\ e \in Seq(EntryType)
             /\ \A C : Uses(s.log, C) => Uses(e, C)
<1> DEFINE m == from + 1
           n == to + 1
           e == EntriesBetween(s, from, to)
<1>1. /\ s.log \in Seq(EntryType) /\ Len(s.log) \in Nat
      /\ \A k \in 1 .. Len(s.log) : s.log[k] \in EntryType
      /\ s.lastIncludedIndex = 0
  BY MemberFields
<1>2. m \in Int /\ n \in Int /\ m >= 1 /\ n <= Len(s.log)
  BY MemberFields
<1>3. e = SubSeq(s.log, m, n)
  BY <1>1 DEF EntriesBetween
<1> HIDE DEF m, n, e
<1>4. \A i \in m .. n : s.log[i] \in EntryType
  BY <1>1, <1>2
<1>5. /\ e \in Seq(EntryType)
      /\ Len(e) = IF m <= n THEN n - m + 1 ELSE 0
      /\ \A i \in 1 .. n - m + 1 : e[i] = s.log[m + i - 1]
  BY <1>1, <1>2, <1>3, <1>4, SubSeqProperties
<1>6. ASSUME NEW C, Uses(s.log, C)
      PROVE  Uses(e, C)
  <2>1. ASSUME NEW k \in 1 .. Len(e)
        PROVE  m + k - 1 \in 1 .. Len(s.log) /\ e[k] = s.log[m + k - 1]
    BY <1>1, <1>2, <1>5, <2>1
  <2> QED BY <1>6, <2>1 DEF Uses
<1> QED BY <1>5, <1>6 DEF e

Elements(q) == {q[k] : k \in 1 .. Len(q)}

(* The merge of append_entries invents no entry.                           *)
LEMMA MergeEntriesMember ==
  ASSUME NEW s \in MemberState, NEW p \in Nat, NEW entries \in Seq(EntryType), InMemory(s, p)
  PROVE  /\ MergeEntries(s, p, entries) \in Seq(EntryType) \ {<<>>}
         /\ Elements(MergeEntries(s, p, entries)) \subseteq Elements(s.log) \cup Elements(entries)
<1> DEFINE base == p - s.lastIncludedIndex + 1
           total == base + Len(entries)
           Conflict(i) == /\ i \in base + 1 .. base + Len(entries)
                          /\ i <= Len(s.log)
                          /\ s.log[i].term # entries[i - base].term
           replaced(i) == i > Len(s.log) \/ \E j \in base + 1 .. i : Conflict(j)
           length == IF replaced(base + Len(entries)) THEN total ELSE Len(s.log)
           merged == [i \in 1 .. length |-> IF replaced(i) THEN entries[i - base] ELSE s.log[i]]
           all == Elements(s.log) \cup Elements(entries)
<1>1. /\ Len(s.log) \in Nat /\ Len(s.log) >= 1
      /\ \A k \in 1 .. Len(s.log) : s.log[k] \in EntryType
      /\ s.lastIncludedIndex = 0
  BY MemberFields
<1>2. /\ Len(entries) \in Nat
      /\ \A k \in 1 .. Len(entries) : entries[k] \in EntryType
  BY LenProperties, ElementOfSeq
<1>3. base \in Nat /\ base >= 1 /\ base <= Len(s.log)
  BY <1>1 DEF InMemory, LastLogIndex
<1>4. length \in Nat /\ length >= 1
  BY <1>1, <1>2, <1>3
<1>5. ASSUME NEW i \in 1 .. length
      PROVE  merged[i] \in all
  <2>1. CASE replaced(i)
    <3>1. i > base
      BY <2>1, <1>1, <1>3, <1>4, SMTT(30)
    <3>2. i <= total
      <4>1. CASE replaced(base + Len(entries))
        BY <4>1
      <4>2. CASE ~replaced(base + Len(entries))
        <5>1. i <= Len(s.log)
          BY <4>2, <1>4
        <5>2. PICK j \in base + 1 .. i : Conflict(j)
          BY <2>1, <5>1, <1>1
        <5>3. j > base + Len(entries)
          BY <4>2, <5>2, <1>2, <1>3
        <5> QED BY <5>2, <5>3, <1>2, <1>3
      <4> QED BY <4>1, <4>2
    <3>3. i - base \in 1 .. Len(entries)
      BY <3>1, <3>2, <1>2, <1>3, <1>4, SMTT(30)
    <3> QED BY <2>1, <3>3 DEF Elements
  <2>2. CASE ~replaced(i)
    <3>1. i \in 1 .. Len(s.log)
      BY <2>2, <1>1, <1>4
    <3> QED BY <2>2, <3>1 DEF Elements
  <2> QED BY <2>1, <2>2
<1>6. all \subseteq EntryType
  BY <1>1, <1>2 DEF Elements
<1> HIDE DEF length, replaced, all
<1>7. merged \in [1 .. length -> EntryType]
  BY <1>5, <1>6
<1>8. merged \in Seq(EntryType) /\ Len(merged) = length
  BY <1>4, <1>7, SeqDef, LenProperties
<1>9. merged # <<>>
  BY <1>4, <1>8, EmptySeq
<1>10. Elements(merged) \subseteq all
  BY <1>5, <1>8 DEF Elements
<1>11. MergeEntries(s, p, entries) = merged
  BY DEF MergeEntries, length, replaced
<1> QED BY <1>8, <1>9, <1>10, <1>11 DEF all

LEMMA UsesOfElements ==
  ASSUME NEW p, NEW q, NEW r, NEW C, Uses(p, C), Uses(q, C),
         Elements(r) \subseteq Elements(p) \cup Elements(q)
  PROVE  Uses(r, C)
BY DEF Uses, Elements

(* What a well-typed AppendEntries leaves of the state.                    *)
LEMMA MergedMember ==
  ASSUME NEW n \in Node, st[n] \in MemberState, NEW m,
         m.term \in Nat, m.prevIndex \in Nat, m.entries \in Seq(EntryType)
  PROVE  /\ Merged(n, m) \in MemberState /\ Later(st[n], Merged(n, m))
         /\ \A C : Uses(st[n].log, C) /\ Uses(m.entries, C) => Uses(Merged(n, m).log, C)
<1>1. PICK s : s = UpdateTerm(st[n], m.term)
  OBVIOUS
<1>2. s \in MemberState /\ s.log = st[n].log /\ Later(st[n], s)
  BY <1>1, UpdateTermMember
<1>3. CASE AppendConsistent(s, m.prevIndex, m.prevTerm)
  <2>1. Merged(n, m) = WithEntries(s, m.prevIndex, m.entries)
    BY <1>1, <1>3 DEF Merged
  <2>2. InMemory(s, m.prevIndex)
    BY <1>3 DEF AppendConsistent
  <2>3. PICK merge : merge = MergeEntries(s, m.prevIndex, m.entries)
    OBVIOUS
  <2>4. /\ merge \in Seq(EntryType) \ {<<>>}
        /\ Elements(merge) \subseteq Elements(s.log) \cup Elements(m.entries)
    BY <1>2, <2>2, <2>3, MergeEntriesMember
  <2>5. Merged(n, m) = [s EXCEPT !.log = merge]
    BY <2>1, <2>3 DEF WithEntries
  <2>6. /\ Merged(n, m) \in MemberState /\ Merged(n, m).log = merge
        /\ Merged(n, m).currentTerm = s.currentTerm /\ Merged(n, m).votedFor = s.votedFor
    BY <1>2, <2>4, <2>5 DEF MemberState
  <2>7. \A C : Uses(st[n].log, C) /\ Uses(m.entries, C) => Uses(merge, C)
    BY <1>2, <2>4, UsesOfElements
  <2> QED BY <1>2, <2>6, <2>7 DEF Later
<1>4. CASE ~AppendConsistent(s, m.prevIndex, m.prevTerm)
  <2>1. Merged(n, m) = s
    BY <1>1, <1>4 DEF Merged
  <2> QED BY <1>2, <2>1
<1> QED BY <1>3, <1>4

------------------------------------------------------------------------------
(* The application of the committed entries.                               *)

LEMMA EveryIndex ==
  ASSUME NEW G, \A d \in Nat : (\A x \in Nat : x < d => x \in G) => d \in G
  PROVE  \A d \in Nat : d \in G
<1>1. PICK M : M = {d \in Nat : d \notin G}
  OBVIOUS
<1>2. ASSUME M # {}
      PROVE  FALSE
  <2>1. IsWellFoundedOn(OpToRel(<, Nat), Nat) /\ M \subseteq Nat
    BY <1>1, NatLessThanWellFounded
  <2>2. PICK x \in M : \A y \in M : ~ (<<y, x>> \in OpToRel(<, Nat))
    BY <1>2, <2>1, WFMin
  <2>3. x \in Nat /\ \A y \in Nat : y < x => y \in G
    BY <1>1, <2>2 DEF OpToRel
  <2> QED BY <1>1, <2>2, <2>3
<1> QED BY <1>1, <1>2

Applies(acc, hi, begin, entries) ==
  acc = [k \in 0 .. hi |-> IF k = 0 THEN begin ELSE ApplyEntry(acc[k - 1], entries[k])]

(* The recursive definition defines something.                             *)
LEMMA AppliesExists ==
  ASSUME NEW begin, NEW entries
  PROVE  \A hi \in Nat : \E acc : Applies(acc, hi, begin, entries)
<1>1. PICK G : G = {h \in Nat : \E acc : Applies(acc, h, begin, entries)}
  OBVIOUS
<1>2. ASSUME NEW h \in Nat, \A x \in Nat : x < h => x \in G
      PROVE  h \in G
  <2>1. CASE h = 0
    <3>1. PICK f : f = [k \in 0 .. h |-> begin]
      OBVIOUS
    <3>2. \A k \in 0 .. h : k = 0
      BY <2>1
    <3>3. Applies(f, h, begin, entries)
      BY <3>1, <3>2 DEF Applies
    <3> QED BY <1>1, <3>3
  <2>2. CASE h > 0
    <3>1. h - 1 \in Nat /\ h - 1 < h
      BY <2>2
    <3>2. PICK g : Applies(g, h - 1, begin, entries)
      BY <1>1, <1>2, <3>1
    <3>3. PICK f : f = [k \in 0 .. h |-> IF k = h THEN ApplyEntry(g[h - 1], entries[h]) ELSE g[k]]
      OBVIOUS
    <3>4. ASSUME NEW k \in 0 .. h
          PROVE  f[k] = IF k = 0 THEN begin ELSE ApplyEntry(f[k - 1], entries[k])
      <4>1. CASE k = h
        <5>1. k # 0 /\ h - 1 \in 0 .. h /\ h - 1 # h
          BY <2>2, <3>1, <4>1
        <5>2. f[h - 1] = g[h - 1] /\ f[k] = ApplyEntry(g[h - 1], entries[h])
          BY <3>3, <4>1, <5>1
        <5> QED BY <4>1, <5>1, <5>2
      <4>2. CASE k # h
        <5>1. k \in 0 .. h - 1 /\ f[k] = g[k]
          BY <3>3, <4>2
        <5>2. g[k] = IF k = 0 THEN begin ELSE ApplyEntry(g[k - 1], entries[k])
          BY <3>2, <5>1 DEF Applies
        <5>3. k # 0 => k - 1 \in 0 .. h /\ k - 1 # h
          BY <5>1
        <5>4. k # 0 => f[k - 1] = g[k - 1]
          BY <3>3, <5>3
        <5> QED BY <5>1, <5>2, <5>4
      <4> QED BY <4>1, <4>2
    <3>5. Applies(f, h, begin, entries)
      BY <3>3, <3>4 DEF Applies
    <3> QED BY <1>1, <3>5
  <2> QED BY <2>1, <2>2
<1>3. \A h \in Nat : h \in G
  BY <1>2, EveryIndex
<1> QED BY <1>1, <1>3

LEMMA ApplyEntriesIs ==
  ASSUME NEW begin, NEW entries \in Seq(EntryType)
  PROVE  \E acc : /\ ApplyEntries(begin, entries) = acc[Len(entries)]
                  /\ acc[0] = begin
                  /\ \A k \in 1 .. Len(entries) : acc[k] = ApplyEntry(acc[k - 1], entries[k])
<1>1. Len(entries) \in Nat
  OBVIOUS
<1>2. PICK acc : acc = CHOOSE f : Applies(f, Len(entries), begin, entries)
  OBVIOUS
<1>3. Applies(acc, Len(entries), begin, entries)
  BY <1>1, <1>2, AppliesExists
<1>4. ApplyEntries(begin, entries) = acc[Len(entries)]
  BY <1>2 DEF ApplyEntries, Applies
<1>5. acc[0] = begin /\ \A k \in 1 .. Len(entries) : acc[k] = ApplyEntry(acc[k - 1], entries[k])
  BY <1>1, <1>3 DEF Applies
<1> QED BY <1>4, <1>5

LEMMA ChangedType ==
  ASSUME NEW ps \in SUBSET Node, NEW e \in EntryType
  PROVE  Changed(ps, e.command) \in SUBSET Node
BY DEF Changed, Change

(* What is saved is the peers there are; nothing is saved only while       *)
(* nothing has changed.                                                    *)
AccOK(acc, begin) ==
  /\ acc.peers \in SUBSET Node
  /\ acc.saved \in {Nil, acc.peers}
  /\ acc.saved = Nil => acc.peers = begin.peers /\ begin.saved = Nil

LEMMA ApplyEntryKeeps ==
  ASSUME NEW acc, NEW begin, AccOK(acc, begin), NEW e \in EntryType
  PROVE  AccOK(ApplyEntry(acc, e), begin)
<1>1. Changed(acc.peers, e.command) \in SUBSET Node
  BY ChangedType DEF AccOK
<1>2. Changed(acc.peers, e.command) # Nil
  BY <1>1, NoneAssumption
<1> QED BY <1>1, <1>2 DEF AccOK, ApplyEntry

LEMMA ApplyEntriesKeeps ==
  ASSUME NEW begin, AccOK(begin, begin), NEW entries \in Seq(EntryType)
  PROVE  AccOK(ApplyEntries(begin, entries), begin)
<1>1. Len(entries) \in Nat /\ \A k \in 1 .. Len(entries) : entries[k] \in EntryType
  OBVIOUS
<1>2. PICK acc : /\ ApplyEntries(begin, entries) = acc[Len(entries)]
                 /\ acc[0] = begin
                 /\ \A k \in 1 .. Len(entries) : acc[k] = ApplyEntry(acc[k - 1], entries[k])
  BY ONLY entries \in Seq(EntryType), ApplyEntriesIs
<1>3. PICK G : G = {k \in Nat : k <= Len(entries) => AccOK(acc[k], begin)}
  OBVIOUS
<1>4. ASSUME NEW k \in Nat, \A x \in Nat : x < k => x \in G
      PROVE  k \in G
  <2>1. CASE k = 0
    BY <1>2, <1>3, <2>1
  <2>2. CASE k # 0 /\ k <= Len(entries)
    <3>1. k - 1 \in Nat /\ k - 1 < k /\ k - 1 <= Len(entries) /\ k \in 1 .. Len(entries)
      BY <1>1, <2>2
    <3>2. AccOK(acc[k - 1], begin)
      BY <1>3, <1>4, <3>1
    <3>3. AccOK(ApplyEntry(acc[k - 1], entries[k]), begin)
      BY <1>1, <3>1, <3>2, ApplyEntryKeeps
    <3> QED BY <1>2, <1>3, <3>1, <3>3
  <2>3. CASE ~(k <= Len(entries))
    BY <1>3, <2>3
  <2> QED BY <2>1, <2>2, <2>3
<1>5. Len(entries) \in G
  BY <1>1, <1>4, EveryIndex
<1> QED BY <1>1, <1>2, <1>3, <1>5

(* With one change in the entries the peers are changed once, or not.      *)
LEMMA ChangedOnce ==
  ASSUME NEW ps, NEW c \in Change
  PROVE  /\ Changed(Changed(ps, c), c) = Changed(ps, c)
         /\ Follows(Changed(ps, c), c)
         /\ Follows(ps, c) => Changed(ps, c) = ps
BY DEF Changed, Follows, Change

LEMMA ApplyEntriesOfOne ==
  ASSUME NEW begin, NEW entries \in Seq(EntryType), NEW c \in Change, Uses(entries, {c})
  PROVE  ApplyEntries(begin, entries).peers =
           IF \E k \in 1 .. Len(entries) : entries[k].command = c
           THEN Changed(begin.peers, c) ELSE begin.peers
<1>1. Len(entries) \in Nat /\ \A k \in 1 .. Len(entries) : entries[k] \in EntryType
  OBVIOUS
<1>2. PICK acc : /\ ApplyEntries(begin, entries) = acc[Len(entries)]
                 /\ acc[0] = begin
                 /\ \A k \in 1 .. Len(entries) : acc[k] = ApplyEntry(acc[k - 1], entries[k])
  BY ApplyEntriesIs
<1> DEFINE Peers(h) == IF \E k \in 1 .. h : entries[k].command = c
                       THEN Changed(begin.peers, c) ELSE begin.peers
<1>3. PICK G : G = {k \in Nat : k <= Len(entries) => acc[k].peers = Peers(k)}
  OBVIOUS
<1>4. ASSUME NEW k \in Nat, \A x \in Nat : x < k => x \in G
      PROVE  k \in G
  <2>1. CASE k = 0
    <3>1. Peers(0) = begin.peers
      OBVIOUS
    <3> QED BY <1>2, <1>3, <2>1, <3>1
  <2>2. CASE k # 0 /\ k <= Len(entries)
    <3>1. k - 1 \in Nat /\ k - 1 < k /\ k - 1 <= Len(entries) /\ k \in 1 .. Len(entries)
      BY <1>1, <2>2
    <3>2. acc[k - 1].peers = Peers(k - 1)
      BY <1>3, <1>4, <3>1
    <3>3. acc[k].peers = Changed(Peers(k - 1), entries[k].command)
      <4>1. acc[k] = ApplyEntry(acc[k - 1], entries[k])
        BY <1>2, <3>1
      <4>2. ApplyEntry(acc[k - 1], entries[k]).peers
              = Changed(acc[k - 1].peers, entries[k].command)
        BY DEF ApplyEntry
      <4> QED BY <3>2, <4>1, <4>2
    <3>4. \A j \in 1 .. k : j \in 1 .. k - 1 \/ j = k
      BY <3>1
    <3>5. \A j \in 1 .. k - 1 : j \in 1 .. k
      BY <3>1
    <3>6. acc[k].peers = Peers(k)
      <4> HIDE DEF Peers
      <4>1. CASE entries[k].command = c
        <5>1. Peers(k) = Changed(begin.peers, c)
          BY <3>1, <4>1 DEF Peers
        <5>2. Peers(k - 1) \in {Changed(begin.peers, c), begin.peers}
          BY DEF Peers
        <5> QED BY <3>3, <4>1, <5>1, <5>2, ChangedOnce
      <4>2. CASE entries[k].command # c
        <5>1. entries[k].command \notin Change
          BY <3>1, <4>2 DEF Uses
        <5>2. Changed(Peers(k - 1), entries[k].command) = Peers(k - 1)
          BY <5>1 DEF Changed
        <5>3. Peers(k) = Peers(k - 1)
          BY <3>4, <3>5, <4>2 DEF Peers
        <5> QED BY <3>3, <5>2, <5>3
      <4> QED BY <4>1, <4>2
    <3> QED BY <1>3, <3>6
  <2>3. CASE ~(k <= Len(entries))
    BY <1>3, <2>3
  <2> QED BY <2>1, <2>2, <2>3
<1>5. Len(entries) \in G
  BY <1>1, <1>4, EveryIndex
<1> QED BY <1>1, <1>2, <1>3, <1>5

------------------------------------------------------------------------------
(* The steps that several handlers share.                                  *)

FileOf(s, ps) == [state |-> s, peers |-> ps]

(* n has s and ps in memory, and their term and vote on the disk if they   *)
(* were there before.                                                      *)
Stores(n, s, ps) ==
  /\ st' = [st EXCEPT ![n] = s] /\ peers' = [peers EXCEPT ![n] = ps]
  /\ \/ disk' = disk /\ SameVote(s, st[n])
     \/ \E t \in MemberState, qs \in SUBSET Node :
          disk' = [disk EXCEPT ![n] = FileOf(t, qs)] /\ SameVote(t, s)

LEMMA FileType ==
  ASSUME NEW s \in MemberState, NEW ps \in SUBSET Node
  PROVE  FileOf(s, ps) \in File /\ FileOf(s, ps) # Nil
         /\ FileOf(s, ps).state = s /\ FileOf(s, ps).peers = ps
BY NoneAssumption DEF FileOf, File

LEMMA StoresTypes ==
  ASSUME StateTypes, NEW n \in Node, NEW s \in MemberState, NEW ps \in SUBSET Node,
         Stores(n, s, ps)
  PROVE  StateTypes'
<1>1. st' \in [Node -> MemberState] /\ peers' \in [Node -> SUBSET Node]
  BY DEF StateTypes, Stores
<1>2. disk' \in [Node -> File \cup {Nil}]
  <2>1. CASE disk' = disk
    BY <2>1 DEF StateTypes
  <2>2. CASE disk' # disk
    <3>1. PICK t \in MemberState, qs \in SUBSET Node : disk' = [disk EXCEPT ![n] = FileOf(t, qs)]
      BY <2>2 DEF Stores
    <3>2. FileOf(t, qs) \in File
      BY FileType
    <3> QED BY <3>1, <3>2 DEF StateTypes
  <2> QED BY <2>1, <2>2
<1> QED BY <1>1, <1>2 DEF StateTypes

LEMMA SaveStores ==
  ASSUME NEW n \in Node, NEW s \in MemberState, NEW ps \in SUBSET Node, Save(n, s, ps)
  PROVE  Stores(n, s, ps)
<1>1. disk' = [disk EXCEPT ![n] = FileOf(s, ps)] /\ SameVote(s, s)
  BY DEF Save, FileOf, SameVote
<1> QED BY <1>1 DEF Save, Stores

LEMMA SameStores ==
  ASSUME StateTypes, NEW n \in Node, UNCHANGED <<disk, st, peers>>
  PROVE  Stores(n, st[n], peers[n])
BY DEF Stores, StateTypes, SameVote

LEMMA SaveFailsStores ==
  ASSUME StateTypes, NEW n \in Node, NEW s \in MemberState, NEW ps \in SUBSET Node,
         SaveFails(n, s, ps), SameVote(s, st[n])
  PROVE  Stores(n, st[n], peers[n])
<1>1. st' = st /\ peers' = peers /\ (disk' = disk \/ disk' = [disk EXCEPT ![n] = FileOf(s, ps)])
  BY DEF SaveFails, FileOf
<1>2. st' = [st EXCEPT ![n] = st[n]] /\ peers' = [peers EXCEPT ![n] = peers[n]]
  BY <1>1 DEF StateTypes
<1>3. SameVote(st[n], st[n])
  BY DEF SameVote
<1> QED BY <1>1, <1>2, <1>3 DEF Stores

LEMMA SmallerIs ==
  ASSUME NEW i \in Nat, NEW j \in Nat
  PROVE  Smaller(i, j) \in Nat /\ Smaller(i, j) <= i /\ Smaller(i, j) <= j
BY DEF Smaller

(* What apply_committed_entries leaves of the peers.                       *)
LEMMA AppliedPeers ==
  ASSUME StateTypes, NEW n \in Node, NEW written \in BOOLEAN, NEW due \in Seq(EntryType),
         NEW begin, begin = [peers |-> peers[n], saved |-> IF written THEN peers[n] ELSE Nil],
         NEW r, r = ApplyEntries(begin, due)
  PROVE  /\ r.peers \in SUBSET Node /\ r.saved \in {Nil, r.peers}
         /\ r.saved = Nil => r.peers = peers[n] /\ ~written
<1>1. peers[n] \in SUBSET Node
  BY DEF StateTypes
<1>2. AccOK(begin, begin)
  BY <1>1 DEF AccOK
<1>3. AccOK(r, begin)
  BY <1>2, ApplyEntriesKeeps
<1>4. begin.saved = Nil => ~written
  BY <1>1, NoneAssumption
<1> QED BY <1>3, <1>4 DEF AccOK

DueOf(n, s, commit) ==
  EntriesBetween(s, lastApplied[n] + 1, Smaller(commit, LastLogIndex(s)))

LEMMA DueType ==
  ASSUME ProgressTypes, NEW n \in Node, NEW s \in MemberState, NEW commit \in Nat
  PROVE  /\ DueOf(n, s, commit) \in Seq(EntryType)
         /\ \A C : Uses(s.log, C) => Uses(DueOf(n, s, commit), C)
<1>1. lastApplied[n] + 1 \in Nat
  BY DEF ProgressTypes
<1>2. LastLogIndex(s) \in Nat
  BY MemberFields
<1>3. PICK to : to = Smaller(commit, LastLogIndex(s))
  OBVIOUS
<1>4. to \in Nat /\ to <= LastLogIndex(s)
  BY <1>2, <1>3, SmallerIs
<1>5. PICK from : from = lastApplied[n] + 1
  OBVIOUS
<1>6. from \in Nat
  BY <1>1, <1>5
<1>7. /\ EntriesBetween(s, from, to) \in Seq(EntryType)
      /\ \A C : Uses(s.log, C) => Uses(EntriesBetween(s, from, to), C)
  BY <1>4, <1>6, EntriesBetweenMember
<1> QED BY <1>3, <1>5, <1>7 DEF DueOf

(* The outcome of apply_committed_entries.                                 *)
Outcome(n, s, commit, written) ==
  ApplyEntries([peers |-> peers[n], saved |-> IF written THEN peers[n] ELSE Nil],
               DueOf(n, s, commit))

LEMMA ApplyCommittedIs ==
  ASSUME NEW n, NEW s, NEW commit, NEW written, ApplyCommitted(n, s, commit, written)
  PROVE  LET r == Outcome(n, s, commit, written)
             due == DueOf(n, s, commit)
         IN  /\ commitIndex' = [commitIndex EXCEPT ![n] = commit]
             /\ lastApplied' = [lastApplied EXCEPT ![n] = Larger(@, commit)]
             /\ known' = [known EXCEPT ![n] =
                  @ \cup {due[k] : k \in {j \in DOMAIN due : due[j].command \in Change}}]
             /\ st' = [st EXCEPT ![n] = s]
             /\ peers' = [peers EXCEPT ![n] = r.peers]
             /\ disk' = IF r.saved = Nil THEN disk
                        ELSE [disk EXCEPT ![n] = FileOf(s, r.saved)]
BY DEF ApplyCommitted, Outcome, DueOf, FileOf

LEMMA OutcomeType ==
  ASSUME StateTypes, ProgressTypes, NEW n \in Node, NEW s \in MemberState, NEW commit \in Nat,
         NEW written \in BOOLEAN, NEW r, r = Outcome(n, s, commit, written)
  PROVE  /\ r.peers \in SUBSET Node /\ r.saved \in {Nil, r.peers}
         /\ r.saved = Nil => r.peers = peers[n] /\ ~written
<1>1. PICK due : due = DueOf(n, s, commit)
  OBVIOUS
<1>2. PICK begin : begin = [peers |-> peers[n], saved |-> IF written THEN peers[n] ELSE Nil]
  OBVIOUS
<1>3. due \in Seq(EntryType)
  BY <1>1, DueType
<1>4. r = ApplyEntries(begin, due)
  BY <1>1, <1>2 DEF Outcome
<1> QED BY <1>2, <1>3, <1>4, AppliedPeers

LEMMA ApplyCommittedStores ==
  ASSUME StateTypes, ProgressTypes, NEW n \in Node, NEW s \in MemberState, NEW commit \in Nat,
         NEW written \in BOOLEAN, ~written => SameVote(s, st[n]),
         ApplyCommitted(n, s, commit, written)
  PROVE  ProgressTypes' /\ \E ps \in SUBSET Node : Stores(n, s, ps)
<1>1. PICK r : r = Outcome(n, s, commit, written)
  OBVIOUS
<1>2. /\ r.peers \in SUBSET Node /\ r.saved \in {Nil, r.peers}
      /\ r.saved = Nil => r.peers = peers[n] /\ ~written
  BY <1>1, OutcomeType
<1>3. /\ st' = [st EXCEPT ![n] = s]
      /\ peers' = [peers EXCEPT ![n] = r.peers]
      /\ disk' = IF r.saved = Nil THEN disk ELSE [disk EXCEPT ![n] = FileOf(s, r.saved)]
  BY <1>1, ApplyCommittedIs
<1>4. SameVote(s, s)
  BY DEF SameVote
<1>5. Stores(n, s, r.peers)
  BY <1>2, <1>3, <1>4 DEF Stores
<1>6. ProgressTypes'
  <2>1. /\ commitIndex' = [commitIndex EXCEPT ![n] = commit]
        /\ lastApplied' = [lastApplied EXCEPT ![n] = Larger(@, commit)]
        /\ DOMAIN known' = DOMAIN known
    BY ApplyCommittedIs
  <2>2. Larger(lastApplied[n], commit) \in Nat
    BY DEF ProgressTypes, Larger
  <2> QED BY <2>1, <2>2 DEF ProgressTypes
<1> QED BY <1>2, <1>5, <1>6

LEMMA AdvanceCommitStores ==
  ASSUME StateTypes, ProgressTypes, NEW n \in Node, NEW s \in MemberState, NEW match,
         NEW written \in BOOLEAN, written \/ s = st[n],
         AdvanceCommit(n, s, match, written)
  PROVE  ProgressTypes' /\ \E ps \in SUBSET Node : Stores(n, s, ps)
<1>1. PICK new : new = CommittableIn(s, match, commitIndex[n])
  OBVIOUS
<1>2. ~written => SameVote(s, st[n])
  BY DEF SameVote
<1>3. CASE /\ IF written THEN Save(n, s, peers[n]) ELSE UNCHANGED <<disk, st, peers>>
           /\ UNCHANGED <<progress, decided>>
  <2>1. Stores(n, s, peers[n]) /\ peers[n] \in SUBSET Node
    BY <1>3, SaveStores, SameStores DEF StateTypes
  <2>2. ProgressTypes'
    BY <1>3 DEF ProgressTypes, progress
  <2> QED BY <2>1, <2>2
<1>4. CASE \E i \in new : ApplyCommitted(n, s, i, written)
  <2>1. PICK i \in new : ApplyCommitted(n, s, i, written)
    BY <1>4
  <2>2. commitIndex[n] + 1 \in Nat /\ LastLogIndex(s) \in Nat
    BY MemberFields DEF ProgressTypes
  <2>3. i \in Nat
    BY <1>1, <2>2 DEF CommittableIn
  <2> QED BY <1>2, <2>1, <2>3, ApplyCommittedStores
<1> QED BY <1>1, <1>3, <1>4 DEF AdvanceCommit

(* Messages only ever become more; those that n adds have their types and  *)
(* bring no change from outside of C.                                      *)
Sends(ms) ==
  /\ messages' = messages \cup ms
  /\ \A m \in ms : MessageOK(m)

Positive(next) == \A p \in DOMAIN next : next[p] \in Nat \ {0}

LEMMA NextOfType ==
  ASSUME NEW next, Positive(next), NEW p
  PROVE  NextOf(next, p) \in Nat \ {0}
BY DEF NextOf, Positive

LEMMA AppendEntriesType ==
  ASSUME NEW n \in Node, NEW p \in Node \ {n}, NEW s \in MemberState, NEW i \in Nat \ {0},
         NEW commit \in Nat, NEW m, m = AppendEntries(n, p, s, i, commit)
  PROVE  /\ m.type = "AppendEntries" /\ MessageOK(m)
         /\ \A C : Uses(s.log, C) => Uses(m.entries, C)
<1>1. LastLogIndex(s) \in Nat /\ s.currentTerm \in Nat
  BY MemberFields
<1>2. PICK last \in Nat : last = LastLogIndex(s)
  BY <1>1
<1>3. i \in Nat /\ i - 1 \in Nat
  OBVIOUS
<1>4. /\ EntriesBetween(s, i, last) \in Seq(EntryType)
      /\ \A C : Uses(s.log, C) => Uses(EntriesBetween(s, i, last), C)
  BY <1>2, <1>3, EntriesBetweenMember
<1>5. /\ m.type = "AppendEntries" /\ m.src = n /\ m.dst = p /\ m.term = s.currentTerm
      /\ m.prevIndex = i - 1 /\ m.leaderCommit = commit
      /\ m.entries = EntriesBetween(s, i, last)
  BY <1>2 DEF AppendEntries
<1>6. MessageOK(m)
  BY <1>1, <1>3, <1>4, <1>5 DEF MessageOK
<1> QED BY <1>4, <1>5, <1>6

LEMMA HeartbeatsType ==
  ASSUME ProgressTypes, NEW n \in Node, NEW s \in MemberState, NEW ps \in SUBSET Node,
         NEW next, Positive(next)
  PROVE  \A m \in Heartbeats(n, s, ps, next) :
           /\ m.type = "AppendEntries" /\ MessageOK(m)
           /\ \A C : Uses(s.log, C) => Uses(m.entries, C)
<1>1. ASSUME NEW m \in Heartbeats(n, s, ps, next)
      PROVE  /\ m.type = "AppendEntries" /\ MessageOK(m)
             /\ \A C : Uses(s.log, C) => Uses(m.entries, C)
  <2>1. PICK p \in ps \ {n} : m = AppendEntries(n, p, s, NextOf(next, p), commitIndex[n])
    BY DEF Heartbeats
  <2>2. PICK i : i = NextOf(next, p)
    OBVIOUS
  <2>3. PICK commit : commit = commitIndex[n]
    OBVIOUS
  <2>4. p \in Node \ {n} /\ i \in Nat \ {0} /\ commit \in Nat
    BY <2>2, <2>3, NextOfType DEF ProgressTypes
  <2>5. m = AppendEntries(n, p, s, i, commit)
    BY <2>1, <2>2, <2>3
  <2> QED BY <2>4, <2>5, AppendEntriesType
<1> QED BY <1>1

LEMMA SendHeartbeatsTypes ==
  ASSUME ProgressTypes, LinkTypes, NEW n \in Node, NEW s \in MemberState,
         NEW ps \in SUBSET Node, NEW next, Positive(next),
         clients' \in [Node -> SUBSET Node], \A q \in Node : q \notin clients'[q],
         SendHeartbeats(n, s, ps, next)
  PROVE  Sends(Heartbeats(n, s, ps, next)) /\ LinkTypes'
<1>1. Sends(Heartbeats(n, s, ps, next))
  BY HeartbeatsType DEF SendHeartbeats, Send, Sends
<1>2. connecting' = [connecting EXCEPT ![n] = @ \cup (ps \ (clients'[n] \cup {n}))]
  BY DEF SendHeartbeats
<1>3. connecting' \in [Node -> SUBSET Node] /\ \A q \in Node : q \notin connecting'[q]
  BY <1>2 DEF LinkTypes
<1> QED BY <1>1, <1>3 DEF LinkTypes

LEMMA RequestVoteType ==
  ASSUME NEW n \in Node, NEW s \in MemberState, NEW asked \in SUBSET (Node \ {n})
  PROVE  /\ RequestVoteOf(n, s, asked).type = "RequestVote"
         /\ RequestVoteOf(n, s, asked).src = n /\ RequestVoteOf(n, s, asked).asked = asked
         /\ RequestVoteOf(n, s, asked).term = s.currentTerm
         /\ MessageOK(RequestVoteOf(n, s, asked))
BY MemberFields DEF RequestVoteOf, MessageOK

LEMMA ReplyType ==
  ASSUME NEW m, MessageOK(m), m.type = "RequestVote", NEW n \in Node, NEW t \in Nat,
         NEW granted \in BOOLEAN, NEW r, r = RequestVoteReply(m, n, t, granted)
  PROVE  /\ MessageOK(r) /\ r.type = "RequestVoteReply" /\ r.src = n /\ r.dst = m.src
         /\ r.forTerm = m.term /\ r.granted = granted
BY DEF RequestVoteReply, MessageOK

LEMMA ResultType ==
  ASSUME NEW m, MessageOK(m), m.type = "AppendEntries", NEW t \in Nat,
         NEW success \in BOOLEAN, NEW i \in Nat
  PROVE  /\ MessageOK(Result(m, t, success, i))
         /\ Result(m, t, success, i).type = "AppendEntriesResult"
BY DEF Result, MessageOK

(* Messages have the fields of their type.                                 *)
LEMMA MessageFields ==
  ASSUME NEW m, MessageOK(m)
  PROVE  /\ m.src \in Node /\ m.term \in Nat
         /\ m.type = "RequestVote" => m.asked \subseteq Node \ {m.src}
         /\ m.type = "RequestVoteReply" =>
              m.dst \in Node /\ m.forTerm \in Nat /\ m.granted \in BOOLEAN
         /\ m.type = "AppendEntries" =>
              /\ m.dst \in Node /\ m.dst # m.src
              /\ m.prevIndex \in Nat /\ m.leaderCommit \in Nat /\ m.entries \in Seq(EntryType)
         /\ m.type = "AppendEntriesResult" =>
              /\ m.dst \in Node /\ m.dst # m.src
              /\ m.success \in BOOLEAN /\ m.lastLogIndex \in Nat
BY DEF MessageOK

------------------------------------------------------------------------------
(* A leader's maps.                                                        *)

LEMMA WithNext ==
  ASSUME NEW n \in Node, NEW match, NEW next, MapsOK(n, match, next),
         NEW p \in Node \ {n}, NEW i \in Nat \ {0}
  PROVE  /\ MapsOK(n, match, With(next, p, i))
         /\ \A j : MapsOK(n, With(match, p, j), With(next, p, i))
<1>1. /\ DOMAIN With(next, p, i) = DOMAIN next \cup {p}
      /\ \A q \in DOMAIN With(next, p, i) : With(next, p, i)[q] = IF q = p THEN i ELSE next[q]
  BY DEF With
<1>2. /\ DOMAIN With(next, p, i) \subseteq Node \ {n}
      /\ \A q \in DOMAIN With(next, p, i) : With(next, p, i)[q] \in Nat \ {0}
      /\ DOMAIN match \subseteq DOMAIN With(next, p, i)
  BY <1>1 DEF MapsOK
<1>3. \A j : DOMAIN With(match, p, j) \subseteq DOMAIN With(next, p, i)
  BY <1>1, <1>2 DEF With
<1> QED BY <1>2, <1>3 DEF MapsOK

LEMMA WithoutMaps ==
  ASSUME NEW n \in Node, NEW match, NEW next, MapsOK(n, match, next), NEW p
  PROVE  MapsOK(n, Without(match, p), Without(next, p))
BY DEF MapsOK, Without

LEMMA NewMaps ==
  ASSUME LeadershipTypes, NEW n \in Node, NEW match, NEW next, MapsOK(n, match, next),
         matchIndex' = [matchIndex EXCEPT ![n] = match],
         nextIndex' = [nextIndex EXCEPT ![n] = next]
  PROVE  LeadershipTypes'
BY DEF LeadershipTypes

LeaderSends(s, requests) ==
  \E ms : /\ Sends(requests \cup ms)
          /\ \A m \in ms : /\ m.type = "AppendEntries"
                           /\ \A C : Uses(s.log, C) => Uses(m.entries, C)

LEMMA BecomeLeaderTypes ==
  ASSUME StateTypes, ProgressTypes, LinkTypes, LeadershipTypes, RoleTypes,
         NEW n \in Node, NEW s \in MemberState, NEW granted, NEW requests,
         \A m \in requests : MessageOK(m),
         clients' \in [Node -> SUBSET Node], \A q \in Node : q \notin clients'[q],
         BecomeLeader(n, s, granted, requests)
  PROVE  /\ LinkTypes' /\ LeadershipTypes'
         /\ role' \in [Node -> {"Follower", "Candidate", "Leader"}]
         /\ LeaderSends(s, requests)
<1> DEFINE others == peers[n] \ {n}
<1>1. others \in SUBSET Node /\ peers[n] \in SUBSET Node /\ n \notin others
  BY DEF StateTypes
<1>2. PICK next : next = [p \in others |-> LastLogIndex(s) + 1]
  OBVIOUS
<1>3. LastLogIndex(s) + 1 \in Nat \ {0}
  BY MemberFields
<1>4. Positive(next) /\ DOMAIN next = others
  BY <1>2, <1>3 DEF Positive
<1>5. /\ role' = [role EXCEPT ![n] = "Leader"]
      /\ nextIndex' = [nextIndex EXCEPT ![n] = next]
      /\ matchIndex' = [matchIndex EXCEPT ![n] = [p \in others |-> 0]]
      /\ messages' = messages \cup (requests \cup Heartbeats(n, s, peers[n], next))
      /\ connecting' = [connecting EXCEPT ![n] = @ \cup (others \ clients'[n])]
  BY <1>2 DEF BecomeLeader, Send
<1>6. MapsOK(n, [p \in others |-> 0], next)
  BY <1>1, <1>4 DEF MapsOK, Positive
<1>7. LeadershipTypes'
  BY <1>5, <1>6, NewMaps
<1>8. role' \in [Node -> {"Follower", "Candidate", "Leader"}]
  BY <1>5 DEF RoleTypes
<1>9. LinkTypes'
  BY <1>1, <1>5 DEF LinkTypes
<1>10. \A m \in Heartbeats(n, s, peers[n], next) :
         /\ m.type = "AppendEntries" /\ MessageOK(m)
         /\ \A C : Uses(s.log, C) => Uses(m.entries, C)
  BY <1>1, <1>4, HeartbeatsType
<1>11. Sends(requests \cup Heartbeats(n, s, peers[n], next))
  BY <1>5, <1>10 DEF Sends
<1>12. LeaderSends(s, requests)
  BY <1>10, <1>11 DEF LeaderSends
<1> QED BY <1>7, <1>8, <1>9, <1>12

------------------------------------------------------------------------------
(* What a step does to types and to the votes of the node that takes it.   *)

VoteStep(n) ==
  /\ \E s \in MemberState, ps \in SUBSET Node :
       /\ Stores(n, s, ps) /\ Later(st[n], s)
       /\ \A v \in Votes' \ Votes : v = <<n, s.currentTerm, s.votedFor>>
  /\ Votes \subseteq Votes'

NoVoteIn(ms) == \A m \in ms : m.type \notin {"RequestVote", "RequestVoteReply"}

LEMMA NoVotes ==
  ASSUME NEW ms, NoVoteIn(ms), messages' = messages \cup ms
  PROVE  Votes' = Votes
<1>1. VotesIn(messages \cup ms) = VotesIn(messages)
  BY DEF VotesIn, NoVoteIn
<1> QED BY <1>1 DEF Votes

LEMMA LaterItself ==
  ASSUME NEW s, NEW t, SameVote(t, s)
  PROVE  Later(s, t)
BY DEF SameVote, Later

LEMMA QuietVote ==
  ASSUME NEW n \in Node, NEW s \in MemberState, NEW ps \in SUBSET Node, Stores(n, s, ps),
         Later(st[n], s), NEW ms, NoVoteIn(ms), messages' = messages \cup ms
  PROVE  VoteStep(n)
<1>1. Votes' = Votes
  BY NoVotes
<1> QED BY <1>1 DEF VoteStep

LEMMA StillVote ==
  ASSUME StateTypes, NEW n \in Node, UNCHANGED <<disk, st, peers>>,
         NEW ms, NoVoteIn(ms), messages' = messages \cup ms
  PROVE  StateTypes' /\ VoteStep(n)
<1>1. Stores(n, st[n], peers[n]) /\ st[n] \in MemberState /\ peers[n] \in SUBSET Node
  BY SameStores DEF StateTypes
<1>2. Later(st[n], st[n])
  BY LaterItself DEF SameVote
<1> QED BY <1>1, <1>2, StoresTypes, QuietVote

LEMMA SentTypes ==
  ASSUME TypeInv, NEW ms, Sends(ms)
  PROVE  \A m \in messages' : MessageOK(m)
BY DEF TypeInv, Sends

LEMMA NewTypes ==
  ASSUME StateTypes', LinkTypes', ProgressTypes', LeadershipTypes', ProcessTypes', RoleTypes',
         \A m \in messages' : MessageOK(m)
  PROVE  TypeInv'
BY DEF TypeInv

LEMMA SameTypes ==
  ASSUME TypeInv
  PROVE  /\ UNCHANGED links => LinkTypes'
         /\ UNCHANGED progress => ProgressTypes'
         /\ UNCHANGED leadership => LeadershipTypes'
         /\ UNCHANGED process => ProcessTypes'
         /\ UNCHANGED messages => (\A m \in messages' : MessageOK(m))
         /\ UNCHANGED <<role, ballot, changes>> => RoleTypes'
<1>1. UNCHANGED links => LinkTypes'
  BY DEF TypeInv, links, LinkTypes
<1>2. UNCHANGED progress => ProgressTypes'
  BY DEF TypeInv, progress, ProgressTypes
<1>3. UNCHANGED leadership => LeadershipTypes'
  BY DEF TypeInv, leadership, LeadershipTypes
<1>4. UNCHANGED process => ProcessTypes'
  BY DEF TypeInv, process, ProcessTypes
<1>5. UNCHANGED <<role, ballot, changes>> => RoleTypes'
  BY DEF TypeInv, RoleTypes
<1>6. UNCHANGED messages => (\A m \in messages' : MessageOK(m))
  BY DEF TypeInv
<1> QED BY <1>1, <1>2, <1>3, <1>4, <1>5, <1>6

LEMMA RoleBallot ==
  ASSUME TypeInv, NEW n \in Node, changes' = changes,
         \/ role' = role
         \/ \E x \in {"Follower", "Candidate", "Leader"} : role' = [role EXCEPT ![n] = x],
         \/ ballot' = ballot
         \/ \E b : ballot' = [ballot EXCEPT ![n] = b]
  PROVE  RoleTypes'
<1>1. role' \in [Node -> {"Follower", "Candidate", "Leader"}]
  BY DEF TypeInv, RoleTypes
<1>2. DOMAIN ballot' = Node
  BY DEF TypeInv, RoleTypes
<1> QED BY <1>1, <1>2 DEF TypeInv, RoleTypes

LEMMA VotesOfRequest ==
  ASSUME NEW r, r.type = "RequestVote", NEW ms, NoVoteIn(ms),
         messages' = messages \cup ({r} \cup ms)
  PROVE  Votes' = Votes \cup {<<r.src, r.term, r.src>>}
<1>1. VotesIn(messages \cup ({r} \cup ms)) = VotesIn(messages) \cup {<<r.src, r.term, r.src>>}
  BY DEF VotesIn, NoVoteIn
<1> QED BY <1>1 DEF Votes

LEMMA StartElectionStep ==
  ASSUME TypeInv, NEW n \in Node, StartElection(n)
  PROVE  TypeInv' /\ VoteStep(n)
<1> DEFINE s == IncrementTerm(st[n], n)
           reached == (clients[n] \cup peers[n]) \ {n}
           request == RequestVoteOf(n, s, reached)
<1> USE DEF budget
<1>0. StateTypes /\ ProgressTypes /\ LinkTypes /\ LeadershipTypes /\ RoleTypes
  BY DEF TypeInv
<1>1. st[n] \in MemberState /\ peers[n] \in SUBSET Node /\ reached \in SUBSET (Node \ {n})
  BY DEF TypeInv, StateTypes, LinkTypes
<1>2. /\ s \in MemberState /\ s.currentTerm = st[n].currentTerm + 1 /\ s.votedFor = n
      /\ Later(st[n], s)
  <2>1. s.currentTerm > st[n].currentTerm
    BY <1>1, IncrementTermMember, MemberFields
  <2> QED BY <1>1, <2>1, IncrementTermMember DEF Later
<1> HIDE DEF s, reached
<1>3. Stores(n, s, peers[n])
  BY <1>1, <1>2, SaveStores DEF StartElection, s
<1>4. StateTypes'
  BY <1>1, <1>2, <1>3, StoresTypes DEF TypeInv
<1>5. /\ MessageOK(request) /\ request.type = "RequestVote"
      /\ request.src = n /\ request.term = s.currentTerm
  BY <1>1, <1>2, RequestVoteType
<1> HIDE DEF request
<1>6. clients' = [clients EXCEPT ![n] = reached]
  BY DEF StartElection, reached
<1>7. clients' \in [Node -> SUBSET Node] /\ \A q \in Node : q \notin clients'[q]
  BY <1>1, <1>6 DEF TypeInv, LinkTypes
<1>8. ProcessTypes' /\ ProgressTypes'
  BY SameTypes DEF StartElection
<1>9. \/ /\ BecomeLeader(n, s, {n}, {request})
         /\ UNCHANGED ballot
      \/ /\ role' = [role EXCEPT ![n] = "Candidate"]
         /\ ballot' = [ballot EXCEPT ![n] = [open |-> TRUE, heard |-> {}, granted |-> {n}]]
         /\ Send({request})
         /\ UNCHANGED <<leadership, elected, connecting>>
  BY DEF StartElection, s, reached, request
<1>10. \E ms : Sends({request} \cup ms) /\ NoVoteIn(ms)
  <2>1. CASE BecomeLeader(n, s, {n}, {request})
    <3>0. \A m \in {request} : MessageOK(m)
      BY <1>5
    <3>1. LeaderSends(s, {request})
      BY <1>0, <1>2, <1>5, <1>7, <2>1, <3>0, BecomeLeaderTypes
    <3> QED BY <3>1 DEF NoVoteIn, LeaderSends
  <2>2. CASE Send({request})
    <3>1. Sends({request} \cup {})
      BY <1>5, <2>2 DEF Send, Sends
    <3>2. NoVoteIn({})
      BY DEF NoVoteIn
    <3> QED BY <3>1, <3>2
  <2> QED BY <1>9, <2>1, <2>2
<1>11. PICK ms : Sends({request} \cup ms) /\ NoVoteIn(ms)
  BY <1>10
<1>12. Votes' = Votes \cup {<<n, s.currentTerm, n>>}
  BY <1>5, <1>11, VotesOfRequest DEF Sends
<1>13. VoteStep(n)
  BY <1>1, <1>2, <1>3, <1>12 DEF VoteStep
<1>14. LinkTypes' /\ LeadershipTypes'
  <2>1. CASE BecomeLeader(n, s, {n}, {request})
    BY <1>0, <1>2, <1>5, <1>7, <2>1, BecomeLeaderTypes
  <2>2. CASE UNCHANGED <<leadership, elected, connecting>>
    <3>1. LeadershipTypes'
      BY <2>2, SameTypes
    <3> QED BY <1>7, <2>2, <3>1 DEF TypeInv, LinkTypes
  <2> QED BY <1>9, <2>1, <2>2
<1>15. RoleTypes'
  <2>1. changes' = changes
    BY DEF StartElection
  <2>2. CASE BecomeLeader(n, s, {n}, {request}) /\ UNCHANGED ballot
    BY <2>1, <2>2, RoleBallot DEF BecomeLeader
  <2>3. CASE /\ role' = [role EXCEPT ![n] = "Candidate"]
             /\ ballot' = [ballot EXCEPT ![n] = [open |-> TRUE, heard |-> {}, granted |-> {n}]]
    BY <2>1, <2>3, RoleBallot
  <2> QED BY <1>9, <2>2, <2>3
<1> QED BY <1>4, <1>8, <1>11, <1>13, <1>14, <1>15, SentTypes, NewTypes

LEMMA TypeParts ==
  ASSUME TypeInv
  PROVE  /\ StateTypes /\ LinkTypes /\ ProgressTypes /\ LeadershipTypes /\ ProcessTypes
         /\ RoleTypes /\ \A m \in messages : MessageOK(m)
         /\ \A n \in Node : /\ st[n] \in MemberState /\ peers[n] \in SUBSET Node
                            /\ commitIndex[n] \in Nat
                            /\ MapsOK(n, matchIndex[n], nextIndex[n]) /\ Positive(nextIndex[n])
BY DEF TypeInv, StateTypes, ProgressTypes, LeadershipTypes, MapsOK, Positive

LEMMA NoneSent == NoVoteIn({}) /\ \A m \in {} : MessageOK(m)
BY DEF NoVoteIn

LEMMA QuietStep ==
  ASSUME TypeInv, NEW n \in Node, UNCHANGED <<disk, st, peers>>, UNCHANGED messages
  PROVE  StateTypes' /\ VoteStep(n) /\ \A m \in messages' : MessageOK(m)
<1>1. messages' = messages \cup {}
  OBVIOUS
<1> QED BY <1>1, NoneSent, StillVote, SameTypes, TypeParts

LEMMA ElectionEndsStep ==
  ASSUME TypeInv, NEW n \in Node, ElectionEnds(n)
  PROVE  TypeInv' /\ VoteStep(n)
<1>1. StateTypes' /\ VoteStep(n) /\ \A m \in messages' : MessageOK(m)
  BY QuietStep DEF ElectionEnds
<1>2. /\ LinkTypes' /\ ProgressTypes' /\ LeadershipTypes' /\ ProcessTypes'
  BY SameTypes DEF ElectionEnds
<1>3. RoleTypes'
  BY RoleBallot DEF ElectionEnds, budget
<1> QED BY <1>1, <1>2, <1>3, NewTypes

LEMMA ReceiveVoteStep ==
  ASSUME TypeInv, NEW n \in Node, NEW m \in messages, ReceiveVote(n, m)
  PROVE  TypeInv' /\ VoteStep(n)
<1>1. /\ st[n] \in MemberState /\ peers[n] \in SUBSET Node /\ m.term \in Nat
      /\ StateTypes /\ ProgressTypes /\ LinkTypes /\ LeadershipTypes /\ RoleTypes
  BY TypeParts, MessageFields
<1>2. ProcessTypes' /\ ProgressTypes' /\ UNCHANGED changes
  BY SameTypes DEF ReceiveVote, budget
<1>3. clients' \in [Node -> SUBSET Node] /\ \A q \in Node : q \notin clients'[q]
  BY <1>1 DEF ReceiveVote, LinkTypes
<1>4. CASE /\ Save(n, UpdateTerm(st[n], m.term), peers[n])
           /\ StepDown(n)
           /\ ballot' = [ballot EXCEPT ![n] = Closed]
           /\ UNCHANGED <<leadership, messages, elected, connecting>>
  <2>1. UpdateTerm(st[n], m.term) \in MemberState /\ Later(st[n], UpdateTerm(st[n], m.term))
    BY <1>1, UpdateTermMember
  <2>2. Stores(n, UpdateTerm(st[n], m.term), peers[n])
    BY <1>1, <1>4, <2>1, SaveStores
  <2>3. messages' = messages \cup {}
    BY <1>4
  <2>4. StateTypes' /\ VoteStep(n)
    BY <1>1, <2>1, <2>2, <2>3, StoresTypes, QuietVote, NoneSent
  <2>5. LinkTypes' /\ LeadershipTypes' /\ \A r \in messages' : MessageOK(r)
    BY <1>1, <1>3, <1>4, SameTypes DEF LinkTypes
  <2>6. RoleTypes'
    BY <1>2, <1>4, RoleBallot DEF StepDown
  <2> QED BY <1>2, <2>4, <2>5, <2>6, NewTypes
<1>5. CASE /\ ballot' # ballot \/ ballot' = ballot
           /\ \E b : ballot' = [ballot EXCEPT ![n] = b]
           /\ UNCHANGED <<disk, st, peers, role, leadership, messages, elected, connecting>>
  <2>1. StateTypes' /\ VoteStep(n) /\ \A r \in messages' : MessageOK(r)
    BY <1>5, QuietStep
  <2>2. LinkTypes' /\ LeadershipTypes'
    BY <1>1, <1>3, <1>5, SameTypes DEF LinkTypes
  <2>3. RoleTypes'
    BY <1>2, <1>5, RoleBallot
  <2> QED BY <1>2, <2>1, <2>2, <2>3, NewTypes
<1>6. CASE \E granted : /\ UNCHANGED <<disk, st, peers>>
                        /\ BecomeLeader(n, st[n], granted, {})
                        /\ ballot' = [ballot EXCEPT ![n] = Closed]
  <2>1. PICK granted : BecomeLeader(n, st[n], granted, {})
    BY <1>6
  <2>2. /\ LinkTypes' /\ LeadershipTypes' /\ LeaderSends(st[n], {})
    BY <1>1, <1>3, <2>1, NoneSent, BecomeLeaderTypes
  <2>3. PICK ms : Sends({} \cup ms) /\ NoVoteIn(ms)
    BY <2>2 DEF LeaderSends, NoVoteIn
  <2>4. Sends(ms) /\ messages' = messages \cup ms
    BY <2>3 DEF Sends
  <2>5. StateTypes' /\ VoteStep(n)
    BY <1>1, <1>6, <2>3, <2>4, StillVote
  <2>6. \A r \in messages' : MessageOK(r)
    BY <2>4, SentTypes
  <2>7. RoleTypes'
    BY <1>2, <1>6, <2>1, RoleBallot DEF BecomeLeader
  <2> QED BY <1>2, <2>2, <2>5, <2>6, <2>7, NewTypes
<1> QED BY <1>4, <1>5, <1>6 DEF ReceiveVote

(* The state a voter saves.                                                *)
VoterState(n, m) ==
  LET s == UpdateTerm(st[n], m.term)
      grant == /\ m.term >= s.currentTerm
               /\ s.votedFor \in {Nil, m.src}
               /\ IsLogUpToDate(s, m.lastLogIndex, m.lastLogTerm)
  IN  IF grant THEN [s EXCEPT !.votedFor = m.src] ELSE s

LEMMA VotesOfReply ==
  ASSUME NEW r, r.type = "RequestVoteReply", messages' = messages \cup {r}
  PROVE  Votes' = Votes \cup (IF r.granted THEN {<<r.src, r.forTerm, r.dst>>} ELSE {})
<1>1. VotesIn(messages \cup {r})
        = VotesIn(messages) \cup (IF r.granted THEN {<<r.src, r.forTerm, r.dst>>} ELSE {})
  BY DEF VotesIn
<1> QED BY <1>1 DEF Votes

LEMMA VoterStateIs ==
  ASSUME TypeInv, NEW n \in Node, NEW m \in messages, HandleRequestVote(n, m)
  PROVE  \E s \in MemberState, granted \in BOOLEAN, r \in messages' :
           /\ s.log = st[n].log /\ Later(st[n], s)
           /\ granted => s.currentTerm = m.term /\ s.votedFor = m.src
           /\ Save(n, s, peers[n])
           /\ r.type = "RequestVoteReply" /\ r.src = n /\ r.dst = m.src /\ r.forTerm = m.term
           /\ r.granted = granted /\ MessageOK(r) /\ messages' = messages \cup {r}
<1>1. /\ st[n] \in MemberState /\ MessageOK(m) /\ m.type = "RequestVote"
      /\ m.term \in Nat /\ m.src \in Node
  BY TypeParts, MessageFields DEF HandleRequestVote
<1>2. PICK u : u = UpdateTerm(st[n], m.term)
  OBVIOUS
<1>3. /\ u \in MemberState /\ u.log = st[n].log /\ Later(st[n], u) /\ u.currentTerm \in Nat
      /\ u.currentTerm >= m.term
  <2>1. u \in MemberState /\ u.log = st[n].log /\ Later(st[n], u)
    BY <1>1, <1>2, UpdateTermMember
  <2>2. u.currentTerm >= m.term
    <3>1. st[n].currentTerm \in Nat
      BY <1>1, MemberFields
    <3>2. CASE m.term > st[n].currentTerm
      BY <1>1, <1>2, <3>2, UpdateTermMember
    <3>3. CASE ~(m.term > st[n].currentTerm)
      <4>1. u = st[n]
        BY <1>1, <1>2, <3>3, UpdateTermMember
      <4> QED BY <1>1, <3>1, <3>3, <4>1
    <3> QED BY <3>2, <3>3
  <2> QED BY <2>1, <2>2, MemberFields
<1>4. PICK grant \in BOOLEAN :
        grant = (/\ m.term >= u.currentTerm
                 /\ u.votedFor \in {Nil, m.src}
                 /\ IsLogUpToDate(u, m.lastLogIndex, m.lastLogTerm))
  OBVIOUS
<1>5. PICK r : r = RequestVoteReply(m, n, u.currentTerm, grant)
  OBVIOUS
<1>6. /\ MessageOK(r) /\ r.type = "RequestVoteReply" /\ r.src = n /\ r.dst = m.src
      /\ r.forTerm = m.term /\ r.granted = grant
  BY <1>1, <1>3, <1>5, ReplyType
<1>7. PICK s : s = IF grant THEN [u EXCEPT !.votedFor = m.src] ELSE u
  OBVIOUS
<1>8. Save(n, s, peers[n]) /\ messages' = messages \cup {r}
  BY <1>2, <1>4, <1>5, <1>7 DEF HandleRequestVote, Send
<1>9. CASE grant
  <2>1. /\ s \in MemberState /\ s.currentTerm = u.currentTerm /\ s.votedFor = m.src
        /\ s.log = u.log
    BY <1>1, <1>3, <1>7, <1>9, VoteMember
  <2>2. u.votedFor \in {Nil, m.src} /\ u.currentTerm = m.term
    <3>1. m.term >= u.currentTerm /\ u.votedFor \in {Nil, m.src}
      BY <1>4, <1>9
    <3> QED BY <1>1, <1>3, <3>1
  <2>3. Later(st[n], s)
    BY <1>3, <2>1, <2>2 DEF Later
  <2> QED BY <1>3, <1>6, <1>8, <2>1, <2>2, <2>3
<1>10. CASE ~grant
  BY <1>3, <1>6, <1>7, <1>8, <1>10
<1> QED BY <1>9, <1>10

LEMMA HandleRequestVoteStep ==
  ASSUME TypeInv, NEW n \in Node, NEW m \in messages, HandleRequestVote(n, m)
  PROVE  TypeInv' /\ VoteStep(n)
<1>1. PICK s \in MemberState, granted \in BOOLEAN, r \in messages' :
           /\ s.log = st[n].log /\ Later(st[n], s)
           /\ granted => s.currentTerm = m.term /\ s.votedFor = m.src
           /\ Save(n, s, peers[n])
           /\ r.type = "RequestVoteReply" /\ r.src = n /\ r.dst = m.src /\ r.forTerm = m.term
           /\ r.granted = granted /\ MessageOK(r) /\ messages' = messages \cup {r}
  BY VoterStateIs
<1>2. StateTypes /\ peers[n] \in SUBSET Node
  BY TypeParts
<1>3. Stores(n, s, peers[n])
  BY <1>1, <1>2, SaveStores
<1>4. StateTypes'
  BY <1>2, <1>3, StoresTypes
<1>5. VoteStep(n)
  <2>1. Votes' = Votes \cup (IF granted THEN {<<n, m.term, m.src>>} ELSE {})
    BY <1>1, VotesOfReply
  <2> QED BY <1>1, <1>2, <1>3, <2>1 DEF VoteStep
<1>6. \A q \in messages' : MessageOK(q)
  BY <1>1, TypeParts
<1>7. LinkTypes' /\ ProgressTypes' /\ LeadershipTypes' /\ ProcessTypes'
  BY SameTypes DEF HandleRequestVote
<1>8. RoleTypes'
  BY RoleBallot DEF HandleRequestVote, StepDown, budget
<1> QED BY <1>4, <1>5, <1>6, <1>7, <1>8, NewTypes

LEMMA BeatsNoVote ==
  ASSUME ProgressTypes, NEW n \in Node, NEW s \in MemberState, NEW ps \in SUBSET Node,
         NEW next, Positive(next)
  PROVE  NoVoteIn(Heartbeats(n, s, ps, next))
<1>1. \A m \in Heartbeats(n, s, ps, next) :
           /\ m.type = "AppendEntries" /\ MessageOK(m)
           /\ \A C : Uses(s.log, C) => Uses(m.entries, C)
  BY HeartbeatsType
<1> QED BY <1>1 DEF NoVoteIn

LEMMA HeartbeatTickStep ==
  ASSUME TypeInv, NEW n \in Node, HeartbeatTick(n)
  PROVE  TypeInv' /\ VoteStep(n)
<1>1. /\ StateTypes /\ LinkTypes /\ ProgressTypes
      /\ st[n] \in MemberState /\ peers[n] \in SUBSET Node /\ Positive(nextIndex[n])
  BY TypeParts
<1>2. clients' \in [Node -> SUBSET Node] /\ \A q \in Node : q \notin clients'[q]
  BY <1>1 DEF HeartbeatTick, LinkTypes
<1>3. SendHeartbeats(n, st[n], peers[n], nextIndex[n])
  BY DEF HeartbeatTick
<1>4. PICK ms : ms = Heartbeats(n, st[n], peers[n], nextIndex[n])
  OBVIOUS
<1>5. Sends(ms) /\ LinkTypes'
  BY <1>1, <1>2, <1>3, <1>4, SendHeartbeatsTypes
<1>6. NoVoteIn(ms) /\ messages' = messages \cup ms
  BY <1>1, <1>4, <1>5, BeatsNoVote DEF Sends
<1>7. StateTypes' /\ VoteStep(n)
  BY <1>1, <1>6, StillVote DEF HeartbeatTick
<1>8. ProgressTypes' /\ LeadershipTypes' /\ ProcessTypes' /\ RoleTypes'
  BY SameTypes DEF HeartbeatTick
<1> QED BY <1>5, <1>7, <1>8, SentTypes, NewTypes

LEMMA ClientRequestStep ==
  ASSUME TypeInv, NEW n \in Node, NEW v \in Value, ClientRequest(n, v)
  PROVE  TypeInv' /\ VoteStep(n)
<1>1. /\ StateTypes /\ LinkTypes /\ ProgressTypes
      /\ st[n] \in MemberState /\ peers[n] \in SUBSET Node /\ Positive(nextIndex[n])
  BY TypeParts
<1>2. clients' \in [Node -> SUBSET Node] /\ \A q \in Node : q \notin clients'[q]
  BY <1>1 DEF ClientRequest, LinkTypes
<1>3. PICK s : s = PushEntry(st[n], v)
  OBVIOUS
<1>4. s \in MemberState /\ Later(st[n], s)
  BY <1>1, <1>3, PushEntryMember, LaterItself DEF Command
<1>5. PICK ms : ms = Heartbeats(n, s, peers[n], nextIndex[n])
  OBVIOUS
<1>6. SendHeartbeats(n, s, peers[n], nextIndex[n]) /\ AdvanceCommit(n, s, matchIndex[n], TRUE)
  BY <1>3 DEF ClientRequest
<1>7. Sends(ms) /\ LinkTypes'
  BY <1>1, <1>2, <1>4, <1>5, <1>6, SendHeartbeatsTypes
<1>8. NoVoteIn(ms) /\ messages' = messages \cup ms
  BY <1>1, <1>4, <1>5, <1>7, BeatsNoVote DEF Sends
<1>9. ProgressTypes' /\ \E ps \in SUBSET Node : Stores(n, s, ps)
  BY <1>1, <1>4, <1>6, AdvanceCommitStores
<1>10. StateTypes' /\ VoteStep(n)
  BY <1>1, <1>4, <1>8, <1>9, StoresTypes, QuietVote
<1>11. LeadershipTypes' /\ ProcessTypes' /\ RoleTypes'
  BY SameTypes DEF ClientRequest, budget
<1> QED BY <1>7, <1>9, <1>10, <1>11, SentTypes, NewTypes

LEMMA OneResult ==
  ASSUME NEW m, MessageOK(m), m.type = "AppendEntries", NEW t \in Nat,
         NEW success \in BOOLEAN, NEW i \in Nat, Send({Result(m, t, success, i)})
  PROVE  \E ms : /\ Sends(ms) /\ NoVoteIn(ms) /\ messages' = messages \cup ms
                  /\ \A r \in ms : r.type # "AppendEntries"
<1>1. PICK r : r = Result(m, t, success, i)
  OBVIOUS
<1>2. MessageOK(r) /\ r.type = "AppendEntriesResult"
  BY <1>1, ResultType
<1>3. Sends({r}) /\ NoVoteIn({r}) /\ messages' = messages \cup {r}
  BY <1>1, <1>2 DEF Send, Sends, NoVoteIn
<1> QED BY <1>2, <1>3

LEMMA StaleAppendEntriesStep ==
  ASSUME TypeInv, NEW n \in Node, NEW m \in messages, StaleAppendEntries(n, m)
  PROVE  TypeInv' /\ VoteStep(n)
<1>1. StateTypes /\ MessageOK(m) /\ st[n].currentTerm \in Nat
  BY TypeParts, MemberFields
<1>2. PICK ms : Sends(ms) /\ NoVoteIn(ms) /\ messages' = messages \cup ms
  BY <1>1, OneResult DEF StaleAppendEntries
<1>3. StateTypes' /\ VoteStep(n)
  BY <1>1, <1>2, StillVote DEF StaleAppendEntries
<1>4. LinkTypes' /\ ProgressTypes' /\ LeadershipTypes' /\ ProcessTypes' /\ RoleTypes'
  BY SameTypes DEF StaleAppendEntries, budget
<1> QED BY <1>2, <1>3, <1>4, SentTypes, NewTypes

LEMMA HandleAppendEntriesStep ==
  ASSUME TypeInv, NEW n \in Node, NEW m \in messages, HandleAppendEntries(n, m)
  PROVE  TypeInv' /\ VoteStep(n)
<1>1. /\ StateTypes /\ ProgressTypes /\ MessageOK(m) /\ m.type = "AppendEntries"
      /\ st[n] \in MemberState /\ peers[n] \in SUBSET Node
  BY TypeParts DEF HandleAppendEntries
<1>2. /\ m.term \in Nat /\ m.prevIndex \in Nat /\ m.entries \in Seq(EntryType)
      /\ m.leaderCommit \in Nat
  BY <1>1, MessageFields
<1>3. PICK s : s = Merged(n, m)
  OBVIOUS
<1>4. s \in MemberState /\ Later(st[n], s) /\ s.currentTerm \in Nat /\ LastLogIndex(s) \in Nat
  BY <1>1, <1>2, <1>3, MergedMember, MemberFields
<1>5. PICK consistent \in BOOLEAN :
        consistent = AppendConsistent(st[n], m.prevIndex, m.prevTerm)
  BY DEF AppendConsistent
<1>6. m.prevIndex + Len(m.entries) \in Nat
  BY <1>2, LenProperties
<1>7. PICK ms : Sends(ms) /\ NoVoteIn(ms) /\ messages' = messages \cup ms
  <2>1. Send({Result(m, s.currentTerm, consistent, m.prevIndex + Len(m.entries))})
    BY <1>3, <1>5 DEF HandleAppendEntries
  <2> QED BY <1>1, <1>4, <1>6, <2>1, OneResult
<1>8. ProgressTypes' /\ \E ps \in SUBSET Node : Stores(n, s, ps)
  <2>1. CASE ApplyCommitted(n, s, Smaller(m.leaderCommit, LastLogIndex(s)), TRUE)
    <3>1. PICK commit : commit = Smaller(m.leaderCommit, LastLogIndex(s))
      OBVIOUS
    <3>2. commit \in Nat
      BY <1>2, <1>4, <3>1, SmallerIs
    <3>3. ApplyCommitted(n, s, commit, TRUE)
      BY <2>1, <3>1
    <3> QED BY <1>1, <1>4, <3>2, <3>3, ApplyCommittedStores
  <2>2. CASE Save(n, s, peers[n]) /\ UNCHANGED progress
    BY <1>1, <1>4, <2>2, SaveStores, SameTypes
  <2> QED BY <1>3, <2>1, <2>2 DEF HandleAppendEntries
<1>9. StateTypes' /\ VoteStep(n)
  BY <1>1, <1>4, <1>7, <1>8, StoresTypes, QuietVote
<1>10. LinkTypes' /\ LeadershipTypes' /\ ProcessTypes'
  BY SameTypes DEF HandleAppendEntries
<1>11. RoleTypes'
  BY RoleBallot DEF HandleAppendEntries, StepDown, budget
<1> QED BY <1>7, <1>8, <1>9, <1>10, <1>11, SentTypes, NewTypes

LEMMA UpdatePeerClientStep ==
  ASSUME TypeInv, NEW n \in Node, NEW p \in Node, UpdatePeerClient(n, p)
  PROVE  TypeInv' /\ VoteStep(n)
<1>1. StateTypes' /\ VoteStep(n) /\ \A m \in messages' : MessageOK(m)
  BY QuietStep DEF UpdatePeerClient
<1>2. /\ ProgressTypes' /\ LeadershipTypes' /\ ProcessTypes' /\ RoleTypes'
  BY SameTypes DEF UpdatePeerClient, budget
<1>3. LinkTypes'
  BY TypeParts DEF UpdatePeerClient, LinkTypes
<1> QED BY <1>1, <1>2, <1>3, NewTypes

LEMMA HandleResultStep ==
  ASSUME TypeInv, NEW n \in Node, NEW m \in messages, n = m.dst, HandleResult(n, m)
  PROVE  TypeInv' /\ VoteStep(n)
<1>1. /\ StateTypes /\ ProgressTypes /\ LeadershipTypes /\ MessageOK(m)
      /\ m.type = "AppendEntriesResult"
      /\ st[n] \in MemberState /\ peers[n] \in SUBSET Node
      /\ MapsOK(n, matchIndex[n], nextIndex[n]) /\ Positive(nextIndex[n])
  BY TypeParts DEF HandleResult
<1>2. m.src \in Node \ {n} /\ m.term \in Nat /\ m.lastLogIndex \in Nat
  BY <1>1, MessageFields
<1>3. /\ LinkTypes' /\ ProcessTypes' /\ messages' = messages \cup {}
      /\ \A r \in messages' : MessageOK(r)
  BY SameTypes DEF HandleResult
<1>4. RoleTypes'
  BY RoleBallot DEF HandleResult, StepDown, budget
<1>5. CASE /\ Save(n, UpdateTerm(st[n], m.term), peers[n])
           /\ UNCHANGED <<progress, leadership, decided>>
  <2>1. UpdateTerm(st[n], m.term) \in MemberState /\ Later(st[n], UpdateTerm(st[n], m.term))
    BY <1>1, <1>2, UpdateTermMember
  <2>2. Stores(n, UpdateTerm(st[n], m.term), peers[n])
    BY <1>1, <1>5, <2>1, SaveStores
  <2>3. StateTypes' /\ VoteStep(n)
    BY <1>1, <1>3, <2>1, <2>2, StoresTypes, QuietVote, NoneSent
  <2>4. ProgressTypes' /\ LeadershipTypes'
    BY <1>5, SameTypes
  <2> QED BY <1>3, <1>4, <2>3, <2>4, NewTypes
<1>6. CASE LET match == With(matchIndex[n], m.src, m.lastLogIndex)
           IN  /\ matchIndex' = [matchIndex EXCEPT ![n] = match]
               /\ nextIndex' = [nextIndex EXCEPT ![n] = With(@, m.src, m.lastLogIndex + 1)]
               /\ AdvanceCommit(n, st[n], match, FALSE)
  <2>1. PICK match : match = With(matchIndex[n], m.src, m.lastLogIndex)
    OBVIOUS
  <2>2. PICK i : i = m.lastLogIndex + 1
    OBVIOUS
  <2>3. i \in Nat \ {0}
    BY <1>2, <2>2
  <2>4. PICK next : next = With(nextIndex[n], m.src, i)
    OBVIOUS
  <2>5. /\ matchIndex' = [matchIndex EXCEPT ![n] = match]
        /\ nextIndex' = [nextIndex EXCEPT ![n] = next]
        /\ AdvanceCommit(n, st[n], match, FALSE)
    BY <1>6, <2>1, <2>2, <2>4
  <2>6. MapsOK(n, match, next)
    BY <1>1, <1>2, <2>1, <2>3, <2>4, WithNext
  <2>7. LeadershipTypes'
    BY <1>1, <2>5, <2>6, NewMaps
  <2>8. ProgressTypes' /\ \E ps \in SUBSET Node : Stores(n, st[n], ps)
    BY <1>1, <2>5, AdvanceCommitStores
  <2>9. Later(st[n], st[n])
    BY LaterItself DEF SameVote
  <2>10. StateTypes' /\ VoteStep(n)
    BY <1>1, <1>3, <2>8, <2>9, StoresTypes, QuietVote, NoneSent
  <2> QED BY <1>3, <1>4, <2>7, <2>8, <2>10, NewTypes
<1>7. CASE /\ nextIndex' = [nextIndex EXCEPT ![n] = With(@, m.src, StepBack(NextOf(@, m.src)))]
           /\ UNCHANGED <<disk, st, peers, matchIndex, progress, decided>>
  <2>1. PICK k : k = NextOf(nextIndex[n], m.src)
    OBVIOUS
  <2>2. PICK i : i = StepBack(k)
    OBVIOUS
  <2>3. i \in Nat \ {0}
    <3>1. k \in Nat \ {0}
      BY <1>1, <2>1, NextOfType
    <3> QED BY <2>2, <3>1 DEF StepBack
  <2>4. PICK next : next = With(nextIndex[n], m.src, i)
    OBVIOUS
  <2>5. nextIndex' = [nextIndex EXCEPT ![n] = next] /\ matchIndex' = matchIndex
    BY <1>7, <2>1, <2>2, <2>4
  <2>6. MapsOK(n, matchIndex[n], next)
    BY <1>1, <1>2, <2>3, <2>4, WithNext
  <2>7. LeadershipTypes'
    BY <1>1, <2>5, <2>6 DEF LeadershipTypes
  <2>8. ProgressTypes'
    BY <1>7, SameTypes
  <2>9. StateTypes' /\ VoteStep(n)
    BY <1>1, <1>3, <1>7, NoneSent, StillVote
  <2> QED BY <1>3, <1>4, <2>7, <2>8, <2>9, NewTypes
<1> QED BY <1>5, <1>6, <1>7 DEF HandleResult

LEMMA ChangeType ==
  ASSUME NEW p \in Node
  PROVE  AddNode(p) \in Change /\ RemoveNode(p) \in Change
BY DEF AddNode, RemoveNode, Change

LEMMA OfferKeeps ==
  ASSUME TypeInv, NEW p \in Node, mode[p] = "joining", mode' = mode,
         NEW ps \in SUBSET Node, p \in ps, offer' = [offer EXCEPT ![p] = ps]
  PROVE  ProcessTypes'
BY TypeParts DEF ProcessTypes

LEMMA ApplyMembershipStep ==
  ASSUME TypeInv, NEW n \in Node, NEW p \in Node, ApplyMembership(n, p)
  PROVE  TypeInv' /\ VoteStep(n)
<1>1. /\ StateTypes /\ LinkTypes /\ ProgressTypes /\ LeadershipTypes
      /\ st[n] \in MemberState /\ peers[n] \in SUBSET Node /\ changes \in Nat
      /\ MapsOK(n, matchIndex[n], nextIndex[n]) /\ Positive(nextIndex[n])
  BY TypeParts DEF RoleTypes
<1>2. mode[p] = "joining" /\ mode[n] = "running" /\ p # n /\ UNCHANGED mode
  BY DEF ApplyMembership, Ready
<1>3. /\ ProgressTypes' /\ UNCHANGED <<role, ballot>>
  BY SameTypes DEF ApplyMembership
<1>4. PICK s : s = PushEntry(st[n], AddNode(p))
  OBVIOUS
<1>5. s \in MemberState /\ SameVote(s, st[n]) /\ Later(st[n], s)
  BY <1>1, <1>4, ChangeType, PushEntryMember, LaterItself
<1>6. PICK ps : ps = peers[n] \cup {p}
  OBVIOUS
<1>7. ps \in SUBSET Node
  BY <1>1, <1>6
<1>8. CASE /\ p \in peers[n]
           /\ offer' = [offer EXCEPT ![p] = peers[n] \cup {n}]
           /\ UNCHANGED <<disk, st, peers, links, leadership, messages, budget>>
  <2>1. StateTypes' /\ VoteStep(n) /\ \A m \in messages' : MessageOK(m)
    BY <1>8, QuietStep
  <2>2. LinkTypes' /\ LeadershipTypes' /\ RoleTypes'
    BY <1>3, <1>8, SameTypes DEF budget
  <2>3. ProcessTypes'
    <3>1. PICK all : all = peers[n] \cup {n}
      OBVIOUS
    <3>2. all \in SUBSET Node /\ p \in all /\ offer' = [offer EXCEPT ![p] = all]
      BY <1>1, <1>8, <3>1
    <3> QED BY <1>2, <3>2, OfferKeeps
  <2> QED BY <1>3, <2>1, <2>2, <2>3, NewTypes
<1>9. CASE /\ changes' = changes + 1
           /\ Save(n, s, ps)
           /\ nextIndex' = [nextIndex EXCEPT ![n] = With(@, p, LastLogIndex(st[n]) + 1)]
           /\ matchIndex' = [matchIndex EXCEPT ![n] = With(@, p, 0)]
           /\ \E connects \in BOOLEAN :
                clients' = IF connects THEN [clients EXCEPT ![n] = @ \cup {p}] ELSE clients
           /\ SendHeartbeats(n, s, ps, nextIndex'[n])
           /\ offer' = [offer EXCEPT ![p] = ps \cup {n}]
  <2>1. Stores(n, s, ps)
    BY <1>5, <1>7, <1>9, SaveStores
  <2>2. StateTypes'
    BY <1>1, <1>5, <1>7, <2>1, StoresTypes
  <2>3. PICK i : i = LastLogIndex(st[n]) + 1
    OBVIOUS
  <2>4. i \in Nat \ {0}
    BY <1>1, <2>3, MemberFields
  <2>5. PICK next : next = With(nextIndex[n], p, i)
    OBVIOUS
  <2>6. PICK match : match = With(matchIndex[n], p, 0)
    OBVIOUS
  <2>7. MapsOK(n, match, next)
    BY <1>1, <1>2, <2>4, <2>5, <2>6, WithNext
  <2>8. /\ nextIndex' = [nextIndex EXCEPT ![n] = next]
        /\ matchIndex' = [matchIndex EXCEPT ![n] = match]
    BY <1>9, <2>3, <2>5, <2>6
  <2>9. LeadershipTypes'
    BY <1>1, <2>7, <2>8, NewMaps
  <2>10. Positive(next) /\ nextIndex'[n] = next
    BY <1>1, <2>7, <2>8 DEF MapsOK, Positive, LeadershipTypes
  <2>11. clients' \in [Node -> SUBSET Node] /\ \A q \in Node : q \notin clients'[q]
    BY <1>1, <1>2, <1>9 DEF LinkTypes
  <2>12. PICK ms : ms = Heartbeats(n, s, ps, next)
    OBVIOUS
  <2>13. SendHeartbeats(n, s, ps, next)
    BY <1>9, <2>10
  <2>14. Sends(ms) /\ LinkTypes'
    BY <1>1, <1>5, <1>7, <2>10, <2>11, <2>12, <2>13, SendHeartbeatsTypes
  <2>15. NoVoteIn(ms) /\ messages' = messages \cup ms
    BY <1>1, <1>5, <1>7, <2>10, <2>12, <2>14, BeatsNoVote DEF Sends
  <2>16. VoteStep(n)
    BY <1>5, <1>7, <2>1, <2>15, QuietVote
  <2>17. ProcessTypes'
    <3>1. PICK all : all = ps \cup {n}
      OBVIOUS
    <3>2. all \in SUBSET Node /\ p \in all /\ offer' = [offer EXCEPT ![p] = all]
      BY <1>6, <1>7, <1>9, <3>1
    <3> QED BY <1>2, <3>2, OfferKeeps
  <2>18. RoleTypes'
    BY <1>1, <1>3, <1>9, TypeParts DEF RoleTypes
  <2> QED BY <1>3, <2>2, <2>9, <2>14, <2>16, <2>17, <2>18, SentTypes, NewTypes
<1>10. CASE /\ changes' = changes + 1
            /\ SaveFails(n, s, ps)
            /\ UNCHANGED <<offer, links, leadership, messages>>
  <2>1. Stores(n, st[n], peers[n])
    BY <1>1, <1>5, <1>7, <1>10, SaveFailsStores
  <2>2. Later(st[n], st[n]) /\ messages' = messages \cup {}
    BY <1>10, LaterItself DEF SameVote
  <2>3. StateTypes' /\ VoteStep(n)
    BY <1>1, <2>1, <2>2, StoresTypes, QuietVote, NoneSent
  <2>4. LinkTypes' /\ LeadershipTypes' /\ ProcessTypes' /\ \A m \in messages' : MessageOK(m)
    BY <1>2, <1>10, SameTypes DEF process
  <2>5. RoleTypes'
    BY <1>1, <1>3, <1>10, TypeParts DEF RoleTypes
  <2> QED BY <1>3, <2>3, <2>4, <2>5, NewTypes
<1> QED BY <1>4, <1>6, <1>8, <1>9, <1>10 DEF ApplyMembership

LEMMA RemoveMembershipStep ==
  ASSUME TypeInv, NEW n \in Node, NEW p \in Node, RemoveMembership(n, p)
  PROVE  TypeInv' /\ VoteStep(n)
<1>1. /\ StateTypes /\ LinkTypes /\ ProgressTypes /\ LeadershipTypes
      /\ st[n] \in MemberState /\ peers[n] \in SUBSET Node /\ changes \in Nat
      /\ MapsOK(n, matchIndex[n], nextIndex[n]) /\ Positive(nextIndex[n])
  BY TypeParts DEF RoleTypes
<1>2. /\ ProgressTypes' /\ ProcessTypes' /\ UNCHANGED <<role, ballot>> /\ changes' = changes + 1
  BY SameTypes DEF RemoveMembership
<1>3. RoleTypes'
  BY <1>1, <1>2, TypeParts DEF RoleTypes
<1>4. PICK s : s = PushEntry(st[n], RemoveNode(p))
  OBVIOUS
<1>5. s \in MemberState /\ SameVote(s, st[n]) /\ Later(st[n], s)
  BY <1>1, <1>4, ChangeType, PushEntryMember, LaterItself
<1>6. PICK ps : ps = peers[n] \ {p}
  OBVIOUS
<1>7. ps \in SUBSET Node
  BY <1>1, <1>6
<1>8. CASE /\ Save(n, s, ps)
           /\ nextIndex' = [nextIndex EXCEPT ![n] = Without(@, p)]
           /\ matchIndex' = [matchIndex EXCEPT ![n] = Without(@, p)]
           /\ clients' = [clients EXCEPT ![n] = @ \ {p}]
           /\ SendHeartbeats(n, s, ps, nextIndex'[n])
  <2>1. Stores(n, s, ps)
    BY <1>5, <1>7, <1>8, SaveStores
  <2>2. StateTypes'
    BY <1>1, <1>5, <1>7, <2>1, StoresTypes
  <2>3. PICK next : next = Without(nextIndex[n], p)
    OBVIOUS
  <2>4. PICK match : match = Without(matchIndex[n], p)
    OBVIOUS
  <2>5. MapsOK(n, match, next)
    BY <1>1, <2>3, <2>4, WithoutMaps
  <2>6. /\ nextIndex' = [nextIndex EXCEPT ![n] = next]
        /\ matchIndex' = [matchIndex EXCEPT ![n] = match]
    BY <1>8, <2>3, <2>4
  <2>7. LeadershipTypes'
    BY <1>1, <2>5, <2>6, NewMaps
  <2>8. Positive(next) /\ nextIndex'[n] = next
    BY <1>1, <2>5, <2>6 DEF MapsOK, Positive, LeadershipTypes
  <2>9. clients' \in [Node -> SUBSET Node] /\ \A q \in Node : q \notin clients'[q]
    BY <1>1, <1>8 DEF LinkTypes
  <2>10. PICK ms : ms = Heartbeats(n, s, ps, next)
    OBVIOUS
  <2>11. SendHeartbeats(n, s, ps, next)
    BY <1>8, <2>8
  <2>12. Sends(ms) /\ LinkTypes'
    BY <1>1, <1>5, <1>7, <2>8, <2>9, <2>10, <2>11, SendHeartbeatsTypes
  <2>13. NoVoteIn(ms) /\ messages' = messages \cup ms
    BY <1>1, <1>5, <1>7, <2>8, <2>10, <2>12, BeatsNoVote DEF Sends
  <2>14. VoteStep(n)
    BY <1>5, <1>7, <2>1, <2>13, QuietVote
  <2> QED BY <1>2, <1>3, <2>2, <2>7, <2>12, <2>14, SentTypes, NewTypes
<1>9. CASE /\ SaveFails(n, s, ps)
           /\ UNCHANGED <<links, leadership, messages>>
  <2>1. Stores(n, st[n], peers[n])
    BY <1>1, <1>5, <1>7, <1>9, SaveFailsStores
  <2>2. Later(st[n], st[n]) /\ messages' = messages \cup {}
    BY <1>9, LaterItself DEF SameVote
  <2>3. StateTypes' /\ VoteStep(n)
    BY <1>1, <2>1, <2>2, StoresTypes, QuietVote, NoneSent
  <2>4. LinkTypes' /\ LeadershipTypes' /\ \A m \in messages' : MessageOK(m)
    BY <1>9, SameTypes
  <2> QED BY <1>2, <1>3, <2>3, <2>4, NewTypes
<1> QED BY <1>4, <1>6, <1>8, <1>9 DEF RemoveMembership

LEMMA FinishBootstrapStep ==
  ASSUME TypeInv, NEW n \in Node, FinishBootstrap(n)
  PROVE  TypeInv' /\ VoteStep(n)
<1>1. /\ StateTypes /\ ProcessTypes /\ st[n] \in MemberState
      /\ offer[n] \in SUBSET Node
  BY TypeParts DEF ProcessTypes, FinishBootstrap
<1>2. /\ LinkTypes' /\ ProgressTypes' /\ LeadershipTypes' /\ messages' = messages \cup {}
      /\ \A m \in messages' : MessageOK(m)
  BY SameTypes DEF FinishBootstrap
<1>3. RoleTypes'
  BY RoleBallot DEF FinishBootstrap
<1>4. ProcessTypes'
  <2>1. /\ offer' = [offer EXCEPT ![n] = Nil]
        /\ \E x \in {"down", "running"} : mode' = [mode EXCEPT ![n] = x]
    BY DEF FinishBootstrap
  <2> QED BY <1>1, <2>1 DEF ProcessTypes
<1>5. SameVote(st[n], st[n]) /\ Later(st[n], st[n])
  BY LaterItself DEF SameVote
<1>6. \E ps \in SUBSET Node : Stores(n, st[n], ps)
  <2>1. CASE Save(n, st[n], offer[n])
    BY <1>1, <2>1, SaveStores
  <2>2. CASE SaveFails(n, st[n], offer[n])
    <3>1. Stores(n, st[n], peers[n])
      BY <1>1, <1>5, <2>2, SaveFailsStores
    <3> QED BY <3>1 DEF TypeInv, StateTypes
  <2> QED BY <2>1, <2>2 DEF FinishBootstrap
<1>7. StateTypes' /\ VoteStep(n)
  BY <1>1, <1>2, <1>5, <1>6, StoresTypes, QuietVote, NoneSent
<1> QED BY <1>2, <1>3, <1>4, <1>7, NewTypes

LEMMA BootstrapFailsStep ==
  ASSUME TypeInv, NEW n \in Node, BootstrapFails(n)
  PROVE  TypeInv' /\ VoteStep(n)
<1>1. StateTypes' /\ VoteStep(n) /\ \A m \in messages' : MessageOK(m)
  BY QuietStep DEF BootstrapFails
<1>2. LinkTypes' /\ ProgressTypes' /\ LeadershipTypes' /\ RoleTypes'
  BY SameTypes DEF BootstrapFails, budget
<1>3. ProcessTypes'
  BY TypeParts DEF BootstrapFails, ProcessTypes
<1> QED BY <1>1, <1>2, <1>3, NewTypes

LEMMA GoDownTypes ==
  ASSUME TypeInv, NEW n \in Node, GoDown(n), mode[n] = "running"
  PROVE  LinkTypes' /\ ProgressTypes' /\ LeadershipTypes' /\ ProcessTypes' /\ RoleTypes'
<1>1. /\ LinkTypes /\ ProgressTypes /\ LeadershipTypes /\ ProcessTypes
  BY TypeParts
<1>2. LinkTypes'
  BY <1>1 DEF GoDown, LinkTypes
<1>3. ProgressTypes'
  BY <1>1 DEF GoDown, ProgressTypes
<1>4. LeadershipTypes'
  <2>1. MapsOK(n, <<>>, <<>>)
    BY DEF MapsOK
  <2> QED BY <1>1, <2>1, NewMaps DEF GoDown
<1>5. ProcessTypes'
  BY <1>1 DEF GoDown, ProcessTypes
<1>6. RoleTypes'
  BY RoleBallot DEF GoDown, StepDown
<1> QED BY <1>2, <1>3, <1>4, <1>5, <1>6

LEMMA CrashStep ==
  ASSUME TypeInv, NEW n \in Node, Crash(n)
  PROVE  TypeInv' /\ VoteStep(n)
<1>1. StateTypes' /\ VoteStep(n) /\ \A m \in messages' : MessageOK(m)
  BY QuietStep DEF Crash
<1>2. LinkTypes' /\ ProgressTypes' /\ LeadershipTypes' /\ ProcessTypes' /\ RoleTypes'
  BY GoDownTypes DEF Crash
<1> QED BY <1>1, <1>2, NewTypes

LEMMA AppendEntriesInterruptedStep ==
  ASSUME TypeInv, NEW n \in Node, NEW m \in messages, AppendEntriesInterrupted(n, m)
  PROVE  TypeInv' /\ VoteStep(n)
<1>1. /\ StateTypes /\ MessageOK(m) /\ m.type = "AppendEntries"
      /\ st[n] \in MemberState /\ peers[n] \in SUBSET Node
  BY TypeParts DEF AppendEntriesInterrupted
<1>2. m.term \in Nat /\ m.prevIndex \in Nat /\ m.entries \in Seq(EntryType)
  BY <1>1, MessageFields
<1>3. Merged(n, m) \in MemberState /\ Later(st[n], Merged(n, m))
  BY <1>1, <1>2, MergedMember
<1>4. Stores(n, Merged(n, m), peers[n]) /\ messages' = messages \cup {}
  BY <1>1, <1>3, SaveStores DEF AppendEntriesInterrupted
<1>5. StateTypes' /\ VoteStep(n)
  BY <1>1, <1>3, <1>4, StoresTypes, QuietVote, NoneSent
<1>6. LinkTypes' /\ ProgressTypes' /\ LeadershipTypes' /\ ProcessTypes' /\ RoleTypes'
  BY GoDownTypes DEF AppendEntriesInterrupted, Ready
<1>7. \A r \in messages' : MessageOK(r)
  BY SameTypes DEF AppendEntriesInterrupted
<1> QED BY <1>5, <1>6, <1>7, NewTypes

LEMMA StartStep ==
  ASSUME TypeInv, VotesSaved, NEW n \in Node, Start(n)
  PROVE  TypeInv' /\ VoteStep(n)
<1>1. StateTypes /\ LinkTypes /\ ProcessTypes
  BY TypeParts
<1>2. PICK ps : ps = RestoredPeers(disk[n])
  OBVIOUS
<1>3. PICK s : s = OnDisk(n)
  OBVIOUS
<1>4. disk[n] # Nil => disk[n].state \in MemberState /\ disk[n].peers \in SUBSET Node
  BY <1>1 DEF StateTypes, File
<1>5. s \in MemberState /\ SameVote(s, st[n]) /\ Later(st[n], s)
  BY <1>3, <1>4, FreshMember, LaterItself DEF OnDisk, VotesSaved, SameVote
<1>6. ps \in SUBSET Node
  BY <1>2, <1>4, MembershipAssumption DEF RestoredPeers
<1>7. Stores(n, s, ps) /\ messages' = messages \cup {}
  BY <1>2, <1>3, <1>5 DEF Start, OnDisk, Stores
<1>8. StateTypes' /\ VoteStep(n)
  BY <1>1, <1>5, <1>6, <1>7, StoresTypes, QuietVote, NoneSent
<1>9. /\ ProgressTypes' /\ LeadershipTypes' /\ RoleTypes' /\ \A m \in messages' : MessageOK(m)
  BY SameTypes DEF Start, budget
<1>10. LinkTypes'
  BY <1>1, MembershipAssumption DEF Start, LinkTypes
<1>11. ProcessTypes'
  <2>1. mode[n] = "down" /\ offer' = offer
        /\ \E x \in {"running", "joining"} : mode' = [mode EXCEPT ![n] = x]
    BY DEF Start
  <2> QED BY <1>1, <2>1 DEF ProcessTypes
<1> QED BY <1>8, <1>9, <1>10, <1>11, NewTypes

LEMMA InitTypes == Init => TypeInv /\ VoteInv
<1> SUFFICES ASSUME Init PROVE TypeInv /\ VoteInv
  OBVIOUS
<1>1. StateTypes
  BY FreshMember, MembershipAssumption DEF Init, StateTypes
<1>2. LinkTypes /\ ProgressTypes /\ RoleTypes
  BY DEF Init, LinkTypes, ProgressTypes, RoleTypes
<1>3. LeadershipTypes
  BY DEF Init, LeadershipTypes, MapsOK
<1>4. ProcessTypes
  BY DEF Init, ProcessTypes
<1>5. TypeInv
  BY <1>1, <1>2, <1>3, <1>4 DEF Init, TypeInv
<1>6. Votes = {} /\ elected = {}
  BY DEF Init, Votes, VotesIn
<1>7. VotesSaved /\ BallotsBacked
  BY DEF Init, VotesSaved, OnDisk, BallotsBacked, Closed
<1> QED BY <1>5, <1>6, <1>7 DEF VoteInv, VotesKept, OneVote, LeadersBacked

(* Who takes a step: the votes it gives and the ballot it closes are its   *)
(* own.                                                                    *)
LEMMA StepKeepsSaved ==
  ASSUME TypeInv, VotesSaved, NEW n \in Node, VoteStep(n)
  PROVE  VotesSaved'
<1>1. PICK s \in MemberState, ps \in SUBSET Node : Stores(n, s, ps)
  BY DEF VoteStep
<1>2. st \in [Node -> MemberState] /\ disk \in [Node -> File \cup {Nil}]
  BY TypeParts DEF StateTypes
<1>3. st' = [st EXCEPT ![n] = s]
  BY <1>1 DEF Stores
<1>4. ASSUME NEW q \in Node
      PROVE  SameVote(OnDisk(q)', st'[q])
  <2>1. SameVote(OnDisk(q), st[q])
    BY DEF VotesSaved, SameVote
  <2>2. CASE disk' = disk /\ SameVote(s, st[n])
    <3>1. OnDisk(q)' = OnDisk(q)
      BY <2>2 DEF OnDisk
    <3>2. SameVote(st'[q], st[q])
      BY <1>2, <1>3, <2>2 DEF SameVote
    <3> QED BY <2>1, <3>1, <3>2 DEF SameVote
  <2>3. CASE \E t \in MemberState, qs \in SUBSET Node :
               disk' = [disk EXCEPT ![n] = FileOf(t, qs)] /\ SameVote(t, s)
    <3>1. PICK t \in MemberState, qs \in SUBSET Node :
            disk' = [disk EXCEPT ![n] = FileOf(t, qs)] /\ SameVote(t, s)
      BY <2>3
    <3>2. CASE q = n
      <4>1. disk'[q] = FileOf(t, qs) /\ st'[q] = s
        BY <1>2, <1>3, <3>1, <3>2
      <4>2. OnDisk(q)' = t
        BY <4>1, FileType DEF OnDisk
      <4> QED BY <3>1, <4>1, <4>2
    <3>3. CASE q # n
      <4>1. disk'[q] = disk[q] /\ st'[q] = st[q]
        BY <1>2, <1>3, <3>1, <3>3
      <4>2. OnDisk(q)' = OnDisk(q)
        BY <4>1 DEF OnDisk
      <4> QED BY <2>1, <4>1, <4>2
    <3> QED BY <3>2, <3>3
  <2> QED BY <1>1, <2>2, <2>3 DEF Stores
<1> QED BY <1>4 DEF VotesSaved, SameVote

LEMMA VotesType ==
  ASSUME TypeInv, NEW v \in Votes
  PROVE  v[1] \in Node /\ v[2] \in Nat /\ v[3] \in Node
<1>1. \A m \in messages : MessageOK(m)
  BY TypeParts
<1>2. \/ \E m \in messages : /\ m.type = "RequestVoteReply"
                             /\ v = <<m.src, m.forTerm, m.dst>>
      \/ \E m \in messages : /\ m.type = "RequestVote"
                             /\ v = <<m.src, m.term, m.src>>
  BY DEF Votes, VotesIn
<1> QED BY <1>1, <1>2, MessageFields

(* A vote is kept by the term or the vote of who gave it.                  *)
Keeps(s, v) ==
  \/ s.currentTerm > v[2]
  \/ s.currentTerm = v[2] /\ s.votedFor = v[3]

LEMMA LaterKeeps ==
  ASSUME NEW s \in MemberState, NEW t \in MemberState, Later(s, t), NEW v, v[2] \in Nat,
         v[3] \in Node, Keeps(s, v)
  PROVE  Keeps(t, v)
<1>1. s.currentTerm \in Nat /\ t.currentTerm \in Nat
  BY MemberFields
<1>2. v[3] # Nil
  BY NodeAssumption
<1> QED BY <1>1, <1>2 DEF Later, Keeps

LEMMA StepKeepsVotes ==
  ASSUME TypeInv, VotesKept, OneVote, NEW n \in Node, VoteStep(n)
  PROVE  VotesKept' /\ OneVote'
<1>1. PICK s \in MemberState, ps \in SUBSET Node :
           /\ Stores(n, s, ps) /\ Later(st[n], s)
           /\ \A v \in Votes' \ Votes : v = <<n, s.currentTerm, s.votedFor>>
  BY DEF VoteStep
<1>2. st \in [Node -> MemberState] /\ st' = [st EXCEPT ![n] = s] /\ s.currentTerm \in Nat
  BY <1>1, TypeParts, MemberFields DEF StateTypes, Stores
<1>3. ASSUME NEW v \in Votes
      PROVE  Keeps(st'[v[1]], v)
  <2>1. Keeps(st[v[1]], v) /\ v[1] \in Node /\ v[2] \in Nat /\ v[3] \in Node
    BY VotesType DEF VotesKept, Keeps
  <2>2. CASE v[1] = n
    <3>1. st[n] \in MemberState /\ st'[v[1]] = s
      BY <1>2, <2>2
    <3> QED BY <1>1, <2>1, <2>2, <3>1, LaterKeeps
  <2>3. CASE v[1] # n
    BY <1>2, <2>1, <2>3
  <2> QED BY <2>2, <2>3
<1>4. ASSUME NEW v \in Votes' \ Votes
      PROVE  v[1] = n /\ v[2] = s.currentTerm /\ v[3] = s.votedFor /\ Keeps(st'[v[1]], v)
  <2>1. v[1] = n /\ v[2] = s.currentTerm /\ v[3] = s.votedFor
    BY <1>1
  <2>2. st'[n] = s
    BY <1>2
  <2> QED BY <2>1, <2>2 DEF Keeps
<1>5. \A v \in Votes' : Keeps(st'[v[1]], v)
  BY <1>3, <1>4
<1>6. ASSUME NEW v \in Votes, NEW w \in Votes' \ Votes, v[1] = w[1], v[2] = w[2]
      PROVE  v[3] = w[3]
  <2>1. Keeps(st'[v[1]], v)
    BY <1>3
  <2>2. st'[v[1]] = s
    BY <1>2, <1>4, <1>6
  <2>3. ~(s.currentTerm > v[2])
    BY <1>2, <1>4, <1>6
  <2> QED BY <1>4, <2>1, <2>2, <2>3 DEF Keeps
<1>7. ASSUME NEW v \in Votes', NEW w \in Votes', v[1] = w[1], v[2] = w[2]
      PROVE  v[3] = w[3]
  <2>1. CASE v \in Votes /\ w \in Votes
    BY <1>7, <2>1 DEF OneVote
  <2>2. CASE v \in Votes' \ Votes /\ w \in Votes' \ Votes
    BY <1>4, <2>2
  <2>3. CASE v \in Votes /\ w \in Votes' \ Votes
    BY <1>6, <1>7, <2>3
  <2>4. CASE v \in Votes' \ Votes /\ w \in Votes
    BY <1>6, <1>7, <2>4
  <2> QED BY <2>1, <2>2, <2>3, <2>4
<1> QED BY <1>5, <1>7 DEF VotesKept, OneVote, Keeps

(* Ballots and leaders that are there stay backed.                         *)
LEMMA ClosedStaysBacked ==
  ASSUME TypeInv, BallotsBacked, NEW n \in Node, VoteStep(n),
         \A q \in Node \ {n} : ballot'[q] = ballot[q] /\ mode'[q] = mode[q],
         ~ballot'[n].open
  PROVE  BallotsBacked'
<1>1. PICK s \in MemberState, ps \in SUBSET Node : Stores(n, s, ps)
  BY DEF VoteStep
<1>2. st \in [Node -> MemberState] /\ st' = [st EXCEPT ![n] = s]
  BY <1>1, TypeParts DEF StateTypes, Stores
<1>3. ASSUME NEW q \in Node, ballot'[q].open
      PROVE  mode'[q] = "running" /\ \A r \in ballot'[q].granted :
                                       <<r, st'[q].currentTerm, q>> \in Votes'
  <2>1. q # n /\ ballot[q].open /\ ballot'[q] = ballot[q] /\ mode'[q] = mode[q] /\ st'[q] = st[q]
    BY <1>2, <1>3
  <2>2. mode[q] = "running" /\ \A r \in ballot[q].granted : <<r, st[q].currentTerm, q>> \in Votes
    BY <2>1 DEF BallotsBacked
  <2> QED BY <2>1, <2>2 DEF VoteStep
<1> QED BY <1>3 DEF BallotsBacked

LEMMA LeadersStayBacked ==
  ASSUME LeadersBacked, NEW n, VoteStep(n), elected' = elected
  PROVE  LeadersBacked'
BY DEF LeadersBacked, VoteStep

LEMMA VotesKeep ==
  ASSUME TypeInv, VoteInv, NEW n \in Node, VoteStep(n), BallotsBacked', LeadersBacked'
  PROVE  VoteInv'
BY StepKeepsSaved, StepKeepsVotes DEF VoteInv

(* A step that holds no election.                                          *)
LEMMA OtherVotes ==
  ASSUME TypeInv, VoteInv, NEW n \in Node, VoteStep(n), elected' = elected,
         mode[n] = "running" => ~ballot[n].open,
         \/ ballot' = ballot
         \/ ballot' = [ballot EXCEPT ![n] = Closed],
         \/ mode' = mode
         \/ \E x : mode' = [mode EXCEPT ![n] = x]
  PROVE  VoteInv'
<1>1. DOMAIN ballot = Node /\ DOMAIN mode = Node
  BY TypeParts DEF RoleTypes, ProcessTypes
<1>2. ~ballot[n].open
  BY DEF VoteInv, BallotsBacked
<1>3. ~ballot'[n].open
  BY <1>1, <1>2 DEF Closed
<1>4. \A q \in Node \ {n} : ballot'[q] = ballot[q] /\ mode'[q] = mode[q]
  BY <1>1
<1>5. BallotsBacked'
  BY <1>3, <1>4, ClosedStaysBacked DEF VoteInv
<1>6. LeadersBacked'
  BY LeadersStayBacked DEF VoteInv
<1> QED BY <1>5, <1>6, VotesKeep

LEMMA NewLeaderBacked ==
  ASSUME LeadersBacked, NEW n \in Node, VoteStep(n), NEW s, NEW granted, NEW requests,
         BecomeLeader(n, s, granted, requests),
         \A q \in granted : <<q, s.currentTerm, n>> \in Votes',
         Cardinality(granted) >= QuorumOf(Members(n, peers[n]))
  PROVE  LeadersBacked'
<1>1. PICK e : e = [term |-> s.currentTerm, leader |-> n, votes |-> granted,
                    members |-> Members(n, peers[n])]
  OBVIOUS
<1>2. elected' = elected \cup {e}
  BY <1>1 DEF BecomeLeader
<1>3. /\ \A q \in e.votes : <<q, e.term, e.leader>> \in Votes'
      /\ Cardinality(e.votes) >= QuorumOf(e.members)
  BY <1>1
<1>4. Votes \subseteq Votes'
  BY DEF VoteStep
<1> QED BY <1>2, <1>3, <1>4 DEF LeadersBacked

LEMMA StartElectionVotes ==
  ASSUME TypeInv, VoteInv, NEW n \in Node, StartElection(n)
  PROVE  TypeInv' /\ VoteInv'
<1>1. TypeInv' /\ VoteStep(n)
  BY StartElectionStep
<1>2. /\ st[n] \in MemberState /\ peers[n] \in SUBSET Node /\ DOMAIN ballot = Node
      /\ st \in [Node -> MemberState]
      /\ ~ballot[n].open /\ mode[n] = "running" /\ mode' = mode
  BY TypeParts DEF RoleTypes, StartElection, Ready, process, StateTypes
<1>3. PICK s : s = IncrementTerm(st[n], n)
  OBVIOUS
<1>4. s \in MemberState
  BY <1>2, <1>3, IncrementTermMember
<1>5. PICK request : request = RequestVoteOf(n, s, (clients[n] \cup peers[n]) \ {n})
  OBVIOUS
<1>6. /\ request.type = "RequestVote" /\ request.src = n /\ request.term = s.currentTerm
  BY <1>5 DEF RequestVoteOf
<1>7. \/ /\ QuorumOf(Members(n, peers[n])) = 1
         /\ BecomeLeader(n, s, {n}, {request})
         /\ UNCHANGED ballot
      \/ /\ ballot' = [ballot EXCEPT ![n] = [open |-> TRUE, heard |-> {}, granted |-> {n}]]
         /\ Send({request})
         /\ UNCHANGED <<leadership, elected, connecting>>
  BY <1>3, <1>5 DEF StartElection
<1>8. request \in messages'
  BY <1>7 DEF BecomeLeader, Send
<1>9. <<n, s.currentTerm, n>> \in Votes'
  BY <1>6, <1>8 DEF Votes, VotesIn
<1>10. st' = [st EXCEPT ![n] = s]
  BY <1>3 DEF StartElection, Save
<1>11. BallotsBacked'
  <2>1. CASE UNCHANGED ballot
    BY <1>1, <1>2, <2>1, ClosedStaysBacked DEF VoteInv
  <2>2. CASE ballot' = [ballot EXCEPT ![n] = [open |-> TRUE, heard |-> {}, granted |-> {n}]]
    <3>1. ASSUME NEW q \in Node, ballot'[q].open
          PROVE  mode'[q] = "running" /\ \A r \in ballot'[q].granted :
                                           <<r, st'[q].currentTerm, q>> \in Votes'
      <4>1. CASE q = n
        <5>1. ballot'[q].granted = {n} /\ st'[q] = s
          BY <1>2, <1>10, <2>2, <4>1
        <5> QED BY <1>2, <1>9, <4>1, <5>1
      <4>2. CASE q # n
        <5>1. ballot'[q] = ballot[q] /\ st'[q] = st[q]
          BY <1>2, <1>10, <2>2, <4>2
        <5>2. /\ mode[q] = "running"
              /\ \A r \in ballot[q].granted : <<r, st[q].currentTerm, q>> \in Votes
          BY <3>1, <5>1 DEF VoteInv, BallotsBacked
        <5> QED BY <1>1, <1>2, <5>1, <5>2 DEF VoteStep
      <4> QED BY <4>1, <4>2
    <3> QED BY <3>1 DEF BallotsBacked
  <2> QED BY <1>7, <2>1, <2>2
<1>12. LeadersBacked'
  <2>1. CASE /\ QuorumOf(Members(n, peers[n])) = 1
             /\ BecomeLeader(n, s, {n}, {request})
    <3>1. Cardinality({n}) = 1
      BY FS_Singleton
    <3>2. \A q \in {n} : <<q, s.currentTerm, n>> \in Votes'
      BY <1>9
    <3>3. Cardinality({n}) >= QuorumOf(Members(n, peers[n]))
      BY <2>1, <3>1
    <3> QED BY <1>1, <2>1, <3>2, <3>3, NewLeaderBacked DEF VoteInv
  <2>2. CASE UNCHANGED elected
    BY <1>1, <2>2, LeadersStayBacked DEF VoteInv
  <2> QED BY <1>7, <2>1, <2>2
<1> QED BY <1>1, <1>11, <1>12, VotesKeep

LEMMA ReceiveVoteVotes ==
  ASSUME TypeInv, VoteInv, NEW n \in Node, NEW m \in messages, ReceiveVote(n, m),
         n \in Receivers(m)
  PROVE  TypeInv' /\ VoteInv'
<1>1. TypeInv' /\ VoteStep(n)
  BY ReceiveVoteStep
<1>2. /\ DOMAIN ballot = Node /\ st \in [Node -> MemberState] /\ mode' = mode
      /\ mode[n] = "running" /\ ballot[n].open
      /\ m.type = "RequestVoteReply" /\ m.forTerm = st[n].currentTerm /\ m.dst = n
  BY TypeParts DEF RoleTypes, ReceiveVote, process, StateTypes, Receivers
<1>3. PICK granted :
        granted = IF m.granted THEN ballot[n].granted \cup {m.src} ELSE ballot[n].granted
  OBVIOUS
<1>4. \A q \in granted : <<q, st[n].currentTerm, n>> \in Votes
  <2>1. \A q \in ballot[n].granted : <<q, st[n].currentTerm, n>> \in Votes
    BY <1>2 DEF VoteInv, BallotsBacked
  <2>2. m.granted => <<m.src, st[n].currentTerm, n>> \in Votes
    BY <1>2 DEF Votes, VotesIn
  <2> QED BY <1>3, <2>1, <2>2
<1>5. \A q \in Node \ {n} : mode'[q] = mode[q]
  BY <1>2
<1>6. CASE /\ ballot' = [ballot EXCEPT ![n] = Closed]
           /\ UNCHANGED elected
  <2>1. ~ballot'[n].open /\ \A q \in Node \ {n} : ballot'[q] = ballot[q]
    BY <1>2, <1>6 DEF Closed
  <2> QED BY <1>1, <1>5, <1>6, <2>1, ClosedStaysBacked, LeadersStayBacked, VotesKeep
          DEF VoteInv
<1>7. CASE /\ ballot' = [ballot EXCEPT ![n] =
                 [open |-> TRUE, heard |-> @.heard \cup {m.src}, granted |-> granted]]
           /\ UNCHANGED <<disk, st, peers, role, leadership, messages, elected, connecting>>
  <2>1. ASSUME NEW q \in Node, ballot'[q].open
        PROVE  mode'[q] = "running" /\ \A r \in ballot'[q].granted :
                                         <<r, st'[q].currentTerm, q>> \in Votes'
    <3>1. CASE q = n
      <4>1. ballot'[q].granted = granted /\ st'[q] = st[n]
        BY <1>2, <1>7, <3>1
      <4> QED BY <1>1, <1>2, <1>4, <3>1, <4>1 DEF VoteStep
    <3>2. CASE q # n
      <4>1. ballot'[q] = ballot[q] /\ st'[q] = st[q]
        BY <1>2, <1>7, <3>2
      <4>2. /\ mode[q] = "running"
            /\ \A r \in ballot[q].granted : <<r, st[q].currentTerm, q>> \in Votes
        BY <2>1, <4>1 DEF VoteInv, BallotsBacked
      <4> QED BY <1>1, <1>2, <4>1, <4>2 DEF VoteStep
    <3> QED BY <3>1, <3>2
  <2>2. BallotsBacked'
    BY <2>1 DEF BallotsBacked
  <2>3. LeadersBacked'
    BY <1>1, <1>7, LeadersStayBacked DEF VoteInv
  <2> QED BY <1>1, <2>2, <2>3, VotesKeep
<1>8. CASE /\ Cardinality(granted) >= QuorumOf(Members(n, peers[n]))
           /\ BecomeLeader(n, st[n], granted, {})
           /\ ballot' = [ballot EXCEPT ![n] = Closed]
  <2>1. ~ballot'[n].open /\ \A q \in Node \ {n} : ballot'[q] = ballot[q]
    BY <1>2, <1>8 DEF Closed
  <2>2. BallotsBacked'
    BY <1>1, <1>5, <2>1, ClosedStaysBacked DEF VoteInv
  <2>3. \A q \in granted : <<q, st[n].currentTerm, n>> \in Votes'
    BY <1>1, <1>4 DEF VoteStep
  <2>4. LeadersBacked'
    BY <1>1, <1>8, <2>3, NewLeaderBacked DEF VoteInv
  <2> QED BY <1>1, <2>2, <2>4, VotesKeep
<1> QED BY <1>3, <1>6, <1>7, <1>8 DEF ReceiveVote

LEMMA StutterVotes ==
  ASSUME TypeInv, VoteInv, UNCHANGED vars
  PROVE  TypeInv' /\ VoteInv'
<1> USE DEF vars, process, links, progress, leadership, history, budget
<1>1. TypeInv'
  <2>1. StateTypes'
    BY TypeParts DEF StateTypes
  <2>2. /\ LinkTypes' /\ ProgressTypes' /\ LeadershipTypes' /\ ProcessTypes' /\ RoleTypes'
        /\ \A m \in messages' : MessageOK(m)
    BY SameTypes
  <2> QED BY <2>1, <2>2, NewTypes
<1>2. VotesSaved'
  BY DEF VoteInv, VotesSaved, OnDisk
<1>3. Votes' = Votes
  BY DEF Votes
<1>4. VotesKept' /\ OneVote'
  BY <1>3 DEF VoteInv, VotesKept, OneVote
<1>5. BallotsBacked' /\ LeadersBacked'
  BY <1>3 DEF VoteInv, BallotsBacked, LeadersBacked
<1> QED BY <1>1, <1>2, <1>4, <1>5 DEF VoteInv

LEMMA ReceiveKeepsVotes ==
  ASSUME TypeInv, VoteInv, NEW m \in messages, NEW n \in Receivers(m), Receive(n, m)
  PROVE  n \in Node /\ TypeInv' /\ VoteInv'
<1> USE DEF process, history, budget, leadership
<1>1. MessageOK(m) /\ VotesSaved
  BY TypeParts DEF VoteInv
<1>2. n \in Node
  <2>1. m.type \in {"RequestVote", "RequestVoteReply", "AppendEntries", "AppendEntriesResult"}
    BY <1>1 DEF MessageOK
  <2> QED BY <1>1, <2>1, MessageFields DEF Receivers
<1>3. CASE ReceiveVote(n, m)
  BY <1>2, <1>3, ReceiveVoteVotes
<1>4. CASE HandleRequestVote(n, m)
  <2>1. TypeInv' /\ VoteStep(n)
    BY <1>2, <1>4, HandleRequestVoteStep
  <2> QED BY <1>2, <1>4, <2>1, OtherVotes DEF HandleRequestVote, Ready
<1>5. CASE StaleAppendEntries(n, m)
  <2>1. TypeInv' /\ VoteStep(n)
    BY <1>2, <1>5, StaleAppendEntriesStep
  <2> QED BY <1>2, <1>5, <2>1, OtherVotes DEF StaleAppendEntries, Ready
<1>6. CASE HandleAppendEntries(n, m)
  <2>1. TypeInv' /\ VoteStep(n)
    BY <1>2, <1>6, HandleAppendEntriesStep
  <2>2. elected' = elected /\ ballot' = ballot /\ mode' = mode /\ ~ballot[n].open
    BY <1>6 DEF HandleAppendEntries, Ready
  <2> QED BY <1>2, <2>1, <2>2, OtherVotes
<1>7. CASE AppendEntriesInterrupted(n, m)
  <2>1. TypeInv' /\ VoteStep(n)
    BY <1>2, <1>7, AppendEntriesInterruptedStep
  <2>2. /\ elected' = elected /\ ballot' = [ballot EXCEPT ![n] = Closed]
        /\ mode' = [mode EXCEPT ![n] = "down"] /\ ~ballot[n].open
    BY <1>7 DEF AppendEntriesInterrupted, Ready, GoDown
  <2> QED BY <1>2, <2>1, <2>2, OtherVotes
<1>8. CASE HandleResult(n, m)
  <2>1. n = m.dst
    BY <1>8 DEF HandleResult, Receivers
  <2>2. TypeInv' /\ VoteStep(n)
    BY <1>2, <1>8, <2>1, HandleResultStep
  <2>3. elected' = elected /\ ballot' = ballot /\ mode' = mode /\ ~ballot[n].open
    BY <1>8 DEF HandleResult, Ready
  <2> QED BY <1>2, <2>2, <2>3, OtherVotes
<1> QED BY <1>2, <1>3, <1>4, <1>5, <1>6, <1>7, <1>8 DEF Receive

LEMMA StepKeepsVoteInv ==
  ASSUME TypeInv, VoteInv, NEW n \in Node, Step(n)
  PROVE  TypeInv' /\ VoteInv'
<1> USE DEF process, history, budget, leadership
<1>1. CASE StartElection(n)
  BY <1>1, StartElectionVotes
<1>2. CASE ElectionEnds(n)
  <2>1. TypeInv' /\ VoteStep(n)
    BY <1>2, ElectionEndsStep
  <2>2. BallotsBacked'
    <3>1. ~ballot'[n].open /\ \A q \in Node \ {n} : ballot'[q] = ballot[q] /\ mode'[q] = mode[q]
      BY <1>2, TypeParts DEF ElectionEnds, RoleTypes, Closed
    <3> QED BY <2>1, <3>1, ClosedStaysBacked DEF VoteInv
  <2>3. LeadersBacked'
    BY <1>2, <2>1, LeadersStayBacked DEF VoteInv, ElectionEnds
  <2> QED BY <2>1, <2>2, <2>3, VotesKeep
<1>3. CASE HeartbeatTick(n)
  <2>1. TypeInv' /\ VoteStep(n)
    BY <1>3, HeartbeatTickStep
  <2> QED BY <1>3, <2>1, OtherVotes DEF HeartbeatTick, Ready
<1>4. CASE \E v \in Value : ClientRequest(n, v)
  <2>1. PICK v \in Value : ClientRequest(n, v)
    BY <1>4
  <2>2. TypeInv' /\ VoteStep(n)
    BY <2>1, ClientRequestStep
  <2>3. elected' = elected /\ ballot' = ballot /\ mode' = mode /\ ~ballot[n].open
    BY <2>1 DEF ClientRequest, Ready
  <2> QED BY <2>2, <2>3, OtherVotes
<1>5. CASE FinishBootstrap(n)
  <2>1. TypeInv' /\ VoteStep(n)
    BY <1>5, FinishBootstrapStep
  <2>2. /\ elected' = elected /\ ballot' = ballot /\ mode[n] = "joining"
        /\ \E x : mode' = [mode EXCEPT ![n] = x]
    BY <1>5 DEF FinishBootstrap
  <2> QED BY <2>1, <2>2, OtherVotes
<1>6. CASE BootstrapFails(n)
  <2>1. TypeInv' /\ VoteStep(n)
    BY <1>6, BootstrapFailsStep
  <2>2. /\ elected' = elected /\ ballot' = ballot /\ mode[n] = "joining"
        /\ \E x : mode' = [mode EXCEPT ![n] = x]
    BY <1>6 DEF BootstrapFails
  <2> QED BY <2>1, <2>2, OtherVotes
<1>7. CASE Crash(n)
  <2>1. TypeInv' /\ VoteStep(n)
    BY <1>7, CrashStep
  <2>2. BallotsBacked'
    <3>1. ~ballot'[n].open /\ \A q \in Node \ {n} : ballot'[q] = ballot[q] /\ mode'[q] = mode[q]
      BY <1>7, TypeParts DEF Crash, GoDown, RoleTypes, ProcessTypes, Closed
    <3> QED BY <2>1, <3>1, ClosedStaysBacked DEF VoteInv
  <2>3. LeadersBacked'
    BY <1>7, <2>1, LeadersStayBacked DEF VoteInv, Crash, GoDown
  <2> QED BY <2>1, <2>2, <2>3, VotesKeep
<1>8. CASE Start(n)
  <2>1. TypeInv' /\ VoteStep(n)
    BY <1>8, StartStep DEF VoteInv
  <2>2. /\ elected' = elected /\ ballot' = ballot /\ mode[n] = "down"
        /\ \E x : mode' = [mode EXCEPT ![n] = x]
    BY <1>8 DEF Start
  <2> QED BY <2>1, <2>2, OtherVotes
<1> QED BY <1>1, <1>2, <1>3, <1>4, <1>5, <1>6, <1>7, <1>8 DEF Step

LEMMA NextKeepsVotes ==
  TypeInv /\ VoteInv /\ [Next]_vars => TypeInv' /\ VoteInv'
<1> SUFFICES ASSUME TypeInv, VoteInv, [Next]_vars
             PROVE  TypeInv' /\ VoteInv'
  OBVIOUS
<1> USE DEF process, history, budget, leadership
<1>1. CASE \E n \in Node : Step(n)
  BY <1>1, StepKeepsVoteInv
<1>2. CASE \E n, p \in Node : UpdatePeerClient(n, p)
  <2>1. PICK n, p \in Node : UpdatePeerClient(n, p)
    BY <1>2
  <2>2. TypeInv' /\ VoteStep(n)
    BY <2>1, UpdatePeerClientStep
  <2> QED BY <2>1, <2>2, OtherVotes DEF UpdatePeerClient, Ready
<1>3. CASE \E n, p \in Node : ApplyMembership(n, p)
  <2>1. PICK n, p \in Node : ApplyMembership(n, p)
    BY <1>3
  <2>2. TypeInv' /\ VoteStep(n)
    BY <2>1, ApplyMembershipStep
  <2>3. elected' = elected /\ ballot' = ballot /\ mode' = mode /\ ~ballot[n].open
    BY <2>1 DEF ApplyMembership, Ready
  <2> QED BY <2>2, <2>3, OtherVotes
<1>4. CASE \E n, p \in Node : RemoveMembership(n, p)
  <2>1. PICK n, p \in Node : RemoveMembership(n, p)
    BY <1>4
  <2>2. TypeInv' /\ VoteStep(n)
    BY <2>1, RemoveMembershipStep
  <2>3. elected' = elected /\ ballot' = ballot /\ mode' = mode /\ ~ballot[n].open
    BY <2>1 DEF RemoveMembership, Ready
  <2> QED BY <2>2, <2>3, OtherVotes
<1>5. CASE \E m \in messages : \E n \in Receivers(m) : Receive(n, m)
  <2>1. PICK m \in messages : \E n \in Receivers(m) : Receive(n, m)
    BY <1>5
  <2>2. PICK n \in Receivers(m) : Receive(n, m)
    BY <2>1
  <2> QED BY <2>2, ReceiveKeepsVotes
<1>6. CASE UNCHANGED vars
  BY <1>6, StutterVotes
<1> QED BY <1>1, <1>2, <1>3, <1>4, <1>5, <1>6 DEF Next

(* What a node has in memory, on its disk and on the way keeps its type,   *)
(* and every vote on the way is kept by the term and the vote of the node  *)
(* that gave it, across failed writes and crashes: whoever became leader   *)
(* has the votes of as many nodes as its peers demand.                     *)
THEOREM VotesInvariant == Spec => [](TypeInv /\ VoteInv)
<1>1. Init => TypeInv /\ VoteInv
  BY InitTypes
<1>2. TypeInv /\ VoteInv /\ [Next]_vars => (TypeInv /\ VoteInv)'
  BY NextKeepsVotes
<1> QED BY <1>1, <1>2, PTL DEF Spec

(* The types of the fields and maps, whatever changes are made.            *)
THEOREM MembershipTypeCorrect == Spec => []TypeOK
<1>1. TypeInv /\ VoteInv => TypeOK
  <2> SUFFICES ASSUME TypeInv PROVE TypeOK
    OBVIOUS
  <2> QED BY DEF TypeInv, TypeOK, StateTypes, LinkTypes, LeadershipTypes, MapsOK,
                 ProcessTypes, RoleTypes
<1> QED BY <1>1, VotesInvariant, PTL

(* Two leaders of a term have no voter in common, however many members the *)
(* cluster gains and loses at once.                                        *)
THEOREM LeadersShareNoVoter == Spec => []NoSharedVoter
<1>1. TypeInv /\ VoteInv => NoSharedVoter
  <2> SUFFICES ASSUME TypeInv, VoteInv, NEW e \in elected, NEW f \in elected,
                      e.term = f.term, NEW q \in e.votes \cap f.votes
               PROVE  e.leader = f.leader
    BY DEF NoSharedVoter
  <2>1. <<q, e.term, e.leader>> \in Votes /\ <<q, e.term, f.leader>> \in Votes
    BY DEF VoteInv, LeadersBacked
  <2> QED BY <2>1 DEF VoteInv, OneVote
<1> QED BY <1>1, VotesInvariant, PTL

------------------------------------------------------------------------------
(* At most one change.                                                     *)

AtMostOne(C) == C = {} \/ \E c \in FirstChange : C = {c}

LEMMA FirstChangeFacts ==
  ASSUME NEW c \in FirstChange
  PROVE  /\ c \in Change /\ c.id \in Node /\ ~Follows(Initial, c)
         /\ \A n \in Node \ {c.id} : n \in Changed(Initial, c) <=> n \in Initial
         /\ \A ps : \A n \in Node : n \in ps /\ n \notin Initial => n \in Changed(ps, c)
         /\ \A n \in Node : n \in Initial => Changed(Initial, c) \cup {n} \in
                                               {Initial, Changed(Initial, c)}
         /\ \A n \in Node : n \in Changed(Initial, c) =>
              Changed(Initial, c) \cup {n} = Changed(Initial, c)
<1>1. Initial \subseteq Node
  BY MembershipAssumption
<1>2. CASE \E p \in Node \ Initial : c = AddNode(p)
  <2>1. PICK p \in Node \ Initial : c = AddNode(p)
    BY <1>2
  <2>2. /\ c.id = p /\ c.op = "AddNode" /\ c \in Change
        /\ \A ps : Changed(ps, c) = ps \cup {p}
    BY <2>1 DEF AddNode, Change, Changed
  <2> QED BY <2>2 DEF Follows
<1>3. CASE \E p \in Initial \cap Leaver : c = RemoveNode(p)
  <2>1. PICK p \in Initial \cap Leaver : c = RemoveNode(p)
    BY <1>3
  <2>2. /\ c.id = p /\ c.op = "RemoveNode" /\ c \in Change
        /\ \A ps : Changed(ps, c) = ps \ {p}
    BY <1>1, <2>1 DEF RemoveNode, Change, Changed
  <2> QED BY <1>1, <2>2 DEF Follows
<1> QED BY <1>2, <1>3 DEF FirstChange

(* The configurations there are under at most one change.                  *)
LEMMA ConfigsFacts ==
  ASSUME NEW C, AtMostOne(C)
  PROVE  /\ Initial \in Configs(C)
         /\ \A c \in C : C = {c} /\ c \in FirstChange /\ Changed(Initial, c) \in Configs(C)
         /\ \A ps \in Configs(C) : ps = Initial \/ \E c \in C : ps = Changed(Initial, c)
         /\ \A ps \in Configs(C), c \in C : Changed(ps, c) \in Configs(C)
<1>1. \A c \in C : C = {c} /\ c \in FirstChange
  BY DEF AtMostOne
<1>2. Initial \in Configs(C) /\ \A c \in C : Changed(Initial, c) \in Configs(C)
  BY DEF Configs
<1>3. \A ps \in Configs(C) : ps = Initial \/ \E c \in C : ps = Changed(Initial, c)
  BY DEF Configs
<1>4. ASSUME NEW ps \in Configs(C), NEW c \in C
      PROVE  Changed(ps, c) \in Configs(C)
  <2>1. ps = Initial \/ ps = Changed(Initial, c)
    BY <1>1, <1>3
  <2>2. Changed(Changed(Initial, c), c) = Changed(Initial, c)
    BY <1>1, FirstChangeFacts, ChangedOnce
  <2> QED BY <1>2, <2>1, <2>2
<1> QED BY <1>1, <1>2, <1>3, <1>4

(* The members that a running node counts are a configuration.             *)
LEMMA MembersUnder ==
  ASSUME NEW C, AtMostOne(C), NEW n \in Node, NodeUnder(n, C), mode[n] = "running"
  PROVE  peers[n] \cup {n} \in Configs(C)
<1>1. peers[n] \in Configs(C) /\ n \in peers[n] \cup Initial
  BY DEF NodeUnder
<1>2. CASE n \in peers[n]
  <2>1. peers[n] \cup {n} = peers[n]
    BY <1>2
  <2> QED BY <1>1, <2>1
<1>3. CASE n \notin peers[n]
  <2>1. n \in Initial
    BY <1>1, <1>3
  <2>2. PICK c \in C : peers[n] = Changed(Initial, c)
    BY <1>1, <1>3, <2>1, ConfigsFacts
  <2>3. c \in FirstChange /\ Initial \in Configs(C) /\ Changed(Initial, c) \in Configs(C)
    BY ConfigsFacts
  <2>4. peers[n] \cup {n} \in {Initial, Changed(Initial, c)}
    BY <2>1, <2>2, <2>3, FirstChangeFacts
  <2> QED BY <2>3, <2>4
<1> QED BY <1>2, <1>3

(* What of a node a step of another leaves alone.                          *)
SameNode(q) ==
  /\ st'[q] = st[q] /\ peers'[q] = peers[q] /\ disk'[q] = disk[q]
  /\ mode'[q] = mode[q] /\ offer'[q] = offer[q] /\ known'[q] = known[q]

LEMMA SameNodeUnder ==
  ASSUME NEW C, NEW q \in Node, NodeUnder(q, C), SameNode(q)
  PROVE  NodeUnder(q, C)'
<1>1. OnDisk(q)' = OnDisk(q)
  BY DEF SameNode, OnDisk
<1> QED BY <1>1 DEF SameNode, NodeUnder

LEMMA UnderMoves ==
  ASSUME NEW C, Under(C), NEW n \in Node, \A q \in Node \ {n} : SameNode(q),
         NodeUnder(n, C)',
         NEW ms, messages' = messages \cup ms,
         \A m \in ms : m.type = "AppendEntries" => Uses(m.entries, C),
         \A e \in elected' \ elected : e.members \in Configs(C)
  PROVE  Under(C)'
<1>1. \A q \in Node : NodeUnder(q, C)'
  BY SameNodeUnder DEF Under
<1>2. \A m \in messages' : m.type = "AppendEntries" => Uses(m.entries, C)
  BY DEF Under
<1>3. \A e \in elected' : e.members \in Configs(C)
  BY DEF Under
<1> QED BY <1>1, <1>2, <1>3 DEF Under, Configs

(* f changes at n only.                                                    *)
OnlyAt(f, g, n) == g = f \/ \E x : g = [f EXCEPT ![n] = x]

LEMMA SameNodes ==
  ASSUME TypeInv, NEW n \in Node, NEW s \in MemberState, NEW ps \in SUBSET Node,
         Stores(n, s, ps),
         OnlyAt(mode, mode', n), OnlyAt(offer, offer', n), OnlyAt(known, known', n)
  PROVE  \A q \in Node \ {n} : SameNode(q)
<1>1. /\ DOMAIN st = Node /\ DOMAIN peers = Node /\ DOMAIN disk = Node
      /\ DOMAIN mode = Node /\ DOMAIN offer = Node /\ DOMAIN known = Node
  BY TypeParts DEF StateTypes, ProcessTypes, ProgressTypes
<1>2. disk' = disk \/ \E x : disk' = [disk EXCEPT ![n] = x]
  BY DEF Stores
<1> QED BY <1>1, <1>2 DEF Stores, OnlyAt, SameNode

(* The state and the configuration n goes on with, or dies with.           *)
LEMMA RunsUnder ==
  ASSUME TypeInv, NEW C, AtMostOne(C), NEW n \in Node, NodeUnder(n, C), mode[n] = "running",
         NEW ps \in Configs(C), peers'[n] = ps,
         Uses(st'[n].log, C), mode'[n] \in {"running", "down"}, offer'[n] = offer[n],
         n \in ps \cup Initial,
         \/ disk'[n] = disk[n] /\ ps = peers[n]
         \/ \E t \in MemberState : disk'[n] = FileOf(t, ps) /\ Uses(t.log, C),
         \A e \in known'[n] : e.command \in C,
         \A c \in C : c.id # n /\ known'[n] # {} => Follows(ps, c)
  PROVE  NodeUnder(n, C)'
<1>1. ps \in SUBSET Node /\ disk[n] \in File \cup {Nil}
  <2>1. \A c \in C : c \in FirstChange /\ c \in Change
    BY ConfigsFacts, FirstChangeFacts
  <2>2. \A c \in C : Changed(Initial, c) \subseteq Node
    BY <2>1, MembershipAssumption, FirstChangeFacts DEF Changed
  <2> QED BY <2>2, MembershipAssumption, ConfigsFacts, TypeParts DEF StateTypes
<1>2. CASE disk'[n] = disk[n] /\ ps = peers[n]
  <2>1. OnDisk(n)' = OnDisk(n)
    BY <1>2 DEF OnDisk
  <2>2. ASSUME NEW c \in C, c.id # n
        PROVE  /\ known'[n] # {} =>
                    /\ n \in Initial /\ disk'[n] # Nil /\ Follows(disk'[n].peers, c)
                    /\ mode'[n] = "running" => Follows(peers'[n], c)
               /\ mode'[n] = "running" /\ Follows(peers'[n], c) =>
                    disk'[n] # Nil /\ Follows(disk'[n].peers, c)
    <3>1. n \in Initial
      BY <2>2, ConfigsFacts, FirstChangeFacts
    <3> QED BY <1>2, <2>2, <3>1 DEF NodeUnder
  <2> QED BY <1>2, <2>1, <2>2 DEF NodeUnder, Configs
<1>3. CASE \E t \in MemberState : disk'[n] = FileOf(t, ps) /\ Uses(t.log, C)
  <2>1. PICK t \in MemberState : disk'[n] = FileOf(t, ps) /\ Uses(t.log, C)
    BY <1>3
  <2>2. disk'[n] # Nil /\ disk'[n].peers = ps /\ OnDisk(n)' = t
    BY <1>1, <2>1, FileType DEF OnDisk
  <2>3. ASSUME NEW c \in C, c.id # n
        PROVE  n \in Initial
    BY <2>3, ConfigsFacts, FirstChangeFacts
  <2> QED BY <2>1, <2>2, <2>3 DEF NodeUnder, Configs
<1> QED BY <1>2, <1>3

(* A change keeps n where it was, unless it is its own removal.            *)
LEMMA StillMember ==
  ASSUME NEW C, AtMostOne(C), NEW n \in Node, NEW ps \in Configs(C), n \in ps \cup Initial,
         NEW qs, qs = ps \/ \E c \in C : qs = Changed(ps, c)
  PROVE  qs \in Configs(C) /\ n \in qs \cup Initial
<1>1. CASE \E c \in C : qs = Changed(ps, c)
  <2>1. PICK c \in C : qs = Changed(ps, c)
    BY <1>1
  <2>2. c \in FirstChange /\ qs \in Configs(C)
    BY <2>1, ConfigsFacts
  <2>3. n \in ps /\ n \notin Initial => n \in Changed(ps, c)
    BY <2>2, FirstChangeFacts
  <2> QED BY <2>1, <2>2, <2>3
<1> QED BY <1>1

(* apply_committed_entries under at most one change.                       *)
LEMMA OutcomeUnder ==
  ASSUME TypeInv, NEW C, AtMostOne(C), NEW n \in Node, NEW s \in MemberState,
         Uses(s.log, C), NEW commit \in Nat, NEW written \in BOOLEAN,
         NEW r, r = Outcome(n, s, commit, written),
         NEW due, due = DueOf(n, s, commit)
  PROVE  /\ due \in Seq(EntryType) /\ Uses(due, C)
         /\ r.peers = peers[n] \/ \E c \in C : r.peers = Changed(peers[n], c)
         /\ \A c \in C : /\ Follows(peers[n], c) => Follows(r.peers, c)
                         /\ (\E k \in 1 .. Len(due) : due[k].command \in Change)
                              => Follows(r.peers, c)
<1>1. due \in Seq(EntryType) /\ Uses(due, C)
  BY TypeParts, DueType
<1>2. PICK begin : begin = [peers |-> peers[n], saved |-> IF written THEN peers[n] ELSE Nil]
  OBVIOUS
<1>3. r = ApplyEntries(begin, due) /\ begin.peers = peers[n]
  BY <1>2 DEF Outcome
<1>4. CASE C = {}
  <2>1. PICK p : p \in Node
    BY NodeAssumption
  <2>2. PICK c \in Change : c = AddNode(p)
    BY <2>1, ChangeType
  <2>3. \A k \in 1 .. Len(due) : due[k].command \notin Change
    BY <1>1, <1>4 DEF Uses
  <2>4. Uses(due, {c})
    BY <2>3 DEF Uses
  <2>5. r.peers = IF \E k \in 1 .. Len(due) : due[k].command = c
                  THEN Changed(begin.peers, c) ELSE begin.peers
    BY <1>1, <1>3, <2>4, ApplyEntriesOfOne
  <2>6. r.peers = peers[n]
    BY <1>3, <2>3, <2>5
  <2> QED BY <1>1, <1>4, <2>6
<1>5. ASSUME NEW c \in C
      PROVE  /\ r.peers \in {peers[n], Changed(peers[n], c)}
             /\ Follows(peers[n], c) => Follows(r.peers, c)
             /\ (\E k \in 1 .. Len(due) : due[k].command \in Change) => Follows(r.peers, c)
  <2>1. C = {c} /\ c \in Change
    BY ConfigsFacts, FirstChangeFacts
  <2>2. r.peers = IF \E k \in 1 .. Len(due) : due[k].command = c
                  THEN Changed(begin.peers, c) ELSE begin.peers
    BY <1>1, <1>3, <2>1, ApplyEntriesOfOne
  <2>3. \A k \in 1 .. Len(due) : due[k].command \in Change => due[k].command = c
    BY <1>1, <2>1 DEF Uses
  <2>4. /\ Follows(Changed(peers[n], c), c)
        /\ Follows(peers[n], c) => Changed(peers[n], c) = peers[n]
    BY <2>1, ChangedOnce
  <2> QED BY <1>3, <2>2, <2>3, <2>4
<1> QED BY <1>1, <1>4, <1>5

LEMMA ApplyCommittedUnder ==
  ASSUME TypeInv, NEW C, AtMostOne(C), NEW n \in Node, NodeUnder(n, C), mode[n] = "running",
         mode' = mode, offer' = offer,
         NEW s \in MemberState, Uses(s.log, C), NEW commit \in Nat, NEW written \in BOOLEAN,
         ApplyCommitted(n, s, commit, written)
  PROVE  NodeUnder(n, C)' /\ OnlyAt(known, known', n)
<1>1. PICK r : r = Outcome(n, s, commit, written)
  OBVIOUS
<1>2. PICK due : due = DueOf(n, s, commit)
  OBVIOUS
<1>3. /\ StateTypes /\ ProgressTypes
  BY TypeParts
<1>4. /\ r.peers \in SUBSET Node /\ r.saved \in {Nil, r.peers}
      /\ r.saved = Nil => r.peers = peers[n] /\ ~written
  BY <1>1, <1>3, OutcomeType
<1>5. /\ due \in Seq(EntryType) /\ Uses(due, C)
      /\ r.peers = peers[n] \/ \E c \in C : r.peers = Changed(peers[n], c)
      /\ \A c \in C : /\ Follows(peers[n], c) => Follows(r.peers, c)
                      /\ (\E k \in 1 .. Len(due) : due[k].command \in Change)
                           => Follows(r.peers, c)
  BY <1>1, <1>2, OutcomeUnder
<1>6. DOMAIN due = 1 .. Len(due)
  BY <1>5, LenProperties
<1>7. PICK K : K = {due[k] : k \in {j \in DOMAIN due : due[j].command \in Change}}
  OBVIOUS
<1>8. /\ known' = [known EXCEPT ![n] = @ \cup K]
      /\ st' = [st EXCEPT ![n] = s]
      /\ peers' = [peers EXCEPT ![n] = r.peers]
      /\ disk' = IF r.saved = Nil THEN disk ELSE [disk EXCEPT ![n] = FileOf(s, r.saved)]
  BY <1>1, <1>2, <1>7, ApplyCommittedIs
<1>9. /\ DOMAIN known = Node /\ DOMAIN st = Node /\ DOMAIN peers = Node /\ DOMAIN disk = Node
  BY <1>3 DEF StateTypes, ProgressTypes
<1>10. /\ \A e \in K : e.command \in C
       /\ K # {} => \E k \in 1 .. Len(due) : due[k].command \in Change
  BY <1>5, <1>6, <1>7 DEF Uses
<1>11. /\ known'[n] = known[n] \cup K /\ st'[n] = s /\ peers'[n] = r.peers
       /\ mode'[n] = "running" /\ offer'[n] = offer[n]
  BY <1>8, <1>9
<1>12. r.peers \in Configs(C) /\ n \in r.peers \cup Initial
  BY <1>5, StillMember DEF NodeUnder
<1>13. \/ disk'[n] = disk[n] /\ r.peers = peers[n]
       \/ \E t \in MemberState : disk'[n] = FileOf(t, r.peers) /\ Uses(t.log, C)
  <2>1. CASE r.saved = Nil
    BY <1>4, <1>8, <2>1
  <2>2. CASE r.saved # Nil
    <3>1. disk'[n] = FileOf(s, r.peers)
      BY <1>4, <1>8, <1>9, <2>2
    <3> QED BY <3>1
  <2> QED BY <2>1, <2>2
<1>14. \A e \in known'[n] : e.command \in C
  BY <1>10, <1>11 DEF NodeUnder
<1>15. \A c \in C : c.id # n /\ known'[n] # {} => Follows(r.peers, c)
  BY <1>5, <1>10, <1>11 DEF NodeUnder
<1>16. NodeUnder(n, C)'
  BY <1>11, <1>12, <1>13, <1>14, <1>15, RunsUnder
<1> QED BY <1>8, <1>16 DEF OnlyAt

(* A save of a new state by a running node that keeps its configuration.   *)
LEMMA SaveUnder ==
  ASSUME TypeInv, NEW C, AtMostOne(C), NEW n \in Node, NodeUnder(n, C), mode[n] = "running",
         mode'[n] \in {"running", "down"}, offer' = offer, known' = known,
         NEW s \in MemberState, Uses(s.log, C),
         Save(n, s, peers[n])
  PROVE  NodeUnder(n, C)'
<1>1. DOMAIN st = Node /\ DOMAIN peers = Node /\ DOMAIN disk = Node
  BY TypeParts DEF StateTypes
<1>2. st'[n] = s /\ peers'[n] = peers[n] /\ disk'[n] = FileOf(s, peers[n])
  BY <1>1 DEF Save, FileOf
<1>3. peers[n] \in Configs(C) /\ n \in peers[n] \cup Initial
  BY DEF NodeUnder
<1>4. /\ \A e \in known'[n] : e.command \in C
      /\ \A c \in C : c.id # n /\ known'[n] # {} => Follows(peers[n], c)
  BY DEF NodeUnder
<1>5. \E t \in MemberState : disk'[n] = FileOf(t, peers[n]) /\ Uses(t.log, C)
  BY <1>2
<1> QED BY <1>2, <1>3, <1>4, <1>5, RunsUnder

LEMMA StillUnder ==
  ASSUME TypeInv, NEW C, AtMostOne(C), NEW n \in Node, NodeUnder(n, C), mode[n] = "running",
         mode'[n] \in {"running", "down"}, offer' = offer, known' = known,
         UNCHANGED <<disk, st, peers>>
  PROVE  NodeUnder(n, C)'
<1>1. peers[n] \in Configs(C) /\ n \in peers[n] \cup Initial /\ Uses(st[n].log, C)
  BY DEF NodeUnder
<1>2. /\ \A e \in known'[n] : e.command \in C
      /\ \A c \in C : c.id # n /\ known'[n] # {} => Follows(peers[n], c)
  BY DEF NodeUnder
<1> QED BY <1>1, <1>2, RunsUnder

LEMMA AdvanceCommitUnder ==
  ASSUME TypeInv, NEW C, AtMostOne(C), NEW n \in Node, NodeUnder(n, C), mode[n] = "running",
         mode' = mode, offer' = offer,
         NEW s \in MemberState, Uses(s.log, C), NEW match, NEW written \in BOOLEAN,
         AdvanceCommit(n, s, match, written)
  PROVE  NodeUnder(n, C)' /\ OnlyAt(known, known', n)
<1>1. PICK new : new = CommittableIn(s, match, commitIndex[n])
  OBVIOUS
<1>2. CASE /\ IF written THEN Save(n, s, peers[n]) ELSE UNCHANGED <<disk, st, peers>>
           /\ UNCHANGED <<progress, decided>>
  <2>1. known' = known /\ mode'[n] \in {"running", "down"}
    BY <1>2 DEF progress
  <2> QED BY <1>2, <2>1, SaveUnder, StillUnder DEF OnlyAt
<1>3. CASE \E i \in new : ApplyCommitted(n, s, i, written)
  <2>1. PICK i \in new : ApplyCommitted(n, s, i, written)
    BY <1>3
  <2>2. commitIndex[n] + 1 \in Nat /\ LastLogIndex(s) \in Nat
    BY TypeParts, MemberFields
  <2>3. i \in Nat
    BY <1>1, <2>2 DEF CommittableIn
  <2> QED BY <2>1, <2>3, ApplyCommittedUnder
<1> QED BY <1>1, <1>2, <1>3 DEF AdvanceCommit

Brings(C) ==
  \E ms : /\ messages' = messages \cup ms
          /\ \A m \in ms : m.type = "AppendEntries" => Uses(m.entries, C)

LEMMA UnderOf ==
  ASSUME TypeInv, NEW C, Under(C), NEW n \in Node, VoteStep(n), NodeUnder(n, C)',
         OnlyAt(mode, mode', n), OnlyAt(offer, offer', n), OnlyAt(known, known', n),
         Brings(C), \A e \in elected' \ elected : e.members \in Configs(C)
  PROVE  Under(C)'
<1>1. PICK s \in MemberState, ps \in SUBSET Node : Stores(n, s, ps)
  BY DEF VoteStep
<1>2. \A q \in Node \ {n} : SameNode(q)
  BY <1>1, SameNodes
<1>3. PICK ms : /\ messages' = messages \cup ms
                /\ \A m \in ms : m.type = "AppendEntries" => Uses(m.entries, C)
  BY DEF Brings
<1> QED BY <1>2, <1>3, UnderMoves

LEMMA BringsOf ==
  ASSUME NEW C, NEW ms, messages' = messages \cup ms,
         \A m \in ms : m.type = "AppendEntries" => Uses(m.entries, C)
  PROVE  Brings(C)
BY DEF Brings

LEMMA QuietBrings ==
  ASSUME NEW C, messages' = messages
  PROVE  Brings(C)
<1>1. PICK ms : ms = {}
  OBVIOUS
<1>2. messages' = messages \cup ms
  BY <1>1
<1>3. \A m \in ms : m.type = "AppendEntries" => Uses(m.entries, C)
  BY <1>1
<1> QED BY <1>2, <1>3, BringsOf

(* Most steps keep mode and offer, and elect nobody.                       *)
LEMMA UnderOfHandler ==
  ASSUME TypeInv, NEW C, Under(C), NEW n \in Node, VoteStep(n), NodeUnder(n, C)',
         mode' = mode, offer' = offer, OnlyAt(known, known', n), Brings(C), elected' = elected
  PROVE  Under(C)'
<1>1. OnlyAt(mode, mode', n) /\ OnlyAt(offer, offer', n)
  BY DEF OnlyAt
<1> QED BY <1>1, UnderOf

LEMMA KnownStill ==
  ASSUME NEW n, known' = known
  PROVE  OnlyAt(known, known', n)
BY DEF OnlyAt

LEMMA BeatsBring ==
  ASSUME ProgressTypes, NEW n \in Node, NEW s \in MemberState, NEW ps \in SUBSET Node,
         NEW next, Positive(next), NEW C, Uses(s.log, C),
         Send(Heartbeats(n, s, ps, next))
  PROVE  Brings(C)
<1>1. \A m \in Heartbeats(n, s, ps, next) :
        /\ m.type = "AppendEntries" /\ MessageOK(m)
        /\ \A D : Uses(s.log, D) => Uses(m.entries, D)
  BY HeartbeatsType
<1>2. \A m \in Heartbeats(n, s, ps, next) : Uses(m.entries, C)
  BY <1>1
<1> QED BY <1>2 DEF Brings, Send

(* A node that becomes leader counts a configuration.                      *)
LEMMA LeaderUnder ==
  ASSUME TypeInv, NEW C, AtMostOne(C), Under(C), NEW n \in Node, mode[n] = "running",
         NEW s \in MemberState, Uses(s.log, C), NEW granted, NEW requests,
         \A m \in requests : MessageOK(m) /\ m.type # "AppendEntries",
         clients' \in [Node -> SUBSET Node], \A q \in Node : q \notin clients'[q],
         BecomeLeader(n, s, granted, requests)
  PROVE  Brings(C) /\ \A e \in elected' \ elected : e.members \in Configs(C)
<1>1. LeaderSends(s, requests)
  BY TypeParts, BecomeLeaderTypes
<1>2. PICK ms : /\ Sends(requests \cup ms)
                /\ \A m \in ms : /\ m.type = "AppendEntries"
                                 /\ \A D : Uses(s.log, D) => Uses(m.entries, D)
  BY <1>1 DEF LeaderSends
<1>3. Brings(C)
  <2>1. PICK all : all = requests \cup ms
    OBVIOUS
  <2>2. messages' = messages \cup all
    BY <1>2, <2>1 DEF Sends
  <2>3. \A m \in all : m.type = "AppendEntries" => Uses(m.entries, C)
    BY <1>2, <2>1
  <2> QED BY <2>2, <2>3, BringsOf
<1>4. Members(n, peers[n]) \in Configs(C)
  BY MembersUnder DEF Under, Members
<1> QED BY <1>3, <1>4 DEF BecomeLeader

LEMMA StartElectionUnder ==
  ASSUME TypeInv, NEW C, AtMostOne(C), Under(C), NEW n \in Node, StartElection(n)
  PROVE  Under(C)'
<1>1. VoteStep(n) /\ NodeUnder(n, C)
  BY StartElectionStep DEF Under
<1>2. /\ mode[n] = "running" /\ mode' = mode /\ offer' = offer /\ known' = known
      /\ st[n] \in MemberState /\ LinkTypes /\ peers[n] \in SUBSET Node
  BY TypeParts DEF StartElection, Ready, process, progress
<1>3. PICK s : s = IncrementTerm(st[n], n)
  OBVIOUS
<1>4. s \in MemberState /\ Uses(s.log, C) /\ Save(n, s, peers[n])
  BY <1>1, <1>2, <1>3, IncrementTermMember DEF StartElection, NodeUnder
<1>5. NodeUnder(n, C)'
  BY <1>1, <1>2, <1>4, SaveUnder
<1>6. PICK reached : reached = (clients[n] \cup peers[n]) \ {n}
  OBVIOUS
<1>7. PICK request : request = RequestVoteOf(n, s, reached)
  OBVIOUS
<1>8. reached \in SUBSET (Node \ {n}) /\ clients' = [clients EXCEPT ![n] = reached]
  BY <1>2, <1>6 DEF StartElection, LinkTypes
<1>9. clients' \in [Node -> SUBSET Node] /\ \A q \in Node : q \notin clients'[q]
  BY <1>2, <1>8 DEF LinkTypes
<1>10. \A m \in {request} : MessageOK(m) /\ m.type # "AppendEntries"
  BY <1>4, <1>7, <1>8, RequestVoteType
<1>11. Brings(C) /\ \A e \in elected' \ elected : e.members \in Configs(C)
  <2>1. CASE BecomeLeader(n, s, {n}, {request})
    BY <1>2, <1>4, <1>9, <1>10, <2>1, LeaderUnder
  <2>2. CASE Send({request}) /\ UNCHANGED elected
    <3>1. messages' = messages \cup {request}
      BY <2>2 DEF Send
    <3>2. \A m \in {request} : m.type = "AppendEntries" => Uses(m.entries, C)
      BY <1>10
    <3> QED BY <2>2, <3>1, <3>2, BringsOf
  <2> QED BY <1>3, <1>6, <1>7, <2>1, <2>2 DEF StartElection
<1>12. OnlyAt(mode, mode', n) /\ OnlyAt(offer, offer', n) /\ OnlyAt(known, known', n)
  BY <1>2 DEF OnlyAt
<1> QED BY <1>1, <1>5, <1>11, <1>12, UnderOf

LEMMA ReceiveVoteUnder ==
  ASSUME TypeInv, NEW C, AtMostOne(C), Under(C), NEW n \in Node, NEW m \in messages,
         ReceiveVote(n, m)
  PROVE  Under(C)'
<1>1. VoteStep(n) /\ NodeUnder(n, C)
  BY ReceiveVoteStep DEF Under
<1>2. /\ mode[n] = "running" /\ mode' = mode /\ offer' = offer /\ known' = known
      /\ mode'[n] \in {"running", "down"}
      /\ st[n] \in MemberState /\ LinkTypes /\ m.term \in Nat /\ Uses(st[n].log, C)
  BY <1>1, TypeParts, MessageFields DEF ReceiveVote, process, progress, NodeUnder
<1>3. clients' \in [Node -> SUBSET Node] /\ \A q \in Node : q \notin clients'[q]
  BY <1>2 DEF ReceiveVote, LinkTypes
<1>4. CASE /\ Save(n, UpdateTerm(st[n], m.term), peers[n])
           /\ UNCHANGED messages /\ UNCHANGED elected
  <2>1. UpdateTerm(st[n], m.term) \in MemberState /\ Uses(UpdateTerm(st[n], m.term).log, C)
    BY <1>2, UpdateTermMember
  <2>2. NodeUnder(n, C)'
    BY <1>1, <1>2, <1>4, <2>1, SaveUnder
  <2> QED BY <1>1, <1>2, <1>4, <2>2, KnownStill, QuietBrings, UnderOfHandler
<1>5. CASE UNCHANGED <<disk, st, peers, messages, elected>>
  <2>1. NodeUnder(n, C)'
    BY <1>1, <1>2, <1>5, StillUnder
  <2> QED BY <1>1, <1>2, <1>5, <2>1, KnownStill, QuietBrings, UnderOfHandler
<1>6. CASE \E granted : UNCHANGED <<disk, st, peers>> /\ BecomeLeader(n, st[n], granted, {})
  <2>1. NodeUnder(n, C)'
    BY <1>1, <1>2, <1>6, StillUnder
  <2>2. PICK granted : BecomeLeader(n, st[n], granted, {})
    BY <1>6
  <2>3. \A r \in {} : MessageOK(r) /\ r.type # "AppendEntries"
    OBVIOUS
  <2>4. Brings(C) /\ \A e \in elected' \ elected : e.members \in Configs(C)
    BY <1>2, <1>3, <2>2, <2>3, LeaderUnder
  <2>5. OnlyAt(mode, mode', n) /\ OnlyAt(offer, offer', n) /\ OnlyAt(known, known', n)
    BY <1>2 DEF OnlyAt
  <2> QED BY <1>1, <2>1, <2>4, <2>5, UnderOf
<1> QED BY <1>4, <1>5, <1>6 DEF ReceiveVote

LEMMA HandleRequestVoteUnder ==
  ASSUME TypeInv, NEW C, AtMostOne(C), Under(C), NEW n \in Node, NEW m \in messages,
         HandleRequestVote(n, m)
  PROVE  Under(C)'
<1>1. VoteStep(n) /\ NodeUnder(n, C)
  BY HandleRequestVoteStep DEF Under
<1>2. /\ mode[n] = "running" /\ mode' = mode /\ offer' = offer /\ known' = known
      /\ mode'[n] \in {"running", "down"} /\ elected' = elected
  BY DEF HandleRequestVote, Ready, process, progress, history
<1>3. PICK s \in MemberState, granted \in BOOLEAN, r \in messages' :
           /\ s.log = st[n].log /\ Later(st[n], s)
           /\ granted => s.currentTerm = m.term /\ s.votedFor = m.src
           /\ Save(n, s, peers[n])
           /\ r.type = "RequestVoteReply" /\ r.src = n /\ r.dst = m.src /\ r.forTerm = m.term
           /\ r.granted = granted /\ MessageOK(r) /\ messages' = messages \cup {r}
  BY VoterStateIs
<1>4. Uses(s.log, C)
  BY <1>1, <1>3 DEF NodeUnder
<1>5. NodeUnder(n, C)'
  BY <1>1, <1>2, <1>3, <1>4, SaveUnder
<1>6. Brings(C)
  <2>1. PICK ms : ms = {r}
    OBVIOUS
  <2>2. messages' = messages \cup ms
    BY <1>3, <2>1
  <2>3. \A q \in ms : q.type = "AppendEntries" => Uses(q.entries, C)
    BY <1>3, <2>1
  <2> QED BY <2>2, <2>3, BringsOf
<1> QED BY <1>1, <1>2, <1>5, <1>6, KnownStill, UnderOfHandler

LEMMA HandlerUnder ==
  ASSUME TypeInv, NEW C, AtMostOne(C), Under(C), NEW n \in Node, VoteStep(n),
         mode[n] = "running", UNCHANGED <<mode, offer, known, elected>>,
         UNCHANGED <<disk, st, peers>>, Brings(C)
  PROVE  Under(C)'
<1>1. NodeUnder(n, C) /\ mode'[n] \in {"running", "down"}
  BY DEF Under
<1>2. NodeUnder(n, C)'
  BY <1>1, StillUnder
<1> QED BY <1>2, KnownStill, UnderOfHandler

LEMMA HeartbeatTickUnder ==
  ASSUME TypeInv, NEW C, AtMostOne(C), Under(C), NEW n \in Node, HeartbeatTick(n)
  PROVE  Under(C)'
<1>1. VoteStep(n)
  BY HeartbeatTickStep
<1>2. /\ ProgressTypes /\ st[n] \in MemberState /\ peers[n] \in SUBSET Node
      /\ Positive(nextIndex[n])
  BY TypeParts
<1>3. Uses(st[n].log, C) /\ Send(Heartbeats(n, st[n], peers[n], nextIndex[n]))
  BY DEF Under, NodeUnder, HeartbeatTick, SendHeartbeats
<1>4. Brings(C)
  BY <1>2, <1>3, BeatsBring
<1> QED BY <1>1, <1>4, HandlerUnder DEF HeartbeatTick, Ready, process, progress, history

LEMMA ClientRequestUnder ==
  ASSUME TypeInv, NEW C, AtMostOne(C), Under(C), NEW n \in Node, NEW v \in Value,
         ClientRequest(n, v)
  PROVE  Under(C)'
<1>1. VoteStep(n) /\ NodeUnder(n, C)
  BY ClientRequestStep DEF Under
<1>2. /\ ProgressTypes /\ st[n] \in MemberState /\ peers[n] \in SUBSET Node
      /\ Positive(nextIndex[n]) /\ Uses(st[n].log, C)
  BY <1>1, TypeParts DEF NodeUnder
<1>3. PICK s : s = PushEntry(st[n], v)
  OBVIOUS
<1>4. v \in Command \cup Change /\ v \notin Change
  BY ChangeAssumption DEF Command
<1>5. s \in MemberState /\ Uses(s.log, C)
  BY <1>2, <1>3, <1>4, PushEntryMember
<1>6. /\ Send(Heartbeats(n, s, peers[n], nextIndex[n]))
      /\ AdvanceCommit(n, s, matchIndex[n], TRUE)
      /\ mode[n] = "running" /\ mode' = mode /\ offer' = offer /\ elected' = elected
  BY <1>3 DEF ClientRequest, SendHeartbeats, Ready, process
<1>7. Brings(C)
  BY <1>2, <1>5, <1>6, BeatsBring
<1>8. NodeUnder(n, C)' /\ OnlyAt(known, known', n)
  BY <1>1, <1>5, <1>6, AdvanceCommitUnder
<1> QED BY <1>1, <1>6, <1>7, <1>8, UnderOfHandler

LEMMA ResultBrings ==
  ASSUME NEW C, NEW m, MessageOK(m), m.type = "AppendEntries", NEW t \in Nat,
         NEW success \in BOOLEAN, NEW i \in Nat, Send({Result(m, t, success, i)})
  PROVE  Brings(C)
<1>1. PICK ms : /\ Sends(ms) /\ NoVoteIn(ms) /\ messages' = messages \cup ms
                /\ \A r \in ms : r.type # "AppendEntries"
  BY OneResult
<1> QED BY <1>1, BringsOf

LEMMA StaleAppendEntriesUnder ==
  ASSUME TypeInv, NEW C, AtMostOne(C), Under(C), NEW n \in Node, NEW m \in messages,
         StaleAppendEntries(n, m)
  PROVE  Under(C)'
<1>1. VoteStep(n) /\ MessageOK(m) /\ st[n].currentTerm \in Nat
  BY StaleAppendEntriesStep, TypeParts, MemberFields
<1>2. Brings(C)
  BY <1>1, ResultBrings DEF StaleAppendEntries
<1> QED BY <1>1, <1>2, HandlerUnder DEF StaleAppendEntries, Ready, process, progress, history

LEMMA HandleAppendEntriesUnder ==
  ASSUME TypeInv, NEW C, AtMostOne(C), Under(C), NEW n \in Node, NEW m \in messages,
         HandleAppendEntries(n, m)
  PROVE  Under(C)'
<1>1. VoteStep(n) /\ NodeUnder(n, C)
  BY HandleAppendEntriesStep DEF Under
<1>2. /\ MessageOK(m) /\ m.type = "AppendEntries" /\ st[n] \in MemberState
      /\ Uses(st[n].log, C) /\ Uses(m.entries, C)
  BY <1>1, TypeParts DEF HandleAppendEntries, Under, NodeUnder
<1>3. /\ m.term \in Nat /\ m.prevIndex \in Nat /\ m.entries \in Seq(EntryType)
      /\ m.leaderCommit \in Nat
  BY <1>2, MessageFields
<1>4. PICK s : s = Merged(n, m)
  OBVIOUS
<1>5. /\ s \in MemberState /\ Uses(s.log, C) /\ s.currentTerm \in Nat
      /\ LastLogIndex(s) \in Nat
  BY <1>2, <1>3, <1>4, MergedMember, MemberFields
<1>6. PICK consistent \in BOOLEAN :
        consistent = AppendConsistent(st[n], m.prevIndex, m.prevTerm)
  BY DEF AppendConsistent
<1>7. Brings(C)
  <2>1. m.prevIndex + Len(m.entries) \in Nat
    BY <1>3, LenProperties
  <2>2. Send({Result(m, s.currentTerm, consistent, m.prevIndex + Len(m.entries))})
    BY <1>4, <1>6 DEF HandleAppendEntries
  <2> QED BY <1>2, <1>5, <2>1, <2>2, ResultBrings
<1>8. mode[n] = "running" /\ mode' = mode /\ offer' = offer /\ elected' = elected
  BY DEF HandleAppendEntries, Ready, process, history
<1>9. NodeUnder(n, C)' /\ OnlyAt(known, known', n)
  <2>1. CASE ApplyCommitted(n, s, Smaller(m.leaderCommit, LastLogIndex(s)), TRUE)
    <3>1. PICK commit : commit = Smaller(m.leaderCommit, LastLogIndex(s))
      OBVIOUS
    <3>2. commit \in Nat /\ ApplyCommitted(n, s, commit, TRUE)
      BY <1>3, <1>5, <2>1, <3>1, SmallerIs
    <3> QED BY <1>1, <1>5, <1>8, <3>2, ApplyCommittedUnder
  <2>2. CASE Save(n, s, peers[n]) /\ UNCHANGED progress
    <3>1. known' = known /\ mode'[n] \in {"running", "down"}
      BY <1>8, <2>2 DEF progress
    <3> QED BY <1>1, <1>5, <1>8, <2>2, <3>1, SaveUnder, KnownStill
  <2> QED BY <1>4, <2>1, <2>2 DEF HandleAppendEntries
<1> QED BY <1>1, <1>7, <1>8, <1>9, UnderOfHandler

LEMMA HandleResultUnder ==
  ASSUME TypeInv, NEW C, AtMostOne(C), Under(C), NEW n \in Node, NEW m \in messages,
         n = m.dst, HandleResult(n, m)
  PROVE  Under(C)'
<1>1. VoteStep(n) /\ NodeUnder(n, C)
  BY HandleResultStep DEF Under
<1>2. /\ MessageOK(m) /\ m.term \in Nat /\ st[n] \in MemberState /\ Uses(st[n].log, C)
  BY <1>1, TypeParts, MessageFields DEF NodeUnder
<1>3. /\ mode[n] = "running" /\ mode' = mode /\ offer' = offer /\ elected' = elected
      /\ messages' = messages /\ mode'[n] \in {"running", "down"}
  BY DEF HandleResult, Ready, process
<1>4. Brings(C)
  BY <1>3, QuietBrings
<1>5. CASE /\ Save(n, UpdateTerm(st[n], m.term), peers[n])
           /\ UNCHANGED progress
  <2>1. UpdateTerm(st[n], m.term) \in MemberState /\ Uses(UpdateTerm(st[n], m.term).log, C)
    BY <1>2, UpdateTermMember
  <2>2. known' = known
    BY <1>5 DEF progress
  <2>3. NodeUnder(n, C)'
    BY <1>1, <1>3, <1>5, <2>1, <2>2, SaveUnder
  <2> QED BY <1>1, <1>3, <1>4, <2>2, <2>3, KnownStill, UnderOfHandler
<1>6. CASE \E match : AdvanceCommit(n, st[n], match, FALSE)
  <2>1. PICK match : AdvanceCommit(n, st[n], match, FALSE)
    BY <1>6
  <2>2. NodeUnder(n, C)' /\ OnlyAt(known, known', n)
    BY <1>1, <1>2, <1>3, <2>1, AdvanceCommitUnder
  <2> QED BY <1>1, <1>3, <1>4, <2>2, UnderOfHandler
<1>7. CASE UNCHANGED <<disk, st, peers, matchIndex, progress, decided>>
  <2>1. known' = known
    BY <1>7 DEF progress
  <2> QED BY <1>1, <1>3, <1>4, <1>7, <2>1, HandlerUnder
<1> QED BY <1>5, <1>6, <1>7 DEF HandleResult

LEMMA UpdatePeerClientUnder ==
  ASSUME TypeInv, NEW C, AtMostOne(C), Under(C), NEW n \in Node, NEW p \in Node,
         UpdatePeerClient(n, p)
  PROVE  Under(C)'
<1>1. VoteStep(n) /\ Brings(C)
  BY UpdatePeerClientStep, QuietBrings DEF UpdatePeerClient
<1> QED BY <1>1, HandlerUnder DEF UpdatePeerClient, Ready, process, progress, history

LEMMA ElectionEndsUnder ==
  ASSUME TypeInv, NEW C, AtMostOne(C), Under(C), NEW n \in Node, ElectionEnds(n)
  PROVE  Under(C)'
<1>1. VoteStep(n) /\ Brings(C)
  BY ElectionEndsStep, QuietBrings DEF ElectionEnds
<1> QED BY <1>1, HandlerUnder DEF ElectionEnds, process, progress, history

------------------------------------------------------------------------------
(* Crashes and starts.                                                     *)

LEMMA DownUnder ==
  ASSUME TypeInv, NEW C, Under(C), NEW n \in Node, VoteStep(n), NodeUnder(n, C)', GoDown(n),
         messages' = messages
  PROVE  Under(C)'
<1>1. OnlyAt(mode, mode', n) /\ OnlyAt(offer, offer', n) /\ OnlyAt(known, known', n)
  BY DEF GoDown, OnlyAt
<1>2. elected' = elected /\ Brings(C)
  BY QuietBrings DEF GoDown, history
<1> QED BY <1>1, <1>2, UnderOf

LEMMA CrashUnder ==
  ASSUME TypeInv, NEW C, AtMostOne(C), Under(C), NEW n \in Node, Crash(n)
  PROVE  Under(C)'
<1>1. VoteStep(n) /\ NodeUnder(n, C)
  BY CrashStep DEF Under
<1>2. mode[n] = "running" /\ mode'[n] \in {"running", "down"} /\ offer' = offer /\ known' = known
  BY TypeParts DEF Crash, GoDown, ProcessTypes
<1>3. NodeUnder(n, C)'
  BY <1>1, <1>2, StillUnder DEF Crash
<1> QED BY <1>1, <1>3, DownUnder DEF Crash

LEMMA AppendEntriesInterruptedUnder ==
  ASSUME TypeInv, NEW C, AtMostOne(C), Under(C), NEW n \in Node, NEW m \in messages,
         AppendEntriesInterrupted(n, m)
  PROVE  Under(C)'
<1>1. VoteStep(n) /\ NodeUnder(n, C)
  BY AppendEntriesInterruptedStep DEF Under
<1>2. /\ MessageOK(m) /\ m.type = "AppendEntries" /\ st[n] \in MemberState
      /\ Uses(st[n].log, C) /\ Uses(m.entries, C)
  BY <1>1, TypeParts DEF AppendEntriesInterrupted, Under, NodeUnder
<1>3. m.term \in Nat /\ m.prevIndex \in Nat /\ m.entries \in Seq(EntryType)
  BY <1>2, MessageFields
<1>4. Merged(n, m) \in MemberState /\ Uses(Merged(n, m).log, C)
  BY <1>2, <1>3, MergedMember
<1>5. mode[n] = "running" /\ mode'[n] \in {"running", "down"} /\ offer' = offer /\ known' = known
  BY TypeParts DEF AppendEntriesInterrupted, Ready, GoDown, ProcessTypes
<1>6. NodeUnder(n, C)'
  BY <1>1, <1>4, <1>5, SaveUnder DEF AppendEntriesInterrupted
<1> QED BY <1>1, <1>6, DownUnder DEF AppendEntriesInterrupted

(* Who joins is the node that the change adds or takes back.               *)
LEMMA JoinerUnder ==
  ASSUME TypeInv, NEW C, AtMostOne(C), NEW n \in Node, NodeUnder(n, C),
         mode[n] = "joining", NEW c \in C, c.id # n
  PROVE  n \notin Initial /\ offer[n] = Nil
<1>1. c \in FirstChange /\ C = {c} /\ \A ps \in Configs(C) : n \in ps <=> n \in Initial
  BY ConfigsFacts, FirstChangeFacts
<1>2. n \notin Initial
  BY <1>1 DEF NodeUnder
<1>3. offer[n] # Nil => n \in offer[n] /\ offer[n] \in Configs(C)
  BY TypeParts DEF ProcessTypes, NodeUnder
<1> QED BY <1>1, <1>2, <1>3

LEMMA FinishBootstrapUnder ==
  ASSUME TypeInv, NEW C, AtMostOne(C), Under(C), NEW n \in Node, FinishBootstrap(n)
  PROVE  Under(C)'
<1>1. VoteStep(n) /\ NodeUnder(n, C)
  BY FinishBootstrapStep DEF Under
<1>2. /\ mode[n] = "joining" /\ offer[n] # Nil /\ known' = known /\ elected' = elected
      /\ messages' = messages /\ offer' = [offer EXCEPT ![n] = Nil]
      /\ \E x : mode' = [mode EXCEPT ![n] = x]
  BY DEF FinishBootstrap, progress, history
<1>3. OnlyAt(mode, mode', n) /\ OnlyAt(offer, offer', n) /\ OnlyAt(known, known', n) /\ Brings(C)
  BY <1>2, QuietBrings DEF OnlyAt
<1>4. \A c \in C : c.id = n
  BY <1>1, <1>2, JoinerUnder
<1>5. /\ DOMAIN mode = Node /\ DOMAIN offer = Node /\ DOMAIN st = Node
      /\ DOMAIN peers = Node /\ DOMAIN disk = Node
      /\ offer[n] \in SUBSET Node /\ n \in offer[n] /\ st[n] \in MemberState
      /\ offer[n] \in Configs(C)
  BY <1>1, <1>2, TypeParts DEF ProcessTypes, StateTypes, NodeUnder
<1>6. PICK file : file = FileOf(st[n], offer[n])
  OBVIOUS
<1>7. file # Nil /\ file.peers = offer[n] /\ file.state = st[n]
  BY <1>5, <1>6, FileType
<1>8. CASE Save(n, st[n], offer[n]) /\ mode' = [mode EXCEPT ![n] = "running"]
  <2>1. /\ st'[n] = st[n] /\ peers'[n] = offer[n] /\ disk'[n] = file
        /\ mode'[n] = "running" /\ offer'[n] = Nil
    BY <1>2, <1>5, <1>6, <1>8 DEF Save, FileOf
  <2>2. OnDisk(n)' = st[n]
    BY <1>7, <2>1 DEF OnDisk
  <2>3. NodeUnder(n, C)'
    BY <1>1, <1>2, <1>4, <1>5, <1>7, <2>1, <2>2 DEF NodeUnder, Configs
  <2> QED BY <1>1, <1>2, <1>3, <2>3, UnderOf
<1>9. CASE SaveFails(n, st[n], offer[n]) /\ mode' = [mode EXCEPT ![n] = "down"]
  <2>1. /\ st'[n] = st[n] /\ peers'[n] = peers[n] /\ disk'[n] \in {disk[n], file}
        /\ mode'[n] = "down" /\ offer'[n] = Nil
    BY <1>2, <1>5, <1>6, <1>9 DEF SaveFails, FileOf
  <2>2. OnDisk(n)' \in {OnDisk(n), st[n]}
    BY <1>7, <2>1 DEF OnDisk
  <2>3. NodeUnder(n, C)'
    BY <1>1, <1>2, <1>4, <1>5, <1>7, <2>1, <2>2 DEF NodeUnder, Configs
  <2> QED BY <1>1, <1>2, <1>3, <2>3, UnderOf
<1> QED BY <1>8, <1>9 DEF FinishBootstrap

LEMMA BootstrapFailsUnder ==
  ASSUME TypeInv, NEW C, AtMostOne(C), Under(C), NEW n \in Node, BootstrapFails(n)
  PROVE  Under(C)'
<1>1. VoteStep(n) /\ NodeUnder(n, C)
  BY BootstrapFailsStep DEF Under
<1>2. /\ UNCHANGED <<disk, st, peers, messages, known, elected>>
      /\ mode' = [mode EXCEPT ![n] = "down"] /\ offer' = [offer EXCEPT ![n] = Nil]
  BY DEF BootstrapFails, progress, history
<1>3. OnlyAt(mode, mode', n) /\ OnlyAt(offer, offer', n) /\ OnlyAt(known, known', n) /\ Brings(C)
  BY <1>2, QuietBrings DEF OnlyAt
<1>4. mode'[n] = "down" /\ offer'[n] = Nil /\ OnDisk(n)' = OnDisk(n)
  BY <1>2, TypeParts DEF ProcessTypes, OnDisk
<1>5. NodeUnder(n, C)'
  BY <1>1, <1>2, <1>4 DEF NodeUnder, Configs
<1> QED BY <1>1, <1>2, <1>3, <1>5, UnderOf

LEMMA StartUnder ==
  ASSUME TypeInv, VotesSaved, NEW C, AtMostOne(C), Under(C), NEW n \in Node, Start(n)
  PROVE  Under(C)'
<1>1. VoteStep(n) /\ NodeUnder(n, C)
  BY StartStep DEF Under
<1>2. PICK ps : ps = RestoredPeers(disk[n])
  OBVIOUS
<1>3. /\ UNCHANGED <<disk, messages, known, elected, offer>>
      /\ st'[n] = OnDisk(n) /\ peers'[n] = ps
      /\ mode'[n] = (IF n \in ps THEN "running" ELSE "joining")
      /\ \E x : mode' = [mode EXCEPT ![n] = x]
  BY <1>2, TypeParts DEF Start, progress, history, OnDisk, StateTypes, ProcessTypes
<1>4. OnlyAt(mode, mode', n) /\ OnlyAt(offer, offer', n) /\ OnlyAt(known, known', n) /\ Brings(C)
  BY <1>3, QuietBrings DEF OnlyAt
<1>5. OnDisk(n)' = OnDisk(n)
  BY <1>3 DEF OnDisk
<1>6. ps = Initial \/ (disk[n] # Nil /\ ps = disk[n].peers)
  BY <1>2 DEF RestoredPeers
<1>7. ps \in Configs(C)
  BY <1>1, <1>6, ConfigsFacts DEF NodeUnder
<1>8. ASSUME NEW c \in C, c.id # n
      PROVE  /\ known[n] # {} =>
                  /\ n \in Initial /\ disk[n] # Nil /\ Follows(disk[n].peers, c)
                  /\ Follows(ps, c)
             /\ Follows(ps, c) => disk[n] # Nil /\ Follows(disk[n].peers, c)
  <2>1. c \in FirstChange /\ ~Follows(Initial, c)
    BY ConfigsFacts, FirstChangeFacts
  <2>2. known[n] # {} => n \in Initial /\ disk[n] # Nil /\ Follows(disk[n].peers, c)
    BY <1>1, <1>8 DEF NodeUnder
  <2>3. CASE known[n] # {}
    <3>1. disk[n].peers \in Configs(C)
      BY <1>1, <2>2, <2>3 DEF NodeUnder
    <3>2. n \in disk[n].peers
      BY <1>8, <2>2, <2>3, <3>1, ConfigsFacts, FirstChangeFacts
    <3>3. ps = disk[n].peers
      BY <1>2, <2>2, <2>3, <3>2 DEF RestoredPeers
    <3> QED BY <2>2, <2>3, <3>3
  <2>4. Follows(ps, c) => disk[n] # Nil /\ Follows(disk[n].peers, c)
    BY <1>6, <2>1
  <2> QED BY <2>2, <2>3, <2>4
<1>9. /\ offer[n] = Nil
      /\ Uses(OnDisk(n).log, C) /\ \A e \in known[n] : e.command \in C
      /\ disk[n] # Nil => disk[n].peers \in Configs(C)
  <2>1. mode[n] = "down"
    BY DEF Start
  <2> QED BY <1>1, <2>1, TypeParts DEF NodeUnder, ProcessTypes
<1>10. NodeUnder(n, C)'
  BY <1>3, <1>5, <1>7, <1>8, <1>9 DEF NodeUnder, Configs
<1> QED BY <1>1, <1>3, <1>4, <1>10, UnderOf

------------------------------------------------------------------------------
(* The change itself.                                                      *)

LEMMA NoneYet ==
  ASSUME TypeInv, NEW q \in Node, NodeUnder(q, {})
  PROVE  /\ peers[q] = Initial /\ (disk[q] # Nil => disk[q].peers = Initial)
         /\ (offer[q] # Nil => offer[q] = Initial) /\ known[q] = {}
         /\ mode[q] = "running" => q \in Initial
BY DEF NodeUnder, Configs

LEMMA UnderNoneIsUnderOne ==
  ASSUME TypeInv, Under({}), NEW c \in FirstChange
  PROVE  Under({c})
<1>1. ~Follows(Initial, c) /\ Initial \in Configs({c})
  BY FirstChangeFacts DEF Configs
<1>2. \A e : Uses(e, {}) => Uses(e, {c})
  BY DEF Uses
<1>3. ASSUME NEW q \in Node
      PROVE  NodeUnder(q, {c})
  <2>1. NodeUnder(q, {})
    BY DEF Under
  <2>2. /\ peers[q] = Initial /\ (disk[q] # Nil => disk[q].peers = Initial)
        /\ (offer[q] # Nil => offer[q] = Initial) /\ known[q] = {}
        /\ mode[q] = "running" => q \in Initial
    BY <2>1, NoneYet
  <2>3. Uses(st[q].log, {c}) /\ Uses(OnDisk(q).log, {c})
    BY <1>2, <2>1 DEF NodeUnder
  <2>4. mode[q] = "joining" => q \notin peers[q]
    BY <2>1 DEF NodeUnder
  <2> QED BY <1>1, <2>2, <2>3, <2>4 DEF NodeUnder
<1>4. \A m \in messages : m.type = "AppendEntries" => Uses(m.entries, {c})
  BY <1>2 DEF Under
<1>5. \A e \in elected : e.members \in Configs({c})
  BY <1>1 DEF Under, Configs
<1> QED BY <1>3, <1>4, <1>5 DEF Under

LEMMA OfferUnder ==
  ASSUME NEW C, NEW p \in Node, NodeUnder(p, C), offer'[p] \in Configs(C),
         st'[p] = st[p], peers'[p] = peers[p], disk'[p] = disk[p], mode'[p] = mode[p],
         known'[p] = known[p]
  PROVE  NodeUnder(p, C)'
<1>1. OnDisk(p)' = OnDisk(p)
  BY DEF OnDisk
<1> QED BY <1>1 DEF NodeUnder, Configs

LEMMA UnderParts ==
  ASSUME NEW C, Under(C), \A q \in Node : NodeUnder(q, C)', Brings(C), elected' = elected
  PROVE  Under(C)'
<1>1. PICK ms : /\ messages' = messages \cup ms
                /\ \A m \in ms : m.type = "AppendEntries" => Uses(m.entries, C)
  BY DEF Brings
<1>2. \A m \in messages' : m.type = "AppendEntries" => Uses(m.entries, C)
  BY <1>1 DEF Under
<1> QED BY <1>2 DEF Under, Configs

(* A leader that has the first change on its disk, or failed to write it.  *)
LEMMA AppenderUnder ==
  ASSUME TypeInv, NEW n \in Node, NodeUnder(n, {}), mode[n] = "running",
         mode' = mode, known' = known, offer'[n] = offer[n],
         NEW c \in FirstChange, NEW s \in MemberState, s = PushEntry(st[n], c),
         NEW ps \in SUBSET Node, ps = Changed(Initial, c),
         NodeUnder(n, {c}),
         Save(n, s, ps) \/ SaveFails(n, s, ps)
  PROVE  NodeUnder(n, {c})' /\ Uses(s.log, {c})
<1>1. /\ peers[n] = Initial /\ known[n] = {} /\ n \in Initial
  BY NoneYet
<1>2. /\ DOMAIN st = Node /\ DOMAIN peers = Node /\ DOMAIN disk = Node
      /\ st[n] \in MemberState /\ c \in Command \cup Change
  BY TypeParts, FirstChangeFacts DEF StateTypes
<1>3. Uses(st[n].log, {c})
  BY DEF NodeUnder
<1>4. Uses(s.log, {c})
  BY <1>2, <1>3, PushEntryMember
<1>5. AtMostOne({c}) /\ ps \in Configs({c}) /\ Initial \in Configs({c})
  BY DEF AtMostOne, Configs
<1>6. CASE Save(n, s, ps)
  <2>1. st'[n] = s /\ peers'[n] = ps /\ disk'[n] = FileOf(s, ps)
    BY <1>2, <1>6 DEF Save, FileOf
  <2>2. \E t \in MemberState : disk'[n] = FileOf(t, ps) /\ Uses(t.log, {c})
    BY <1>4, <2>1
  <2>3. \A e \in known'[n] : e.command \in {c}
    BY <1>1
  <2>4. \A d \in {c} : d.id # n /\ known'[n] # {} => Follows(ps, d)
    BY <1>1
  <2>5. n \in ps \cup Initial /\ mode'[n] \in {"running", "down"}
    BY <1>1
  <2>6. NodeUnder(n, {c})'
    BY <1>4, <1>5, <2>1, <2>2, <2>3, <2>4, <2>5, RunsUnder
  <2> QED BY <1>4, <2>6
<1>7. CASE SaveFails(n, s, ps)
  <2>1. /\ st'[n] = st[n] /\ peers'[n] = Initial
        /\ disk'[n] \in {disk[n], FileOf(s, ps)}
    BY <1>1, <1>2, <1>7 DEF SaveFails, FileOf
  <2>2. FileOf(s, ps) # Nil /\ FileOf(s, ps).peers = ps /\ FileOf(s, ps).state = s
    BY FileType
  <2>3. OnDisk(n)' \in {OnDisk(n), s}
    BY <2>1, <2>2 DEF OnDisk
  <2>4. ~Follows(Initial, c)
    BY FirstChangeFacts
  <2>5. NodeUnder(n, {c})'
    BY <1>1, <1>4, <1>5, <2>1, <2>2, <2>3, <2>4 DEF NodeUnder, Configs
  <2> QED BY <1>4, <2>5
<1> QED BY <1>6, <1>7

LEMMA ApplyMembershipUnder ==
  ASSUME TypeInv, NEW n \in Node, NEW p \in Node, ApplyMembership(n, p)
  PROVE  /\ changes' = changes =>
              \A C : AtMostOne(C) /\ Under(C) => Under(C)'
         /\ changes' # changes /\ Under({}) => \E c \in FirstChange : Under({c})'
<1>1. /\ mode[n] = "running" /\ mode[p] = "joining" /\ p # n /\ mode' = mode
      /\ known' = known /\ elected' = elected
  BY DEF ApplyMembership, Ready, progress, history
<1>2. /\ changes \in Nat /\ DOMAIN offer = Node /\ DOMAIN st = Node /\ DOMAIN peers = Node
      /\ DOMAIN disk = Node
      /\ st[n] \in MemberState /\ peers[n] \in SUBSET Node /\ ProgressTypes
      /\ MapsOK(n, matchIndex[n], nextIndex[n]) /\ LeadershipTypes
  BY TypeParts DEF RoleTypes, ProcessTypes, StateTypes
<1>3. PICK s : s = PushEntry(st[n], AddNode(p))
  OBVIOUS
<1>4. PICK ps : ps = peers[n] \cup {p}
  OBVIOUS
<1>5. CASE /\ p \in peers[n]
           /\ offer' = [offer EXCEPT ![p] = peers[n] \cup {n}]
           /\ UNCHANGED <<disk, st, peers, links, leadership, messages, budget>>
  <2>1. changes' = changes
    BY <1>5 DEF budget
  <2>2. ASSUME NEW C, AtMostOne(C), Under(C)
        PROVE  Under(C)'
    <3>1. peers[n] \cup {n} \in Configs(C)
      BY <1>1, <2>2, MembersUnder DEF Under
    <3>2. ASSUME NEW q \in Node
          PROVE  NodeUnder(q, C)'
      <4>1. CASE q = p
        <5>1. offer'[p] \in Configs(C)
          BY <1>2, <1>5, <3>1
        <5> QED BY <1>1, <1>5, <2>2, <4>1, <5>1, OfferUnder DEF Under
      <4>2. CASE q # p
        <5>1. offer'[q] = offer[q]
          BY <1>2, <1>5, <4>2
        <5> QED BY <1>1, <1>5, <2>2, <5>1, SameNodeUnder DEF Under, SameNode
      <4> QED BY <4>1, <4>2
    <3>3. Brings(C)
      BY <1>5, QuietBrings
    <3> QED BY <1>1, <2>2, <3>2, <3>3, UnderParts
  <2> QED BY <2>1, <2>2
<1>6. CASE /\ p \notin peers[n]
           /\ changes' = changes + 1
           /\ \/ /\ Save(n, s, ps)
                 /\ nextIndex' = [nextIndex EXCEPT ![n] = With(@, p, LastLogIndex(st[n]) + 1)]
                 /\ SendHeartbeats(n, s, ps, nextIndex'[n])
                 /\ offer' = [offer EXCEPT ![p] = ps \cup {n}]
              \/ /\ SaveFails(n, s, ps)
                 /\ offer' = offer /\ messages' = messages
  <2>1. changes' # changes
    BY <1>2, <1>6
  <2>2. ASSUME Under({})
        PROVE  \E c \in FirstChange : Under({c})'
    <3>1. NodeUnder(n, {}) /\ peers[n] = Initial /\ n \in Initial
      BY <1>1, <2>2, NoneYet DEF Under
    <3>2. PICK c : c = AddNode(p)
      OBVIOUS
    <3>3. c \in FirstChange /\ c \in Change /\ c.op = "AddNode" /\ c.id = p
      BY <1>6, <3>1, <3>2, ChangeType DEF FirstChange, AddNode
    <3>4. Under({c})
      BY <2>2, <3>3, UnderNoneIsUnderOne
    <3>5. ps = Changed(Initial, c) /\ ps \in SUBSET Node /\ ps \cup {n} = ps
      BY <1>2, <1>4, <3>1, <3>3 DEF Changed
    <3>6. s \in MemberState /\ s = PushEntry(st[n], c)
      BY <1>2, <1>3, <3>2, <3>3, PushEntryMember
    <3>7. offer'[n] = offer[n] /\ (Save(n, s, ps) \/ SaveFails(n, s, ps))
      BY <1>1, <1>2, <1>6
    <3>8. NodeUnder(n, {c})' /\ Uses(s.log, {c})
      BY <1>1, <3>1, <3>3, <3>4, <3>5, <3>6, <3>7, AppenderUnder DEF Under
    <3>9. ASSUME NEW q \in Node
          PROVE  NodeUnder(q, {c})'
      <4>1. CASE q = n
        BY <3>8, <4>1
      <4>2. CASE q # n
        <5>1. /\ st'[q] = st[q] /\ peers'[q] = peers[q] /\ disk'[q] = disk[q]
              /\ mode'[q] = mode[q] /\ known'[q] = known[q]
          BY <1>1, <1>2, <1>6, <4>2 DEF Save, SaveFails
        <5>2. CASE offer'[q] = offer[q]
          BY <3>4, <5>1, <5>2, SameNodeUnder DEF Under, SameNode
        <5>3. CASE offer'[q] # offer[q]
          <6>1. q = p /\ offer'[q] = ps
            BY <1>2, <1>6, <3>5, <5>3
          <6>2. ps \in Configs({c})
            BY <3>5 DEF Configs
          <6> QED BY <3>4, <5>1, <6>1, <6>2, OfferUnder DEF Under
        <5> QED BY <5>2, <5>3
      <4> QED BY <4>1, <4>2
    <3>10. Brings({c})
      <4>1. CASE /\ nextIndex' = [nextIndex EXCEPT ![n] = With(@, p, LastLogIndex(st[n]) + 1)]
                 /\ SendHeartbeats(n, s, ps, nextIndex'[n])
        <5>1. PICK i : i = LastLogIndex(st[n]) + 1
          OBVIOUS
        <5>2. i \in Nat \ {0}
          BY <1>2, <5>1, MemberFields
        <5>3. PICK next : next = With(nextIndex[n], p, i)
          OBVIOUS
        <5>4. MapsOK(n, matchIndex[n], next)
          BY <1>1, <1>2, <5>2, <5>3, WithNext
        <5>5. Positive(next) /\ nextIndex'[n] = next
          BY <1>2, <4>1, <5>1, <5>3, <5>4 DEF MapsOK, Positive, LeadershipTypes
        <5>6. Send(Heartbeats(n, s, ps, next))
          BY <4>1, <5>5 DEF SendHeartbeats
        <5> QED BY <1>2, <3>5, <3>6, <3>8, <5>5, <5>6, BeatsBring
      <4>2. CASE messages' = messages
        BY <4>2, QuietBrings
      <4> QED BY <1>6, <4>1, <4>2
    <3>11. Under({c})'
      BY <1>1, <3>4, <3>9, <3>10, UnderParts
    <3> QED BY <3>3, <3>11
  <2> QED BY <2>1, <2>2
<1> QED BY <1>3, <1>4, <1>5, <1>6 DEF ApplyMembership

LEMMA RemoveMembershipUnder ==
  ASSUME TypeInv, NEW n \in Node, NEW p \in Node, RemoveMembership(n, p), Under({})
  PROVE  \E c \in FirstChange : Under({c})'
<1>1. /\ mode[n] = "running" /\ mode' = mode /\ offer' = offer
      /\ known' = known /\ elected' = elected /\ p \in peers[n] \cap Leaver
  BY DEF RemoveMembership, Ready, process, progress, history
<1>2. /\ DOMAIN st = Node /\ DOMAIN peers = Node /\ DOMAIN disk = Node
      /\ st[n] \in MemberState /\ peers[n] \in SUBSET Node /\ ProgressTypes
      /\ MapsOK(n, matchIndex[n], nextIndex[n]) /\ LeadershipTypes
  BY TypeParts DEF ProcessTypes, StateTypes
<1>3. PICK s : s = PushEntry(st[n], RemoveNode(p))
  OBVIOUS
<1>4. PICK ps : ps = peers[n] \ {p}
  OBVIOUS
<1>5. \/ /\ Save(n, s, ps)
         /\ nextIndex' = [nextIndex EXCEPT ![n] = Without(@, p)]
         /\ SendHeartbeats(n, s, ps, nextIndex'[n])
      \/ /\ SaveFails(n, s, ps)
         /\ messages' = messages
  BY <1>3, <1>4 DEF RemoveMembership
<1>6. NodeUnder(n, {}) /\ peers[n] = Initial /\ n \in Initial
  BY <1>1, NoneYet DEF Under
<1>7. PICK c : c = RemoveNode(p)
  OBVIOUS
<1>8. c \in FirstChange /\ c \in Change /\ c.op = "RemoveNode" /\ c.id = p
  BY <1>1, <1>6, <1>7, ChangeType DEF FirstChange, RemoveNode
<1>9. Under({c})
  BY <1>8, UnderNoneIsUnderOne
<1>10. ps = Changed(Initial, c) /\ ps \in SUBSET Node
  BY <1>2, <1>4, <1>6, <1>8 DEF Changed
<1>11. s \in MemberState /\ s = PushEntry(st[n], c)
  BY <1>2, <1>3, <1>7, <1>8, PushEntryMember
<1>12. NodeUnder(n, {c})' /\ Uses(s.log, {c})
  BY <1>1, <1>5, <1>6, <1>8, <1>9, <1>10, <1>11, AppenderUnder DEF Under
<1>13. ASSUME NEW q \in Node
       PROVE  NodeUnder(q, {c})'
  <2>1. CASE q = n
    BY <1>12, <2>1
  <2>2. CASE q # n
    <3>1. SameNode(q)
      BY <1>1, <1>2, <1>5, <2>2 DEF Save, SaveFails, SameNode
    <3> QED BY <1>9, <3>1, SameNodeUnder DEF Under
  <2> QED BY <2>1, <2>2
<1>14. Brings({c})
  <2>1. CASE /\ nextIndex' = [nextIndex EXCEPT ![n] = Without(@, p)]
             /\ SendHeartbeats(n, s, ps, nextIndex'[n])
    <3>1. PICK next : next = Without(nextIndex[n], p)
      OBVIOUS
    <3>2. PICK match : match = Without(matchIndex[n], p)
      OBVIOUS
    <3>3. MapsOK(n, match, next)
      BY <1>2, <3>1, <3>2, WithoutMaps
    <3>4. Positive(next) /\ nextIndex'[n] = next
      BY <1>2, <2>1, <3>1, <3>3 DEF MapsOK, Positive, LeadershipTypes
    <3>5. Send(Heartbeats(n, s, ps, next))
      BY <2>1, <3>4 DEF SendHeartbeats
    <3> QED BY <1>2, <1>10, <1>11, <1>12, <3>4, <3>5, BeatsBring
  <2>2. CASE messages' = messages
    BY <2>2, QuietBrings
  <2> QED BY <1>5, <2>1, <2>2
<1> QED BY <1>1, <1>8, <1>9, <1>13, <1>14, UnderParts

------------------------------------------------------------------------------
(* At most one change.                                                     *)

LEMMA NobodyOne ==
  /\ AtMostOne({})
  /\ \A c \in FirstChange : AtMostOne({c})
BY DEF AtMostOne

(* What is kept under every set of at most one change keeps ChangeInv.     *)
LEMMA ChangeInvKept ==
  ASSUME ChangeInv, changes' = changes,
         \A C : AtMostOne(C) /\ Under(C) => Under(C)'
  PROVE  ChangeInv'
<1>1. PICK none : none = {}
  OBVIOUS
<1>2. CASE changes = 0 /\ Under({})
  <2>1. Under(none)'
    BY <1>1, <1>2, NobodyOne
  <2> QED BY <1>1, <1>2, <2>1 DEF ChangeInv
<1>3. CASE changes > 0 /\ \E c \in FirstChange : Under({c})
  <2>1. PICK c \in FirstChange : Under({c})
    BY <1>3
  <2>2. PICK one : one = {c}
    OBVIOUS
  <2>3. Under(one)'
    BY <2>1, <2>2, NobodyOne
  <2> QED BY <1>3, <2>2, <2>3 DEF ChangeInv, FirstChange
<1> QED BY <1>2, <1>3 DEF ChangeInv

LEMMA ReceiveKeepsUnder ==
  ASSUME TypeInv, NEW m \in messages, NEW n \in Node, n \in Receivers(m), Receive(n, m),
         NEW C, AtMostOne(C), Under(C)
  PROVE  Under(C)' /\ changes' = changes
<1>1. CASE ReceiveVote(n, m)
  BY <1>1, ReceiveVoteUnder DEF ReceiveVote, budget
<1>2. CASE HandleRequestVote(n, m)
  BY <1>2, HandleRequestVoteUnder DEF HandleRequestVote, budget
<1>3. CASE StaleAppendEntries(n, m)
  BY <1>3, StaleAppendEntriesUnder DEF StaleAppendEntries, budget
<1>4. CASE HandleAppendEntries(n, m)
  BY <1>4, HandleAppendEntriesUnder DEF HandleAppendEntries, budget
<1>5. CASE AppendEntriesInterrupted(n, m)
  BY <1>5, AppendEntriesInterruptedUnder DEF AppendEntriesInterrupted, GoDown
<1>6. CASE HandleResult(n, m)
  <2>1. n = m.dst
    BY <1>6 DEF HandleResult, Receivers
  <2> QED BY <1>6, <2>1, HandleResultUnder DEF HandleResult, budget
<1> QED BY <1>1, <1>2, <1>3, <1>4, <1>5, <1>6 DEF Receive

LEMMA StepKeepsUnder ==
  ASSUME TypeInv, VoteInv, NEW n \in Node, Step(n), NEW C, AtMostOne(C), Under(C)
  PROVE  Under(C)' /\ changes' = changes
<1>1. CASE StartElection(n)
  BY <1>1, StartElectionUnder DEF StartElection, budget
<1>2. CASE ElectionEnds(n)
  BY <1>2, ElectionEndsUnder DEF ElectionEnds, budget
<1>3. CASE HeartbeatTick(n)
  BY <1>3, HeartbeatTickUnder DEF HeartbeatTick
<1>4. CASE \E v \in Value : ClientRequest(n, v)
  BY <1>4, ClientRequestUnder DEF ClientRequest, budget
<1>5. CASE FinishBootstrap(n)
  BY <1>5, FinishBootstrapUnder DEF FinishBootstrap
<1>6. CASE BootstrapFails(n)
  BY <1>6, BootstrapFailsUnder DEF BootstrapFails, budget
<1>7. CASE Crash(n)
  BY <1>7, CrashUnder DEF Crash, GoDown
<1>8. CASE Start(n)
  BY <1>8, StartUnder DEF Start, budget, VoteInv
<1> QED BY <1>1, <1>2, <1>3, <1>4, <1>5, <1>6, <1>7, <1>8 DEF Step

LEMMA StutterUnder ==
  ASSUME UNCHANGED vars, NEW C, Under(C)
  PROVE  Under(C)' /\ changes' = changes
<1>1. /\ UNCHANGED <<mode, offer, st, peers, disk, known, messages, elected, changes>>
  BY DEF vars, process, progress, history, budget
<1>2. \A q \in Node : SameNode(q)
  BY <1>1 DEF SameNode
<1>3. \A q \in Node : NodeUnder(q, C)'
  BY <1>2, SameNodeUnder DEF Under
<1>4. Brings(C)
  BY <1>1, QuietBrings
<1> QED BY <1>1, <1>3, <1>4, UnderParts

LEMMA InitUnder ==
  Init => ChangeInv
<1> SUFFICES ASSUME Init PROVE ChangeInv
  OBVIOUS
<1>1. \A q \in Node : /\ peers[q] = Initial /\ disk[q] = Nil /\ offer[q] = Nil
                      /\ st[q] = FreshState /\ known[q] = {} /\ mode[q] = "down"
  BY DEF Init
<1>2. messages = {} /\ elected = {} /\ changes = 0
  BY DEF Init
<1>3. \A e : e = FreshState.log => Uses(e, {})
  BY FreshMember
<1>4. \A q \in Node : NodeUnder(q, {})
  BY <1>1, <1>3 DEF NodeUnder, Configs, OnDisk
<1>5. Under({})
  BY <1>2, <1>4 DEF Under
<1> QED BY <1>2, <1>5 DEF ChangeInv

(* Appends need one change left; with none or one to make, the first is    *)
(* also the last.                                                          *)
LEMMA NextKeepsChangeInv ==
  ASSUME MaxChanges <= 1
  PROVE  TypeInv /\ VoteInv /\ ChangeInv /\ [Next]_vars => ChangeInv'
<1> SUFFICES ASSUME TypeInv, VoteInv, ChangeInv, [Next]_vars
             PROVE  ChangeInv'
  OBVIOUS
<1>0. changes \in Nat /\ MaxChanges \in Nat
  BY TypeParts, MembershipAssumption DEF RoleTypes
<1>1. CASE \E n \in Node : Step(n)
  <2>1. PICK n \in Node : Step(n)
    BY <1>1
  <2>2. \A C : AtMostOne(C) /\ Under(C) => Under(C)' /\ changes' = changes
    BY <2>1, StepKeepsUnder
  <2>3. changes' = changes
    BY <2>2, NobodyOne DEF ChangeInv
  <2> QED BY <2>2, <2>3, ChangeInvKept
<1>2. CASE \E n, p \in Node : UpdatePeerClient(n, p)
  <2>1. PICK n, p \in Node : UpdatePeerClient(n, p)
    BY <1>2
  <2>2. changes' = changes
    BY <2>1 DEF UpdatePeerClient, budget
  <2> QED BY <2>1, <2>2, UpdatePeerClientUnder, ChangeInvKept
<1>3. CASE \E n, p \in Node : ApplyMembership(n, p)
  <2>1. PICK n, p \in Node : ApplyMembership(n, p)
    BY <1>3
  <2>2. CASE changes' = changes
    <3>1. \A C : AtMostOne(C) /\ Under(C) => Under(C)'
      BY <2>1, <2>2, ApplyMembershipUnder
    <3> QED BY <2>2, <3>1, ChangeInvKept
  <2>3. CASE changes' # changes
    <3>1. changes < MaxChanges /\ changes' = changes + 1
      BY <2>1, <2>3 DEF ApplyMembership, budget
    <3>2. changes = 0 /\ changes' > 0
      BY <1>0, <3>1
    <3>3. Under({})
      BY <3>2 DEF ChangeInv
    <3>4. \E c \in FirstChange : Under({c})'
      BY <2>1, <2>3, <3>3, ApplyMembershipUnder
    <3> QED BY <3>2, <3>4 DEF ChangeInv, FirstChange
  <2> QED BY <2>2, <2>3
<1>4. CASE \E n, p \in Node : RemoveMembership(n, p)
  <2>1. PICK n, p \in Node : RemoveMembership(n, p)
    BY <1>4
  <2>2. changes < MaxChanges /\ changes' = changes + 1
    BY <2>1 DEF RemoveMembership
  <2>3. changes = 0 /\ changes' > 0
    BY <1>0, <2>2
  <2>4. Under({})
    BY <2>3 DEF ChangeInv
  <2>5. \E c \in FirstChange : Under({c})'
    BY <2>1, <2>4, RemoveMembershipUnder
  <2> QED BY <2>3, <2>5 DEF ChangeInv, FirstChange
<1>5. CASE \E m \in messages : \E n \in Receivers(m) : Receive(n, m)
  <2>1. PICK m \in messages : \E n \in Receivers(m) : Receive(n, m)
    BY <1>5
  <2>2. PICK n \in Receivers(m) : Receive(n, m)
    BY <2>1
  <2>3. n \in Node
    BY <2>2, ReceiveKeepsVotes
  <2>4. \A C : AtMostOne(C) /\ Under(C) => Under(C)' /\ changes' = changes
    BY <2>2, <2>3, ReceiveKeepsUnder
  <2>5. changes' = changes
    BY <2>4, NobodyOne DEF ChangeInv
  <2> QED BY <2>4, <2>5, ChangeInvKept
<1>6. CASE UNCHANGED vars
  <2>1. changes' = changes
    BY <1>6 DEF vars, budget
  <2> QED BY <1>6, <2>1, StutterUnder, ChangeInvKept
<1> QED BY <1>1, <1>2, <1>3, <1>4, <1>5, <1>6 DEF Next

(* With at most one change, every node's configurations, in memory, on its *)
(* disk and on the way to it, are the one before and the one after it.     *)
THEOREM OneChangeInvariant ==
  ASSUME MaxChanges <= 1
  PROVE  Spec => [](TypeInv /\ VoteInv /\ ChangeInv)
<1>1. Init => TypeInv /\ VoteInv /\ ChangeInv
  BY InitTypes, InitUnder
<1>2. TypeInv /\ VoteInv /\ ChangeInv /\ [Next]_vars => (TypeInv /\ VoteInv /\ ChangeInv)'
  BY NextKeepsVotes, NextKeepsChangeInv
<1> QED BY <1>1, <1>2, PTL DEF Spec

(* Nobody forgets the change of another node that it has applied: it shows *)
(* in its peers and on its disk, through failed writes, crashes and        *)
(* replays (Fix 13).                                                       *)
THEOREM OneChangeIsKept ==
  ASSUME MaxChanges <= 1
  PROVE  Spec => []ChangesKept
<1>1. ASSUME NEW C, Under(C) PROVE ChangesKept
  <2> SUFFICES ASSUME NEW n \in Node, NEW e \in known[n], e.command.id # n
               PROVE  /\ disk[n] # Nil /\ Follows(disk[n].peers, e.command)
                      /\ mode[n] = "running" => Follows(peers[n], e.command)
    BY DEF ChangesKept
  <2>1. NodeUnder(n, C) /\ known[n] # {}
    BY <1>1 DEF Under
  <2>2. e.command \in C
    BY <2>1 DEF NodeUnder
  <2> QED BY <2>1, <2>2 DEF NodeUnder
<1>2. TypeInv /\ VoteInv /\ ChangeInv => ChangesKept
  BY <1>1 DEF ChangeInv
<1> QED BY <1>2, OneChangeInvariant, PTL

------------------------------------------------------------------------------
(* Quorums of configurations that one node tells apart.                    *)

LEMMA QuorumsMeet ==
  ASSUME NEW A, NEW B, IsFiniteSet(B), A \subseteq B,
         Cardinality(B) <= Cardinality(A) + 1,
         NEW V, NEW W, V \subseteq A, W \subseteq B,
         Cardinality(V) >= QuorumOf(A), Cardinality(W) >= QuorumOf(B)
  PROVE  V \cap W # {}
<1> SUFFICES ASSUME V \cap W = {}
             PROVE  FALSE
  OBVIOUS
<1>1. IsFiniteSet(A) /\ IsFiniteSet(V) /\ IsFiniteSet(W) /\ IsFiniteSet(V \cup W)
  BY FS_Subset, FS_Union
<1>2. /\ Cardinality(A) \in Nat /\ Cardinality(B) \in Nat
      /\ Cardinality(V) \in Nat /\ Cardinality(W) \in Nat
  BY <1>1, FS_CardinalityType
<1>3. Cardinality(V \cup W) = Cardinality(V) + Cardinality(W)
  <2>1. Cardinality(V \cup W) = Cardinality(V) + Cardinality(W) - Cardinality(V \cap W)
    BY <1>1, FS_Union
  <2>2. Cardinality(V \cap W) = 0
    BY FS_EmptySet
  <2> QED BY <1>2, <2>1, <2>2
<1>4. Cardinality(V \cup W) <= Cardinality(B)
  BY FS_Subset
<1>5. /\ Cardinality(V) >= Cardinality(A) \div 2 + 1
      /\ Cardinality(W) >= Cardinality(B) \div 2 + 1
  BY DEF QuorumOf
<1> QED BY <1>2, <1>3, <1>4, <1>5

LEMMA ChangeOfOne ==
  ASSUME NEW c \in FirstChange, NEW ps, ps = Changed(Initial, c)
  PROVE  /\ IsFiniteSet(ps) /\ IsFiniteSet(Initial)
         /\ \/ ps \subseteq Initial /\ Cardinality(Initial) <= Cardinality(ps) + 1
            \/ Initial \subseteq ps /\ Cardinality(ps) <= Cardinality(Initial) + 1
<1>1. IsFiniteSet(Initial)
  BY MembershipAssumption, NodeAssumption, FS_Subset
<1>2. Cardinality(Initial) \in Nat
  BY <1>1, FS_CardinalityType
<1>3. CASE c.op = "AddNode"
  <2>1. ps = Initial \cup {c.id}
    BY <1>3, FirstChangeFacts DEF Changed
  <2>2. IsFiniteSet(ps) /\ Cardinality(ps) <= Cardinality(Initial) + 1
    <3>1. PICK x : x = c.id
      OBVIOUS
    <3>2. /\ IsFiniteSet(Initial \cup {x})
          /\ Cardinality(Initial \cup {x}) =
               IF x \in Initial THEN Cardinality(Initial) ELSE Cardinality(Initial) + 1
      BY <1>1, FS_AddElement
    <3> QED BY <1>2, <2>1, <3>1, <3>2
  <2> QED BY <1>1, <2>1, <2>2
<1>4. CASE c.op # "AddNode"
  <2>1. ps = Initial \ {c.id}
    BY <1>4, FirstChangeFacts DEF Changed
  <2>2. IsFiniteSet(ps) /\ Cardinality(Initial) <= Cardinality(ps) + 1
    <3>1. PICK x : x = c.id
      OBVIOUS
    <3>2. /\ IsFiniteSet(Initial \ {x})
          /\ Cardinality(Initial \ {x}) =
               IF x \in Initial THEN Cardinality(Initial) - 1 ELSE Cardinality(Initial)
      BY <1>1, FS_RemoveElement
    <3> QED BY <1>2, <2>1, <3>1, <3>2
  <2> QED BY <1>1, <2>1, <2>2
<1> QED BY <1>3, <1>4

LEMMA VotersMembersElect ==
  ASSUME TypeInv, VoteInv, ChangeInv, VotersMembers
  PROVE  ElectionSafety
<1> SUFFICES ASSUME NEW e \in elected, NEW f \in elected, e.term = f.term
             PROVE  e.leader = f.leader
  BY DEF ElectionSafety
<1>1. /\ e.votes \subseteq e.members /\ f.votes \subseteq f.members
      /\ Cardinality(e.votes) >= QuorumOf(e.members)
      /\ Cardinality(f.votes) >= QuorumOf(f.members)
  BY DEF VotersMembers, VoteInv, LeadersBacked
<1>2. IsFiniteSet(Initial) /\ Cardinality(Initial) \in Nat
  BY MembershipAssumption, NodeAssumption, FS_Subset, FS_CardinalityType
<1>3. e.votes \cap f.votes # {}
  <2>1. CASE Under({})
    <3>1. e.members = Initial /\ f.members = Initial
      BY <2>1 DEF Under, Configs
    <3> QED BY <1>1, <1>2, <3>1, QuorumsMeet
  <2>2. CASE \E c \in FirstChange : Under({c})
    <3>1. PICK c \in FirstChange : Under({c})
      BY <2>2
    <3>2. PICK ps : ps = Changed(Initial, c)
      OBVIOUS
    <3>3. e.members \in {Initial, ps} /\ f.members \in {Initial, ps}
      BY <3>1, <3>2 DEF Under, Configs
    <3>4. /\ IsFiniteSet(ps) /\ Cardinality(ps) \in Nat
          /\ \/ ps \subseteq Initial /\ Cardinality(Initial) <= Cardinality(ps) + 1
             \/ Initial \subseteq ps /\ Cardinality(ps) <= Cardinality(Initial) + 1
      BY <3>2, ChangeOfOne, FS_CardinalityType
    <3>5. CASE e.members = f.members
      BY <1>1, <1>2, <3>3, <3>4, <3>5, QuorumsMeet
    <3>6. CASE e.members # f.members
      BY <1>1, <1>2, <3>3, <3>4, <3>6, QuorumsMeet
    <3> QED BY <3>5, <3>6
  <2> QED BY <2>1, <2>2 DEF ChangeInv
<1> QED
  <2>1. PICK q \in e.votes \cap f.votes : TRUE
    BY <1>3
  <2>2. <<q, e.term, e.leader>> \in Votes /\ <<q, e.term, f.leader>> \in Votes
    BY <2>1 DEF VoteInv, LeadersBacked
  <2> QED BY <2>2 DEF VoteInv, OneVote

(* With at most one change, an addition or a removal, two leaders of a     *)
(* term need a vote from outside the configuration that counted it: every  *)
(* quorum of the one before meets every quorum of the one after.           *)
THEOREM OneChangeElects ==
  ASSUME MaxChanges <= 1
  PROVE  Spec => [](VotersMembers => ElectionSafety)
<1>1. TypeInv /\ VoteInv /\ ChangeInv => (VotersMembers => ElectionSafety)
  BY VotersMembersElect
<1> QED BY <1>1, OneChangeInvariant, PTL

------------------------------------------------------------------------------
(* Where members are only added, peers only grow.                          *)

OnlyAdds(C) == \A c \in C : c.op = "AddNode"

LEMMA AdditionGrows ==
  ASSUME NEW C, AtMostOne(C), OnlyAdds(C), NEW ps, NEW qs,
         qs = ps \/ \E c \in C : qs = Changed(ps, c)
  PROVE  ps \subseteq qs
<1>1. ASSUME NEW c \in C
      PROVE  ps \subseteq Changed(ps, c)
  BY DEF OnlyAdds, Changed
<1> QED BY <1>1

LEMMA AdditionsUnder ==
  ASSUME ChangeInv, Leaver = {}
  PROVE  \E C : AtMostOne(C) /\ OnlyAdds(C) /\ Under(C)
<1>1. CASE Under({})
  <2>1. AtMostOne({}) /\ OnlyAdds({})
    BY DEF AtMostOne, OnlyAdds
  <2> QED BY <1>1, <2>1
<1>2. CASE \E c \in FirstChange : Under({c})
  <2>1. PICK c \in FirstChange : Under({c})
    BY <1>2
  <2>2. c.op = "AddNode"
    BY DEF FirstChange, AddNode
  <2>3. AtMostOne({c}) /\ OnlyAdds({c})
    BY <2>2 DEF AtMostOne, OnlyAdds
  <2> QED BY <2>1, <2>3
<1> QED BY <1>1, <1>2 DEF ChangeInv

LEMMA InitialStays ==
  ASSUME ChangeInv, Leaver = {}, NEW n \in Node
  PROVE  /\ Initial \subseteq peers[n]
         /\ offer[n] # Nil => Initial \subseteq offer[n]
         /\ disk[n] # Nil => Initial \subseteq disk[n].peers
<1>1. PICK C : AtMostOne(C) /\ OnlyAdds(C) /\ Under(C)
  BY AdditionsUnder
<1>2. \A ps \in Configs(C) : Initial \subseteq ps
  BY <1>1, ConfigsFacts, AdditionGrows
<1> QED BY <1>1, <1>2 DEF Under, NodeUnder

LEMMA ApplyCommittedGrows ==
  ASSUME TypeInv, NEW C, AtMostOne(C), OnlyAdds(C), NEW n \in Node,
         NEW s \in MemberState, Uses(s.log, C), NEW commit \in Nat, NEW written \in BOOLEAN,
         ApplyCommitted(n, s, commit, written)
  PROVE  peers[n] \subseteq peers'[n]
<1>1. PICK r : r = Outcome(n, s, commit, written)
  OBVIOUS
<1>2. PICK due : due = DueOf(n, s, commit)
  OBVIOUS
<1>3. r.peers = peers[n] \/ \E c \in C : r.peers = Changed(peers[n], c)
  BY <1>1, <1>2, OutcomeUnder
<1>4. peers' = [peers EXCEPT ![n] = r.peers] /\ DOMAIN peers = Node
  BY <1>1, ApplyCommittedIs, TypeParts DEF StateTypes
<1> QED BY <1>3, <1>4, AdditionGrows

LEMMA SaveGrows ==
  ASSUME TypeInv, NEW n \in Node,
         \/ \E s : Save(n, s, peers[n])
         \/ UNCHANGED peers
  PROVE  peers[n] \subseteq peers'[n]
BY TypeParts DEF Save, StateTypes

LEMMA AdvanceCommitGrows ==
  ASSUME TypeInv, NEW C, AtMostOne(C), OnlyAdds(C), NEW n \in Node,
         NEW s \in MemberState, Uses(s.log, C), NEW match, NEW written \in BOOLEAN,
         AdvanceCommit(n, s, match, written)
  PROVE  peers[n] \subseteq peers'[n]
<1>1. CASE \/ Save(n, s, peers[n])
           \/ UNCHANGED <<disk, st, peers>>
  BY <1>1, SaveGrows
<1>2. CASE \E i \in CommittableIn(s, match, commitIndex[n]) : ApplyCommitted(n, s, i, written)
  <2>1. PICK i \in CommittableIn(s, match, commitIndex[n]) : ApplyCommitted(n, s, i, written)
    BY <1>2
  <2>2. i \in Nat
    BY TypeParts, MemberFields DEF CommittableIn
  <2> QED BY <2>1, <2>2, ApplyCommittedGrows
<1> QED BY <1>1, <1>2 DEF AdvanceCommit

------------------------------------------------------------------------------
(* Who is asked.                                                           *)

(* The messages of a step that asks for no vote and answers what asked.    *)
Answers ==
  \E ms : /\ messages' = messages \cup ms
          /\ \A m \in ms : m.type # "RequestVote"
          /\ \A r \in ms : r.type = "RequestVoteReply" => \E m \in messages : AsksFor(m, r)

LEMMA NoVoteAnswers ==
  ASSUME NEW ms, NoVoteIn(ms), messages' = messages \cup ms
  PROVE  Answers
BY DEF Answers, NoVoteIn

LEMMA QuietAnswers ==
  ASSUME messages' = messages
  PROVE  Answers
<1>1. messages' = messages \cup {} /\ NoVoteIn({})
  BY DEF NoVoteIn
<1> QED BY <1>1, NoVoteAnswers

LEMMA OthersAsked ==
  ASSUME TypeInv, MembersAsked, NEW n \in Node, VoteStep(n),
         OnlyAt(mode, mode', n), OnlyAt(clients, clients', n),
         OnlyAt(connecting, connecting', n), OnlyAt(ballot, ballot', n),
         \A m \in messages' : m.type = "RequestVote" /\ m \notin messages => m.src = n,
         NEW q \in Node \ {n}
  PROVE  LinksMembers(q)' /\ AskedMembers(q)'
<1>1. /\ st'[q] = st[q] /\ peers'[q] = peers[q]
  <2>1. PICK s \in MemberState, ps \in SUBSET Node : Stores(n, s, ps)
    BY DEF VoteStep
  <2> QED BY <2>1, TypeParts DEF Stores, StateTypes
<1>2. /\ mode'[q] = mode[q] /\ clients'[q] = clients[q]
      /\ connecting'[q] = connecting[q] /\ ballot'[q] = ballot[q]
  BY TypeParts DEF OnlyAt, ProcessTypes, LinkTypes, RoleTypes
<1>3. LinksMembers(q) /\ AskedMembers(q)
  BY DEF MembersAsked
<1>4. \A m \in AskedInTerm(q)' : m \in AskedInTerm(q)
  BY <1>1 DEF AskedInTerm
<1> QED BY <1>1, <1>2, <1>3, <1>4 DEF LinksMembers, AskedMembers

LEMMA AnswersAsked ==
  ASSUME RepliesAsked, NEW ms, messages' = messages \cup ms,
         \A r \in ms : r.type = "RequestVoteReply" => \E m \in messages : AsksFor(m, r)
  PROVE  RepliesAsked'
<1> SUFFICES ASSUME NEW r \in messages', r.type = "RequestVoteReply"
             PROVE  \E m \in messages' : AsksFor(m, r)
  BY DEF RepliesAsked, AsksFor
<1>1. \E m \in messages : AsksFor(m, r)
  BY DEF RepliesAsked
<1> QED BY <1>1

(* A step of a node whose ballot is closed after it.                       *)
LEMMA ClosedAsked ==
  ASSUME TypeInv, MembersAsked, NEW n \in Node, VoteStep(n), ~ballot'[n].open,
         OnlyAt(mode, mode', n), OnlyAt(clients, clients', n),
         OnlyAt(connecting, connecting', n), OnlyAt(ballot, ballot', n),
         LinksMembers(n)', Answers,
         \A e \in elected' \ elected : e.votes \subseteq e.members
  PROVE  MembersAsked'
<1>1. PICK ms : /\ messages' = messages \cup ms
                /\ \A m \in ms : m.type # "RequestVote"
                /\ \A r \in ms : r.type = "RequestVoteReply" =>
                                   \E m \in messages : AsksFor(m, r)
  BY DEF Answers
<1>2. RepliesAsked'
  BY <1>1, AnswersAsked DEF MembersAsked
<1>3. \A m \in messages' : m.type = "RequestVote" /\ m \notin messages => m.src = n
  BY <1>1
<1>4. AskedMembers(n)'
  BY DEF AskedMembers
<1>5. \A q \in Node : LinksMembers(q)' /\ AskedMembers(q)'
  BY <1>3, <1>4, OthersAsked
<1>6. VotersMembers'
  BY DEF MembersAsked, VotersMembers
<1> QED BY <1>2, <1>5, <1>6 DEF MembersAsked

(* The clients of n go on, or are of its new peers.                        *)
LinksGrow(n) ==
  /\ OnlyAt(clients, clients', n) /\ OnlyAt(connecting, connecting', n)
  /\ clients'[n] \cup connecting'[n] \subseteq clients[n] \cup connecting[n] \cup peers'[n]

(* A handler of a running node that is not in an election.                 *)
LEMMA HandlerAsked ==
  ASSUME TypeInv, MembersAsked, NEW n \in Node, VoteStep(n), Ready(n), mode' = mode,
         ballot' = ballot, elected' = elected, peers[n] \subseteq peers'[n],
         LinksGrow(n), Answers
  PROVE  MembersAsked'
<1>1. LinksMembers(n) /\ mode[n] = "running" /\ ~ballot[n].open
  BY DEF MembersAsked, Ready
<1>2. LinksMembers(n)'
  BY <1>1 DEF LinksMembers, LinksGrow
<1>3. /\ OnlyAt(mode, mode', n) /\ OnlyAt(ballot, ballot', n)
      /\ OnlyAt(clients, clients', n) /\ OnlyAt(connecting, connecting', n)
  BY DEF OnlyAt, LinksGrow
<1>4. \A e \in elected' \ elected : e.votes \subseteq e.members
  OBVIOUS
<1> QED BY <1>1, <1>2, <1>3, <1>4, ClosedAsked

LEMMA SameLinks ==
  ASSUME NEW n \in Node, UNCHANGED links
  PROVE  LinksGrow(n)
BY DEF links, LinksGrow, OnlyAt

LEMMA BeatsLinks ==
  ASSUME TypeInv, NEW n \in Node, NEW s \in MemberState, NEW ps \in SUBSET Node,
         NEW next, Positive(next), SendHeartbeats(n, s, ps, next),
         OnlyAt(clients, clients', n), clients'[n] \subseteq clients[n] \cup peers'[n],
         ps \subseteq peers'[n]
  PROVE  Answers /\ LinksGrow(n)
<1>1. /\ messages' = messages \cup Heartbeats(n, s, ps, next)
      /\ connecting' = [connecting EXCEPT ![n] = @ \cup (ps \ (clients'[n] \cup {n}))]
  BY DEF SendHeartbeats, Send
<1>2. NoVoteIn(Heartbeats(n, s, ps, next))
  BY TypeParts, BeatsNoVote
<1>3. Answers
  BY <1>1, <1>2, NoVoteAnswers
<1>4. OnlyAt(connecting, connecting', n) /\ connecting'[n] \subseteq connecting[n] \cup ps
  BY <1>1, TypeParts DEF OnlyAt, LinkTypes
<1> QED BY <1>3, <1>4 DEF LinksGrow

------------------------------------------------------------------------------
(* Handlers.                                                               *)

LEMMA HandleRequestVoteAsked ==
  ASSUME TypeInv, MembersAsked, NEW n \in Node, NEW m \in messages, n \in Receivers(m),
         HandleRequestVote(n, m)
  PROVE  MembersAsked'
<1>1. TypeInv /\ VoteStep(n) /\ Ready(n) /\ m.type = "RequestVote" /\ n \in m.asked
  BY HandleRequestVoteStep DEF HandleRequestVote, Receivers
<1>2. mode' = mode /\ ballot' = ballot /\ elected' = elected /\ UNCHANGED links
  BY DEF HandleRequestVote, process, history
<1>3. peers[n] \subseteq peers'[n]
  BY SaveGrows DEF HandleRequestVote
<1>4. PICK r \in messages' :
        /\ r.type = "RequestVoteReply" /\ r.src = n /\ r.dst = m.src /\ r.forTerm = m.term
        /\ messages' = messages \cup {r}
  BY VoterStateIs
<1>5. AsksFor(m, r)
  BY <1>1, <1>4 DEF AsksFor
<1>6. Answers
  <2>1. PICK ms : ms = {r}
    OBVIOUS
  <2> QED BY <1>4, <1>5, <2>1 DEF Answers
<1> QED BY <1>1, <1>2, <1>3, <1>6, SameLinks, HandlerAsked

LEMMA HeartbeatTickAsked ==
  ASSUME TypeInv, MembersAsked, NEW n \in Node, HeartbeatTick(n)
  PROVE  MembersAsked'
<1>1. VoteStep(n) /\ Ready(n) /\ mode' = mode /\ ballot' = ballot /\ elected' = elected
  BY HeartbeatTickStep DEF HeartbeatTick, process, history
<1>2. /\ clients' = clients /\ peers' = peers
      /\ SendHeartbeats(n, st[n], peers[n], nextIndex[n])
  BY DEF HeartbeatTick
<1>3. Answers /\ LinksGrow(n)
  BY <1>2, TypeParts, BeatsLinks DEF OnlyAt
<1> QED BY <1>1, <1>2, <1>3, HandlerAsked

LEMMA ClientRequestAsked ==
  ASSUME TypeInv, MembersAsked, NEW C, AtMostOne(C), OnlyAdds(C), Under(C),
         NEW n \in Node, NEW v \in Value, ClientRequest(n, v)
  PROVE  MembersAsked'
<1>1. VoteStep(n) /\ Ready(n) /\ mode' = mode /\ ballot' = ballot /\ elected' = elected
  BY ClientRequestStep DEF ClientRequest, process
<1>2. /\ st[n] \in MemberState /\ peers[n] \in SUBSET Node
      /\ Positive(nextIndex[n]) /\ Uses(st[n].log, C)
  BY TypeParts DEF Under, NodeUnder
<1>3. PICK s : s = PushEntry(st[n], v)
  OBVIOUS
<1>4. v \in Command \cup Change /\ v \notin Change
  BY ChangeAssumption DEF Command
<1>5. s \in MemberState /\ Uses(s.log, C)
  BY <1>2, <1>3, <1>4, PushEntryMember
<1>6. /\ SendHeartbeats(n, s, peers[n], nextIndex[n])
      /\ AdvanceCommit(n, s, matchIndex[n], TRUE)
      /\ clients' = clients
  BY <1>3 DEF ClientRequest
<1>7. peers[n] \subseteq peers'[n]
  BY <1>5, <1>6, AdvanceCommitGrows
<1>8. Answers /\ LinksGrow(n)
  BY <1>2, <1>5, <1>6, <1>7, BeatsLinks DEF OnlyAt
<1> QED BY <1>1, <1>7, <1>8, HandlerAsked

LEMMA ResultAnswers ==
  ASSUME NEW m, MessageOK(m), m.type = "AppendEntries", NEW t \in Nat,
         NEW success \in BOOLEAN, NEW i \in Nat, Send({Result(m, t, success, i)})
  PROVE  Answers
<1>1. PICK ms : Sends(ms) /\ NoVoteIn(ms) /\ messages' = messages \cup ms
  BY OneResult
<1> QED BY <1>1, NoVoteAnswers

LEMMA StaleAppendEntriesAsked ==
  ASSUME TypeInv, MembersAsked, NEW n \in Node, NEW m \in messages, StaleAppendEntries(n, m)
  PROVE  MembersAsked'
<1>1. VoteStep(n) /\ Ready(n) /\ mode' = mode /\ ballot' = ballot /\ elected' = elected
  BY StaleAppendEntriesStep DEF StaleAppendEntries, process, history
<1>2. peers' = peers /\ UNCHANGED links
  BY DEF StaleAppendEntries
<1>3. /\ MessageOK(m) /\ m.type = "AppendEntries" /\ st[n].currentTerm \in Nat
      /\ Send({Result(m, st[n].currentTerm, FALSE, 0)})
  BY TypeParts, MemberFields DEF StaleAppendEntries
<1>4. Answers
  BY <1>3, ResultAnswers
<1> QED BY <1>1, <1>2, <1>4, SameLinks, HandlerAsked

LEMMA HandleAppendEntriesAsked ==
  ASSUME TypeInv, MembersAsked, NEW C, AtMostOne(C), OnlyAdds(C), Under(C),
         NEW n \in Node, NEW m \in messages, HandleAppendEntries(n, m)
  PROVE  MembersAsked'
<1>1. VoteStep(n) /\ Ready(n) /\ mode' = mode /\ ballot' = ballot /\ elected' = elected
  BY HandleAppendEntriesStep DEF HandleAppendEntries, process, history
<1>2. /\ MessageOK(m) /\ m.type = "AppendEntries" /\ st[n] \in MemberState
      /\ Uses(st[n].log, C) /\ Uses(m.entries, C)
  BY TypeParts DEF HandleAppendEntries, Under, NodeUnder
<1>3. /\ m.term \in Nat /\ m.prevIndex \in Nat /\ m.entries \in Seq(EntryType)
      /\ m.leaderCommit \in Nat
  BY <1>2, MessageFields
<1>4. PICK s : s = Merged(n, m)
  OBVIOUS
<1>5. /\ s \in MemberState /\ Uses(s.log, C) /\ s.currentTerm \in Nat
      /\ LastLogIndex(s) \in Nat
  BY <1>2, <1>3, <1>4, MergedMember, MemberFields
<1>6. PICK consistent \in BOOLEAN :
        consistent = AppendConsistent(st[n], m.prevIndex, m.prevTerm)
  BY DEF AppendConsistent
<1>7. Answers
  <2>1. m.prevIndex + Len(m.entries) \in Nat
    BY <1>3, LenProperties
  <2>2. Send({Result(m, s.currentTerm, consistent, m.prevIndex + Len(m.entries))})
    BY <1>4, <1>6 DEF HandleAppendEntries
  <2> QED BY <1>2, <1>5, <2>1, <2>2, ResultAnswers
<1>8. peers[n] \subseteq peers'[n]
  <2>1. CASE ApplyCommitted(n, s, Smaller(m.leaderCommit, LastLogIndex(s)), TRUE)
    <3>1. PICK commit : commit = Smaller(m.leaderCommit, LastLogIndex(s))
      OBVIOUS
    <3>2. commit \in Nat /\ ApplyCommitted(n, s, commit, TRUE)
      BY <1>3, <1>5, <2>1, <3>1, SmallerIs
    <3> QED BY <1>5, <3>2, ApplyCommittedGrows
  <2>2. CASE Save(n, s, peers[n])
    BY <2>2, SaveGrows
  <2> QED BY <1>4, <2>1, <2>2 DEF HandleAppendEntries
<1>9. UNCHANGED links
  BY DEF HandleAppendEntries
<1> QED BY <1>1, <1>7, <1>8, <1>9, SameLinks, HandlerAsked

LEMMA HandleResultAsked ==
  ASSUME TypeInv, MembersAsked, NEW C, AtMostOne(C), OnlyAdds(C), Under(C),
         NEW n \in Node, NEW m \in messages, n = m.dst, HandleResult(n, m)
  PROVE  MembersAsked'
<1>1. VoteStep(n) /\ Ready(n) /\ mode' = mode /\ ballot' = ballot /\ elected' = elected
  BY HandleResultStep DEF HandleResult, process
<1>2. UNCHANGED links /\ messages' = messages
  BY DEF HandleResult
<1>3. st[n] \in MemberState /\ Uses(st[n].log, C)
  BY TypeParts DEF Under, NodeUnder
<1>4. peers[n] \subseteq peers'[n]
  <2>1. CASE Save(n, UpdateTerm(st[n], m.term), peers[n]) \/ UNCHANGED <<disk, st, peers>>
    BY <2>1, SaveGrows
  <2>2. CASE \E match : AdvanceCommit(n, st[n], match, FALSE)
    BY <1>3, <2>2, AdvanceCommitGrows
  <2> QED BY <2>1, <2>2 DEF HandleResult
<1> QED BY <1>1, <1>2, <1>4, SameLinks, QuietAnswers, HandlerAsked

LEMMA UpdatePeerClientAsked ==
  ASSUME TypeInv, MembersAsked, NEW n \in Node, NEW p \in Node, UpdatePeerClient(n, p)
  PROVE  MembersAsked'
<1>1. VoteStep(n) /\ Ready(n) /\ mode' = mode /\ ballot' = ballot /\ elected' = elected
  BY UpdatePeerClientStep DEF UpdatePeerClient, process, history
<1>2. peers' = peers /\ messages' = messages
  BY DEF UpdatePeerClient
<1>3. LinksGrow(n)
  BY TypeParts DEF UpdatePeerClient, LinksGrow, OnlyAt, LinkTypes
<1> QED BY <1>1, <1>2, <1>3, QuietAnswers, HandlerAsked

LEMMA ApplyMembershipAsked ==
  ASSUME TypeInv, MembersAsked, NEW n \in Node, NEW p \in Node, ApplyMembership(n, p)
  PROVE  MembersAsked'
<1>1. VoteStep(n) /\ Ready(n) /\ mode' = mode /\ ballot' = ballot /\ elected' = elected
  BY ApplyMembershipStep DEF ApplyMembership, history
<1>2. /\ LeadershipTypes /\ LinkTypes /\ DOMAIN peers = Node /\ DOMAIN st = Node
      /\ st[n] \in MemberState /\ peers[n] \in SUBSET Node
      /\ MapsOK(n, matchIndex[n], nextIndex[n])
  BY TypeParts DEF StateTypes
<1>3. PICK s : s = PushEntry(st[n], AddNode(p))
  OBVIOUS
<1>4. PICK ps : ps = peers[n] \cup {p}
  OBVIOUS
<1>5. CASE UNCHANGED <<peers, links, messages>>
  BY <1>1, <1>5, SameLinks, QuietAnswers, HandlerAsked
<1>6. CASE /\ Save(n, s, ps)
           /\ nextIndex' = [nextIndex EXCEPT ![n] = With(@, p, LastLogIndex(st[n]) + 1)]
           /\ \E connects \in BOOLEAN :
                clients' = IF connects THEN [clients EXCEPT ![n] = @ \cup {p}] ELSE clients
           /\ SendHeartbeats(n, s, ps, nextIndex'[n])
  <2>1. p # n
    BY DEF ApplyMembership, Ready
  <2>2. peers'[n] = ps /\ ps \in SUBSET Node
    BY <1>2, <1>4, <1>6 DEF Save
  <2>3. OnlyAt(clients, clients', n) /\ clients'[n] \subseteq clients[n] \cup ps
    <3>1. CASE clients' = clients
      BY <3>1 DEF OnlyAt
    <3>2. CASE clients' = [clients EXCEPT ![n] = @ \cup {p}]
      <4>1. PICK x : x = clients[n] \cup {p}
        OBVIOUS
      <4>2. clients' = [clients EXCEPT ![n] = x]
        BY <3>2, <4>1
      <4>3. clients'[n] = x
        BY <1>2, <4>2 DEF LinkTypes
      <4> QED BY <1>4, <4>1, <4>2, <4>3 DEF OnlyAt
    <3> QED BY <1>6, <3>1, <3>2
  <2>4. AddNode(p) \in Change
    BY ChangeType
  <2>5. s \in MemberState
    BY <1>2, <1>3, <2>4, PushEntryMember
  <2>6. PICK i : i = LastLogIndex(st[n]) + 1
    OBVIOUS
  <2>7. i \in Nat \ {0}
    BY <1>2, <2>6, MemberFields
  <2>8. PICK next : next = With(nextIndex[n], p, i)
    OBVIOUS
  <2>9. MapsOK(n, matchIndex[n], next)
    BY <1>2, <2>1, <2>7, <2>8, WithNext
  <2>10. Positive(next) /\ nextIndex'[n] = next
    BY <1>2, <1>6, <2>6, <2>8, <2>9 DEF MapsOK, Positive, LeadershipTypes
  <2>11. SendHeartbeats(n, s, ps, next)
    BY <1>6, <2>10
  <2>12. Answers /\ LinksGrow(n)
    BY <2>2, <2>3, <2>5, <2>10, <2>11, BeatsLinks
  <2>13. peers[n] \subseteq peers'[n]
    BY <1>4, <2>2
  <2> QED BY <1>1, <2>12, <2>13, HandlerAsked
<1> QED BY <1>3, <1>4, <1>5, <1>6 DEF ApplyMembership, SaveFails

------------------------------------------------------------------------------
(* Processes.                                                              *)

(* A step that starts or ends a process, or an election.                   *)
LEMMA ProcessAsked ==
  ASSUME TypeInv, MembersAsked, NEW n \in Node, VoteStep(n), ~ballot'[n].open,
         OnlyAt(mode, mode', n), OnlyAt(clients, clients', n),
         OnlyAt(connecting, connecting', n), OnlyAt(ballot, ballot', n),
         LinksMembers(n)', messages' = messages, elected' = elected
  PROVE  MembersAsked'
<1>1. \A e \in elected' \ elected : e.votes \subseteq e.members
  OBVIOUS
<1> QED BY <1>1, QuietAnswers, ClosedAsked

LEMMA ElectionEndsAsked ==
  ASSUME TypeInv, MembersAsked, NEW n \in Node, ElectionEnds(n)
  PROVE  MembersAsked'
<1>1. VoteStep(n) /\ ~ballot'[n].open
  BY ElectionEndsStep, TypeParts DEF ElectionEnds, RoleTypes, Closed
<1>2. /\ UNCHANGED <<mode, clients, connecting, peers, messages, elected>>
      /\ OnlyAt(ballot, ballot', n)
  BY DEF ElectionEnds, process, links, history, OnlyAt
<1>3. LinksMembers(n)'
  BY <1>2 DEF LinksMembers, MembersAsked
<1> QED BY <1>1, <1>2, <1>3, ProcessAsked DEF OnlyAt

LEMMA BootstrapAsked ==
  ASSUME TypeInv, VoteInv, ChangeInv, Leaver = {}, MembersAsked, NEW n \in Node,
         FinishBootstrap(n) \/ BootstrapFails(n)
  PROVE  MembersAsked'
<1>1. VoteStep(n)
  BY FinishBootstrapStep, BootstrapFailsStep
<1>2. /\ mode[n] = "joining" /\ ballot' = ballot /\ ~ballot[n].open
      /\ UNCHANGED <<clients, connecting, messages, elected>>
  BY DEF FinishBootstrap, BootstrapFails, links, history, VoteInv, BallotsBacked
<1>3. DOMAIN mode = Node /\ DOMAIN peers = Node
  BY TypeParts DEF ProcessTypes, StateTypes
<1>4. /\ OnlyAt(mode, mode', n)
      /\ mode'[n] = "running" => offer[n] # Nil /\ peers'[n] = offer[n]
  BY <1>3 DEF FinishBootstrap, BootstrapFails, OnlyAt, Save
<1>5. clients[n] \cup connecting[n] \subseteq Initial
  BY <1>2 DEF MembersAsked, LinksMembers
<1>6. mode'[n] = "running" => Initial \subseteq peers'[n]
  BY <1>4, InitialStays
<1>7. LinksMembers(n)'
  BY <1>2, <1>5, <1>6 DEF LinksMembers
<1> QED BY <1>1, <1>2, <1>4, <1>7, ProcessAsked DEF OnlyAt

LEMMA DownAsked ==
  ASSUME TypeInv, MembersAsked, NEW n \in Node, VoteStep(n), GoDown(n), messages' = messages
  PROVE  MembersAsked'
<1>1. /\ clients'[n] = {} /\ connecting'[n] = {} /\ ~ballot'[n].open
      /\ elected' = elected
  BY TypeParts DEF GoDown, LinkTypes, RoleTypes, Closed, history
<1>2. /\ OnlyAt(mode, mode', n) /\ OnlyAt(ballot, ballot', n)
      /\ OnlyAt(clients, clients', n) /\ OnlyAt(connecting, connecting', n)
  BY DEF GoDown, OnlyAt
<1>3. LinksMembers(n)'
  BY <1>1 DEF LinksMembers
<1> QED BY <1>1, <1>2, <1>3, ProcessAsked

LEMMA StartAsked ==
  ASSUME TypeInv, VoteInv, ChangeInv, Leaver = {}, MembersAsked, NEW n \in Node, Start(n)
  PROVE  MembersAsked'
<1>1. VoteStep(n)
  BY StartStep DEF VoteInv
<1>2. /\ mode[n] = "down" /\ ballot' = ballot /\ ~ballot[n].open
      /\ UNCHANGED <<connecting, messages, elected>>
      /\ clients' = [clients EXCEPT ![n] = Initial \ {n}]
      /\ peers' = [peers EXCEPT ![n] = RestoredPeers(disk[n])]
  BY DEF Start, links, history, VoteInv, BallotsBacked
<1>3. /\ OnlyAt(mode, mode', n) /\ OnlyAt(clients, clients', n)
  BY DEF Start, OnlyAt
<1>4. clients'[n] \subseteq Initial /\ connecting'[n] \subseteq Initial
  BY <1>2, TypeParts DEF LinkTypes, MembersAsked, LinksMembers
<1>5. Initial \subseteq peers'[n]
  BY <1>2, InitialStays, TypeParts DEF RestoredPeers, StateTypes
<1>6. LinksMembers(n)'
  BY <1>4, <1>5 DEF LinksMembers
<1> QED BY <1>1, <1>2, <1>3, <1>6, ProcessAsked DEF OnlyAt

------------------------------------------------------------------------------
(* Elections.                                                              *)

LEMMA VotersAsked ==
  ASSUME VoteInv, MembersAsked, NEW n \in Node, ballot[n].open
  PROVE  /\ ballot[n].granted \subseteq peers[n] \cup {n}
         /\ \A r \in messages :
              r.type = "RequestVoteReply" /\ r.dst = n /\ r.forTerm = st[n].currentTerm
                => r.src \in peers[n]
<1>1. ASSUME NEW r \in messages, r.type = "RequestVoteReply", r.dst = n,
             r.forTerm = st[n].currentTerm
      PROVE  r.src \in peers[n]
  <2>1. PICK m \in messages : AsksFor(m, r)
    BY <1>1 DEF MembersAsked, RepliesAsked
  <2>2. m \in AskedInTerm(n) /\ r.src \in m.asked
    BY <1>1, <2>1 DEF AsksFor, AskedInTerm
  <2> QED BY <2>2 DEF MembersAsked, AskedMembers
<1>2. ASSUME NEW q \in ballot[n].granted
      PROVE  q \in peers[n] \cup {n}
  <2>1. <<q, st[n].currentTerm, n>> \in Votes
    BY DEF VoteInv, BallotsBacked
  <2>2. CASE \E r \in messages : /\ r.type = "RequestVoteReply" /\ r.src = q
                                 /\ r.forTerm = st[n].currentTerm /\ r.dst = n
    BY <1>1, <2>2
  <2>3. CASE q = n
    BY <2>3
  <2> QED BY <2>1, <2>2, <2>3 DEF Votes, VotesIn
<1> QED BY <1>1, <1>2

LEMMA BecomeLeaderAsked ==
  ASSUME TypeInv, NEW n \in Node, NEW s \in MemberState, NEW granted, NEW requests,
         \A m \in requests : MessageOK(m),
         clients' \in [Node -> SUBSET Node], \A q \in Node : q \notin clients'[q],
         BecomeLeader(n, s, granted, requests)
  PROVE  /\ \E ms : /\ messages' = messages \cup (requests \cup ms)
                    /\ \A m \in ms : m.type = "AppendEntries"
         /\ OnlyAt(connecting, connecting', n)
         /\ connecting'[n] \subseteq connecting[n] \cup peers[n]
         /\ granted \subseteq peers[n] \cup {n} =>
              \A e \in elected' \ elected : e.votes \subseteq e.members
<1>1. LeaderSends(s, requests)
  BY TypeParts, BecomeLeaderTypes
<1>2. \E ms : /\ messages' = messages \cup (requests \cup ms)
              /\ \A m \in ms : m.type = "AppendEntries"
  BY <1>1 DEF LeaderSends, Sends
<1>3. connecting' = [connecting EXCEPT ![n] = @ \cup ((peers[n] \ {n}) \ clients'[n])]
  BY DEF BecomeLeader
<1>4. OnlyAt(connecting, connecting', n) /\ connecting'[n] \subseteq connecting[n] \cup peers[n]
  BY <1>3, TypeParts DEF OnlyAt, LinkTypes
<1>5. \A e \in elected' \ elected : e.votes = granted /\ e.members = peers[n] \cup {n}
  BY DEF BecomeLeader, Members
<1> QED BY <1>2, <1>4, <1>5

LEMMA ReceiveVoteAsked ==
  ASSUME TypeInv, VoteInv, MembersAsked, NEW n \in Node, NEW m \in messages, n \in Receivers(m),
         ReceiveVote(n, m)
  PROVE  MembersAsked'
<1>1. /\ VoteStep(n) /\ mode[n] = "running" /\ ballot[n].open /\ n = m.dst
      /\ m.type = "RequestVoteReply" /\ m.forTerm = st[n].currentTerm
  BY ReceiveVoteStep DEF ReceiveVote, Receivers
<1>2. /\ mode' = mode /\ clients' = clients
      /\ LinkTypes /\ RoleTypes /\ StateTypes /\ st[n] \in MemberState
  BY TypeParts DEF ReceiveVote, process
<1>3. ballot[n].granted \cup {m.src} \subseteq peers[n] \cup {n}
  BY <1>1, VotersAsked
<1>4. OnlyAt(ballot, ballot', n) /\ OnlyAt(mode, mode', n) /\ OnlyAt(clients, clients', n)
  BY <1>2 DEF ReceiveVote, OnlyAt
<1>5. CASE /\ Save(n, UpdateTerm(st[n], m.term), peers[n])
           /\ ballot' = [ballot EXCEPT ![n] = Closed]
           /\ UNCHANGED <<messages, elected, connecting>>
  <2>1. ~ballot'[n].open /\ peers'[n] = peers[n]
    BY <1>2, <1>5 DEF Closed, RoleTypes, StateTypes, Save
  <2>2. LinksMembers(n)' /\ OnlyAt(connecting, connecting', n)
    BY <1>2, <1>5, <2>1 DEF LinksMembers, MembersAsked, OnlyAt
  <2> QED BY <1>1, <1>4, <1>5, <2>1, <2>2, ProcessAsked
<1>6. CASE UNCHANGED <<disk, st, peers, messages, elected, connecting>>
  <2>1. OnlyAt(connecting, connecting', n)
    BY <1>6 DEF OnlyAt
  <2>2. LinksMembers(n)' /\ AskedMembers(n)'
    BY <1>1, <1>2, <1>6 DEF LinksMembers, AskedMembers, AskedInTerm, MembersAsked
  <2>3. \A r \in messages' : r.type = "RequestVote" /\ r \notin messages => r.src = n
    BY <1>6
  <2>4. \A q \in Node : LinksMembers(q)' /\ AskedMembers(q)'
    BY <1>1, <1>4, <2>1, <2>2, <2>3, OthersAsked
  <2> QED BY <1>6, <2>4 DEF MembersAsked, RepliesAsked, VotersMembers
<1>7. CASE \E granted \in SUBSET (ballot[n].granted \cup {m.src}) :
             /\ UNCHANGED <<disk, st, peers>>
             /\ BecomeLeader(n, st[n], granted, {})
             /\ ballot' = [ballot EXCEPT ![n] = Closed]
  <2>1. PICK granted \in SUBSET (ballot[n].granted \cup {m.src}) :
               BecomeLeader(n, st[n], granted, {})
    BY <1>7
  <2>2. clients' \in [Node -> SUBSET Node] /\ \A q \in Node : q \notin clients'[q]
    BY <1>2 DEF LinkTypes
  <2>3. PICK none : none = {}
    OBVIOUS
  <2>4. /\ \E ms : /\ messages' = messages \cup (none \cup ms)
                   /\ \A r \in ms : r.type = "AppendEntries"
        /\ OnlyAt(connecting, connecting', n)
        /\ connecting'[n] \subseteq connecting[n] \cup peers[n]
        /\ \A e \in elected' \ elected : e.votes \subseteq e.members
    BY <1>2, <1>3, <2>1, <2>2, <2>3, BecomeLeaderAsked
  <2>5. Answers
    BY <2>3, <2>4, NoVoteAnswers DEF NoVoteIn
  <2>6. ~ballot'[n].open /\ peers' = peers
    BY <1>2, <1>7 DEF Closed, RoleTypes
  <2>7. LinksMembers(n)'
    BY <1>1, <1>2, <2>4, <2>6 DEF LinksMembers, MembersAsked
  <2> QED BY <1>1, <1>4, <2>4, <2>5, <2>6, <2>7, ClosedAsked
<1> DEFINE granted ==
      IF m.granted THEN ballot[n].granted \cup {m.src} ELSE ballot[n].granted
<1>8. granted \in SUBSET (ballot[n].granted \cup {m.src})
  OBVIOUS
<1> QED BY <1>5, <1>6, <1>7, <1>8 DEF ReceiveVote

LEMMA StartElectionAsked ==
  ASSUME TypeInv, VoteInv, MembersAsked, NEW n \in Node, StartElection(n)
  PROVE  MembersAsked'
<1>1. VoteStep(n) /\ mode[n] = "running" /\ mode' = mode /\ ~ballot[n].open
  BY StartElectionStep DEF StartElection, Ready, process
<1>2. /\ LinkTypes /\ RoleTypes /\ StateTypes /\ st[n] \in MemberState
      /\ peers[n] \in SUBSET Node
  BY TypeParts
<1>3. PICK s : s = IncrementTerm(st[n], n)
  OBVIOUS
<1>4. /\ s \in MemberState /\ s.currentTerm > st[n].currentTerm
  BY <1>2, <1>3, IncrementTermMember, MemberFields
<1>5. PICK reached : reached = (clients[n] \cup peers[n]) \ {n}
  OBVIOUS
<1>6. PICK request : request = RequestVoteOf(n, s, reached)
  OBVIOUS
<1>7. /\ reached \in SUBSET (Node \ {n}) /\ reached \subseteq peers[n]
      /\ connecting[n] \subseteq peers[n]
  BY <1>1, <1>2, <1>5 DEF LinkTypes, MembersAsked, LinksMembers
<1>8. /\ request.type = "RequestVote" /\ request.src = n /\ request.asked = reached
      /\ request.term = s.currentTerm /\ MessageOK(request)
  BY <1>4, <1>6, <1>7, RequestVoteType
<1>9. clients' = [clients EXCEPT ![n] = reached] /\ Save(n, s, peers[n])
  BY <1>3, <1>5 DEF StartElection
<1>10. /\ st'[n] = s /\ peers'[n] = peers[n] /\ clients'[n] = reached
       /\ clients' \in [Node -> SUBSET Node] /\ \A q \in Node : q \notin clients'[q]
  BY <1>2, <1>7, <1>9 DEF Save, StateTypes, LinkTypes
<1>11. \/ BecomeLeader(n, s, {n}, {request}) /\ ballot' = ballot
       \/ /\ \E b : ballot' = [ballot EXCEPT ![n] = b]
          /\ Send({request}) /\ UNCHANGED <<elected, connecting>>
  BY <1>3, <1>5, <1>6 DEF StartElection
<1>12. /\ \E ms : /\ messages' = messages \cup ({request} \cup ms)
                  /\ \A m \in ms : m.type = "AppendEntries"
       /\ OnlyAt(connecting, connecting', n)
       /\ connecting'[n] \subseteq connecting[n] \cup peers[n]
       /\ \A e \in elected' \ elected : e.votes \subseteq e.members
  <2>1. CASE BecomeLeader(n, s, {n}, {request})
    <3>1. PICK requests : requests = {request}
      OBVIOUS
    <3>2. PICK granted : granted = {n}
      OBVIOUS
    <3>3. /\ BecomeLeader(n, s, granted, requests) /\ granted \subseteq peers[n] \cup {n}
          /\ \A m \in requests : MessageOK(m)
      BY <1>8, <2>1, <3>1, <3>2
    <3> QED BY <1>4, <1>10, <3>1, <3>3, BecomeLeaderAsked
  <2>2. CASE Send({request}) /\ UNCHANGED <<elected, connecting>>
    <3>1. messages' = messages \cup ({request} \cup {})
      BY <2>2 DEF Send
    <3>2. PICK ms : ms = {}
      OBVIOUS
    <3>3. messages' = messages \cup ({request} \cup ms) /\ \A m \in ms : m.type = "AppendEntries"
      BY <3>1, <3>2
    <3> QED BY <2>2, <3>3 DEF OnlyAt
  <2> QED BY <1>11, <2>1, <2>2
<1>13. PICK ms : /\ messages' = messages \cup ({request} \cup ms)
                 /\ \A m \in ms : m.type = "AppendEntries"
  BY <1>12
<1>14. AskedMembers(n)'
  <2>1. ASSUME NEW m \in messages, m.type = "RequestVote", m.src = n
        PROVE  m.term # s.currentTerm
    <3>1. <<n, m.term, n>> \in Votes
      BY <2>1 DEF Votes, VotesIn
    <3>2. PICK v : v = <<n, m.term, n>>
      OBVIOUS
    <3>3. v[1] = n /\ v[2] = m.term /\ v \in Votes
      BY <3>1, <3>2
    <3>4. st[n].currentTerm > m.term \/ st[n].currentTerm = m.term
      BY <3>3 DEF VoteInv, VotesKept
    <3>5. m.term \in Nat /\ st[n].currentTerm \in Nat /\ s.currentTerm \in Nat
      BY <1>2, <1>4, TypeParts, MessageFields, MemberFields
    <3> QED BY <1>4, <3>4, <3>5
  <2>2. \A m \in AskedInTerm(n)' : m = request
    BY <1>10, <1>13, <2>1 DEF AskedInTerm
  <2> QED BY <1>7, <1>8, <1>10, <2>2 DEF AskedMembers
<1>15. LinksMembers(n)'
  BY <1>1, <1>7, <1>10, <1>12 DEF LinksMembers
<1>16. /\ OnlyAt(mode, mode', n) /\ OnlyAt(clients, clients', n)
       /\ OnlyAt(ballot, ballot', n)
  BY <1>1, <1>9, <1>11 DEF OnlyAt
<1>17. \A m \in messages' : m.type = "RequestVote" /\ m \notin messages => m.src = n
  BY <1>8, <1>13
<1>18. \A q \in Node : LinksMembers(q)' /\ AskedMembers(q)'
  BY <1>1, <1>12, <1>14, <1>15, <1>16, <1>17, OthersAsked
<1>19. RepliesAsked'
  <2>1. PICK new : new = {request} \cup ms
    OBVIOUS
  <2>2. \A r \in new : r.type = "RequestVoteReply" => \E m \in messages : AsksFor(m, r)
    BY <1>8, <1>13, <2>1
  <2>3. messages' = messages \cup new
    BY <1>13, <2>1
  <2> QED BY <2>2, <2>3, AnswersAsked DEF MembersAsked
<1>20. VotersMembers'
  BY <1>12 DEF MembersAsked, VotersMembers
<1> QED BY <1>18, <1>19, <1>20 DEF MembersAsked

------------------------------------------------------------------------------
(* All steps.                                                              *)

LEMMA ReceiveKeepsAsked ==
  ASSUME TypeInv, VoteInv, MembersAsked, NEW C, AtMostOne(C), OnlyAdds(C), Under(C),
         NEW m \in messages, NEW n \in Node, n \in Receivers(m), Receive(n, m)
  PROVE  MembersAsked'
<1>1. CASE ReceiveVote(n, m)
  BY <1>1, ReceiveVoteAsked
<1>2. CASE HandleRequestVote(n, m)
  BY <1>2, HandleRequestVoteAsked
<1>3. CASE StaleAppendEntries(n, m)
  BY <1>3, StaleAppendEntriesAsked
<1>4. CASE HandleAppendEntries(n, m)
  BY <1>4, HandleAppendEntriesAsked
<1>5. CASE AppendEntriesInterrupted(n, m)
  BY <1>5, AppendEntriesInterruptedStep, DownAsked DEF AppendEntriesInterrupted
<1>6. CASE HandleResult(n, m)
  <2>1. n = m.dst
    BY <1>6 DEF HandleResult, Receivers
  <2> QED BY <1>6, <2>1, HandleResultAsked
<1> QED BY <1>1, <1>2, <1>3, <1>4, <1>5, <1>6 DEF Receive

LEMMA StepKeepsAsked ==
  ASSUME TypeInv, VoteInv, ChangeInv, Leaver = {}, MembersAsked,
         NEW C, AtMostOne(C), OnlyAdds(C), Under(C), NEW n \in Node, Step(n)
  PROVE  MembersAsked'
<1>1. CASE StartElection(n)
  BY <1>1, StartElectionAsked
<1>2. CASE ElectionEnds(n)
  BY <1>2, ElectionEndsAsked
<1>3. CASE HeartbeatTick(n)
  BY <1>3, HeartbeatTickAsked
<1>4. CASE \E v \in Value : ClientRequest(n, v)
  BY <1>4, ClientRequestAsked
<1>5. CASE FinishBootstrap(n) \/ BootstrapFails(n)
  BY <1>5, BootstrapAsked
<1>6. CASE Crash(n)
  BY <1>6, CrashStep, DownAsked DEF Crash
<1>7. CASE Start(n)
  BY <1>7, StartAsked
<1> QED BY <1>1, <1>2, <1>3, <1>4, <1>5, <1>6, <1>7 DEF Step

LEMMA StutterAsked ==
  ASSUME UNCHANGED vars, MembersAsked
  PROVE  MembersAsked'
<1>1. UNCHANGED <<mode, st, peers, clients, connecting, ballot, messages, elected>>
  BY DEF vars, process, links, history
<1> QED BY <1>1 DEF MembersAsked, RepliesAsked, VotersMembers, LinksMembers, AskedMembers,
                    AskedInTerm

LEMMA NextKeepsAsked ==
  ASSUME Leaver = {}
  PROVE  TypeInv /\ VoteInv /\ ChangeInv /\ MembersAsked /\ [Next]_vars => MembersAsked'
<1> SUFFICES ASSUME TypeInv, VoteInv, ChangeInv, MembersAsked, [Next]_vars
             PROVE  MembersAsked'
  OBVIOUS
<1>1. PICK C : AtMostOne(C) /\ OnlyAdds(C) /\ Under(C)
  BY AdditionsUnder
<1>2. CASE \E n \in Node : Step(n)
  BY <1>1, <1>2, StepKeepsAsked
<1>3. CASE \E n, p \in Node : UpdatePeerClient(n, p)
  BY <1>3, UpdatePeerClientAsked
<1>4. CASE \E n, p \in Node : ApplyMembership(n, p)
  BY <1>4, ApplyMembershipAsked
<1>5. CASE \E n, p \in Node : RemoveMembership(n, p)
  BY <1>5 DEF RemoveMembership
<1>6. CASE \E m \in messages : \E n \in Receivers(m) : Receive(n, m)
  <2>1. PICK m \in messages : \E n \in Receivers(m) : Receive(n, m)
    BY <1>6
  <2>2. PICK n \in Receivers(m) : Receive(n, m)
    BY <2>1
  <2>3. n \in Node
    BY <2>2, ReceiveKeepsVotes
  <2> QED BY <1>1, <2>2, <2>3, ReceiveKeepsAsked
<1>7. CASE UNCHANGED vars
  BY <1>7, StutterAsked
<1> QED BY <1>2, <1>3, <1>4, <1>5, <1>6, <1>7 DEF Next

LEMMA InitAsked == Init => MembersAsked
BY DEF Init, MembersAsked, RepliesAsked, VotersMembers, LinksMembers, AskedMembers, Closed

(* Where no member is removed, whoever asks for votes asks members, and    *)
(* leaders have the votes of members.                                      *)
THEOREM MembersAskedInvariant ==
  ASSUME MaxChanges <= 1, Leaver = {}
  PROVE  Spec => [](TypeInv /\ VoteInv /\ ChangeInv /\ MembersAsked)
<1>1. Init => MembersAsked
  BY InitAsked
<1>2. TypeInv /\ VoteInv /\ ChangeInv /\ MembersAsked /\ [Next]_vars => MembersAsked'
  BY NextKeepsAsked
<1> QED BY <1>1, <1>2, OneChangeInvariant, PTL DEF Spec

(* One leader per term while a member is added: a candidate asks only its  *)
(* peers, and its peers are the old or the new configuration.              *)
THEOREM AdditionElects ==
  ASSUME MaxChanges <= 1, Leaver = {}
  PROVE  Spec => []ElectionSafety
<1>1. TypeInv /\ VoteInv /\ ChangeInv /\ MembersAsked => ElectionSafety
  BY VotersMembersElect DEF MembersAsked
<1> QED BY <1>1, MembersAskedInvariant, PTL

(* While a member is added, the votes that elect a leader are members'     *)
(* votes, a majority of those it counts (Fix 17).                          *)
THEOREM AdditionCountsMembers ==
  ASSUME MaxChanges <= 1, Leaver = {}
  PROVE  Spec => []QuorumOfMembers
<1>1. VoteInv /\ MembersAsked => QuorumOfMembers
  <2> SUFFICES ASSUME VoteInv, MembersAsked, NEW e \in elected
               PROVE  Cardinality(e.votes \cap e.members) >= QuorumOf(e.members)
    BY DEF QuorumOfMembers
  <2>1. e.votes \cap e.members = e.votes
    BY DEF MembersAsked, VotersMembers
  <2> QED BY <2>1 DEF VoteInv, LeadersBacked
<1> QED BY <1>1, MembersAskedInvariant, PTL
===============================================================================
