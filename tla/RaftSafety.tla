----------------------------- MODULE RaftSafety ------------------------------
(***************************************************************************)
(* What replication, commitment and snapshots add to the invariants of     *)
(* RaftInvariants: why a committed entry is in the log of every later      *)
(* leader.  A line is a function from consecutive indices to the terms     *)
(* found there; S tells, of each term that has a leader, the mark its      *)
(* leader's log ended with at its election.                                *)
(***************************************************************************)
EXTENDS RaftInvariants

------------------------------------------------------------------------------
(* Lines.                                                                  *)

MarkOK(S, i, c) ==
  \/ c = 0 /\ i = 0
  \/ c \in DOMAIN S /\ i > S[c].index

(* What the leader of term c has at i.                                     *)
OwnMark(S, i, t, c) ==
  /\ i > S[c].index => t = c
  /\ i = S[c].index => t = S[c].term

Owned(S, f, c) == \A i \in DOMAIN f : OwnMark(S, i, f[i], c)

(* Back from an entry of term c the line is of term c down to where the    *)
(* term began, and there it is as the leader found it.                     *)
Rooted(S, f) ==
  \A i \in DOMAIN f :
    /\ MarkOK(S, i, f[i])
    /\ \A j \in DOMAIN f : j <= i /\ f[i] # 0 => OwnMark(S, j, f[j], f[i])

(* The log that ends with (index, term) is at least as up to date as one   *)
(* that ends with (k, c).                                                  *)
Past(index, term, k, c) ==
  \/ term > c
  \/ term = c /\ index >= k

(* Every leader of a term up to `term` was elected with a log past (k, c). *)
NoBad(S, k, c, term) ==
  \A d \in DOMAIN S : c < d /\ d <= term => Past(S[d].index, S[d].term, k, c)

Safe(S, k, c) ==
  \A d \in DOMAIN S : c < d => Past(S[d].index, S[d].term, k, c)

------------------------------------------------------------------------------
(* Where the terms begin: the leader's request for votes tells.            *)

ElectedTerms == {e[1] : e \in elected}

Candidacy(c) == CHOOSE m \in Requests : m.term = c /\ <<c, m.src>> \in elected

Starts ==
  [c \in ElectedTerms |-> [index |-> Candidacy(c).lastLogIndex, term |-> Candidacy(c).lastLogTerm]]

AllMarks == UNION {MarksBut(l) \cup Marks(hs[l]) : l \in Node}

(* Every mark of a term lies after its beginning.                          *)
MarksOK == \A k \in AllMarks : MarkOK(Starts, k[1], k[2])

------------------------------------------------------------------------------
(* The lines of the logs, of the messages and of what is decided.          *)

Terms(s) == [i \in Held(s) |-> EntryAt(s, i).term]

Full(s) == [i \in s.lastIncludedIndex .. LastLogIndex(s) |-> GetLogTerm(s, i)]

End(m) == m.prevIndex + Len(m.entries)

AppendTerms(m) ==
  [i \in m.prevIndex .. End(m) |->
     IF i = m.prevIndex THEN m.prevTerm ELSE m.entries[i - m.prevIndex].term]

DecidedTerms ==
  [i \in {e.index : e \in decided} |-> (CHOOSE e \in decided : e.index = i).term]

LinesRooted ==
  /\ \A n \in Node : Rooted(Starts, Terms(st[n])) /\ Rooted(Starts, Terms(hs[n]))
  /\ \A m \in Appends : Rooted(Starts, AppendTerms(m))
  /\ \A l \in Node : role[l] = "Leader" => Rooted(Starts, Full(st[l]))
  /\ Rooted(Starts, DecidedTerms)

(* What leaders have and send is theirs.                                   *)
OwnersTrue ==
  /\ \A l \in Node : role[l] = "Leader" =>
       /\ Owned(Starts, Full(st[l]), st[l].currentTerm)
       /\ Starts[st[l].currentTerm].index <= LastLogIndex(st[l])
  /\ \A m \in Appends :
       Owned(Starts, AppendTerms(m), m.term) /\ Starts[m.term].index <= End(m)
  /\ \A m \in Installs \cup snapTasks : OwnMark(Starts, m.index, m.snapTerm, m.term)

AckedBy(p, term, index) ==
  \E r \in Acks : r.src = p /\ r.term = term /\ r.lastLogIndex >= index

(* A leader's log reaches as far as all it sent and all it was told, and   *)
(* it knows of a peer what the peer acknowledged in its term.              *)
LeadersRemember ==
  /\ \A l \in Node : role[l] = "Leader" =>
       /\ \A m \in Appends : m.term = st[l].currentTerm => End(m) <= LastLogIndex(st[l])
       /\ \A m \in Installs \cup snapTasks :
            m.term = st[l].currentTerm => m.index <= LastLogIndex(st[l])
       /\ \A r \in Acks : r.term = st[l].currentTerm => r.lastLogIndex <= LastLogIndex(st[l])
       /\ \A p \in Node \ {l} :
            /\ nextIndex[l][p] \in 1 .. LastLogIndex(st[l]) + 1
            /\ \/ nextIndex[l][p] - 1 <= Starts[st[l].currentTerm].index
               \/ AckedBy(p, st[l].currentTerm, nextIndex[l][p] - 1)
            /\ matchIndex[l][p] = 0 \/ AckedBy(p, st[l].currentTerm, matchIndex[l][p])
  /\ \A m \in Appends :
       m.prevIndex <= Starts[m.term].index \/ AckedBy(m.dst, m.term, m.prevIndex)

------------------------------------------------------------------------------
(* What a later leader had to have.                                        *)

(* What the node q acknowledged, or made as the leader of its term.        *)
Acked(q) ==
  UNION {{<<k, r.term>> : k \in Starts[r.term].index + 1 .. r.lastLogIndex} :
           r \in {a \in Acks : a.src = q}}

Own(q) == {k \in MarksBut(q) : <<k[2], q>> \in elected}

Evidence(q) == Acked(q) \cup Own(q)

AtLeast(s, k) == Past(LastLogIndex(s), LastLogTerm(s), k[1], k[2])

AcksPast == \A r \in Acks : hs[r.src].currentTerm >= r.term

(* Its log is past it until a leader is elected whose log was not.         *)
EvidenceKept ==
  \A q \in Node : \A k \in Evidence(q) : \A s \in {hs[q], st[q]} :
    AtLeast(s, k) \/ ~NoBad(Starts, k[1], k[2], s.currentTerm)

(* Only what a leader could not save for certain is on its disk alone.     *)
DiskKnown ==
  \A q \in Node : \A e \in HeldEntries(hs[q]) :
    e \in HeldEntries(st[q]) \cup SentEntries \/ e.term = hs[q].currentTerm

(* What q acknowledged in its term it still has.                           *)
AckMatch ==
  \A r \in Acks : \A s \in {hs[r.src], st[r.src]} :
    s.currentTerm = r.term /\ r.lastLogIndex > Starts[r.term].index =>
      /\ r.lastLogIndex <= LastLogIndex(s)
      /\ r.lastLogIndex \in Held(s) => EntryAt(s, r.lastLogIndex).term = r.term

(* What the leader of term c began with.                                   *)
Beginning(c) == <<Starts[c].index, Starts[c].term>>

(* What r acknowledged s reaches, and either has compacted it or is past   *)
(* what the leader of that term began with.                                *)
Reaches(r, s) ==
  /\ r.lastLogIndex <= LastLogIndex(s)
  /\ \/ r.lastLogIndex <= s.lastIncludedIndex
     \/ AtLeast(s, Beginning(r.term))

AcksReach ==
  \A r \in Acks : \A s \in {hs[r.src], st[r.src]} : s.currentTerm = r.term => Reaches(r, s)

(* A vote of q for n in `term` goes to a log past all that q has, unless   *)
(* an earlier leader's was not.                                            *)
VoteGood(q, term, n) ==
  \A k \in Evidence(q) : k[2] < term =>
    \/ \A m \in RequestsOf(term, n) : Past(m.lastLogIndex, m.lastLogTerm, k[1], k[2])
    \/ ~NoBad(Starts, k[1], k[2], term - 1)

GoodVoters(e) == {q \in VotersOf(e) : VoteGood(q, e[1], e[2])}

VotesGood ==
  /\ \A v \in Votes : v[2] \notin ElectedTerms => VoteGood(v[1], v[2], v[3])
  /\ \A e \in elected : Cardinality(GoodVoters(e)) >= Majority

------------------------------------------------------------------------------
(* What is committed and applied.                                          *)

(* The mark k is decided and was, in its own term, on a majority.          *)
Chosen(k) ==
  /\ \E e \in decided : EntryMark(e) = k
  /\ Cardinality({q \in Node : k \in Evidence(q)}) >= Majority

DecidedOK ==
  /\ \A e \in decided : e.index >= 1 /\ \A i \in 1 .. e.index : \E f \in decided : f.index = i
  /\ \A e, f \in decided : e.index = f.index => e = f
  /\ \A e \in decided : \E f \in decided : f.index >= e.index /\ Chosen(EntryMark(f))

Applied(entries, index) ==
  /\ Len(entries) = index
  /\ \A i \in 1 .. index : entries[i].index = i /\ entries[i] \in decided

ChosenAt(k) == k = <<0, 0>> \/ Chosen(k)

ProgressOK ==
  \A n \in Node :
    /\ Applied(data[n], lastApplied[n])
    /\ up[n] =>
         /\ st[n].lastIncludedIndex <= lastApplied[n]
         /\ lastApplied[n] = commitIndex[n]
         /\ commitIndex[n] <= LastLogIndex(st[n])
         /\ ChosenAt(<<commitIndex[n], GetLogTerm(st[n], commitIndex[n])>>)

FileOK(s, file) ==
  /\ file = Nil => s.lastIncludedIndex = 0
  /\ file # Nil =>
       /\ s.lastIncludedIndex <= file.index
       /\ Chosen(<<file.index, file.term>>)
       /\ Applied(file.data, file.index)

SnapshotsOK ==
  /\ \A n \in Node :
       Base(hs[n]) = Base(st[n]) /\ ChosenAt(Base(st[n])) /\ FileOK(st[n], snapFile[n])
  /\ \A m \in Installs \cup snapTasks : Chosen(<<m.index, m.snapTerm>>)
  /\ \A m \in Installs :
       Chosen(<<m.body.index, m.body.term>>) /\ Applied(m.body.data, m.body.index)

CommitsOK ==
  \A m \in Appends :
    /\ m.leaderCommit <= End(m)
    /\ m.leaderCommit = 0 \/ \E c \in 0 .. m.term : Chosen(<<m.leaderCommit, c>>)

(* The inductive invariant of replication and commitment.                  *)
SafetyInv ==
  /\ MarksOK /\ LinesRooted /\ OwnersTrue /\ LeadersRemember
  /\ AcksPast /\ EvidenceKept /\ DiskKnown /\ AckMatch /\ VotesGood
  /\ DecidedOK /\ ProgressOK /\ SnapshotsOK /\ CommitsOK
==============================================================================
