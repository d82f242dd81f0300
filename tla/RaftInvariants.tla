--------------------------- MODULE RaftInvariants ----------------------------
(***************************************************************************)
(* The inductive invariants behind the safety of RaftCluster's logs, in    *)
(* two parts: who leads, and who made what a log holds.  A mark is a pair  *)
(* of an index and a term.                                                 *)
(***************************************************************************)
EXTENDS RaftProperties

Requests == {m \in messages : m.type = "RequestVote"}
Appends == {m \in messages : m.type = "AppendEntries"}
Installs == {m \in messages : m.type = "InstallSnapshot"}
Acks == {m \in messages : m.type = "AppendEntriesResult" /\ m.success}

IsElected(term) == \E n \in Node : <<term, n>> \in elected

------------------------------------------------------------------------------
(* Leaders.                                                                *)

(* Entries and snapshots are sent, and acknowledged, for the term of an    *)
(* elected node, never by a node to itself.                                *)
SentByElected ==
  /\ \A m \in Appends \cup Installs \cup snapTasks :
       <<m.term, m.src>> \in elected /\ m.dst # m.src
  /\ \A r \in Acks : <<r.term, r.dst>> \in elected /\ r.dst # r.src

LeadersElected == \A n \in Node : role[n] = "Leader" => <<st[n].currentTerm, n>> \in elected

DownIsFollower == \A n \in Node : ~up[n] => role[n] = "Follower" /\ currentLeader[n] = Nil

(* An elected node's term is on its disk, so no candidate has led in its   *)
(* term before.                                                            *)
ElectedDurable == \A e \in elected : hs[e[2]].currentTerm >= e[1]

CandidatesNew ==
  \A n \in Node : ballot[n].open =>
    /\ hs[n].currentTerm = st[n].currentTerm
    /\ <<st[n].currentTerm, n>> \notin elected

(* The inductive invariant of leaders.                                     *)
LeaderInv ==
  /\ SentByElected /\ LeadersElected /\ DownIsFollower /\ ElectedDurable
  /\ CandidatesNew /\ LeaderHint

------------------------------------------------------------------------------
(* Marks.                                                                  *)

(* A log begins with the placeholder of its snapshot and is in order.      *)
LogOK(s) ==
  /\ s.log[1] = Placeholder(s.lastIncludedIndex, s.lastIncludedTerm)
  /\ \A k \in 1 .. Len(s.log) : s.log[k].index = s.lastIncludedIndex + k - 1
  /\ s.lastIncludedIndex = 0 => s.lastIncludedTerm = 0

LogsOK ==
  /\ \A n \in Node : LogOK(st[n]) /\ LogOK(hs[n])
  /\ \A m \in Appends :
       /\ \A k \in 1 .. Len(m.entries) : m.entries[k].index = m.prevIndex + k
       /\ m.prevIndex = 0 => m.prevTerm = 0
  /\ \A m \in Installs \cup snapTasks : m.index = 0 => m.snapTerm = 0

HeldEntries(s) == {s.log[k] : k \in 2 .. Len(s.log)}

SentEntries == UNION {{m.entries[k] : k \in 1 .. Len(m.entries)} : m \in Appends}

EntryMark(e) == <<e.index, e.term>>

Base(s) == <<s.lastIncludedIndex, s.lastIncludedTerm>>

Marks(s) == {Base(s)} \cup {EntryMark(e) : e \in HeldEntries(s)}

SentMarks ==
  {<<m.prevIndex, m.prevTerm>> : m \in Appends}
  \cup {EntryMark(e) : e \in SentEntries}
  \cup {<<m.lastLogIndex, m.lastLogTerm>> : m \in Requests}
  \cup {<<m.index, m.snapTerm>> : m \in Installs \cup snapTasks}
  \cup {<<m.body.index, m.body.term>> : m \in Installs}

StoredMarks ==
  {<<snapFile[n].index, snapFile[n].term>> : n \in {p \in Node : snapFile[p] # Nil}}
  \cup {EntryMark(e) : e \in decided}

(* All marks but those of the disk of l.                                   *)
MarksBut(l) ==
  SentMarks \cup StoredMarks \cup (UNION {Marks(st[n]) : n \in Node})
  \cup (UNION {Marks(hs[n]) : n \in Node \ {l}})

(* Entries are made by elected nodes.                                      *)
MarksElected ==
  \A l \in Node : \A k \in MarksBut(l) \cup Marks(hs[l]) : k[2] = 0 \/ IsElected(k[2])

(* Nobody has an entry of a leader's term that the leader has not; its     *)
(* disk may hold one more, of a request it could not save for certain.     *)
LeaderAhead ==
  \A l \in Node : role[l] = "Leader" =>
    /\ \A k \in MarksBut(l) : k[2] = st[l].currentTerm => k[1] <= LastLogIndex(st[l])
    /\ \A k \in Marks(hs[l]) : k[2] = st[l].currentTerm => k[1] <= LastLogIndex(st[l]) + 1

Entries ==
  (UNION {HeldEntries(st[n]) : n \in Node}) \cup (UNION {HeldEntries(hs[n]) : n \in Node})
  \cup SentEntries \cup decided

(* An index and a term tell the entry, wherever it is.                     *)
EntryUnique == \A e, f \in Entries : EntryMark(e) = EntryMark(f) => e = f

(* No entry is of a later term than its node's disk, nor than its message. *)
TermsBounded ==
  /\ \A n \in Node : \A e \in HeldEntries(st[n]) \cup HeldEntries(hs[n]) :
       e.term <= hs[n].currentTerm
  /\ \A l \in Node : role[l] = "Leader" => st[l].lastIncludedTerm <= st[l].currentTerm
  /\ \A m \in Appends : m.prevTerm <= m.term
                        /\ \A k \in 1 .. Len(m.entries) : m.entries[k].term <= m.term
  /\ \A m \in Installs \cup snapTasks : m.snapTerm <= m.term

RequestsOf(term, n) == {m \in Requests : m.term = term /\ m.src = n}

(* Each candidate asks once per term, and says what its log ends with.     *)
RequestsTrue ==
  /\ \A m \in Requests : m.term > 0
  /\ \A m, k \in Requests : m.term = k.term /\ m.src = k.src => m = k
  /\ \A v \in Votes : RequestsOf(v[2], v[3]) # {}
  /\ \A n \in Node : ballot[n].open =>
       /\ RequestsOf(st[n].currentTerm, n) # {}
       /\ \A m \in RequestsOf(st[n].currentTerm, n) :
            m.lastLogIndex = LastLogIndex(st[n]) /\ m.lastLogTerm = LastLogTerm(st[n])
  /\ \A e \in elected :
       /\ RequestsOf(e[1], e[2]) # {}
       /\ \A m \in RequestsOf(e[1], e[2]) : m.lastLogTerm < e[1]

(* A majority will not vote for n in a term: its members have voted for    *)
(* another or gone on to a later one.                                      *)
Refuses(q, term, n) ==
  /\ <<q, term, n>> \notin Votes
  /\ \/ hs[q].currentTerm > term
     \/ hs[q].currentTerm = term /\ hs[q].votedFor \notin {Nil, n}

Hopeless(term, n) ==
  \E Q \in SUBSET Node : Cardinality(Q) >= Majority /\ \A q \in Q : Refuses(q, term, n)

(* A node that lost its term, but not a later leader's snapshot, in a      *)
(* crash is not elected before it catches up with that leader's term.      *)
LateCandidates ==
  \A n \in Node : ballot[n].open =>
    st[n].lastIncludedTerm < st[n].currentTerm \/ Hopeless(st[n].currentTerm, n)

(* The inductive invariant of marks.                                       *)
LogInv ==
  /\ LogsOK /\ MarksElected /\ LeaderAhead /\ EntryUnique /\ TermsBounded
  /\ RequestsTrue /\ LateCandidates
==============================================================================
