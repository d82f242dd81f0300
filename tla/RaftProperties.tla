--------------------------- MODULE RaftProperties ---------------------------
(***************************************************************************)
(* What the cluster of RaftCluster must do: its type invariant, its safety *)
(* invariants and what no single step may do.                              *)
(***************************************************************************)
EXTENDS RaftCluster

RequestVoteType ==
  [type : {"RequestVote"}, src : Node, term : Nat, lastLogIndex : Nat, lastLogTerm : Nat]

RequestVoteReplyType ==
  [type : {"RequestVoteReply"}, src : Node, dst : Node, forTerm : Nat, term : Nat,
   granted : BOOLEAN]

AppendEntriesType ==
  [type : {"AppendEntries"}, src : Node, dst : Node, term : Nat, prevIndex : Nat,
   prevTerm : Nat, entries : Seq(LogEntry), leaderCommit : Nat]

ResultType ==
  [type : {"AppendEntriesResult"}, src : Node, dst : Node, term : Nat, success : BOOLEAN,
   lastLogIndex : Nat]

InstallSnapshotType ==
  [type : {"InstallSnapshot"}, src : Node, dst : Node, term : Nat, index : Nat,
   snapTerm : Nat, body : SnapshotBody]

Message == RequestVoteType \cup RequestVoteReplyType \cup AppendEntriesType
           \cup ResultType \cup InstallSnapshotType

TaskType == [src : Node, dst : Node, term : Nat, index : Nat, snapTerm : Nat]

DiskType ==
  /\ hs \in [Node -> HardState]
  /\ snapFile \in [Node -> SnapshotBody \cup {Nil}]

ProcessType ==
  /\ up \in [Node -> BOOLEAN]
  /\ st \in [Node -> HardState]
  /\ role \in [Node -> {"Follower", "Candidate", "Leader"}]
  /\ currentLeader \in [Node -> Node \cup {Nil}]
  /\ ballot \in [Node -> [open : BOOLEAN, heard : SUBSET Node, granted : SUBSET Node]]

ProgressType ==
  /\ commitIndex \in [Node -> Nat] /\ lastApplied \in [Node -> Nat]
  /\ data \in [Node -> Seq(LogEntry)]
  /\ pending \in [Node -> SUBSET LogEntry]
  /\ snapQueue \in [Node -> Nat]
  /\ answered \in SUBSET [asked : LogEntry, applied : LogEntry]

LeadershipType ==
  nextIndex \in [Node -> [Node -> Nat]] /\ matchIndex \in [Node -> [Node -> Nat]]

NetworkType == messages \in SUBSET Message /\ snapTasks \in SUBSET TaskType

HistoryType == elected \in SUBSET (Nat \X Node) /\ decided \in SUBSET LogEntry

BudgetType == crashes \in Nat /\ faults \in Nat /\ ticks \in Nat

(* Every variable has the type of the field it models.                     *)
TypeOK ==
  /\ DiskType /\ ProcessType /\ ProgressType /\ LeadershipType
  /\ NetworkType /\ HistoryType /\ BudgetType

------------------------------------------------------------------------------
(* Elections.                                                              *)

(* Ballots cast: the candidate's own, and each granted reply.              *)
Votes ==
  {<<m.src, m.term, m.src>> : m \in {r \in messages : r.type = "RequestVote"}}
  \cup
  {<<m.src, m.forTerm, m.dst>> :
     m \in {r \in messages : r.type = "RequestVoteReply" /\ r.granted}}

(* `s` has a later term than `t`, or its term and any vote in it.          *)
NotBehind(s, t) ==
  \/ t.currentTerm < s.currentTerm
  \/ t.currentTerm = s.currentTerm /\ t.votedFor \in {Nil, s.votedFor}

(* A vote that has left a node is on its disk until a later term replaces  *)
(* it (Fix 11 and Fix 15): no crash, restart or failed write lets it vote  *)
(* for another candidate of that term.                                     *)
VotesDurable ==
  \A v \in Votes :
    \/ hs[v[1]].currentTerm > v[2]
    \/ hs[v[1]].currentTerm = v[2] /\ hs[v[1]].votedFor = v[3]

(* No node votes for two candidates of one term, in spite of crashes       *)
(* between its votes, failed writes and requests that arrive late.         *)
OneVote ==
  \A v, w \in Votes : v[1] = w[1] /\ v[2] = w[2] => v[3] = w[3]

(* At most one node is ever elected in a term, in spite of crashes between *)
(* votes, failed writes and replies of closed elections.                   *)
ElectionSafety ==
  \A e, f \in elected : e[1] = f[1] => e[2] = f[2]

VotersOf(e) == {q \in Node : <<q, e[1], e[2]>> \in Votes}

(* What the running node adds to VotesDurable and OneVote to make them     *)
(* inductive: its memory is never behind its disk, the votes a candidate   *)
(* counts were cast in its term, and an elected node had a majority.       *)
MemoryNotBehind == \A n \in Node : NotBehind(st[n], hs[n])

BallotsBacked ==
  \A n \in Node : ballot[n].open =>
    /\ up[n]
    /\ \A q \in ballot[n].granted : <<q, st[n].currentTerm, n>> \in Votes

LeadersBacked == \A e \in elected : Cardinality(VotersOf(e)) >= Majority

(* The inductive invariant of elections (Fix 11, Fix 15 and start_election):*)
(* every vote a candidate may still count is one its voter cannot forget.  *)
ElectionInv ==
  MemoryNotBehind /\ VotesDurable /\ OneVote /\ BallotsBacked /\ LeadersBacked

(* The leader a node reports, to redirect clients and to call itself       *)
(* ready, is the one that won the election of the node's term.             *)
LeaderHint ==
  \A n \in Node : currentLeader[n] # Nil =>
    <<st[n].currentTerm, currentLeader[n]>> \in elected

------------------------------------------------------------------------------
(* Logs.                                                                   *)

(* Indices above the placeholder.                                          *)
Held(s) == s.lastIncludedIndex + 1 .. LastLogIndex(s)

(* Every entry of every log, in memory or on disk, carries the index of    *)
(* its place, so that filtering the log by index (start-up) and cutting it *)
(* by place (compaction) agree.                                            *)
LogAligned ==
  \A s \in {st[n] : n \in Node} \cup {hs[n] : n \in Node} :
    \A k \in 1 .. Len(s.log) : s.log[k].index = s.lastIncludedIndex + k - 1

(* Two logs, in memory or on disk, that hold an entry of the same index    *)
(* and term hold the same entries up to it, as far as neither is           *)
(* compacted.                                                              *)
LogMatching ==
  \A s, t \in {st[n] : n \in Node} \cup {hs[n] : n \in Node} :
    \A i \in Held(s) \cap Held(t) :
      EntryAt(s, i).term = EntryAt(t, i).term =>
        \A j \in (Held(s) \cap Held(t)) \cap 1 .. i : EntryAt(s, j) = EntryAt(t, j)

(* What a disk lets its node recover: the log above the snapshot that      *)
(* start-up adopts, and the entries the snapshot covers.                   *)
Recovers(n, entry) ==
  LET s == Recovered(hs[n], snapFile[n])
  IN  \/ entry.index \in Held(s) /\ EntryAt(s, entry.index) = entry
      \/ /\ snapFile[n] # Nil /\ Startable(hs[n], snapFile[n])
         /\ \E k \in 1 .. Len(snapFile[n].data) : snapFile[n].data[k] = entry

(* A committed entry stays recoverable from the disks of a majority.       *)
DecidedOnQuorum ==
  \A entry \in decided :
    Cardinality({n \in Node : Recovers(n, entry)}) >= Majority

Holds(n, entry) ==
  \/ entry.index \in Held(st[n]) /\ EntryAt(st[n], entry.index) = entry
  \/ entry.index <= Len(data[n]) /\ data[n][entry.index] = entry

(* The leader of the latest term has every committed entry, in its log or  *)
(* already applied.                                                        *)
LeaderCompleteness ==
  \A n \in Node :
    /\ up[n] /\ role[n] = "Leader"
    /\ \A e \in elected : e[1] <= st[n].currentTerm
    => \A entry \in decided : Holds(n, entry)

(* All nodes apply the same entries in the order of their indices, each    *)
(* once, and only committed ones: what the placeholders, the snapshots and *)
(* the restarts skip is what the state machine already contains.           *)
StateMachineSafety ==
  /\ \A e, f \in decided : e.index = f.index => e = f
  /\ \A n \in Node :
       /\ Len(data[n]) = lastApplied[n]
       /\ \A i \in 1 .. Len(data[n]) : data[n][i].index = i /\ data[n][i] \in decided

(* The indices of a node keep their order, so that no index underflows and *)
(* nothing is applied that the log does not have.                          *)
IndicesOrdered ==
  \A n \in Node : up[n] =>
    /\ st[n].lastIncludedIndex <= lastApplied[n]
    /\ lastApplied[n] = commitIndex[n]
    /\ commitIndex[n] <= LastLogIndex(st[n])

(* A node whose process dies can start again from its two files.           *)
DiskStartable ==
  \A n \in Node : Startable(hs[n], snapFile[n])

(* What a leader counts as acknowledged by a follower that is still in its *)
(* term is on the follower's disk.                                         *)
AcknowledgedDurable ==
  \A l, p \in Node :
    /\ l # p /\ up[l] /\ role[l] = "Leader"
    /\ hs[p].currentTerm = st[l].currentTerm
    => matchIndex[l][p] <= LastLogIndex(Recovered(hs[p], snapFile[p]))

(* A client gets the result of its own command: the entry that was applied *)
(* when its reply was sent is the entry made for it.                       *)
AnswersOwnRequest ==
  \A a \in answered : a.asked = a.applied

------------------------------------------------------------------------------
(* What no step does.                                                      *)

(* A disk's term never falls, and its vote changes only with the term.     *)
DiskTermMonotonic == [][\A n \in Node : NotBehind(hs'[n], hs[n])]_vars

(* While its process lives a node never takes back a commit.               *)
CommitMonotonic ==
  [][\A n \in Node : up[n] /\ up'[n] =>
       commitIndex[n] <= commitIndex'[n] /\ lastApplied[n] <= lastApplied'[n]]_vars

(* While it leads, a leader never rewrites an entry of its log, the log's  *)
(* end never falls, and an entry leaves it only once it is applied, for    *)
(* the snapshot: no late request or snapshot, vote or roll-back after a    *)
(* failed save takes an entry from it.                                     *)
LeaderAppendOnly ==
  [][\A n \in Node :
       role[n] = "Leader" /\ role'[n] = "Leader" =>
         /\ LastLogIndex(st'[n]) >= LastLogIndex(st[n])
         /\ \A i \in Held(st[n]) :
              \/ i \in Held(st'[n]) /\ EntryAt(st'[n], i) = EntryAt(st[n], i)
              \/ i <= lastApplied[n] /\ i <= st'[n].lastIncludedIndex]_vars

==============================================================================
