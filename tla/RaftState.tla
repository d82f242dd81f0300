------------------------------ MODULE RaftState ------------------------------
(***************************************************************************)
(* The persistent part of a node, src/src/raft/state.rs: HardState and the *)
(* functions of RaftState that read or rewrite it.  A value `s` below is a *)
(* HardState record; the running node and its disk each hold one.          *)
(*                                                                         *)
(* The log is a vector whose element 0 is a placeholder for the last entry *)
(* covered by the snapshot.  The vector's element i is s.log[i + 1] here,  *)
(* so the entry of Raft index i is s.log[i - s.lastIncludedIndex + 1].     *)
(***************************************************************************)
EXTENDS Naturals, Sequences, FiniteSets

CONSTANTS
  Node,   \* ids of the cluster's members
  Value,  \* commands a client can submit
  Nil,    \* Option::None
  Ping    \* Command::Ping, the command of every placeholder

ASSUME NodeAssumption == Node # {} /\ IsFiniteSet(Node) /\ Nil \notin Node

Command == Value \cup {Ping}

LogEntry == [term : Nat, index : Nat, command : Command]

HardState == [currentTerm : Nat,
              votedFor : Node \cup {Nil},
              log : Seq(LogEntry) \ {<<>>},
              lastIncludedIndex : Nat,
              lastIncludedTerm : Nat]

(* What snapshot_<id>.json holds; a node without one has Nil.              *)
SnapshotBody == [index : Nat, term : Nat, data : Seq(LogEntry)]

ASSUME NilAssumption == Nil \notin SnapshotBody

Placeholder(index, term) == [term |-> term, index |-> index, command |-> Ping]

(* The state of a node that has never written its file. *)
FreshState == [currentTerm |-> 0, votedFor |-> Nil,
               log |-> <<Placeholder(0, 0)>>,
               lastIncludedIndex |-> 0, lastIncludedTerm |-> 0]

------------------------------------------------------------------------------
(* Virtual indexing. *)

LastLogIndex(s) == s.lastIncludedIndex + Len(s.log) - 1

LastLogTerm(s) == s.log[Len(s.log)].term

InMemory(s, i) == i \in s.lastIncludedIndex .. LastLogIndex(s)

EntryAt(s, i) == s.log[i - s.lastIncludedIndex + 1]

GetLogTerm(s, i) ==
  IF i = s.lastIncludedIndex THEN s.lastIncludedTerm
  ELSE IF InMemory(s, i) THEN EntryAt(s, i).term ELSE 0

(* The entries of indices from .. to that the vector really holds. *)
EntriesBetween(s, from, to) ==
  SubSeq(s.log, from - s.lastIncludedIndex + 1, to - s.lastIncludedIndex + 1)

------------------------------------------------------------------------------
(* append_entries: the consistency check, and the merge of the entries.    *)

AppendConsistent(s, prevIndex, prevTerm) ==
  /\ InMemory(s, prevIndex)
  /\ GetLogTerm(s, prevIndex) = prevTerm

(* Mutant: the log ends with the request's entries, conflict or not.       *)
MergeTruncates(s, prevIndex, entries) ==
  SubSeq(s.log, 1, prevIndex - s.lastIncludedIndex + 1) \o entries

(* The loop truncates the vector at the first entry whose term differs,    *)
(* and from there on pushes; without a conflict it only pushes past the    *)
(* end.  `base` elements of the vector come before the first sent entry.   *)
MergeEntries(s, prevIndex, entries) ==
  LET base == prevIndex - s.lastIncludedIndex + 1
      Conflict(i) == /\ i \in base + 1 .. base + Len(entries)
                     /\ i <= Len(s.log)
                     /\ s.log[i].term # entries[i - base].term
      replaced(i) == i > Len(s.log) \/ \E j \in base + 1 .. i : Conflict(j)
      length == IF replaced(base + Len(entries))
                THEN base + Len(entries) ELSE Len(s.log)
  IN  [i \in 1 .. length |-> IF replaced(i) THEN entries[i - base] ELSE s.log[i]]

WithEntries(s, prevIndex, entries) ==
  [s EXCEPT !.log = MergeEntries(s, prevIndex, entries)]

(* Mutant: the voter's log must be up to date for the candidate's.         *)
IsLogOutOfDate(s, lastIndex, lastTerm) ==
  \/ LastLogTerm(s) > lastTerm
  \/ LastLogTerm(s) = lastTerm /\ LastLogIndex(s) >= lastIndex

IsLogUpToDate(s, lastIndex, lastTerm) ==
  \/ lastTerm > LastLogTerm(s)
  \/ lastTerm = LastLogTerm(s) /\ lastIndex >= LastLogIndex(s)

------------------------------------------------------------------------------
(* Terms and votes.  The role, which these functions also set, belongs to  *)
(* the running node and is set by the actions that use them.               *)

(* Mutant: the vote is forgotten at each message of the current term.      *)
UpdateTermForgets(s, term) ==
  IF term >= s.currentTerm
  THEN [s EXCEPT !.currentTerm = term, !.votedFor = Nil]
  ELSE s

UpdateTerm(s, term) ==
  IF term > s.currentTerm
  THEN [s EXCEPT !.currentTerm = term, !.votedFor = Nil]
  ELSE s

IncrementTerm(s, self) ==
  [s EXCEPT !.currentTerm = @ + 1, !.votedFor = self]

PushEntry(s, command) ==
  [s EXCEPT !.log = Append(@, [term |-> s.currentTerm,
                               index |-> LastLogIndex(s) + 1,
                               command |-> command])]

------------------------------------------------------------------------------
(* Commitment.  The code sorts the peers' match indices and its own last   *)
(* index in descending order and takes the element at half the length;     *)
(* that element is the one i with at most half of the indices above it and *)
(* more than half of them at or above it.                                  *)

(* Mutant: half of the nodes are enough.                                   *)
Half == Cardinality(Node) \div 2

Majority == Cardinality(Node) \div 2 + 1

(* Mutant: the element before the middle of the sorted indices.            *)
IsIndexBeforeMedian(match, i) ==
  /\ Cardinality({p \in Node : match[p] >= i}) >= Majority - 1
  /\ Cardinality({p \in Node : match[p] > i}) < Majority - 1

IsMedianIndex(match, i) ==
  /\ Cardinality({p \in Node : match[p] >= i}) >= Majority
  /\ Cardinality({p \in Node : match[p] > i}) < Majority

(* Mutant: the quorum's index is not compared with the commit index.       *)
CommittableAgain(s, self, matchIndex, commitIndex) ==
  LET match == [matchIndex EXCEPT ![self] = LastLogIndex(s)]
  IN  {i \in s.lastIncludedIndex + 1 .. LastLogIndex(s) :
         IsMedianIndex(match, i) /\ EntryAt(s, i).term = s.currentTerm}

(* The indices advance_commit_index may move to: none or one.              *)
Committable(s, self, matchIndex, commitIndex) ==
  LET match == [matchIndex EXCEPT ![self] = LastLogIndex(s)]
  IN  {i \in commitIndex + 1 .. LastLogIndex(s) :
         /\ i > s.lastIncludedIndex
         /\ IsMedianIndex(match, i)
         /\ EntryAt(s, i).term = s.currentTerm}

------------------------------------------------------------------------------
(* Compaction (handle_trigger_snapshot, handle_install_snapshot and the    *)
(* reconciliation of RaftActor::new) rewrites the log around a placeholder.*)

StartAt(s, index, term, suffix) ==
  [s EXCEPT !.log = <<Placeholder(index, term)>> \o suffix,
            !.lastIncludedIndex = index,
            !.lastIncludedTerm = term]

(* Mutant: the last compacted entry stays behind the placeholder.          *)
CompactBefore(s, index) ==
  StartAt(s, index, GetLogTerm(s, index), EntriesBetween(s, index, LastLogIndex(s)))

CompactTo(s, index) ==
  StartAt(s, index, GetLogTerm(s, index), EntriesBetween(s, index + 1, LastLogIndex(s)))

InstalledAt(s, index, term) == StartAt(s, index, term, <<>>)

(* The code keeps the entries whose own index is above the snapshot's; an  *)
(* entry's index is its place, so they are the end of the vector.          *)
Reconciled(s, index, term) ==
  StartAt(s, index, term, EntriesBetween(s, index + 1, LastLogIndex(s)))
==============================================================================
