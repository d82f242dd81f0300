------------------------------- MODULE RaftLog -------------------------------
(***************************************************************************)
(* The two algorithms of raft/state.rs as the code writes them: the loop   *)
(* of append_entries and the sorted quorum index of advance_commit_index.  *)
(* RaftCluster uses the closed forms of RaftState; here they are compared. *)
(***************************************************************************)
EXTENDS RaftState, SequencesExt

CONSTANTS
  MaxTerm,    \* bound: terms of the entries
  MaxLength   \* bound: entries of the log, and of a request

ASSUME RaftLogBound == MaxTerm \in Nat \ {0} /\ MaxLength \in Nat \ {0}

VARIABLES
  call,                                  \* the function called: "append" or "commit"
  s, prevIndex, prevTerm, entries,       \* the state and append_entries' arguments
  matchIndex, commitIndex, self,         \* what else advance_commit_index reads
  result

input == <<call, s, prevIndex, prevTerm, entries, matchIndex, commitIndex, self>>

NotRun == [log |-> <<>>, success |-> FALSE, commit |-> 0]

------------------------------------------------------------------------------
(* Mutant: a conflicting entry is replaced in place.                       *)
LoopReplaces(lastIncludedIndex, acc, entry) ==
  LET physical == acc.index - lastIncludedIndex + 1
      next == acc.index + 1
  IN  IF physical <= Len(acc.log)
      THEN [log |-> [acc.log EXCEPT ![physical] = entry], index |-> next]
      ELSE [log |-> Append(acc.log, entry), index |-> next]

(* Mutant: each entry truncates the vector.                                *)
LoopTruncates(lastIncludedIndex, acc, entry) ==
  LET physical == acc.index - lastIncludedIndex + 1
  IN  [log |-> Append(SubSeq(acc.log, 1, physical - 1), entry), index |-> acc.index + 1]

(* One turn of the loop; `index` is the index the code expects the entry   *)
(* to have, not the one it carries.                                        *)
LoopTurn(lastIncludedIndex, acc, entry) ==
  LET physical == acc.index - lastIncludedIndex + 1
      next == acc.index + 1
  IN  IF acc.index <= lastIncludedIndex THEN [acc EXCEPT !.index = next]
      ELSE IF physical <= Len(acc.log)
      THEN IF acc.log[physical].term # entry.term
           THEN [log |-> Append(SubSeq(acc.log, 1, physical - 1), entry), index |-> next]
           ELSE [acc EXCEPT !.index = next]
      ELSE [log |-> Append(acc.log, entry), index |-> next]

AppendLoop ==
  LET Turn(acc, entry) == LoopTurn(s.lastIncludedIndex, acc, entry)
  IN  FoldLeft(Turn, [log |-> s.log, index |-> prevIndex + 1], entries).log

Rejected ==
  \/ prevIndex < s.lastIncludedIndex
  \/ prevIndex > LastLogIndex(s)
  \/ GetLogTerm(s, prevIndex) # prevTerm

AppendCall ==
  [log |-> IF Rejected THEN s.log ELSE AppendLoop, success |-> ~Rejected, commit |-> 0]

(* Mutant: lowest first.                                                   *)
SortedAscending ==
  LET Below(i, j) == i < j
      peers == SetToSeq(Node \ {self})
  IN  SortSeq(Append([k \in 1 .. Len(peers) |-> matchIndex[peers[k]]], LastLogIndex(s)), Below)

(* The peers' match indices and the own last index, highest first.         *)
SortedMatches ==
  LET Above(i, j) == i > j
      peers == SetToSeq(Node \ {self})
  IN  SortSeq(Append([k \in 1 .. Len(peers) |-> matchIndex[peers[k]]], LastLogIndex(s)), Above)

AdvanceCommit ==
  LET n == SortedMatches[Len(SortedMatches) \div 2 + 1]
  IN  IF /\ n > commitIndex /\ n > s.lastIncludedIndex /\ n <= LastLogIndex(s)
         /\ EntryAt(s, n).term = s.currentTerm
      THEN {n} ELSE {}

------------------------------------------------------------------------------
Terms(length) == [1 .. length -> 1 .. MaxTerm]

Entries(first, terms, command) ==
  [k \in 1 .. Len(terms) |->
     [term |-> terms[k], index |-> first + k - 1, command |-> command]]

(* Every log after a snapshot at index 0 or 1, with non-decreasing terms.  *)
Ordered(terms) == \A i, j \in 1 .. Len(terms) : i <= j => terms[i] <= terms[j]

Logs ==
  {[currentTerm |-> MaxTerm, votedFor |-> Nil,
    log |-> <<Placeholder(first, first)>> \o Entries(first + 1, terms, "old"),
    lastIncludedIndex |-> first, lastIncludedTerm |-> first] :
     first \in 0 .. 1, terms \in {t \in UNION {Terms(k) : k \in 0 .. MaxLength} : Ordered(t)}}

AppendInit ==
  /\ call = "append"
  /\ s \in Logs
  /\ prevIndex \in 0 .. MaxLength + 2 /\ prevTerm \in 0 .. MaxTerm
  /\ \E terms \in UNION {Terms(k) : k \in 0 .. MaxLength} :
       Ordered(terms) /\ entries = Entries(prevIndex + 1, terms, "new")
  /\ matchIndex = [p \in Node |-> 0] /\ commitIndex = 0
  /\ self = CHOOSE n \in Node : TRUE
  /\ result = NotRun

CommitInit ==
  /\ call = "commit"
  /\ s \in Logs
  /\ self = CHOOSE n \in Node : TRUE
  /\ matchIndex \in [Node -> 0 .. MaxLength + 2]
  /\ commitIndex \in s.lastIncludedIndex .. LastLogIndex(s)
  /\ prevIndex = 0 /\ prevTerm = 0 /\ entries = <<>>
  /\ result = NotRun

append_entries ==
  /\ call = "append" /\ result = NotRun
  /\ result' = AppendCall
  /\ UNCHANGED input

advance_commit_index ==
  /\ call = "commit" /\ result = NotRun
  /\ \E commit \in IF AdvanceCommit = {} THEN {commitIndex} ELSE AdvanceCommit :
       result' = [log |-> s.log, success |-> AdvanceCommit # {}, commit |-> commit]
  /\ UNCHANGED input

Init == AppendInit \/ CommitInit

Next == append_entries \/ advance_commit_index

Spec == Init /\ [][Next]_<<input, result>>

------------------------------------------------------------------------------
(* append_entries returns what RaftState's closed form says, for every     *)
(* overlap, gap, conflict and compacted prefix.                            *)
AppendAsDefined ==
  call = "append" /\ result # NotRun =>
    /\ result.success = AppendConsistent(s, prevIndex, prevTerm)
    /\ result.log = IF result.success THEN MergeEntries(s, prevIndex, entries) ELSE s.log

(* A delayed request whose entries the follower already has takes nothing  *)
(* away, and after a success the follower's log has the request's terms.   *)
AppendKeepsAndAgrees ==
  call = "append" /\ result.success =>
    LET base == prevIndex - s.lastIncludedIndex + 1
        agrees == \A k \in 1 .. Len(entries) :
                    base + k <= Len(s.log) => s.log[base + k].term = entries[k].term
    IN  /\ \A k \in 1 .. base : result.log[k] = s.log[k]
        /\ \A k \in 1 .. Len(entries) : result.log[base + k].term = entries[k].term
        /\ agrees => Len(result.log) >= Len(s.log)
        /\ ~agrees => Len(result.log) = base + Len(entries)

(* advance_commit_index moves exactly when some index of the current term  *)
(* is on a majority, and then to the highest index a majority has.         *)
CommitAsDefined ==
  call = "commit" /\ result # NotRun =>
    IF result.success
    THEN /\ Committable(s, self, matchIndex, commitIndex) = {result.commit}
         /\ result.commit > commitIndex
    ELSE Committable(s, self, matchIndex, commitIndex) = {}
==============================================================================
