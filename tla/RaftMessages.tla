---------------------------- MODULE RaftMessages ----------------------------
(***************************************************************************)
(* The RPCs and replies that the actors exchange, src/src/rpc.rs, as the   *)
(* handlers and tasks of src/src/raft/actor.rs fill them in.  A message is *)
(* a record; its sender and receiver are the two ends of the connection.   *)
(***************************************************************************)
EXTENDS RaftState

RequestVote(n, s) ==
  [type |-> "RequestVote", src |-> n, term |-> s.currentTerm,
   lastLogIndex |-> LastLogIndex(s), lastLogTerm |-> LastLogTerm(s)]

RequestVoteReply(m, n, term, granted) ==
  [type |-> "RequestVoteReply", src |-> n, dst |-> m.src, forTerm |-> m.term,
   term |-> term, granted |-> granted]

(* Mutant: the commit index sent is the last index.                        *)
AppendUncommitted(n, p, s, next, commit) ==
  [type |-> "AppendEntries", src |-> n, dst |-> p, term |-> s.currentTerm,
   prevIndex |-> next - 1, prevTerm |-> GetLogTerm(s, next - 1),
   entries |-> EntriesBetween(s, next, LastLogIndex(s)), leaderCommit |-> LastLogIndex(s)]

(* Mutant: the entries begin one late.                                     *)
AppendSkipping(n, p, s, next, commit) ==
  [type |-> "AppendEntries", src |-> n, dst |-> p, term |-> s.currentTerm,
   prevIndex |-> next - 1, prevTerm |-> GetLogTerm(s, next - 1),
   entries |-> EntriesBetween(s, next + 1, LastLogIndex(s)), leaderCommit |-> commit]

AppendEntries(n, p, s, next, commit) ==
  [type |-> "AppendEntries", src |-> n, dst |-> p, term |-> s.currentTerm,
   prevIndex |-> next - 1, prevTerm |-> GetLogTerm(s, next - 1),
   entries |-> EntriesBetween(s, next, LastLogIndex(s)), leaderCommit |-> commit]

SnapshotTask(n, p, s) ==
  [src |-> n, dst |-> p, term |-> s.currentTerm,
   index |-> s.lastIncludedIndex, snapTerm |-> s.lastIncludedTerm]

InstallSnapshot(t, body) ==
  [type |-> "InstallSnapshot", src |-> t.src, dst |-> t.dst, term |-> t.term,
   index |-> t.index, snapTerm |-> t.snapTerm, body |-> body]

(* The task that made the call puts the reply in the leader's inbox as an  *)
(* AppendEntriesResult, with the index it had sent.  A failure's index is  *)
(* never read.                                                             *)
Result(m, term, success, index) ==
  [type |-> "AppendEntriesResult", src |-> m.dst, dst |-> m.src, term |-> term,
   success |-> success, lastLogIndex |-> IF success THEN index ELSE 0]

------------------------------------------------------------------------------
(* Indices.                                                                *)

Larger(i, j) == IF i >= j THEN i ELSE j
Smaller(i, j) == IF i <= j THEN i ELSE j

(* Mutant: nothing stops at the first index.                               *)
StepBackAnywhere(index) == index - 1

(* Where a leader goes on after a reply that refused its entries.          *)
StepBack(index) == IF index > 1 THEN index - 1 ELSE 1
==============================================================================
