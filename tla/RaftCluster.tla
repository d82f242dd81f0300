----------------------------- MODULE RaftCluster -----------------------------
(***************************************************************************)
(* A cluster of Raft actors with a fixed membership, src/src/raft/actor.rs *)
(* One action is one whole turn of an actor's select loop (a message, an   *)
(* election or heartbeat tick), one step of a task the actor spawned, or a *)
(* crash or restart of a process.                                          *)
(*                                                                         *)
(* The network delays, reorders and loses messages: `messages` only grows  *)
(* and nothing forces a delivery.  A message delivered twice stands for    *)
(* two identical heartbeats; RequestVote, which is sent once per election, *)
(* is answered at most once per peer.                                      *)
(*                                                                         *)
(* A crash after a handler's only disk write and before its replies is the *)
(* handler followed by Crash, its messages never delivered; a panic on a   *)
(* failed write is a Crash before or after it.  Only the two handlers that *)
(* write twice have interrupted forms.                                     *)
(***************************************************************************)
EXTENDS RaftMessages

CONSTANTS
  LogSizeLimit,    \* RAFT_LOG_SIZE_LIMIT, elements of the log vector
  Campaigner,      \* bound: the nodes whose election timer fires
  MaxTerm,         \* bound: no election is started in this term
  MaxIndex,        \* bound: no client request is accepted beyond this index
  Fragile,         \* bound: the nodes that crash or whose disk writes fail
  MaxCrashes,      \* bound: processes killed
  MaxFaults,       \* bound: disk writes that return an error
  MaxFailures,     \* bound: both together
  MaxTicks,        \* bound: heartbeat ticks, besides the heartbeats of other handlers
  StaleSnapshots   \* may a snapshot reach a peer that already holds its last entry?

ASSUME BoundAssumption ==
  /\ LogSizeLimit \in Nat /\ Campaigner \subseteq Node /\ Fragile \subseteq Node
  /\ MaxTerm \in Nat /\ MaxIndex \in Nat
  /\ MaxCrashes \in Nat /\ MaxFaults \in Nat /\ MaxFailures \in Nat /\ MaxTicks \in Nat
  /\ StaleSnapshots \in BOOLEAN

VARIABLES
  hs, snapFile,                          \* disk: node_<id>.json, snapshot_<id>.json
  up, st, role, currentLeader,           \* the process; st is its HardState part
  commitIndex, lastApplied, data,        \* data: the entries applied, in order
  pending, snapQueue,                    \* waiting clients; TriggerSnapshots in the inbox
  nextIndex, matchIndex, ballot,         \* leader's and candidate's bookkeeping
  messages, snapTasks,                   \* RPCs and replies sent; snapshot tasks spawned
  elected, decided, answered,            \* history
  crashes, faults, ticks                 \* counters of the bounds

disk == <<hs, snapFile>>
progress == <<commitIndex, lastApplied, data, pending, snapQueue, answered>>
leadership == <<nextIndex, matchIndex>>
history == <<elected, decided>>
budget == <<crashes, faults, ticks>>
vars == <<disk, up, st, role, currentLeader, progress, leadership, ballot,
          messages, snapTasks, history, budget>>

Closed == [open |-> FALSE, heard |-> {}, granted |-> {}]
NoIndex == [p \in Node |-> 0]

(* An actor inside start_election does not look at its inbox or timers.    *)
Ready(n) == up[n] /\ ~ballot[n].open

Send(ms) == messages' = messages \cup ms

MayFail(n) == n \in Fragile /\ crashes + faults < MaxFailures

------------------------------------------------------------------------------
(* Steps that several handlers share.                                      *)

(* Mutant: the state is not persisted.                                     *)
Forgetful(n, s) ==
  st' = [st EXCEPT ![n] = s] /\ UNCHANGED hs

(* Mutate the state and persist it. *)
Write(n, s) ==
  /\ st' = [st EXCEPT ![n] = s]
  /\ hs' = [hs EXCEPT ![n] = s]

(* Mutant: all of the memory is rolled back.                               *)
WriteFailsForgets(n, s, memory) ==
  /\ MayFail(n) /\ faults < MaxFaults
  /\ faults' = faults + 1
  /\ UNCHANGED st
  /\ \E kept \in BOOLEAN : hs' = IF kept THEN [hs EXCEPT ![n] = s] ELSE hs

(* persist_state of s returned an error, before or after the rename made   *)
(* the new file visible; the handler goes on with `memory`.                *)
WriteFails(n, s, memory) ==
  /\ MayFail(n) /\ faults < MaxFaults
  /\ faults' = faults + 1
  /\ st' = [st EXCEPT ![n] = memory]
  /\ \E kept \in BOOLEAN : hs' = IF kept THEN [hs EXCEPT ![n] = s] ELSE hs

(* Mutant: the leader of the old term stays the hint.                      *)
StepDownQuietly(n) ==
  role' = [role EXCEPT ![n] = "Follower"] /\ UNCHANGED currentLeader

(* update_term's effect on the role and the leader hint. *)
StepDown(n) ==
  /\ role' = [role EXCEPT ![n] = "Follower"]
  /\ currentLeader' = [currentLeader EXCEPT ![n] = Nil]

(* Mutant: the leader of a new term is noted, the own role stays.          *)
Note(n, leader) ==
  currentLeader' = [currentLeader EXCEPT ![n] = leader] /\ UNCHANGED role

Follow(n, leader) ==
  /\ role' = [role EXCEPT ![n] = "Follower"]
  /\ currentLeader' = [currentLeader EXCEPT ![n] = leader]

(* apply_committed_entries after commit_index became `commit`.             *)
(* `waiting` are the clients in pending_requests at that point.            *)
ApplyCommitted(n, s, commit, waiting) ==
  LET from == Larger(lastApplied[n] + 1, s.lastIncludedIndex)
      to == Smaller(commit, LastLogIndex(s))
      served == {p \in waiting : p.index \in from .. to}
  IN  /\ commitIndex' = [commitIndex EXCEPT ![n] = commit]
      /\ lastApplied' = [lastApplied EXCEPT ![n] = Larger(@, commit)]
      /\ data' = [data EXCEPT ![n] = @ \o EntriesBetween(s, from, to)]
      /\ pending' = [pending EXCEPT ![n] = waiting \ served]
      /\ answered' = answered \cup
           {[asked |-> p, applied |-> EntryAt(s, p.index)] : p \in served}
      /\ snapQueue' = [snapQueue EXCEPT ![n] =
           IF Len(s.log) > LogSizeLimit THEN @ + 1 ELSE @]

(* send_heartbeats: a snapshot task for each peer whose next entry is      *)
(* compacted, AppendEntries for the others.                                *)
Heartbeats(n, s, next, commit) ==
  {AppendEntries(n, p, s, next[p], commit) :
     p \in {q \in Node \ {n} : next[q] > s.lastIncludedIndex}}

SnapshotTasks(n, s, next) ==
  {SnapshotTask(n, p, s) : p \in {q \in Node \ {n} : next[q] <= s.lastIncludedIndex}}

SendHeartbeats(n, s, next) ==
  /\ Send(Heartbeats(n, s, next, commitIndex[n]))
  /\ snapTasks' = snapTasks \cup SnapshotTasks(n, s, next)

(* advance_commit_index, and the application of what it committed.         *)
AdvanceCommit(n, s, match, waiting) ==
  LET new == Committable(s, n, match, commitIndex[n])
  IN  \/ /\ new = {}
         /\ pending' = [pending EXCEPT ![n] = waiting]
         /\ UNCHANGED <<commitIndex, lastApplied, data, snapQueue, answered, decided>>
      \/ \E i \in new :
           /\ ApplyCommitted(n, s, i, waiting)
           /\ decided' = decided \cup
                {EntryAt(s, j) : j \in Larger(commitIndex[n], s.lastIncludedIndex) + 1 .. i}

(* become_leader and the heartbeats that announce it. *)
BecomeLeader(n, s) ==
  LET next == [p \in Node |-> IF p = n THEN 0 ELSE LastLogIndex(s) + 1]
  IN  /\ role' = [role EXCEPT ![n] = "Leader"]
      /\ currentLeader' = [currentLeader EXCEPT ![n] = n]
      /\ nextIndex' = [nextIndex EXCEPT ![n] = next]
      /\ matchIndex' = [matchIndex EXCEPT ![n] = NoIndex]
      /\ elected' = elected \cup {<<s.currentTerm, n>>}
      /\ snapTasks' = snapTasks \cup SnapshotTasks(n, s, next)

------------------------------------------------------------------------------
(* Elections.                                                              *)

(* start_election up to its wait for votes; alone, a node needs no vote.   *)
StartElection(n) ==
  LET s == IncrementTerm(st[n], n)
  IN  /\ Ready(n) /\ role[n] # "Leader"
      /\ n \in Campaigner /\ st[n].currentTerm < MaxTerm
      /\ Write(n, s)
      /\ Send({RequestVote(n, s)})
      /\ \/ /\ Majority = 1
            /\ BecomeLeader(n, s)
            /\ UNCHANGED ballot
         \/ /\ Majority > 1
            /\ role' = [role EXCEPT ![n] = "Candidate"]
            /\ currentLeader' = [currentLeader EXCEPT ![n] = Nil]
            /\ ballot' = [ballot EXCEPT ![n] = [open |-> TRUE, heard |-> {}, granted |-> {n}]]
            /\ UNCHANGED <<leadership, elected, snapTasks>>
      /\ UNCHANGED <<snapFile, up, progress, decided, budget>>

StartElectionUnsaved(n) ==
  LET s == IncrementTerm(st[n], n)
  IN  /\ Ready(n) /\ role[n] # "Leader"
      /\ n \in Campaigner /\ st[n].currentTerm < MaxTerm
      /\ WriteFails(n, s, s)
      /\ StepDown(n)
      /\ UNCHANGED <<snapFile, up, progress, leadership, ballot, messages, snapTasks,
                     history, crashes, ticks>>

(* One turn of the loop that collects the replies.                         *)
ReceiveVote(n, m) ==
  /\ up[n] /\ ballot[n].open
  /\ m.type = "RequestVoteReply" /\ m.forTerm = st[n].currentTerm
  /\ m.src \notin ballot[n].heard
  /\ LET granted == IF m.granted THEN ballot[n].granted \cup {m.src} ELSE ballot[n].granted
     IN  \/ /\ m.term > st[n].currentTerm
            /\ Write(n, UpdateTerm(st[n], m.term))
            /\ StepDown(n)
            /\ ballot' = [ballot EXCEPT ![n] = Closed]
            /\ UNCHANGED <<leadership, messages, snapTasks, elected>>
         \/ /\ m.term <= st[n].currentTerm
            /\ Cardinality(granted) < Majority
            /\ ballot' = [ballot EXCEPT ![n] =
                 [open |-> TRUE, heard |-> @.heard \cup {m.src}, granted |-> granted]]
            /\ UNCHANGED <<hs, st, role, currentLeader, leadership, messages, snapTasks, elected>>
         \/ /\ m.term <= st[n].currentTerm
            /\ Cardinality(granted) >= Majority
            /\ BecomeLeader(n, st[n])
            /\ Send(Heartbeats(n, st[n], nextIndex'[n], commitIndex[n]))
            /\ ballot' = [ballot EXCEPT ![n] = Closed]
            /\ UNCHANGED <<hs, st>>
  /\ UNCHANGED <<snapFile, up, progress, decided, budget>>

(* Every call has returned or reached its deadline, without a majority.    *)
ElectionEnds(n) ==
  /\ up[n] /\ ballot[n].open
  /\ ballot' = [ballot EXCEPT ![n] = Closed]
  /\ UNCHANGED <<disk, up, st, role, currentLeader, progress, leadership, messages,
                 snapTasks, history, budget>>

Unanswered(n, m) ==
  ~\E r \in messages : /\ r.type = "RequestVoteReply" /\ r.src = n
                       /\ r.dst = m.src /\ r.forTerm = m.term

HandleRequestVote(n, m) ==
  LET s == UpdateTerm(st[n], m.term)
      grant == /\ m.term >= s.currentTerm
               /\ s.votedFor \in {Nil, m.src}
               /\ IsLogUpToDate(s, m.lastLogIndex, m.lastLogTerm)
      voted == IF grant THEN [s EXCEPT !.votedFor = m.src] ELSE s
  IN  /\ Ready(n)
      /\ m.type = "RequestVote" /\ Unanswered(n, m)
      /\ IF m.term > st[n].currentTerm THEN StepDown(n) ELSE UNCHANGED <<role, currentLeader>>
      /\ \/ /\ Write(n, voted)
            /\ Send({RequestVoteReply(m, n, s.currentTerm, grant)})
            /\ UNCHANGED faults
         \/ /\ WriteFails(n, voted, voted)
            /\ Send({RequestVoteReply(m, n, s.currentTerm, FALSE)})
      /\ UNCHANGED <<snapFile, up, progress, leadership, ballot, snapTasks, history, crashes, ticks>>

------------------------------------------------------------------------------
(* Replication.                                                            *)

HeartbeatTick(n) ==
  /\ Ready(n) /\ role[n] = "Leader"
  /\ ticks < MaxTicks
  /\ ticks' = ticks + 1
  /\ SendHeartbeats(n, st[n], nextIndex[n])
  /\ UNCHANGED <<disk, up, st, role, currentLeader, progress, leadership, ballot, history,
                 crashes, faults>>

(* handle_client_request of a leader.  The heartbeats carry the commit     *)
(* index of before the request.                                            *)
ClientRequest(n, v) ==
  LET s == PushEntry(st[n], v)
      entry == EntryAt(s, LastLogIndex(s))
      others == {p \in pending[n] : p.index # entry.index}
  IN  /\ Ready(n) /\ role[n] = "Leader"
      /\ LastLogIndex(st[n]) < MaxIndex
      /\ \/ /\ Write(n, s)
            /\ SendHeartbeats(n, s, nextIndex[n])
            /\ AdvanceCommit(n, s, matchIndex[n], others \cup {entry})
            /\ UNCHANGED faults
         \/ /\ WriteFails(n, s, st[n])
            /\ pending' = [pending EXCEPT ![n] = others]
            /\ UNCHANGED <<commitIndex, lastApplied, data, snapQueue, answered, decided,
                           messages, snapTasks>>
      /\ UNCHANGED <<snapFile, up, role, currentLeader, leadership, ballot, elected, crashes, ticks>>

StaleAppendEntries(n, m) ==
  /\ Ready(n)
  /\ m.type = "AppendEntries"
  /\ m.term < st[n].currentTerm
  /\ Send({Result(m, st[n].currentTerm, FALSE, 0)})
  /\ UNCHANGED <<disk, up, st, role, currentLeader, progress, leadership, ballot,
                 snapTasks, history, budget>>

HandleAppendEntries(n, m) ==
  LET s == UpdateTerm(st[n], m.term)
      consistent == AppendConsistent(s, m.prevIndex, m.prevTerm)
      merged == IF consistent THEN WithEntries(s, m.prevIndex, m.entries) ELSE s
      last == m.prevIndex + Len(m.entries)
  IN  /\ Ready(n)
      /\ m.type = "AppendEntries"
      /\ m.term >= st[n].currentTerm
      /\ Follow(n, m.src)
      /\ \/ /\ Write(n, merged)
            /\ Send({Result(m, s.currentTerm, consistent, last)})
            /\ IF consistent /\ m.leaderCommit > commitIndex[n]
               THEN ApplyCommitted(n, merged, Smaller(m.leaderCommit, LastLogIndex(merged)),
                                   pending[n])
               ELSE UNCHANGED progress
            /\ UNCHANGED faults
         \/ /\ WriteFails(n, merged, s)
            /\ Send({Result(m, s.currentTerm, FALSE, last)})
            /\ UNCHANGED progress
      /\ UNCHANGED <<snapFile, up, leadership, ballot, snapTasks, history, crashes, ticks>>

(* AppendEntriesResult: the reply of AppendEntries or InstallSnapshot.     *)
HandleResult(n, m) ==
  /\ Ready(n)
  /\ m.type = "AppendEntriesResult"
  /\ \/ /\ m.term > st[n].currentTerm
        /\ Write(n, UpdateTerm(st[n], m.term))
        /\ StepDown(n)
        /\ UNCHANGED <<progress, leadership, decided>>
     \/ /\ m.term = st[n].currentTerm /\ role[n] = "Leader"
        /\ IF m.success
           THEN LET match == [matchIndex[n] EXCEPT ![m.src] = m.lastLogIndex]
                IN  /\ matchIndex' = [matchIndex EXCEPT ![n] = match]
                    /\ nextIndex' = [nextIndex EXCEPT ![n][m.src] = m.lastLogIndex + 1]
                    /\ AdvanceCommit(n, st[n], match, pending[n])
           ELSE /\ nextIndex' = [nextIndex EXCEPT ![n][m.src] = StepBack(@)]
                /\ UNCHANGED <<matchIndex, progress, decided>>
        /\ UNCHANGED <<hs, st, role, currentLeader>>
  /\ UNCHANGED <<snapFile, up, ballot, messages, snapTasks, elected, budget>>

------------------------------------------------------------------------------
(* Snapshots.                                                              *)

(* A process that dies loses all but its disk; its tasks die with it.      *)
GoDown(n) ==
  /\ MayFail(n) /\ crashes < MaxCrashes
  /\ crashes' = crashes + 1
  /\ up' = [up EXCEPT ![n] = FALSE]
  /\ st' = [st EXCEPT ![n] = hs'[n]]
  /\ StepDown(n)
  /\ commitIndex' = [commitIndex EXCEPT ![n] = 0]
  /\ lastApplied' = [lastApplied EXCEPT ![n] = 0]
  /\ data' = [data EXCEPT ![n] = <<>>]
  /\ pending' = [pending EXCEPT ![n] = {}]
  /\ snapQueue' = [snapQueue EXCEPT ![n] = 0]
  /\ nextIndex' = [nextIndex EXCEPT ![n] = NoIndex]
  /\ matchIndex' = [matchIndex EXCEPT ![n] = NoIndex]
  /\ ballot' = [ballot EXCEPT ![n] = Closed]
  /\ snapTasks' = {t \in snapTasks : t.src # n}
  /\ UNCHANGED <<answered, history>>

Snapshot(index, term, entries) == [index |-> index, term |-> term, data |-> entries]

(* handle_trigger_snapshot: the snapshot is stored first; if that fails    *)
(* the log stays as it is, if the process dies next the log is compacted   *)
(* on restart.                                                             *)
TriggerSnapshot(n) ==
  LET index == lastApplied[n]
      due == index > st[n].lastIncludedIndex
      snapshot == Snapshot(index, GetLogTerm(st[n], index), data[n])
  IN  /\ Ready(n) /\ snapQueue[n] > 0
      /\ snapQueue' = [snapQueue EXCEPT ![n] = @ - 1]
      /\ \/ ~due /\ UNCHANGED <<disk, st, faults>>
         \/ /\ due /\ MayFail(n) /\ faults < MaxFaults
            /\ faults' = faults + 1
            /\ UNCHANGED <<disk, st>>
         \/ /\ due
            /\ snapFile' = [snapFile EXCEPT ![n] = snapshot]
            /\ IF InMemory(st[n], index)
               THEN Write(n, CompactTo(st[n], index)) ELSE UNCHANGED <<hs, st>>
            /\ UNCHANGED faults
      /\ UNCHANGED <<up, role, currentLeader, commitIndex, lastApplied, data, pending, answered,
                     leadership, ballot, messages, snapTasks, history, crashes, ticks>>

(* Mutant: the log is compacted first.                                     *)
CompactedButNotSaved(n) ==
  LET index == lastApplied[n]
  IN  /\ Ready(n) /\ snapQueue[n] > 0
      /\ index > st[n].lastIncludedIndex /\ InMemory(st[n], index)
      /\ hs' = [hs EXCEPT ![n] = CompactTo(st[n], index)]
      /\ UNCHANGED snapFile
      /\ GoDown(n)
      /\ UNCHANGED <<messages, faults, ticks>>

TriggerSnapshotInterrupted(n) ==
  LET index == lastApplied[n]
  IN  /\ Ready(n) /\ snapQueue[n] > 0
      /\ index > st[n].lastIncludedIndex
      /\ snapFile' = [snapFile EXCEPT ![n] =
           Snapshot(index, GetLogTerm(st[n], index), data[n])]
      /\ UNCHANGED hs
      /\ GoDown(n)
      /\ UNCHANGED <<messages, faults, ticks>>

(* The spawned task reads the file some time after the heartbeat that      *)
(* captured the index and the term.                                        *)
ReadSnapshot(t) ==
  /\ t \in snapTasks
  /\ snapFile[t.src] # Nil
  /\ Send({InstallSnapshot(t, snapFile[t.src])})
  /\ UNCHANGED <<disk, up, st, role, currentLeader, progress, leadership, ballot,
                 snapTasks, history, budget>>

(* A snapshot whose last entry the follower already has, or has compacted. *)
AlreadyHolds(s, index, term) ==
  \/ index < s.lastIncludedIndex
  \/ InMemory(s, index) /\ GetLogTerm(s, index) = term

Delivered(n, m) ==
  /\ m.type = "InstallSnapshot"
  /\ StaleSnapshots \/ ~AlreadyHolds(st[n], m.index, m.snapTerm)

StaleInstallSnapshot(n, m) ==
  /\ Ready(n) /\ Delivered(n, m)
  /\ m.term < st[n].currentTerm
  /\ Send({Result(m, st[n].currentTerm, FALSE, 0)})
  /\ UNCHANGED <<disk, up, st, role, currentLeader, progress, leadership, ballot,
                 snapTasks, history, budget>>

InstallSnapshotTermUnsaved(n, m) ==
  LET s == UpdateTerm(st[n], m.term)
  IN  /\ Ready(n) /\ Delivered(n, m)
      /\ m.term > st[n].currentTerm
      /\ WriteFails(n, s, s)
      /\ StepDown(n)
      /\ Send({Result(m, m.term, FALSE, 0)})
      /\ UNCHANGED <<snapFile, up, progress, leadership, ballot, snapTasks, history, crashes, ticks>>

(* The disk after the handler has made a higher term durable.              *)
TermSaved(n, m) ==
  IF m.term > st[n].currentTerm THEN UpdateTerm(st[n], m.term) ELSE hs[n]

BodyMatches(m) == m.body.index = m.index /\ m.body.term = m.snapTerm

(* The body is another snapshot than announced, or cannot be stored.       *)
RefuseSnapshot(n, m) ==
  /\ Ready(n) /\ Delivered(n, m)
  /\ m.term >= st[n].currentTerm
  /\ \/ ~BodyMatches(m) /\ UNCHANGED faults
     \/ BodyMatches(m) /\ MayFail(n) /\ faults < MaxFaults /\ faults' = faults + 1
  /\ st' = [st EXCEPT ![n] = UpdateTerm(@, m.term)]
  /\ hs' = [hs EXCEPT ![n] = TermSaved(n, m)]
  /\ Follow(n, m.src)
  /\ Send({Result(m, m.term, FALSE, 0)})
  /\ UNCHANGED <<snapFile, up, progress, leadership, ballot, snapTasks, history, crashes, ticks>>

(* handle_install_snapshot to its end: nothing compares the snapshot with  *)
(* what the follower has, and the log is emptied.                          *)
HandleInstallSnapshot(n, m) ==
  /\ Ready(n) /\ Delivered(n, m) /\ BodyMatches(m)
  /\ m.term >= st[n].currentTerm
  /\ Write(n, InstalledAt(UpdateTerm(st[n], m.term), m.index, m.snapTerm))
  /\ snapFile' = [snapFile EXCEPT ![n] = m.body]
  /\ Follow(n, m.src)
  /\ data' = [data EXCEPT ![n] = m.body.data]
  /\ commitIndex' = [commitIndex EXCEPT ![n] = m.index]
  /\ lastApplied' = [lastApplied EXCEPT ![n] = m.index]
  /\ Send({Result(m, m.term, TRUE, m.index)})
  /\ UNCHANGED <<up, pending, snapQueue, answered, leadership, ballot, snapTasks, history, budget>>

(* The process dies before or after the snapshot replaced its file.        *)
InstallSnapshotInterrupted(n, m) ==
  /\ Ready(n) /\ Delivered(n, m) /\ BodyMatches(m)
  /\ m.term >= st[n].currentTerm
  /\ hs' = [hs EXCEPT ![n] = TermSaved(n, m)]
  /\ \E stored \in BOOLEAN :
       snapFile' = IF stored THEN [snapFile EXCEPT ![n] = m.body] ELSE snapFile
  /\ GoDown(n)
  /\ UNCHANGED <<messages, faults, ticks>>

------------------------------------------------------------------------------
(* Crashes.                                                                *)

Crash(n) ==
  /\ up[n]
  /\ UNCHANGED disk
  /\ GoDown(n)
  /\ UNCHANGED <<messages, faults, ticks>>

(* RaftActor::new panics on a snapshot that is missing, older than the     *)
(* HardState, or of another term.                                          *)
Startable(s, file) ==
  IF file = Nil THEN s.lastIncludedIndex = 0
  ELSE \/ file.index > s.lastIncludedIndex
       \/ file.index = s.lastIncludedIndex /\ file.term = s.lastIncludedTerm

(* Mutant: the log is not brought up to the snapshot.                      *)
Unreconciled(s, file) == s

Recovered(s, file) ==
  IF file # Nil /\ file.index > s.lastIncludedIndex
  THEN Reconciled(s, file.index, file.term) ELSE s

Restart(n) ==
  LET s == Recovered(hs[n], snapFile[n])
  IN  /\ ~up[n]
      /\ Startable(hs[n], snapFile[n])
      /\ up' = [up EXCEPT ![n] = TRUE]
      /\ Write(n, s)
      /\ commitIndex' = [commitIndex EXCEPT ![n] = s.lastIncludedIndex]
      /\ lastApplied' = [lastApplied EXCEPT ![n] = s.lastIncludedIndex]
      /\ data' = [data EXCEPT ![n] = IF snapFile[n] = Nil THEN <<>> ELSE snapFile[n].data]
      /\ UNCHANGED <<snapFile, role, currentLeader, pending, snapQueue, answered, leadership,
                     ballot, messages, snapTasks, history, budget>>

------------------------------------------------------------------------------
Init ==
  /\ hs = [n \in Node |-> FreshState] /\ snapFile = [n \in Node |-> Nil]
  /\ up = [n \in Node |-> TRUE]
  /\ st = [n \in Node |-> FreshState]
  /\ role = [n \in Node |-> "Follower"] /\ currentLeader = [n \in Node |-> Nil]
  /\ commitIndex = NoIndex /\ lastApplied = NoIndex /\ data = [n \in Node |-> <<>>]
  /\ pending = [n \in Node |-> {}] /\ snapQueue = NoIndex
  /\ nextIndex = [n \in Node |-> NoIndex] /\ matchIndex = [n \in Node |-> NoIndex]
  /\ ballot = [n \in Node |-> Closed]
  /\ messages = {} /\ snapTasks = {}
  /\ elected = {} /\ decided = {} /\ answered = {}
  /\ crashes = 0 /\ faults = 0 /\ ticks = 0

Receivers(m) == IF m.type = "RequestVote" THEN Node \ {m.src} ELSE {m.dst}

Receive(n, m) ==
  \/ ReceiveVote(n, m)
  \/ HandleRequestVote(n, m)
  \/ StaleAppendEntries(n, m)
  \/ HandleAppendEntries(n, m)
  \/ HandleResult(n, m)
  \/ StaleInstallSnapshot(n, m)
  \/ InstallSnapshotTermUnsaved(n, m)
  \/ RefuseSnapshot(n, m)
  \/ HandleInstallSnapshot(n, m)
  \/ InstallSnapshotInterrupted(n, m)

Step(n) ==
  \/ StartElection(n)
  \/ StartElectionUnsaved(n)
  \/ ElectionEnds(n)
  \/ HeartbeatTick(n)
  \/ \E v \in Value : ClientRequest(n, v)
  \/ TriggerSnapshot(n)
  \/ TriggerSnapshotInterrupted(n)
  \/ Crash(n)
  \/ Restart(n)

Next ==
  \/ \E n \in Node : Step(n)
  \/ \E m \in messages : \E n \in Receivers(m) : Receive(n, m)
  \/ \E t \in snapTasks : ReadSnapshot(t)

Spec == Init /\ [][Next]_vars

==============================================================================
