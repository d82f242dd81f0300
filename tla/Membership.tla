------------------------------ MODULE Membership ------------------------------
(***************************************************************************)
(* A cluster whose members change, src/src/raft/actor.rs: the peers of     *)
(* each node, in memory and in its HardState, the AddNode and RemoveNode   *)
(* entries that change them, the start of a pod that is not a member yet,  *)
(* and the elections and commitments that count the peers.                 *)
(*                                                                         *)
(* A change counts on the leader from the append on and on the others from *)
(* the application on, so that several configurations are in use at once.  *)
(*                                                                         *)
(* RaftCluster models the disk's failures and the snapshots in full, with  *)
(* fixed peers.  Here a write may fail where the handler changes the       *)
(* peers, and the logs are shorter than RAFT_LOG_SIZE_LIMIT.  The network  *)
(* is that of RaftCluster; a connection that is down is a call that is     *)
(* lost, so that `clients` are the nodes a candidate may reach.            *)
(***************************************************************************)
EXTENDS RaftMessages

CONSTANTS
  Initial,      \* the ids in PEERS, the configured membership
  Leaver,       \* bound: the nodes an operator removes
  Campaigner,   \* bound: the nodes whose election timer fires
  MaxTerm,      \* bound: no election is started in this term
  MaxIndex,     \* bound: no client request is accepted beyond this index
  MaxChanges,   \* bound: AddNode and RemoveNode entries appended
  Fragile,      \* bound: the nodes that crash or whose disk writes fail
  MaxFailures,  \* bound: crashes and failed writes together
  MaxTicks      \* bound: heartbeat ticks, besides the heartbeats of other handlers

ASSUME MembershipAssumption ==
  /\ Initial # {} /\ Initial \subseteq Node
  /\ Leaver \subseteq Node /\ Campaigner \subseteq Node /\ Fragile \subseteq Node
  /\ MaxTerm \in Nat /\ MaxIndex \in Nat /\ MaxChanges \in Nat
  /\ MaxFailures \in Nat /\ MaxTicks \in Nat

VARIABLES
  disk,                    \* node_<id>.json: Nil, or a HardState and the peers
  mode,                    \* "down", "joining" (inside bootstrap) or "running"
  st, peers,               \* the HardState in memory, and its peers
  clients, connecting,     \* peers with an RPC client; tasks that connect
  role, commitIndex, lastApplied,
  nextIndex, matchIndex,   \* maps: their domains are the peers they know
  ballot,
  offer,                   \* the answer to a node's call of apply_membership
  messages,
  elected, decided, known, \* history; known[n]: the changes n has applied
  changes, failures, ticks \* counters of the bounds

process == <<mode, offer>>
progress == <<commitIndex, lastApplied, known>>
leadership == <<nextIndex, matchIndex>>
links == <<clients, connecting>>
history == <<elected, decided>>
budget == <<changes, failures, ticks>>
vars == <<disk, process, st, peers, links, role, progress, leadership, ballot, messages,
          history, budget>>

Change == [op : {"AddNode", "RemoveNode"}, id : Node]
AddNode(p) == [op |-> "AddNode", id |-> p]
RemoveNode(p) == [op |-> "RemoveNode", id |-> p]

EntryType == [term : Nat, index : Nat, command : Command \cup Change]

(* The HardState of a node that has no snapshot, and its file.             *)
MemberState == [currentTerm : Nat,
                votedFor : Node \cup {Nil},
                log : Seq(EntryType) \ {<<>>},
                lastIncludedIndex : {0},
                lastIncludedTerm : {0}]

File == [state : MemberState, peers : SUBSET Node]

ASSUME ChangeAssumption == Command \cap Change = {}

ASSUME NoneAssumption == Nil \notin File /\ \A ps \in SUBSET Node : Nil # ps

Closed == [open |-> FALSE, heard |-> {}, granted |-> {}]

Ready(n) == mode[n] = "running" /\ ~ballot[n].open

Send(ms) == messages' = messages \cup ms

(* insert and remove of a HashMap.                                         *)
With(map, p, i) == [q \in DOMAIN map \cup {p} |-> IF q = p THEN i ELSE map[q]]

Without(map, p) == [q \in DOMAIN map \ {p} |-> map[q]]

MayFail(n) == n \in Fragile /\ failures < MaxFailures

------------------------------------------------------------------------------
(* Configurations.                                                         *)

(* Those an election counts: the peers, and the own id exactly once.       *)
Members(n, ps) == ps \cup {n}

(* Mutant: half of the members are enough.                                 *)
HalfOf(members) == (Cardinality(members) + 1) \div 2

QuorumOf(members) == Cardinality(members) \div 2 + 1

(* The element at half the length of the sorted match indices and the own  *)
(* last index.  The length is that of the map, whoever is in it.           *)
IsMedian(s, match, i) ==
  LET quorum == (Cardinality(DOMAIN match) + 1) \div 2 + 1
      own(b) == IF b THEN 1 ELSE 0
  IN  /\ Cardinality({p \in DOMAIN match : match[p] >= i}) + own(LastLogIndex(s) >= i) >= quorum
      /\ Cardinality({p \in DOMAIN match : match[p] > i}) + own(LastLogIndex(s) > i) < quorum

(* The indices advance_commit_index may move to: none or one.              *)
CommittableIn(s, match, commit) ==
  {i \in commit + 1 .. LastLogIndex(s) :
     IsMedian(s, match, i) /\ EntryAt(s, i).term = s.currentTerm}

Changed(ps, command) ==
  IF command \notin Change THEN ps
  ELSE IF command.op = "AddNode" THEN ps \cup {command.id}
  ELSE ps \ {command.id}

(* Mutant: the change is not saved.                                        *)
ApplyUnsaved(acc, entry) ==
  [acc EXCEPT !.peers = Changed(@, entry.command)]

(* The application of one entry: a change that alters the peers is saved.  *)
(* acc.saved are the peers last written to the disk, if any were.          *)
ApplyEntry(acc, entry) ==
  LET ps == Changed(acc.peers, entry.command)
  IN  [peers |-> ps, saved |-> IF ps = acc.peers THEN acc.saved ELSE ps]

ApplyEntries(begin, entries) ==
  LET acc[k \in 0 .. Len(entries)] ==
        IF k = 0 THEN begin ELSE ApplyEntry(acc[k - 1], entries[k])
  IN  acc[Len(entries)]

------------------------------------------------------------------------------
(* Steps that several handlers share.                                      *)

Save(n, s, ps) ==
  /\ st' = [st EXCEPT ![n] = s]
  /\ peers' = [peers EXCEPT ![n] = ps]
  /\ disk' = [disk EXCEPT ![n] = [state |-> s, peers |-> ps]]

(* A failed write, before or after the new file became visible; memory is  *)
(* rolled back to what it was.                                             *)
SaveFails(n, s, ps) ==
  /\ MayFail(n) /\ failures' = failures + 1
  /\ UNCHANGED <<st, peers>>
  /\ \E kept \in BOOLEAN :
       disk' = IF kept THEN [disk EXCEPT ![n] = [state |-> s, peers |-> ps]] ELSE disk

StepDown(n) == role' = [role EXCEPT ![n] = "Follower"]

(* apply_committed_entries up to `commit`; `written` says that the handler *)
(* has already made s and the peers of before durable.                     *)
ApplyCommitted(n, s, commit, written) ==
  LET to == Smaller(commit, LastLogIndex(s))
      due == EntriesBetween(s, lastApplied[n] + 1, to)
      result == ApplyEntries([peers |-> peers[n], saved |-> IF written THEN peers[n] ELSE Nil],
                             due)
  IN  /\ commitIndex' = [commitIndex EXCEPT ![n] = commit]
      /\ lastApplied' = [lastApplied EXCEPT ![n] = Larger(@, commit)]
      /\ known' = [known EXCEPT ![n] =
           @ \cup {due[k] : k \in {j \in DOMAIN due : due[j].command \in Change}}]
      /\ st' = [st EXCEPT ![n] = s]
      /\ peers' = [peers EXCEPT ![n] = result.peers]
      /\ disk' = IF result.saved = Nil THEN disk
                 ELSE [disk EXCEPT ![n] = [state |-> s, peers |-> result.saved]]

AdvanceCommit(n, s, match, written) ==
  LET new == CommittableIn(s, match, commitIndex[n])
  IN  \/ /\ new = {}
         /\ IF written THEN Save(n, s, peers[n]) ELSE UNCHANGED <<disk, st, peers>>
         /\ UNCHANGED <<progress, decided>>
      \/ \E i \in new :
           /\ ApplyCommitted(n, s, i, written)
           /\ decided' = decided \cup {EntryAt(s, j) : j \in commitIndex[n] + 1 .. i}

NextOf(next, p) == IF p \in DOMAIN next THEN next[p] ELSE 1

Heartbeats(n, s, ps, next) ==
  {AppendEntries(n, p, s, NextOf(next, p), commitIndex[n]) : p \in ps \ {n}}

(* send_heartbeats; a task without a client connects first and reports it. *)
SendHeartbeats(n, s, ps, next) ==
  /\ Send(Heartbeats(n, s, ps, next))
  /\ connecting' = [connecting EXCEPT ![n] = @ \cup (ps \ (clients'[n] \cup {n}))]

(* become_leader and its heartbeats; `granted` are the votes it counted.   *)
BecomeLeader(n, s, granted, requests) ==
  LET others == peers[n] \ {n}
      next == [p \in others |-> LastLogIndex(s) + 1]
  IN  /\ role' = [role EXCEPT ![n] = "Leader"]
      /\ nextIndex' = [nextIndex EXCEPT ![n] = next]
      /\ matchIndex' = [matchIndex EXCEPT ![n] = [p \in others |-> 0]]
      /\ elected' = elected \cup {[term |-> s.currentTerm, leader |-> n,
                                   votes |-> granted, members |-> Members(n, peers[n])]}
      /\ Send(requests \cup Heartbeats(n, s, peers[n], next))
      /\ connecting' = [connecting EXCEPT ![n] = @ \cup (others \ clients'[n])]

------------------------------------------------------------------------------
(* Elections.                                                              *)

RequestVoteOf(n, s, asked) ==
  [type |-> "RequestVote", src |-> n, asked |-> asked, term |-> s.currentTerm,
   lastLogIndex |-> LastLogIndex(s), lastLogTerm |-> LastLogTerm(s)]

(* start_election: the peers without a client are connected, and then all  *)
(* clients are asked, whether or not they are still peers.                 *)
StartElection(n) ==
  LET s == IncrementTerm(st[n], n)
      reached == (clients[n] \cup peers[n]) \ {n}
      request == RequestVoteOf(n, s, reached)
      quorum == QuorumOf(Members(n, peers[n]))
  IN  /\ Ready(n) /\ role[n] # "Leader"
      /\ n \in Campaigner /\ st[n].currentTerm < MaxTerm
      /\ Save(n, s, peers[n])
      /\ clients' = [clients EXCEPT ![n] = reached]
      /\ \/ /\ quorum = 1
            /\ BecomeLeader(n, s, {n}, {request})
            /\ UNCHANGED ballot
         \/ /\ quorum > 1
            /\ role' = [role EXCEPT ![n] = "Candidate"]
            /\ ballot' = [ballot EXCEPT ![n] = [open |-> TRUE, heard |-> {}, granted |-> {n}]]
            /\ Send({request})
            /\ UNCHANGED <<leadership, elected, connecting>>
      /\ UNCHANGED <<process, progress, decided, budget>>

(* One turn of the loop that collects the replies.                         *)
ReceiveVote(n, m) ==
  LET granted == IF m.granted THEN ballot[n].granted \cup {m.src} ELSE ballot[n].granted
      quorum == QuorumOf(Members(n, peers[n]))
  IN  /\ mode[n] = "running" /\ ballot[n].open
      /\ m.type = "RequestVoteReply" /\ m.forTerm = st[n].currentTerm
      /\ m.src \notin ballot[n].heard
      /\ UNCHANGED clients
      /\ \/ /\ m.term > st[n].currentTerm
            /\ Save(n, UpdateTerm(st[n], m.term), peers[n])
            /\ StepDown(n)
            /\ ballot' = [ballot EXCEPT ![n] = Closed]
            /\ UNCHANGED <<leadership, messages, elected, connecting>>
         \/ /\ m.term <= st[n].currentTerm
            /\ Cardinality(granted) < quorum
            /\ ballot' = [ballot EXCEPT ![n] =
                 [open |-> TRUE, heard |-> @.heard \cup {m.src}, granted |-> granted]]
            /\ UNCHANGED <<disk, st, peers, role, leadership, messages, elected, connecting>>
         \/ /\ m.term <= st[n].currentTerm
            /\ Cardinality(granted) >= quorum
            /\ UNCHANGED <<disk, st, peers>>
            /\ BecomeLeader(n, st[n], granted, {})
            /\ ballot' = [ballot EXCEPT ![n] = Closed]
      /\ UNCHANGED <<process, progress, decided, budget>>

(* Every call has returned or reached its deadline, without a quorum.      *)
ElectionEnds(n) ==
  /\ mode[n] = "running" /\ ballot[n].open
  /\ ballot' = [ballot EXCEPT ![n] = Closed]
  /\ UNCHANGED <<disk, process, st, peers, links, role, progress, leadership, messages,
                 history, budget>>

(* A voter knows its log, its term and its vote; it does not ask whether   *)
(* the candidate is a peer.                                                *)
HandleRequestVote(n, m) ==
  LET s == UpdateTerm(st[n], m.term)
      grant == /\ m.term >= s.currentTerm
               /\ s.votedFor \in {Nil, m.src}
               /\ IsLogUpToDate(s, m.lastLogIndex, m.lastLogTerm)
      answered == \E r \in messages : /\ r.type = "RequestVoteReply" /\ r.src = n
                                      /\ r.dst = m.src /\ r.forTerm = m.term
  IN  /\ Ready(n)
      /\ m.type = "RequestVote" /\ ~answered
      /\ Save(n, IF grant THEN [s EXCEPT !.votedFor = m.src] ELSE s, peers[n])
      /\ IF m.term > st[n].currentTerm THEN StepDown(n) ELSE UNCHANGED role
      /\ Send({RequestVoteReply(m, n, s.currentTerm, grant)})
      /\ UNCHANGED <<process, links, progress, leadership, ballot, history, budget>>

------------------------------------------------------------------------------
(* Replication.                                                            *)

HeartbeatTick(n) ==
  /\ Ready(n) /\ role[n] = "Leader"
  /\ ticks < MaxTicks
  /\ ticks' = ticks + 1
  /\ UNCHANGED clients
  /\ SendHeartbeats(n, st[n], peers[n], nextIndex[n])
  /\ UNCHANGED <<disk, process, st, peers, role, progress, leadership, ballot, history,
                 changes, failures>>

ClientRequest(n, v) ==
  LET s == PushEntry(st[n], v)
  IN  /\ Ready(n) /\ role[n] = "Leader"
      /\ LastLogIndex(st[n]) < MaxIndex
      /\ UNCHANGED clients
      /\ SendHeartbeats(n, s, peers[n], nextIndex[n])
      /\ AdvanceCommit(n, s, matchIndex[n], TRUE)
      /\ UNCHANGED <<process, role, leadership, ballot, elected, budget>>

StaleAppendEntries(n, m) ==
  /\ Ready(n)
  /\ m.type = "AppendEntries" /\ m.term < st[n].currentTerm
  /\ Send({Result(m, st[n].currentTerm, FALSE, 0)})
  /\ UNCHANGED <<disk, process, st, peers, links, role, progress, leadership, ballot,
                 history, budget>>

(* The log an AppendEntries leaves.                                        *)
Merged(n, m) ==
  LET s == UpdateTerm(st[n], m.term)
  IN  IF AppendConsistent(s, m.prevIndex, m.prevTerm)
      THEN WithEntries(s, m.prevIndex, m.entries) ELSE s

HandleAppendEntries(n, m) ==
  LET s == Merged(n, m)
      consistent == AppendConsistent(st[n], m.prevIndex, m.prevTerm)
  IN  /\ Ready(n)
      /\ m.type = "AppendEntries" /\ m.term >= st[n].currentTerm
      /\ StepDown(n)
      /\ Send({Result(m, s.currentTerm, consistent, m.prevIndex + Len(m.entries))})
      /\ IF consistent /\ m.leaderCommit > commitIndex[n]
         THEN ApplyCommitted(n, s, Smaller(m.leaderCommit, LastLogIndex(s)), TRUE)
         ELSE Save(n, s, peers[n]) /\ UNCHANGED progress
      /\ UNCHANGED <<process, links, leadership, ballot, history, budget>>

(* AppendEntriesResult.  Nothing asks whether the sender is still a peer:  *)
(* a late success of a removed node puts it back into the maps.            *)
HandleResult(n, m) ==
  /\ Ready(n)
  /\ m.type = "AppendEntriesResult"
  /\ \/ /\ m.term > st[n].currentTerm
        /\ Save(n, UpdateTerm(st[n], m.term), peers[n])
        /\ StepDown(n)
        /\ UNCHANGED <<progress, leadership, decided>>
     \/ /\ m.term = st[n].currentTerm /\ role[n] = "Leader"
        /\ IF m.success
           THEN LET match == With(matchIndex[n], m.src, m.lastLogIndex)
                IN  /\ matchIndex' = [matchIndex EXCEPT ![n] = match]
                    /\ nextIndex' = [nextIndex EXCEPT ![n] = With(@, m.src, m.lastLogIndex + 1)]
                    /\ AdvanceCommit(n, st[n], match, FALSE)
           ELSE /\ nextIndex' = [nextIndex EXCEPT ![n] =
                     With(@, m.src, StepBack(NextOf(@, m.src)))]
                /\ UNCHANGED <<disk, st, peers, matchIndex, progress, decided>>
        /\ UNCHANGED role
  /\ UNCHANGED <<process, links, ballot, messages, elected, budget>>

(* UpdatePeerClient: a task has connected, whatever became of the peer.    *)
UpdatePeerClient(n, p) ==
  /\ Ready(n) /\ p \in connecting[n]
  /\ clients' = [clients EXCEPT ![n] = @ \cup {p}]
  /\ connecting' = [connecting EXCEPT ![n] = @ \ {p}]
  /\ UNCHANGED <<disk, process, st, peers, role, progress, leadership, ballot, messages,
                 history, budget>>

------------------------------------------------------------------------------
(* Changes.                                                                *)

(* handle_apply_membership of a leader, for the pod p that waits inside    *)
(* bootstrap.  The answer does not wait for the commitment.                *)
ApplyMembership(n, p) ==
  LET s == PushEntry(st[n], AddNode(p))
      ps == peers[n] \cup {p}
  IN  /\ Ready(n) /\ role[n] = "Leader"
      /\ mode[p] = "joining" /\ offer[p] = Nil
      /\ \/ /\ p \in peers[n]
            /\ offer' = [offer EXCEPT ![p] = peers[n] \cup {n}]
            /\ UNCHANGED <<disk, st, peers, links, leadership, messages, budget>>
         \/ /\ p \notin peers[n] /\ changes < MaxChanges
            /\ changes' = changes + 1
            /\ Save(n, s, ps)
            /\ nextIndex' = [nextIndex EXCEPT ![n] = With(@, p, LastLogIndex(st[n]) + 1)]
            /\ matchIndex' = [matchIndex EXCEPT ![n] = With(@, p, 0)]
            /\ \E connects \in BOOLEAN :
                 clients' = IF connects THEN [clients EXCEPT ![n] = @ \cup {p}] ELSE clients
            /\ SendHeartbeats(n, s, ps, nextIndex'[n])
            /\ offer' = [offer EXCEPT ![p] = ps \cup {n}]
            /\ UNCHANGED failures
         \/ /\ p \notin peers[n] /\ changes < MaxChanges
            /\ changes' = changes + 1
            /\ SaveFails(n, s, ps)
            /\ UNCHANGED <<offer, links, leadership, messages>>
      /\ UNCHANGED <<mode, role, progress, ballot, history, ticks>>

(* handle_remove_membership of a leader, which may remove itself.          *)
RemoveMembership(n, p) ==
  LET s == PushEntry(st[n], RemoveNode(p))
      ps == peers[n] \ {p}
  IN  /\ Ready(n) /\ role[n] = "Leader"
      /\ p \in peers[n] \cap Leaver /\ changes < MaxChanges
      /\ changes' = changes + 1
      /\ \/ /\ Save(n, s, ps)
            /\ nextIndex' = [nextIndex EXCEPT ![n] = Without(@, p)]
            /\ matchIndex' = [matchIndex EXCEPT ![n] = Without(@, p)]
            /\ clients' = [clients EXCEPT ![n] = @ \ {p}]
            /\ SendHeartbeats(n, s, ps, nextIndex'[n])
            /\ UNCHANGED failures
         \/ /\ SaveFails(n, s, ps)
            /\ UNCHANGED <<links, leadership, messages>>
      /\ UNCHANGED <<process, role, progress, ballot, history, ticks>>

------------------------------------------------------------------------------
(* Processes.                                                              *)

(* The rest of bootstrap: the leader's list is made durable.               *)
FinishBootstrap(n) ==
  /\ mode[n] = "joining" /\ offer[n] # Nil
  /\ offer' = [offer EXCEPT ![n] = Nil]
  /\ \/ /\ Save(n, st[n], offer[n])
        /\ mode' = [mode EXCEPT ![n] = "running"]
        /\ UNCHANGED failures
     \/ /\ SaveFails(n, st[n], offer[n])
        /\ mode' = [mode EXCEPT ![n] = "down"]
  /\ UNCHANGED <<links, role, progress, leadership, ballot, messages, history, changes, ticks>>

(* No leader found in three tries, or its answer lost: the process exits.  *)
BootstrapFails(n) ==
  /\ mode[n] = "joining"
  /\ mode' = [mode EXCEPT ![n] = "down"]
  /\ offer' = [offer EXCEPT ![n] = Nil]
  /\ UNCHANGED <<disk, st, peers, links, role, progress, leadership, ballot, messages,
                 history, budget>>

GoDown(n) ==
  /\ MayFail(n) /\ failures' = failures + 1
  /\ mode' = [mode EXCEPT ![n] = "down"]
  /\ StepDown(n)
  /\ commitIndex' = [commitIndex EXCEPT ![n] = 0]
  /\ lastApplied' = [lastApplied EXCEPT ![n] = 0]
  /\ nextIndex' = [nextIndex EXCEPT ![n] = <<>>]
  /\ matchIndex' = [matchIndex EXCEPT ![n] = <<>>]
  /\ clients' = [clients EXCEPT ![n] = {}]
  /\ connecting' = [connecting EXCEPT ![n] = {}]
  /\ ballot' = [ballot EXCEPT ![n] = Closed]
  /\ UNCHANGED <<offer, known, history, changes, ticks>>

Crash(n) ==
  /\ mode[n] = "running"
  /\ GoDown(n)
  /\ UNCHANGED <<disk, st, peers, messages>>

(* The process dies between the write of the entries and the write of the  *)
(* peers that their application changes.                                   *)
AppendEntriesInterrupted(n, m) ==
  /\ Ready(n)
  /\ m.type = "AppendEntries" /\ m.term >= st[n].currentTerm
  /\ GoDown(n)
  /\ Save(n, Merged(n, m), peers[n])
  /\ UNCHANGED messages

(* Mutant: a restarted node goes by the configured peers.                  *)
ConfiguredPeers(file) == Initial

(* restore: the peers of the file, if it has any.                          *)
RestoredPeers(file) == IF file = Nil \/ file.peers = {} THEN Initial ELSE file.peers

(* main: the clients are those of the configured peers; a node that is not *)
(* in its own peers has to join first.                                     *)
Start(n) ==
  LET ps == RestoredPeers(disk[n])
  IN  /\ mode[n] = "down"
      /\ st' = [st EXCEPT ![n] = IF disk[n] = Nil THEN FreshState ELSE disk[n].state]
      /\ peers' = [peers EXCEPT ![n] = ps]
      /\ clients' = [clients EXCEPT ![n] = Initial \ {n}]
      /\ mode' = [mode EXCEPT ![n] = IF n \in ps THEN "running" ELSE "joining"]
      /\ UNCHANGED <<disk, offer, connecting, role, progress, leadership, ballot, messages,
                     history, budget>>

------------------------------------------------------------------------------
Init ==
  /\ disk = [n \in Node |-> Nil]
  /\ mode = [n \in Node |-> "down"]
  /\ st = [n \in Node |-> FreshState] /\ peers = [n \in Node |-> Initial]
  /\ clients = [n \in Node |-> {}] /\ connecting = [n \in Node |-> {}]
  /\ role = [n \in Node |-> "Follower"]
  /\ commitIndex = [n \in Node |-> 0] /\ lastApplied = [n \in Node |-> 0]
  /\ nextIndex = [n \in Node |-> <<>>] /\ matchIndex = [n \in Node |-> <<>>]
  /\ ballot = [n \in Node |-> Closed]
  /\ offer = [n \in Node |-> Nil]
  /\ messages = {}
  /\ elected = {} /\ decided = {} /\ known = [n \in Node |-> {}]
  /\ changes = 0 /\ failures = 0 /\ ticks = 0

Receivers(m) == IF m.type = "RequestVote" THEN m.asked ELSE {m.dst}

Receive(n, m) ==
  \/ ReceiveVote(n, m)
  \/ HandleRequestVote(n, m)
  \/ StaleAppendEntries(n, m)
  \/ HandleAppendEntries(n, m)
  \/ AppendEntriesInterrupted(n, m)
  \/ HandleResult(n, m)

Step(n) ==
  \/ StartElection(n)
  \/ ElectionEnds(n)
  \/ HeartbeatTick(n)
  \/ \E v \in Value : ClientRequest(n, v)
  \/ FinishBootstrap(n)
  \/ BootstrapFails(n)
  \/ Crash(n)
  \/ Start(n)

Next ==
  \/ \E n \in Node : Step(n)
  \/ \E n, p \in Node : UpdatePeerClient(n, p)
  \/ \E n, p \in Node : ApplyMembership(n, p)
  \/ \E n, p \in Node : RemoveMembership(n, p)
  \/ \E m \in messages : \E n \in Receivers(m) : Receive(n, m)

Spec == Init /\ [][Next]_vars

------------------------------------------------------------------------------
(* Properties.                                                             *)

(* Every variable has the type of the field it models; the maps of a       *)
(* leader know the same nodes, never itself, and no next index is 0, which *)
(* prev_log_index = next_index - 1 could not take.                         *)
TypeOK ==
  /\ \A n \in Node :
       /\ st[n] \in MemberState /\ peers[n] \subseteq Node
       /\ disk[n] # Nil => disk[n] \in File
       /\ clients[n] \subseteq Node \ {n} /\ connecting[n] \subseteq Node \ {n}
       /\ DOMAIN matchIndex[n] \subseteq DOMAIN nextIndex[n]
       /\ DOMAIN nextIndex[n] \subseteq Node \ {n}
       /\ \A p \in DOMAIN nextIndex[n] : nextIndex[n][p] \in Nat \ {0}
       /\ offer[n] # Nil => mode[n] = "joining" /\ n \in offer[n]
  /\ mode \in [Node -> {"down", "joining", "running"}]
  /\ role \in [Node -> {"Follower", "Candidate", "Leader"}]

(* One leader per term while the members change: the configurations in     *)
(* use at once, on the leader that appended the change, on nodes that have *)
(* applied it, on those that have not, and on those that never will, have  *)
(* quorums that meet.                                                      *)
ElectionSafety ==
  \A e, f \in elected : e.term = f.term => e.leader = f.leader

(* A leader has every entry that a leader of another configuration has     *)
(* committed.                                                              *)
LeaderCompleteness ==
  \A n \in Node :
    /\ mode[n] = "running" /\ role[n] = "Leader"
    /\ \A e \in elected : e.term <= st[n].currentTerm
    => \A entry \in decided :
         entry.index <= LastLogIndex(st[n]) /\ EntryAt(st[n], entry.index) = entry

Follows(ps, change) ==
  IF change.op = "AddNode" THEN change.id \in ps ELSE change.id \notin ps

(* A node does not forget a change of another node that it has applied     *)
(* (Fix 13): neither in memory, nor on its disk, nor by a crash and the    *)
(* replay of its log.  Its own removal it forgets when it joins again.     *)
ChangesKept ==
  \A n \in Node : \A e \in known[n] :
    e.command.id # n =>
      /\ disk[n] # Nil /\ Follows(disk[n].peers, e.command)
      /\ mode[n] = "running" => Follows(peers[n], e.command)

(* A candidate becomes leader with the votes of a majority of the nodes it *)
(* counts as the cluster, "two of three and three of five" (Fix 17).       *)
QuorumOfMembers ==
  \A e \in elected : Cardinality(e.votes \cap e.members) >= QuorumOf(e.members)
==============================================================================
