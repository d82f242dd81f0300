# Hogyoku: TLA+ models, checks and proofs

Hogyoku is a key-value store replicated by Raft, written in Rust. A node is one
process: a `RaftActor` (`src/src/raft/actor.rs`) that owns a `RaftState`
(`src/src/raft/state.rs`) and a `StateMachine`, an RPC server and two health
routes (`src/src/bin/server.rs`) that talk to the actor through one bounded
channel, and two files, `node_<id>.json` and `snapshot_<id>.json`.

This directory holds the modules that model it, the configurations TLC checks
them with, and proofs that TLAPS checks.

- [1. The system](#1-the-system)
- [2. The modules](#2-the-modules)
- [3. The runs](#3-the-runs)
- [4. What the code does not do as its comments say](#4-what-the-code-does-not-do-as-its-comments-say)
- [5. The proofs](#5-the-proofs)
- [6. Not modelled, and the plan](#6-not-modelled-and-the-plan)
- [7. Running](#7-running)

## 1. The system

| component | state | operations | interacts with |
|---|---|---|---|
| Raft state, `raft/state.rs` | `HardState` (term, vote, log, snapshot index and term, peers); volatile commit index, applied index, role, leader hint, next/match index | `append_entries`, `is_log_up_to_date`, term and role changes, `advance_commit_index`, `restore` | called by the actor only |
| Raft actor, `raft/actor.rs` | the above, the state machine, `pending_requests`, RPC clients | one handler per message of `ActorMsg`, election and heartbeat timers | peers by RPC; tasks it spawns answer through its inbox |
| Snapshots and recovery, `raft/actor.rs` | the two files | `handle_trigger_snapshot`, `handle_install_snapshot`, the snapshot task of `send_heartbeats`, `RaftActor::new` | the file written by one step is read by a task later, and by the next start |
| Files, `raft/state.rs`, `raft/actor.rs` | two files and their temporary names | `save_hs_to_disk`, `save_snapshot_to_disk`: write, sync, rename, sync the directory | read by the next start |
| Inbox and RPC handles, `bin/server.rs` | `mpsc::channel(100)`, a `oneshot` per call | each RPC and health handler sends a message and awaits its reply | heartbeat tasks send clients and results and await nothing; the actor sends `TriggerSnapshot` to itself |
| Membership, `raft/actor.rs` | `state.peers` (the configuration), `self.peers` (the RPC clients) | `handle_apply_membership`, `handle_remove_membership`, `AddNode`/`RemoveNode` at application, `UpdatePeerClient` | elections and replication read both |
| Bootstrap, `raft/actor.rs`, `bin/server.rs` | `peers` of a new node | `bootstrap` | a leader's `apply_membership` |
| State machine, `raft/machine.rs` | a map of strings | `apply` | called at application |
| Clients, `utils/client.rs`, `bin/client.rs`, `bin/api_gateway.rs` | none | follow leader hints, at most three addresses per call | RPC `execute` |

What is hard here, and what each part has to guarantee:

* **Elections.** A vote must survive the voter's crash, a failed write (which
  may or may not have replaced the file) and late messages; at most one leader
  per term; a node's leader hint is the leader of its own term.
* **Replication.** Requests and replies arrive late, twice or never, from two
  leaders at once; handlers roll back on failed writes, each in its own way.
  Logs agree, a leader has every committed entry, nothing applied is taken back.
* **Compaction.** Two files replaced one after the other, index arithmetic
  relative to a moving placeholder, a task that reads the file later than the
  heartbeat that asked for it. A node can always start again, and its state
  machine, snapshot and log together hold each committed entry once.
* **Files.** Any system call of a save may fail or be the last. What was
  reported as saved is found again, and a file is never half of one.
* **Membership.** A change counts on the leader when it is appended and on the
  others when they apply it, so that several configurations are in use at once.
  There is still one leader per term, committed entries stay, and an applied
  change is not forgotten.
* **Clients.** A reply belongs to the request it answers, a call takes effect at
  most once, and its result is that of one store used by one client at a time.
* **Inbox.** The actor must not wait for itself, no reply is forgotten, every
  call ends, and a log that is too long is compacted.

`PROJECT.json` lists the hazards at their lines with the properties about them.

## 2. The modules

| module | what it is |
|---|---|
| `RaftState` | `HardState` as a record and every function of `RaftState` that reads or rewrites it, as operators |
| `RaftLog` | the two algorithms of `state.rs` written as the code writes them (the loop of `append_entries`, the sort of `advance_commit_index`), compared with the closed forms of `RaftState` |
| `RaftMessages` | the RPCs and replies as `actor.rs` fills them in |
| `RaftCluster` | the nodes, their disks and the network: one action per handler, timer, spawned task step, crash and restart, with fixed members |
| `RaftProperties` | the type invariant, safety invariants and action properties of `RaftCluster` |
| `ReplicatedLog`, `RaftRefinement` | an abstract replicated log, and the mapping under which `RaftCluster` implements it |
| `Membership` | the cluster whose members change: elections, replication, the membership handlers, bootstrap, clients of peers |
| `ActorInbox` | the bounded inbox, all who send to it, their deadlines and the actor's turns, with fairness |
| `KeyValue` | the key-value machine: every command as a function of the store |
| `Client` | the callers of `execute_with_redirect`, the nodes' `execute` handler and application, over an abstract consensus and any state machine |
| `Storage` | the two files system call by system call, crashes and power failures |
| `DurableRegister`, `StorageRefinement` | an abstract durable register, and the mapping under which `Storage` implements it |
| `MCRaftCluster`, `MCOverlap`, `MCMembership`, `MCClient`, `MCStorage` | instances for TLC: symmetry, prepared initial states, the callers' commands |
| `RaftInvariants`, `RaftSafety` | what makes the properties of `RaftProperties` inductive: leaders and marks; lines, evidence, commitment |
| `MembershipInvariants` | what makes the properties of `Membership` inductive: types, votes, the configurations under at most one change |
| `RaftElectionProofs`, `RaftLogProofs`, `RaftTurnProofs`, `RaftSafetyProofs` | theorems about `RaftCluster`, each module on the one before it |
| `StorageProofs`, `InboxProofs`, `ClientProofs`, `MembershipProofs` | theorems about `Storage`, `ActorInbox`, `Client`, `Membership` |

`RaftCluster` and `Membership` extend `RaftMessages`, which extends `RaftState`.
`Client` takes `StateMachine::apply` as a constant, `Execute`, for which
`MCClient` gives `KeyValue`'s. It stands on what `RaftSafetyProofs` proves of
`RaftCluster`: one growing committed sequence, of which every node applies a
prefix. `RaftCluster`'s `Write` and `WriteFails` stand on what `StorageProofs`
proves of `Storage`: a save is one replacement.

Some operators are marked `Mutant:`. Each is a definition with a plausible bug;
put in the place of the definition after it, it makes a property of some run
fail, which shows that the property depends on that piece of code.

### RaftState

`s.log` is the vector, with element 0 of the code at position 1; the entry of
Raft index `i` is at `i - s.lastIncludedIndex + 1`. `peers` is the constant
`Node`; peers that change are in `Membership`. `MergeEntries` says which
positions of the vector are replaced instead of running the loop, and
`Committable` finds the quorum's index by counting instead of sorting, which
lets the provers use both. `GetLogTerm` keeps the code's 0 for an index it does
not know.

### RaftCluster

| variable | in the code |
|---|---|
| `hs[n]`, `snapFile[n]` | the two files; `Nil` is a missing one |
| `up[n]`, `st[n]`, `role[n]`, `currentLeader[n]` | the process and its `RaftState` |
| `commitIndex`, `lastApplied`, `data` | the same; `data[n]` is the sequence of entries applied, of which the map of `StateMachine` is a function |
| `pending[n]` | `pending_requests`: a waiting client is the entry made for it, keyed by its index |
| `snapQueue[n]` | `TriggerSnapshot` messages in the actor's own inbox |
| `nextIndex`, `matchIndex` | the same, 0 for the node itself |
| `ballot[n]` | the local variables of `start_election` while it waits for replies |
| `messages` | every RPC and reply ever sent |
| `snapTasks` | snapshot tasks spawned, with what they captured |
| `elected`, `decided`, `answered` | history: who won which term, what a leader committed, which client got which result |
| `crashes`, `faults`, `ticks` | counters of the bounds |

An action is a whole turn of the actor's loop: for example `HandleAppendEntries`
is the term update, the consistency check, the merge, the write, the advance of
the commit index, the application of what it commits, the replies to waiting
clients and the `TriggerSnapshot` the application may queue. The actor holds
`&mut self` across its awaits, so nothing else of the node runs meanwhile; the
tasks it spawns only make calls, read the snapshot file and send messages.
`start_election` is the exception in length, not in kind: while it awaits
replies the actor handles nothing (`Ready`), but other nodes go on, so it is
`StartElection`, then `ReceiveVote` per reply, then a win or `ElectionEnds`.

*Network.* `messages` only grows, so a message may arrive late, in any order,
or never. Two heartbeats with the same content are one message received twice.
`RequestVote` is sent once, so each peer answers it once. A reply and the
`AppendEntriesResult` it becomes in the leader's inbox are one message.
Connections (`UpdatePeerClient`, `PeerDisconnected`, reconnects) only decide
whether a call is lost. A client request to a node that is not the leader
changes nothing and has no action.

*Disk.* `Write` is `persist_state`. `WriteFails` is its error: the new file may
be visible or not, since `save_hs_to_disk` fails before the rename or in the
directory sync after it. What memory keeps then differs from handler to handler
and is an argument. A failed write the code panics on is a crash before or
after the write. A crash between a handler's only write and its replies is the
handler followed by `Crash`, its messages lost. Two handlers write twice and have
interrupted forms: `TriggerSnapshotInterrupted`, `InstallSnapshotInterrupted`.

*Start.* `Restart` is `RaftState::new_with_addr` and `RaftActor::new`. It is not
enabled when the code panics (`Startable`), which is what `DiskStartable` is about.

*An assumption on the network.* With `StaleSnapshots = FALSE` an
`InstallSnapshot` does not reach a node that already has the snapshot's last
entry or has compacted past it. The code does not check this and the network
does not guarantee it: run `stale_snapshot` shows what follows. The other runs
assume it, to say what holds besides. The theorems about elections, logs and
leaders do not assume it; those about commitment name it (section 5).

### RaftRefinement

`ReplicatedLog` knows one sequence of committed commands, the prefix each
running node has applied, and the commands whose clients were told a result. In
the mapping the sequence is `decided` in the order of indices, the prefixes are
`data`, and what was told is `answered`. A handler of `RaftCluster` is a step
`Apply` or `Commit` of one node, `Crash` is `Stop`, `Restart` is `Start` from a
snapshot, and everything else is a stutter. So the property says at once that
two leaders never commit different entries at an index, that nothing applied is
taken back, that compaction, snapshots and restarts leave a prefix, and that a
client is told a result in the very step that applies a committed entry.

### Membership

| variable | in the code |
|---|---|
| `disk[n]` | `node_<id>.json`: the HardState and its `peers` |
| `mode[n]` | the process: "down", "joining" (inside `bootstrap`), "running" |
| `st[n]`, `peers[n]` | `RaftState`, and `state.peers`, the configuration |
| `clients[n]`, `connecting[n]` | `self.peers`, the RPC clients; tasks that will report one by `UpdatePeerClient` |
| `nextIndex[n]`, `matchIndex[n]` | maps, as in the code: who is in them matters |
| `offer[n]` | the leader's answer to the joining node |
| `elected` | with the votes counted and the configuration they were counted for |
| `known[n]` | history: the changes n has applied |

The quorum of an election is that of `state.peers` and the node itself; the
votes come from all of `self.peers` (`StartElection`, `ReceiveVote`). The
quorum of a commitment is that of `matchIndex` and the node itself, to which a
late reply of a removed node adds one (`HandleResult`). `ApplyMembership` and
`RemoveMembership` are the two handlers with their roll-backs; the answer to a
joining node does not wait for the commitment. `ApplyEntry` is the application
of a change with the write it makes, and `AppendEntriesInterrupted` a crash
between the write of the entries and that of the peers. `Start` decides, as
`main` does, whether the node is a member or has to join.

Left out against `RaftCluster`: snapshots and compaction, waiting clients, the
leader hint, and write failures in handlers that do not change the peers.

### ActorInbox

| variable | in the code |
|---|---|
| `line` | the messages in the channel and, behind the first `Capacity`, those whose senders wait for a place: tokio gives places out in the order of the sends |
| `calling` | the handlers (RPC or health) that await their reply |
| `pending` | those of them whose reply channel is in `pending_requests` |
| `phase[t]` | a task of `send_heartbeats` (or the reconnection of `handle_apply_membership`): free, connecting, or calling its peer |
| `turn` | the message whose handler is in the middle of `apply_committed_entries`, with a log too long, or `Nil` |
| `leader`, `applied`, `unapplied` | the role, and how many entries of the log are applied and are not |
| `failed`, `faults` | the last snapshot could not be written; how often that may be |

There are three kinds of senders. A handler (`Call`) awaits a reply. A task
(`Connected`, `Finish`) sends its peer's new client and what the call came to,
and awaits nothing; `Spawn` says when tasks begin. And the actor itself sends
`TriggerSnapshot` from any turn that applies an entry and finds the log too long:
of an AppendEntries, of a ClientRequest in a cluster of one, and of an
AppendEntriesResult (`Apply`, then `SendTriggerSnapshot`, since the turn may have
to wait for a place there). What term checks, merges and commitments come to is
`RaftCluster`'s; here each turn may come to any of its outcomes (refused, nothing
to apply, some entries applied), and `applied` and `unapplied` only count.
`HandleTriggerSnapshot` returns if nothing was applied since the last snapshot,
keeps what is not applied, and leaves the log as it is if the file cannot be
written. A handler may be one of an RPC in one call and of the probe in the next
(`Health`). `GiveUp` is its deadline: a health handler's covers only the wait for its
reply (`server.rs:71`), an RPC handler's (tarpc drops it at the call's deadline)
also the wait for a place; what is in the channel stays there.

Messages that differ in nothing here are one: RequestVote stands for RequestLog
(both are answered in their turn), Membership for the two changes, UpdatePeerClient
for itself, AppendEntriesResult for PeerDisconnected, which a task sends in its
place. Nothing sends InstallSnapshotReply.

*Fairness* is weak fairness of the actor's turn and of each deadline. The
actor's loop takes a message whenever there is one and it is not itself waiting,
and the timers of tokio fire. Nobody has to call, and no task has to end. The
other modules have no fairness: all their properties are safety.

### Client

A call is `Begin`, then turns of the loop: `Connect`, and `ReceiveReply` or
`RpcError`, until it ends with a result, a refusal (no leader known, no
connection, three addresses tried) or an error. The command-line client and the
gateway both begin every call with the address they were given. (The interactive
client means to change it after a refusal, `bin/client.rs:216`, but
`execute_with_redirect` has made a text of the error by then, so the
`downcast_ref` never matches.)

A node refuses with its leader hint, appends and keeps the caller waiting, or
reports a failed save; `ApplyUpTo` executes the commands and answers the calls it
has waiting. Below, `committed` is one growing sequence. A deposed
leader that does not know it goes on accepting (`leads[n]` while `latest` is
another), and can commit only what its successor has. `Elect` gives a new leader
any log that has all committed entries. With `WrongAnswers = FALSE` a call is
answered only when its own entry is applied; run `wrong_answer` shows that the
code does not see to that, and with `WrongAnswers = TRUE` `Linearizable` fails
here, too. The history forgets calls that ended with an error, which may or may
not have taken effect.

### Storage

The file system keeps inodes, a directory as the process sees it, and what of
both a power failure may leave: any of the directories since its last sync
(`dirs`), any of the contents of a file since its last (`survives`), a torn one
included. `Write`, `Sync`, `RenameState`, `Saved` are the calls of
`save_hs_to_disk`, `WriteSnapshot` and `RenameSnapshot` those of
`save_snapshot_to_disk`, which syncs neither the file nor the directory.
`SaveFails` and `SnapshotFails` are the error of any of them, `Crash` the end of
the process between any two, `PowerFailure` that of the machine. `Start` reads
both files as `new_with_addr` and `RaftActor::new` do, and saves when it adopts
a newer snapshot. A HardState is told by the number of its save and its snapshot's
index and term, a snapshot by its index and term, since their other fields make
no difference to the files. `lost` says that a power failure found a snapshot file
other than the one the process had, until the next start.

## 3. The runs

Runs of `MCRaftCluster` and `MCOverlap` start in one of three states. `Init` is
the first boot. `LedInit`: the first leader has won term 1 with two votes of
three, the third node knows nothing of it. `ForkInit`: that leader accepted two
requests, sent them, and the other two have elected a leader of term 2. `overlap`
starts in either of the last two and has bounds for each (`Overlapping`): from
`LedInit` one entry, an election and a crash of the candidate; from `ForkInit` two
entries and a crash of the deposed leader. Runs of `MCMembership` start in a
`LedInit` of their own. All are reachable, and their histories hold
what led there, the messages included, so that late messages of the first term
still arrive.

| # | run | start | what it asks | properties |
|---|---|---|---|---|
| 1 | `election` | `Init` | three candidates, one term, two crashes, one failed write | `TypeOK`, `VotesDurable`, `OneVote`, `ElectionSafety`, `ElectionInv`, `DiskTermMonotonic` |
| 2 | `overlap` | `LedInit`, `ForkInit` | a second election during the commit of an entry, or two leaders' messages interleaved with compaction; one crash | `LogAligned`, `LeaderHint`, `LeaderCompleteness`, `LogMatching`, `StateMachineSafety`, `LeaderAppendOnly`, `ImplementsReplicatedLog` |
| 3 | `durability` | `LedInit` | compaction at every application, a crash or a failed write anywhere | `DiskStartable`, `IndicesOrdered`, `AcknowledgedDurable`, `DecidedOnQuorum`, `CommitMonotonic`, `ImplementsReplicatedLog` |
| 4 | `log` | | `append_entries` on all logs and requests of up to 3 entries and 3 terms, after a snapshot at 0 or 1; the quorum index of four nodes on the same logs | `AppendAsDefined`, `AppendKeepsAndAgrees`, `CommitAsDefined` |
| 5 | `inbox` | | a handler and a heartbeat task, four places, with fairness; handlers that give up and call again, one snapshot that cannot be written | `TypeOK`, `NothingLost`, `BlockedOnlyByAbandoned`, `CompactionDue`, `CallsEnd`, `LogCompacted` |
| 6 | `membership` | `LedInit` of two members | a third pod joins, or a node is removed, the leader too; an election, an entry, a crash or a failed write | `TypeOK`, `ElectionSafety`, `LeaderCompleteness`, `ChangesKept` |
| 7 | `client` | `Init` | an append and a read, and a transaction on the same key, over two leaders and one crash, deposition or failed save | `TypeOK`, `AtMostOnce`, `Linearizable`, `RefusedWithoutEffect` |
| 8 | `storage` | `Init` | two saves, snapshots of two indices and two terms, two crashes or power failures, one error | `TypeOK`, `SavedSurvives`, `StartsAfterCrash`, `ImplementsRegister` |
| 9 | `stale_snapshot` | `LedInit` | violation, see section 4 | `AcknowledgedDurable` |
| 10 | `wrong_answer` | `LedInit` | violation | `AnswersOwnRequest` |
| 11 | `outsider` | `LedInit` of four members | violation | `QuorumOfMembers` |
| 12 | `lost_snapshot` | `Init` | violation | `AlwaysStartable` |

### Bounds

* Three nodes: majorities of two that meet in one node, and a minority to fall
  behind. `log` uses four, where the middle of an even list matters.
  `membership` goes from two members to three or one, the changes in which the
  majority's size changes; what four members add is run `outsider`. `client`
  has two nodes, since below it is one committed sequence, and what matters is
  a leader and one that does not know it is none any more.
* `MaxTerm`, `Campaigner`: terms 1 and 2 make the overlap of two leaders;
  `Campaigner` says whose timers fire.
* `MaxIndex`: one or two client entries. Two are needed for a suffix to be
  truncated, for a reply to arrive after a later one, and for a second
  compaction after the first.
* `LogSizeLimit` is 10 in the code: it compares the vector's length, the
  placeholder included. A limit of 1 compacts after every application, 2 leaves
  one entry above the placeholder, 10 never compacts. It is 2 in `overlap`, so that
  from `LedInit`, where there is one entry, nothing is compacted: an election while
  logs are compacted is the subject of the theorems only.
* `Fragile`, `MaxCrashes`, `MaxFaults`, `MaxFailures`: which nodes crash or fail a
  write, how often each and how often together. One is enough to separate two
  writes or a write from its reply; `election` has two crashes and a fault, and
  `storage` two crashes and an error, so that a failure meets what another left;
  its snapshots have two indices and two terms, so that one can be older, and one
  of another term at the same index.
* `MaxTicks`: heartbeats by the timer, beyond those that each election, change
  and client request sends.
* `MaxChanges` is one: a joining pod, a removal, or the failure of either,
  together with everything else. See section 4 for two.
* `Capacity` is 100 in the code. What counts is its ratio to the senders. A
  handler has its message in the line and the `TriggerSnapshot` of its last one; a
  task its client, its result and the `TriggerSnapshot` of its last result. `Enough`
  counts two places for a handler and three for a task, less the message in the
  actor's hands. `inbox` has exactly those, four: there the actor does wait for itself,
  behind a message that was given up, and with three places TLC finds it waiting
  for itself while nobody has given up. The code does not see to `Enough`: it spawns a
  task per peer at every heartbeat and at every request, and a task may last a
  second or two.
* `MaxAbandoned`, `MaxUnapplied`, `MaxFaults` are one in `inbox`: a message
  nobody waits for, an entry that a snapshot keeps, a snapshot that fails. The
  first can hold a deadline back while another abandoned message is in the
  line, so that `CallsEnd` is shown with less fairness than the timers give.
* `MaxRetries` is 3 in the code and 2 in `client`: with two nodes a redirection
  and a second refusal reach the limit.
* `Inode`: five, so that a free one is always left for a new file (four names, one
  more for the file a directory not yet synced still holds).
* Symmetry: nodes with the same part in a run, and inodes, are interchangeable.
  All properties of those runs are safety properties, so the reduction is sound;
  `inbox`, which checks liveness, uses none.

All runs but those of section 4 explore their instance to the end. Their bounds
stop every behaviour, and an actor that waits for itself stops for good, so the
deadlock check is off.

## 4. What the code does not do as its comments say

1. **`stale_snapshot`.** `handle_install_snapshot` replaces the log, the commit
   index and the applied index without comparing the snapshot with what the node
   has (`actor.rs:516-525`). A snapshot delayed past later AppendEntries erases
   entries the node has acknowledged and the leader counts. If one was committed
   with this node's copy, only one of three disks still has it.
2. **`wrong_answer`.** `pending_requests` maps a log index to a waiting client
   and outlives leadership. A deposed leader that applies another entry at that
   index sends its result to the waiting client (`actor.rs:664`), as a success.
3. **`outsider`.** An election counts the votes of all nodes there is a client of
   (`actor.rs:725`) against a majority of `state.peers` (`actor.rs:755`), and the
   application of `RemoveNode` leaves the client in place (`actor.rs:649`). A node
   that applied the removal of another wins with the removed node's vote and its
   own, in a configuration of three. Another member can then win the same
   term with the third: with `Campaigner = {n2, n3}` the instance
   violates `ElectionSafety` as well. So `membership` shows one leader per term
   for up to three nodes, whose votes are too few for two winners, and not in
   general. That it takes a removal is the theorem `AdditionElects`.
4. **`lost_snapshot`.** `save_snapshot_to_disk` syncs neither the file nor the
   directory (`actor.rs:215-218`), while HardState is synced. A power failure can
   leave a torn snapshot, or the old one with the new HardState, and start-up
   panics (`actor.rs:133-144`), though the comments of Fix 3 (209) and Fix 10
   (527-529) count on a durable snapshot. `StartsAfterCrash` says that nothing
   else keeps a node from starting.

What no run of its own shows:

* `apply_committed_entries` sends `TriggerSnapshot` into the actor's own inbox
  (`actor.rs:674`). If the inbox is full, the actor waits for a place that only it
  can make. A leader's heartbeat tasks send without waiting for a reply, so their
  results fill it with no deadline passed, if they need more places than `Enough`
  counts; handlers that give up and are called again do so as well. The liveness probe,
  which is to detect "an unresponsive actor behind an open socket"
  (`server.rs:63-64`), then waits for a place itself, outside its timeout
  (`server.rs:67`), and never answers. `CallsEnd` and `LogCompacted` except an
  actor that waits for itself (`Blocked`), and `BlockedOnlyByAbandoned` says
  when that can be.
* The older snapshot of 1 is stored over the newer one first (`actor.rs:507`). If
  the process dies before HardState follows, start-up finds a snapshot older than
  HardState and panics, at every start (`actor.rs:137-144`), though the comment at
  209 promises that an interruption at either step can be reconciled. `Storage`
  has the same with the mutant `TakeAnySnapshot`.
* Nothing makes a second membership change wait for the first. Two removals back
  to back leave a leader whose majority (of two) need not meet that of the others
  (of four), which is why `membership` has one change.
* A node that applied its own removal is not in its own peers, so that it joins
  again when it restarts (`server.rs:345`); `ChangesKept` leaves that case out.
* A follower that installs a snapshot never learns of the membership entries it
  covers (`actor.rs:516`, `domain.rs:38-43`).

## 5. The proofs

The theorems about `RaftCluster` hold for every finite non-empty `Node`, every
`Value`, and every value of the bounds, so for unboundedly many terms, entries,
crashes, failures and messages. They rest on `NodeAssumption` (the nodes are
finitely many, there is one, `Nil` is none of them), `NilAssumption` (`Nil` is
no snapshot) and `BoundAssumption` (the bounds have their types). Those about
`Storage` hold for every set of inodes and rest on `StorageAssumption` (`Nil` is
no inode, a torn file is not a whole one); those about `ActorInbox` for every
finite set of handlers and tasks and every capacity (`InboxAssumption`); those about
`Client` for every set of nodes and callers, every sequence of calls and every
state machine (`ClientAssumption`); those about `Membership` for every finite
`Node`, every configured membership and every value of the bounds but
`MaxChanges` and `Leaver`, as marked (`MembershipAssumption`; `ChangeAssumption`:
no client command is a change of members; `NoneAssumption`: `Nil` is no file and no
set of peers).

| theorem | module | states |
|---|---|---|
| `TypeCorrect` | `RaftElectionProofs` | `Spec => []TypeOK` |
| `DiskTermsMonotonic` | `RaftElectionProofs` | `Spec => DiskTermMonotonic` |
| `ElectionsInvariant` | `RaftElectionProofs` | `Spec => []ElectionInv` |
| `VotesAreDurable`, `VotesAreUnique` | `RaftElectionProofs` | `Spec => []VotesDurable`, `Spec => []OneVote` |
| `OneLeaderPerTerm` | `RaftElectionProofs` | `Spec => []ElectionSafety` |
| `LeadersInvariant`, `HintsAreLeaders` | `RaftElectionProofs` | `Spec => []LeaderInv`, `Spec => []LeaderHint` |
| `LeadersOnlyAppend` | `RaftElectionProofs` | `Spec => LeaderAppendOnly` |
| `LogsInvariant`, `LogsAreAligned` | `RaftLogProofs` | `Spec => []LogInv`, `Spec => []LogAligned` |
| `EntriesAreUnique` | `RaftLogProofs` | `Spec => []EntryUnique` |
| `SafetyInvariant` (1) | `RaftSafetyProofs` | `Spec => []SafetyInv` |
| `LogsMatch` (1) | `RaftSafetyProofs` | `Spec => []LogMatching` |
| `LeadersAreComplete` (1) | `RaftSafetyProofs` | `Spec => []LeaderCompleteness` |
| `StateMachinesAgree` (1) | `RaftSafetyProofs` | `Spec => []StateMachineSafety` |
| `DecidedIsRecoverable` (1) | `RaftSafetyProofs` | `Spec => []DecidedOnQuorum` |
| `CommitsAreKept` (1) | `RaftSafetyProofs` | `Spec => CommitMonotonic` |
| `IndicesAreOrdered`, `DisksAreStartable` (1) | `RaftSafetyProofs` | `Spec => []IndicesOrdered`, `Spec => []DiskStartable` |
| `AcknowledgedIsDurable` (1) | `RaftSafetyProofs` | `Spec => []AcknowledgedDurable` |
| `ClusterImplementsLog` (1) | `RaftSafetyProofs` | `Spec => ImplementsReplicatedLog` |
| `StorageTypeCorrect` | `StorageProofs` | `Spec => []TypeOK` |
| `SavesAreDurable` | `StorageProofs` | `Spec => []SavedSurvives` |
| `SavesAreAtomic` | `StorageProofs` | `Spec => ImplementsRegister` |
| `CrashesAreRecoverable` | `StorageProofs` | `Spec => []StartsAfterCrash` |
| `InboxTypeCorrect`, `NothingIsLost` | `InboxProofs` | `Spec => []TypeOK`, `Spec => []NothingLost` |
| `CompactionIsDue` | `InboxProofs` | `Spec => []CompactionDue` |
| `InboxSuffices` | `InboxProofs` | `Spec => []BlockedOnlyByAbandoned` |
| `ClientTypeCorrect` | `ClientProofs` | `Spec => []TypeOK` |
| `CallsAtMostOnce`, `RefusalsHaveNoEffect` | `ClientProofs` | `Spec => []AtMostOnce`, `Spec => []RefusedWithoutEffect` |
| `AnswersAreLinearizable` (2) | `ClientProofs` | `Spec => []Linearizable` |
| `MembershipTypeCorrect` | `MembershipProofs` | `Spec => []TypeOK` |
| `LeadersShareNoVoter` | `MembershipProofs` | `Spec => []NoSharedVoter` |
| `OneChangeIsKept` (3) | `MembershipProofs` | `Spec => []ChangesKept` |
| `OneChangeElects` (3) | `MembershipProofs` | `Spec => [](VotersMembers => ElectionSafety)` |
| `AdditionElects`, `AdditionCountsMembers` (4) | `MembershipProofs` | `Spec => []ElectionSafety`, `Spec => []QuorumOfMembers` |

(1) under `~StaleSnapshots`, (2) under `~WrongAnswers`, (3) for `MaxChanges <= 1`,
(4) for `MaxChanges <= 1` and `Leaver = {}`. All of them are what the code leaves
to luck or to the operator. The runs `stale_snapshot`, `wrong_answer` and `outsider`
show what fails without (1), (2) and (4), and section 4 what two changes at
once do; the theorems say that nothing else fails.

Every inductive invariant below was checked by TLC on the instances of the runs
before it was proved (`ElectionInv` in run `election` still is; the others are
properties of no run, since the theorems say more).

### Types and elections

`RaftElectionProofs` begins with the lemmas about the operators of `RaftState`: each
returns a `HardState`, and each leaves the term and the vote as it should. The type
invariant is then proved action by action. The difficult cases are the
sequences: what a handler sends or applies is a piece of a log that is never
empty.

The election argument is one inductive invariant, `ElectionInv`:

* `MemoryNotBehind`: the memory of a node has at least its disk's term, and the
  disk's vote if the terms are equal. After a failed write the disk may be old
  or new; memory has the new term and vote in either case, which makes a later
  write safe.
* `VotesDurable`: a vote sent is on the disk, or the disk is in a later term.
  By itself it is not inductive: a restart reads the disk, so a node with memory
  behind its disk could write an older vote over a newer one.
* `OneVote`: two votes of a node in a term are for the same candidate. It
  follows at each new vote from the two above.
* `BallotsBacked`: every vote that an open ballot counts was cast, in the
  candidate's present term. It needs that no handler runs while the ballot is
  open; otherwise the term could change under it.
* `LeadersBacked`: an elected node had a majority of the votes of its term.

`ElectionSafety` follows: two majorities of a finite set meet, and the node in
both voted once. `LeaderInv` adds that what is sent or acknowledged in a term is
its elected node's, that this node's term is on its disk, and that a candidate
was never elected in its term before: a node restarts with the term it led, as a
follower, and has to open a new one. `LeaderHint` follows. So does
`LeaderAppendOnly`, which says both that a leader's last index never falls and
that each entry it holds stays as it is, or is applied and covered by its snapshot:
the turns that shorten a log or replace its end (`Follow`, an installed snapshot, a
rolled back append) are those of followers, or take back what that same turn added.

### Logs

A *mark* is a pair of an index and a term: of an entry, of a snapshot, of the
place before a request's entries, of a candidate's last entry. `LogInv` says
where marks come from.

* `LogsOK`: entries carry the index of their place.
* `MarksElected`: every term but 0 in a mark has an elected leader.
* `LeaderAhead`: no mark of a leader's term lies beyond its log, but for one on
  its own disk. That one is the request whose save failed after the rename:
  memory drops the entry, the disk may keep it, and the next entry takes its
  place.
* `EntryUnique`: one index and one term are one entry; from `LeaderAhead`, since
  only the leader makes them, at the end of its log.
* `TermsBounded`, `RequestsTrue`: no entry is ahead of its node's term; a
  candidate asks once per term, and says what its log ends with.
* `LateCandidates`: a leader whose snapshot says a later term than its HardState,
  because a crash came between the two files, cannot win that term:
  a majority is beyond it (`Hopeless`). Without this the placeholder's term could
  equal the term of a new leader.

It does not need `~StaleSnapshots`, so neither do its consequences.

### Replication and commitment

Compaction makes it impossible to compare logs from the beginning on, so
`SafetyInv` is about *lines*: functions from consecutive indices to terms, which
logs, requests and the decided entries all are. `Starts` gives each term's mark
of beginning, the last entry of its leader at its election, which the leader's
request for votes records for good.

* `MarksOK`, `LinesRooted`: a line is `Rooted` if below an entry of term `c` it
  is of term `c` down to where `c` begins, and there it is as `c`'s leader found
  it. Two rooted lines that agree at an index agree below it: from an index where
  they do, both go to the same beginning and there have the same term. This is log
  matching, and what a merge of a request into a log needs.
* `OwnersTrue`, `LeadersRemember`: what a leader has and sends is the line of its
  term; its `matchIndex` is backed by acknowledgements, its `nextIndex` within
  its log.
* `AckMatch`, `DiskKnown`: in the term in which it acknowledged a place, a node
  still has it; what is on a disk alone is of the disk's own term.
* `AcksPast`, `EvidenceKept`: *evidence* of a mark is that a node acknowledged it
  in its term or made it. A node with evidence has a log past the mark, as the
  vote compares logs (`Past`), for as long as every later term in fact began past
  it (`NoBad`). This survives truncation, for the request that truncates comes from
  such a term, and snapshots, for they come from its leader.
* `VotesGood`: the log a vote went to is past all of the voter's evidence of earlier
  terms, unless a term between began behind it already. New evidence does not
  break this: after voting the node is in the new term, and so is what it
  acknowledges. Once a term has its leader this is kept for the majority that
  elected it, since votes that come later count for nothing.
* `DecidedOK`, `Chosen`: above or at each decided entry there is one with evidence
  on a majority, in its own term. (An entry of an earlier term is committed only
  below one of the leader's term, which is how `advance_commit_index` has it.)
* `ProgressOK`, `SnapshotsOK`, `CommitsOK`: what is applied, in a snapshot, in a
  snapshot under way or in a message's commit index is chosen.

The core is `Safe`: every later term begins past a chosen mark. For the least term
that does not (`WFMin`), the majority with evidence and
the majority of votes meet in a node whose evidence the vote respected. From
it an entry that a leader counts on a majority equals what was decided there
before, which is `StateMachineSafety`; `LeaderCompleteness`, `LogMatching` and
`DecidedOnQuorum` follow with the lines. `~StaleSnapshots` is used in one place,
the installation of a snapshot, where the log that is replaced has to be behind
it; without it `AckMatch` and `EvidenceKept` fail.

`AcknowledgedDurable` has an invariant of its own, `AcksReach`: what a node
acknowledged in its present term its disk and its memory reach, in the
log or below the snapshot.

`ClusterImplementsLog` maps `decided` to the function from indices to entries and
shows that it is a sequence (`DecidedCounted`: the decided indices are `1 .. N`
for some `N`). Every action is then one of
`Apply`, `Commit`, `Start`, `Stop` or a stutter, from the same facts about a
node's turn, `NodeTurn`, that the invariants use: `RaftTurnProofs` says once for
all handlers what a turn can do to a log, its disk, its indices and the messages,
so that a part of `SafetyInv` is proved once from these facts and not once per
handler.

### Storage

`IInv` is `SavedSurvives` strengthened by three things: no
inode a start may read (in the directory, or in one a power failure may leave) is
the temporary file being written (`TypeOK`'s last conjunct, `Moved`) or serves a
HardState and a snapshot (`Apart`); what each step of the save has reached
(`Written`, `Synced`, `InPlace`), in particular that a file is renamed only when a
power failure can leave nothing but its whole content; and that the versions grow
(`Numbered`). Then every step either leaves what may be found under the name of
the file alone (`NodeKept`), or is the rename, the directory sync or a power
failure, which are the register's `Replace`, `Confirm` and `Fail`: that is
`SavesAreAtomic`.

`CrashesAreRecoverable` needs `StartInv`, which adds that the snapshot that is there is
enough for every HardState a power failure may leave (`StatesLeft`, `Covered`): none
needs a later snapshot or one of another term at its index, because a HardState is written only
after the rename of the snapshot it needs. So a power failure that leaves the snapshot as it was
leaves a node that can start, and of the others `lost` tells. After one that took the
snapshot, a node that starts all the same has nothing unsynced left (`Certain`).

### Inbox

`IInv` adds to `NothingLost` and `CompactionDue` what the line can hold. A
message has a rank: the `TriggerSnapshot` named for a sender comes first, then a
task's client, then a handler's message or a task's result, and of one sender
the line holds at most one of each, in this order (`Ordered`). It is so because a
handler calls again only after its reply, a task is spawned again only when nothing of it
is in the line (`TasksSend`), and a turn sends its trigger when nothing of its
sender is there (`TurnOpen`). Only the trigger of the unfinished turn
waits for a place (`WaitingTrigger`). So while nobody has given up each message of
the line has a place of its own among the pairs of a sender and a rank (`Room`), of which there
are two for a handler and three for a task; the actor that blocks has
one of these in its hands, and the whole channel and its trigger do not fit in the
rest (`EnoughPlaces`, by the pigeonhole): `InboxSuffices`.

### Client

`CallsInv` follows a call from hand to hand: it is in no log while its caller is
`trying`, once in `sent` while a node may take it, at most once in each log after
that, and a refusal under way or received means that it is in neither
(`TryingFree`, `SentOnce`, `RefusalsOnce`, `RefusedFree`). `AtMostOnce` is part of
it because a log grows by a call only from `sent`. `AnswersInv` adds that every
answer under way tells the result of its call's place in `committed`
(`AnswersTold`), and that the place of a call in progress is none that was
committed before the call began (`CallsLater`). A node's run of commands and the
replay of `committed` are recursive functions; the proofs show that they exist
(`RunExists`, for any `Execute`) and that two runs of logs that agree agree
(`ExecutionsAgree`, by the least index at which they would not), and so that
replays of a growing log grow (`ReplayGrows`).

### Membership

`VoteInv` is the election argument without fixed quorums. Terms and votes on the
disk are those in memory, for a handler that changes the peers and fails to write
restores both as they were (`VotesSaved`); so every vote sent is kept (`VotesKept`) and
two leaders of a term have no voter in common, whatever the members are
(`LeadersShareNoVoter`).

What quorums the leaders had is a question of which configurations are in use.
`Under(C)` says that none is but the configured one and those that a change in `C`
makes of it: in memory, on disks, in the answers to pods that join, in logs
and in requests. `ChangeInv` says that this holds with `C` empty until the first change is
appended, and with that one change after. What a node knows is harder than it looks:
a change that its peers show is on its disk as well, and a node that
applied the change of another was configured from the beginning; without both, a restart
from the disk, where a node that is not in its own peers joins anew, could
forget what was applied. This is `ChangesKept` (Fix 13). A write that
fails may leave the change on the disk of a leader that does not have it in memory,
which is why the two are related by what the peers show and are not equal.

Two configurations that differ by one node have quorums that meet
(`QuorumsMeet`), so that two leaders of a term need votes that their configurations
do not contain: `OneChangeElects`. Where nobody is removed there are none.
`MembersAsked` follows a request for votes: the clients of a running node, and the
tasks that connect, are those of its peers (`LinksMembers`), so are the nodes it asks
in its term while it counts (`AskedMembers`), and every answer is to such a
request (`RepliesAsked`). TLC checked `TypeInv`, `VoteInv` and `ChangeInv` on the instance
of run `membership`, and `MembersAsked` on the same with `Leaver = {}`.

### Only model-checked

* `Membership`: `ElectionSafety` with removals does not hold for every number of
  nodes (run `outsider`, section 4); in the instance of `membership`, where the
  members are too few for that, TLC shows it. `LeaderCompleteness` there is checked on
  the same instance; its proof needs the argument about evidence and lines above with
  the quorums of two configurations.
* `RaftLog`: that the loop of `append_entries` and the sort of
  `advance_commit_index` compute the closed forms the proofs use is a statement
  about recursive definitions on all inputs, induction over data.
* The refinement of `RaftLog` and `KeyValue`'s transactions, as recursive, and
  `CallsEnd` and `LogCompacted`, as liveness under fairness.

## 6. Not modelled, and the plan

Not modelled: container start-up (it assembles arguments and keeps no state);
HTTP, the page of the gateway, parsing and printing; real time (an election may
begin or end at any moment, so that elections which always collide or an actor
busy with an election longer than the others' timeouts are not seen); files
edited by hand; addresses (an id stands for its address, so that a node that
comes back under another one is not modelled).

What the modules leave out where they meet: `Membership` has no snapshots and
`RaftCluster` no changing members, since each alone is as large as TLC can do;
a node whose snapshot lacks the membership entries it covers is therefore not
checked. `Client` takes an entry that could not be saved to be gone, while
`RaftCluster` knows that it may come back at a restart; the caller was told an
error, and the history of `Client` forgets such calls.

Left for later, in order:

1. `Membership` with two changes under the assumption that the first is
   committed, to say what the code would have to wait for; then the proof of
   `LeaderCompleteness` with the quorums of two configurations.
2. `CatchUp`: one leader and one follower with fairness, for the next index that
   several failures take below what the follower has compacted.

## 7. Running

    tlc -workers 2 -config MCelection.cfg MCRaftCluster.tla     # and durability, stale_snapshot, wrong_answer
    tlc -workers 2 -config MCoverlap.cfg MCOverlap.tla
    tlc -workers 2 -config MClog.cfg RaftLog.tla
    tlc -workers 2 -config MCinbox.cfg ActorInbox.tla
    tlc -workers 2 -config MCmembership.cfg MCMembership.tla    # and MCoutsider.cfg
    tlc -workers 2 -config MCclient.cfg MCClient.tla
    tlc -workers 2 -config MCstorage.cfg MCStorage.tla          # and MClost_snapshot.cfg
    tlapm RaftElectionProofs.tla # then RaftLogProofs, RaftTurnProofs, RaftSafetyProofs
    tlapm StorageProofs.tla      # and InboxProofs, ClientProofs, MembershipProofs

Each run takes at most about three minutes with two workers.
