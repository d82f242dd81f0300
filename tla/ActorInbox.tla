----------------------------- MODULE ActorInbox -----------------------------
(***************************************************************************)
(* The bounded inbox of one actor (bin/server.rs, raft/actor.rs) and all   *)
(* who send to it: the RPC and health handlers, which then await a reply;  *)
(* the tasks send_heartbeats spawns, which do not; and the actor itself,   *)
(* which sends TriggerSnapshot when an applied entry finds its log too     *)
(* long, and waits for a place like any sender, in the middle of a turn.   *)
(*                                                                         *)
(* tokio gives the places out in the order of the sends, so one line holds *)
(* the messages in the channel and, behind them, those whose senders wait  *)
(* for a place (a sender that is given one is taken to use it).  Terms and *)
(* entries are RaftCluster's; here they are what a turn may find.          *)
(***************************************************************************)
EXTENDS Naturals, Sequences, FiniteSets

CONSTANTS
  Handler,       \* RPC and health handlers on their way at once
  Task,          \* heartbeat tasks on their way at once, until handled
  Capacity,      \* places in the inbox: 100
  LogSizeLimit,  \* RAFT_LOG_SIZE_LIMIT
  MaxAbandoned,  \* bound: messages in the line that nobody waits for any more
  MaxUnapplied,  \* bound: entries of the log that are not applied
  MaxFaults,     \* bound: snapshots that cannot be written
  Nil            \* a reply channel nobody waits at

(* RequestVote stands for RequestLog, Membership for ApplyMembership and   *)
(* RemoveMembership, AppendEntriesResult for PeerDisconnected.             *)
Request ==
  {"AppendEntries", "InstallSnapshot", "RequestVote", "ClientRequest", "Membership", "Health"}

(* A message has the reply channel of the handler it is from.  Those of a  *)
(* task have none, nor has a TriggerSnapshot: it is named for the message  *)
(* whose turn sends it.                                                    *)
Message ==
  [type : Request, from : Handler \cup {Nil}]
  \cup [type : {"UpdatePeerClient", "AppendEntriesResult"}, from : Task]
  \cup [type : {"TriggerSnapshot"}, from : Handler \cup Task \cup {Nil}]

ASSUME InboxAssumption ==
  /\ Handler \cap Task = {} /\ Nil \notin Handler \cup Task \cup Message
  /\ IsFiniteSet(Handler) /\ IsFiniteSet(Task)
  /\ Capacity \in Nat \ {0} /\ LogSizeLimit \in Nat \ {0}
  /\ MaxAbandoned \in Nat /\ MaxUnapplied \in Nat /\ MaxFaults \in Nat

VARIABLES
  line,     \* the messages in the channel, and of those who wait for a place
  calling,  \* the handlers that await the end of their call
  pending,  \* those whose entry waits in pending_requests to be applied
  phase,    \* phase[t]: "free", "connecting" or "calling" its peer
  turn,     \* the message whose turn has a TriggerSnapshot to send, or Nil
  leader,   \* role is Leader
  applied,  \* entries in the log that are applied
  unapplied,\* and that are not
  failed,   \* the snapshot of what is applied could not be written
  faults

entries == <<applied, unapplied, failed, faults>>
callers == <<calling, pending>>
vars == <<line, callers, phase, turn, leader, entries>>

Msg(type, from) == [type |-> type, from |-> from]

InChannel(i) == i \in 1 .. Len(line) /\ i <= Capacity
IsWaiting(i) == i \in 1 .. Len(line) /\ i > Capacity

(* The actor waits for a place that only the actor can make.               *)
Blocked == \E i \in 1 .. Len(line) : IsWaiting(i) /\ line[i].type = "TriggerSnapshot"

(* A message of this sender is in the line, or its turn is not over.       *)
SentAt(i, s) == line[i].from = s /\ line[i].type # "TriggerSnapshot"
Sent(s) == \E i \in 1 .. Len(line) : SentAt(i, s)
InTurn(s) == turn # Nil /\ turn.from = s

Abandoned == {i \in 1 .. Len(line) : line[i].from = Nil}

Without(q, i) == [j \in 1 .. Len(q) - 1 |-> q[IF j < i THEN j ELSE j + 1]]

Init ==
  /\ line = <<>> /\ calling = {} /\ pending = {}
  /\ phase = [t \in Task |-> "free"]
  /\ turn = Nil /\ leader = FALSE
  /\ applied = 0 /\ unapplied \in 0 .. MaxUnapplied /\ failed = FALSE /\ faults = 0

------------------------------------------------------------------------------
(* The handlers.                                                           *)

(* Mutant: the handler does not await its reply before the next call.      *)
CallAgain(h) ==
  /\ h \notin calling /\ ~InTurn(h)
  /\ \E type \in Request : line' = Append(line, Msg(type, h))
  /\ UNCHANGED <<callers, phase, turn, leader, entries>>

Call(h) ==
  /\ h \notin calling /\ ~InTurn(h)
  /\ \E type \in Request : line' = Append(line, Msg(type, h))
  /\ calling' = calling \cup {h}
  /\ UNCHANGED <<pending, phase, turn, leader, entries>>

(* Mutant: there is no deadline once the message has been received.        *)
GiveUpUnreceived(h) ==
  /\ h \in calling
  /\ \E i \in 1 .. Len(line) :
       /\ SentAt(i, h)
       /\ \/ /\ InChannel(i) /\ Cardinality(Abandoned) < MaxAbandoned
             /\ line' = [line EXCEPT ![i].from = Nil]
          \/ /\ IsWaiting(i) /\ line[i].type # "Health"
             /\ line' = Without(line, i)
  /\ calling' = calling \ {h} /\ pending' = pending \ {h}
  /\ UNCHANGED <<phase, turn, leader, entries>>

(* The deadline: tarpc drops the handler.  What is in the channel stays    *)
(* there.  A health handler times the reply and not the send.              *)
GiveUp(h) ==
  /\ h \in calling
  /\ \/ /\ ~Sent(h)
        /\ UNCHANGED line
     \/ \E i \in 1 .. Len(line) :
          /\ SentAt(i, h)
          /\ \/ /\ InChannel(i) /\ Cardinality(Abandoned) < MaxAbandoned
                /\ line' = [line EXCEPT ![i].from = Nil]
             \/ /\ IsWaiting(i) /\ line[i].type # "Health"
                /\ line' = Without(line, i)
  /\ calling' = calling \ {h} /\ pending' = pending \ {h}
  /\ UNCHANGED <<phase, turn, leader, entries>>

------------------------------------------------------------------------------
(* The tasks.  Each sends its peer's new client if it had none, calls the  *)
(* peer, and sends what came of it.  A task of add_node only connects.     *)

(* A subset of the free tasks is on its way, with or without a client.     *)
Spawn ==
  phase' \in {p \in [Task -> {"free", "connecting", "calling"}] :
    \A t \in Task : p[t] # phase[t] => phase[t] = "free" /\ ~Sent(t) /\ ~InTurn(t)}

Connected(t) ==
  /\ phase[t] = "connecting"
  /\ line' = Append(line, Msg("UpdatePeerClient", t))
  /\ phase' = [phase EXCEPT ![t] = "calling"]
  /\ UNCHANGED <<callers, turn, leader, entries>>

(* Its send of the client has returned.                                    *)
Placed(t) == \A i \in 1 .. Len(line) : IsWaiting(i) => line[i] # Msg("UpdatePeerClient", t)

(* No connection, no snapshot file, or no peer to call.                    *)
Ends(t) ==
  /\ phase[t] # "free" /\ Placed(t)
  /\ phase' = [phase EXCEPT ![t] = "free"]
  /\ UNCHANGED <<line, callers, turn, leader, entries>>

Finish(t) ==
  /\ phase[t] = "calling" /\ Placed(t)
  /\ line' = Append(line, Msg("AppendEntriesResult", t))
  /\ phase' = [phase EXCEPT ![t] = "free"]
  /\ UNCHANGED <<callers, turn, leader, entries>>

------------------------------------------------------------------------------
(* The turns of the actor.                                                 *)

(* The message the actor receives, if it is of one of these types.         *)
Received == Head(line)

Receives(types) ==
  /\ turn = Nil /\ ~Blocked
  /\ line # <<>> /\ Received.type \in types
  /\ line' = Tail(line)

(* Mutant: the reply channel is dropped without a reply, and kept open.    *)
NoReply == UNCHANGED callers

Reply == calling' = calling \ {Received.from} /\ UNCHANGED pending

(* The handlers of these waiters get the results of their entries.         *)
Answer(answered, waiters) ==
  calling' = calling \ answered /\ pending' = waiters \ answered

(* Mutant: the limit is compared with the entries after the first.         *)
ApplyOffByOne(k, u) ==
  /\ k <= u /\ unapplied' = u - k /\ applied' = applied + k
  /\ failed' = (failed /\ k = 0)
  /\ turn' = IF applied + u > LogSizeLimit THEN Received ELSE Nil
  /\ UNCHANGED faults

(* Mutant: the commit index may be past the end of the log.                *)
ApplyPastTheEnd(k, u) ==
  /\ unapplied' = u - k /\ applied' = applied + k
  /\ failed' = (failed /\ k = 0)
  /\ turn' = IF 1 + applied + u > LogSizeLimit THEN Received ELSE Nil
  /\ UNCHANGED faults

(* apply_committed_entries applies k of u entries, and finds the log long  *)
(* or not.                                                                 *)
Apply(k, u) ==
  /\ k <= u /\ unapplied' = u - k /\ applied' = applied + k
  /\ failed' = (failed /\ k = 0)
  /\ turn' = IF 1 + applied + u > LogSizeLimit THEN Received ELSE Nil
  /\ UNCHANGED faults

(* Nothing is applied, and u entries are not.                              *)
KeepUnapplied(u) == unapplied' = u /\ UNCHANGED <<turn, applied, failed, faults>>

HandleQuery ==
  /\ Receives({"Health", "RequestVote"})
  /\ \/ UNCHANGED leader
     \/ Received.type = "RequestVote" /\ leader' = FALSE
  /\ Reply /\ UNCHANGED <<phase, turn, entries>>

HandleInstallSnapshot ==
  /\ Receives({"InstallSnapshot"})
  /\ \/ leader' \in {leader, FALSE} /\ UNCHANGED entries
     \/ /\ leader' = FALSE /\ applied' = 0 /\ unapplied' = 0 /\ failed' = FALSE
        /\ UNCHANGED faults
  /\ Reply /\ UNCHANGED <<phase, turn>>

HandleMembership ==
  /\ Receives({"Membership"})
  /\ \/ UNCHANGED <<phase, turn, entries>>
     \/ leader /\ unapplied < MaxUnapplied /\ KeepUnapplied(unapplied + 1) /\ Spawn
  /\ Reply /\ UNCHANGED leader

(* Refused; or appended, which drops the reply channel of an older entry   *)
(* of its index, sent to the peers, and in a cluster of one applied.       *)
HandleClientRequest ==
  /\ Receives({"ClientRequest"})
  /\ \/ Reply /\ UNCHANGED <<phase, turn, entries>>
     \/ /\ leader /\ unapplied < MaxUnapplied /\ Spawn
        /\ LET waiters == pending \cup ({Received.from} \cap calling)
           IN  \/ /\ KeepUnapplied(unapplied + 1)
                  /\ \E dropped \in SUBSET pending : Answer(dropped, waiters)
               \/ \E k \in 1 .. unapplied + 1 : \E answered \in SUBSET waiters :
                    Apply(k, unapplied + 1) /\ Answer(answered, waiters)
  /\ UNCHANGED leader

(* Refused or not saved; or merged, after which there are u entries to     *)
(* apply.  The reply is sent at the end of the turn.                       *)
HandleAppendEntries ==
  /\ Receives({"AppendEntries"})
  /\ \/ leader' \in {leader, FALSE} /\ Reply /\ UNCHANGED <<turn, entries>>
     \/ /\ leader' = FALSE
        /\ \E u \in 0 .. MaxUnapplied :
             \/ KeepUnapplied(u) /\ Reply
             \/ \E k \in 0 .. MaxUnapplied :
                \E answered \in IF k = 0 THEN {{}} ELSE SUBSET pending :
                  /\ Apply(k, u)
                  /\ Answer(answered \cup (IF turn' = Nil THEN {Received.from} ELSE {}), pending)
  /\ UNCHANGED phase

(* An old or late answer, a higher term, an answer that commits nothing,   *)
(* or one that does.                                                       *)
HandleAppendEntriesResult ==
  /\ Receives({"AppendEntriesResult"})
  /\ \/ leader' \in {leader, FALSE} /\ UNCHANGED <<callers, turn, entries>>
     \/ /\ leader /\ UNCHANGED leader
        /\ \E k \in 1 .. unapplied : \E answered \in SUBSET pending :
             Apply(k, unapplied) /\ Answer(answered, pending)
  /\ UNCHANGED phase

HandleUpdatePeerClient ==
  /\ Receives({"UpdatePeerClient"})
  /\ UNCHANGED <<callers, phase, turn, leader, entries>>

(* Mutant: there is no snapshot while an entry is not applied.             *)
HandleTriggerSnapshotLate ==
  /\ Receives({"TriggerSnapshot"})
  /\ \/ (applied = 0 \/ unapplied > 0) /\ UNCHANGED entries
     \/ /\ applied > 0 /\ unapplied = 0 /\ applied' = 0 /\ failed' = FALSE
        /\ UNCHANGED <<unapplied, faults>>
     \/ /\ applied > 0 /\ faults < MaxFaults /\ faults' = faults + 1 /\ failed' = TRUE
        /\ UNCHANGED <<applied, unapplied>>
  /\ UNCHANGED <<callers, phase, turn, leader>>

(* Nothing was applied since the last snapshot; or there is a new one, and *)
(* the log keeps what is not applied; or it could not be written.          *)
HandleTriggerSnapshot ==
  /\ Receives({"TriggerSnapshot"})
  /\ \/ applied = 0 /\ UNCHANGED entries
     \/ /\ applied > 0 /\ applied' = 0 /\ failed' = FALSE
        /\ UNCHANGED <<unapplied, faults>>
     \/ /\ applied > 0 /\ faults < MaxFaults /\ faults' = faults + 1 /\ failed' = TRUE
        /\ UNCHANGED <<applied, unapplied>>
  /\ UNCHANGED <<callers, phase, turn, leader>>

(* The rest of a turn that found the log too long: the TriggerSnapshot     *)
(* gets a place at once or never, and an AppendEntries its reply.          *)
SendTriggerSnapshot ==
  /\ turn # Nil /\ ~Blocked
  /\ line' = Append(line, Msg("TriggerSnapshot", turn.from))
  /\ \/ /\ Len(line) < Capacity /\ turn' = Nil
        /\ calling' = IF turn.type = "AppendEntries" THEN calling \ {turn.from} ELSE calling
     \/ Len(line) >= Capacity /\ UNCHANGED <<turn, calling>>
  /\ UNCHANGED <<pending, phase, leader, entries>>

(* The timers.                                                             *)
Heartbeat ==
  /\ leader /\ turn = Nil /\ ~Blocked
  /\ Spawn
  /\ UNCHANGED <<line, callers, turn, leader, entries>>

Elected ==
  /\ ~leader /\ turn = Nil /\ ~Blocked
  /\ leader' = TRUE /\ Spawn
  /\ UNCHANGED <<line, callers, turn, entries>>

------------------------------------------------------------------------------
Handle ==
  \/ HandleQuery \/ HandleInstallSnapshot \/ HandleMembership \/ HandleClientRequest
  \/ HandleAppendEntries \/ HandleAppendEntriesResult \/ HandleUpdatePeerClient
  \/ HandleTriggerSnapshot \/ SendTriggerSnapshot

Next ==
  \/ Handle \/ Heartbeat \/ Elected
  \/ \E h \in Handler : Call(h) \/ GiveUp(h)
  \/ \E t \in Task : Connected(t) \/ Ends(t) \/ Finish(t)

(* select! polls its branches in a random order, so messages are received  *)
(* between the ticks, and the deadlines pass; nobody has to call.          *)
Fairness == WF_vars(Handle) /\ \A h \in Handler : WF_vars(GiveUp(h))

Spec == Init /\ [][Next]_vars /\ Fairness

------------------------------------------------------------------------------
TypeOK ==
  /\ line \in Seq(Message)
  /\ pending \subseteq calling /\ calling \subseteq Handler
  /\ phase \in [Task -> {"free", "connecting", "calling"}]
  /\ turn \in Message \cup {Nil} /\ leader \in BOOLEAN
  /\ applied \in Nat /\ unapplied \in Nat
  /\ failed \in BOOLEAN /\ faults \in 0 .. MaxFaults

(* A handler that awaits its reply has its message in the line, its entry  *)
(* in the log or its turn unfinished, and a message in the line has its    *)
(* handler unless that has given up: no reply is forgotten and none is     *)
(* sent to a later call, whatever callers give up in between.              *)
NothingLost ==
  \A h \in Handler :
    /\ h \in calling =>
         Sent(h) \/ h \in pending \/ (InTurn(h) /\ turn.type = "AppendEntries")
    /\ Sent(h) => h \in calling \ pending

(* The places that suffice: two for each handler, its message and the      *)
(* TriggerSnapshot of its last one; three for each task, its client, its   *)
(* result and the TriggerSnapshot of its last one; and none for the        *)
(* message that is being handled.                                          *)
Enough == Capacity + 1 >= 2 * Cardinality(Handler) + 3 * Cardinality(Task)

(* With these places the actor never waits for itself (run's inbox.recv    *)
(* and apply_committed_entries's send), unless messages are in the line    *)
(* whose callers have given up: such do not count as on their way.         *)
BlockedOnlyByAbandoned == Enough /\ Blocked => Abandoned # {}

(* A log that is long with applied entries has its TriggerSnapshot on the  *)
(* way, unless the last one could not write the snapshot: then the next    *)
(* applied entry sends another.                                            *)
CompactionDue ==
  applied >= LogSizeLimit /\ ~failed =>
    turn # Nil \/ \E i \in 1 .. Len(line) : line[i].type = "TriggerSnapshot"

(* Every RPC and every probe ends, by its answer or its deadline, as long  *)
(* as the actor does not wait for itself.                                  *)
CallsEnd == \A h \in Handler : h \in calling ~> (h \notin calling \/ Blocked)

(* And a log long with applied entries is compacted, or its snapshot could *)
(* not be written.                                                         *)
LogCompacted == applied >= LogSizeLimit ~> (applied < LogSizeLimit \/ failed \/ Blocked)
==============================================================================
