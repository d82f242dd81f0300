-------------------------------- MODULE Client --------------------------------
(***************************************************************************)
(* Calls of the command line and of the gateway, src/src/utils/client.rs,  *)
(* against the nodes' execute handler, src/src/raft/actor.rs, and their    *)
(* state machines, which KeyValue models.  A call tries the address it     *)
(* has, follows the leader hints of nodes that refuse it, and ends with a  *)
(* result or an error.                                                     *)
(*                                                                         *)
(* The cluster is what RaftCluster shows it to be: one growing log of      *)
(* committed entries, which every node applies in order and every leader   *)
(* has in its log.  An entry is the call it was made for.  A leader that   *)
(* has lost its office may not know it and accepts requests all the same.  *)
(***************************************************************************)
EXTENDS Naturals, Sequences, FiniteSets, SequencesExt

CONSTANTS
  Node, Caller, Nil,
  Execute(_, _),  \* StateMachine::apply: the store and the result of a command
  Fresh,          \* StateMachine::new
  Requests,       \* Requests[c]: the commands that c calls execute with, in order
  Home,           \* Home[c]: the address with which c begins each call
  MaxRetries,     \* max_retries, the addresses a call tries
  MaxElections,   \* bound: elections won
  MaxTroubles,    \* bound: crashes, leaders deposed by a term, entries not saved
  WrongAnswers    \* is a call answered when another entry is applied at its index?

ASSUME ClientAssumption ==
  /\ Node # {} /\ Nil \notin Node /\ Home \in [Caller -> Node]
  /\ MaxRetries \in Nat /\ MaxElections \in Nat /\ MaxTroubles \in Nat
  /\ WrongAnswers \in BOOLEAN

VARIABLES
  committed,            \* the entries committed by some leader
  log,                  \* log[n]: the entries of n when it last led, and since as leader
  leads, hint, latest,  \* who believes to lead, current_leader, the last to win
  applied, store,       \* the state machines
  pending,              \* pending_requests: log index -> call
  phase, addr, retries, \* the loop of execute_with_redirect
  calls, since,         \* calls[c]: calls made; since[c]: Len(committed) before
  sent, replies,        \* requests and replies under way
  finished,             \* history: how the calls ended
  elections, troubles

machines == <<applied, store>>
offices == <<leads, hint, latest>>
loop == <<phase, addr, retries, calls, since>>
budget == <<elections, troubles>>
vars == <<committed, log, offices, machines, pending, loop, sent, replies, finished, budget>>

CallOf(c) == <<c, calls[c]>>

Request(c) == [call |-> CallOf(c), node |-> addr[c]]

CommandOf(call) == Requests[call[1]][call[2]]

Ok(result) == [kind |-> "Ok", result |-> result]
NotLeader(n) == [kind |-> "NotLeader", leader |-> n]
Internal == [kind |-> "Internal"]

------------------------------------------------------------------------------
(* The caller.                                                             *)

(* The command line goes on with the address it was given, for no error it *)
(* sees is a NodeError; the gateway keeps RAFT_ADDR.                       *)
Begin(c) ==
  /\ phase[c] = "idle" /\ calls[c] < Len(Requests[c])
  /\ phase' = [phase EXCEPT ![c] = "trying"]
  /\ addr' = [addr EXCEPT ![c] = Home[c]]
  /\ retries' = [retries EXCEPT ![c] = MaxRetries]
  /\ calls' = [calls EXCEPT ![c] = @ + 1]
  /\ since' = [since EXCEPT ![c] = Len(committed)]
  /\ UNCHANGED <<committed, log, offices, machines, pending, sent, replies, finished, budget>>

(* `outcome` is what the caller is told, `text` its result; the history    *)
(* keeps what tells whether the call took effect.                          *)
End(c, outcome, text) ==
  /\ phase' = [phase EXCEPT ![c] = "idle"]
  /\ finished' = IF outcome = "error" THEN finished
                 ELSE finished \cup
                   {[call |-> CallOf(c), since |-> since[c], outcome |-> outcome, result |-> text]}

(* Replies to a call that has ended have no receiver.                      *)
RepliesToOthers(c) == {r \in replies : r.to.call # CallOf(c)}

RedirectLimit(c) ==
  /\ phase[c] = "trying" /\ retries[c] = 0
  /\ End(c, "refused", <<>>)
  /\ UNCHANGED <<committed, log, offices, machines, pending, addr, retries, calls, since, sent,
                 replies, budget>>

(* One turn of the loop up to its wait for the reply.                      *)
Connect(c) ==
  /\ phase[c] = "trying" /\ retries[c] > 0
  /\ retries' = [retries EXCEPT ![c] = @ - 1]
  /\ \/ /\ phase' = [phase EXCEPT ![c] = "waiting"]
        /\ sent' = sent \cup {Request(c)}
        /\ UNCHANGED finished
     \/ /\ End(c, "refused", <<>>)
        /\ UNCHANGED sent
  /\ UNCHANGED <<committed, log, offices, machines, pending, addr, calls, since, replies, budget>>

ReceiveReply(c) ==
  /\ phase[c] = "waiting"
  /\ \E r \in replies :
       /\ r.to = Request(c)
       /\ replies' = replies \ {r}
       /\ \/ /\ r.reply.kind = "Ok"
             /\ End(c, "ok", r.reply.result)
             /\ UNCHANGED addr
          \/ /\ r.reply.kind = "NotLeader" /\ r.reply.leader # Nil
             /\ addr' = [addr EXCEPT ![c] = r.reply.leader]
             /\ phase' = [phase EXCEPT ![c] = "trying"]
             /\ UNCHANGED finished
          \/ /\ r.reply.kind = "NotLeader" /\ r.reply.leader = Nil
             /\ End(c, "refused", <<>>)
             /\ UNCHANGED addr
          \/ /\ r.reply.kind = "Internal"
             /\ End(c, "error", <<>>)
             /\ UNCHANGED addr
  /\ UNCHANGED <<committed, log, offices, machines, pending, retries, calls, since, sent, budget>>

(* Mutant: a call whose deadline passes is tried again.                    *)
TryAgain(c) ==
  /\ phase' = [phase EXCEPT ![c] = "trying"]
  /\ UNCHANGED finished

Fail(c) == End(c, "error", <<>>)

(* The deadline of the call passes, or its connection breaks.  The request *)
(* may still be handled.                                                   *)
RpcError(c) ==
  /\ phase[c] = "waiting"
  /\ Fail(c)
  /\ replies' = RepliesToOthers(c)
  /\ UNCHANGED <<committed, log, offices, machines, pending, addr, retries, calls, since, sent,
                 budget>>

------------------------------------------------------------------------------
(* A node.                                                                 *)

Awaited(r) == LET c == r.call[1] IN phase[c] = "waiting" /\ r = Request(c)

Answered(answers) == replies \cup {a \in answers : Awaited(a.to)}

Reply(r, reply) == Answered({[to |-> r, reply |-> reply]})

Trouble == troubles < MaxTroubles /\ troubles' = troubles + 1

(* handle_client_request.  The pending request is kept under the entry's   *)
(* index, over an older one of that index.                                 *)
HandleClientRequest(n, r) ==
  /\ r \in sent /\ r.node = n
  /\ sent' = sent \ {r}
  /\ \/ /\ ~leads[n]
        /\ replies' = Reply(r, NotLeader(hint[n]))
        /\ UNCHANGED <<log, pending, troubles>>
     \/ /\ leads[n]
        /\ log' = [log EXCEPT ![n] = Append(@, r.call)]
        /\ pending' = [pending EXCEPT ![n] =
             [i \in DOMAIN @ \cup {Len(log'[n])} |-> IF i = Len(log'[n]) THEN r ELSE @[i]]]
        /\ UNCHANGED <<replies, troubles>>
     \/ /\ leads[n]
        /\ Trouble
        /\ replies' = Reply(r, Internal)
        /\ UNCHANGED <<log, pending>>
  /\ UNCHANGED <<committed, offices, machines, loop, finished, elections>>

(* Mutant: the result is that of the store before the entry.               *)
ResultBefore(before, after) == before.result

ResultOf(before, after) == after.result

(* What the machine of n goes through from the last entry it has applied,  *)
(* and the calls that n took for entries it now applies.  A leader that    *)
(* lost its office answers those with whatever is applied at their indices *)
(* (run wrong_answer); without WrongAnswers only what the call's own entry *)
(* gives is told.                                                          *)
RunOf(n, entries, to) ==
  LET run[i \in applied[n] .. to] ==
        IF i = applied[n] THEN [store |-> store[n], result |-> <<>>]
        ELSE Execute(run[i - 1].store, CommandOf(entries[i]))
  IN  run

Served(n, to) == (applied[n] + 1 .. to) \cap DOMAIN pending[n]

Told(n, entries, to) ==
  {i \in Served(n, to) : WrongAnswers \/ pending[n][i].call = entries[i]}

(* apply_committed_entries of n up to index `to` of the log `entries`.     *)
ApplyUpTo(n, entries, to) ==
  LET run == RunOf(n, entries, to)
      Answer(i) == [to |-> pending[n][i], reply |-> Ok(ResultOf(run[i - 1], run[i]))]
  IN  /\ applied' = [applied EXCEPT ![n] = to]
      /\ store' = [store EXCEPT ![n] = run[to].store]
      /\ pending' = [pending EXCEPT ![n] =
                       [i \in DOMAIN pending[n] \ Served(n, to) |-> pending[n][i]]]
      /\ replies' = Answered({Answer(i) : i \in Told(n, entries, to)})

(* A leader counts a quorum for its entries up to i.  One that has been    *)
(* replaced can do so only for entries that its successor has, too.        *)
Commit(n) ==
  /\ leads[n]
  /\ \E i \in applied[n] + 1 .. Len(log[n]) :
       LET mine == SubSeq(log[n], 1, i)
       IN  /\ IsPrefix(mine, log[latest])
           /\ \/ IsPrefix(mine, committed) /\ UNCHANGED committed
              \/ IsStrictPrefix(committed, mine) /\ committed' = mine
           /\ ApplyUpTo(n, mine, i)
  /\ UNCHANGED <<log, offices, loop, sent, finished, budget>>

(* AppendEntries of the last leader: the node follows it and applies some  *)
(* of what is committed.                                                   *)
Hear(n) ==
  /\ latest # Nil /\ n # latest
  /\ leads' = [leads EXCEPT ![n] = FALSE]
  /\ hint' = [hint EXCEPT ![n] = latest]
  /\ \E to \in applied[n] .. Len(committed) : ApplyUpTo(n, committed, to)
  /\ UNCHANGED <<committed, log, latest, loop, sent, finished, budget>>

(* A higher term, without its leader. *)
StepDown(n) ==
  /\ leads[n] /\ Trouble
  /\ leads' = [leads EXCEPT ![n] = FALSE]
  /\ hint' = [hint EXCEPT ![n] = Nil]
  /\ UNCHANGED <<committed, log, latest, machines, pending, loop, sent, replies, finished,
                 elections>>

(* Only a node with all committed entries is elected, and no entry can be  *)
(* committed afterwards that it does not have.  What else it has it got    *)
(* from some leader, in order.                                             *)
Elect(n) ==
  /\ ~leads[n] /\ elections < MaxElections
  /\ \E m \in Node : \E k \in Len(committed) .. Len(log[m]) :
       LET entries == SubSeq(log[m], 1, k)
       IN  IsPrefix(committed, entries) /\ log' = [log EXCEPT ![n] = entries]
  /\ elections' = elections + 1
  /\ leads' = [leads EXCEPT ![n] = TRUE]
  /\ hint' = [hint EXCEPT ![n] = n]
  /\ latest' = n
  /\ UNCHANGED <<committed, machines, pending, loop, sent, replies, finished, troubles>>

(* Mutant: the restarted machine keeps what it had applied.                *)
KeepStore(n) == applied' = [applied EXCEPT ![n] = 0] /\ UNCHANGED store

ResetStore(n) ==
  /\ applied' = [applied EXCEPT ![n] = 0]
  /\ store' = [store EXCEPT ![n] = Fresh]

(* The process dies and starts again; calls to it end at their deadlines.  *)
Crash(n) ==
  /\ Trouble
  /\ leads' = [leads EXCEPT ![n] = FALSE]
  /\ hint' = [hint EXCEPT ![n] = Nil]
  /\ ResetStore(n)
  /\ pending' = [pending EXCEPT ![n] = <<>>]
  /\ sent' = {r \in sent : r.node # n}
  /\ UNCHANGED <<committed, log, latest, loop, replies, finished, elections>>

------------------------------------------------------------------------------
Init ==
  /\ committed = <<>> /\ log = [n \in Node |-> <<>>]
  /\ leads = [n \in Node |-> FALSE] /\ hint = [n \in Node |-> Nil] /\ latest = Nil
  /\ applied = [n \in Node |-> 0] /\ store = [n \in Node |-> Fresh]
  /\ pending = [n \in Node |-> <<>>]
  /\ phase = [c \in Caller |-> "idle"] /\ addr = Home
  /\ retries = [c \in Caller |-> 0]
  /\ calls = [c \in Caller |-> 0] /\ since = [c \in Caller |-> 0]
  /\ sent = {} /\ replies = {} /\ finished = {}
  /\ elections = 0 /\ troubles = 0

Next ==
  \/ \E c \in Caller : \/ Begin(c) \/ RedirectLimit(c) \/ Connect(c)
                       \/ ReceiveReply(c) \/ RpcError(c)
  \/ \E n \in Node : \/ \E r \in sent : HandleClientRequest(n, r)
                     \/ Commit(n) \/ Hear(n) \/ StepDown(n) \/ Elect(n) \/ Crash(n)

Spec == Init /\ [][Next]_vars

------------------------------------------------------------------------------
(* Properties.                                                             *)

(* Calls and machines have the states the code gives them; a machine is    *)
(* the replay of the committed entries it has applied.                     *)
Replay[i \in 0 .. Len(committed)] ==
  IF i = 0 THEN [store |-> Fresh, result |-> <<>>]
  ELSE Execute(Replay[i - 1].store, CommandOf(committed[i]))

TypeOK ==
  /\ phase \in [Caller -> {"idle", "trying", "waiting"}]
  /\ retries \in [Caller -> 0 .. MaxRetries]
  /\ \A n \in Node : applied[n] \in 0 .. Len(committed) /\ store[n] = Replay[applied[n]].store

Logs == {committed} \cup {log[n] : n \in Node}

(* A call adds at most one entry to the log, however often it is           *)
(* redirected: it goes on to another node only when one has refused it.    *)
AtMostOnce ==
  \A entries \in Logs :
    \A i, j \in 1 .. Len(entries) : entries[i] = entries[j] => i = j

(* Each answered call took effect exactly at one place of the log, after   *)
(* all calls that had ended before it began, and was told the result of    *)
(* its command there: the cluster is linearizable, reads included, but for *)
(* the answers that WrongAnswers leaves out.                               *)
Linearizable ==
  \A f \in finished : f.outcome = "ok" =>
    \E i \in f.since + 1 .. Len(committed) : committed[i] = f.call /\ f.result = Replay[i].result

(* A call that ended for want of a leader has no effect, now or later.     *)
RefusedWithoutEffect ==
  \A f \in finished : f.outcome = "refused" =>
    \A entries \in Logs :
      \A i \in 1 .. Len(entries) : entries[i] # f.call

(* What makes these inductive.  A call is in a log only after a node has   *)
(* taken its request out of `sent`, where it is once.  A call that is free,*)
(* refused or not yet sent, is in neither; it is sent again only while its *)
(* caller is trying.  And since the log only grows, no place up to         *)
(* since[c] is that of a call in progress.                                 *)
Call == Caller \X Nat

Entered(k) == \E entries \in Logs : \E i \in 1 .. Len(entries) : entries[i] = k

Made(k) == k \in Call /\ k[2] <= calls[k[1]]

Free(k) == ~Entered(k) /\ \A r \in sent : r.call # k

Refusals == {a \in replies : a.reply.kind # "Ok"}

StateType ==
  /\ committed \in Seq(Call) /\ log \in [Node -> Seq(Call)]
  /\ applied \in [Node -> Nat] /\ DOMAIN store = Node
  /\ phase \in [Caller -> {"idle", "trying", "waiting"}]
  /\ calls \in [Caller -> Nat] /\ since \in [Caller -> Nat]

EntriesMade == \A entries \in Logs : \A i \in 1 .. Len(entries) : Made(entries[i])

SentOnce ==
  /\ \A r \in sent : Made(r.call) /\ ~Entered(r.call)
  /\ \A r, q \in sent : r.call = q.call => r = q

TryingFree ==
  \A c \in Caller : phase[c] = "trying" =>
    Free(CallOf(c)) /\ \A a \in Refusals : a.to.call # CallOf(c)

RefusalsOnce ==
  /\ \A a \in Refusals : Made(a.to.call) /\ Free(a.to.call)
  /\ \A a, b \in Refusals : a.to.call = b.to.call => a = b

RefusedFree ==
  \A f \in finished : f.outcome = "refused" =>
    /\ Made(f.call) /\ Free(f.call)
    /\ \A c \in Caller : phase[c] # "idle" => f.call # CallOf(c)

CallsInv ==
  /\ StateType /\ AtMostOnce
  /\ EntriesMade /\ SentOnce /\ TryingFree /\ RefusalsOnce /\ RefusedFree

AnswersTold ==
  \A a \in replies : a.reply.kind = "Ok" =>
    \E i \in 1 .. Len(committed) :
      committed[i] = a.to.call /\ a.reply.result = Replay[i].result

CallsLater ==
  /\ \A f \in finished : f.outcome = "ok" => f.since \in Nat
  /\ \A c \in Caller : phase[c] # "idle" =>
       /\ since[c] <= Len(committed)
       /\ \A i \in 1 .. since[c] : committed[i] # CallOf(c)

AnswersInv == Linearizable /\ AnswersTold /\ CallsLater
==============================================================================
