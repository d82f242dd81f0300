---------------------------- MODULE InboxProofs ----------------------------
(***************************************************************************)
(* The inbox of an actor, for every number of handlers, of tasks and of    *)
(* places: no reply is forgotten, a log that is too long has its           *)
(* TriggerSnapshot on the way, and with enough places the actor does not   *)
(* wait for itself.                                                        *)
(***************************************************************************)
EXTENDS ActorInbox, FiniteSetTheorems, SequenceTheorems, TLAPS

(* The inductive invariant besides the properties.                         *)

IsTrigger(m) == m.type = "TriggerSnapshot"

(* The order in which the messages of one sender can stand in the line.    *)
Rank(m) == IF IsTrigger(m) THEN 1 ELSE IF m.type = "UpdatePeerClient" THEN 2 ELSE 3

Ordered ==
  \A i, j \in 1 .. Len(line) :
    i < j /\ line[i].from # Nil /\ line[i].from = line[j].from => Rank(line[i]) < Rank(line[j])

(* What a task has sent agrees with what it does.                          *)
TasksSend ==
  \A t \in Task : \A i \in 1 .. Len(line) :
    line[i].from = t =>
      /\ line[i].type = "UpdatePeerClient" => phase[t] # "connecting"
      /\ line[i].type = "AppendEntriesResult" => phase[t] = "free"

(* The message of an unfinished turn is of one of three kinds, its task is *)
(* free, its client waits for the entry if for anything, its replica does  *)
(* not, and its sender has nothing in the line but the TriggerSnapshot     *)
(* that waits for a place.                                                 *)
TurnOpen ==
  turn # Nil =>
    /\ turn.type \in {"AppendEntries", "ClientRequest", "AppendEntriesResult"}
    /\ turn.type = "AppendEntriesResult" => phase[turn.from] = "free"
    /\ turn.type = "ClientRequest" => turn.from \notin calling \ pending
    /\ turn.type = "AppendEntries" => turn.from \notin pending
    /\ turn.from # Nil =>
         \A i \in 1 .. Len(line) : line[i].from = turn.from => IsWaiting(i) /\ IsTrigger(line[i])

(* Only the trigger of the unfinished turn waits for a place.              *)
WaitingTrigger ==
  \A i \in 1 .. Len(line) :
    IsWaiting(i) /\ IsTrigger(line[i]) => turn # Nil /\ line[i].from = turn.from

HasTrigger == \E i \in 1 .. Len(line) : line[i].type = "TriggerSnapshot"

IInv ==
  TypeOK /\ NothingLost /\ CompactionDue /\ Ordered /\ TasksSend /\ TurnOpen /\ WaitingTrigger

------------------------------------------------------------------------------
(* Sequences of messages.                                                  *)

LEMMA TailFacts ==
  ASSUME NEW q \in Seq(Message), q # <<>>
  PROVE  /\ Tail(q) \in Seq(Message) /\ Len(q) \in Nat /\ Len(q) >= 1
         /\ Len(Tail(q)) = Len(q) - 1
         /\ Head(q) = q[1] /\ Head(q) \in Message
         /\ \A i \in 1 .. Len(Tail(q)) : Tail(q)[i] = q[i + 1] /\ i + 1 \in 1 .. Len(q)
  BY HeadTailProperties

LEMMA AppendFacts ==
  ASSUME NEW q \in Seq(Message), NEW m \in Message
  PROVE  /\ Append(q, m) \in Seq(Message) /\ Len(q) \in Nat
         /\ Len(Append(q, m)) = Len(q) + 1
         /\ \A i \in 1 .. Len(q) : Append(q, m)[i] = q[i]
         /\ Append(q, m)[Len(q) + 1] = m
  BY AppendProperties

LEMMA WithoutFacts ==
  ASSUME NEW q \in Seq(Message), NEW i \in 1 .. Len(q)
  PROVE  /\ Without(q, i) \in Seq(Message) /\ Len(q) \in Nat
         /\ Len(Without(q, i)) = Len(q) - 1
         /\ \A j \in 1 .. Len(q) - 1 : /\ j < i => Without(q, i)[j] = q[j]
                                       /\ j >= i => Without(q, i)[j] = q[j + 1]
<1>1. PICK n \in Nat : n = Len(q) - 1 /\ Len(q) \in Nat
  OBVIOUS
<1>2. PICK w : w = Without(q, i)
  OBVIOUS
<1>3. w = [j \in 1 .. n |-> q[IF j < i THEN j ELSE j + 1]]
  BY <1>1, <1>2 DEF Without
<1>4. ASSUME NEW j \in 1 .. n
      PROVE  /\ (IF j < i THEN j ELSE j + 1) \in 1 .. Len(q)
             /\ w[j] = q[IF j < i THEN j ELSE j + 1] /\ w[j] \in Message
  <2>1. (IF j < i THEN j ELSE j + 1) \in 1 .. Len(q)
    BY <1>1
  <2>2. \A k \in 1 .. Len(q) : q[k] \in Message
    BY ElementOfSeq
  <2> QED BY <1>3, <2>1, <2>2
<1>5. w \in Seq(Message) /\ Len(w) = n
  <2>1. w \in [1 .. n -> Message]
    BY <1>3, <1>4
  <2> QED BY <1>1, <2>1, SeqDef, LenProperties
<1> QED BY <1>1, <1>2, <1>4, <1>5

LEMMA LineType ==
  ASSUME TypeOK
  PROVE  line \in Seq(Message) /\ Len(line) \in Nat /\ \A i \in 1 .. Len(line) : line[i] \in Message
  BY ElementOfSeq DEF TypeOK

(* Who a message of each type is from.                                     *)
LEMMA Senders ==
  ASSUME NEW m \in Message
  PROVE  /\ m.from \in Handler \cup Task \cup {Nil}
         /\ m.type \in Request => m.from \in Handler \cup {Nil}
         /\ m.type \in {"UpdatePeerClient", "AppendEntriesResult"} => m.from \in Task
         /\ m = Msg(m.type, m.from) /\ m # Nil
         /\ m.type \in Request \cup {"UpdatePeerClient", "AppendEntriesResult", "TriggerSnapshot"}
<1>1. m # Nil
  BY InboxAssumption
<1>2. CASE m \in [type : Request, from : Handler \cup {Nil}]
  BY <1>1, <1>2 DEF Msg, Request
<1>3. CASE m \in [type : {"UpdatePeerClient", "AppendEntriesResult"}, from : Task]
  BY <1>1, <1>3 DEF Msg, Request
<1>4. CASE m \in [type : {"TriggerSnapshot"}, from : Handler \cup Task \cup {Nil}]
  BY <1>1, <1>4 DEF Msg, Request
<1> QED BY <1>2, <1>3, <1>4 DEF Message

LEMMA Sends ==
  /\ \A h \in Handler, type \in Request : Msg(type, h) \in Message
  /\ \A t \in Task : Msg("UpdatePeerClient", t) \in Message /\ Msg("AppendEntriesResult", t) \in Message
  /\ \A s \in Handler \cup Task \cup {Nil} : Msg("TriggerSnapshot", s) \in Message
BY DEF Message, Msg

(* A handler's messages besides triggers are all of the last rank.         *)
LEMMA HandlerRank ==
  ASSUME NEW m \in Message, m.from \in Handler
  PROVE  Rank(m) = IF IsTrigger(m) THEN 1 ELSE 3
BY Senders, InboxAssumption DEF Rank

------------------------------------------------------------------------------
(* The actor receives a message.  Of its sender, if that waits for nothing *)
(* else to be handled, no message is left.                                 *)
Gone(m) == \A i \in 1 .. Len(line') : line'[i].from # m.from

LEMMA Receiving ==
  ASSUME IInv, NEW types, Receives(types)
  PROVE  /\ Received \in Message /\ Received.type \in types /\ turn = Nil
         /\ line' \in Seq(Message) /\ Len(line') \in Nat
         /\ \A i \in 1 .. Len(line') : \E j \in 1 .. Len(line) : line'[i] = line[j]
         /\ \A s : ~IsTrigger(Received) /\ Received.from = s => Sent(s)
         /\ \A s : Sent(s)' => Sent(s)
         /\ \A s : Sent(s) /\ s # Received.from => Sent(s)'
         /\ Rank(Received) = 3 /\ Received.from # Nil => Gone(Received)
         /\ Ordered'
         /\ \A i \in 1 .. Len(line') : ~(i > Capacity /\ IsTrigger(line'[i]))
         /\ HasTrigger /\ ~IsTrigger(Received) => HasTrigger'
<1>0. line \in Seq(Message) /\ line # <<>> /\ line' = Tail(line) /\ Received.type \in types
      /\ turn = Nil
  BY LineType DEF IInv, Receives
<1>1. /\ line' \in Seq(Message) /\ Len(line) \in Nat /\ Len(line) >= 1 /\ Len(line') = Len(line) - 1
      /\ Received = line[1] /\ Received \in Message
      /\ \A i \in 1 .. Len(line') : line'[i] = line[i + 1] /\ i + 1 \in 1 .. Len(line)
  BY <1>0, TailFacts DEF Received
<1>2. 1 \in 1 .. Len(line) /\ Len(line') \in Nat
  BY <1>1
<1>3. \A k \in 1 .. Len(line) : k = 1 \/ (k - 1 \in 1 .. Len(line') /\ line'[k - 1] = line[k])
  <2> TAKE k \in 1 .. Len(line)
  <2>1. CASE k # 1
    <3>1. k - 1 \in 1 .. Len(line') /\ (k - 1) + 1 = k
      BY <1>1, <2>1
    <3> QED BY <1>1, <3>1
  <2> QED BY <2>1
<1>4. \A s : ~IsTrigger(Received) /\ Received.from = s => Sent(s)
  BY <1>1, <1>2 DEF Sent, SentAt, IsTrigger
<1>5. \A s : Sent(s)' => Sent(s)
  BY <1>1 DEF Sent, SentAt
<1>6. ASSUME NEW s, Sent(s), s # Received.from PROVE Sent(s)'
  <2>1. PICK k \in 1 .. Len(line) : line[k].from = s /\ line[k].type # "TriggerSnapshot"
    BY <1>6 DEF Sent, SentAt
  <2>2. k # 1
    BY <1>1, <1>6, <2>1
  <2> QED BY <1>3, <2>1, <2>2 DEF Sent, SentAt
<1>7. ASSUME Rank(Received) = 3, Received.from # Nil PROVE Gone(Received)
  <2> SUFFICES ASSUME NEW i \in 1 .. Len(line'), line'[i].from = Received.from PROVE FALSE
    BY DEF Gone
  <2>1. i + 1 \in 1 .. Len(line) /\ line[i + 1].from = line[1].from /\ 1 < i + 1
    BY <1>1
  <2>2. Rank(line[1]) < Rank(line[i + 1])
    BY <1>1, <1>2, <1>7, <2>1 DEF IInv, Ordered
  <2> QED BY <1>1, <1>7, <2>2 DEF Rank
<1>8. Ordered'
  <2> SUFFICES ASSUME NEW i \in 1 .. Len(line'), NEW j \in 1 .. Len(line'), i < j,
                      line'[i].from # Nil, line'[i].from = line'[j].from
               PROVE  Rank(line'[i]) < Rank(line'[j])
    BY DEF Ordered, Rank, IsTrigger
  <2>1. i + 1 \in 1 .. Len(line) /\ j + 1 \in 1 .. Len(line) /\ i + 1 < j + 1
    BY <1>1
  <2> QED BY <1>1, <2>1 DEF IInv, Ordered
<1>9. ASSUME NEW i \in 1 .. Len(line'), i > Capacity, IsTrigger(line'[i]) PROVE FALSE
  <2>1. i + 1 \in 1 .. Len(line) /\ i + 1 > Capacity /\ IsTrigger(line[i + 1])
    BY <1>1, <1>9, InboxAssumption
  <2> QED BY <1>0, <2>1 DEF IInv, WaitingTrigger, IsWaiting
<1>10. HasTrigger /\ ~IsTrigger(Received) => HasTrigger'
  BY <1>1, <1>3 DEF HasTrigger, IsTrigger
<1> QED BY <1>0, <1>1, <1>2, <1>4, <1>5, <1>6, <1>7, <1>8, <1>9, <1>10

(* What the parts of the invariant that the line and the turn decide need  *)
(* after a message is received, whatever its handler did besides.          *)
LEMMA TurnLine ==
  ASSUME IInv, NEW types, Receives(types),
         turn' \in {Received, Nil},
         turn' # Nil => /\ Received.type \in {"AppendEntries", "ClientRequest", "AppendEntriesResult"}
                        /\ Received.type = "AppendEntriesResult" => phase' = phase
                        /\ Received.type = "ClientRequest" =>
                             Received.from \notin calling' \ pending'
                        /\ Received.type = "AppendEntries" => Received.from \notin pending'
  PROVE  TurnOpen' /\ WaitingTrigger'
<1>1. /\ Received \in Message /\ turn = Nil
      /\ \A i \in 1 .. Len(line') : ~(i > Capacity /\ IsTrigger(line'[i]))
      /\ Rank(Received) = 3 /\ Received.from # Nil => Gone(Received)
  BY Receiving
<1>2. WaitingTrigger'
  BY <1>1 DEF WaitingTrigger, IsWaiting, IsTrigger
<1>3. ASSUME turn' # Nil PROVE TurnOpen'
  <2>1. turn' = Received /\ Rank(Received) = 3
    BY <1>3 DEF Rank, IsTrigger
  <2>2. ASSUME Received.type = "AppendEntriesResult" PROVE phase'[Received.from] = "free"
    <3>1. Received.from \in Task
      BY <1>1, <2>2, Senders
    <3>2. line \in Seq(Message) /\ line # <<>> /\ Received = Head(line)
      BY LineType DEF IInv, Receives, Received
    <3>3. 1 \in 1 .. Len(line) /\ line[1] = Received
      BY <3>2, TailFacts
    <3>4. phase[Received.from] = "free"
      BY <2>2, <3>1, <3>3 DEF IInv, TasksSend
    <3> QED BY <1>3, <2>2, <3>4
  <2>3. Received.from # Nil => \A i \in 1 .. Len(line') : line'[i].from # Received.from
    BY <1>1, <2>1 DEF Gone
  <2> QED BY <1>3, <2>1, <2>2, <2>3 DEF TurnOpen
<1>4. turn' = Nil => TurnOpen'
  BY DEF TurnOpen
<1> QED BY <1>2, <1>3, <1>4

(* The tasks that a turn spawns have nothing in the line.                  *)
LEMMA SpawnTasks ==
  ASSUME IInv, Spawn \/ phase' = phase,
         \A i \in 1 .. Len(line') : \E j \in 1 .. Len(line) : line'[i] = line[j]
  PROVE  TasksSend' /\ phase' \in [Task -> {"free", "connecting", "calling"}]
<1>1. phase' \in [Task -> {"free", "connecting", "calling"}]
  BY DEF Spawn, IInv, TypeOK
<1>2. ASSUME NEW t \in Task, NEW i \in 1 .. Len(line'), line'[i].from = t,
             line'[i].type \in {"UpdatePeerClient", "AppendEntriesResult"}
      PROVE  /\ line'[i].type = "UpdatePeerClient" => phase'[t] # "connecting"
             /\ line'[i].type = "AppendEntriesResult" => phase'[t] = "free"
  <2>1. PICK j \in 1 .. Len(line) : line'[i] = line[j]
    OBVIOUS
  <2>2. Sent(t)
    BY <1>2, <2>1 DEF Sent, SentAt
  <2>3. phase'[t] = phase[t]
    BY <2>2 DEF Spawn
  <2> QED BY <1>2, <2>1, <2>3 DEF IInv, TasksSend
<1> QED BY <1>1, <1>2 DEF TasksSend

------------------------------------------------------------------------------
(* The turns.  A reply that ends the call of the message's sender, and     *)
(* answers to handlers whose entries are applied, leave every other        *)
(* handler what it waits for.                                              *)
LEMMA CallsKept ==
  ASSUME IInv, NEW types, Receives(types), Rank(Received) = 3, NEW answered,
         calling' = calling \ answered,
         \/ /\ answered \subseteq pending \cup {Received.from}
            /\ pending' = pending \ answered
            /\ \/ Received.from \in answered \cup Task
               \/ turn' = Received /\ Received.type = "AppendEntries"
         \/ /\ answered \subseteq pending \cup ({Received.from} \cap calling)
            /\ pending' = (pending \cup ({Received.from} \cap calling)) \ answered
  PROVE  NothingLost' /\ pending' \subseteq calling' /\ calling' \subseteq Handler
<1>1. /\ pending \subseteq calling /\ calling \subseteq Handler
      /\ turn = Nil /\ Received \in Message /\ Received # Nil
      /\ \A s : Sent(s)' => Sent(s)
      /\ \A s : Sent(s) /\ s # Received.from => Sent(s)'
      /\ Received.from # Nil => Gone(Received)
  BY Receiving, Senders DEF IInv, TypeOK
<1>2. \A h \in Handler : /\ h \in calling => Sent(h) \/ h \in pending
                         /\ Sent(h) => h \in calling /\ h \notin pending
  BY <1>1 DEF IInv, NothingLost, InTurn
<1>3. \A h \in Handler : Sent(h)' => h # Received.from
  BY <1>1, InboxAssumption DEF Sent, SentAt, Gone
<1>4. ASSUME NEW h \in Handler, h \in calling'
      PROVE  Sent(h)' \/ h \in pending' \/ (InTurn(h) /\ turn.type = "AppendEntries")'
  <2>1. h \in calling /\ h \notin answered
    BY <1>4
  <2>2. CASE h = Received.from
    <3>1. h \notin Task
      BY InboxAssumption
    <3> QED BY <1>1, <1>2, <2>1, <2>2, <3>1 DEF InTurn
  <2>3. CASE h # Received.from
    BY <1>1, <1>2, <2>1, <2>3
  <2> QED BY <2>2, <2>3
<1>5. ASSUME NEW h \in Handler, Sent(h)' PROVE h \in calling' /\ h \notin pending'
  BY <1>1, <1>2, <1>3, <1>5
<1>6. NothingLost'
  BY <1>4, <1>5 DEF NothingLost
<1> QED BY <1>1, <1>6

LEMMA DueKept ==
  ASSUME IInv, NEW types, Receives(types), ~IsTrigger(Received), applied' = applied, failed' = failed
  PROVE  CompactionDue'
<1>1. turn = Nil /\ (HasTrigger => HasTrigger')
  BY Receiving
<1> QED BY <1>1 DEF IInv, CompactionDue, HasTrigger

LEMMA Applying ==
  ASSUME IInv, NEW k \in Nat, NEW u \in Nat, Apply(k, u), Received \in Message
  PROVE  /\ turn' \in {Received, Nil}
         /\ applied' \in Nat /\ unapplied' \in Nat /\ failed' \in BOOLEAN /\ faults' = faults
         /\ CompactionDue'
<1>1. /\ applied \in Nat /\ LogSizeLimit \in Nat /\ Received # Nil
  BY InboxAssumption DEF IInv, TypeOK
<1>2. /\ turn' \in {Received, Nil}
      /\ applied' \in Nat /\ unapplied' \in Nat /\ failed' \in BOOLEAN /\ faults' = faults
  BY <1>1 DEF Apply, IInv, TypeOK
<1>3. applied' >= LogSizeLimit => turn' # Nil
  BY <1>1 DEF Apply
<1> QED BY <1>2, <1>3 DEF CompactionDue

(* A turn keeps the invariant if it keeps these parts of it.               *)
LEMMA TurnKeeps ==
  ASSUME IInv, NEW types, Receives(types),
         Spawn \/ phase' = phase,
         turn' \in {Received, Nil},
         turn' # Nil => /\ Received.type \in {"AppendEntries", "ClientRequest", "AppendEntriesResult"}
                        /\ Received.type = "AppendEntriesResult" => phase' = phase
                        /\ Received.type = "ClientRequest" =>
                             Received.from \notin calling' \ pending'
                        /\ Received.type = "AppendEntries" => Received.from \notin pending',
         leader' \in BOOLEAN, applied' \in Nat, unapplied' \in Nat, failed' \in BOOLEAN,
         faults' \in 0 .. MaxFaults,
         NothingLost', pending' \subseteq calling', calling' \subseteq Handler, CompactionDue'
  PROVE  IInv'
<1>1. line' \in Seq(Message) /\ Received \in Message /\ Ordered'
      /\ \A i \in 1 .. Len(line') : \E j \in 1 .. Len(line) : line'[i] = line[j]
  BY Receiving
<1>2. TasksSend' /\ phase' \in [Task -> {"free", "connecting", "calling"}]
  BY <1>1, SpawnTasks
<1>3. TurnOpen' /\ WaitingTrigger'
  BY TurnLine
<1>4. TypeOK'
  BY <1>1, <1>2 DEF TypeOK
<1> QED BY <1>1, <1>2, <1>3, <1>4 DEF IInv

LEMMA Types ==
  ASSUME IInv
  PROVE  /\ leader \in BOOLEAN /\ applied \in Nat /\ unapplied \in Nat /\ failed \in BOOLEAN
         /\ faults \in 0 .. MaxFaults /\ MaxFaults \in Nat /\ MaxUnapplied \in Nat
         /\ LogSizeLimit \in Nat \ {0} /\ Capacity \in Nat
  BY InboxAssumption DEF IInv, TypeOK

LEMMA RankOfType ==
  ASSUME NEW m, m.type \in Request \cup {"AppendEntriesResult"}
  PROVE  Rank(m) = 3 /\ ~IsTrigger(m)
  BY DEF Rank, IsTrigger, Request

(* Who has sent a message does not wait for an entry.                      *)
LEMMA NotPending ==
  ASSUME IInv, NEW types, Receives(types), Rank(Received) = 3
  PROVE  Received.from \notin pending
<1> SUFFICES ASSUME Received.from \in pending PROVE FALSE
  OBVIOUS
<1>1. Received.from \in Handler
  BY DEF IInv, TypeOK
<1>2. Sent(Received.from)
  BY Receiving DEF Rank
<1> QED BY <1>1, <1>2 DEF IInv, NothingLost

(* A turn that ends with the reply.                                        *)
LEMMA ReplyKeeps ==
  ASSUME IInv, NEW types, Receives(types), Rank(Received) = 3, Reply
  PROVE  NothingLost' /\ pending' \subseteq calling' /\ calling' \subseteq Handler
<1>1. Received.from \notin pending
  BY NotPending
<1>2. /\ calling' = calling \ {Received.from}
      /\ pending' = pending \ {Received.from}
  BY <1>1 DEF Reply
<1> QED BY <1>2, CallsKept

LEMMA QueryKeeps == ASSUME IInv, HandleQuery PROVE IInv'
<1>1. Receives({"Health", "RequestVote"})
  BY DEF HandleQuery
<1>2. Received.type \in {"Health", "RequestVote"} /\ turn = Nil
  BY <1>1, Receiving
<1>3. Rank(Received) = 3 /\ ~IsTrigger(Received)
  BY <1>2, RankOfType DEF Request
<1>4. NothingLost' /\ pending' \subseteq calling' /\ calling' \subseteq Handler
  BY <1>1, <1>3, ReplyKeeps DEF HandleQuery
<1>5. UNCHANGED <<phase, turn, applied, unapplied, failed, faults>> /\ leader' \in BOOLEAN
  BY Types DEF HandleQuery, entries
<1>6. CompactionDue'
  BY <1>1, <1>3, <1>5, DueKept
<1> QED BY <1>1, <1>2, <1>4, <1>5, <1>6, Types, TurnKeeps

LEMMA InstallSnapshotKeeps == ASSUME IInv, HandleInstallSnapshot PROVE IInv'
<1>1. Receives({"InstallSnapshot"})
  BY DEF HandleInstallSnapshot
<1>2. Received.type \in {"InstallSnapshot"} /\ turn = Nil
  BY <1>1, Receiving
<1>3. Rank(Received) = 3 /\ ~IsTrigger(Received)
  BY <1>2, RankOfType DEF Request
<1>4. NothingLost' /\ pending' \subseteq calling' /\ calling' \subseteq Handler
  BY <1>1, <1>3, ReplyKeeps DEF HandleInstallSnapshot
<1>5. /\ UNCHANGED <<phase, turn, faults>> /\ leader' \in BOOLEAN
      /\ \/ UNCHANGED <<applied, unapplied, failed>>
         \/ applied' = 0 /\ unapplied' = 0 /\ failed' = FALSE
  BY Types DEF HandleInstallSnapshot, entries
<1>6. CompactionDue'
  <2>1. CASE UNCHANGED <<applied, unapplied, failed>>
    BY <1>1, <1>3, <2>1, DueKept
  <2>2. CASE applied' = 0
    BY <2>2, Types DEF CompactionDue
  <2> QED BY <1>5, <2>1, <2>2
<1>7. applied' \in Nat /\ unapplied' \in Nat /\ failed' \in BOOLEAN
  <2>1. CASE UNCHANGED <<applied, unapplied, failed>>
    BY <2>1, Types
  <2>2. CASE applied' = 0 /\ unapplied' = 0 /\ failed' = FALSE
    <3>1. applied' \in Nat /\ unapplied' \in Nat
      BY <2>2
    <3>2. failed' \in BOOLEAN
      BY <2>2
    <3> QED BY <3>1, <3>2
  <2> QED BY <1>5, <2>1, <2>2
<1> QED BY <1>1, <1>2, <1>4, <1>5, <1>6, <1>7, Types, TurnKeeps

LEMMA MembershipKeeps == ASSUME IInv, HandleMembership PROVE IInv'
<1>1. Receives({"Membership"})
  BY DEF HandleMembership
<1>2. Received.type \in {"Membership"} /\ turn = Nil
  BY <1>1, Receiving
<1>3. Rank(Received) = 3 /\ ~IsTrigger(Received)
  BY <1>2, RankOfType DEF Request
<1>4. NothingLost' /\ pending' \subseteq calling' /\ calling' \subseteq Handler
  BY <1>1, <1>3, ReplyKeeps DEF HandleMembership
<1>5. /\ UNCHANGED <<turn, leader, applied, failed, faults>> /\ (Spawn \/ phase' = phase)
      /\ unapplied' \in Nat
  BY Types DEF HandleMembership, entries, KeepUnapplied
<1>6. CompactionDue'
  BY <1>1, <1>3, <1>5, DueKept
<1> QED BY <1>1, <1>2, <1>4, <1>5, <1>6, Types, TurnKeeps

LEMMA ClientRequestKeeps == ASSUME IInv, HandleClientRequest PROVE IInv'
<1> DEFINE waiters == pending \cup ({Received.from} \cap calling)
<1>1. Receives({"ClientRequest"}) /\ leader' = leader
  BY DEF HandleClientRequest
<1>2. Received.type \in {"ClientRequest"} /\ turn = Nil /\ Received \in Message
  BY <1>1, Receiving
<1>3. Rank(Received) = 3 /\ ~IsTrigger(Received)
  BY <1>2, RankOfType DEF Request
<1>4. CASE Reply /\ UNCHANGED <<phase, turn, entries>>
  <2>1. NothingLost' /\ pending' \subseteq calling' /\ calling' \subseteq Handler
    BY <1>1, <1>3, <1>4, ReplyKeeps
  <2>2. UNCHANGED <<phase, turn, applied, unapplied, failed, faults>>
    BY <1>4 DEF entries
  <2>3. CompactionDue'
    BY <1>1, <1>3, <2>2, DueKept
  <2> QED BY <1>1, <1>2, <2>1, <2>2, <2>3, Types, TurnKeeps
<1>5. CASE /\ Spawn /\ KeepUnapplied(unapplied + 1)
           /\ \E dropped \in SUBSET pending : Answer(dropped, waiters)
  <2>1. PICK dropped \in SUBSET pending : Answer(dropped, waiters)
    BY <1>5
  <2>2. NothingLost' /\ pending' \subseteq calling' /\ calling' \subseteq Handler
    BY <1>1, <1>3, <2>1, CallsKept DEF Answer
  <2>3. UNCHANGED <<turn, applied, failed, faults>> /\ unapplied' \in Nat
    BY <1>5, Types DEF KeepUnapplied
  <2>4. CompactionDue'
    BY <1>1, <1>3, <2>3, DueKept
  <2> QED BY <1>1, <1>2, <1>5, <2>2, <2>3, <2>4, Types, TurnKeeps
<1>6. CASE /\ Spawn
           /\ \E k \in 1 .. unapplied + 1 : \E answered \in SUBSET waiters :
                Apply(k, unapplied + 1) /\ Answer(answered, waiters)
  <2>1. PICK k \in 1 .. unapplied + 1, answered \in SUBSET waiters :
          Apply(k, unapplied + 1) /\ Answer(answered, waiters)
    BY <1>6
  <2>2. NothingLost' /\ pending' \subseteq calling' /\ calling' \subseteq Handler
    BY <1>1, <1>3, <2>1, CallsKept DEF Answer
  <2>3. k \in Nat /\ unapplied + 1 \in Nat
    BY Types
  <2>4. /\ turn' \in {Received, Nil}
        /\ applied' \in Nat /\ unapplied' \in Nat /\ failed' \in BOOLEAN /\ faults' = faults
        /\ CompactionDue'
    BY <1>2, <2>1, <2>3, Applying
  <2>5. Received.from \notin calling' \ pending'
    BY <2>1 DEF Answer
  <2> QED BY <1>1, <1>2, <1>6, <2>2, <2>4, <2>5, Types, TurnKeeps
<1> QED BY <1>4, <1>5, <1>6 DEF HandleClientRequest

LEMMA AppendEntriesKeeps == ASSUME IInv, HandleAppendEntries PROVE IInv'
<1>1. Receives({"AppendEntries"}) /\ phase' = phase
  BY DEF HandleAppendEntries
<1>2. Received.type \in {"AppendEntries"} /\ turn = Nil /\ Received \in Message
  BY <1>1, Receiving
<1>3. Rank(Received) = 3 /\ ~IsTrigger(Received)
  BY <1>2, RankOfType DEF Request
<1>4. leader' \in BOOLEAN
  BY Types DEF HandleAppendEntries
<1>5. CASE Reply /\ UNCHANGED <<turn, applied, failed, faults>> /\ unapplied' \in Nat
  <2>1. NothingLost' /\ pending' \subseteq calling' /\ calling' \subseteq Handler
    BY <1>1, <1>3, <1>5, ReplyKeeps
  <2>2. CompactionDue'
    BY <1>1, <1>3, <1>5, DueKept
  <2> QED BY <1>1, <1>2, <1>4, <1>5, <2>1, <2>2, Types, TurnKeeps
<1>6. ASSUME NEW u \in 0 .. MaxUnapplied, NEW k \in 0 .. MaxUnapplied,
             NEW answered \in SUBSET pending, Apply(k, u),
             Answer(answered \cup (IF turn' = Nil THEN {Received.from} ELSE {}), pending)
      PROVE  IInv'
  <2>1. /\ turn' \in {Received, Nil}
        /\ applied' \in Nat /\ unapplied' \in Nat /\ failed' \in BOOLEAN /\ faults' = faults
        /\ CompactionDue'
    BY <1>2, <1>6, Types, Applying
  <2>2. NothingLost' /\ pending' \subseteq calling' /\ calling' \subseteq Handler
    <3> DEFINE ended == answered \cup (IF turn' = Nil THEN {Received.from} ELSE {})
    <3>1. /\ calling' = calling \ ended /\ pending' = pending \ ended
          /\ ended \subseteq pending \cup {Received.from}
      BY <1>6 DEF Answer
    <3>2. Received.from \in ended \/ (turn' = Received /\ Received.type = "AppendEntries")
      BY <1>2, <2>1
    <3> HIDE DEF ended
    <3> QED BY <1>1, <1>3, <3>1, <3>2, CallsKept
  <2>3. Received.from \notin pending'
    BY <1>1, <1>3, <1>6, NotPending DEF Answer
  <2> QED BY <1>1, <1>2, <1>4, <2>1, <2>2, <2>3, Types, TurnKeeps
<1>7. CASE Reply /\ UNCHANGED <<turn, entries>>
  BY <1>5, <1>7, Types DEF entries
<1>8. CASE \E u \in 0 .. MaxUnapplied : KeepUnapplied(u) /\ Reply
  BY <1>5, <1>8, Types DEF KeepUnapplied
<1>9. CASE \E u \in 0 .. MaxUnapplied : \E k \in 0 .. MaxUnapplied :
             \E answered \in IF k = 0 THEN {{}} ELSE SUBSET pending :
               /\ Apply(k, u)
               /\ Answer(answered \cup (IF turn' = Nil THEN {Received.from} ELSE {}), pending)
  <2>1. PICK u \in 0 .. MaxUnapplied, k \in 0 .. MaxUnapplied :
             \E answered \in IF k = 0 THEN {{}} ELSE SUBSET pending :
               /\ Apply(k, u)
               /\ Answer(answered \cup (IF turn' = Nil THEN {Received.from} ELSE {}), pending)
    BY <1>9
  <2>2. (IF k = 0 THEN {{}} ELSE SUBSET pending) \subseteq SUBSET pending
    OBVIOUS
  <2> QED BY <1>6, <2>1, <2>2
<1> QED BY <1>7, <1>8, <1>9 DEF HandleAppendEntries

LEMMA ResultKeeps == ASSUME IInv, HandleAppendEntriesResult PROVE IInv'
<1>1. Receives({"AppendEntriesResult"}) /\ phase' = phase
  BY DEF HandleAppendEntriesResult
<1>2. Received.type \in {"AppendEntriesResult"} /\ turn = Nil /\ Received \in Message
  BY <1>1, Receiving
<1>3. Rank(Received) = 3 /\ ~IsTrigger(Received) /\ Received.from \in Task
  BY <1>2, RankOfType, Senders
<1>4. leader' \in BOOLEAN
  BY Types DEF HandleAppendEntriesResult
<1>5. CASE UNCHANGED <<callers, turn, entries>>
  <2>1. UNCHANGED <<calling, pending, turn, applied, unapplied, failed, faults>>
    BY <1>5 DEF callers, entries
  <2>2. NothingLost' /\ pending' \subseteq calling' /\ calling' \subseteq Handler
    <3>1. calling' = calling \ {} /\ pending' = pending \ {}
      BY <2>1
    <3> QED BY <1>1, <1>3, <3>1, CallsKept
  <2>3. CompactionDue'
    BY <1>1, <1>3, <2>1, DueKept
  <2> QED BY <1>1, <1>2, <1>4, <2>1, <2>2, <2>3, Types, TurnKeeps
<1>6. ASSUME NEW k \in 1 .. unapplied, NEW answered \in SUBSET pending, Apply(k, unapplied),
             Answer(answered, pending)
      PROVE  IInv'
  <2>1. /\ turn' \in {Received, Nil}
        /\ applied' \in Nat /\ unapplied' \in Nat /\ failed' \in BOOLEAN /\ faults' = faults
        /\ CompactionDue'
    BY <1>2, <1>6, Types, Applying
  <2>2. NothingLost' /\ pending' \subseteq calling' /\ calling' \subseteq Handler
    BY <1>1, <1>3, <1>6, CallsKept DEF Answer
  <2> QED BY <1>1, <1>2, <1>4, <2>1, <2>2, Types, TurnKeeps
<1> QED BY <1>5, <1>6 DEF HandleAppendEntriesResult

(* A message of no handler, and no trigger.                                *)
LEMMA UpdatePeerClientKeeps == ASSUME IInv, HandleUpdatePeerClient PROVE IInv'
<1>1. /\ Receives({"UpdatePeerClient"})
      /\ UNCHANGED <<calling, pending, phase, turn, leader, applied, unapplied, failed, faults>>
  BY DEF HandleUpdatePeerClient, callers, entries
<1>2. /\ Received.type \in {"UpdatePeerClient"} /\ turn = Nil /\ Received \in Message
      /\ \A s : Sent(s)' => Sent(s)
      /\ \A s : Sent(s) /\ s # Received.from => Sent(s)'
  BY <1>1, Receiving
<1>3. ~IsTrigger(Received) /\ Received.from \in Task
  BY <1>2, Senders DEF IsTrigger
<1>4. NothingLost'
  BY <1>1, <1>2, <1>3, InboxAssumption DEF IInv, NothingLost, InTurn
<1>5. CompactionDue'
  BY <1>1, <1>3, DueKept
<1>6. pending' \subseteq calling' /\ calling' \subseteq Handler
  BY <1>1 DEF IInv, TypeOK
<1> QED BY <1>1, <1>2, <1>4, <1>5, <1>6, Types, TurnKeeps

LEMMA TriggerSnapshotKeeps == ASSUME IInv, HandleTriggerSnapshot PROVE IInv'
<1>1. /\ Receives({"TriggerSnapshot"})
      /\ UNCHANGED <<calling, pending, phase, turn, leader>>
  BY DEF HandleTriggerSnapshot, callers
<1>2. /\ Received.type \in {"TriggerSnapshot"} /\ turn = Nil /\ Received \in Message
      /\ line \in Seq(Message) /\ line # <<>> /\ line' = Tail(line) /\ Received = Head(line)
  BY <1>1, Receiving, LineType DEF Receives, Received, IInv
<1>3. \A s : Sent(s)' <=> Sent(s)
  <2>1. /\ Received = line[1] /\ Len(line) \in Nat /\ Len(line') = Len(line) - 1
        /\ \A i \in 1 .. Len(line') : line'[i] = line[i + 1] /\ i + 1 \in 1 .. Len(line)
    BY <1>2, TailFacts
  <2>2. \A s : Sent(s)' => Sent(s)
    BY <1>1, Receiving
  <2>3. ASSUME NEW s, Sent(s) PROVE Sent(s)'
    <3>1. PICK k \in 1 .. Len(line) : line[k].from = s /\ line[k].type # "TriggerSnapshot"
      BY <2>3 DEF Sent, SentAt
    <3>2. k # 1
      BY <1>2, <2>1, <3>1
    <3>3. k - 1 \in 1 .. Len(line') /\ (k - 1) + 1 = k
      BY <2>1, <3>2
    <3> QED BY <2>1, <3>1, <3>3 DEF Sent, SentAt
  <2> QED BY <2>2, <2>3
<1>4. NothingLost'
  BY <1>1, <1>2, <1>3 DEF IInv, NothingLost, InTurn
<1>5. /\ applied' \in Nat /\ unapplied' \in Nat /\ failed' \in BOOLEAN
      /\ faults' \in 0 .. MaxFaults /\ (applied' = 0 \/ failed')
  <2>1. CASE applied = 0 /\ UNCHANGED entries
    BY <2>1, Types DEF entries
  <2>2. CASE applied' = 0 /\ failed' = FALSE /\ UNCHANGED <<unapplied, faults>>
    <3>1. applied' \in Nat /\ unapplied' \in Nat /\ faults' \in 0 .. MaxFaults
      BY <2>2, Types
    <3>2. failed' \in BOOLEAN
      BY <2>2
    <3> QED BY <2>2, <3>1, <3>2
  <2>3. CASE /\ faults < MaxFaults /\ faults' = faults + 1 /\ failed' = TRUE
             /\ UNCHANGED <<applied, unapplied>>
    <3>1. applied' \in Nat /\ unapplied' \in Nat /\ faults' \in 0 .. MaxFaults
      BY <2>3, Types
    <3>2. failed' \in BOOLEAN /\ failed'
      BY <2>3
    <3> QED BY <3>1, <3>2
  <2> QED BY <2>1, <2>2, <2>3 DEF HandleTriggerSnapshot
<1>6. CompactionDue'
  BY <1>5, Types DEF CompactionDue
<1>7. pending' \subseteq calling' /\ calling' \subseteq Handler /\ leader' \in BOOLEAN
  BY <1>1 DEF IInv, TypeOK
<1> QED BY <1>1, <1>2, <1>4, <1>5, <1>6, <1>7, TurnKeeps

------------------------------------------------------------------------------
(* The other steps.  A message that is appended comes after those of its   *)
(* sender, which are of a lower rank.                                      *)
LEMMA Appending ==
  ASSUME IInv, NEW m \in Message, line' = Append(line, m)
  PROVE  /\ line' \in Seq(Message) /\ Len(line') = Len(line) + 1 /\ Len(line) \in Nat
         /\ \A i \in 1 .. Len(line') :
              (i \in 1 .. Len(line) /\ line'[i] = line[i]) \/ (i = Len(line) + 1 /\ line'[i] = m)
         /\ \A s : Sent(s)' <=> Sent(s) \/ (~IsTrigger(m) /\ s = m.from)
         /\ HasTrigger \/ IsTrigger(m) => HasTrigger'
         /\ (\A i \in 1 .. Len(line) : line[i].from = m.from /\ m.from # Nil => Rank(line[i]) < Rank(m))
              => Ordered'
<1>1. /\ line' \in Seq(Message) /\ Len(line') = Len(line) + 1 /\ Len(line) \in Nat
      /\ \A i \in 1 .. Len(line) : line'[i] = line[i]
      /\ line'[Len(line) + 1] = m
  BY LineType, AppendFacts DEF IInv
<1>2. \A i \in 1 .. Len(line') :
        (i \in 1 .. Len(line) /\ line'[i] = line[i]) \/ (i = Len(line) + 1 /\ line'[i] = m)
  BY <1>1
<1>3. \A i \in 1 .. Len(line) : i \in 1 .. Len(line')
  BY <1>1
<1>4. Len(line) + 1 \in 1 .. Len(line')
  BY <1>1
<1>5. \A s : Sent(s)' <=> Sent(s) \/ (~IsTrigger(m) /\ s = m.from)
  BY <1>1, <1>2, <1>3, <1>4 DEF Sent, SentAt, IsTrigger
<1>6. HasTrigger \/ IsTrigger(m) => HasTrigger'
  BY <1>1, <1>3, <1>4 DEF HasTrigger, IsTrigger
<1>7. ASSUME \A i \in 1 .. Len(line) : line[i].from = m.from /\ m.from # Nil => Rank(line[i]) < Rank(m)
      PROVE  Ordered'
  <2> SUFFICES ASSUME NEW i \in 1 .. Len(line'), NEW j \in 1 .. Len(line'), i < j,
                      line'[i].from # Nil, line'[i].from = line'[j].from
               PROVE  Rank(line'[i]) < Rank(line'[j])
    BY DEF Ordered, Rank, IsTrigger
  <2>1. i \in 1 .. Len(line) /\ line'[i] = line[i]
    BY <1>1, <1>2
  <2>2. CASE j \in 1 .. Len(line) /\ line'[j] = line[j]
    BY <2>1, <2>2 DEF IInv, Ordered
  <2>3. CASE line'[j] = m
    BY <1>7, <2>1, <2>3
  <2> QED BY <1>2, <2>2, <2>3
<1> QED BY <1>1, <1>2, <1>5, <1>6, <1>7

LEMMA CallKeeps == ASSUME IInv, NEW h \in Handler, Call(h) PROVE IInv'
<1>1. PICK m \in Message : /\ line' = Append(line, m) /\ m.from = h /\ m.type \in Request
  <2>1. PICK type \in Request : line' = Append(line, Msg(type, h))
    BY DEF Call
  <2>2. Msg(type, h) \in Message /\ Msg(type, h).from = h /\ Msg(type, h).type = type
    BY <2>1, Sends DEF Msg
  <2> QED BY <2>1, <2>2
<1>2. /\ h \notin calling /\ ~InTurn(h) /\ calling' = calling \cup {h}
      /\ UNCHANGED <<pending, phase, turn, leader, applied, unapplied, failed, faults>>
  BY DEF Call, entries
<1>3. /\ line' \in Seq(Message) /\ Len(line') = Len(line) + 1 /\ Len(line) \in Nat
      /\ \A i \in 1 .. Len(line') :
           (i \in 1 .. Len(line) /\ line'[i] = line[i]) \/ (i = Len(line) + 1 /\ line'[i] = m)
      /\ \A s : Sent(s)' <=> Sent(s) \/ (~IsTrigger(m) /\ s = m.from)
      /\ HasTrigger \/ IsTrigger(m) => HasTrigger'
      /\ (\A i \in 1 .. Len(line) : line[i].from = m.from /\ m.from # Nil => Rank(line[i]) < Rank(m))
           => Ordered'
  BY <1>1, Appending
<1>4. /\ Rank(m) = 3 /\ ~IsTrigger(m) /\ h \notin Task /\ h # Nil
      /\ m.type \notin {"UpdatePeerClient", "AppendEntriesResult"}
  BY <1>1, RankOfType, InboxAssumption DEF Request
<1>5. ~Sent(h)
  BY <1>2 DEF IInv, NothingLost
<1>6. Ordered'
  <2> SUFFICES ASSUME NEW i \in 1 .. Len(line), line[i].from = h PROVE Rank(line[i]) < Rank(m)
    BY <1>1, <1>3
  <2>1. IsTrigger(line[i])
    BY <1>5 DEF Sent, SentAt, IsTrigger
  <2> QED BY <1>4, <2>1 DEF Rank
<1>7. NothingLost'
  BY <1>1, <1>2, <1>3, <1>4 DEF IInv, TypeOK, NothingLost, InTurn
<1>8. CompactionDue'
  BY <1>2, <1>3 DEF IInv, CompactionDue, HasTrigger
<1>9. TasksSend'
  BY <1>1, <1>2, <1>3, <1>4 DEF IInv, TasksSend
<1>10. TurnOpen'
  <2> SUFFICES ASSUME turn # Nil PROVE TurnOpen'
    BY <1>2 DEF TurnOpen
  <2>1. turn.from # h
    BY <1>2 DEF InTurn
  <2>2. turn.type = "ClientRequest" => turn.from \notin calling' \ pending'
    BY <1>2, <2>1 DEF IInv, TurnOpen
  <2>3. ASSUME turn.from # Nil, NEW i \in 1 .. Len(line'), line'[i].from = turn.from
        PROVE  IsWaiting(i)' /\ IsTrigger(line'[i])
    BY <1>1, <1>3, <2>1, <2>3 DEF IInv, TurnOpen, IsWaiting
  <2> QED BY <1>2, <2>2, <2>3 DEF IInv, TurnOpen, IsTrigger
<1>11. WaitingTrigger'
  BY <1>2, <1>3, <1>4 DEF IInv, WaitingTrigger, IsWaiting, IsTrigger
<1>12. TypeOK'
  BY <1>2, <1>3 DEF IInv, TypeOK
<1> QED BY <1>6, <1>7, <1>8, <1>9, <1>10, <1>11, <1>12 DEF IInv

(* What a task sends.                                                      *)
LEMMA TaskSends ==
  ASSUME IInv, NEW t \in Task, NEW m \in Message, line' = Append(line, m), m.from = t,
         phase[t] # "free", phase' \in [Task -> {"free", "connecting", "calling"}],
         \A u \in Task : u # t => phase'[u] = phase[u],
         \/ m.type = "UpdatePeerClient" /\ phase[t] = "connecting" /\ phase'[t] # "connecting"
         \/ m.type = "AppendEntriesResult" /\ phase[t] = "calling" /\ phase'[t] = "free",
         UNCHANGED <<callers, turn, leader, entries>>
  PROVE  IInv'
<1>1. UNCHANGED <<calling, pending, turn, leader, applied, unapplied, failed, faults>>
  BY DEF callers, entries
<1>2. /\ line' \in Seq(Message) /\ Len(line') = Len(line) + 1 /\ Len(line) \in Nat
      /\ \A i \in 1 .. Len(line') :
           (i \in 1 .. Len(line) /\ line'[i] = line[i]) \/ (i = Len(line) + 1 /\ line'[i] = m)
      /\ \A s : Sent(s)' <=> Sent(s) \/ (~IsTrigger(m) /\ s = m.from)
      /\ HasTrigger \/ IsTrigger(m) => HasTrigger'
      /\ (\A i \in 1 .. Len(line) : line[i].from = m.from /\ m.from # Nil => Rank(line[i]) < Rank(m))
           => Ordered'
  BY Appending
<1>3. ~IsTrigger(m) /\ t \notin Handler /\ t # Nil
  BY InboxAssumption DEF IsTrigger
<1>4. turn # Nil => turn.from # t
  <2> SUFFICES ASSUME turn # Nil, turn.from = t PROVE FALSE
    OBVIOUS
  <2>1. turn \in Message /\ turn.type \in {"AppendEntries", "ClientRequest", "AppendEntriesResult"}
    BY DEF IInv, TypeOK, TurnOpen
  <2>2. turn.type = "AppendEntriesResult"
    BY <1>3, <2>1, Senders DEF Request
  <2> QED BY <2>2 DEF IInv, TurnOpen
<1>5. ASSUME NEW i \in 1 .. Len(line), line[i].from = t PROVE Rank(line[i]) < Rank(m)
  <2>1. /\ line[i].type = "UpdatePeerClient" => phase[t] # "connecting"
        /\ line[i].type # "AppendEntriesResult"
    BY <1>5 DEF IInv, TasksSend
  <2>2. line[i] \in Message
    BY LineType DEF IInv
  <2>3. line[i].type \in {"UpdatePeerClient", "AppendEntriesResult", "TriggerSnapshot"}
    BY <1>3, <1>5, <2>2, Senders
  <2> QED BY <2>1, <2>3 DEF Rank, IsTrigger
<1>6. Ordered'
  BY <1>2, <1>5
<1>7. NothingLost'
  BY <1>1, <1>2, <1>3 DEF IInv, NothingLost, InTurn
<1>8. CompactionDue'
  BY <1>1, <1>2 DEF IInv, CompactionDue, HasTrigger
<1>9. TasksSend'
  <2> SUFFICES ASSUME NEW u \in Task, NEW i \in 1 .. Len(line'), line'[i].from = u
               PROVE  /\ line'[i].type = "UpdatePeerClient" => phase'[u] # "connecting"
                      /\ line'[i].type = "AppendEntriesResult" => phase'[u] = "free"
    BY DEF TasksSend
  <2>1. CASE i \in 1 .. Len(line) /\ line'[i] = line[i]
    <3>1. /\ line[i].type = "UpdatePeerClient" => phase[u] # "connecting"
          /\ line[i].type = "AppendEntriesResult" => phase[u] = "free"
      BY <2>1 DEF IInv, TasksSend
    <3> QED BY <2>1, <3>1
  <2>2. CASE line'[i] = m
    BY <2>2
  <2> QED BY <1>2, <2>1, <2>2
<1>10. TurnOpen'
  <2> SUFFICES ASSUME turn # Nil PROVE TurnOpen'
    BY <1>1 DEF TurnOpen
  <2>1. ASSUME turn.from # Nil, NEW i \in 1 .. Len(line'), line'[i].from = turn.from
        PROVE  IsWaiting(i)' /\ IsTrigger(line'[i])
    BY <1>2, <1>4, <2>1 DEF IInv, TurnOpen, IsWaiting
  <2>2. turn.type = "AppendEntriesResult" => phase'[turn.from] = "free"
    <3>1. turn.type = "AppendEntriesResult" => turn.from \in Task
      BY Senders DEF IInv, TypeOK
    <3> QED BY <1>4, <3>1 DEF IInv, TurnOpen
  <2> QED BY <1>1, <2>1, <2>2 DEF IInv, TurnOpen, IsTrigger
<1>11. WaitingTrigger'
  BY <1>1, <1>2, <1>3 DEF IInv, WaitingTrigger, IsWaiting, IsTrigger
<1>12. TypeOK'
  BY <1>1, <1>2 DEF IInv, TypeOK
<1> QED BY <1>6, <1>7, <1>8, <1>9, <1>10, <1>11, <1>12 DEF IInv

LEMMA TasksKeep ==
  ASSUME IInv, NEW t \in Task, Connected(t) \/ Finish(t)
  PROVE  IInv'
<1>0. phase \in [Task -> {"free", "connecting", "calling"}]
  BY DEF IInv, TypeOK
<1>1. /\ Msg("UpdatePeerClient", t) \in Message /\ Msg("AppendEntriesResult", t) \in Message
      /\ \A type : Msg(type, t).type = type /\ Msg(type, t).from = t
  BY Sends DEF Msg
<1>2. CASE Connected(t)
  <2>1. /\ phase[t] = "connecting" /\ phase' = [phase EXCEPT ![t] = "calling"]
        /\ line' = Append(line, Msg("UpdatePeerClient", t))
        /\ UNCHANGED <<callers, turn, leader, entries>>
    BY <1>2 DEF Connected
  <2>2. phase' \in [Task -> {"free", "connecting", "calling"}] /\ phase'[t] = "calling"
        /\ \A u \in Task : u # t => phase'[u] = phase[u]
    BY <1>0, <2>1
  <2> QED BY <1>1, <2>1, <2>2, TaskSends
<1>3. CASE Finish(t)
  <2>1. /\ phase[t] = "calling" /\ phase' = [phase EXCEPT ![t] = "free"]
        /\ line' = Append(line, Msg("AppendEntriesResult", t))
        /\ UNCHANGED <<callers, turn, leader, entries>>
    BY <1>3 DEF Finish
  <2>2. phase' \in [Task -> {"free", "connecting", "calling"}] /\ phase'[t] = "free"
        /\ \A u \in Task : u # t => phase'[u] = phase[u]
    BY <1>0, <2>1
  <2> QED BY <1>1, <2>1, <2>2, TaskSends
<1> QED BY <1>2, <1>3

(* Steps of the tasks and the timers that send nothing.                    *)
LEMMA PhasesKeep ==
  ASSUME IInv, (\E t \in Task : Ends(t)) \/ Heartbeat \/ Elected \/ UNCHANGED vars
  PROVE  IInv'
<1>1. /\ UNCHANGED <<line, calling, pending, turn, applied, unapplied, failed, faults>>
      /\ leader' \in BOOLEAN
  BY Types DEF Ends, Heartbeat, Elected, vars, callers, entries
<1>2. /\ phase' \in [Task -> {"free", "connecting", "calling"}]
      /\ \/ turn = Nil /\ Spawn
         \/ \A t \in Task : phase'[t] \in {phase[t], "free"}
  <2>1. phase \in [Task -> {"free", "connecting", "calling"}]
    BY DEF IInv, TypeOK
  <2> QED BY <2>1 DEF Ends, Heartbeat, Elected, Spawn, vars
<1>3. TasksSend'
  <2> SUFFICES ASSUME NEW t \in Task, NEW i \in 1 .. Len(line), line[i].from = t,
                      line[i].type \in {"UpdatePeerClient", "AppendEntriesResult"}
               PROVE  /\ line[i].type = "UpdatePeerClient" => phase'[t] # "connecting"
                      /\ line[i].type = "AppendEntriesResult" => phase'[t] = "free"
    BY <1>1 DEF TasksSend
  <2>1. Sent(t)
    BY DEF Sent, SentAt
  <2>2. phase'[t] \in {phase[t], "free"}
    BY <1>2, <2>1 DEF Spawn
  <2> QED BY <2>2 DEF IInv, TasksSend
<1>4. TurnOpen'
  <2>1. turn # Nil /\ turn.type = "AppendEntriesResult" => phase'[turn.from] = "free"
    <3>1. turn # Nil /\ turn.type = "AppendEntriesResult" => turn.from \in Task
      BY Senders DEF IInv, TypeOK
    <3> QED BY <1>2, <3>1 DEF IInv, TurnOpen
  <2> QED BY <1>1, <2>1 DEF IInv, TurnOpen, IsWaiting, IsTrigger
<1> QED
  BY <1>1, <1>2, <1>3, <1>4
  DEF IInv, TypeOK, NothingLost, Sent, SentAt, InTurn, CompactionDue, Ordered, Rank, IsTrigger,
      WaitingTrigger, IsWaiting

(* The trigger comes when nothing else of its message's sender is there.   *)
LEMMA SendTriggerKeeps == ASSUME IInv, SendTriggerSnapshot PROVE IInv'
<1> DEFINE m == Msg("TriggerSnapshot", turn.from)
<1>1. /\ turn # Nil /\ ~Blocked /\ line' = Append(line, m)
      /\ UNCHANGED <<pending, phase, leader, applied, unapplied, failed, faults>>
  BY DEF SendTriggerSnapshot, entries
<1>2. /\ turn \in Message /\ turn.from \in Handler \cup Task \cup {Nil}
      /\ turn.type \in {"AppendEntries", "ClientRequest", "AppendEntriesResult"}
  <2>1. turn \in Message /\ turn.type \in {"AppendEntries", "ClientRequest", "AppendEntriesResult"}
    BY <1>1 DEF IInv, TypeOK, TurnOpen
  <2> QED BY <2>1, Senders DEF Request
<1>3. m \in Message /\ m.from = turn.from /\ m.type = "TriggerSnapshot"
  BY <1>2, Sends DEF Msg
<1> HIDE DEF m
<1>4. /\ line' \in Seq(Message) /\ Len(line') = Len(line) + 1 /\ Len(line) \in Nat
      /\ \A i \in 1 .. Len(line') :
           (i \in 1 .. Len(line) /\ line'[i] = line[i]) \/ (i = Len(line) + 1 /\ line'[i] = m)
      /\ \A s : Sent(s)' <=> Sent(s)
      /\ HasTrigger'
      /\ (\A i \in 1 .. Len(line) : line[i].from = m.from /\ m.from # Nil => Rank(line[i]) < Rank(m))
           => Ordered'
  BY <1>1, <1>3, Appending DEF IsTrigger
<1>5. ASSUME NEW i \in 1 .. Len(line), turn.from # Nil PROVE line[i].from # turn.from
  BY <1>1, <1>5 DEF IInv, TurnOpen, Blocked, IsTrigger
<1>6. Ordered'
  BY <1>3, <1>4, <1>5
<1>7. turn.from # Nil => ~Sent(turn.from)
  BY <1>5 DEF Sent, SentAt
<1>8. CompactionDue'
  BY <1>4 DEF CompactionDue, HasTrigger
<1>9. TasksSend'
  BY <1>1, <1>3, <1>4 DEF IInv, TasksSend
<1>10. CASE /\ Len(line) < Capacity /\ turn' = Nil
            /\ calling' = IF turn.type = "AppendEntries" THEN calling \ {turn.from} ELSE calling
  <2>1. NothingLost'
    <3> SUFFICES ASSUME NEW h \in Handler
                 PROVE  /\ h \in calling' => Sent(h) \/ h \in pending
                        /\ Sent(h) => h \in calling' /\ h \notin pending
      BY <1>1, <1>4, <1>10 DEF NothingLost
    <3>1. h # Nil
      BY InboxAssumption
    <3> QED BY <1>7, <1>10, <3>1 DEF IInv, NothingLost, InTurn
  <2>2. pending' \subseteq calling' /\ calling' \subseteq Handler
    BY <1>1, <1>10 DEF IInv, TypeOK, TurnOpen
  <2>3. WaitingTrigger'
    <3>1. \A i \in 1 .. Len(line') : ~(i > Capacity)
      BY <1>4, <1>10, Types
    <3> QED BY <3>1 DEF WaitingTrigger, IsWaiting
  <2>4. TurnOpen'
    BY <1>10 DEF TurnOpen
  <2>5. TypeOK'
    BY <1>1, <1>4, <1>10, <2>2 DEF IInv, TypeOK
  <2> QED BY <1>6, <1>8, <1>9, <2>1, <2>3, <2>4, <2>5 DEF IInv
<1>11. CASE Len(line) >= Capacity /\ UNCHANGED <<turn, calling>>
  <2>1. NothingLost'
    BY <1>1, <1>4, <1>11 DEF IInv, NothingLost, InTurn
  <2>2. WaitingTrigger'
    BY <1>1, <1>3, <1>4, <1>11 DEF Blocked, WaitingTrigger, IsWaiting, IsTrigger
  <2>3. ASSUME turn.from # Nil, NEW i \in 1 .. Len(line'), line'[i].from = turn.from
        PROVE  IsWaiting(i)' /\ IsTrigger(line'[i])
    <3>1. i = Len(line) + 1 /\ line'[i] = m
      BY <1>4, <1>5, <2>3
    <3>2. Len(line) + 1 > Capacity
      BY <1>4, <1>11, Types
    <3> QED BY <1>3, <3>1, <3>2, <1>4 DEF IsWaiting, IsTrigger
  <2>4. TurnOpen'
    BY <1>1, <1>11, <2>3 DEF IInv, TurnOpen, IsTrigger
  <2>5. TypeOK'
    BY <1>1, <1>4, <1>11 DEF IInv, TypeOK
  <2> QED BY <1>6, <1>8, <1>9, <2>1, <2>2, <2>4, <2>5 DEF IInv
<1> QED BY <1>10, <1>11 DEF SendTriggerSnapshot

(* A handler that gives up leaves the others what they have in the line,   *)
(* and nothing of its own that asks for a reply.                           *)
LEMMA LeaveKeeps ==
  ASSUME IInv, NEW h \in Handler, calling' = calling \ {h}, pending' = pending \ {h},
         UNCHANGED <<phase, turn, leader, entries>>,
         line' \in Seq(Message),
         \A i \in 1 .. Len(line') : \E j \in 1 .. Len(line) :
           /\ i > Capacity <=> j > Capacity
           /\ line'[i] = line[j] \/ (line'[i].from = Nil /\ ~IsTrigger(line'[i])),
         ~Sent(h)', \A s \in Handler : s # h => (Sent(s)' <=> Sent(s)),
         Ordered', HasTrigger => HasTrigger'
  PROVE  IInv'
<1>1. UNCHANGED <<phase, turn, leader, applied, unapplied, failed, faults>>
  BY DEF entries
<1>2. NothingLost'
  <2> SUFFICES ASSUME NEW s \in Handler
               PROVE  /\ s \in calling' =>
                           Sent(s)' \/ s \in pending' \/ (InTurn(s) /\ turn.type = "AppendEntries")
                      /\ Sent(s)' => s \in calling' /\ s \notin pending'
    BY <1>1 DEF NothingLost, InTurn
  <2> QED BY DEF IInv, NothingLost
<1>3. CompactionDue'
  BY <1>1 DEF IInv, CompactionDue, HasTrigger
<1>4. TasksSend'
  <2> SUFFICES ASSUME NEW t \in Task, NEW i \in 1 .. Len(line'), line'[i].from = t
               PROVE  /\ line'[i].type = "UpdatePeerClient" => phase[t] # "connecting"
                      /\ line'[i].type = "AppendEntriesResult" => phase[t] = "free"
    BY <1>1 DEF TasksSend
  <2>1. t # Nil
    BY InboxAssumption
  <2> QED BY <2>1 DEF IInv, TasksSend
<1>5. TurnOpen'
  <2> SUFFICES ASSUME turn # Nil PROVE TurnOpen'
    BY <1>1 DEF TurnOpen
  <2>1. ASSUME turn.from # Nil, NEW i \in 1 .. Len(line'), line'[i].from = turn.from
        PROVE  IsWaiting(i)' /\ IsTrigger(line'[i])
    BY <2>1 DEF IInv, TurnOpen, IsWaiting
  <2>2. /\ turn.type = "ClientRequest" => turn.from \notin calling' \ pending'
        /\ turn.type = "AppendEntries" => turn.from \notin pending'
    BY DEF IInv, TurnOpen
  <2> QED BY <1>1, <2>1, <2>2 DEF IInv, TurnOpen, IsTrigger
<1>6. WaitingTrigger'
  BY <1>1 DEF IInv, WaitingTrigger, IsWaiting, IsTrigger
<1>7. TypeOK'
  BY <1>1 DEF IInv, TypeOK
<1> QED BY <1>2, <1>3, <1>4, <1>5, <1>6, <1>7 DEF IInv

(* A handler has one message in the line besides its trigger.              *)
LEMMA OneSent ==
  ASSUME IInv, NEW h \in Handler, NEW i \in 1 .. Len(line), NEW j \in 1 .. Len(line),
         SentAt(i, h), SentAt(j, h)
  PROVE  i = j
<1>1. h # Nil /\ \A k \in 1 .. Len(line) : line[k] \in Message
  BY LineType, InboxAssumption DEF IInv
<1>2. Rank(line[i]) = 3 /\ Rank(line[j]) = 3
  BY <1>1, HandlerRank DEF SentAt, IsTrigger
<1>3. ~(i < j) /\ ~(j < i)
  BY <1>1, <1>2 DEF IInv, Ordered, SentAt
<1> QED BY <1>3

LEMMA GiveUpKeeps == ASSUME IInv, NEW h \in Handler, GiveUp(h) PROVE IInv'
<1>1. /\ calling' = calling \ {h} /\ pending' = pending \ {h}
      /\ UNCHANGED <<phase, turn, leader, entries>> /\ h # Nil
  BY InboxAssumption DEF GiveUp
<1>2. /\ line \in Seq(Message) /\ Len(line) \in Nat /\ Capacity \in Nat
      /\ \A i \in 1 .. Len(line) : line[i] \in Message
  BY LineType, Types DEF IInv
<1>3. CASE ~Sent(h) /\ UNCHANGED line
  <2>1. ~Sent(h)' /\ (\A s \in Handler : Sent(s)' <=> Sent(s)) /\ Ordered' /\ (HasTrigger => HasTrigger')
    BY <1>3 DEF IInv, Sent, SentAt, Ordered, HasTrigger, Rank, IsTrigger
  <2> QED BY <1>1, <1>2, <1>3, <2>1, LeaveKeeps
<1>4. ASSUME NEW i \in 1 .. Len(line), SentAt(i, h), line' = [line EXCEPT ![i].from = Nil]
      PROVE  IInv'
  <2>1. line[i].from = h /\ line[i] \in Message /\ ~IsTrigger(line[i])
    BY <1>2, <1>4 DEF SentAt, IsTrigger
  <2>2. PICK m : m = [line[i] EXCEPT !.from = Nil]
    OBVIOUS
  <2>3. /\ m \in Message /\ m.from = Nil /\ m.type = line[i].type
    <3>1. line[i] = Msg(line[i].type, h) /\ line[i].type \in Request
      BY <1>1, <2>1, Senders, InboxAssumption DEF IsTrigger
    <3>2. m = Msg(line[i].type, Nil)
      BY <2>2, <3>1 DEF Msg
    <3> QED BY <3>1, <3>2 DEF Msg, Message
  <2>4. /\ line' \in Seq(Message) /\ Len(line') = Len(line) /\ line'[i] = m
        /\ \A k \in 1 .. Len(line) : k # i => line'[k] = line[k]
    <3>1. line' = [line EXCEPT ![i] = m]
      BY <1>4, <2>2
    <3> QED BY <1>2, <2>3, <3>1, ExceptSeq
  <2>5. ~Sent(h)'
    BY <1>1, <1>4, <2>3, <2>4, OneSent DEF Sent, SentAt
  <2>6. \A s \in Handler : s # h => (Sent(s)' <=> Sent(s))
    BY <2>1, <2>3, <2>4, InboxAssumption DEF Sent, SentAt
  <2>7. Ordered'
    BY <2>3, <2>4 DEF IInv, Ordered, Rank, IsTrigger
  <2>8. HasTrigger => HasTrigger'
    BY <2>1, <2>4 DEF HasTrigger, IsTrigger
  <2>9. ~IsTrigger(m)
    BY <2>1, <2>3 DEF IsTrigger
  <2> QED BY <1>1, <2>3, <2>4, <2>5, <2>6, <2>7, <2>8, <2>9, LeaveKeeps
<1>5. ASSUME NEW i \in 1 .. Len(line), SentAt(i, h), IsWaiting(i), line' = Without(line, i)
      PROVE  IInv'
  <2>1. /\ line' \in Seq(Message) /\ Len(line') = Len(line) - 1
        /\ \A j \in 1 .. Len(line') : /\ j < i => line'[j] = line[j]
                                      /\ j >= i => line'[j] = line[j + 1]
    BY <1>2, <1>5, WithoutFacts
  <2>2. i > Capacity /\ ~IsTrigger(line[i]) /\ line[i].from = h
    BY <1>5 DEF IsWaiting, SentAt, IsTrigger
  <2>3. ASSUME NEW k \in 1 .. Len(line), k # i
        PROVE  \E j \in 1 .. Len(line') : line'[j] = line[k]
    <3>1. CASE k < i
      BY <1>2, <2>1, <3>1
    <3>2. CASE k > i
      <4>1. k - 1 \in 1 .. Len(line') /\ k - 1 >= i /\ (k - 1) + 1 = k
        BY <1>2, <2>1, <3>2
      <4> QED BY <2>1, <4>1
    <3> QED BY <2>3, <3>1, <3>2
  <2>4. ASSUME NEW j \in 1 .. Len(line')
        PROVE  \E k \in 1 .. Len(line) :
                 k # i /\ line'[j] = line[k] /\ (j > Capacity <=> k > Capacity)
    <3>1. CASE j < i
      BY <1>2, <2>1, <3>1
    <3>2. CASE j >= i
      <4>1. j + 1 \in 1 .. Len(line) /\ j + 1 # i /\ j > Capacity /\ j + 1 > Capacity
        BY <1>2, <2>1, <2>2, <3>2
      <4> QED BY <2>1, <3>2, <4>1
    <3> QED BY <3>1, <3>2
  <2>5. ~Sent(h)'
    <3> SUFFICES ASSUME NEW j \in 1 .. Len(line'), line'[j].from = h, line'[j].type # "TriggerSnapshot"
                 PROVE  FALSE
      BY DEF Sent, SentAt
    <3>1. PICK k \in 1 .. Len(line) : k # i /\ line'[j] = line[k]
      BY <2>4
    <3> QED BY <1>5, <3>1, OneSent DEF SentAt
  <2>6. ASSUME NEW s \in Handler, s # h PROVE Sent(s)' <=> Sent(s)
    <3>1. ASSUME Sent(s)' PROVE Sent(s)
      <4>1. PICK j \in 1 .. Len(line') : SentAt(j, s)'
        BY <3>1 DEF Sent
      <4> QED BY <2>4, <4>1 DEF Sent, SentAt
    <3>2. ASSUME Sent(s) PROVE Sent(s)'
      <4>1. PICK k \in 1 .. Len(line) : SentAt(k, s)
        BY <3>2 DEF Sent
      <4>2. k # i
        BY <2>2, <2>6, <4>1 DEF SentAt
      <4> QED BY <2>3, <4>1, <4>2 DEF Sent, SentAt
    <3> QED BY <3>1, <3>2
  <2>7. Ordered'
    <3> SUFFICES ASSUME NEW j \in 1 .. Len(line'), NEW k \in 1 .. Len(line'), j < k,
                        line'[j].from # Nil, line'[j].from = line'[k].from
                 PROVE  Rank(line'[j]) < Rank(line'[k])
      BY DEF Ordered, Rank, IsTrigger
    <3>1. PICK a \in 1 .. Len(line), b \in 1 .. Len(line) :
            a < b /\ line'[j] = line[a] /\ line'[k] = line[b]
      <4>1. CASE k < i
        BY <1>2, <2>1, <4>1
      <4>2. CASE j < i /\ k >= i
        <5>1. k + 1 \in 1 .. Len(line) /\ j \in 1 .. Len(line) /\ j < k + 1
          BY <1>2, <2>1, <4>2
        <5> QED BY <2>1, <4>2, <5>1
      <4>3. CASE j >= i
        <5>1. k + 1 \in 1 .. Len(line) /\ j + 1 \in 1 .. Len(line) /\ j + 1 < k + 1 /\ k >= i
          BY <1>2, <2>1, <4>3
        <5> QED BY <2>1, <4>3, <5>1
      <4> QED BY <4>1, <4>2, <4>3
    <3> QED BY <3>1 DEF IInv, Ordered
  <2>8. HasTrigger => HasTrigger'
    BY <2>2, <2>3 DEF HasTrigger, IsTrigger
  <2>9. \A j \in 1 .. Len(line') : \E k \in 1 .. Len(line) :
          /\ j > Capacity <=> k > Capacity
          /\ line'[j] = line[k] \/ (line'[j].from = Nil /\ ~IsTrigger(line'[j]))
    BY <2>4
  <2>10. \A s \in Handler : s # h => (Sent(s)' <=> Sent(s))
    BY <2>6
  <2> QED BY <1>1, <2>1, <2>5, <2>7, <2>8, <2>9, <2>10, LeaveKeeps
<1> QED BY <1>3, <1>4, <1>5 DEF GiveUp

------------------------------------------------------------------------------
LEMMA InboxBegins == Init => IInv
<1> SUFFICES ASSUME Init PROVE IInv
  OBVIOUS
<1>1. /\ line = <<>> /\ calling = {} /\ pending = {} /\ turn = Nil /\ leader = FALSE
      /\ applied = 0 /\ failed = FALSE /\ faults = 0
      /\ phase = [t \in Task |-> "free"] /\ unapplied \in 0 .. MaxUnapplied
  BY DEF Init
<1>2. line \in Seq(Message) /\ \A i \in 1 .. Len(line) : FALSE
  BY <1>1
<1>3. TypeOK
  <2>1. unapplied \in Nat /\ faults \in 0 .. MaxFaults
    BY <1>1, InboxAssumption
  <2>2. phase \in [Task -> {"free", "connecting", "calling"}]
    BY <1>1
  <2>3. pending \subseteq calling /\ calling \subseteq Handler /\ turn \in Message \cup {Nil}
        /\ leader \in BOOLEAN /\ failed \in BOOLEAN /\ applied \in Nat
    BY <1>1
  <2> QED BY <1>2, <2>1, <2>2, <2>3 DEF TypeOK
<1>4. CompactionDue
  BY <1>1, InboxAssumption DEF CompactionDue
<1>5. NothingLost /\ Ordered /\ TasksSend /\ TurnOpen /\ WaitingTrigger
  BY <1>1, <1>2 DEF NothingLost, Sent, Ordered, TasksSend, TurnOpen, WaitingTrigger
<1> QED BY <1>3, <1>4, <1>5 DEF IInv

LEMMA NextKeeps == IInv /\ [Next]_vars => IInv'
<1> SUFFICES ASSUME IInv, [Next]_vars PROVE IInv'
  OBVIOUS
<1>1. CASE Handle
  BY <1>1, QueryKeeps, InstallSnapshotKeeps, MembershipKeeps, ClientRequestKeeps, AppendEntriesKeeps,
     ResultKeeps, UpdatePeerClientKeeps, TriggerSnapshotKeeps, SendTriggerKeeps DEF Handle
<1>2. CASE Heartbeat \/ Elected \/ (\E t \in Task : Ends(t)) \/ UNCHANGED vars
  BY <1>2, PhasesKeep
<1>3. CASE \E t \in Task : Connected(t) \/ Finish(t)
  BY <1>3, TasksKeep
<1>4. CASE \E h \in Handler : Call(h) \/ GiveUp(h)
  BY <1>4, CallKeeps, GiveUpKeeps
<1> QED BY <1>1, <1>2, <1>3, <1>4 DEF Next

(* The invariant holds in every state: no reply is forgotten, a log that   *)
(* is long has its TriggerSnapshot, and what a sender has in the line, and *)
(* in which order, agrees with what it waits for.                          *)
THEOREM InboxInvariant == Spec => []IInv
BY InboxBegins, NextKeeps, PTL DEF Spec

(* The types of the inbox and its actor's state.                           *)
THEOREM InboxTypeCorrect == Spec => []TypeOK
<1>1. IInv => TypeOK
  BY DEF IInv
<1> QED BY <1>1, InboxInvariant, PTL

(* No reply is forgotten and none goes to a later call (bin/server.rs's    *)
(* oneshot channels): a handler that waits has its message in the line,    *)
(* its entry in pending_requests or its turn unfinished.                   *)
THEOREM NothingIsLost == Spec => []NothingLost
<1>1. IInv => NothingLost
  BY DEF IInv
<1> QED BY <1>1, InboxInvariant, PTL

(* A log longer than the limit with applied entries has a TriggerSnapshot  *)
(* in the inbox, or its turn is about to send it, or its last snapshot     *)
(* could not be written (apply_committed_entries).                         *)
THEOREM CompactionIsDue == Spec => []CompactionDue
<1>1. IInv => CompactionDue
  BY DEF IInv
<1> QED BY <1>1, InboxInvariant, PTL

------------------------------------------------------------------------------
(* What can stand in a line that nobody has given up: for each sender, one *)
(* message of each rank it can have.                                       *)
Room == (Handler \X {1, 3}) \cup (Task \X (1 .. 3))

LEMMA RoomSize ==
  /\ IsFiniteSet(Room) /\ Cardinality(Room) \in Nat
  /\ Enough => Cardinality(Room) <= Capacity + 1
<1>1. /\ IsFiniteSet(Handler) /\ IsFiniteSet(Task)
      /\ Cardinality(Handler) \in Nat /\ Cardinality(Task) \in Nat
      /\ Capacity \in Nat
  BY InboxAssumption, FS_CardinalityType
<1>2. /\ IsFiniteSet({1, 3}) /\ Cardinality({1, 3}) = 2
      /\ IsFiniteSet(1 .. 3) /\ Cardinality(1 .. 3) = 3
  <2>1. IsFiniteSet({3}) /\ Cardinality({3}) = 1 /\ {1, 3} = {3} \cup {1}
    BY FS_Singleton
  <2>2. IsFiniteSet({1, 3}) /\ Cardinality({1, 3}) = 2
    BY <2>1, FS_AddElement
  <2>3. IsFiniteSet(1 .. 3) /\ Cardinality(1 .. 3) = 3
    <3>1. 1 \in Int /\ 3 \in Int /\ ~(1 > 3) /\ 3 - 1 + 1 = 3
      OBVIOUS
    <3>2. IsFiniteSet(1 .. 3) /\ Cardinality(1 .. 3) = IF 1 > 3 THEN 0 ELSE 3 - 1 + 1
      BY <3>1, FS_Interval, Zenon
    <3> QED BY <3>1, <3>2
  <2> QED BY <2>2, <2>3
<1> DEFINE A == Handler \X {1, 3}
           B == Task \X (1 .. 3)
<1>3. /\ IsFiniteSet(A) /\ Cardinality(A) = Cardinality(Handler) * 2
      /\ IsFiniteSet(B) /\ Cardinality(B) = Cardinality(Task) * 3
  <2>1. IsFiniteSet(A) /\ Cardinality(A) = Cardinality(Handler) * Cardinality({1, 3})
    BY <1>1, <1>2, FS_Product
  <2>2. IsFiniteSet(B) /\ Cardinality(B) = Cardinality(Task) * Cardinality(1 .. 3)
    BY <1>1, <1>2, FS_Product
  <2> QED BY <1>2, <2>1, <2>2
<1>4. Room = A \cup B
  BY DEF Room
<1> HIDE DEF A, B
<1>5. /\ IsFiniteSet(Room) /\ Cardinality(Room) \in Nat
      /\ Cardinality(Room) = Cardinality(A) + Cardinality(B) - Cardinality(A \cap B)
      /\ Cardinality(A \cap B) \in Nat
  BY <1>3, <1>4, FS_Union, FS_Intersection, FS_CardinalityType
<1>6. Cardinality(Room) <= 2 * Cardinality(Handler) + 3 * Cardinality(Task)
  <2>1. Cardinality(A) = 2 * Cardinality(Handler) /\ Cardinality(B) = 3 * Cardinality(Task)
    BY <1>1, <1>3
  <2> QED BY <1>1, <1>5, <2>1
<1> QED BY <1>1, <1>5, <1>6 DEF Enough

LEMMA InRoom ==
  ASSUME IInv, Abandoned = {}, NEW i \in 1 .. Len(line)
  PROVE  <<line[i].from, Rank(line[i])>> \in Room /\ line[i].from # Nil
<1>1. line[i] \in Message /\ line[i].from # Nil
  BY LineType DEF IInv, Abandoned
<1>2. CASE IsTrigger(line[i])
  BY <1>1, <1>2, Senders DEF Room, Rank
<1>3. CASE line[i].type = "UpdatePeerClient"
  BY <1>1, <1>3, Senders DEF Room, Rank, IsTrigger
<1>4. CASE ~IsTrigger(line[i]) /\ line[i].type # "UpdatePeerClient"
  <2>1. Rank(line[i]) = 3 /\ line[i].from \in Handler \cup Task
    BY <1>1, <1>4, Senders DEF Rank
  <2> QED BY <1>1, <2>1 DEF Room
<1> QED BY <1>1, <1>2, <1>3, <1>4

(* A TriggerSnapshot that waits has the whole channel before it, and its   *)
(* turn's message is in the line no more: with enough places two messages  *)
(* of one sender would be of the same rank.                                *)
LEMMA EnoughPlaces == ASSUME IInv, Enough, Blocked, Abandoned = {} PROVE FALSE
<1>1. PICK w \in 1 .. Len(line) : IsWaiting(w) /\ IsTrigger(line[w])
  BY DEF Blocked, IsTrigger
<1>2. Len(line) \in Nat /\ Capacity \in Nat /\ Len(line) >= Capacity + 1
  BY <1>1, LineType, Types DEF IInv, IsWaiting
<1>3. turn # Nil /\ line[w].from = turn.from /\ turn.from # Nil
  BY <1>1, InRoom DEF IInv, WaitingTrigger
<1>4. turn.from \in Handler \cup Task
  <2>1. line[w] \in Message /\ line[w].from # Nil
    BY <1>1, LineType, InRoom DEF IInv
  <2> QED BY <1>1, <1>3, <2>1, Senders
<1> DEFINE last == <<turn.from, 3>>
           S == Room \ {last}
<1>5. last \in Room
  BY <1>4 DEF Room
<1>6. IsFiniteSet(S) /\ Cardinality(S) <= Capacity /\ Cardinality(S) \in Nat
  <2>1. IsFiniteSet(S) /\ Cardinality(S) = Cardinality(Room) - 1
    BY <1>5, RoomSize, FS_RemoveElement
  <2> QED BY <1>2, <2>1, RoomSize, FS_CardinalityType
<1>7. PICK n \in Nat : n = Len(line)
  BY <1>2
<1>8. PICK f : f = [i \in 1 .. n |-> <<line[i].from, Rank(line[i])>>]
  OBVIOUS
<1>9. f \in [1 .. n -> S]
  <2> SUFFICES ASSUME NEW i \in 1 .. n PROVE <<line[i].from, Rank(line[i])>> \in S
    BY <1>8
  <2>1. <<line[i].from, Rank(line[i])>> \in Room
    BY <1>7, InRoom
  <2>2. line[i].from = turn.from => Rank(line[i]) = 1
    BY <1>3, <1>7 DEF IInv, TurnOpen, Rank
  <2> QED BY <2>1, <2>2
<1>10. IsFiniteSet(1 .. n) /\ Cardinality(1 .. n) = n
  BY FS_Interval
<1> HIDE DEF S
<1>11. PICK i \in 1 .. n, j \in 1 .. n : i # j /\ f[i] = f[j]
  <2>1. Cardinality(S) < Cardinality(1 .. n)
    BY <1>2, <1>6, <1>7, <1>10
  <2> QED BY <1>6, <1>9, <1>10, <2>1, FS_PigeonHole
<1>12. line[i].from = line[j].from /\ Rank(line[i]) = Rank(line[j]) /\ line[i].from # Nil
  BY <1>7, <1>8, <1>11, InRoom
<1>13. i < j \/ j < i
  BY <1>11
<1>14. Rank(line[i]) \in {1, 2, 3}
  BY DEF Rank
<1> QED BY <1>7, <1>12, <1>13, <1>14 DEF IInv, Ordered

(* With two places for each handler and three for each heartbeat task, but *)
(* one, the send of apply_committed_entries never waits for the actor that *)
(* makes it, unless callers have given up on messages that are still in    *)
(* the line.                                                               *)
THEOREM InboxSuffices == Spec => []BlockedOnlyByAbandoned
<1>1. IInv => BlockedOnlyByAbandoned
  BY EnoughPlaces DEF BlockedOnlyByAbandoned
<1> QED BY <1>1, InboxInvariant, PTL
=============================================================================
