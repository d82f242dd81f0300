---------------------------- MODULE ClientProofs ----------------------------
(***************************************************************************)
(* Client calls, for every set of nodes and callers, every sequence of     *)
(* calls and every state machine.                                          *)
(***************************************************************************)
EXTENDS Client, SequenceTheorems, WellFoundedInduction, TLAPS

LEMMA CallIdentity ==
  ASSUME StateType, NEW c \in Caller
  PROVE  /\ CallOf(c) \in Call /\ Made(CallOf(c)) /\ Request(c).call = CallOf(c)
         /\ \A d \in Caller : CallOf(d) = CallOf(c) => d = c
  BY DEF StateType, CallOf, Call, Made, Request

LEMMA LogsTyped ==
  ASSUME StateType
  PROVE  \A entries \in Logs : entries \in Seq(Call) /\ Len(entries) \in Nat
  BY LenProperties DEF StateType, Logs

(* Steps that enter and send no call: the logs are cut or copied.          *)
LogsCopied ==
  \A e \in Logs' : \E g \in Logs : Len(e) <= Len(g) /\ \A i \in 1 .. Len(e) : e[i] = g[i]

LEMMA CopiesEnterNothing ==
  ASSUME StateType, StateType', LogsCopied, AtMostOnce, EntriesMade, calls' = calls
  PROVE  /\ \A k : Entered(k)' => Entered(k)
         /\ AtMostOnce' /\ EntriesMade'
<1>1. ASSUME NEW e \in Logs'
      PROVE  \E g \in Logs : \A i \in 1 .. Len(e) : i \in 1 .. Len(g) /\ e[i] = g[i]
  <2>1. PICK g \in Logs : Len(e) <= Len(g) /\ \A i \in 1 .. Len(e) : e[i] = g[i]
    BY DEF LogsCopied
  <2>2. Len(e) \in Nat /\ Len(g) \in Nat
    <3>1. \A x \in Logs : Len(x) \in Nat
      BY LogsTyped
    <3>2. (\A x \in Logs : Len(x) \in Nat)'
      BY LenProperties DEF StateType, Logs
    <3> QED BY <3>1, <3>2
  <2> QED BY <2>1, <2>2
<1>2. \A k : Entered(k)' => Entered(k)
  BY <1>1 DEF Entered
<1>3. AtMostOnce'
  BY <1>1 DEF AtMostOnce
<1>4. \A k : Made(k) => Made(k)'
  BY DEF Made
<1>5. EntriesMade'
  BY <1>1, <1>4 DEF EntriesMade
<1> QED BY <1>2, <1>3, <1>5

(* A step in which no call is entered, sent, begun or redirected; a call it*)
(* refuses is free.                                                        *)
Quiet ==
  /\ LogsCopied /\ calls' = calls /\ sent' \subseteq sent
  /\ \A c \in Caller : /\ phase'[c] = "trying" => phase[c] = "trying"
                       /\ phase'[c] # "idle" => phase[c] # "idle"
  /\ Refusals' \subseteq Refusals
  /\ \A f \in finished' : f.outcome = "refused" =>
       \/ f \in finished
       \/ \E c \in Caller : f.call = CallOf(c) /\ Free(CallOf(c)) /\ phase'[c] = "idle"

LEMMA QuietKeeps ==
  ASSUME CallsInv, Quiet, StateType'
  PROVE  CallsInv'
<1>1. /\ \A k : Entered(k)' => Entered(k)
      /\ AtMostOnce' /\ EntriesMade'
  BY CopiesEnterNothing DEF CallsInv, Quiet
<1>2. \A k : Free(k) => Free(k)'
  BY <1>1 DEF Free, Quiet
<1>3. \A k : Made(k) => Made(k)'
  BY DEF Made, Quiet
<1>4. \A c : CallOf(c)' = CallOf(c)
  BY DEF CallOf, Quiet
<1>5. SentOnce'
  BY <1>1, <1>3 DEF CallsInv, SentOnce, Quiet
<1>6. TryingFree'
  BY <1>2, <1>4 DEF CallsInv, TryingFree, Quiet
<1>7. RefusalsOnce'
  BY <1>2, <1>3 DEF CallsInv, RefusalsOnce, Quiet
<1>8. RefusedFree'
  <2> SUFFICES ASSUME NEW f \in finished', f.outcome = "refused"
               PROVE  /\ Made(f.call)' /\ Free(f.call)'
                      /\ \A c \in Caller : phase'[c] # "idle" => f.call # CallOf(c)'
    BY DEF RefusedFree
  <2>1. CASE f \in finished
    BY <1>2, <1>3, <1>4, <2>1 DEF CallsInv, RefusedFree, Quiet
  <2>2. CASE \E c \in Caller : f.call = CallOf(c) /\ Free(CallOf(c)) /\ phase'[c] = "idle"
    BY <1>2, <1>3, <1>4, <2>2, CallIdentity DEF CallsInv
  <2> QED BY <2>1, <2>2 DEF Quiet
<1> QED BY <1>1, <1>5, <1>6, <1>7, <1>8 DEF CallsInv

------------------------------------------------------------------------------
(* The steps of the callers.                                               *)

LEMMA SameLogs ==
  ASSUME StateType, committed' = committed, log' = log
  PROVE  Logs' = Logs /\ LogsCopied /\ \A k : Entered(k)' <=> Entered(k)
<1>1. Logs' = Logs
  BY DEF Logs
<1>2. \A e \in Logs : Len(e) <= Len(e)
  BY LogsTyped
<1> QED BY <1>1, <1>2 DEF LogsCopied, Entered

CallerOnly == UNCHANGED <<committed, log, offices, machines, pending, budget>>

LEMMA CallerOnlyFacts ==
  ASSUME CallerOnly
  PROVE  committed' = committed /\ log' = log /\ applied' = applied /\ store' = store
  BY DEF CallerOnly, machines

LEMMA RefusedEnds ==
  ASSUME CallsInv, NEW c \in Caller, NEW outcome, NEW text, End(c, outcome, text),
         CallerOnly, UNCHANGED <<calls, since, sent>>, phase[c] # "idle",
         replies' \subseteq replies, outcome = "refused" => Free(CallOf(c))
  PROVE  Quiet /\ StateType'
<1>1. committed' = committed /\ log' = log /\ applied' = applied /\ store' = store
  BY CallerOnlyFacts
<1>2. phase' = [phase EXCEPT ![c] = "idle"] /\ StateType
  BY DEF End, CallsInv
<1>3. StateType'
  BY <1>1, <1>2 DEF StateType
<1>4. LogsCopied
  BY <1>1, <1>2, SameLogs
<1>5. Refusals' \subseteq Refusals
  BY DEF Refusals
<1>6. \A d \in Caller : /\ phase'[d] = "trying" => phase[d] = "trying"
                        /\ phase'[d] # "idle" => phase[d] # "idle"
  BY <1>2 DEF StateType
<1>7. ASSUME NEW f \in finished', f.outcome = "refused"
      PROVE  \/ f \in finished
             \/ \E d \in Caller : f.call = CallOf(d) /\ Free(CallOf(d)) /\ phase'[d] = "idle"
  <2>1. \/ f \in finished
        \/ /\ outcome # "error"
           /\ f = [call |-> CallOf(c), since |-> since[c], outcome |-> outcome, result |-> text]
    BY DEF End
  <2>2. phase'[c] = "idle"
    BY <1>2 DEF StateType
  <2> QED BY <1>7, <2>1, <2>2
<1> QED BY <1>3, <1>4, <1>5, <1>6, <1>7 DEF Quiet

LEMMA RedirectLimitKeeps ==
  ASSUME CallsInv, NEW c \in Caller, RedirectLimit(c)
  PROVE  CallsInv'
<1>1. Free(CallOf(c))
  BY DEF RedirectLimit, CallsInv, TryingFree
<1>2. Quiet /\ StateType'
  BY <1>1, RefusedEnds DEF RedirectLimit, CallerOnly
<1> QED BY <1>2, QuietKeeps

LEMMA RpcErrorKeeps ==
  ASSUME CallsInv, NEW c \in Caller, RpcError(c)
  PROVE  CallsInv'
<1>1. replies' \subseteq replies
  BY DEF RpcError, RepliesToOthers
<1>2. Quiet /\ StateType'
  BY <1>1, RefusedEnds DEF RpcError, Fail, CallerOnly
<1> QED BY <1>2, QuietKeeps

LEMMA BeginKeeps ==
  ASSUME CallsInv, NEW c \in Caller, Begin(c)
  PROVE  CallsInv'
<1>1. /\ StateType /\ AtMostOnce /\ EntriesMade /\ SentOnce /\ TryingFree
      /\ RefusalsOnce /\ RefusedFree
  BY DEF CallsInv
<1>2. /\ committed' = committed /\ log' = log /\ sent' = sent /\ replies' = replies
      /\ finished' = finished /\ applied' = applied /\ store' = store
      /\ phase' = [phase EXCEPT ![c] = "trying"] /\ phase[c] = "idle"
      /\ calls' = [calls EXCEPT ![c] = @ + 1] /\ since' = [since EXCEPT ![c] = Len(committed)]
  BY DEF Begin, machines
<1>3. StateType'
  <2>1. Len(committed) \in Nat
    BY <1>1, LenProperties DEF StateType
  <2> QED BY <1>1, <1>2, <2>1 DEF StateType
<1>4. Logs' = Logs /\ \A k : Entered(k)' <=> Entered(k)
  BY <1>1, <1>2, SameLogs
<1>5. \A k : Free(k)' <=> Free(k)
  BY <1>2, <1>4 DEF Free
<1>6. ASSUME NEW k, Made(k)
      PROVE  Made(k)' /\ k # CallOf(c)'
  <2>1. k \in Caller \X Nat /\ k[2] <= calls[k[1]]
    BY <1>6 DEF Made, Call
  <2>2. calls[k[1]] \in Nat /\ calls'[k[1]] = IF k[1] = c THEN calls[c] + 1 ELSE calls[k[1]]
    BY <1>1, <1>2, <2>1 DEF StateType
  <2>3. k[2] <= calls'[k[1]]
    BY <2>1, <2>2
  <2>4. k[1] = c => k[2] # calls'[c]
    BY <2>1, <2>2
  <2> QED BY <2>1, <2>3, <2>4 DEF Made, Call, CallOf
<1>7. ASSUME NEW d \in Caller, d # c
      PROVE  CallOf(d)' = CallOf(d) /\ phase'[d] = phase[d]
  BY <1>1, <1>2, <1>7 DEF CallOf, StateType
<1>8. AtMostOnce' /\ EntriesMade' /\ SentOnce'
  BY <1>1, <1>2, <1>4, <1>6 DEF AtMostOnce, EntriesMade, SentOnce
<1>9. Refusals' = Refusals
  BY <1>2 DEF Refusals
<1>10. RefusalsOnce'
  BY <1>1, <1>5, <1>6, <1>9 DEF RefusalsOnce
<1>11. TryingFree'
  <2>1. ASSUME NEW d \in Caller, phase'[d] = "trying", NEW k, k = CallOf(d)'
        PROVE  Free(k)' /\ \A a \in Refusals' : a.to.call # k
    <3>1. CASE d = c
      <4>1. \A a \in Refusals : a.to.call # k
        BY <1>1, <1>6, <2>1, <3>1 DEF RefusalsOnce
      <4>2. ~Entered(k)
        BY <1>1, <1>6, <2>1, <3>1 DEF EntriesMade, Entered
      <4>3. \A r \in sent : r.call # k
        BY <1>1, <1>6, <2>1, <3>1 DEF SentOnce
      <4> QED BY <1>5, <1>9, <4>1, <4>2, <4>3 DEF Free
    <3>2. CASE d # c
      BY <1>1, <1>5, <1>7, <1>9, <2>1, <3>2 DEF TryingFree
    <3> QED BY <3>1, <3>2
  <2> QED BY <2>1 DEF TryingFree, Free, Entered
<1>12. RefusedFree'
  <2>1. ASSUME NEW f \in finished, f.outcome = "refused"
        PROVE  /\ Made(f.call)' /\ Free(f.call)'
               /\ \A d \in Caller : phase'[d] # "idle" => f.call # CallOf(d)'
    BY <1>1, <1>5, <1>6, <1>7, <2>1 DEF RefusedFree
  <2> QED BY <1>2, <2>1 DEF RefusedFree
<1> QED BY <1>3, <1>8, <1>10, <1>11, <1>12 DEF CallsInv

LEMMA ConnectKeeps ==
  ASSUME CallsInv, NEW c \in Caller, Connect(c)
  PROVE  CallsInv'
<1>1. /\ StateType /\ AtMostOnce /\ EntriesMade /\ SentOnce /\ TryingFree
      /\ RefusalsOnce /\ RefusedFree
  BY DEF CallsInv
<1>2. phase[c] = "trying" /\ Free(CallOf(c)) /\ \A a \in Refusals : a.to.call # CallOf(c)
  BY <1>1 DEF Connect, TryingFree
<1>3. CASE End(c, "refused", <<>>) /\ sent' = sent
  <2>1. Quiet /\ StateType'
    BY <1>2, <1>3, RefusedEnds DEF Connect, CallerOnly
  <2> QED BY <2>1, QuietKeeps
<1>4. CASE /\ phase' = [phase EXCEPT ![c] = "waiting"] /\ sent' = sent \cup {Request(c)}
           /\ finished' = finished
  <2>1. /\ committed' = committed /\ log' = log /\ replies' = replies /\ applied' = applied
        /\ store' = store /\ calls' = calls /\ since' = since
    BY DEF Connect, machines
  <2>2. StateType'
    BY <1>1, <1>4, <2>1 DEF StateType
  <2>3. Logs' = Logs /\ \A k : Entered(k)' <=> Entered(k)
    BY <1>1, <2>1, SameLogs
  <2>4. /\ \A k : Made(k)' <=> Made(k)
        /\ \A d : CallOf(d)' = CallOf(d)
        /\ Refusals' = Refusals
    BY <2>1 DEF Made, CallOf, Refusals
  <2>5. PICK r : r = Request(c) /\ r.call = CallOf(c) /\ Made(r.call)
    BY <1>1, CallIdentity
  <2>6. \A k : Free(k) /\ k # CallOf(c) => Free(k)'
    BY <1>4, <2>3, <2>5 DEF Free
  <2>7. AtMostOnce' /\ EntriesMade'
    BY <1>1, <2>3, <2>4 DEF AtMostOnce, EntriesMade
  <2>8. SentOnce'
    BY <1>1, <1>2, <1>4, <2>3, <2>4, <2>5 DEF SentOnce, Free
  <2>9. \A d \in Caller : d # c => CallOf(d) # CallOf(c) /\ phase'[d] = phase[d]
    BY <1>1, <1>4, CallIdentity DEF StateType
  <2>10. phase'[c] = "waiting"
    BY <1>1, <1>4 DEF StateType
  <2>11. TryingFree'
    BY <1>1, <2>4, <2>6, <2>9, <2>10 DEF TryingFree
  <2>12. RefusalsOnce'
    BY <1>1, <1>2, <2>4, <2>6 DEF RefusalsOnce
  <2>13. RefusedFree'
    <3>1. \A f \in finished : f.outcome = "refused" => f.call # CallOf(c)
      BY <1>1, <1>2 DEF RefusedFree
    <3> QED BY <1>1, <1>2, <1>4, <2>4, <2>6, <2>9, <3>1 DEF RefusedFree
  <2> QED BY <2>2, <2>7, <2>8, <2>11, <2>12, <2>13 DEF CallsInv
<1> QED BY <1>3, <1>4 DEF Connect

LEMMA ReceiveReplyKeeps ==
  ASSUME CallsInv, NEW c \in Caller, ReceiveReply(c)
  PROVE  CallsInv'
<1>1. /\ StateType /\ AtMostOnce /\ EntriesMade /\ SentOnce /\ TryingFree
      /\ RefusalsOnce /\ RefusedFree
  BY DEF CallsInv
<1>2. PICK r \in replies :
        /\ r.to = Request(c) /\ replies' = replies \ {r}
        /\ \/ r.reply.kind = "Ok" /\ End(c, "ok", r.reply.result) /\ UNCHANGED addr
           \/ /\ r.reply.kind = "NotLeader" /\ r.reply.leader # Nil
              /\ addr' = [addr EXCEPT ![c] = r.reply.leader]
              /\ phase' = [phase EXCEPT ![c] = "trying"]
              /\ finished' = finished
           \/ /\ r.reply.kind = "NotLeader" /\ r.reply.leader = Nil
              /\ End(c, "refused", <<>>) /\ UNCHANGED addr
           \/ r.reply.kind = "Internal" /\ End(c, "error", <<>>) /\ UNCHANGED addr
  BY DEF ReceiveReply
<1>3. CallerOnly /\ UNCHANGED <<calls, since, sent>> /\ phase[c] = "waiting"
  BY DEF ReceiveReply, CallerOnly
<1>4. r.to.call = CallOf(c)
  BY <1>1, <1>2, CallIdentity
<1>5. r.reply.kind = "NotLeader" => r \in Refusals /\ Free(CallOf(c))
  BY <1>1, <1>4 DEF Refusals, RefusalsOnce
<1>6. CASE \/ r.reply.kind = "Ok" /\ End(c, "ok", r.reply.result)
           \/ r.reply.kind = "NotLeader" /\ End(c, "refused", <<>>)
           \/ r.reply.kind = "Internal" /\ End(c, "error", <<>>)
  <2>1. replies' \subseteq replies /\ phase[c] # "idle"
    BY <1>2, <1>3
  <2>2. CASE r.reply.kind = "Ok" /\ End(c, "ok", r.reply.result)
    <3>1. Quiet /\ StateType'
      BY <1>3, <2>1, <2>2, RefusedEnds
    <3> QED BY <3>1, QuietKeeps
  <2>3. CASE r.reply.kind = "NotLeader" /\ End(c, "refused", <<>>)
    <3>1. Quiet /\ StateType'
      BY <1>3, <1>5, <2>1, <2>3, RefusedEnds
    <3> QED BY <3>1, QuietKeeps
  <2>4. CASE r.reply.kind = "Internal" /\ End(c, "error", <<>>)
    <3>1. Quiet /\ StateType'
      BY <1>3, <2>1, <2>4, RefusedEnds
    <3> QED BY <3>1, QuietKeeps
  <2> QED BY <1>6, <2>2, <2>3, <2>4
<1>7. CASE /\ r.reply.kind = "NotLeader" /\ phase' = [phase EXCEPT ![c] = "trying"]
           /\ finished' = finished
  <2>1. /\ committed' = committed /\ log' = log /\ applied' = applied
        /\ store' = store /\ calls' = calls /\ since' = since /\ sent' = sent
    BY <1>3, CallerOnlyFacts
  <2>2. StateType'
    BY <1>1, <1>7, <2>1 DEF StateType
  <2>3. Logs' = Logs /\ \A k : Entered(k)' <=> Entered(k)
    BY <1>1, <2>1, SameLogs
  <2>4. /\ \A k : Made(k)' <=> Made(k)
        /\ \A d : CallOf(d)' = CallOf(d)
        /\ \A k : Free(k)' <=> Free(k)
    BY <2>1, <2>3 DEF Made, CallOf, Free
  <2>5. Refusals' = Refusals \ {r}
    BY <1>2 DEF Refusals
  <2>6. AtMostOnce' /\ EntriesMade' /\ SentOnce'
    BY <1>1, <2>1, <2>3, <2>4 DEF AtMostOnce, EntriesMade, SentOnce
  <2>7. RefusalsOnce'
    BY <1>1, <2>4, <2>5 DEF RefusalsOnce
  <2>8. \A a \in Refusals' : a.to.call # CallOf(c)
    BY <1>1, <1>4, <1>5, <1>7, <2>5 DEF RefusalsOnce
  <2>9. TryingFree'
    <3>1. \A d \in Caller : d # c => phase'[d] = phase[d]
      BY <1>1, <1>7 DEF StateType
    <3> QED BY <1>1, <1>5, <1>7, <2>4, <2>5, <2>8, <3>1 DEF TryingFree
  <2>10. RefusedFree'
    <3>1. \A d \in Caller : phase'[d] # "idle" => phase[d] # "idle"
      BY <1>1, <1>3, <1>7 DEF StateType
    <3> QED BY <1>1, <1>7, <2>4, <3>1 DEF RefusedFree
  <2> QED BY <2>2, <2>6, <2>7, <2>9, <2>10 DEF CallsInv
<1> QED BY <1>2, <1>6, <1>7

------------------------------------------------------------------------------
(* The steps of the nodes.                                                 *)

LEMMA RefuseKeeps ==
  ASSUME CallsInv, NEW r \in sent, NEW reply, reply.kind # "Ok", replies' = Reply(r, reply),
         sent' = sent \ {r},
         UNCHANGED <<committed, log, applied, store, phase, calls, since, finished>>
  PROVE  CallsInv'
<1>1. /\ StateType /\ AtMostOnce /\ EntriesMade /\ SentOnce /\ TryingFree
      /\ RefusalsOnce /\ RefusedFree
  BY DEF CallsInv
<1>2. StateType'
  BY <1>1 DEF StateType
<1>3. Logs' = Logs /\ \A k : Entered(k)' <=> Entered(k)
  BY <1>1, SameLogs
<1>4. /\ \A k : Made(k)' <=> Made(k)
      /\ \A d : CallOf(d)' = CallOf(d)
      /\ \A k : Free(k) => Free(k)'
  BY <1>3 DEF Made, CallOf, Free
<1>5. PICK new : new = [to |-> r, reply |-> reply]
  OBVIOUS
<1>6. Refusals' \subseteq Refusals \cup {new} /\ new.to.call = r.call
  BY <1>5 DEF Refusals, Reply, Answered
<1>7. /\ \A a \in Refusals : a.to.call # r.call
      /\ \A d \in Caller : phase[d] = "trying" => CallOf(d) # r.call
      /\ \A f \in finished : f.outcome = "refused" => f.call # r.call
  BY <1>1 DEF RefusalsOnce, TryingFree, RefusedFree, Free
<1>8. Made(r.call) /\ Free(r.call)'
  BY <1>1, <1>3 DEF SentOnce, Free
<1>9. AtMostOnce' /\ EntriesMade' /\ SentOnce'
  BY <1>1, <1>3, <1>4 DEF AtMostOnce, EntriesMade, SentOnce
<1>10. TryingFree'
  BY <1>1, <1>4, <1>6, <1>7 DEF TryingFree
<1>11. RefusalsOnce'
  BY <1>1, <1>4, <1>6, <1>7, <1>8 DEF RefusalsOnce
<1>12. RefusedFree'
  BY <1>1, <1>4 DEF RefusedFree
<1> QED BY <1>2, <1>9, <1>10, <1>11, <1>12 DEF CallsInv

LEMMA AcceptKeeps ==
  ASSUME CallsInv, NEW n \in Node, NEW r \in sent, log' = [log EXCEPT ![n] = Append(@, r.call)],
         sent' = sent \ {r},
         UNCHANGED <<committed, replies, applied, store, phase, calls, since, finished>>
  PROVE  CallsInv'
<1>1. /\ StateType /\ AtMostOnce /\ EntriesMade /\ SentOnce /\ TryingFree
      /\ RefusalsOnce /\ RefusedFree
  BY DEF CallsInv
<1>2. r.call \in Call /\ Made(r.call) /\ ~Entered(r.call)
  BY <1>1 DEF SentOnce, Made
<1>3. PICK q \in Seq(Call), k \in Call : q = log[n] /\ k = r.call /\ q \in Logs
  BY <1>1, <1>2 DEF StateType, Logs
<1>4. /\ Append(q, k) \in Seq(Call) /\ Len(q) \in Nat /\ Len(Append(q, k)) = Len(q) + 1
      /\ \A i \in 1 .. Len(q) : Append(q, k)[i] = q[i]
      /\ Append(q, k)[Len(q) + 1] = k
  BY AppendProperties
<1>5. log' = [log EXCEPT ![n] = Append(q, k)]
  BY <1>3
<1>6. StateType'
  BY <1>1, <1>4, <1>5 DEF StateType
<1>7. Logs' \subseteq Logs \cup {Append(q, k)} /\ Append(q, k) \in Logs'
  BY <1>1, <1>5 DEF Logs, StateType
<1>8. \A i \in 1 .. Len(Append(q, k)) : i \in 1 .. Len(q) \/ i = Len(q) + 1
  BY <1>4
<1>9. \A i \in 1 .. Len(q) : q[i] # k
  BY <1>2, <1>3 DEF Entered
<1>10. \A x : Entered(x)' => Entered(x) \/ x = k
  <2>1. ASSUME NEW x, NEW e \in Logs', NEW i \in 1 .. Len(e), e[i] = x
        PROVE  Entered(x) \/ x = k
    <3>1. CASE e \in Logs
      BY <2>1, <3>1 DEF Entered
    <3>2. CASE e = Append(q, k)
      BY <1>3, <1>4, <1>8, <2>1, <3>2 DEF Entered
    <3> QED BY <1>7, <3>1, <3>2
  <2> QED BY <2>1 DEF Entered
<1>11. /\ \A x : Made(x)' <=> Made(x)
       /\ \A d : CallOf(d)' = CallOf(d)
       /\ Refusals' = Refusals
  BY DEF Made, CallOf, Refusals
<1>12. \A x : Free(x) => x # k /\ Free(x)'
  BY <1>3, <1>10 DEF Free
<1>13. AtMostOnce'
  <2>1. ASSUME NEW e \in Logs', NEW i \in 1 .. Len(e), NEW j \in 1 .. Len(e), e[i] = e[j]
        PROVE  i = j
    <3>1. CASE e \in Logs
      BY <1>1, <2>1, <3>1 DEF AtMostOnce
    <3>2. CASE e = Append(q, k)
      <4>1. CASE i \in 1 .. Len(q) /\ j \in 1 .. Len(q)
        BY <1>1, <1>3, <1>4, <2>1, <3>2, <4>1 DEF AtMostOnce
      <4>2. CASE i = Len(q) + 1 \/ j = Len(q) + 1
        BY <1>4, <1>8, <1>9, <2>1, <3>2, <4>2
      <4> QED BY <1>8, <3>2, <4>1, <4>2
    <3> QED BY <1>7, <3>1, <3>2
  <2> QED BY <2>1 DEF AtMostOnce
<1>14. EntriesMade'
  <2>1. ASSUME NEW e \in Logs', NEW i \in 1 .. Len(e)
        PROVE  Made(e[i])
    <3>1. CASE e \in Logs
      BY <1>1, <3>1 DEF EntriesMade
    <3>2. CASE e = Append(q, k)
      BY <1>1, <1>2, <1>3, <1>4, <1>8, <3>2 DEF EntriesMade
    <3> QED BY <1>7, <3>1, <3>2
  <2> QED BY <1>11, <2>1 DEF EntriesMade
<1>15. SentOnce'
  BY <1>1, <1>3, <1>10, <1>11 DEF SentOnce
<1>16. TryingFree' /\ RefusalsOnce'
  BY <1>1, <1>11, <1>12 DEF TryingFree, RefusalsOnce
<1>17. RefusedFree'
  BY <1>1, <1>11, <1>12 DEF RefusedFree
<1> QED BY <1>6, <1>13, <1>14, <1>15, <1>16, <1>17 DEF CallsInv

LEMMA HandleKeeps ==
  ASSUME CallsInv, NEW n \in Node, NEW r \in sent, HandleClientRequest(n, r)
  PROVE  CallsInv'
<1>1. /\ sent' = sent \ {r}
      /\ UNCHANGED <<committed, applied, store, phase, calls, since, finished>>
  BY DEF HandleClientRequest, machines, loop
<1>2. CASE log' = [log EXCEPT ![n] = Append(@, r.call)] /\ replies' = replies
  BY <1>1, <1>2, AcceptKeeps
<1>3. CASE replies' = Reply(r, NotLeader(hint[n])) /\ log' = log
  <2>1. NotLeader(hint[n]).kind # "Ok"
    BY DEF NotLeader
  <2> QED BY <1>1, <1>3, <2>1, RefuseKeeps
<1>4. CASE replies' = Reply(r, Internal) /\ log' = log
  <2>1. Internal.kind # "Ok"
    BY DEF Internal
  <2> QED BY <1>1, <1>4, <2>1, RefuseKeeps
<1> QED BY <1>2, <1>3, <1>4 DEF HandleClientRequest

LEMMA CutFacts ==
  ASSUME NEW q \in Seq(Call), NEW k \in 0 .. Len(q)
  PROVE  /\ SubSeq(q, 1, k) \in Seq(Call) /\ Len(SubSeq(q, 1, k)) = k
         /\ \A i \in 1 .. k : SubSeq(q, 1, k)[i] = q[i]
<1>1. Len(q) \in Nat /\ k \in Nat
  BY LenProperties
<1>2. \A i \in 1 .. k : i \in 1 .. Len(q)
  BY <1>1
<1> QED BY <1>1, <1>2, SubSeqProperties

LEMMA PrefixFacts ==
  ASSUME NEW p \in Seq(Call), NEW q \in Seq(Call)
  PROVE  IsPrefix(p, q) => Len(p) <= Len(q) /\ \A i \in 1 .. Len(p) : p[i] = q[i]
BY DEF IsPrefix

(* A log that grows does so in office; all else leaves a part of a log.    *)
LEMMA Copies ==
  ASSUME StateType,
         \A e \in Logs' : e \in Logs \/ \E q \in Logs : \E k \in 0 .. Len(q) : e = SubSeq(q, 1, k)
  PROVE  LogsCopied
<1>1. ASSUME NEW e \in Logs
      PROVE  Len(e) <= Len(e)
  BY LogsTyped
<1>2. ASSUME NEW q \in Logs, NEW k \in 0 .. Len(q), NEW e, e = SubSeq(q, 1, k)
      PROVE  Len(e) <= Len(q) /\ \A i \in 1 .. Len(e) : e[i] = q[i]
  <2>1. q \in Seq(Call) /\ Len(q) \in Nat
    BY LogsTyped
  <2>2. Len(e) = k /\ \A i \in 1 .. k : e[i] = q[i]
    BY <1>2, <2>1, CutFacts
  <2> QED BY <2>1, <2>2
<1> QED BY <1>1, <1>2 DEF LogsCopied

(* Steps of a node that change its state machine, its office or its log.   *)
LEMMA NodeQuiet ==
  ASSUME CallsInv, LogsCopied, UNCHANGED loop, finished' = finished, sent' \subseteq sent,
         \A a \in replies' : a \in replies \/ a.reply.kind = "Ok"
  PROVE  Quiet
<1>1. phase' = phase /\ calls' = calls
  BY DEF loop
<1>2. Refusals' \subseteq Refusals
  BY DEF Refusals
<1> QED BY <1>1, <1>2 DEF Quiet

LEMMA ApplyShape ==
  ASSUME NEW n, NEW entries, NEW to, ApplyUpTo(n, entries, to)
  PROVE  /\ applied' = [applied EXCEPT ![n] = to]
         /\ DOMAIN store' = DOMAIN store
         /\ \A a \in replies' : a \in replies \/ a.reply.kind = "Ok"
<1>1. applied' = [applied EXCEPT ![n] = to]
  BY DEF ApplyUpTo
<1>2. DOMAIN store' = DOMAIN store
  BY DEF ApplyUpTo
<1>3. \A a \in replies' : a \in replies \/ a.reply.kind = "Ok"
  BY DEF ApplyUpTo, Answered, Ok
<1> QED BY <1>1, <1>2, <1>3

LEMMA CommitKeeps ==
  ASSUME CallsInv, NEW n \in Node, Commit(n)
  PROVE  CallsInv'
<1>1. StateType
  BY DEF CallsInv
<1>2. PICK q \in Seq(Call) : q = log[n] /\ q \in Logs
  BY <1>1 DEF StateType, Logs
<1>3. PICK i \in applied[n] + 1 .. Len(q) :
        /\ committed' = committed \/ committed' = SubSeq(q, 1, i)
        /\ ApplyUpTo(n, SubSeq(q, 1, i), i)
  BY <1>2 DEF Commit
<1>4. log' = log /\ UNCHANGED loop /\ finished' = finished /\ sent' = sent
  BY DEF Commit
<1>5. i \in Nat /\ i \in 0 .. Len(q)
  <2>1. applied[n] \in Nat /\ Len(q) \in Nat
    BY <1>1 DEF StateType
  <2> QED BY <2>1
<1>6. SubSeq(q, 1, i) \in Seq(Call)
  BY <1>5, CutFacts
<1>7. /\ applied' = [applied EXCEPT ![n] = i] /\ DOMAIN store' = DOMAIN store
      /\ \A a \in replies' : a \in replies \/ a.reply.kind = "Ok"
  BY <1>3, ApplyShape
<1>8. StateType'
  BY <1>1, <1>3, <1>4, <1>5, <1>6, <1>7 DEF StateType, loop
<1>9. LogsCopied
  <2>1. Logs' \subseteq Logs \cup {SubSeq(q, 1, i)}
    BY <1>3, <1>4 DEF Logs
  <2> QED BY <1>1, <1>2, <1>5, <2>1, Copies
<1> QED BY <1>4, <1>7, <1>8, <1>9, NodeQuiet, QuietKeeps

LEMMA HearKeeps ==
  ASSUME CallsInv, NEW n \in Node, Hear(n)
  PROVE  CallsInv'
<1>1. StateType
  BY DEF CallsInv
<1>2. PICK to \in applied[n] .. Len(committed) : ApplyUpTo(n, committed, to)
  BY DEF Hear
<1>3. /\ committed' = committed /\ log' = log /\ UNCHANGED loop /\ finished' = finished
      /\ sent' = sent
  BY DEF Hear
<1>4. /\ applied' = [applied EXCEPT ![n] = to] /\ DOMAIN store' = DOMAIN store
      /\ \A a \in replies' : a \in replies \/ a.reply.kind = "Ok"
  BY <1>2, ApplyShape
<1>5. to \in Nat
  <2>1. applied[n] \in Nat /\ Len(committed) \in Nat
    BY <1>1 DEF StateType
  <2> QED BY <2>1
<1>6. StateType'
  BY <1>1, <1>3, <1>4, <1>5 DEF StateType, loop
<1>7. LogsCopied
  BY <1>1, <1>3, SameLogs
<1> QED BY <1>3, <1>4, <1>6, <1>7, NodeQuiet, QuietKeeps

LEMMA StepDownKeeps ==
  ASSUME CallsInv, NEW n \in Node, StepDown(n)
  PROVE  CallsInv'
<1>1. StateType
  BY DEF CallsInv
<1>2. /\ committed' = committed /\ log' = log /\ UNCHANGED loop /\ finished' = finished
      /\ sent' = sent /\ replies' = replies /\ applied' = applied /\ store' = store
  BY DEF StepDown, machines
<1>3. StateType' /\ LogsCopied
  BY <1>1, <1>2, SameLogs DEF StateType, loop
<1> QED BY <1>2, <1>3, NodeQuiet, QuietKeeps

LEMMA ElectKeeps ==
  ASSUME CallsInv, NEW n \in Node, Elect(n)
  PROVE  CallsInv'
<1>1. StateType
  BY DEF CallsInv
<1>0. PICK m \in Node : \E k \in Len(committed) .. Len(log[m]) :
        log' = [log EXCEPT ![n] = SubSeq(log[m], 1, k)]
  BY DEF Elect
<1>2. PICK k \in Len(committed) .. Len(log[m]) : log' = [log EXCEPT ![n] = SubSeq(log[m], 1, k)]
  BY <1>0
<1>3. /\ committed' = committed /\ UNCHANGED loop /\ finished' = finished
      /\ sent' = sent /\ replies' = replies /\ applied' = applied /\ store' = store
  BY DEF Elect, machines
<1>4. PICK q \in Seq(Call) : q = log[m] /\ q \in Logs
  BY <1>1 DEF StateType, Logs
<1>5. k \in 0 .. Len(q)
  <2>1. Len(committed) \in Nat /\ Len(q) \in Nat
    BY <1>1 DEF StateType
  <2> QED BY <1>4, <2>1
<1>6. SubSeq(q, 1, k) \in Seq(Call)
  BY <1>5, CutFacts
<1>7. StateType'
  BY <1>1, <1>2, <1>3, <1>4, <1>6 DEF StateType, loop
<1>8. LogsCopied
  <2>1. Logs' \subseteq Logs \cup {SubSeq(q, 1, k)}
    BY <1>1, <1>2, <1>3, <1>4 DEF Logs, StateType
  <2> QED BY <1>1, <1>4, <1>5, <2>1, Copies
<1> QED BY <1>3, <1>7, <1>8, NodeQuiet, QuietKeeps

LEMMA CrashKeeps ==
  ASSUME CallsInv, NEW n \in Node, Crash(n)
  PROVE  CallsInv'
<1>1. StateType
  BY DEF CallsInv
<1>2. /\ committed' = committed /\ log' = log /\ UNCHANGED loop /\ finished' = finished
      /\ sent' \subseteq sent /\ replies' = replies
      /\ applied' = [applied EXCEPT ![n] = 0] /\ DOMAIN store' = DOMAIN store
  BY DEF Crash, ResetStore
<1>3. StateType' /\ LogsCopied
  BY <1>1, <1>2, SameLogs DEF StateType, loop
<1> QED BY <1>2, <1>3, NodeQuiet, QuietKeeps

------------------------------------------------------------------------------
LEMMA CallsBegin ==
  Init => CallsInv
<1> SUFFICES ASSUME Init
             PROVE  CallsInv
  OBVIOUS
<1>1. StateType
  BY DEF Init, StateType
<1>2. Logs \subseteq {<<>>} /\ \A k : ~Entered(k)
  BY DEF Init, Logs, Entered
<1>3. AtMostOnce /\ EntriesMade
  BY <1>2 DEF AtMostOnce, EntriesMade
<1>4. SentOnce /\ TryingFree /\ RefusalsOnce /\ RefusedFree
  BY DEF Init, SentOnce, TryingFree, RefusalsOnce, RefusedFree, Refusals
<1> QED BY <1>1, <1>3, <1>4 DEF CallsInv

LEMMA StutterKeeps ==
  ASSUME CallsInv, UNCHANGED vars
  PROVE  CallsInv'
<1>1. /\ committed' = committed /\ log' = log /\ UNCHANGED loop /\ finished' = finished
      /\ sent' = sent /\ replies' = replies /\ applied' = applied /\ store' = store
  BY DEF vars, machines
<1>2. StateType
  BY DEF CallsInv
<1>3. StateType' /\ LogsCopied
  BY <1>1, <1>2, SameLogs DEF StateType, loop
<1> QED BY <1>1, <1>3, NodeQuiet, QuietKeeps

LEMMA NextKeepsCalls ==
  CallsInv /\ [Next]_vars => CallsInv'
<1> SUFFICES ASSUME CallsInv, [Next]_vars
             PROVE  CallsInv'
  OBVIOUS
<1>1. ASSUME NEW c \in Caller,
             Begin(c) \/ RedirectLimit(c) \/ Connect(c) \/ ReceiveReply(c) \/ RpcError(c)
      PROVE  CallsInv'
  BY <1>1, BeginKeeps, RedirectLimitKeeps, ConnectKeeps, ReceiveReplyKeeps, RpcErrorKeeps
<1>2. ASSUME NEW n \in Node, NEW r \in sent, HandleClientRequest(n, r)
      PROVE  CallsInv'
  BY <1>2, HandleKeeps
<1>3. ASSUME NEW n \in Node, Commit(n) \/ Hear(n) \/ StepDown(n) \/ Elect(n) \/ Crash(n)
      PROVE  CallsInv'
  BY <1>3, CommitKeeps, HearKeeps, StepDownKeeps, ElectKeeps, CrashKeeps
<1>4. CASE UNCHANGED vars
  BY <1>4, StutterKeeps
<1> QED BY <1>1, <1>2, <1>3, <1>4 DEF Next

(* A call is in progress in one place: its request under way, a refusal of *)
(* it, or one entry of each log that has it; a refused one in none.        *)
THEOREM CallsInvariant ==
  Spec => []CallsInv
BY CallsBegin, NextKeepsCalls, PTL DEF Spec

(* However often a call is redirected, and whatever leaders come and go, it*)
(* adds at most one entry to every log and to what is committed.           *)
THEOREM CallsAtMostOnce ==
  Spec => []AtMostOnce
<1>1. CallsInv => AtMostOnce
  BY DEF CallsInv
<1> QED BY <1>1, CallsInvariant, PTL

(* A call that the caller is told no node took is in no log, now or later. *)
THEOREM RefusalsHaveNoEffect ==
  Spec => []RefusedWithoutEffect
<1>1. CallsInv => RefusedWithoutEffect
  BY DEF CallsInv, RefusedFree, Free, Entered, RefusedWithoutEffect
<1> QED BY <1>1, CallsInvariant, PTL

------------------------------------------------------------------------------
(* What a machine goes through.                                            *)

LEMMA EveryIndex ==
  ASSUME NEW G, \A d \in Nat : (\A x \in Nat : x < d => x \in G) => d \in G
  PROVE  \A d \in Nat : d \in G
<1>1. PICK M : M = {d \in Nat : d \notin G}
  OBVIOUS
<1>2. ASSUME M # {}
      PROVE  FALSE
  <2>1. IsWellFoundedOn(OpToRel(<, Nat), Nat) /\ M \subseteq Nat
    BY <1>1, NatLessThanWellFounded
  <2>2. PICK x \in M : \A y \in M : ~ (<<y, x>> \in OpToRel(<, Nat))
    BY <1>2, <2>1, WFMin
  <2>3. x \in Nat /\ \A y \in Nat : y < x => y \in G
    BY <1>1, <2>2 DEF OpToRel
  <2> QED BY <1>1, <2>2, <2>3
<1> QED BY <1>1, <1>2

IsRun(f, lo, hi, begin, entries) ==
  f = [i \in lo .. hi |-> IF i = lo THEN [store |-> begin, result |-> <<>>]
                          ELSE Execute(f[i - 1].store, CommandOf(entries[i]))]

(* The recursive definitions define something.                             *)
LEMMA RunExists ==
  ASSUME NEW lo \in Nat, NEW begin, NEW entries
  PROVE  \A hi \in Nat : \E f : IsRun(f, lo, hi, begin, entries)
<1>1. PICK G : G = {h \in Nat : \E f : IsRun(f, lo, h, begin, entries)}
  OBVIOUS
<1>2. ASSUME NEW h \in Nat, \A x \in Nat : x < h => x \in G
      PROVE  h \in G
  <2>1. CASE h <= lo
    <3>1. PICK f : f = [i \in lo .. h |-> [store |-> begin, result |-> <<>>]]
      OBVIOUS
    <3>2. \A i \in lo .. h : i = lo
      BY <2>1
    <3>3. IsRun(f, lo, h, begin, entries)
      BY <3>1, <3>2 DEF IsRun
    <3> QED BY <1>1, <3>3
  <2>2. CASE h > lo
    <3>1. h - 1 \in Nat /\ h - 1 < h /\ h - 1 >= lo
      BY <2>2
    <3>2. PICK g : IsRun(g, lo, h - 1, begin, entries)
      BY <1>1, <1>2, <3>1
    <3>3. PICK f :
            f = [i \in lo .. h |->
                  IF i = h THEN Execute(g[h - 1].store, CommandOf(entries[h])) ELSE g[i]]
      OBVIOUS
    <3>4. ASSUME NEW i \in lo .. h
          PROVE  f[i] = IF i = lo THEN [store |-> begin, result |-> <<>>]
                        ELSE Execute(f[i - 1].store, CommandOf(entries[i]))
      <4>1. CASE i = h
        <5>1. i # lo /\ h - 1 \in lo .. h /\ h - 1 # h
          BY <2>2, <3>1, <4>1
        <5>2. f[h - 1] = g[h - 1] /\ f[i] = Execute(g[h - 1].store, CommandOf(entries[h]))
          BY <3>3, <4>1, <5>1
        <5> QED BY <4>1, <5>1, <5>2
      <4>2. CASE i # h
        <5>1. i \in lo .. h - 1 /\ f[i] = g[i]
          BY <3>3, <4>2
        <5>2. g[i] = IF i = lo THEN [store |-> begin, result |-> <<>>]
                     ELSE Execute(g[i - 1].store, CommandOf(entries[i]))
          BY <3>2, <5>1 DEF IsRun
        <5>3. i # lo => i - 1 \in lo .. h /\ i - 1 # h
          BY <5>1
        <5>4. i # lo => f[i - 1] = g[i - 1]
          BY <3>3, <5>3
        <5> QED BY <5>1, <5>2, <5>4
      <4> QED BY <4>1, <4>2
    <3>5. IsRun(f, lo, h, begin, entries)
      BY <3>3, <3>4 DEF IsRun
    <3> QED BY <1>1, <3>5
  <2> QED BY <2>1, <2>2
<1>3. \A h \in Nat : h \in G
  BY <1>2, EveryIndex
<1> QED BY <1>1, <1>3

(* f executes the entries above k, up to m.                                *)
Executes(f, k, m, entries) ==
  \A i \in k + 1 .. m : f[i] = Execute(f[i - 1].store, CommandOf(entries[i]))

LEMMA RunExecutes ==
  ASSUME NEW f, NEW lo \in Nat, NEW hi \in Nat, NEW begin, NEW entries,
         IsRun(f, lo, hi, begin, entries), NEW k \in Nat, NEW m \in Nat, lo <= k, m <= hi
  PROVE  Executes(f, k, m, entries)
<1>1. ASSUME NEW i \in k + 1 .. m
      PROVE  i \in lo .. hi /\ i # lo
  OBVIOUS
<1> QED BY <1>1 DEF IsRun, Executes

(* Two machines that have met and execute the same commands stay together. *)
LEMMA ExecutionsAgree ==
  ASSUME NEW k \in Nat, NEW m \in Nat, NEW e, NEW f, Executes(f, k, m, e),
         NEW g, Executes(g, k, m, e), f[k].store = g[k].store
  PROVE  \A i \in k + 1 .. m : f[i] = g[i]
<1>1. PICK G : G = {i \in Nat : i \in k + 1 .. m => f[i] = g[i]}
  OBVIOUS
<1>2. ASSUME NEW i \in Nat, \A j \in Nat : j < i => j \in G
      PROVE  i \in G
  <2>1. CASE i \in k + 1 .. m
    <3>1. f[i] = Execute(f[i - 1].store, CommandOf(e[i]))
      BY <2>1 DEF Executes
    <3>2. g[i] = Execute(g[i - 1].store, CommandOf(e[i]))
      BY <2>1 DEF Executes
    <3>3. f[i - 1].store = g[i - 1].store
      <4>1. CASE i = k + 1
        <5>1. i - 1 = k
          BY <4>1
        <5> QED BY <5>1
      <4>2. CASE i # k + 1
        <5>1. i - 1 \in Nat /\ i - 1 < i /\ i - 1 \in k + 1 .. m
          BY <2>1, <4>2
        <5> QED BY <1>1, <1>2, <5>1
      <4> QED BY <4>1, <4>2
    <3> QED BY <1>1, <3>1, <3>2, <3>3
  <2>2. CASE i \notin k + 1 .. m
    BY <1>1, <2>2
  <2> QED BY <2>1, <2>2
<1>3. \A i \in Nat : i \in G
  BY <1>2, EveryIndex
<1>4. \A i \in k + 1 .. m : i \in Nat
  OBVIOUS
<1> QED BY <1>1, <1>3, <1>4

(* The replay of a log.                                                    *)
ReplayOf(entries) ==
  CHOOSE f : IsRun(f, 0, Len(entries), Fresh, entries)

LEMMA ReplayOfRuns ==
  ASSUME NEW entries \in Seq(Call)
  PROVE  /\ IsRun(ReplayOf(entries), 0, Len(entries), Fresh, entries)
         /\ ReplayOf(entries)[0] = [store |-> Fresh, result |-> <<>>]
<1>1. Len(entries) \in Nat
  OBVIOUS
<1>2. \E f : IsRun(f, 0, Len(entries), Fresh, entries)
  BY <1>1, RunExists
<1>3. IsRun(ReplayOf(entries), 0, Len(entries), Fresh, entries)
  BY <1>2 DEF ReplayOf
<1> QED BY <1>1, <1>3 DEF IsRun

LEMMA ReplayIs ==
  Replay = ReplayOf(committed)
BY DEF Replay, ReplayOf, IsRun

LEMMA ReplayGrows ==
  ASSUME NEW p \in Seq(Call), NEW q \in Seq(Call), IsPrefix(p, q)
  PROVE  \A i \in 0 .. Len(p) : ReplayOf(q)[i] = ReplayOf(p)[i]
<1>1. /\ IsRun(ReplayOf(p), 0, Len(p), Fresh, p) /\ IsRun(ReplayOf(q), 0, Len(q), Fresh, q)
      /\ ReplayOf(p)[0] = ReplayOf(q)[0]
  BY ReplayOfRuns
<1>2. Len(p) \in Nat /\ Len(q) \in Nat /\ Len(p) <= Len(q) /\ \A i \in 1 .. Len(p) : p[i] = q[i]
  BY PrefixFacts
<1>3. PICK f, g : f = ReplayOf(p) /\ g = ReplayOf(q)
  OBVIOUS
<1>4. \A i \in 0 + 1 .. Len(p) : f[i] = g[i]
  <2>1. PICK z \in Nat, n \in Nat, l \in Nat : z = 0 /\ n = Len(p) /\ l = Len(q)
    BY <1>2
  <2>2. IsRun(f, z, n, Fresh, p) /\ IsRun(g, z, l, Fresh, q)
    BY <1>1, <1>3, <2>1
  <2>3. Executes(f, z, n, p)
    BY <2>2, RunExecutes
  <2>4. Executes(g, z, n, q) /\ \A i \in z + 1 .. n : p[i] = q[i]
    BY <1>2, <2>1, <2>2, RunExecutes
  <2>5. Executes(g, z, n, p)
    BY <2>4 DEF Executes
  <2>6. f[z].store = g[z].store
    BY <1>1, <1>3, <2>1
  <2>7. \A i \in z + 1 .. n : f[i] = g[i]
    BY <2>3, <2>5, <2>6, ExecutionsAgree
  <2> QED BY <2>1, <2>7
<1>5. \A i \in 0 .. Len(p) : i = 0 \/ i \in 0 + 1 .. Len(p)
  BY <1>2
<1> QED BY <1>1, <1>3, <1>4, <1>5

------------------------------------------------------------------------------
(* What is applied is what is committed.                                   *)

MachinesOK ==
  \A n \in Node : applied[n] \in 0 .. Len(committed) /\ store[n] = Replay[applied[n]].store

Grows == committed \in Seq(Call) /\ committed' \in Seq(Call) /\ IsPrefix(committed, committed')

LEMMA GrowsFacts ==
  ASSUME Grows
  PROVE  /\ Len(committed) \in Nat /\ Len(committed') \in Nat /\ Len(committed) <= Len(committed')
         /\ \A i \in 1 .. Len(committed) : committed'[i] = committed[i]
         /\ \A i \in 0 .. Len(committed) : Replay'[i] = Replay[i]
         /\ \A i \in 0 .. Len(committed) : i \in 0 .. Len(committed')
<1>1. PICK p \in Seq(Call), q \in Seq(Call) : p = committed /\ q = committed' /\ IsPrefix(p, q)
  BY DEF Grows
<1>2. Replay = ReplayOf(p) /\ Replay' = ReplayOf(q)
  BY <1>1, ReplayIs DEF Replay, ReplayOf, IsRun
<1>3. \A i \in 0 .. Len(p) : ReplayOf(q)[i] = ReplayOf(p)[i]
  BY <1>1, ReplayGrows
<1>4. Len(p) \in Nat /\ Len(q) \in Nat /\ Len(p) <= Len(q) /\ \A i \in 1 .. Len(p) : p[i] = q[i]
  BY <1>1, PrefixFacts
<1>5. \A i \in 0 .. Len(p) : i \in 0 .. Len(q)
  BY <1>4
<1> QED BY <1>1, <1>2, <1>3, <1>4, <1>5

LEMMA SameGrows ==
  ASSUME StateType, committed' = committed
  PROVE  Grows
BY DEF StateType, Grows, IsPrefix

(* An answer that tells what the caller's own entry gives.                 *)
Tells(a) ==
  \E i \in 1 .. Len(committed) :
    committed[i] = a.to.call /\ a.reply.result = Replay[i].result

LEMMA TellsStays ==
  ASSUME Grows, NEW a, Tells(a)
  PROVE  Tells(a)'
<1>1. PICK i \in 1 .. Len(committed) : committed[i] = a.to.call /\ a.reply.result = Replay[i].result
  BY DEF Tells
<1>2. i \in 0 .. Len(committed) /\ i \in 1 .. Len(committed')
  BY GrowsFacts
<1>3. committed'[i] = a.to.call /\ a.reply.result = Replay'[i].result
  BY <1>1, <1>2, GrowsFacts
<1> QED BY <1>2, <1>3 DEF Tells

LEMMA ApplyKeeps ==
  ASSUME StateType, MachinesOK, Grows, NEW n \in Node, NEW entries,
         NEW to \in applied[n] .. Len(committed'), ApplyUpTo(n, entries, to),
         \A i \in 1 .. to : entries[i] = committed'[i]
  PROVE  /\ MachinesOK'
         /\ ~WrongAnswers => \A a \in replies' : a \in replies \/ Tells(a)'
<1>1. PICK q \in Seq(Call) : q = committed'
  BY DEF Grows
<1>2. PICK k \in Nat, l \in Nat : k = applied[n] /\ l = Len(q) /\ to \in Nat /\ k <= to /\ to <= l
  <2>1. applied[n] \in Nat /\ Len(q) \in Nat
    BY DEF StateType
  <2> QED BY <1>1, <2>1
<1>3. PICK g : g = ReplayOf(q) /\ IsRun(g, 0, l, Fresh, q) /\ g = Replay'
  <2>1. Replay' = ReplayOf(q)
    BY <1>1 DEF Replay, ReplayOf, IsRun
  <2>2. IsRun(ReplayOf(q), 0, Len(q), Fresh, q)
    BY ReplayOfRuns
  <2> QED BY <1>2, <2>1, <2>2
<1>4. PICK f : f = RunOf(n, entries, to)
  OBVIOUS
<1>5. IsRun(f, k, to, store[n], entries)
  <2>1. \E h : IsRun(h, k, to, store[n], entries)
    BY <1>2, RunExists
  <2>2. RunOf(n, entries, to) = CHOOSE h : IsRun(h, k, to, store[n], entries)
    BY <1>2 DEF RunOf, IsRun
  <2> QED BY <1>4, <2>1, <2>2
<1>6. f[k].store = g[k].store
  <2>1. f[k].store = store[n]
    BY <1>2, <1>5 DEF IsRun
  <2>2. store[n] = Replay[k].store /\ k \in 0 .. Len(committed)
    BY <1>2 DEF MachinesOK
  <2>3. Replay'[k] = Replay[k]
    BY <2>2, GrowsFacts
  <2> QED BY <1>3, <2>1, <2>2, <2>3
<1>7. \A i \in k + 1 .. to : f[i] = g[i]
  <2>1. PICK z \in Nat : z = 0
    OBVIOUS
  <2>2. IsRun(g, z, l, Fresh, q) /\ z <= k /\ k <= k /\ to <= to /\ to <= l
    BY <1>2, <1>3, <2>1
  <2>3. Executes(f, k, to, entries)
    BY <1>2, <1>5, <2>2, RunExecutes
  <2>4. Executes(g, k, to, q)
    BY <1>2, <2>2, RunExecutes
  <2>5. \A i \in k + 1 .. to : entries[i] = q[i]
    BY <1>1, <1>2
  <2>6. Executes(f, k, to, q)
    BY <2>3, <2>5 DEF Executes
  <2> QED BY <1>2, <1>6, <2>4, <2>6, ExecutionsAgree
<1>8. /\ applied' = [applied EXCEPT ![n] = to]
      /\ store' = [store EXCEPT ![n] = f[to].store]
  BY <1>4 DEF ApplyUpTo
<1>9. f[to].store = g[to].store
  <2>1. to = k \/ to \in k + 1 .. to
    BY <1>2
  <2> QED BY <1>6, <1>7, <2>1
<1>10. MachinesOK'
  <2>1. ASSUME NEW m \in Node
        PROVE  applied'[m] \in 0 .. Len(q) /\ store'[m] = g[applied'[m]].store
    <3>1. CASE m = n
      <4>1. applied'[m] = to /\ store'[m] = f[to].store
        BY <1>8, <3>1 DEF StateType
      <4> QED BY <1>2, <1>9, <4>1
    <3>2. CASE m # n
      <4>1. applied'[m] = applied[m] /\ store'[m] = store[m]
        BY <1>8, <3>2 DEF StateType
      <4>2. /\ applied[m] \in 0 .. Len(committed) /\ store[m] = Replay[applied[m]].store
        BY DEF MachinesOK
      <4>3. PICK j \in 0 .. Len(committed) : j = applied[m]
        BY <4>2
      <4>4. j \in 0 .. Len(q) /\ g[j] = Replay[j]
        BY <1>1, <1>3, <4>3, GrowsFacts
      <4> QED BY <4>1, <4>2, <4>3, <4>4
    <3> QED BY <3>1, <3>2
  <2> QED BY <1>1, <1>3, <2>1 DEF MachinesOK
<1>11. ASSUME ~WrongAnswers, NEW a \in replies', a \notin replies
       PROVE  Tells(a)'
  <2>1. PICK i \in Told(n, entries, to) :
          a = [to |-> pending[n][i], reply |-> Ok(ResultOf(f[i - 1], f[i]))]
    BY <1>4, <1>11 DEF ApplyUpTo, Answered
  <2>2. i \in k + 1 .. to /\ pending[n][i].call = entries[i]
    BY <1>2, <1>11, <2>1 DEF Told, Served
  <2>3. i \in 1 .. to /\ i \in 1 .. Len(q)
    BY <1>2, <2>2
  <2>4. q[i] = a.to.call
    BY <1>1, <2>1, <2>2, <2>3
  <2>5. a.reply.result = g[i].result
    BY <1>7, <2>1, <2>2 DEF Ok, ResultOf
  <2> QED BY <1>1, <1>3, <2>3, <2>4, <2>5 DEF Tells
<1> QED BY <1>10, <1>11

------------------------------------------------------------------------------
(* Types.                                                                  *)

RetriesOK == retries \in [Caller -> 0 .. MaxRetries]

LEMMA TypeParts ==
  ASSUME StateType
  PROVE  TypeOK <=> RetriesOK /\ MachinesOK
BY DEF StateType, TypeOK, RetriesOK, MachinesOK

LEMMA MachinesRest ==
  ASSUME StateType, MachinesOK, committed' = committed, applied' = applied, store' = store
  PROVE  Grows /\ MachinesOK'
<1>1. Grows
  BY SameGrows
<1>2. \A i \in 0 .. Len(committed) : Replay'[i] = Replay[i]
  BY <1>1, GrowsFacts
<1> QED BY <1>1, <1>2 DEF MachinesOK

LEMMA CallersType ==
  ASSUME StateType, MachinesOK, RetriesOK, NEW c \in Caller,
         Begin(c) \/ RedirectLimit(c) \/ Connect(c) \/ ReceiveReply(c) \/ RpcError(c)
  PROVE  Grows /\ MachinesOK' /\ RetriesOK' /\ committed' = committed
<1>1. committed' = committed /\ applied' = applied /\ store' = store
  BY DEF Begin, RedirectLimit, Connect, ReceiveReply, RpcError, machines
<1>2. Grows /\ MachinesOK'
  BY <1>1, MachinesRest
<1>3. MaxRetries \in Nat
  BY ClientAssumption
<1>7. RetriesOK'
  <2>1. CASE Begin(c)
    BY <1>3, <2>1 DEF Begin, RetriesOK
  <2>2. CASE Connect(c)
    <3>1. retries' = [retries EXCEPT ![c] = @ - 1] /\ retries[c] > 0
      BY <2>2 DEF Connect
    <3>2. retries[c] \in 0 .. MaxRetries /\ retries[c] - 1 \in 0 .. MaxRetries
      BY <1>3, <3>1 DEF RetriesOK
    <3> QED BY <3>1, <3>2 DEF RetriesOK
  <2>3. CASE RedirectLimit(c) \/ ReceiveReply(c) \/ RpcError(c)
    BY <2>3 DEF RedirectLimit, ReceiveReply, RpcError, RetriesOK
  <2> QED BY <2>1, <2>2, <2>3
<1> QED BY <1>1, <1>2, <1>7

LEMMA HandleType ==
  ASSUME StateType, MachinesOK, NEW n \in Node, NEW r \in sent, HandleClientRequest(n, r)
  PROVE  Grows /\ MachinesOK'
<1>1. committed' = committed /\ applied' = applied /\ store' = store
  BY DEF HandleClientRequest, machines
<1> QED BY <1>1, MachinesRest

(* A step of a node applies what is committed after it, or nothing.        *)
Applies(n) ==
  \E to \in applied[n] .. Len(committed') : \E entries :
    ApplyUpTo(n, entries, to) /\ \A i \in 1 .. to : entries[i] = committed'[i]

LEMMA CommitApplies ==
  ASSUME StateType, NEW n \in Node, Commit(n)
  PROVE  Grows /\ Applies(n)
<1>1. PICK q \in Seq(Call), p \in Seq(Call) : q = log[n] /\ p = committed
  BY DEF StateType
<1>0. PICK i \in applied[n] + 1 .. Len(q) :
        /\ ApplyUpTo(n, SubSeq(q, 1, i), i)
        /\ \/ IsPrefix(SubSeq(q, 1, i), p) /\ committed' = p
           \/ IsStrictPrefix(p, SubSeq(q, 1, i)) /\ committed' = SubSeq(q, 1, i)
  BY <1>1 DEF Commit
<1>2. PICK mine :
        /\ mine = SubSeq(q, 1, i) /\ ApplyUpTo(n, mine, i)
        /\ \/ IsPrefix(mine, p) /\ committed' = p
           \/ IsStrictPrefix(p, mine) /\ committed' = mine
  BY <1>0
<1>3. i \in Nat /\ i \in 0 .. Len(q) /\ applied[n] \in Nat /\ applied[n] <= i
  <2>1. applied[n] \in Nat /\ Len(q) \in Nat
    BY DEF StateType
  <2> QED BY <2>1
<1>4. mine \in Seq(Call) /\ Len(mine) = i
  BY <1>2, <1>3, CutFacts
<1>5. CASE IsPrefix(mine, p) /\ committed' = p
  <2>1. Grows
    BY <1>1, <1>5, SameGrows
  <2>2. Len(mine) <= Len(p) /\ \A j \in 1 .. Len(mine) : mine[j] = p[j]
    BY <1>4, <1>5, PrefixFacts
  <2>3. i \in applied[n] .. Len(p)
    <3>1. Len(p) \in Nat
      OBVIOUS
    <3> QED BY <1>3, <1>4, <2>2, <3>1
  <2>4. \A j \in 1 .. i : mine[j] = committed'[j]
    BY <1>4, <1>5, <2>2
  <2>5. i \in applied[n] .. Len(committed')
    BY <1>5, <2>3
  <2> QED BY <1>2, <2>1, <2>4, <2>5 DEF Applies
<1>6. CASE IsStrictPrefix(p, mine) /\ committed' = mine
  <2>1. Grows
    BY <1>1, <1>4, <1>6 DEF Grows, IsStrictPrefix
  <2>2. i \in applied[n] .. Len(mine)
    BY <1>3, <1>4
  <2> QED BY <1>2, <1>6, <2>1, <2>2 DEF Applies
<1> QED BY <1>2, <1>5, <1>6

LEMMA HearApplies ==
  ASSUME StateType, NEW n \in Node, Hear(n)
  PROVE  Grows /\ Applies(n)
<1>1. committed' = committed
  BY DEF Hear
<1>2. PICK to \in applied[n] .. Len(committed) : ApplyUpTo(n, committed, to)
  BY DEF Hear
<1> QED BY <1>1, <1>2, SameGrows DEF Applies

LEMMA AppliesKeeps ==
  ASSUME StateType, MachinesOK, Grows, NEW n \in Node, Applies(n)
  PROVE  /\ MachinesOK'
         /\ ~WrongAnswers => \A a \in replies' : a \in replies \/ Tells(a)'
<1>1. PICK to \in applied[n] .. Len(committed') : \E entries :
        ApplyUpTo(n, entries, to) /\ \A i \in 1 .. to : entries[i] = committed'[i]
  BY DEF Applies
<1>2. PICK entries : ApplyUpTo(n, entries, to) /\ \A i \in 1 .. to : entries[i] = committed'[i]
  BY <1>1
<1> QED BY <1>2, ApplyKeeps

LEMMA OfficeType ==
  ASSUME StateType, MachinesOK, NEW n \in Node, StepDown(n) \/ Elect(n)
  PROVE  Grows /\ MachinesOK'
<1>1. committed' = committed /\ applied' = applied /\ store' = store
  BY DEF StepDown, Elect, machines
<1> QED BY <1>1, MachinesRest

LEMMA CrashType ==
  ASSUME StateType, MachinesOK, NEW n \in Node, Crash(n)
  PROVE  Grows /\ MachinesOK'
<1>1. /\ committed' = committed /\ applied' = [applied EXCEPT ![n] = 0]
      /\ store' = [store EXCEPT ![n] = Fresh]
  BY DEF Crash, ResetStore
<1>2. Grows /\ Len(committed) \in Nat
  BY <1>1, SameGrows, GrowsFacts
<1>3. \A i \in 0 .. Len(committed) : Replay'[i] = Replay[i]
  BY <1>2, GrowsFacts
<1>4. Replay[0].store = Fresh
  BY ReplayIs, ReplayOfRuns DEF StateType
<1>5. ASSUME NEW m \in Node
      PROVE  applied'[m] \in 0 .. Len(committed) /\ store'[m] = Replay'[applied'[m]].store
  <2>1. CASE m = n
    <3>1. applied'[m] = 0 /\ store'[m] = Fresh /\ 0 \in 0 .. Len(committed)
      BY <1>1, <1>2, <2>1 DEF StateType
    <3> QED BY <1>3, <1>4, <3>1
  <2>2. CASE m # n
    <3>1. applied'[m] = applied[m] /\ store'[m] = store[m]
      BY <1>1, <2>2 DEF StateType
    <3> QED BY <1>3, <3>1 DEF MachinesOK
  <2> QED BY <2>1, <2>2
<1> QED BY <1>1, <1>2, <1>5 DEF MachinesOK

LEMMA NextKeepsTypes ==
  CallsInv /\ TypeOK /\ [Next]_vars => Grows /\ TypeOK'
<1> SUFFICES ASSUME CallsInv, TypeOK, [Next]_vars
             PROVE  Grows /\ TypeOK'
  OBVIOUS
<1>1. StateType /\ StateType' /\ MachinesOK /\ RetriesOK
  BY NextKeepsCalls, TypeParts DEF CallsInv
<1>2. (RetriesOK /\ MachinesOK => TypeOK)'
  BY <1>1 DEF StateType, TypeOK, RetriesOK, MachinesOK
<1>3. ASSUME NEW c \in Caller,
             Begin(c) \/ RedirectLimit(c) \/ Connect(c) \/ ReceiveReply(c) \/ RpcError(c)
      PROVE  Grows /\ TypeOK'
  BY <1>1, <1>2, <1>3, CallersType
<1>4. ASSUME NEW n \in Node, NEW r \in sent, HandleClientRequest(n, r)
      PROVE  Grows /\ TypeOK'
  <2>1. RetriesOK'
    BY <1>1, <1>4 DEF HandleClientRequest, loop, RetriesOK
  <2> QED BY <1>1, <1>2, <1>4, <2>1, HandleType
<1>5. ASSUME NEW n \in Node, Commit(n) \/ Hear(n)
      PROVE  Grows /\ TypeOK'
  <2>1. RetriesOK'
    BY <1>1, <1>5 DEF Commit, Hear, loop, RetriesOK
  <2>2. Grows /\ Applies(n)
    BY <1>1, <1>5, CommitApplies, HearApplies
  <2> QED BY <1>1, <1>2, <2>1, <2>2, AppliesKeeps
<1>6. ASSUME NEW n \in Node, StepDown(n) \/ Elect(n) \/ Crash(n)
      PROVE  Grows /\ TypeOK'
  <2>1. RetriesOK'
    BY <1>1, <1>6 DEF StepDown, Elect, Crash, loop, RetriesOK
  <2> QED BY <1>1, <1>2, <1>6, <2>1, OfficeType, CrashType
<1>7. CASE UNCHANGED vars
  <2>1. RetriesOK' /\ committed' = committed /\ applied' = applied /\ store' = store
    BY <1>1, <1>7 DEF vars, machines, loop, RetriesOK
  <2> QED BY <1>1, <1>2, <2>1, MachinesRest
<1> QED BY <1>3, <1>4, <1>5, <1>6, <1>7 DEF Next

------------------------------------------------------------------------------
(* Answers.                                                                *)

(* f is the end of c's call, with an answer that tells what its entry gives.*)
Ends(f, c) ==
  /\ phase[c] # "idle" /\ f.call = CallOf(c) /\ f.since = since[c]
  /\ \E a \in replies : a.reply.kind = "Ok" /\ a.to.call = CallOf(c) /\ f.result = a.reply.result

(* What a step may do to answers, calls and ends.                          *)
Answering ==
  /\ \A a \in replies' : a \in replies \/ a.reply.kind # "Ok" \/ Tells(a)'
  /\ \A f \in finished' : f \in finished \/ f.outcome # "ok" \/ \E c \in Caller : Ends(f, c)
  /\ \A c \in Caller :
       \/ phase'[c] = "idle"
       \/ phase[c] # "idle" /\ calls'[c] = calls[c] /\ since'[c] = since[c]
       \/ /\ since'[c] = Len(committed) /\ committed' = committed
          /\ \A i \in 1 .. Len(committed) : committed[i] # <<c, calls'[c]>>

LEMMA AnsweringKeeps ==
  ASSUME StateType, StateType', Grows, AnswersInv, Answering
  PROVE  AnswersInv'
<1>1. /\ Len(committed) \in Nat /\ Len(committed') \in Nat /\ Len(committed) <= Len(committed')
      /\ \A i \in 1 .. Len(committed) : committed'[i] = committed[i]
      /\ \A i \in 0 .. Len(committed) : Replay'[i] = Replay[i]
  BY GrowsFacts
<1>2. AnswersTold'
  <2>1. ASSUME NEW a \in replies', a.reply.kind = "Ok"
        PROVE  Tells(a)'
    <3>1. CASE a \in replies
      <4>1. Tells(a)
        BY <2>1, <3>1 DEF AnswersInv, AnswersTold, Tells
      <4> QED BY <4>1, TellsStays
    <3>2. CASE a \notin replies
      BY <2>1, <3>2 DEF Answering
    <3> QED BY <3>1, <3>2
  <2> QED BY <2>1 DEF AnswersTold, Tells
<1>3. CallsLater'
  <2>1. ASSUME NEW c \in Caller, phase'[c] # "idle"
        PROVE  /\ since'[c] <= Len(committed')
               /\ \A i \in 1 .. since'[c] : committed'[i] # <<c, calls'[c]>>
    <3>1. CASE phase[c] # "idle" /\ calls'[c] = calls[c] /\ since'[c] = since[c]
      <4>1. /\ since[c] <= Len(committed) /\ since[c] \in Nat
            /\ \A i \in 1 .. since[c] : committed[i] # <<c, calls[c]>>
        BY <3>1 DEF AnswersInv, CallsLater, StateType, CallOf
      <4>2. \A i \in 1 .. since[c] : i \in 1 .. Len(committed)
        BY <1>1, <4>1
      <4>3. since[c] <= Len(committed')
        BY <1>1, <4>1
      <4> QED BY <1>1, <3>1, <4>1, <4>2, <4>3
    <3>2. CASE /\ since'[c] = Len(committed) /\ committed' = committed
               /\ \A i \in 1 .. Len(committed) : committed[i] # <<c, calls'[c]>>
      BY <1>1, <3>2
    <3> QED BY <2>1, <3>1, <3>2 DEF Answering
  <2>2. \A f \in finished' : f.outcome = "ok" => f.since \in Nat
    BY DEF AnswersInv, CallsLater, Answering, Ends, StateType
  <2> QED BY <2>1, <2>2 DEF CallsLater, CallOf
<1>4. Linearizable'
  <2>1. ASSUME NEW f \in finished', f.outcome = "ok"
        PROVE  \E i \in f.since + 1 .. Len(committed) :
                 committed[i] = f.call /\ f.result = Replay[i].result
    <3>1. CASE f \in finished
      BY <2>1, <3>1 DEF AnswersInv, Linearizable
    <3>2. ASSUME NEW c \in Caller, Ends(f, c)
          PROVE  \E i \in f.since + 1 .. Len(committed) :
                   committed[i] = f.call /\ f.result = Replay[i].result
      <4>1. PICK i \in 1 .. Len(committed) : committed[i] = f.call /\ f.result = Replay[i].result
        BY <3>2 DEF Ends, AnswersInv, AnswersTold
      <4>2. \A j \in 1 .. since[c] : committed[j] # f.call
        BY <3>2 DEF Ends, AnswersInv, CallsLater
      <4>3. f.since = since[c] /\ since[c] \in Nat
        BY <3>2 DEF Ends, StateType
      <4>4. i \notin 1 .. since[c]
        BY <4>1, <4>2
      <4>5. i \in f.since + 1 .. Len(committed)
        BY <1>1, <4>3, <4>4
      <4> QED BY <4>1, <4>5
    <3> QED BY <2>1, <3>1, <3>2 DEF Answering
  <2>2. ASSUME NEW f \in finished', f.outcome = "ok"
        PROVE  \E i \in f.since + 1 .. Len(committed') :
                 committed'[i] = f.call /\ f.result = Replay'[i].result
    <3>1. PICK i \in f.since + 1 .. Len(committed) :
                 committed[i] = f.call /\ f.result = Replay[i].result
      BY <2>1, <2>2
    <3>2. f.since \in Nat
      BY <1>3, <2>2 DEF CallsLater
    <3>3. i \in 1 .. Len(committed) /\ i \in 0 .. Len(committed)
          /\ i \in f.since + 1 .. Len(committed')
      BY <1>1, <3>2
    <3> QED BY <1>1, <3>1, <3>3
  <2> QED BY <2>2 DEF Linearizable
<1> QED BY <1>2, <1>3, <1>4 DEF AnswersInv

(* A step that answers no caller and begins no call.                       *)
LEMMA RestAnswers ==
  ASSUME \A a \in replies' : a \in replies \/ a.reply.kind # "Ok" \/ Tells(a)',
         finished' = finished, UNCHANGED loop
  PROVE  Answering
BY DEF loop, Answering

LEMMA EndAnswers ==
  ASSUME StateType, NEW c \in Caller, phase[c] # "idle", NEW outcome, NEW text,
         End(c, outcome, text), replies' \subseteq replies, calls' = calls, since' = since,
         outcome = "ok" => \E a \in replies :
           a.reply.kind = "Ok" /\ a.to.call = CallOf(c) /\ text = a.reply.result
  PROVE  Answering
<1>1. ASSUME NEW f \in finished', f \notin finished, f.outcome = "ok"
      PROVE  Ends(f, c)
  <2>1. f = [call |-> CallOf(c), since |-> since[c], outcome |-> outcome, result |-> text]
    BY <1>1 DEF End
  <2>2. /\ f.call = CallOf(c) /\ f.since = since[c] /\ f.result = text /\ outcome = "ok"
    BY <1>1, <2>1
  <2> QED BY <2>2 DEF Ends
<1>2. \A d \in Caller : phase'[d] = "idle" \/ phase'[d] = phase[d]
  BY DEF End, StateType
<1>3. \A d \in Caller : phase'[d] = "idle" \/ phase[d] # "idle"
  BY <1>2
<1> QED BY <1>1, <1>3 DEF Answering

LEMMA BeginAnswers ==
  ASSUME CallsInv, CallsInv', NEW c \in Caller, Begin(c)
  PROVE  Answering
<1>1. /\ committed' = committed /\ replies' = replies /\ finished' = finished
      /\ phase' = [phase EXCEPT ![c] = "trying"]
      /\ calls' = [calls EXCEPT ![c] = @ + 1] /\ since' = [since EXCEPT ![c] = Len(committed)]
  BY DEF Begin
<1>2. StateType
  BY DEF CallsInv
<1>3. phase'[c] = "trying" /\ since'[c] = Len(committed)
  BY <1>1, <1>2 DEF StateType
<1>4. \A i \in 1 .. Len(committed) : committed[i] # <<c, calls'[c]>>
  <2>1. (~Entered(CallOf(c)))'
    BY <1>3 DEF CallsInv, TryingFree, Free
  <2> QED BY <1>1, <2>1 DEF Entered, Logs, CallOf
<1>5. ASSUME NEW d \in Caller, d # c
      PROVE  phase'[d] = phase[d] /\ calls'[d] = calls[d] /\ since'[d] = since[d]
  BY <1>1, <1>2, <1>5 DEF StateType
<1>6. ASSUME NEW d \in Caller
      PROVE  \/ phase'[d] = "idle"
             \/ phase[d] # "idle" /\ calls'[d] = calls[d] /\ since'[d] = since[d]
             \/ /\ since'[d] = Len(committed) /\ committed' = committed
                /\ \A i \in 1 .. Len(committed) : committed[i] # <<d, calls'[d]>>
  <2>1. CASE d = c
    BY <1>1, <1>3, <1>4, <2>1
  <2>2. CASE d # c
    BY <1>5, <2>2
  <2> QED BY <2>1, <2>2
<1> QED BY <1>1, <1>6 DEF Answering

LEMMA CallersAnswer ==
  ASSUME StateType, NEW c \in Caller,
         RedirectLimit(c) \/ Connect(c) \/ ReceiveReply(c) \/ RpcError(c)
  PROVE  Answering
<1>1. CASE RedirectLimit(c)
  <2>1. phase[c] # "idle" /\ End(c, "refused", <<>>) /\ UNCHANGED <<replies, calls, since>>
    BY <1>1 DEF RedirectLimit
  <2> QED BY <2>1, EndAnswers
<1>2. CASE RpcError(c)
  <2>1. /\ phase[c] # "idle" /\ End(c, "error", <<>>) /\ UNCHANGED <<calls, since>>
        /\ replies' \subseteq replies
    BY <1>2 DEF RpcError, Fail, RepliesToOthers
  <2> QED BY <2>1, EndAnswers
<1>3. CASE Connect(c)
  <2>1. phase[c] # "idle" /\ UNCHANGED <<replies, calls, since>>
    BY <1>3 DEF Connect
  <2>2. CASE End(c, "refused", <<>>)
    BY <2>1, <2>2, EndAnswers
  <2>3. CASE phase' = [phase EXCEPT ![c] = "waiting"] /\ finished' = finished
    <3>1. \A d \in Caller : phase'[d] = "idle" \/ phase[d] # "idle"
      BY <2>1, <2>3 DEF StateType
    <3> QED BY <2>1, <2>3, <3>1 DEF Answering
  <2> QED BY <1>3, <2>2, <2>3 DEF Connect
<1>4. CASE ReceiveReply(c)
  <2>1. phase[c] # "idle" /\ UNCHANGED <<calls, since>>
    BY <1>4 DEF ReceiveReply
  <2>2. PICK r \in replies :
          /\ r.to = Request(c) /\ replies' = replies \ {r}
          /\ \/ r.reply.kind = "Ok" /\ End(c, "ok", r.reply.result)
             \/ phase' = [phase EXCEPT ![c] = "trying"] /\ finished' = finished
             \/ End(c, "refused", <<>>)
             \/ End(c, "error", <<>>)
    BY <1>4 DEF ReceiveReply
  <2>3. r.to.call = CallOf(c) /\ replies' \subseteq replies
    BY <2>2 DEF Request
  <2>4. CASE r.reply.kind = "Ok" /\ End(c, "ok", r.reply.result)
    BY <2>1, <2>3, <2>4, EndAnswers
  <2>5. CASE phase' = [phase EXCEPT ![c] = "trying"] /\ finished' = finished
    <3>1. \A d \in Caller : phase'[d] = "idle" \/ phase[d] # "idle"
      BY <2>1, <2>5 DEF StateType
    <3> QED BY <2>1, <2>3, <2>5, <3>1 DEF Answering
  <2>6. CASE End(c, "refused", <<>>)
    BY <2>1, <2>3, <2>6, EndAnswers
  <2>7. CASE End(c, "error", <<>>)
    BY <2>1, <2>3, <2>7, EndAnswers
  <2> QED BY <2>2, <2>4, <2>5, <2>6, <2>7
<1> QED BY <1>1, <1>2, <1>3, <1>4

LEMMA NodesAnswer ==
  ASSUME ~WrongAnswers, CallsInv, TypeOK, NEW n \in Node,
         \/ \E r \in sent : HandleClientRequest(n, r)
         \/ Commit(n) \/ Hear(n) \/ StepDown(n) \/ Elect(n) \/ Crash(n)
  PROVE  Answering
<1>1. StateType /\ MachinesOK
  BY TypeParts DEF CallsInv
<1>2. ASSUME NEW r \in sent, HandleClientRequest(n, r)
      PROVE  Answering
  <2>1. finished' = finished /\ UNCHANGED loop
    BY <1>2 DEF HandleClientRequest
  <2>2. \A a \in replies' : a \in replies \/ a.reply.kind # "Ok"
    BY <1>2 DEF HandleClientRequest, Reply, Answered, NotLeader, Internal
  <2> QED BY <2>1, <2>2, RestAnswers
<1>3. CASE Commit(n) \/ Hear(n)
  <2>1. finished' = finished /\ UNCHANGED loop
    BY <1>3 DEF Commit, Hear
  <2>2. Grows /\ Applies(n)
    BY <1>1, <1>3, CommitApplies, HearApplies
  <2>3. \A a \in replies' : a \in replies \/ Tells(a)'
    BY <1>1, <2>2, AppliesKeeps
  <2> QED BY <2>1, <2>3, RestAnswers
<1>4. CASE StepDown(n) \/ Elect(n) \/ Crash(n)
  <2>1. finished' = finished /\ UNCHANGED loop /\ replies' = replies
    BY <1>4 DEF StepDown, Elect, Crash
  <2> QED BY <2>1, RestAnswers
<1> QED BY <1>2, <1>3, <1>4

LEMMA NextKeepsAnswers ==
  ~WrongAnswers /\ CallsInv /\ TypeOK /\ AnswersInv /\ [Next]_vars => AnswersInv'
<1> SUFFICES ASSUME ~WrongAnswers, CallsInv, TypeOK, AnswersInv, [Next]_vars
             PROVE  AnswersInv'
  OBVIOUS
<1>1. Grows /\ CallsInv' /\ StateType /\ StateType'
  BY NextKeepsCalls, NextKeepsTypes DEF CallsInv
<1>2. ASSUME NEW c \in Caller, Begin(c)
      PROVE  Answering
  BY <1>1, <1>2, BeginAnswers
<1>3. ASSUME NEW c \in Caller, RedirectLimit(c) \/ Connect(c) \/ ReceiveReply(c) \/ RpcError(c)
      PROVE  Answering
  BY <1>1, <1>3, CallersAnswer
<1>4. ASSUME NEW n \in Node,
             \/ \E r \in sent : HandleClientRequest(n, r)
             \/ Commit(n) \/ Hear(n) \/ StepDown(n) \/ Elect(n) \/ Crash(n)
      PROVE  Answering
  BY <1>4, NodesAnswer
<1>5. ASSUME UNCHANGED vars
      PROVE  Answering
  <2>1. finished' = finished /\ UNCHANGED loop /\ replies' = replies
    BY <1>5 DEF vars
  <2> QED BY <2>1, RestAnswers
<1>6. Answering
  BY <1>2, <1>3, <1>4, <1>5 DEF Next
<1> QED BY <1>1, <1>6, AnsweringKeeps

LEMMA AnswersBegin ==
  Init => TypeOK /\ AnswersInv
<1> SUFFICES ASSUME Init
             PROVE  TypeOK /\ AnswersInv
  OBVIOUS
<1>1. StateType /\ committed = <<>> /\ Len(committed) = 0
  BY CallsBegin DEF CallsInv, Init
<1>2. committed \in Seq(Call)
  BY <1>1 DEF StateType
<1>3. Replay[0].store = Fresh
  <2>1. ReplayOf(committed)[0] = [store |-> Fresh, result |-> <<>>]
    BY <1>2, ReplayOfRuns
  <2> QED BY <2>1, ReplayIs
<1>4. MachinesOK /\ RetriesOK
  BY <1>1, <1>3, ClientAssumption DEF Init, MachinesOK, RetriesOK
<1>5. TypeOK
  BY <1>1, <1>4, TypeParts
<1>6. Linearizable /\ AnswersTold /\ CallsLater
  BY DEF Init, Linearizable, AnswersTold, CallsLater
<1> QED BY <1>5, <1>6 DEF AnswersInv

------------------------------------------------------------------------------
(* Every state machine is the replay of the committed entries it has       *)
(* applied, through elections, crashes and restarts; and callers and       *)
(* retries have the states the code gives them.                            *)
THEOREM ClientTypeCorrect ==
  Spec => []TypeOK
<1>1. Init => TypeOK
  BY AnswersBegin
<1>2. CallsInv /\ TypeOK /\ [Next]_vars => TypeOK'
  BY NextKeepsTypes
<1> QED BY <1>1, <1>2, CallsInvariant, PTL DEF Spec

(* Calls are linearizable, reads included: each answered call took effect  *)
(* at one place of the committed log, after all calls that had ended when  *)
(* it began, and its result is that of its command there, whatever the     *)
(* commands are; as long as a node answers a call only with its own entry's*)
(* result (run wrong_answer shows the other case).                         *)
THEOREM AnswersAreLinearizable ==
  ASSUME ~WrongAnswers
  PROVE  Spec => []Linearizable
<1>1. Init => AnswersInv
  BY AnswersBegin
<1>2. CallsInv /\ TypeOK /\ AnswersInv /\ [Next]_vars => AnswersInv'
  BY NextKeepsAnswers
<1>3. AnswersInv => Linearizable
  BY DEF AnswersInv
<1> QED BY <1>1, <1>2, <1>3, CallsInvariant, ClientTypeCorrect, PTL DEF Spec
=============================================================================
