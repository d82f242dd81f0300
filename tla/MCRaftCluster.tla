---------------------------- MODULE MCRaftCluster ----------------------------
(* Instances of RaftCluster for TLC.                                       *)
EXTENDS RaftRefinement, TLC

CONSTANTS
  FirstLeader,   \* the node LedInit and ForkInit make the leader of term 1
  SecondLeader   \* the node ForkInit makes the leader of term 2

(* Nodes with equal parts in a run are interchangeable: every property is  *)
(* a safety property.                                                      *)
FullSymmetry == Permutations(Node)

NodeSymmetry ==
  {f \in Permutations(Node) :
     \A part \in {{FirstLeader}, {SecondLeader}, Campaigner, Fragile} :
       {f[n] : n \in part} = part}

------------------------------------------------------------------------------
(* Reachable states to start longer runs from: nodes in the states s, the  *)
(* leaders of the terms 1, 2, ... with the waiting clients of their logs,  *)
(* what was sent and not lost on the way; nothing is committed.            *)
IsLeader(n, leaders) == \E term \in DOMAIN leaders : leaders[term] = n

Reached(s, leaders, sent) ==
  /\ hs = s /\ st = s
  /\ snapFile = [n \in Node |-> Nil] /\ up = [n \in Node |-> TRUE]
  /\ role = [n \in Node |-> IF IsLeader(n, leaders) THEN "Leader" ELSE "Follower"]
  /\ currentLeader = [n \in Node |-> IF IsLeader(n, leaders) THEN n ELSE Nil]
  /\ commitIndex = NoIndex /\ lastApplied = NoIndex /\ data = [n \in Node |-> <<>>]
  /\ pending = [n \in Node |-> {s[n].log[k] : k \in 2 .. Len(s[n].log)}]
  /\ snapQueue = NoIndex
  /\ nextIndex = [n \in Node |-> [p \in Node |->
                    IF IsLeader(n, leaders) /\ p # n THEN 1 ELSE 0]]
  /\ matchIndex = [n \in Node |-> NoIndex] /\ ballot = [n \in Node |-> Closed]
  /\ messages = sent /\ snapTasks = {}
  /\ elected = {<<term, leaders[term]>> : term \in DOMAIN leaders}
  /\ decided = {} /\ answered = {}
  /\ crashes = 0 /\ faults = 0 /\ ticks = 0

VotedFor(leader, term) == [FreshState EXCEPT !.currentTerm = term, !.votedFor = leader]

(* `voters` elected `leader`, whose state and log were empty then.         *)
ElectionMessages(leader, term, voters) ==
  LET request == RequestVote(leader, VotedFor(leader, term))
  IN  {request} \cup {RequestVoteReply(request, p, term, TRUE) : p \in voters \ {leader}}

(* FirstLeader has won term 1 with the votes of a bare majority, its first *)
(* heartbeats were lost and the other nodes know nothing of it yet.        *)
LedInit ==
  \E voters \in SUBSET Node :
    /\ FirstLeader \in voters /\ Cardinality(voters) = Majority
    /\ Reached([n \in Node |-> IF n \in voters THEN VotedFor(FirstLeader, 1) ELSE FreshState],
               <<FirstLeader>>,
               ElectionMessages(FirstLeader, 1, voters))

LedSpec == LedInit /\ [][Next]_vars

(* FirstLeader has won term 1 and accepted two requests, which it has sent *)
(* out; the others have then made SecondLeader the leader of term 2.       *)
ForkInit ==
  LET others == Node \ {FirstLeader}
      request(s) == PushEntry(s, CHOOSE v \in Value : TRUE)
      one == request(VotedFor(FirstLeader, 1))
      two == request(one)
      next == [p \in Node |-> 1]
  IN  Reached([n \in Node |-> IF n = FirstLeader THEN two ELSE VotedFor(SecondLeader, 2)],
              <<FirstLeader, SecondLeader>>,
              ElectionMessages(FirstLeader, 1, others \ {SecondLeader})
                \cup ElectionMessages(SecondLeader, 2, others)
                \cup Heartbeats(FirstLeader, one, next, 0)
                \cup Heartbeats(FirstLeader, two, next, 0))
==============================================================================
