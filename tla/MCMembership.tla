----------------------------- MODULE MCMembership -----------------------------
(* Instances of Membership for TLC.                                        *)
EXTENDS Membership

CONSTANT FirstLeader   \* the node LedInit makes the leader of term 1

(* A reachable state to start from: FirstLeader has won term 1 with the    *)
(* votes of a bare majority of the configured members, its first           *)
(* heartbeats were lost, and the other pods have not started.              *)
LedInit ==
  \E voters \in SUBSET Initial :
    LET s(n) == IF n \in voters
                THEN [FreshState EXCEPT !.currentTerm = 1, !.votedFor = FirstLeader]
                ELSE FreshState
        request == RequestVoteOf(FirstLeader, s(FirstLeader), Initial \ {FirstLeader})
        others == Initial \ {FirstLeader}
        ForLeader(x, y) == [n \in Node |-> IF n = FirstLeader THEN x ELSE y]
    IN  /\ FirstLeader \in voters /\ Cardinality(voters) = QuorumOf(Initial)
        /\ st = [n \in Node |-> s(n)] /\ peers = [n \in Node |-> Initial]
        /\ disk = [n \in Node |-> IF n \in voters THEN [state |-> s(n), peers |-> Initial]
                                  ELSE Nil]
        /\ mode = [n \in Node |-> IF n \in Initial THEN "running" ELSE "down"]
        /\ clients = [n \in Node |-> IF n \in Initial THEN Initial \ {n} ELSE {}]
        /\ connecting = [n \in Node |-> {}]
        /\ role = ForLeader("Leader", "Follower")
        /\ commitIndex = [n \in Node |-> 0] /\ lastApplied = [n \in Node |-> 0]
        /\ nextIndex = ForLeader([p \in others |-> 1], <<>>)
        /\ matchIndex = ForLeader([p \in others |-> 0], <<>>)
        /\ ballot = [n \in Node |-> Closed]
        /\ offer = [n \in Node |-> Nil]
        /\ messages = {request} \cup
             {RequestVoteReply(request, p, 1, TRUE) : p \in voters \ {FirstLeader}}
        /\ elected = {[term |-> 1, leader |-> FirstLeader, votes |-> voters,
                       members |-> Initial]}
        /\ decided = {} /\ known = [n \in Node |-> {}]
        /\ changes = 0 /\ failures = 0 /\ ticks = 0

LedSpec == LedInit /\ [][Next]_vars
==============================================================================
