------------------------ MODULE MembershipInvariants -------------------------
(***************************************************************************)
(* What makes the properties of Membership inductive: the types of what    *)
(* nodes hold and send, the votes, and, as long as there is at most one    *)
(* change, the configurations in use.                                      *)
(***************************************************************************)
EXTENDS Membership

------------------------------------------------------------------------------
(* Types.                                                                  *)

MessageOK(m) ==
  \/ /\ m.type = "RequestVote"
     /\ m.src \in Node /\ m.asked \subseteq Node \ {m.src} /\ m.term \in Nat
  \/ /\ m.type = "RequestVoteReply"
     /\ m.src \in Node /\ m.dst \in Node
     /\ m.term \in Nat /\ m.forTerm \in Nat /\ m.granted \in BOOLEAN
  \/ /\ m.type = "AppendEntries"
     /\ m.src \in Node /\ m.dst \in Node /\ m.dst # m.src
     /\ m.term \in Nat /\ m.prevIndex \in Nat /\ m.leaderCommit \in Nat
     /\ m.entries \in Seq(EntryType)
  \/ /\ m.type = "AppendEntriesResult"
     /\ m.src \in Node /\ m.dst \in Node /\ m.dst # m.src
     /\ m.term \in Nat /\ m.success \in BOOLEAN /\ m.lastLogIndex \in Nat

StateTypes ==
  /\ st \in [Node -> MemberState] /\ peers \in [Node -> SUBSET Node]
  /\ disk \in [Node -> File \cup {Nil}]

LinkTypes ==
  /\ clients \in [Node -> SUBSET Node] /\ connecting \in [Node -> SUBSET Node]
  /\ \A n \in Node : n \notin clients[n] /\ n \notin connecting[n]

ProgressTypes ==
  /\ commitIndex \in [Node -> Nat] /\ lastApplied \in [Node -> Nat]
  /\ DOMAIN known = Node

(* The maps of node n, match and next.                                     *)
MapsOK(n, match, next) ==
  /\ DOMAIN match \subseteq DOMAIN next /\ DOMAIN next \subseteq Node \ {n}
  /\ \A p \in DOMAIN next : next[p] \in Nat \ {0}

LeadershipTypes ==
  /\ DOMAIN nextIndex = Node /\ DOMAIN matchIndex = Node
  /\ \A n \in Node : MapsOK(n, matchIndex[n], nextIndex[n])

ProcessTypes ==
  /\ mode \in [Node -> {"down", "joining", "running"}]
  /\ offer \in [Node -> (SUBSET Node) \cup {Nil}]
  /\ \A n \in Node : offer[n] # Nil => mode[n] = "joining" /\ n \in offer[n]

RoleTypes ==
  /\ role \in [Node -> {"Follower", "Candidate", "Leader"}]
  /\ DOMAIN ballot = Node
  /\ changes \in Nat

TypeInv ==
  /\ StateTypes /\ LinkTypes /\ ProgressTypes /\ LeadershipTypes
  /\ ProcessTypes /\ RoleTypes
  /\ \A m \in messages : MessageOK(m)

------------------------------------------------------------------------------
(* Votes.                                                                  *)

VotesIn(ms) ==
  {<<m.src, m.forTerm, m.dst>> : m \in {r \in ms : r.type = "RequestVoteReply" /\ r.granted}}
  \cup {<<m.src, m.term, m.src>> : m \in {r \in ms : r.type = "RequestVote"}}

(* <<q, t, n>>: q has voted for n in term t.                               *)
Votes == VotesIn(messages)

OnDisk(n) == IF disk[n] = Nil THEN FreshState ELSE disk[n].state

(* Term and vote are on the disk as they are in memory, whatever writes    *)
(* failed.                                                                 *)
VotesSaved ==
  \A n \in Node : /\ OnDisk(n).currentTerm = st[n].currentTerm
                  /\ OnDisk(n).votedFor = st[n].votedFor

VotesKept ==
  \A v \in Votes :
    \/ st[v[1]].currentTerm > v[2]
    \/ st[v[1]].currentTerm = v[2] /\ st[v[1]].votedFor = v[3]

OneVote == \A v, w \in Votes : v[1] = w[1] /\ v[2] = w[2] => v[3] = w[3]

BallotsBacked ==
  \A n \in Node : ballot[n].open =>
    /\ mode[n] = "running"
    /\ \A q \in ballot[n].granted : <<q, st[n].currentTerm, n>> \in Votes

LeadersBacked ==
  \A e \in elected :
    /\ \A q \in e.votes : <<q, e.term, e.leader>> \in Votes
    /\ Cardinality(e.votes) >= QuorumOf(e.members)

VoteInv == VotesSaved /\ VotesKept /\ OneVote /\ BallotsBacked /\ LeadersBacked

(* Two leaders of a term have no voter in common, whatever the members of  *)
(* the cluster are and were: whoever votes, votes once per term.           *)
NoSharedVoter ==
  \A e, f \in elected :
    e.term = f.term /\ e.votes \cap f.votes # {} => e.leader = f.leader

------------------------------------------------------------------------------
(* Configurations.                                                         *)

(* The first change there can be.                                          *)
FirstChange ==
  {AddNode(p) : p \in Node \ Initial} \cup {RemoveNode(p) : p \in Initial \cap Leaver}

(* The configurations under the changes C.                                 *)
Configs(C) == {Initial} \cup {Changed(Initial, c) : c \in C}

Uses(entries, C) ==
  \A k \in 1 .. Len(entries) : entries[k].command \in Change => entries[k].command \in C

(* A node under the changes C: its configurations, in memory, on its disk  *)
(* and in the answer to its bootstrap, and its entries, here and there.    *)
(* Who runs is a member, or was one from the beginning.  A change of       *)
(* another node that n has applied is on its disk, and one that its peers  *)
(* show is on its disk as well.                                            *)
NodeUnder(n, C) ==
  /\ peers[n] \in Configs(C)
  /\ disk[n] # Nil => disk[n].peers \in Configs(C)
  /\ offer[n] # Nil => offer[n] \in Configs(C)
  /\ Uses(st[n].log, C) /\ Uses(OnDisk(n).log, C)
  /\ mode[n] = "running" => n \in peers[n] \cup Initial
  /\ mode[n] = "joining" => n \notin peers[n]
  /\ \A e \in known[n] : e.command \in C
  /\ \A c \in C : c.id # n =>
       /\ known[n] # {} =>
            /\ n \in Initial /\ disk[n] # Nil /\ Follows(disk[n].peers, c)
            /\ mode[n] = "running" => Follows(peers[n], c)
       /\ mode[n] = "running" /\ Follows(peers[n], c) =>
            disk[n] # Nil /\ Follows(disk[n].peers, c)

Under(C) ==
  /\ \A n \in Node : NodeUnder(n, C)
  /\ \A m \in messages : m.type = "AppendEntries" => Uses(m.entries, C)
  /\ \A e \in elected : e.members \in Configs(C)

(* The inductive invariant of at most one change.                          *)
ChangeInv ==
  \/ changes = 0 /\ Under({})
  \/ changes > 0 /\ \E c \in FirstChange : Under({c})

VotersMembers == \A e \in elected : e.votes \subseteq e.members

------------------------------------------------------------------------------
(* Where no member is removed, a candidate asks only members.              *)

(* The clients of a running node, and those that connect, are its peers';  *)
(* those of a node that is not running are of the configured peers.        *)
LinksMembers(n) ==
  clients[n] \cup connecting[n] \subseteq IF mode[n] = "running" THEN peers[n] ELSE Initial

AskedInTerm(n) ==
  {m \in messages : m.type = "RequestVote" /\ m.src = n /\ m.term = st[n].currentTerm}

AskedMembers(n) ==
  ballot[n].open => \A m \in AskedInTerm(n) : m.asked \subseteq peers[n]

(* m asked for the answer r.                                               *)
AsksFor(m, r) ==
  /\ m.type = "RequestVote" /\ m.src = r.dst /\ m.term = r.forTerm
  /\ r.src \in m.asked

RepliesAsked ==
  \A r \in messages : r.type = "RequestVoteReply" => \E m \in messages : AsksFor(m, r)

MembersAsked ==
  /\ RepliesAsked
  /\ VotersMembers
  /\ \A n \in Node : LinksMembers(n) /\ AskedMembers(n)
==============================================================================
