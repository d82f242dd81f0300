-------------------------- MODULE RaftSafetyProofs ---------------------------
(***************************************************************************)
(* Committed entries stay, for every number of nodes, terms, entries,      *)
(* crashes and failed writes: the rest of SafetyInv is kept by every step, *)
(* and what follows from it.  Last, that the cluster implements one        *)
(* replicated log.                                                         *)
(***************************************************************************)
EXTENDS RaftTurnProofs, RaftRefinement

------------------------------------------------------------------------------
(* What is chosen stays chosen.                                            *)

LEMMA ChosenStays ==
  ASSUME Known, Known', SafetyInv, NEW n \in Node, NodeTurn(n), NEW k, Chosen(k)
  PROVE  Chosen(k)'
<1>1. /\ MarksOK /\ Extends(Starts', Starts) /\ elected \subseteq elected'
      /\ Acks \subseteq Acks' /\ decided \subseteq decided'
  BY NextStarts, TurnGrows DEF SafetyInv
<1>2. PICK e \in decided' : EntryMark(e) = k
  BY <1>1 DEF Chosen
<1>3. k \in StoredMarks'
  BY <1>2 DEF StoredMarks
<1>4. ASSUME NEW q \in Node, k \in Evidence(q)
      PROVE  k \in Evidence(q)'
  <2>1. CASE k \in Acked(q)
    <3>1. PICK r \in Acks : /\ r.src = q /\ r.term = k[2] /\ IsMark(k)
                            /\ k[1] > Starts[r.term].index /\ k[1] <= r.lastLogIndex
      BY <1>1, <2>1, AckedMark
    <3>2. r.term \in DOMAIN Starts
      BY OldSenders, ElectedInStarts
    <3>3. Starts'[r.term] = Starts[r.term]
      BY <1>1, <3>2 DEF Extends
    <3>4. GoodStarts(Starts) /\ r.lastLogIndex \in Nat
      BY <1>1, StartsGood, AckFields DEF Known
    <3>5. k[1] \in Starts'[r.term].index + 1 .. r.lastLogIndex /\ k = <<k[1], r.term>>
      BY <3>1, <3>2, <3>3, <3>4 DEF GoodStarts, IsMark
    <3>6. r \in Acks'
      BY <1>1
    <3>7. k \in Acked(q)'
      BY <3>1, <3>5, <3>6 DEF Acked
    <3> QED BY <3>7 DEF Evidence
  <2>2. CASE k \in Own(q)
    <3>1. <<k[2], q>> \in elected'
      BY <1>1, <2>2 DEF Own
    <3>2. k \in MarksBut(q)'
      BY <1>3 DEF MarksBut
    <3> QED BY <3>1, <3>2 DEF Own, Evidence
  <2> QED BY <1>4, <2>1, <2>2 DEF Evidence
<1>5. PICK P, Q : P = {q \in Node : k \in Evidence(q)} /\ Q = {q \in Node : k \in Evidence(q)'}
  OBVIOUS
<1>6. Cardinality(Q) >= Majority
  <2>1. P \subseteq Q /\ Q \subseteq Node
    BY <1>4, <1>5
  <2>2. Cardinality(P) >= Majority
    BY <1>5 DEF Chosen
  <2> QED BY <2>1, <2>2, LargerQuorum
<1> QED BY <1>2, <1>5, <1>6 DEF Chosen

MajoritiesSafe ==
  \A k : Cardinality({q \in Node : k \in Evidence(q)}) >= Majority => Safe(Starts, k[1], k[2])

LEMMA ChosenSafe == Known /\ MarksOK /\ VotesGood => MajoritiesSafe
BY MajorityIsSafe DEF MajoritiesSafe

LEMMA NextSafe ==
  ASSUME Known, Known', SafetyInv, NEW n \in Node, NodeTurn(n), NEW k, Chosen(k)'
  PROVE  Safe(Starts', k[1], k[2])
<1>1. (Known /\ MarksOK /\ VotesGood => MajoritiesSafe)'
  BY ChosenSafe, PTL
<1>2. MarksOK' /\ VotesGood'
  BY NextStarts, KeepsVotes
<1> QED BY <1>1, <1>2 DEF MajoritiesSafe, Chosen

LEMMA StillSafe ==
  ASSUME Known, Known', SafetyInv, NEW n \in Node, NodeTurn(n), NEW k, ChosenAt(k)
  PROVE  /\ Safe(Starts', k[1], k[2]) /\ MarkOK(Starts', k[1], k[2]) /\ MarkOK(Starts, k[1], k[2])
         /\ k[1] \in Nat /\ k[2] \in Nat
<1>1. /\ MarksOK /\ VotesGood /\ DecidedOK
      /\ GoodStarts(Starts) /\ GoodStarts(Starts') /\ Extends(Starts', Starts)
  BY NextStarts DEF SafetyInv
<1>2. CASE k = <<0, 0>>
  <2>1. k[1] = 0 /\ k[2] = 0
    BY <1>2
  <2>2. MarkOK(Starts', k[1], k[2]) /\ MarkOK(Starts, k[1], k[2])
    BY <2>1 DEF MarkOK
  <2>3. Safe(Starts', k[1], k[2])
    BY <1>1, <2>1 DEF Safe, Past, GoodStarts
  <2> QED BY <2>1, <2>2, <2>3
<1>3. CASE Chosen(k)
  <2>1. Safe(Starts', k[1], k[2])
    BY <1>3, ChosenStays, NextSafe
  <2>2. MarkOK(Starts, k[1], k[2]) /\ IsMark(k)
    BY <1>1, <1>3, ChosenFacts
  <2>3. MarkOK(Starts', k[1], k[2])
    BY <1>1, <2>2, MoreTerms
  <2> QED BY <2>1, <2>2, <2>3 DEF IsMark
<1> QED BY <1>2, <1>3 DEF ChosenAt

------------------------------------------------------------------------------
(* The lines after a step.                                                 *)

LEMMA NewLeadersLine ==
  ASSUME Known, Known', SafetyInv, NEW n \in Node, NodeTurn(n), BeginsToLead(n),
         NEW s, s = st'[n]
  PROVE  Rooted(Starts', Full(s))
<1>1. /\ GoodStarts(Starts) /\ GoodStarts(Starts') /\ Extends(Starts', Starts)
      /\ SnapshotsOK /\ LinesRooted /\ ProgressOK
  BY NextStarts DEF SafetyInv
<1>2. s \in HardState /\ LogOK(s) /\ SameLog(s, st[n])
  BY NodeStatesNext DEF BeginsToLead
<1>3. PICK b : b = Base(s)
  OBVIOUS
<1>4. b[1] = s.lastIncludedIndex /\ b[2] = s.lastIncludedTerm
  BY <1>3 DEF Base
<1>5. ChosenAt(b)
  BY <1>1, <1>2, <1>3, SameLogs DEF SnapshotsOK
<1>6. /\ Safe(Starts', b[1], b[2]) /\ MarkOK(Starts', b[1], b[2])
      /\ b[1] \in Nat /\ b[2] \in Nat
  BY <1>5, StillSafe
<1>7. Rooted(Starts', Terms(s))
  <2>1. Rooted(Starts, Terms(st[n])) /\ Terms(s) = Terms(st[n])
    BY <1>1, <1>2, SameLogs DEF LinesRooted
  <2> QED BY <1>1, <2>1, MoreTerms
<1>8. PICK T : T = s.currentTerm
  OBVIOUS
<1>9. <<T, n>> \in elected' /\ <<T, n>> \notin elected
  BY <1>8 DEF BeginsToLead
<1>10. Starts'[T] = [index |-> LastLogIndex(s), term |-> LastLogTerm(s)]
  BY <1>8, <1>9, NewLeaderStart
<1>11. b[2] < T /\ T \in DOMAIN Starts'
  <2>1. DiskStep /\ Elects(n)
    BY DEF NodeTurn
  <2>2. s.lastIncludedTerm < T
    BY <1>8, <1>9, <2>1, WinnersLog DEF Known, LogInv
  <2>3. T \in DOMAIN Starts'
    BY <1>9 DEF Starts, ElectedTerms
  <2> QED BY <1>4, <2>2, <2>3
<1>12. Past(LastLogIndex(s), LastLogTerm(s), b[1], b[2])
  BY <1>6, <1>10, <1>11 DEF Safe
<1>13. /\ IsLine(Terms(s)) /\ DOMAIN Terms(s) = Held(s)
       /\ DOMAIN Full(s) = s.lastIncludedIndex .. LastLogIndex(s)
       /\ Full(s)[s.lastIncludedIndex] = s.lastIncludedTerm
       /\ \A i \in Held(s) : Full(s)[i] = Terms(s)[i]
       /\ LastLogIndex(s) \in Nat
       /\ LastLogIndex(s) > s.lastIncludedIndex => LastLogTerm(s) = Terms(s)[LastLogIndex(s)]
  BY <1>2, TermsLine, FullLine, LastOfLine
<1>14. PICK top, f, h : top \in Nat /\ top = LastLogIndex(s) /\ f = Terms(s) /\ h = Full(s)
  BY <1>13
<1>15. /\ DOMAIN f = b[1] + 1 .. top /\ DOMAIN h = b[1] .. top /\ h[b[1]] = b[2]
       /\ \A i \in DOMAIN f : h[i] = f[i]
       /\ top > b[1] => Past(top, f[top], b[1], b[2])
  BY <1>4, <1>12, <1>13, <1>14 DEF Held
<1>16. IsLine(f) /\ Rooted(Starts', f)
  BY <1>7, <1>13, <1>14
<1>17. Rooted(Starts', h)
  BY <1>1, <1>6, <1>14, <1>15, <1>16, BasedLine
<1> QED BY <1>14, <1>17

LEMMA LeadersLinesNext ==
  ASSUME Known, Known', SafetyInv, NEW n \in Node, NodeTurn(n),
         NEW l \in Node, role'[l] = "Leader", NEW s, s = st'[l]
  PROVE  Rooted(Starts', Full(s))
<1>1. GoodStarts(Starts) /\ Extends(Starts', Starts) /\ LinesRooted /\ ProgressOK
  BY NextStarts DEF SafetyInv
<1>2. CASE l # n
  <2>1. s = st[l] /\ role[l] = "Leader"
    BY <1>2 DEF NodeTurn, Untouched
  <2>2. Rooted(Starts, Full(s))
    BY <1>1, <2>1 DEF LinesRooted
  <2> QED BY <1>1, <2>2, MoreTerms
<1>3. CASE l = n /\ BeginsToLead(n)
  BY <1>3, NewLeadersLine
<1>4. CASE l = n /\ LeadsOn(n)
  <2>1. Rooted(Starts, Full(s))
    BY <1>4, LeadersLine
  <2> QED BY <1>1, <2>1, MoreTerms
<1> QED BY <1>1, <1>2, <1>3, <1>4, LeaderTurn

LEMMA NodesLinesNext ==
  ASSUME Known, Known', SafetyInv, NEW n \in Node, NodeTurn(n),
         NEW l \in Node, NEW s, s = st'[l] \/ s = hs'[l]
  PROVE  Rooted(Starts', Terms(s))
<1>1. GoodStarts(Starts) /\ Extends(Starts', Starts) /\ LinesRooted /\ ProgressOK
  BY NextStarts DEF SafetyInv
<1>2. CASE l # n
  <2>1. s = st[l] \/ s = hs[l]
    BY <1>2 DEF NodeTurn, Untouched
  <2>2. Rooted(Starts, Terms(s))
    BY <1>1, <2>1 DEF LinesRooted
  <2> QED BY <1>1, <2>2, MoreTerms
<1>3. CASE l = n
  <2>1. From(n, s)
    BY <1>1, <1>3, Sources
  <2>2. Rooted(Starts, Terms(s))
    BY <2>1, LineFrom
  <2> QED BY <1>1, <2>2, MoreTerms
<1> QED BY <1>2, <1>3

LEMMA SentLinesNext ==
  ASSUME Known, Known', SafetyInv, NEW n \in Node, NodeTurn(n), NEW m \in Appends'
  PROVE  Rooted(Starts', AppendTerms(m))
<1>1. /\ GoodStarts(Starts) /\ Extends(Starts', Starts) /\ LinesRooted /\ LeadersRemember
  BY NextStarts DEF SafetyInv
<1>2. CASE m \in Appends
  <2>1. Rooted(Starts, AppendTerms(m))
    BY <1>1, <1>2 DEF LinesRooted
  <2> QED BY <1>1, <2>1, MoreTerms
<1>3. CASE m \notin Appends
  <2>1. PICK s : s = st'[n]
    OBVIOUS
  <2>2. role'[n] = "Leader"
    BY <1>1, <1>3, NewAppendFields
  <2>3. Rooted(Starts', Full(s))
    BY <2>1, <2>2, LeadersLinesNext
  <2>4. \A j \in DOMAIN AppendTerms(m) : j \in DOMAIN Full(s) /\ AppendTerms(m)[j] = Full(s)[j]
    BY <1>1, <1>3, <2>1, SentLine
  <2> QED BY <2>3, <2>4, PartOfLine
<1> QED BY <1>2, <1>3

------------------------------------------------------------------------------
(* A leader commits up to i.                                               *)

CommitsTo(n, i) ==
  LET s == st'[n] IN
  /\ role[n] = "Leader" /\ role'[n] = "Leader" /\ up[n] /\ up'[n]
  /\ i \in Nat /\ commitIndex[n] < i /\ i <= LastLogIndex(s) /\ i \in Held(s)
  /\ EntryAt(s, i).term = s.currentTerm
  /\ IsMedianIndex([matchIndex'[n] EXCEPT ![n] = LastLogIndex(s)], i)
  /\ Applies(n, i)
  /\ decided' = decided \cup {EntryAt(s, j) : j \in commitIndex[n] + 1 .. i}
  /\ s.lastIncludedIndex = st[n].lastIncludedIndex
  /\ s.lastIncludedIndex <= commitIndex[n] /\ commitIndex[n] <= LastLogIndex(st[n])
  /\ LastLogIndex(st[n]) <= LastLogIndex(s)
  /\ GetLogTerm(s, commitIndex[n]) = GetLogTerm(st[n], commitIndex[n])
  /\ ChosenAt(<<commitIndex[n], GetLogTerm(s, commitIndex[n])>>)

LEMMA CommitReady ==
  ASSUME Known, Known', SafetyInv, NEW n \in Node, NodeTurn(n),
         Commits(n), Kept(n) \/ PushedLog(n)
  PROVE  \E i : CommitsTo(n, i)
<1>1. /\ ProgressOK /\ MarksOK /\ LinesRooted /\ OwnersTrue
  BY DEF SafetyInv
<1>2. PICK s, t, c : s = st'[n] /\ t = st[n] /\ c = commitIndex[n]
  OBVIOUS
<1>3. PICK i \in Committable(s, n, matchIndex'[n], c) :
       /\ Applies(n, i)
       /\ decided' = decided \cup
            {EntryAt(s, j) : j \in Larger(c, s.lastIncludedIndex) + 1 .. i}
  BY <1>2 DEF Commits
<1>4. up[n] /\ up'[n] /\ role[n] = "Leader" /\ role'[n] = "Leader"
  BY <1>3 DEF Applies, Commits
<1>5. /\ s \in HardState /\ LogOK(s) /\ LastLogIndex(s) \in Nat /\ s.lastIncludedIndex \in Nat
      /\ t \in HardState /\ LogOK(t) /\ LastLogIndex(t) \in Nat
      /\ c \in Nat
  BY <1>2, NodeStates, NodeStatesNext
<1>6. /\ t.lastIncludedIndex <= c /\ c <= LastLogIndex(t) /\ ChosenAt(<<c, GetLogTerm(t, c)>>)
  BY <1>1, <1>2, <1>4 DEF ProgressOK
<1>7. /\ i \in c + 1 .. LastLogIndex(s) /\ i > s.lastIncludedIndex
      /\ IsMedianIndex([matchIndex'[n] EXCEPT ![n] = LastLogIndex(s)], i)
      /\ EntryAt(s, i).term = s.currentTerm
  BY <1>3 DEF Committable
<1>8. i \in Nat /\ c < i /\ i <= LastLogIndex(s) /\ i \in Held(s)
  BY <1>5, <1>7 DEF Held
<1>9. /\ s.lastIncludedIndex = t.lastIncludedIndex /\ LastLogIndex(t) <= LastLogIndex(s)
      /\ GetLogTerm(s, c) = GetLogTerm(t, c)
  <2>1. CASE SameLog(s, t)
    BY <1>5, <2>1, SameLogs
  <2>2. CASE PushedLog(n) /\ ~SameLog(s, t)
    <3>1. PICK v \in Value : s = PushEntry(t, v)
      BY <1>2, <2>2, SameLogSelf DEF PushedLog
    <3>2. /\ LastLogIndex(s) = LastLogIndex(t) + 1
          /\ s.lastIncludedIndex = t.lastIncludedIndex
          /\ s.lastIncludedTerm = t.lastIncludedTerm
          /\ \A j \in Held(s) : \/ j \in Held(t) /\ EntryAt(s, j) = EntryAt(t, j)
                                \/ j = LastLogIndex(s)
      BY <1>1, <1>2, <1>4, <3>1, PushedFull
    <3>3. CASE c = t.lastIncludedIndex
      BY <1>5, <3>2, <3>3 DEF GetLogTerm
    <3>4. CASE c # t.lastIncludedIndex
      <4>1. c \in Held(s) /\ c # LastLogIndex(s)
        BY <1>5, <1>6, <3>2, <3>4 DEF Held
      <4>2. c \in Held(t) /\ EntryAt(s, c) = EntryAt(t, c)
        BY <3>2, <4>1
      <4> QED BY <1>5, <3>2, <4>1, <4>2, TermsLine
    <3> QED BY <1>5, <3>2, <3>3, <3>4
  <2> QED BY <1>2, <2>1, <2>2 DEF Kept
<1>10. Larger(c, s.lastIncludedIndex) = c
  BY <1>5, <1>6, <1>9 DEF Larger
<1>11. decided' = decided \cup {EntryAt(s, j) : j \in c + 1 .. i}
  BY <1>3, <1>10
<1>12. CommitsTo(n, i)
  BY <1>2, <1>3, <1>4, <1>6, <1>7, <1>8, <1>9, <1>11 DEF CommitsTo
<1> QED BY <1>12

(* The entry at i is then on a majority.                                   *)
LEMMA CommitsChosen ==
  ASSUME Known, Known', SafetyInv, NEW n \in Node, NodeTurn(n), NEW i, CommitsTo(n, i),
         NEW k, k = <<i, st'[n].currentTerm>>
  PROVE  Chosen(k)'
<1>1. PICK s, T : s = st'[n] /\ T = s.currentTerm
  OBVIOUS
<1>2. /\ s \in HardState /\ LogOK(s) /\ LastLogIndex(s) \in Nat /\ T \in Nat
  BY <1>1, NodeStatesNext
<1>3. /\ i \in Nat /\ i >= 1 /\ i <= LastLogIndex(s) /\ i \in Held(s) /\ EntryAt(s, i).term = T
      /\ role'[n] = "Leader"
      /\ IsMedianIndex([matchIndex'[n] EXCEPT ![n] = LastLogIndex(s)], i)
      /\ EntryAt(s, i) \in decided'
  <2>1. i >= 1 /\ i \in commitIndex[n] + 1 .. i
    BY NodeStates DEF CommitsTo
  <2> QED BY <1>1, <2>1 DEF CommitsTo
<1>4. EntryMark(EntryAt(s, i)) = <<i, T>>
  BY <1>2, <1>3, EntryIndex DEF EntryMark
<1>5. /\ LeadersRemember' /\ MarksOK' /\ <<T, n>> \in elected' /\ GoodStarts(Starts')
  BY <1>1, <1>3, KeepsRemembering, NextStarts, NewSenders
<1>6. k = <<i, T>>
  BY <1>1
<1>7. k[1] = i /\ k[2] = T
  BY <1>6
<1>8. k \in StoredMarks' /\ k \in MarksBut(n)'
  BY <1>3, <1>4, <1>6 DEF StoredMarks, MarksBut
<1>9. T > 0 /\ T \in DOMAIN Starts' /\ Starts'[T].index \in Nat /\ i > Starts'[T].index
  <2>1. T \in DOMAIN Starts'
    BY <1>5 DEF Starts, ElectedTerms
  <2>2. MarkOK(Starts', i, T)
    BY <1>5, <1>7, <1>8 DEF MarksOK, AllMarks
  <2> QED BY <1>5, <2>1, <2>2 DEF GoodStarts, MarkOK
<1>10. k \in Evidence(n)'
  BY <1>5, <1>7, <1>8 DEF Own, Evidence
<1>11. ASSUME NEW p \in Node, p # n, matchIndex'[n][p] >= i
       PROVE  k \in Evidence(p)'
  <2>1. matchIndex'[n][p] \in Nat
    BY DEF Known, TypeOK, LeadershipType
  <2>2. AckedBy(p, T, matchIndex[n][p])'
    BY <1>1, <1>3, <1>5, <1>11, <2>1 DEF LeadersRemember
  <2>3. PICK r \in Acks' : r.src = p /\ r.term = T /\ r.lastLogIndex >= matchIndex'[n][p]
    BY <2>2 DEF AckedBy
  <2>4. r.lastLogIndex \in Nat
    <3>1. \A a \in Acks' : a.lastLogIndex \in Nat
      BY MessageKinds DEF Known, TypeOK, NetworkType, Acks, ResultType
    <3> QED BY <3>1
  <2>5. i \in Starts'[r.term].index + 1 .. r.lastLogIndex
    BY <1>3, <1>9, <1>11, <2>1, <2>3, <2>4
  <2>6. k \in Acked(p)'
    BY <1>6, <2>3, <2>5 DEF Acked
  <2> QED BY <2>6 DEF Evidence
<1>12. PICK P, Q : /\ P = {p \in Node : [matchIndex'[n] EXCEPT ![n] = LastLogIndex(s)][p] >= i}
                   /\ Q = {p \in Node : k \in Evidence(p)'}
  OBVIOUS
<1>13. P \subseteq Q /\ Q \subseteq Node
  <2>1. \A p \in Node : p # n => [matchIndex'[n] EXCEPT ![n] = LastLogIndex(s)][p] = matchIndex'[n][p]
    BY DEF Known, TypeOK, LeadershipType
  <2> QED BY <1>10, <1>11, <1>12, <2>1
<1>14. Cardinality(Q) >= Majority
  <2>1. Cardinality(P) >= Majority
    BY <1>3, <1>12 DEF IsMedianIndex
  <2> QED BY <1>13, <2>1, LargerQuorum
<1> QED BY <1>3, <1>4, <1>6, <1>12, <1>14 DEF Chosen

LEMMA EntriesKnown ==
  ASSUME Known, SafetyInv
  PROVE  /\ \A e \in decided : /\ e.index \in Nat /\ e.term \in Nat /\ e.index >= 1
                               /\ e \in Entries
                               /\ DecidedTerms[e.index] = e.term /\ e.index \in DOMAIN DecidedTerms
                               /\ \A j \in 1 .. e.index : j \in DOMAIN DecidedTerms
                               /\ \E f \in decided : f.index >= e.index /\ Chosen(EntryMark(f))
         /\ IsLine(DecidedTerms) /\ Rooted(Starts, DecidedTerms)
<1>1. DecidedOK /\ TypeOK /\ Rooted(Starts, DecidedTerms)
  BY DEF SafetyInv, LinesRooted, Known
<1>2. IsLine(DecidedTerms)
  BY <1>1, DecidedLine
<1>3. \A e \in decided : /\ e.index \in Nat /\ e.term \in Nat /\ e.index >= 1
                         /\ DecidedTerms[e.index] = e.term /\ e.index \in DOMAIN DecidedTerms
  BY <1>1, DecidedLine
<1>4. \A e \in decided : \A j \in 1 .. e.index : j \in DOMAIN DecidedTerms
  BY <1>1, <1>3, DecidedLine
<1>5. \A e \in decided : e \in Entries
  BY DEF Entries
<1>6. \A e \in decided : \E f \in decided : f.index >= e.index /\ Chosen(EntryMark(f))
  BY <1>1 DEF DecidedOK
<1> QED BY <1>1, <1>2, <1>3, <1>4, <1>5, <1>6

(* What a leader commits agrees with all that was committed before.        *)
LEMMA CommitsAgree ==
  ASSUME Known, Known', SafetyInv, NEW n \in Node, NodeTurn(n), NEW i, CommitsTo(n, i),
         NEW s, s = st'[n], NEW e \in decided, NEW j \in Held(s), j = e.index, j <= i,
         j > commitIndex[n]
  PROVE  EntryAt(s, j) = e
<1>1. PICK T : T = s.currentTerm
  OBVIOUS
<1>2. /\ s \in HardState /\ LogOK(s) /\ LastLogIndex(s) \in Nat /\ LastLogTerm(s) \in Nat
      /\ s.lastIncludedIndex \in Nat
      /\ LastLogTerm(s) = Full(s)[LastLogIndex(s)] /\ LastLogIndex(s) \in DOMAIN Full(s)
  BY NodeStatesNext, LastOfLine
<1>3. /\ IsLine(Full(s)) /\ DOMAIN Full(s) = s.lastIncludedIndex .. LastLogIndex(s)
      /\ \A x \in Held(s) : x \in DOMAIN Full(s) /\ Full(s)[x] = EntryAt(s, x).term
                            /\ x \in Nat /\ x > s.lastIncludedIndex
  BY <1>2, FullLine, TermsLine
<1>4. /\ i \in Nat /\ i <= LastLogIndex(s) /\ i \in Held(s) /\ EntryAt(s, i).term = T
      /\ role'[n] = "Leader"
  BY <1>1 DEF CommitsTo
<1>5. PICK g, h : g = Full(s) /\ h = DecidedTerms
  OBVIOUS
<1>6. /\ GoodStarts(Starts) /\ GoodStarts(Starts') /\ Extends(Starts', Starts)
      /\ OwnersTrue' /\ MarksOK' /\ MarksOK /\ VotesGood /\ DecidedOK
  BY NextStarts, KeepsOwners DEF SafetyInv
<1>7. /\ Rooted(Starts', g) /\ IsLine(g) /\ Rooted(Starts', h) /\ IsLine(h)
  <2>1. Rooted(Starts', Full(s))
    BY <1>4, LeadersLinesNext
  <2>2. Rooted(Starts, DecidedTerms) /\ IsLine(DecidedTerms)
    BY EntriesKnown
  <2>3. Rooted(Starts', DecidedTerms)
    BY <1>6, <2>2, MoreTerms
  <2> QED BY <1>3, <1>5, <2>1, <2>2, <2>3
<1>8. /\ Owned(Starts', g, T) /\ Starts'[T].index <= LastLogIndex(s)
      /\ T \in DOMAIN Starts' /\ T \in Nat /\ Starts'[T].index \in Nat
  <2>1. Owned(Starts', Full(s), T) /\ Starts'[T].index <= LastLogIndex(s)
    BY <1>1, <1>4, <1>6 DEF OwnersTrue
  <2>2. <<T, n>> \in elected'
    BY <1>1, <1>4, NewSenders
  <2>3. T \in DOMAIN Starts'
    BY <2>2 DEF Starts, ElectedTerms
  <2> QED BY <1>5, <1>6, <2>1, <2>3 DEF GoodStarts
<1>9. j \in Nat /\ h[j] = e.term /\ j \in DOMAIN h /\ j \in DOMAIN g /\ g[j] = EntryAt(s, j).term
  BY <1>3, <1>5, EntriesKnown
<1>10. PICK f \in decided : f.index >= j /\ Chosen(EntryMark(f))
  BY EntriesKnown
<1>11. PICK k : k = EntryMark(f)
  OBVIOUS
<1>12. /\ k[1] = f.index /\ k[2] = f.term /\ k[1] \in Nat /\ k[2] \in Nat
       /\ k[1] \in DOMAIN h /\ h[k[1]] = k[2] /\ k[2] > 0
       /\ \A x \in 1 .. k[1] : x \in DOMAIN h
  <2>1. k[1] = f.index /\ k[2] = f.term
    BY <1>11 DEF EntryMark
  <2>2. k[2] > 0
    BY <1>6, <1>10, <1>11, ChosenFacts
  <2> QED BY <1>5, <2>1, <2>2, EntriesKnown
<1>13. Safe(Starts', k[1], k[2]) /\ MarkOK(Starts', k[1], k[2])
  BY <1>10, <1>11, StillSafe DEF ChosenAt
<1>14. g[j] = h[j]
  <2>1. CASE k[2] <= T
    <3>1. k[2] = T => k[1] <= LastLogIndex(s) /\ k[1] > Starts'[T].index
      <4> SUFFICES ASSUME k[2] = T
                   PROVE  k[1] <= LastLogIndex(s) /\ k[1] > Starts'[T].index
        OBVIOUS
      <4>1. f \in decided'
        BY TurnGrows
      <4>2. k \in MarksBut(n)'
        BY <1>11, <4>1 DEF MarksBut, StoredMarks
      <4>3. k[1] <= LastLogIndex(s)
        BY <1>1, <1>4, <4>2 DEF Known, LogInv, LeaderAhead
      <4>4. k[1] > Starts'[T].index
        BY <1>12, <1>13 DEF MarkOK
      <4> QED BY <4>3, <4>4
    <3>2. OwnMark(Starts', LastLogIndex(s), LastLogTerm(s), T)
      BY <1>2, <1>5, <1>8 DEF Owned
    <3>3. NoBad(Starts', k[1], k[2], T) /\ NoBad(Starts', k[1], k[2], LastLogTerm(s))
      BY <1>13, SafeMeansNoBad
    <3>4. k[2] < T \/ (k[2] = T /\ k[1] <= LastLogIndex(s) /\ k[1] > Starts'[T].index)
      BY <1>8, <1>12, <2>1, <3>1
    <3>5. Past(LastLogIndex(s), LastLogTerm(s), k[1], k[2])
      BY <1>2, <1>6, <1>8, <1>12, <3>2, <3>3, <3>4, OwnerPast
    <3>6. LastLogIndex(s) \in DOMAIN g /\ g[LastLogIndex(s)] = LastLogTerm(s)
      BY <1>2, <1>5
    <3>7. /\ LastLogIndex(s) >= k[1]
          /\ k[1] \in DOMAIN g => g[k[1]] = k[2]
      BY <1>6, <1>7, <1>12, <1>13, <3>3, <3>5, <3>6, LineHas
    <3>8. k[1] \in DOMAIN g
      BY <1>2, <1>3, <1>5, <1>9, <1>10, <1>12, <3>7
    <3> QED BY <1>6, <1>7, <1>9, <1>10, <1>12, <3>7, <3>8, LinesMatch
  <2>2. CASE k[2] > T
    <3>1. PICK x : x = <<i, T>>
      OBVIOUS
    <3>2. Chosen(x)' /\ x[1] = i /\ x[2] = T
      BY <1>1, <3>1, CommitsChosen
    <3>3. Safe(Starts', i, T)
      BY <3>2, NextSafe
    <3>4. MarkOK(Starts', i, T)
      BY <1>3, <1>4, <1>5, <1>7 DEF Rooted
    <3>5. NoBad(Starts', i, T, h[k[1]])
      BY <3>3, SafeMeansNoBad
    <3>6. Past(k[1], h[k[1]], i, T)
      BY <1>12, <2>2 DEF Past
    <3>7. k[1] >= i /\ (i \in DOMAIN h => h[i] = T)
      BY <1>4, <1>6, <1>7, <1>8, <1>12, <3>4, <3>5, <3>6, LineHas
    <3>8. i \in 1 .. k[1]
      BY <1>4, <1>9, <1>12, <3>7, EntriesKnown
    <3>9. i \in DOMAIN h /\ h[i] = T
      BY <1>12, <3>7, <3>8
    <3>10. i \in DOMAIN g /\ g[i] = T
      BY <1>3, <1>4, <1>5
    <3> QED BY <1>6, <1>7, <1>9, <3>9, <3>10, LinesMatch
  <2> QED BY <1>8, <1>12, <2>1, <2>2
<1>15. EntryAt(s, j).index = j
  BY <1>2, EntryIndex
<1>16. EntryMark(EntryAt(s, j)) = EntryMark(e)
  BY <1>9, <1>14, <1>15 DEF EntryMark
<1>17. EntryAt(s, j) \in Entries' /\ e \in Entries'
  <2>1. EntryAt(s, j) \in HeldEntries(s)
    BY <1>2, HeldEntry
  <2>2. e \in decided'
    BY TurnGrows
  <2> QED BY <2>1, <2>2 DEF Entries
<1> QED BY <1>16, <1>17 DEF Known, LogInv, EntryUnique

LEMMA DecidedSteps ==
  ASSUME Known, Known', SafetyInv, NEW n \in Node, NodeTurn(n)
  PROVE  decided' = decided \/ \E i : CommitsTo(n, i)
<1>1. Turn(n)
  BY DEF NodeTurn
<1>2. CASE Commits(n) /\ (Kept(n) \/ PushedLog(n))
  BY <1>2, CommitReady
<1>3. CASE decided' = decided
  BY <1>3
<1> QED BY <1>1, <1>2, <1>3 DEF Turn, Rests, Learns, Adopts, Dies, Returns

(* The entries that a commit adds follow those that were decided.          *)
LEMMA CommitAdds ==
  ASSUME Known, Known', SafetyInv, NEW n \in Node, NodeTurn(n), NEW i, CommitsTo(n, i),
         NEW s, s = st'[n], NEW c, c = commitIndex[n]
  PROVE  /\ c \in Nat /\ i \in Nat /\ c < i /\ s.lastIncludedIndex \in Nat
         /\ s.lastIncludedIndex <= c /\ i <= LastLogIndex(s) /\ LastLogIndex(s) \in Nat
         /\ s \in HardState /\ LogOK(s)
         /\ \A j \in c + 1 .. i : /\ j \in Held(s) /\ EntryAt(s, j).index = j /\ j \in Nat
                                  /\ j >= 1 /\ EntryAt(s, j) \in decided'
                                  /\ EntryAt(s, j) \in LogEntry
         /\ \A j \in 1 .. c : \E e \in decided : e.index = j
<1>1. /\ c \in Nat /\ i \in Nat /\ c < i
      /\ s.lastIncludedIndex <= c /\ i <= LastLogIndex(s)
      /\ decided' = decided \cup {EntryAt(s, j) : j \in c + 1 .. i}
      /\ ChosenAt(<<c, GetLogTerm(s, c)>>)
  BY NodeStates DEF CommitsTo
<1>2. /\ s \in HardState /\ LogOK(s) /\ LastLogIndex(s) \in Nat /\ s.lastIncludedIndex \in Nat
  BY NodeStatesNext
<1>3. ASSUME NEW j \in c + 1 .. i
      PROVE  /\ j \in Held(s) /\ EntryAt(s, j).index = j /\ j \in Nat
             /\ j >= 1 /\ EntryAt(s, j) \in decided' /\ EntryAt(s, j) \in LogEntry
  <2>1. j \in Nat /\ j >= 1
    BY <1>1
  <2>2. j \in Held(s)
    BY <1>1, <1>2, <1>3 DEF Held
  <2> QED BY <1>1, <1>2, <1>3, <2>1, <2>2, EntryIndex, TermsLine
<1>4. ASSUME NEW j \in 1 .. c
      PROVE  \E e \in decided : e.index = j
  <2>1. PICK k : k = <<c, GetLogTerm(s, c)>>
    OBVIOUS
  <2>2. k[1] = c /\ c # 0
    BY <1>1, <1>4, <2>1
  <2>3. Chosen(k)
    BY <1>1, <2>1, <2>2 DEF ChosenAt
  <2>4. PICK f \in decided : EntryMark(f) = k
    BY <2>3 DEF Chosen
  <2>5. f.index = c
    BY <2>2, <2>4 DEF EntryMark
  <2> QED BY <1>4, <2>4, <2>5 DEF SafetyInv, DecidedOK
<1> QED BY <1>1, <1>2, <1>3, <1>4

LEMMA KeepsDecided ==
  ASSUME Known, Known', SafetyInv, NEW n \in Node, NodeTurn(n)
  PROVE  DecidedOK'
<1>1. DecidedOK
  BY DEF SafetyInv
<1>2. \A e \in decided : \E f \in decided' : f.index >= e.index /\ Chosen(EntryMark(f))'
  <2> SUFFICES ASSUME NEW e \in decided
               PROVE  \E f \in decided' : f.index >= e.index /\ Chosen(EntryMark(f))'
    OBVIOUS
  <2>1. PICK f \in decided : f.index >= e.index /\ Chosen(EntryMark(f))
    BY <1>1 DEF DecidedOK
  <2>2. f \in decided'
    BY TurnGrows
  <2>3. PICK k : k = EntryMark(f)
    OBVIOUS
  <2>4. Chosen(k)'
    BY <2>1, <2>3, ChosenStays
  <2> QED BY <2>1, <2>2, <2>3, <2>4
<1>3. CASE decided' = decided
  <2>1. /\ \A e \in decided' : e.index >= 1 /\ \A i \in 1 .. e.index : \E f \in decided' : f.index = i
        /\ \A e, f \in decided' : e.index = f.index => e = f
    BY <1>1, <1>3 DEF DecidedOK
  <2>2. \A e \in decided' : \E f \in decided' : f.index >= e.index /\ Chosen(EntryMark(f))'
    BY <1>2, <1>3
  <2> QED BY <2>1, <2>2 DEF DecidedOK
<1>4. ASSUME NEW i, CommitsTo(n, i)
      PROVE  DecidedOK'
  <2>1. PICK s, c : s = st'[n] /\ c = commitIndex[n]
    OBVIOUS
  <2>2. /\ c \in Nat /\ i \in Nat /\ c < i
        /\ \A j \in c + 1 .. i : /\ j \in Held(s) /\ EntryAt(s, j).index = j /\ j \in Nat
                                 /\ j >= 1 /\ EntryAt(s, j) \in decided'
        /\ decided' = decided \cup {EntryAt(s, j) : j \in c + 1 .. i}
        /\ \A j \in 1 .. c : \E e \in decided : e.index = j
    <3>1. c \in Nat /\ i \in Nat /\ c < i
      BY <1>4, <2>1, NodeStates DEF CommitsTo
    <3>2. decided' = decided \cup {EntryAt(s, j) : j \in c + 1 .. i}
      BY <1>4, <2>1 DEF CommitsTo
    <3>3. \A j \in c + 1 .. i : /\ j \in Held(s) /\ EntryAt(s, j).index = j /\ j \in Nat
                               /\ j >= 1 /\ EntryAt(s, j) \in decided'
      BY <1>4, <2>1, CommitAdds
    <3>4. \A j \in 1 .. c : \E e \in decided : e.index = j
      BY <1>4, <2>1, CommitAdds
    <3> QED BY <3>1, <3>2, <3>3, <3>4
  <2>3. i \in c + 1 .. i
    BY <2>2
  <2>4. ASSUME NEW e \in decided'
        PROVE  e.index >= 1 /\ \A j \in 1 .. e.index : \E f \in decided' : f.index = j
    <3>1. CASE e \in decided
      BY <1>1, <3>1, TurnGrows DEF DecidedOK
    <3>2. ASSUME NEW x \in c + 1 .. i, e = EntryAt(s, x)
          PROVE  e.index >= 1 /\ \A j \in 1 .. e.index : \E f \in decided' : f.index = j
      <4>1. e.index = x /\ x >= 1
        BY <2>2, <3>2
      <4>2. ASSUME NEW j \in 1 .. e.index
            PROVE  \E f \in decided' : f.index = j
        <5>1. j \in 1 .. c \/ j \in c + 1 .. i
          BY <2>2, <3>2, <4>1, <4>2
        <5>2. CASE j \in 1 .. c
          BY <2>2, <5>2
        <5>3. CASE j \in c + 1 .. i
          BY <2>2, <5>3
        <5> QED BY <5>1, <5>2, <5>3
      <4> QED BY <4>1, <4>2
    <3> QED BY <2>2, <3>1, <3>2
  <2>5. ASSUME NEW e \in decided, NEW x \in c + 1 .. i, e.index = x
        PROVE  e = EntryAt(s, x)
    BY <1>4, <2>1, <2>2, <2>5, CommitsAgree
  <2>6. ASSUME NEW e \in decided', NEW f \in decided', e.index = f.index
        PROVE  e = f
    <3>1. e \in decided \/ \E x \in c + 1 .. i : e = EntryAt(s, x) /\ e.index = x
      BY <2>2
    <3>2. f \in decided \/ \E x \in c + 1 .. i : f = EntryAt(s, x) /\ f.index = x
      BY <2>2
    <3>3. CASE e \in decided /\ f \in decided
      BY <1>1, <2>6, <3>3 DEF DecidedOK
    <3>4. CASE e \in decided /\ f \notin decided
      BY <2>5, <2>6, <3>2, <3>4
    <3>5. CASE e \notin decided /\ f \in decided
      BY <2>5, <2>6, <3>1, <3>5
    <3>6. CASE e \notin decided /\ f \notin decided
      BY <2>6, <3>1, <3>2, <3>6
    <3> QED BY <3>3, <3>4, <3>5, <3>6
  <2>7. ASSUME NEW e \in decided', e \notin decided
        PROVE  \E f \in decided' : f.index >= e.index /\ Chosen(EntryMark(f))'
    <3>1. PICK x \in c + 1 .. i : e = EntryAt(s, x) /\ e.index = x
      BY <2>2, <2>7
    <3>2. PICK f : f = EntryAt(s, i)
      OBVIOUS
    <3>3. f \in decided' /\ f.index = i
      BY <2>2, <2>3, <3>2
    <3>4. f.index >= e.index
      BY <2>2, <3>1, <3>3
    <3>5. PICK k : k = <<i, s.currentTerm>>
      OBVIOUS
    <3>6. Chosen(k)'
      BY <1>4, <2>1, <3>5, CommitsChosen
    <3>7. f.term = s.currentTerm
      BY <1>4, <2>1, <3>2 DEF CommitsTo
    <3>8. EntryMark(f) = k
      BY <3>3, <3>5, <3>7 DEF EntryMark
    <3> QED BY <3>3, <3>4, <3>6, <3>8
  <2>8. \A e \in decided' : \E f \in decided' : f.index >= e.index /\ Chosen(EntryMark(f))'
    BY <1>2, <2>7
  <2>9. \A e, f \in decided' : e.index = f.index => e = f
    BY <2>6
  <2>10. \A e \in decided' : e.index >= 1 /\ \A j \in 1 .. e.index : \E f \in decided' : f.index = j
    BY <2>4
  <2> QED BY <2>8, <2>9, <2>10 DEF DecidedOK
<1> QED BY <1>3, <1>4, DecidedSteps

DecidedSays ==
  /\ IsLine(DecidedTerms)
  /\ \A e \in decided : /\ e.index \in Nat /\ e.term \in Nat /\ e.index >= 1
                        /\ e.index \in DOMAIN DecidedTerms /\ DecidedTerms[e.index] = e.term
  /\ \A i \in DOMAIN DecidedTerms : \E e \in decided : e.index = i

LEMMA DecidedTold == TypeOK /\ DecidedOK => DecidedSays
<1> SUFFICES ASSUME TypeOK, DecidedOK PROVE DecidedSays
  OBVIOUS
<1>1. IsLine(DecidedTerms)
  BY DecidedLine
<1>2. \A e \in decided : /\ e.index \in Nat /\ e.term \in Nat /\ e.index >= 1
                         /\ e.index \in DOMAIN DecidedTerms /\ DecidedTerms[e.index] = e.term
  BY DecidedLine
<1>3. \A i \in DOMAIN DecidedTerms : \E e \in decided : e.index = i
  BY DecidedLine
<1> QED BY <1>1, <1>2, <1>3 DEF DecidedSays

LEMMA DecidedLineNext ==
  ASSUME Known, Known', SafetyInv, NEW n \in Node, NodeTurn(n)
  PROVE  Rooted(Starts', DecidedTerms')
<1>1. /\ GoodStarts(Starts) /\ GoodStarts(Starts') /\ Extends(Starts', Starts)
  BY NextStarts
<1>2. Rooted(Starts, DecidedTerms) /\ Rooted(Starts', DecidedTerms) /\ IsLine(DecidedTerms)
  <2>1. Rooted(Starts, DecidedTerms) /\ IsLine(DecidedTerms)
    BY EntriesKnown
  <2> QED BY <1>1, <2>1, MoreTerms
<1>3. DecidedSays /\ DecidedSays'
  <2>1. TypeOK /\ DecidedOK /\ TypeOK'
    BY DEF Known, SafetyInv
  <2>2. DecidedOK'
    BY KeepsDecided
  <2>3. DecidedSays
    BY <2>1, DecidedTold
  <2>4. DecidedSays'
    BY <2>1, <2>2, DecidedTold, PTL
  <2> QED BY <2>3, <2>4
<1>4. CASE decided' = decided
  <2>1. DecidedTerms' = DecidedTerms
    BY <1>4 DEF DecidedTerms
  <2> QED BY <1>2, <2>1
<1>5. ASSUME NEW i, CommitsTo(n, i), decided' # decided
      PROVE  Rooted(Starts', DecidedTerms')
  <2>1. PICK s, c : s = st'[n] /\ c = commitIndex[n]
    OBVIOUS
  <2>2. /\ c \in Nat /\ i \in Nat /\ c < i /\ s.lastIncludedIndex \in Nat
        /\ s.lastIncludedIndex <= c /\ i <= LastLogIndex(s) /\ LastLogIndex(s) \in Nat
        /\ s \in HardState /\ LogOK(s)
    BY <1>5, <2>1, CommitAdds
  <2>3. \A j \in c + 1 .. i : j \in Held(s) /\ EntryAt(s, j).index = j
    BY <1>5, <2>1, CommitAdds
  <2>4. decided' = decided \cup {EntryAt(s, j) : j \in c + 1 .. i}
    BY <1>5, <2>1 DEF CommitsTo
  <2>5. \A e \in decided : \A j \in c + 1 .. i : e.index = j => EntryAt(s, j) = e
    <3> SUFFICES ASSUME NEW e \in decided, NEW j \in c + 1 .. i, e.index = j
                 PROVE  EntryAt(s, j) = e
      OBVIOUS
    <3>1. j \in Held(s) /\ j <= i /\ j > c
      BY <2>2, <2>3
    <3> QED BY <1>5, <2>1, <3>1, CommitsAgree
  <2>6. \A e \in decided : e.index <= i
    <3> SUFFICES ASSUME NEW e \in decided, ~(e.index <= i)
                 PROVE  FALSE
      OBVIOUS
    <3>1. e.index \in Nat
      BY <1>3 DEF DecidedSays
    <3>2. ASSUME NEW j \in c + 1 .. i
          PROVE  EntryAt(s, j) \in decided
      <4>1. j \in 1 .. e.index
        BY <2>2, <3>1, <3>2
      <4>2. PICK f \in decided : f.index = j
        BY <4>1 DEF SafetyInv, DecidedOK
      <4> QED BY <2>5, <3>2, <4>2
    <3> QED BY <1>5, <2>4, <3>2
  <2>7. PICK f, g, h : f = DecidedTerms /\ g = Full(s) /\ h = DecidedTerms'
    OBVIOUS
  <2>8. /\ IsLine(f) /\ Rooted(Starts', f) /\ IsLine(g) /\ Rooted(Starts', g)
        /\ DOMAIN g = s.lastIncludedIndex .. LastLogIndex(s)
    <3>1. role'[n] = "Leader"
      BY <1>5 DEF CommitsTo
    <3>2. Rooted(Starts', Full(s))
      BY <2>1, <3>1, LeadersLinesNext
    <3>3. IsLine(Full(s)) /\ DOMAIN Full(s) = s.lastIncludedIndex .. LastLogIndex(s)
      BY <2>2, FullLine
    <3> QED BY <1>2, <2>7, <3>2, <3>3
  <2>9. \A x \in DOMAIN h : \/ x \in DOMAIN f /\ x <= c /\ h[x] = f[x] /\ x >= 1
                            \/ x \in DOMAIN g /\ x >= c /\ h[x] = g[x]
    <3> SUFFICES ASSUME NEW x \in DOMAIN h
                 PROVE  \/ x \in DOMAIN f /\ x <= c /\ h[x] = f[x] /\ x >= 1
                        \/ x \in DOMAIN g /\ x >= c /\ h[x] = g[x]
      OBVIOUS
    <3>1. PICK e \in decided' : e.index = x
      BY <1>3, <2>7 DEF DecidedSays
    <3>2. x \in Nat /\ x >= 1 /\ h[x] = e.term
      BY <1>3, <2>7, <3>1 DEF DecidedSays
    <3>3. ASSUME x \in c + 1 .. i, EntryAt(s, x) = e
          PROVE  x \in DOMAIN g /\ x >= c /\ h[x] = g[x]
      <4>1. x \in Held(s)
        BY <2>3, <3>3
      <4>2. x \in DOMAIN Full(s) /\ Full(s)[x] = EntryAt(s, x).term
        BY <2>2, <4>1, FullLine, TermsLine
      <4> QED BY <2>2, <2>7, <3>2, <3>3, <4>2
    <3>4. CASE e \in decided /\ x <= c
      <4>1. x \in DOMAIN f /\ f[x] = e.term
        BY <1>3, <2>7, <3>1, <3>4 DEF DecidedSays
      <4> QED BY <3>2, <3>4, <4>1
    <3>5. CASE e \in decided /\ ~(x <= c)
      <4>1. x \in c + 1 .. i
        BY <2>2, <2>6, <3>1, <3>2, <3>5
      <4>2. EntryAt(s, x) = e
        BY <2>5, <3>1, <3>5, <4>1
      <4> QED BY <3>3, <4>1, <4>2
    <3>6. CASE e \notin decided
      <4>1. PICK j \in c + 1 .. i : e = EntryAt(s, j)
        BY <2>4, <3>6
      <4>2. j = x
        BY <2>3, <3>1, <4>1
      <4> QED BY <3>3, <4>1, <4>2
    <3> QED BY <3>4, <3>5, <3>6
  <2>10. CASE c = 0
    <3>1. \A x \in DOMAIN h : x \in DOMAIN g /\ h[x] = g[x]
      <4>1. \A x \in DOMAIN h : x \in Nat
        BY <1>3, <2>7 DEF DecidedSays
      <4> QED BY <2>9, <2>10, <4>1
    <3>2. Rooted(Starts', h)
      BY <2>8, <3>1, PartOfLine
    <3> QED BY <2>7, <3>2
  <2>11. CASE c # 0
    <3>1. PICK k : k = <<c, GetLogTerm(s, c)>>
      OBVIOUS
    <3>2. k[1] = c /\ k[2] = GetLogTerm(s, c)
      BY <3>1
    <3>3. ChosenAt(k)
      BY <1>5, <2>1, <3>1 DEF CommitsTo
    <3>4. PICK e \in decided : EntryMark(e) = k
      BY <2>11, <3>2, <3>3 DEF ChosenAt, Chosen
    <3>5. e.index = c /\ e.term = GetLogTerm(s, c)
      BY <3>2, <3>4 DEF EntryMark
    <3>6. c \in DOMAIN f /\ f[c] = GetLogTerm(s, c)
      BY <1>3, <2>7, <3>5 DEF DecidedSays
    <3>7. c \in DOMAIN g
      BY <2>2, <2>8
    <3>8. g[c] = GetLogTerm(s, c)
      BY <2>2, <2>7, <3>7, FullLine
    <3>9. Rooted(Starts', h)
      <4>1. \A x \in DOMAIN h : \/ x \in DOMAIN f /\ x <= c /\ h[x] = f[x]
                                \/ x \in DOMAIN g /\ x >= c /\ h[x] = g[x]
        BY <2>9
      <4>2. f[c] = g[c]
        BY <3>6, <3>8
      <4>3. PICK S : S = Starts'
        OBVIOUS
      <4>4. GoodStarts(S) /\ IsLine(f) /\ Rooted(S, f) /\ IsLine(g) /\ Rooted(S, g)
        BY <1>1, <2>8, <4>3
      <4>5. c \in DOMAIN f /\ c \in DOMAIN g
        BY <3>6, <3>7
      <4>6. Rooted(S, h)
        BY <4>1, <4>2, <4>4, <4>5, JoinedLine
      <4> QED BY <4>3, <4>6
    <3> QED BY <2>7, <3>9
  <2> QED BY <2>10, <2>11
<1> QED BY <1>4, <1>5, DecidedSteps

LEMMA KeepsLines ==
  ASSUME Known, Known', SafetyInv, NEW n \in Node, NodeTurn(n)
  PROVE  LinesRooted'
<1>1. \A l \in Node : Rooted(Starts', Terms(st'[l])) /\ Rooted(Starts', Terms(hs'[l]))
  BY NodesLinesNext
<1>2. \A m \in Appends' : Rooted(Starts', AppendTerms(m))
  BY SentLinesNext
<1>3. \A l \in Node : role'[l] = "Leader" => Rooted(Starts', Full(st'[l]))
  BY LeadersLinesNext
<1>4. Rooted(Starts', DecidedTerms')
  BY DecidedLineNext
<1> QED BY <1>1, <1>2, <1>3, <1>4 DEF LinesRooted

------------------------------------------------------------------------------
(* What is applied.                                                        *)

LEMMA EntriesTo ==
  ASSUME NEW s \in HardState, NEW from \in Nat, NEW to \in Nat,
         from > s.lastIncludedIndex, from <= to, to <= LastLogIndex(s)
  PROVE  /\ EntriesBetween(s, from, to) \in Seq(LogEntry)
         /\ Len(EntriesBetween(s, from, to)) = to - from + 1
         /\ \A k \in 1 .. to - from + 1 : EntriesBetween(s, from, to)[k] = EntryAt(s, from + k - 1)
<1>1. PICK b, log, e : b = s.lastIncludedIndex /\ log = s.log /\ e = EntriesBetween(s, from, to)
  OBVIOUS
<1>2. b \in Nat /\ log \in Seq(LogEntry) /\ Len(log) \in Nat /\ LastLogIndex(s) = b + Len(log) - 1
  BY <1>1, HardStateFields DEF LastLogIndex
<1>3. PICK x, y : x = from - b + 1 /\ y = to - b + 1
  OBVIOUS
<1>4. /\ x \in 1 .. Len(log) /\ y \in 1 .. Len(log) /\ x <= y /\ y - x + 1 = to - from + 1
      /\ x \in Nat /\ y \in Nat
  <2>1. PICK l : l = Len(log)
    OBVIOUS
  <2>2. b \in Nat /\ l \in Nat /\ from > b /\ to <= b + l - 1
    BY <1>1, <1>2, <2>1
  <2>3. x \in Nat /\ y \in Nat /\ 1 <= x /\ x <= y /\ y <= l
    BY <1>3, <2>2
  <2>4. y - x + 1 = to - from + 1
    BY <1>3, <2>2
  <2> QED BY <2>1, <2>2, <2>3, <2>4
<1>5. e = SubSeq(log, x, y)
  BY <1>1, <1>3 DEF EntriesBetween
<1>6. /\ e \in Seq(LogEntry) /\ Len(e) = y - x + 1
      /\ \A k \in 1 .. y - x + 1 : e[k] = log[x + k - 1]
  BY <1>2, <1>4, <1>5
<1>7. ASSUME NEW k \in 1 .. Len(e)
      PROVE  e[k] = EntryAt(s, from + k - 1)
  <2>1. e[k] = log[x + k - 1] /\ k \in Nat
    BY <1>4, <1>6, <1>7
  <2>2. PICK z : z = from + k - 1
    OBVIOUS
  <2>3. x + k - 1 = z - b + 1
    <3>1. from \in Nat /\ b \in Nat /\ k \in Nat
      BY <1>2, <2>1
    <3> QED BY <1>3, <2>2, <3>1
  <2>4. e[k] = EntryAt(s, z)
    BY <1>1, <2>1, <2>3 DEF EntryAt
  <2> QED BY <2>2, <2>4
<1> QED BY <1>1, <1>4, <1>6, <1>7

LEMMA AppliedStays ==
  ASSUME decided \subseteq decided', NEW d, NEW i, Applied(d, i)
  PROVE  Applied(d, i)'
BY DEF Applied

LEMMA JoinedSeq ==
  ASSUME NEW S, NEW d \in Seq(S), NEW m \in Seq(S), NEW e, e = d \o m
  PROVE  /\ Len(d) \in Nat /\ Len(m) \in Nat /\ Len(e) = Len(d) + Len(m)
         /\ \A j \in 1 .. Len(d) : e[j] = d[j]
         /\ \A j \in Len(d) + 1 .. Len(e) : e[j] = m[j - Len(d)]
OBVIOUS

(* The entries of d are those of the indices 1 .. i, all of D; and a log's *)
(* of the indices c + 1 .. i.                                              *)
AreEntries(d, i, D) == Len(d) = i /\ \A j \in 1 .. i : d[j].index = j /\ d[j] \in D

HasEntries(s, c, i, D) == \A j \in c + 1 .. i : EntryAt(s, j).index = j /\ EntryAt(s, j) \in D

LEMMA AppliedMore ==
  ASSUME NEW D, NEW G, D \subseteq G, NEW d \in Seq(LogEntry), NEW c \in Nat, NEW i \in Nat, c < i,
         AreEntries(d, c, D),
         NEW s \in HardState, HasEntries(s, c, i, G),
         s.lastIncludedIndex <= c, i <= LastLogIndex(s)
  PROVE  AreEntries(d \o EntriesBetween(s, c + 1, i), i, G)
<1> USE DEF AreEntries, HasEntries
<1>1. PICK more, e : more = EntriesBetween(s, c + 1, i) /\ e = d \o EntriesBetween(s, c + 1, i)
  OBVIOUS
<1>2. s.lastIncludedIndex \in Nat
  BY HardStateFields
<1>3. /\ c + 1 \in Nat /\ c + 1 > s.lastIncludedIndex /\ c + 1 <= i
  BY <1>2
<1>4. PICK f : f = c + 1
  OBVIOUS
<1>5. /\ more \in Seq(LogEntry) /\ Len(more) = i - c
      /\ \A k \in 1 .. Len(more) : more[k] = EntryAt(s, f + k - 1)
  <2>1. f \in Nat /\ f > s.lastIncludedIndex /\ f <= i /\ more = EntriesBetween(s, f, i)
    BY <1>1, <1>3, <1>4
  <2>2. /\ more \in Seq(LogEntry) /\ Len(more) = i - f + 1
        /\ \A k \in 1 .. i - f + 1 : more[k] = EntryAt(s, f + k - 1)
    <3>1. EntriesBetween(s, f, i) \in Seq(LogEntry)
      BY <2>1, EntriesTo
    <3>2. Len(EntriesBetween(s, f, i)) = i - f + 1
      BY <2>1, EntriesTo
    <3>3. \A k \in 1 .. i - f + 1 : EntriesBetween(s, f, i)[k] = EntryAt(s, f + k - 1)
      BY <2>1, EntriesTo
    <3> QED BY <2>1, <3>1, <3>2, <3>3
  <2>3. i - f + 1 = i - c
    BY <1>4
  <2> QED BY <2>2, <2>3
<1>6. e = d \o more
  BY <1>1
<1>7. Len(e) = i
  <2>1. Len(e) = Len(d) + Len(more)
    BY <1>5, <1>6, JoinedSeq
  <2> QED BY <1>5, <2>1
<1>8. ASSUME NEW j \in 1 .. i
      PROVE  e[j].index = j /\ e[j] \in G
  <2>1. CASE j <= c
    <3>1. j \in 1 .. Len(d)
      BY <1>8, <2>1
    <3>2. e[j] = d[j]
      BY <1>5, <1>6, <3>1, JoinedSeq
    <3>3. d[j].index = j /\ d[j] \in D
      BY <3>1
    <3> QED BY <3>2, <3>3
  <2>2. CASE ~(j <= c)
    <3>1. PICK k : k = j - c
      OBVIOUS
    <3>2. k \in 1 .. Len(more) /\ f + k - 1 = j /\ j \in c + 1 .. i
      BY <1>4, <1>5, <1>8, <2>2, <3>1
    <3>3. e[j] = more[k]
      <4>1. j \in Len(d) + 1 .. Len(e) /\ j - Len(d) = k
        BY <1>7, <1>8, <2>2, <3>1
      <4>2. e[j] = more[j - Len(d)]
        <5>1. d \in Seq(LogEntry) /\ more \in Seq(LogEntry)
          BY <1>5
        <5> QED BY <1>6, <4>1, <5>1, JoinedSeq
      <4> QED BY <4>1, <4>2
    <3>4. more[k] = EntryAt(s, j)
      BY <1>5, <3>2
    <3>5. PICK a : a = EntryAt(s, j)
      OBVIOUS
    <3>6. a.index = j /\ a \in G
      BY <3>2, <3>5
    <3> QED BY <3>3, <3>4, <3>5, <3>6
  <2> QED BY <2>1, <2>2
<1> QED BY <1>1, <1>7, <1>8

LEMMA AppliesMore ==
  ASSUME Known, Known', SafetyInv, NEW n \in Node, NodeTurn(n), up[n], NEW i \in Nat, Applies(n, i),
         NEW s, s = st'[n], NEW c, c = commitIndex[n], c < i, s.lastIncludedIndex <= c,
         i <= LastLogIndex(s),
         \A j \in c + 1 .. i : EntryAt(s, j).index = j /\ EntryAt(s, j) \in decided'
  PROVE  /\ commitIndex'[n] = i /\ lastApplied'[n] = i
         /\ Applied(data[n], lastApplied[n])'
<1>1. /\ lastApplied[n] = c /\ c \in Nat /\ Applied(data[n], c) /\ data[n] \in Seq(LogEntry)
  BY NodeStates DEF SafetyInv, ProgressOK, Known, TypeOK, ProgressType
<1>2. s \in HardState /\ LastLogIndex(s) \in Nat /\ s.lastIncludedIndex \in Nat
  BY NodeStatesNext
<1>3. Larger(lastApplied[n] + 1, s.lastIncludedIndex) = c + 1
  BY <1>1, <1>2 DEF Larger
<1>4. Smaller(i, LastLogIndex(s)) = i
  BY <1>2 DEF Smaller
<1>5. /\ commitIndex'[n] = i /\ lastApplied'[n] = Larger(lastApplied[n], i)
      /\ data'[n] = data[n] \o EntriesBetween(s, c + 1, i)
  BY <1>3, <1>4 DEF Applies
<1>6. lastApplied'[n] = i
  BY <1>1, <1>5 DEF Larger
<1>7. PICK e, d : e = data'[n] /\ d = data[n]
  OBVIOUS
<1>8. Len(d) = c /\ (\A j \in 1 .. c : d[j].index = j /\ d[j] \in decided) /\ d \in Seq(LogEntry)
  BY <1>1, <1>7 DEF Applied
<1>9. decided \subseteq decided'
  BY TurnGrows
<1>10. e = d \o EntriesBetween(s, c + 1, i)
  BY <1>5, <1>7
<1>11. Len(e) = i /\ \A j \in 1 .. i : e[j].index = j /\ e[j] \in decided'
  <2>1. PICK D, G : D = decided /\ G = decided'
    OBVIOUS
  <2>2. D \subseteq G /\ AreEntries(d, c, D)
    BY <1>8, <1>9, <2>1 DEF AreEntries
  <2>3. HasEntries(s, c, i, G)
    BY <2>1 DEF HasEntries
  <2>4. d \in Seq(LogEntry) /\ c \in Nat /\ Len(d) = c /\ c < i
    BY <1>1, <1>8
  <2>5. s \in HardState /\ s.lastIncludedIndex <= c /\ i <= LastLogIndex(s)
    BY <1>2
  <2>6. AreEntries(d \o EntriesBetween(s, c + 1, i), i, G)
    BY <2>2, <2>3, <2>4, <2>5, AppliedMore
  <2> QED BY <1>10, <2>1, <2>6 DEF AreEntries
<1>12. Applied(data[n], lastApplied[n])'
  BY <1>6, <1>7, <1>11 DEF Applied
<1> QED BY <1>5, <1>6, <1>12

(* A merge leaves what is committed where it was.                          *)
LEMMA MergeKeeps ==
  ASSUME Known, SafetyInv, NEW n \in Node, up[n], NEW m \in Appends, NEW w, MergedTo(n, w, m),
         NEW c, c = commitIndex[n]
  PROVE  /\ w.lastIncludedIndex = st[n].lastIncludedIndex
         /\ c <= LastLogIndex(w)
         /\ GetLogTerm(w, c) = GetLogTerm(st[n], c)
<1>1. PICK t, p, E, T : t = st[n] /\ p = m.prevIndex /\ E = End(m) /\ T = m.term
  OBVIOUS
<1>2. /\ t \in HardState /\ LogOK(t) /\ t.lastIncludedIndex \in Nat /\ LastLogIndex(t) \in Nat
      /\ c \in Nat /\ t.lastIncludedIndex <= c /\ c <= LastLogIndex(t)
      /\ ChosenAt(<<c, GetLogTerm(t, c)>>) /\ hs[n].currentTerm <= t.currentTerm
      /\ t.currentTerm \in Nat /\ hs[n].currentTerm \in Nat
  BY <1>1, NodeStates DEF SafetyInv, ProgressOK
<1>3. /\ w \in HardState /\ LogOK(w) /\ Base(w) = Base(t)
      /\ w.lastIncludedIndex = t.lastIncludedIndex
      /\ p \in Nat /\ E \in Nat /\ t.lastIncludedIndex <= p /\ p <= LastLogIndex(t) /\ p <= E
      /\ E <= LastLogIndex(w)
      /\ \A j \in p .. E : GetLogTerm(w, j) = AppendTerms(m)[j]
      /\ \/ SameLog(w, t)
         \/ /\ LastLogIndex(w) = E
            /\ \A i \in Held(w) : i <= p => i \in Held(t) /\ EntryAt(w, i) = EntryAt(t, i)
  BY <1>1, MergedMiddle
<1>4. /\ T \in Nat /\ T >= t.currentTerm /\ T \in DOMAIN Starts /\ E >= Starts[T].index
      /\ OwnMark(Starts, E, GetLogTerm(w, E), T) /\ GetLogTerm(w, E) \in Nat
      /\ \/ SameLog(w, t)
         \/ \A i \in Held(t) : EntryAt(t, i).term = T => i < E
  BY <1>1, MergedEnd
<1>5. CASE SameLog(w, t)
  BY <1>1, <1>2, <1>5, SameLogs
<1>6. CASE ~SameLog(w, t) /\ c <= p
  <2>1. LastLogIndex(w) = E /\ c <= LastLogIndex(w)
    BY <1>2, <1>3, <1>6
  <2>2. CASE c = t.lastIncludedIndex
    <3>1. w.lastIncludedTerm = t.lastIncludedTerm
      BY <1>3 DEF Base
    <3> QED BY <1>1, <1>3, <2>1, <2>2, <3>1 DEF GetLogTerm
  <2>3. CASE c # t.lastIncludedIndex
    <3>1. c \in Held(w)
      BY <1>2, <1>3, <2>1, <2>3, HardStateFields DEF Held
    <3>2. c \in Held(t) /\ EntryAt(w, c) = EntryAt(t, c)
      BY <1>3, <1>6, <3>1
    <3>3. GetLogTerm(w, c) = GetLogTerm(t, c)
      BY <1>2, <1>3, <3>1, <3>2, TermsLine
    <3> QED BY <1>1, <1>3, <2>1, <3>3
  <2> QED BY <2>2, <2>3
<1>7. CASE ~SameLog(w, t) /\ ~(c <= p)
  <2>1. c > p /\ c > t.lastIncludedIndex /\ c \in Held(t) /\ c >= 1
    BY <1>2, <1>3, <1>7 DEF Held
  <2>2. PICK k : k = <<c, GetLogTerm(t, c)>>
    OBVIOUS
  <2>3. k[1] = c /\ k[2] = GetLogTerm(t, c) /\ k[2] = EntryAt(t, c).term
    BY <1>2, <2>1, <2>2, TermsLine
  <2>4. Chosen(k)
    BY <1>2, <2>1, <2>2, <2>3 DEF ChosenAt
  <2>5. /\ GoodStarts(Starts) /\ MarksOK /\ VotesGood /\ DecidedOK /\ LinesRooted
    BY StartsGood DEF SafetyInv
  <2>6. /\ k[1] \in Nat /\ k[2] \in Nat /\ MarkOK(Starts, k[1], k[2]) /\ k[2] > 0
        /\ NoBad(Starts, k[1], k[2], T)
    BY <2>4, <2>5, ChosenFacts DEF IsMark
  <2>7. k[2] <= T
    <3>1. EntryAt(t, c) \in HeldEntries(t)
      BY <1>2, <2>1, HeldEntry
    <3>2. EntryAt(t, c).term <= hs[n].currentTerm
      BY <1>1, <3>1 DEF Known, LogInv, TermsBounded
    <3> QED BY <1>2, <1>4, <2>3, <2>6, <3>2
  <2>8. k[2] = T => c <= E /\ c > Starts[T].index
    <3> SUFFICES ASSUME k[2] = T
                 PROVE  c <= E /\ c > Starts[T].index
      OBVIOUS
    <3>1. c < E
      BY <1>4, <1>7, <2>1, <2>3
    <3>2. c > Starts[T].index
      BY <2>3, <2>6 DEF MarkOK
    <3> QED BY <1>2, <1>3, <3>1, <3>2
  <2>9. Past(E, GetLogTerm(w, E), k[1], k[2])
    <3>1. k[2] < T \/ (k[2] = T /\ k[1] <= E /\ k[1] > Starts[T].index)
      BY <1>4, <2>3, <2>6, <2>7, <2>8
    <3> QED BY <1>3, <1>4, <2>5, <2>6, <3>1, OwnerPast
  <2>10. PICK f : f = AppendTerms(m)
    OBVIOUS
  <2>11. /\ IsLine(f) /\ Rooted(Starts, f) /\ DOMAIN f = p .. E
    <3>1. TypeOK /\ LogsOK
      BY DEF Known, LogInv
    <3>2. IsLine(AppendTerms(m)) /\ DOMAIN AppendTerms(m) = m.prevIndex .. End(m)
      BY <3>1, AppendLine
    <3> QED BY <1>1, <2>5, <2>10, <3>2 DEF LinesRooted
  <2>12. E \in DOMAIN f /\ f[E] = GetLogTerm(w, E)
    BY <1>3, <2>10, <2>11
  <2>13. E >= c /\ (c \in DOMAIN f => f[c] = k[2])
    BY <2>3, <2>4, <2>5, <2>9, <2>11, <2>12, LineHasChosen
  <2>14. c \in p .. E
    BY <1>2, <1>3, <2>1, <2>13
  <2>15. GetLogTerm(w, c) = k[2]
    BY <1>3, <2>10, <2>11, <2>13, <2>14
  <2>16. LastLogIndex(w) \in Nat
    BY <1>3, HardStateFields
  <2>17. c <= LastLogIndex(w)
    BY <1>2, <1>3, <2>13, <2>16
  <2> QED BY <1>1, <1>3, <2>3, <2>15, <2>17
<1> QED BY <1>5, <1>6, <1>7

Progress(n) ==
  /\ Applied(data[n], lastApplied[n])
  /\ up[n] =>
       /\ st[n].lastIncludedIndex <= lastApplied[n]
       /\ lastApplied[n] = commitIndex[n]
       /\ commitIndex[n] <= LastLogIndex(st[n])
       /\ ChosenAt(<<commitIndex[n], GetLogTerm(st[n], commitIndex[n])>>)

LEMMA ChosenAtStays ==
  ASSUME Known, Known', SafetyInv, NEW n \in Node, NodeTurn(n), NEW k, ChosenAt(k)
  PROVE  ChosenAt(k)'
<1>1. CASE k = <<0, 0>>
  BY <1>1 DEF ChosenAt
<1>2. CASE Chosen(k)
  <2>1. Chosen(k)'
    BY <1>2, ChosenStays
  <2> QED BY <2>1 DEF ChosenAt
<1> QED BY <1>1, <1>2 DEF ChosenAt

LEMMA RestKeeps ==
  ASSUME Known, Known', SafetyInv, NEW n \in Node, NodeTurn(n), NEW l \in Node,
         up'[l] = up[l], commitIndex'[l] = commitIndex[l], lastApplied'[l] = lastApplied[l],
         data'[l] = data[l], NEW s, s = st'[l], NEW c, c = commitIndex[l],
         up[l] => /\ s.lastIncludedIndex <= lastApplied[l]
                  /\ c <= LastLogIndex(s)
                  /\ GetLogTerm(s, c) = GetLogTerm(st[l], c)
  PROVE  Progress(l)'
<1>1. Applied(data[l], lastApplied[l])'
  <2>1. PICK d, i : d = data[l] /\ i = lastApplied[l]
    OBVIOUS
  <2>2. Applied(d, i)
    BY <2>1 DEF SafetyInv, ProgressOK
  <2>3. Applied(d, i)'
    BY <2>2, AppliedStays, TurnGrows
  <2> QED BY <2>1, <2>3
<1>2. ASSUME up'[l]
      PROVE  /\ s.lastIncludedIndex <= lastApplied'[l]
             /\ lastApplied'[l] = commitIndex'[l]
             /\ commitIndex'[l] <= LastLogIndex(s)
             /\ ChosenAt(<<commitIndex[l], GetLogTerm(st[l], commitIndex[l])>>)'
  <2>1. PICK k : k = <<c, GetLogTerm(st[l], c)>>
    OBVIOUS
  <2>2. ChosenAt(k) /\ lastApplied[l] = c
    BY <1>2, <2>1 DEF SafetyInv, ProgressOK
  <2>3. ChosenAt(k)'
    BY <2>2, ChosenAtStays
  <2>4. k = <<commitIndex'[l], GetLogTerm(s, commitIndex'[l])>>
    BY <1>2, <2>1
  <2>5. ChosenAt(<<commitIndex[l], GetLogTerm(st[l], commitIndex[l])>>)'
    BY <2>3, <2>4
  <2> QED BY <1>2, <2>2, <2>5
<1> QED BY <1>1, <1>2 DEF Progress

LEMMA PushKeeps ==
  ASSUME Known, SafetyInv, NEW n \in Node, up[n], role[n] = "Leader", NEW v \in Value,
         NEW s, s = PushEntry(st[n], v), NEW c, c = commitIndex[n]
  PROVE  /\ s.lastIncludedIndex <= lastApplied[n]
         /\ c <= LastLogIndex(s)
         /\ GetLogTerm(s, c) = GetLogTerm(st[n], c)
<1>1. PICK t : t = st[n]
  OBVIOUS
<1>2. /\ t \in HardState /\ LogOK(t) /\ LastLogIndex(t) \in Nat /\ c \in Nat
      /\ t.lastIncludedIndex \in Nat
      /\ t.lastIncludedIndex <= lastApplied[n] /\ t.lastIncludedIndex <= c
      /\ c <= LastLogIndex(t)
  BY <1>1, NodeStates DEF SafetyInv, ProgressOK
<1>3. /\ s \in HardState /\ LastLogIndex(s) = LastLogIndex(t) + 1
      /\ s.lastIncludedIndex = t.lastIncludedIndex
      /\ s.lastIncludedTerm = t.lastIncludedTerm
      /\ \A j \in Held(s) : \/ j \in Held(t) /\ EntryAt(s, j) = EntryAt(t, j)
                            \/ j = LastLogIndex(s)
  BY <1>1, PushedFull DEF SafetyInv
<1>4. GetLogTerm(s, c) = GetLogTerm(t, c)
  <2>1. CASE c = t.lastIncludedIndex
    BY <1>3, <2>1 DEF GetLogTerm
  <2>2. CASE c # t.lastIncludedIndex
    <3>1. c \in Held(s) /\ c # LastLogIndex(s)
      BY <1>2, <1>3, <2>2 DEF Held
    <3>2. c \in Held(t) /\ EntryAt(s, c) = EntryAt(t, c)
      BY <1>3, <3>1
    <3> QED BY <1>2, <1>3, <3>1, <3>2, TermsLine
  <2> QED BY <2>1, <2>2
<1> QED BY <1>1, <1>2, <1>3, <1>4

LEMMA LearnsMore ==
  ASSUME Known, Known', SafetyInv, NEW n \in Node, NodeTurn(n), Learns(n)
  PROVE  Progress(n)'
<1>1. PICK m \in Appends :
        /\ MergedBy(n, m) /\ st'[n] = hs'[n] /\ decided' = decided
        /\ m.leaderCommit > commitIndex[n]
        /\ Applies(n, Smaller(m.leaderCommit, LastLogIndex(st'[n])))
  BY DEF Learns
<1>2. PICK w, c, L, E, T : /\ w = st'[n] /\ c = commitIndex[n] /\ L = m.leaderCommit
                           /\ E = End(m) /\ T = m.term
  OBVIOUS
<1>3. MergedTo(n, w, m)
  BY <1>1, <1>2 DEF MergedBy, MergedTo, Merged
<1>4. up[n] /\ up'[n]
  BY <1>1 DEF Applies
<1>5. /\ TypeOK /\ LogsOK /\ DecidedOK /\ MarksOK /\ VotesGood /\ LinesRooted /\ CommitsOK
      /\ GoodStarts(Starts)
  BY StartsGood DEF Known, LogInv, SafetyInv
<1>6. /\ w \in HardState /\ LogOK(w) /\ LastLogIndex(w) \in Nat /\ w.lastIncludedIndex \in Nat
      /\ c \in Nat /\ L \in Nat /\ L > c
      /\ w.lastIncludedIndex <= c
  <2>1. w.lastIncludedIndex = st[n].lastIncludedIndex
    BY <1>2, <1>3, <1>4, MergeKeeps
  <2>2. st[n].lastIncludedIndex <= c
    BY <1>2, <1>4 DEF SafetyInv, ProgressOK
  <2>3. m.leaderCommit \in Nat
    BY <1>5, AppendLine
  <2> QED BY <1>1, <1>2, <2>1, <2>2, <2>3, NodeStates, NodeStatesNext
<1>7. /\ T \in Nat /\ T \in DOMAIN Starts /\ E \in Nat /\ E >= Starts[T].index
      /\ OwnMark(Starts, E, GetLogTerm(w, E), T) /\ GetLogTerm(w, E) \in Nat
  BY <1>2, <1>3, MergedEnd
<1>8. E <= LastLogIndex(w)
  BY <1>2, <1>3, MergedMiddle
<1>9. L <= E /\ \E x \in 0 .. T : Chosen(<<L, x>>)
  <2>1. /\ m.leaderCommit <= End(m)
        /\ m.leaderCommit = 0 \/ \E x \in 0 .. m.term : Chosen(<<m.leaderCommit, x>>)
    BY <1>5 DEF CommitsOK
  <2>2. L # 0
    BY <1>6
  <2> QED BY <1>2, <2>1, <2>2
<1>10. PICK x \in 0 .. T : Chosen(<<L, x>>)
  BY <1>9
<1>11. PICK k : k = <<L, x>>
  OBVIOUS
<1>12. /\ k[1] = L /\ k[2] = x /\ Chosen(k)
       /\ NoBad(Starts, k[1], k[2], T) /\ MarkOK(Starts, k[1], k[2]) /\ k[2] \in Nat /\ k[2] > 0
       /\ L \in DOMAIN DecidedTerms /\ DecidedTerms[L] = x
  <2>1. k[1] = L /\ k[2] = x /\ Chosen(k)
    BY <1>10, <1>11
  <2> QED BY <1>5, <2>1, ChosenFacts DEF IsMark
<1>13. Past(E, GetLogTerm(w, E), k[1], k[2])
  <2>1. k[2] = T => k[1] > Starts[T].index
    BY <1>12 DEF MarkOK
  <2>2. k[2] < T \/ (k[2] = T /\ k[1] <= E /\ k[1] > Starts[T].index)
    BY <1>7, <1>9, <1>10, <1>12, <2>1
  <2> QED BY <1>5, <1>6, <1>7, <1>12, <2>2, OwnerPast
<1>14. PICK f : f = Terms(w)
  OBVIOUS
<1>15. /\ IsLine(f) /\ DOMAIN f = Held(w)
       /\ \A i \in Held(w) : f[i] = EntryAt(w, i).term /\ GetLogTerm(w, i) = EntryAt(w, i).term
  BY <1>6, <1>14, TermsLine
<1>16. Rooted(Starts, f)
  <2>1. From(n, w)
    BY <1>3 DEF From
  <2> QED BY <1>14, <2>1, LineFrom
<1>17. E \in Held(w) /\ L \in Held(w)
  BY <1>6, <1>7, <1>8, <1>9 DEF Held
<1>18. f[L] = x
  <2>1. f[E] = GetLogTerm(w, E)
    BY <1>15, <1>17
  <2>2. k[1] \in DOMAIN f => f[k[1]] = k[2]
    BY <1>5, <1>12, <1>13, <1>15, <1>16, <1>17, <2>1, LineHasChosen
  <2> QED BY <1>12, <1>15, <1>17, <2>2
<1>19. HeldEntries(w) \subseteq Entries
  <2>1. PICK u \in HardState :
          /\ SameLog(u, st[n]) /\ LogOK(u)
          /\ AppendConsistent(u, m.prevIndex, m.prevTerm) /\ w = Merged(u, m)
    BY <1>3, MergeReady
  <2>2. HeldEntries(w) \subseteq HeldEntries(u) \cup {m.entries[i] : i \in 1 .. Len(m.entries)}
    BY <1>5, <2>1, MergedFacts
  <2>3. HeldEntries(u) = HeldEntries(st[n])
    BY <2>1, SameLogs
  <2>4. {m.entries[i] : i \in 1 .. Len(m.entries)} \subseteq SentEntries
    BY <1>5, AppendLine
  <2> QED BY <2>2, <2>3, <2>4 DEF Entries
<1>20. ASSUME NEW j \in c + 1 .. L
       PROVE  EntryAt(w, j).index = j /\ EntryAt(w, j) \in decided'
  <2>1. j \in Held(w) /\ j <= k[1] /\ j >= 1 /\ j \in Nat
    BY <1>6, <1>8, <1>9, <1>7, <1>12, <1>20 DEF Held
  <2>2. j \in DOMAIN DecidedTerms /\ f[j] = DecidedTerms[j]
    <3>1. Rooted(Starts, DecidedTerms) /\ k[1] \in DOMAIN f /\ f[k[1]] = k[2] /\ j \in DOMAIN f
      BY <1>5, <1>12, <1>15, <1>17, <1>18, <2>1 DEF LinesRooted
    <3> QED BY <1>5, <1>12, <1>15, <1>16, <2>1, <3>1, LineIsDecided
  <2>3. EntryAt(w, j) \in decided /\ EntryAt(w, j).index = j
    BY <1>5, <1>6, <1>14, <1>19, <2>1, <2>2, HeldIsDecided
  <2> QED BY <1>1, <2>3
<1>21. Smaller(L, LastLogIndex(w)) = L /\ L <= LastLogIndex(w)
  BY <1>6, <1>7, <1>8, <1>9 DEF Smaller
<1>22. /\ commitIndex'[n] = L /\ lastApplied'[n] = L
       /\ Applied(data[n], lastApplied[n])'
  <2>1. Applies(n, L)
    BY <1>1, <1>2, <1>21
  <2> QED BY <1>2, <1>4, <1>6, <1>20, <1>21, <2>1, AppliesMore
<1>23. GetLogTerm(w, L) = x
  BY <1>15, <1>17, <1>18
<1>24. ChosenAt(k)'
  BY <1>12, ChosenAtStays DEF ChosenAt
<1>25. k = <<commitIndex'[n], GetLogTerm(st'[n], commitIndex'[n])>>
  BY <1>2, <1>11, <1>22, <1>23
<1>26. ChosenAt(<<commitIndex[n], GetLogTerm(st[n], commitIndex[n])>>)'
  BY <1>24, <1>25
<1>27. st'[n].lastIncludedIndex <= lastApplied'[n]
  BY <1>2, <1>6, <1>22
<1> QED BY <1>2, <1>21, <1>22, <1>26, <1>27 DEF Progress

LEMMA CommitProgress ==
  ASSUME Known, Known', SafetyInv, NEW n \in Node, NodeTurn(n), NEW i, CommitsTo(n, i)
  PROVE  Progress(n)'
<1>1. PICK s, c : s = st'[n] /\ c = commitIndex[n]
  OBVIOUS
<1>2. /\ c \in Nat /\ i \in Nat /\ c < i /\ s.lastIncludedIndex \in Nat
      /\ s.lastIncludedIndex <= c /\ i <= LastLogIndex(s) /\ LastLogIndex(s) \in Nat
      /\ s \in HardState /\ LogOK(s)
  BY <1>1, CommitAdds
<1>3. \A j \in c + 1 .. i : /\ j \in Held(s) /\ EntryAt(s, j).index = j
                            /\ EntryAt(s, j) \in decided'
  BY <1>1, CommitAdds
<1>4. Applies(n, i) /\ up[n] /\ EntryAt(s, i).term = s.currentTerm /\ i \in Held(s)
  BY <1>1 DEF CommitsTo
<1>5. /\ commitIndex'[n] = i /\ lastApplied'[n] = i
      /\ Applied(data[n], lastApplied[n])'
  <2>1. \A j \in c + 1 .. i : EntryAt(s, j).index = j /\ EntryAt(s, j) \in decided'
    BY <1>3
  <2> QED BY <1>1, <1>2, <1>4, <2>1, AppliesMore
<1>6. PICK k : k = <<i, s.currentTerm>>
  OBVIOUS
<1>7. Chosen(k)'
  BY <1>1, <1>6, CommitsChosen
<1>8. GetLogTerm(s, i) = s.currentTerm
  BY <1>2, <1>4, TermsLine
<1>9. k = <<commitIndex'[n], GetLogTerm(st'[n], commitIndex'[n])>>
  BY <1>1, <1>5, <1>6, <1>8
<1>10. ChosenAt(<<commitIndex[n], GetLogTerm(st[n], commitIndex[n])>>)'
  BY <1>7, <1>9 DEF ChosenAt
<1>11. st'[n].lastIncludedIndex <= lastApplied'[n]
  BY <1>1, <1>2, <1>5
<1> QED BY <1>1, <1>2, <1>5, <1>10, <1>11 DEF Progress

LEMMA AdoptProgress ==
  ASSUME Known, Known', SafetyInv, NEW n \in Node, NodeTurn(n), Adopts(n)
  PROVE  Progress(n)'
<1>1. PICK m \in Installs :
        /\ InstalledBy(n, m) /\ up[n] /\ up'[n] /\ decided' = decided
        /\ commitIndex'[n] = m.index /\ lastApplied'[n] = m.index /\ data'[n] = m.body.data
  BY DEF Adopts
<1>2. PICK s : s = st'[n]
  OBVIOUS
<1>3. InstalledTo(n, s, m) /\ m.body.index = m.index
  BY <1>1, <1>2 DEF InstalledBy, InstalledTo, BodyMatches
<1>4. /\ s.lastIncludedIndex = m.index /\ s.lastIncludedTerm = m.snapTerm
      /\ LastLogIndex(s) = m.index /\ m.index \in Nat
  BY <1>1, <1>3, InstallReady
<1>5. Chosen(<<m.index, m.snapTerm>>) /\ Applied(m.body.data, m.body.index)
  BY DEF SafetyInv, SnapshotsOK
<1>6. Applied(data[n], lastApplied[n])'
  <2>1. PICK d, i : d = m.body.data /\ i = m.index
    OBVIOUS
  <2>2. Applied(d, i)
    BY <1>3, <1>5, <2>1
  <2>3. Applied(d, i)'
    BY <2>2, AppliedStays, TurnGrows
  <2> QED BY <1>1, <2>1, <2>3
<1>7. ChosenAt(<<commitIndex[n], GetLogTerm(st[n], commitIndex[n])>>)'
  <2>1. PICK k : k = <<m.index, m.snapTerm>>
    OBVIOUS
  <2>2. Chosen(k)
    BY <1>5, <2>1
  <2>3. Chosen(k)'
    BY <2>2, ChosenStays
  <2>4. GetLogTerm(s, m.index) = m.snapTerm
    BY <1>4 DEF GetLogTerm
  <2>5. k = <<commitIndex'[n], GetLogTerm(st'[n], commitIndex'[n])>>
    BY <1>1, <1>2, <2>1, <2>4
  <2> QED BY <2>3, <2>5 DEF ChosenAt
<1> QED BY <1>1, <1>2, <1>4, <1>6, <1>7 DEF Progress

LEMMA ReturnProgress ==
  ASSUME Known, Known', SafetyInv, NEW n \in Node, NodeTurn(n), Returns(n)
  PROVE  Progress(n)'
<1>1. PICK s, file, h, b : /\ s = st'[n] /\ file = snapFile[n] /\ h = hs[n]
                           /\ b = s.lastIncludedIndex
  OBVIOUS
<1>2. /\ Startable(h, file) /\ s = Recovered(h, file) /\ up'[n]
      /\ commitIndex'[n] = b /\ lastApplied'[n] = b
      /\ data'[n] = IF file = Nil THEN <<>> ELSE file.data
  BY <1>1 DEF Returns
<1>3. /\ h.lastIncludedIndex \in Nat /\ h \in HardState
      /\ h.lastIncludedIndex = st[n].lastIncludedIndex
      /\ h.lastIncludedTerm = st[n].lastIncludedTerm
      /\ file = Nil => h.lastIncludedIndex = 0
      /\ file # Nil => /\ file.index \in Nat /\ h.lastIncludedIndex <= file.index
                       /\ Chosen(<<file.index, file.term>>) /\ Applied(file.data, file.index)
  BY <1>1, FileFacts, NodeStates, HardStateFields
<1>4. /\ s = h \/ (file # Nil /\ Base(s) = <<file.index, file.term>> /\ b = file.index)
      /\ s \in HardState
  BY <1>1, <1>2, ReturnedLog
<1>5. file # Nil => b = file.index
  <2>1. CASE file # Nil /\ file.index > h.lastIncludedIndex
    <3>1. CASE s = h
      <4>1. s.lastIncludedIndex = file.index
        BY <1>2, <2>1 DEF Recovered, Reconciled, StartAt
      <4> QED BY <1>1, <4>1
    <3> QED BY <1>4, <3>1
  <2>2. CASE file # Nil /\ ~(file.index > h.lastIncludedIndex)
    <3>1. s = h
      BY <1>2, <2>2 DEF Recovered
    <3> QED BY <1>1, <1>3, <2>2, <3>1
  <2> QED BY <2>1, <2>2
<1>6. Applied(data[n], lastApplied[n])'
  <2>1. PICK d : d = data'[n]
    OBVIOUS
  <2>2. CASE file = Nil
    <3>1. b = 0 /\ d = <<>>
      BY <1>1, <1>2, <1>3, <1>4, <2>1, <2>2
    <3>2. Len(d) = 0
      BY <3>1
    <3> QED BY <1>2, <2>1, <3>1, <3>2 DEF Applied
  <2>3. CASE file # Nil
    <3>1. d = file.data /\ b = file.index
      BY <1>2, <1>5, <2>1, <2>3
    <3>2. Applied(d, b)
      BY <1>3, <2>3, <3>1
    <3>3. Applied(d, b)'
      BY <3>2, AppliedStays, TurnGrows
    <3> QED BY <1>2, <2>1, <3>3
  <2> QED BY <2>2, <2>3
<1>7. ChosenAt(Base(s))
  <2>1. CASE s = h
    BY <1>1, <2>1, NodeLines
  <2>2. CASE file # Nil /\ Base(s) = <<file.index, file.term>>
    BY <1>3, <2>2 DEF ChosenAt
  <2> QED BY <1>4, <2>1, <2>2
<1>8. ChosenAt(<<commitIndex[n], GetLogTerm(st[n], commitIndex[n])>>)'
  <2>1. PICK k : k = Base(s)
    OBVIOUS
  <2>2. ChosenAt(k)'
    BY <1>7, <2>1, ChosenAtStays
  <2>3. k = <<b, GetLogTerm(s, b)>>
    BY <1>1, <2>1 DEF Base, GetLogTerm
  <2> QED BY <1>1, <1>2, <2>2, <2>3
<1>9. b <= LastLogIndex(s) /\ b \in Nat
  BY <1>1, <1>4, HardStateFields
<1>10. /\ st'[n].lastIncludedIndex <= lastApplied'[n] /\ lastApplied'[n] = commitIndex'[n]
       /\ commitIndex'[n] <= LastLogIndex(st'[n])
  <2>1. st'[n].lastIncludedIndex = b /\ b <= LastLogIndex(st'[n])
    BY <1>1, <1>9
  <2> QED BY <1>2, <1>9, <2>1
<1> QED BY <1>6, <1>8, <1>10 DEF Progress

LEMMA KeepsProgress ==
  ASSUME Known, Known', SafetyInv, NEW n \in Node, NodeTurn(n)
  PROVE  ProgressOK'
<1>1. ASSUME NEW l \in Node, l # n
      PROVE  Progress(l)'
  <2>1. Untouched(l)
    BY <1>1 DEF NodeTurn
  <2>2. /\ up'[l] = up[l] /\ st'[l] = st[l] /\ commitIndex'[l] = commitIndex[l]
        /\ lastApplied'[l] = lastApplied[l] /\ data'[l] = data[l]
    BY <2>1 DEF Untouched
  <2>3. PICK s, c : s = st'[l] /\ c = commitIndex[l]
    OBVIOUS
  <2>4. up[l] => /\ s.lastIncludedIndex <= lastApplied[l]
                 /\ c <= LastLogIndex(s)
                 /\ GetLogTerm(s, c) = GetLogTerm(st[l], c)
    BY <2>2, <2>3 DEF SafetyInv, ProgressOK
  <2> QED BY <2>2, <2>3, <2>4, RestKeeps
<1>2. Progress(n)'
  <2>1. PICK s, c : s = st'[n] /\ c = commitIndex[n]
    OBVIOUS
  <2>2. ASSUME Rests(n),
               up[n] => /\ s.lastIncludedIndex <= lastApplied[n]
                        /\ c <= LastLogIndex(s)
                        /\ GetLogTerm(s, c) = GetLogTerm(st[n], c)
        PROVE  Progress(n)'
    BY <2>1, <2>2, RestKeeps DEF Rests
  <2>3. up[n] => /\ st[n].lastIncludedIndex <= lastApplied[n]
                 /\ lastApplied[n] = c /\ c <= LastLogIndex(st[n])
    BY <2>1 DEF SafetyInv, ProgressOK
  <2>4. CASE SameLog(s, st[n]) /\ Rests(n)
    BY <2>1, <2>2, <2>3, <2>4, SameLogs
  <2>5. CASE Rests(n) /\ Kept(n)
    BY <2>1, <2>4, <2>5 DEF Kept
  <2>6. CASE Rests(n) /\ PushedLog(n)
    <3>1. PICK v \in Value : st'[n] = PushEntry(st[n], v) \/ st'[n] = st[n]
      BY <2>6 DEF PushedLog
    <3>2. CASE st'[n] = st[n]
      BY <2>1, <2>4, <2>6, <3>2, SameLogSelf
    <3>3. CASE st'[n] = PushEntry(st[n], v)
      BY <2>1, <2>2, <2>6, <3>3, PushKeeps DEF PushedLog
    <3> QED BY <3>1, <3>2, <3>3
  <2>7. ASSUME NEW m \in Appends, MergedBy(n, m), Rests(n)
        PROVE  Progress(n)'
    <3>1. PICK u : u = UpdateTerm(st[n], m.term)
      OBVIOUS
    <3>2. s = u \/ MergedTo(n, s, m)
      BY <2>1, <2>7, <3>1 DEF MergedBy, MergedTo, Merged
    <3>3. CASE s = u
      <4>1. SameLog(u, st[n])
        <5>1. m.term \in Nat
          BY AppendLine DEF Known, LogInv
        <5>2. m.term >= st[n].currentTerm
          BY <2>7 DEF MergedBy
        <5> QED BY <3>1, <5>1, <5>2, UpdatedTo, NodeStates
      <4> QED BY <2>4, <2>7, <3>3, <4>1
    <3>4. CASE MergedTo(n, s, m)
      <4>1. up[n] => /\ s.lastIncludedIndex = st[n].lastIncludedIndex
                     /\ c <= LastLogIndex(s)
                     /\ GetLogTerm(s, c) = GetLogTerm(st[n], c)
        BY <2>1, <3>4, MergeKeeps
      <4> QED BY <2>2, <2>3, <2>7, <4>1
    <3> QED BY <3>2, <3>3, <3>4
  <2>8. CASE Rests(n) /\ up[n] /\ Compacted(n)
    <3>1. CompactedTo(n, s)
      BY <2>1, <2>8, AppliedInMemory DEF Compacted, CompactedTo, SafetyInv
    <3>2. PICK i : i = lastApplied[n]
      OBVIOUS
    <3>3. /\ s.lastIncludedIndex = i /\ s.lastIncludedTerm = GetLogTerm(st[n], i)
          /\ LastLogIndex(s) = LastLogIndex(st[n])
          /\ i \in Nat
      BY <3>1, <3>2, CompactReady
    <3>4. GetLogTerm(s, c) = GetLogTerm(st[n], c)
      BY <2>3, <2>8, <3>2, <3>3 DEF GetLogTerm
    <3> QED BY <2>2, <2>3, <2>8, <3>2, <3>3, <3>4
  <2>9. CASE Commits(n) /\ (Kept(n) \/ PushedLog(n))
    BY <2>9, CommitReady, CommitProgress
  <2>10. CASE Learns(n)
    BY <2>10, LearnsMore
  <2>11. CASE Adopts(n)
    BY <2>11, AdoptProgress
  <2>12. CASE Returns(n)
    BY <2>12, ReturnProgress
  <2>13. CASE Dies(n)
    <3>1. ~up'[n] /\ lastApplied'[n] = 0 /\ data'[n] = <<>>
      BY <2>13 DEF Dies
    <3>2. PICK d : d = data'[n]
      OBVIOUS
    <3>3. Len(d) = 0
      BY <3>1, <3>2
    <3>4. Applied(data[n], lastApplied[n])'
      BY <3>1, <3>2, <3>3 DEF Applied
    <3> QED BY <3>1, <3>4 DEF Progress
  <2>14. Turn(n)
    BY DEF NodeTurn
  <2> QED BY <2>5, <2>6, <2>7, <2>8, <2>9, <2>10, <2>11, <2>12, <2>13, <2>14 DEF Turn
<1>3. \A l \in Node : Progress(l)'
  BY <1>1, <1>2
<1> QED BY <1>3 DEF ProgressOK, Progress

------------------------------------------------------------------------------
(* Snapshots.                                                              *)

LEMMA FileStays ==
  ASSUME Known, Known', SafetyInv, NEW n \in Node, NodeTurn(n), NEW s, NEW file, FileOK(s, file)
  PROVE  FileOK(s, file)'
<1>1. CASE file = Nil
  BY <1>1 DEF FileOK
<1>2. CASE file # Nil
  <2>1. PICK k, d, i : k = <<file.index, file.term>> /\ d = file.data /\ i = file.index
    OBVIOUS
  <2>2. s.lastIncludedIndex <= i /\ Chosen(k) /\ Applied(d, i)
    BY <1>2, <2>1 DEF FileOK
  <2>3. Chosen(k)' /\ Applied(d, i)'
    BY <2>2, ChosenStays, AppliedStays, TurnGrows
  <2> QED BY <1>2, <2>1, <2>2, <2>3 DEF FileOK
<1> QED BY <1>1, <1>2

LEMMA SameBase ==
  ASSUME NEW s, NEW t, SameLog(s, t) \/ Base(s) = Base(t)
  PROVE  /\ Base(s) = Base(t) /\ s.lastIncludedIndex = t.lastIncludedIndex
         /\ \A file : FileOK(t, file) => FileOK(s, file)
BY DEF SameLog, Base, FileOK

(* What a node's own snapshot holds is applied.                            *)
LEMMA OwnFile ==
  ASSUME Known, SafetyInv, NEW n \in Node, up[n], lastApplied[n] > st[n].lastIncludedIndex,
         NEW s, s.lastIncludedIndex = st[n].lastIncludedIndex \/ s.lastIncludedIndex = lastApplied[n]
  PROVE  /\ FileOK(s, OwnSnapshot(n))
         /\ ChosenAt(<<lastApplied[n], GetLogTerm(st[n], lastApplied[n])>>)
<1>1. PICK file, i, t : file = OwnSnapshot(n) /\ i = lastApplied[n] /\ t = GetLogTerm(st[n], i)
  OBVIOUS
<1>2. /\ i \in Nat /\ st[n].lastIncludedIndex \in Nat /\ i > st[n].lastIncludedIndex
      /\ i = commitIndex[n] /\ ChosenAt(<<i, t>>) /\ Applied(data[n], i)
  BY <1>1, NodeStates DEF SafetyInv, ProgressOK
<1>3. file # Nil
  <2>1. data[n] \in Seq(LogEntry) /\ t \in Nat
    BY <1>1, <1>2, NodeStates, GetLogTermType DEF Known, TypeOK, ProgressType
  <2>2. file \in SnapshotBody
    BY <1>1, <1>2, <2>1 DEF OwnSnapshot, Snapshot, SnapshotBody
  <2> QED BY <2>2, NilAssumption
<1>4. file.index = i /\ file.term = t /\ file.data = data[n]
  BY <1>1 DEF OwnSnapshot, Snapshot
<1>5. PICK k : k = <<i, t>>
  OBVIOUS
<1>6. k[1] = i
  BY <1>5
<1>7. Chosen(<<i, t>>)
  BY <1>2, <1>5, <1>6 DEF ChosenAt
<1>8. s.lastIncludedIndex <= i
  BY <1>1, <1>2
<1>9. FileOK(s, file)
  BY <1>2, <1>3, <1>4, <1>7, <1>8 DEF FileOK
<1> QED BY <1>1, <1>2, <1>9

LEMMA NodeSnapshot ==
  ASSUME Known, Known', SafetyInv, NEW n \in Node, NodeTurn(n),
         NEW s, s = st'[n], NEW h, h = hs'[n], NEW f, f = snapFile'[n]
  PROVE  Base(h) = Base(s) /\ ChosenAt(Base(s)) /\ FileOK(s, f)
<1>1. PICK t, d, g : t = st[n] /\ d = hs[n] /\ g = snapFile[n]
  OBVIOUS
<1>2. Base(d) = Base(t) /\ ChosenAt(Base(t)) /\ FileOK(t, g)
  BY <1>1 DEF SafetyInv, SnapshotsOK
<1>3. ASSUME Base(s) = Base(t) \/ SameLog(s, t), Base(h) = Base(t) \/ SameLog(h, t) \/ h = d, f = g
      PROVE  Base(h) = Base(s) /\ ChosenAt(Base(s)) /\ FileOK(s, f)
  <2>1. Base(s) = Base(t) /\ FileOK(s, f)
    <3>1. Base(s) = Base(t)
      BY <1>3, SameBase
    <3>2. \A file : FileOK(t, file) => FileOK(s, file)
      BY <1>3, SameBase
    <3> QED BY <1>2, <1>3, <3>1, <3>2
  <2>2. Base(h) = Base(t)
    BY <1>2, <1>3, SameBase
  <2> QED BY <1>2, <2>1, <2>2
<1>4. CASE Kept(n)
  BY <1>1, <1>3, <1>4 DEF Kept, Saved
<1>5. CASE PushedLog(n)
  <2>1. PICK v \in Value : /\ h = PushEntry(t, v)
                           /\ s = PushEntry(t, v) \/ s = t
    BY <1>1, <1>5 DEF PushedLog
  <2>2. Base(PushEntry(t, v)) = Base(t)
    BY DEF PushEntry, Base
  <2>3. f = g
    BY <1>1, <1>5 DEF PushedLog
  <2> QED BY <1>3, <2>1, <2>2, <2>3
<1>6. ASSUME NEW m \in Appends, MergedBy(n, m)
      PROVE  Base(h) = Base(s) /\ ChosenAt(Base(s)) /\ FileOK(s, f)
  <2>1. PICK u : u = UpdateTerm(t, m.term)
    OBVIOUS
  <2>2. SameLog(u, t)
    <3>1. m.term \in Nat
      BY AppendLine DEF Known, LogInv
    <3>2. m.term >= t.currentTerm
      BY <1>1, <1>6 DEF MergedBy
    <3> QED BY <1>1, <2>1, <3>1, <3>2, UpdatedTo, NodeStates
  <2>3. MergedTo(n, h, m)
    BY <1>6, <1>1 DEF MergedBy, MergedTo, Merged
  <2>4. Base(h) = Base(t)
    BY <1>1, <2>3, MergedMiddle
  <2>5. s = u \/ s = h
    BY <1>1, <1>6, <2>1 DEF MergedBy
  <2>6. f = g
    BY <1>1, <1>6 DEF MergedBy
  <2> QED BY <1>3, <2>2, <2>4, <2>5, <2>6
<1>7. CASE Learns(n)
  BY <1>6, <1>7 DEF Learns
<1>8. CASE up[n] /\ Compacted(n)
  <2>1. /\ CompactedTo(n, s) /\ h = s /\ f = OwnSnapshot(n)
        /\ lastApplied[n] > st[n].lastIncludedIndex
    BY <1>1, <1>8, AppliedInMemory DEF Compacted, CompactedTo, SafetyInv
  <2>2. PICK i : i = lastApplied[n]
    OBVIOUS
  <2>3. Base(s) = <<i, GetLogTerm(st[n], i)>> /\ s.lastIncludedIndex = i
    BY <2>1, <2>2, CompactReady
  <2>4. /\ FileOK(s, OwnSnapshot(n))
        /\ ChosenAt(<<lastApplied[n], GetLogTerm(st[n], lastApplied[n])>>)
    BY <1>8, <2>1, <2>2, <2>3, OwnFile
  <2> QED BY <2>1, <2>2, <2>3, <2>4
<1>9. CASE Adopts(n)
  <2>1. PICK m \in Installs : InstalledBy(n, m)
    BY <1>9 DEF Adopts
  <2>2. InstalledTo(n, s, m) /\ h = s /\ f = m.body
    BY <1>1, <2>1 DEF InstalledBy, InstalledTo
  <2>3. m.body.index = m.index /\ m.body.term = m.snapTerm
    BY <2>1 DEF InstalledBy, BodyMatches
  <2>4. Base(s) = <<m.index, m.snapTerm>> /\ s.lastIncludedIndex = m.index /\ m.index \in Nat
    BY <2>1, <2>2, InstallReady
  <2>5. Chosen(<<m.index, m.snapTerm>>) /\ Applied(m.body.data, m.body.index)
    BY <2>1 DEF SafetyInv, SnapshotsOK
  <2>6. m.body # Nil
    <3>1. m.body \in SnapshotBody
      BY <2>1, InstallFields DEF Known, LogInv
    <3> QED BY <3>1, NilAssumption
  <2>7. FileOK(s, f)
    BY <2>2, <2>3, <2>4, <2>5, <2>6 DEF FileOK
  <2> QED BY <2>2, <2>4, <2>5, <2>7 DEF ChosenAt
<1>10. CASE Dies(n)
  <2>1. s = h /\ (h = d \/ SameLog(h, t))
    BY <1>1, <1>10 DEF Dies, Saved
  <2>2. Base(s) = Base(t) /\ Base(h) = Base(s)
    BY <1>2, <2>1, SameBase
  <2>3. s.lastIncludedIndex = t.lastIncludedIndex
    BY <2>2, SameBase
  <2>4. CASE f = g
    BY <1>3, <2>2, <2>4
  <2>5. CASE lastApplied[n] > t.lastIncludedIndex /\ f = OwnSnapshot(n)
    <3>1. up[n]
      BY <1>10 DEF Dies
    <3>2. FileOK(s, f)
      BY <1>1, <2>3, <2>5, <3>1, OwnFile
    <3> QED BY <1>2, <2>2, <3>2
  <2>6. ASSUME NEW m \in Installs, BodyMatches(m), f = m.body, ~AlreadyHolds(t, m.index, m.snapTerm)
        PROVE  FileOK(s, f)
    <3>1. m.body.index = m.index /\ m.body.term = m.snapTerm
      BY <2>6 DEF BodyMatches
    <3>2. m.index \in Nat /\ m.body # Nil
      <4>1. m.index \in Nat /\ m.body \in SnapshotBody
        BY <2>6, InstallFields DEF Known, LogInv
      <4> QED BY <4>1, NilAssumption
    <3>3. t.lastIncludedIndex <= m.index
      BY <1>1, <2>6, <3>2, NodeStates DEF AlreadyHolds
    <3>4. Chosen(<<m.index, m.snapTerm>>) /\ Applied(m.body.data, m.body.index)
      BY <2>6 DEF SafetyInv, SnapshotsOK
    <3> QED BY <2>3, <2>6, <3>1, <3>2, <3>3, <3>4 DEF FileOK
  <2>7. \/ f = g
        \/ lastApplied[n] > t.lastIncludedIndex /\ f = OwnSnapshot(n)
        \/ \E m \in Installs : BodyMatches(m) /\ f = m.body /\ ~AlreadyHolds(t, m.index, m.snapTerm)
    BY <1>1, <1>10 DEF Dies
  <2> QED BY <1>2, <2>2, <2>4, <2>5, <2>6, <2>7
<1>11. CASE Returns(n)
  <2>1. s = h /\ s = Recovered(d, g) /\ f = g
    BY <1>1, <1>11 DEF Returns
  <2>2. s = d \/ (g # Nil /\ Base(s) = <<g.index, g.term>> /\ s.lastIncludedIndex = g.index)
    BY <1>1, <2>1, ReturnedLog
  <2>3. CASE s = d
    BY <1>2, <1>3, <2>1, <2>3
  <2>4. CASE g # Nil /\ Base(s) = <<g.index, g.term>> /\ s.lastIncludedIndex = g.index
    <3>1. /\ g.index \in Nat /\ Chosen(<<g.index, g.term>>)
          /\ Applied(g.data, g.index)
      BY <1>1, <2>4, FileFacts
    <3>2. FileOK(s, f)
      BY <2>1, <2>4, <3>1 DEF FileOK
    <3> QED BY <2>1, <2>4, <3>1, <3>2 DEF ChosenAt
  <2> QED BY <2>2, <2>3, <2>4
<1>12. Turn(n)
  BY DEF NodeTurn
<1> QED BY <1>4, <1>5, <1>6, <1>7, <1>8, <1>9, <1>10, <1>11, <1>12 DEF Turn

LEMMA KeepsSnapshots ==
  ASSUME Known, Known', SafetyInv, NEW n \in Node, NodeTurn(n)
  PROVE  SnapshotsOK'
<1>1. ASSUME NEW l \in Node
      PROVE  /\ Base(hs'[l]) = Base(st'[l])
             /\ ChosenAt(Base(st[l]))' /\ FileOK(st[l], snapFile[l])'
  <2>1. PICK s, h, f : s = st'[l] /\ h = hs'[l] /\ f = snapFile'[l]
    OBVIOUS
  <2>2. Base(h) = Base(s) /\ ChosenAt(Base(s)) /\ FileOK(s, f)
    <3>1. CASE l = n
      BY <2>1, <3>1, NodeSnapshot
    <3>2. CASE l # n
      <4>1. s = st[l] /\ h = hs[l] /\ f = snapFile[l]
        BY <2>1, <3>2 DEF NodeTurn, Untouched
      <4> QED BY <4>1 DEF SafetyInv, SnapshotsOK
    <3> QED BY <3>1, <3>2
  <2>3. PICK k : k = Base(s)
    OBVIOUS
  <2>4. ChosenAt(k)' /\ FileOK(s, f)'
    BY <2>2, <2>3, ChosenAtStays, FileStays
  <2> QED BY <2>1, <2>2, <2>3, <2>4
<1>2. ASSUME NEW m \in (Installs \cup snapTasks)'
      PROVE  Chosen(<<m.index, m.snapTerm>>)'
  <2>1. PICK k : k = <<m.index, m.snapTerm>>
    OBVIOUS
  <2>2. CASE m \in Installs \cup snapTasks
    <3>1. Chosen(k)
      BY <2>1, <2>2 DEF SafetyInv, SnapshotsOK
    <3>2. Chosen(k)'
      BY <3>1, ChosenStays
    <3> QED BY <2>1, <3>2
  <2>3. CASE m \notin Installs \cup snapTasks
    <3>1. m \in snapTasks' /\ m \notin snapTasks
      BY <2>3, TurnGrows
    <3>2. /\ role'[n] = "Leader" /\ m.dst \in Node \ {n}
          /\ m.index = st'[n].lastIncludedIndex /\ m.snapTerm = st'[n].lastIncludedTerm
          /\ nextIndex'[n][m.dst] <= st'[n].lastIncludedIndex
      BY <3>1, NewTask
    <3>3. nextIndex'[n][m.dst] \in 1 .. LastLogIndex(st'[n]) + 1
      BY <3>2, NextInLog DEF SafetyInv
    <3>4. m.index # 0
      BY <3>2, <3>3, NodeStatesNext
    <3>5. PICK s : s = st'[n]
      OBVIOUS
    <3>6. ChosenAt(Base(s))'
      BY <1>1, <3>5
    <3>7. k = Base(s) /\ k[1] # 0
      BY <2>1, <3>2, <3>4, <3>5 DEF Base
    <3>8. Chosen(k)'
      BY <3>6, <3>7 DEF ChosenAt
    <3> QED BY <2>1, <3>8
  <2> QED BY <2>2, <2>3
<1>3. ASSUME NEW m \in Installs'
      PROVE  Chosen(<<m.body.index, m.body.term>>)' /\ Applied(m.body.data, m.body.index)'
  <2>1. m \in Installs
    BY TurnGrows
  <2>2. PICK k, d, i : k = <<m.body.index, m.body.term>> /\ d = m.body.data /\ i = m.body.index
    OBVIOUS
  <2>3. Chosen(k) /\ Applied(d, i)
    BY <2>1, <2>2 DEF SafetyInv, SnapshotsOK
  <2>4. Chosen(k)' /\ Applied(d, i)'
    BY <2>3, ChosenStays, AppliedStays, TurnGrows
  <2> QED BY <2>2, <2>4
<1> QED BY <1>1, <1>2, <1>3 DEF SnapshotsOK

(* What a leader says is committed is chosen, at most at its term.         *)
LEMMA LeaderCommitted ==
  ASSUME Known, Known', SafetyInv, NEW n \in Node, NodeTurn(n), role'[n] = "Leader",
         NEW c, c = commitIndex[n], c # 0
  PROVE  \E t \in 0 .. st'[n].currentTerm : Chosen(<<c, t>>)
<1>1. PICK s, w : s = st[n] /\ w = st'[n]
  OBVIOUS
<1>2. PICK t : t = GetLogTerm(s, c)
  OBVIOUS
<1>3. up[n] /\ (BeginsToLead(n) \/ LeadsOn(n))
  BY LeaderTurn DEF SafetyInv
<1>4. /\ s \in HardState /\ LogOK(s) /\ w.currentTerm \in Nat
      /\ s.currentTerm \in Nat /\ hs[n].currentTerm \in Nat /\ hs[n].currentTerm <= s.currentTerm
      /\ hs'[n].currentTerm \in Nat /\ c \in Nat
  BY <1>1, NodeStates, NodeStatesNext
<1>5. /\ s.lastIncludedIndex <= c /\ c <= LastLogIndex(s) /\ ChosenAt(<<c, t>>)
  BY <1>1, <1>2, <1>3 DEF SafetyInv, ProgressOK
<1>6. Chosen(<<c, t>>)
  BY <1>5 DEF ChosenAt
<1>7. hs[n].currentTerm <= w.currentTerm
  <2>1. NotBehind(hs'[n], hs[n]) /\ NotBehind(st'[n], hs'[n])
    BY DEF NodeTurn, DiskStep
  <2>2. hs[n].currentTerm <= hs'[n].currentTerm /\ hs'[n].currentTerm <= w.currentTerm
    BY <1>1, <1>4, <2>1 DEF NotBehind
  <2> QED BY <1>4, <2>2
<1>8. t \in Nat /\ t <= w.currentTerm
  <2>1. CASE c = s.lastIncludedIndex
    <3>1. t = s.lastIncludedTerm /\ t \in Nat
      BY <1>2, <1>4, <2>1, HardStateFields DEF GetLogTerm
    <3>2. CASE BeginsToLead(n)
      <4>1. w.lastIncludedTerm = s.lastIncludedTerm
        BY <1>1, <3>2 DEF BeginsToLead, SameLog
      <4>2. w.lastIncludedTerm <= w.currentTerm
        BY <1>1 DEF Known, LogInv, TermsBounded
      <4> QED BY <3>1, <4>1, <4>2
    <3>3. CASE LeadsOn(n)
      <4>1. s.lastIncludedTerm <= s.currentTerm /\ w.currentTerm = s.currentTerm
        BY <1>1, <3>3 DEF LeadsOn, Known, LogInv, TermsBounded
      <4> QED BY <3>1, <4>1
    <3> QED BY <1>3, <3>2, <3>3
  <2>2. CASE c # s.lastIncludedIndex
    <3>1. c \in Held(s)
      <4>1. c \in s.lastIncludedIndex .. LastLogIndex(s)
        BY <1>4, <1>5, HardStateFields
      <4> QED BY <1>4, <2>2, <4>1, FullLine
    <3>2. t = EntryAt(s, c).term /\ t \in Nat
      BY <1>2, <1>4, <3>1, TermsLine
    <3>3. EntryAt(s, c) \in HeldEntries(s)
      BY <1>4, <3>1, HeldEntry
    <3>4. t <= hs[n].currentTerm
      BY <1>1, <3>2, <3>3 DEF Known, LogInv, TermsBounded
    <3> QED BY <1>4, <1>7, <3>2, <3>4
  <2> QED BY <2>1, <2>2
<1> QED BY <1>1, <1>4, <1>6, <1>8

LEMMA LeaderCommitInLog ==
  ASSUME Known, Known', SafetyInv, NEW n \in Node, NodeTurn(n), role'[n] = "Leader"
  PROVE  commitIndex[n] <= LastLogIndex(st'[n])
<1>1. up[n] /\ (BeginsToLead(n) \/ LeadsOn(n))
  BY LeaderTurn DEF SafetyInv
<1>2. LastLogIndex(st[n]) \in Nat /\ LastLogIndex(st'[n]) \in Nat /\ commitIndex[n] \in Nat
  BY NodeStates, NodeStatesNext
<1>3. commitIndex[n] <= LastLogIndex(st[n])
  BY <1>1 DEF SafetyInv, ProgressOK
<1>4. LastLogIndex(st'[n]) >= LastLogIndex(st[n])
  <2>1. CASE BeginsToLead(n)
    <3>1. SameLog(st'[n], st[n])
      BY <2>1 DEF BeginsToLead
    <3> QED BY <1>2, <3>1, SameLogs
  <2>2. CASE LeadsOn(n)
    <3>1. <<st[n].currentTerm, n>> \in elected
      BY <2>2 DEF LeadsOn, Known, LeaderInv, LeadersElected
    <3> QED BY <2>2, <3>1 DEF LeadsOn, NodeTurn, GoesOn
  <2> QED BY <1>1, <2>1, <2>2
<1> QED BY <1>2, <1>3, <1>4

LEMMA KeepsCommits ==
  ASSUME Known, Known', SafetyInv, NEW n \in Node, NodeTurn(n)
  PROVE  CommitsOK'
<1>1. ASSUME NEW m \in Appends', m \in Appends
      PROVE  /\ m.leaderCommit <= End(m)
             /\ m.leaderCommit = 0 \/ \E c \in 0 .. m.term : Chosen(<<m.leaderCommit, c>>)'
  <2>1. /\ m.leaderCommit <= End(m)
        /\ m.leaderCommit = 0 \/ \E c \in 0 .. m.term : Chosen(<<m.leaderCommit, c>>)
    BY <1>1 DEF SafetyInv, CommitsOK
  <2>2. ASSUME NEW c \in 0 .. m.term, Chosen(<<m.leaderCommit, c>>)
        PROVE  Chosen(<<m.leaderCommit, c>>)'
    BY <2>2, ChosenStays
  <2> QED BY <2>1, <2>2
<1>2. ASSUME NEW m \in Appends', m \notin Appends
      PROVE  /\ m.leaderCommit <= End(m)
             /\ m.leaderCommit = 0 \/ \E c \in 0 .. m.term : Chosen(<<m.leaderCommit, c>>)'
  <2>1. /\ role'[n] = "Leader" /\ m.term = st'[n].currentTerm /\ m.leaderCommit = commitIndex[n]
        /\ End(m) = LastLogIndex(st'[n])
    BY <1>2, NewAppendFields DEF SafetyInv
  <2>2. m.leaderCommit <= End(m)
    BY <2>1, LeaderCommitInLog
  <2>3. ASSUME m.leaderCommit # 0
        PROVE  \E c \in 0 .. m.term : Chosen(<<m.leaderCommit, c>>)'
    <3>1. PICK c \in 0 .. m.term : Chosen(<<m.leaderCommit, c>>)
      BY <2>1, <2>3, LeaderCommitted
    <3>2. Chosen(<<m.leaderCommit, c>>)'
      BY <3>1, ChosenStays
    <3> QED BY <3>2
  <2> QED BY <2>2, <2>3
<1> QED BY <1>1, <1>2 DEF CommitsOK, End

(* A step of a node keeps the whole invariant.                             *)
LEMMA TurnKeepsSafety ==
  ASSUME Known, Known', SafetyInv, NEW n \in Node, NodeTurn(n)
  PROVE  SafetyInv'
<1>1. MarksOK' /\ LinesRooted' /\ OwnersTrue' /\ LeadersRemember'
  BY NextStarts, KeepsLines, KeepsOwners, KeepsRemembering
<1>2. AcksPast' /\ EvidenceKept' /\ DiskKnown' /\ AckMatch' /\ VotesGood'
  BY KeepsAcksPast, KeepsEvidence, KeepsDiskKnown, KeepsAckMatch, KeepsVotes
<1>3. DecidedOK' /\ ProgressOK' /\ SnapshotsOK' /\ CommitsOK'
  BY KeepsDecided, KeepsProgress, KeepsSnapshots, KeepsCommits
<1> QED BY <1>1, <1>2, <1>3 DEF SafetyInv

------------------------------------------------------------------------------
(* Steps that send a snapshot or change nothing.                           *)

(* All that the invariant speaks of, but the snapshots on their way.       *)
Unmoved ==
  /\ hs' = hs /\ snapFile' = snapFile /\ up' = up /\ st' = st /\ role' = role
  /\ commitIndex' = commitIndex /\ lastApplied' = lastApplied /\ data' = data
  /\ nextIndex' = nextIndex /\ matchIndex' = matchIndex /\ snapTasks' = snapTasks
  /\ elected' = elected /\ decided' = decided
  /\ Requests' = Requests /\ Votes' = Votes /\ Appends' = Appends /\ Acks' = Acks
  /\ \A l \in Node : MarksBut(l)' = MarksBut(l)

LEMMA UnmovedStarts ==
  ASSUME Unmoved
  PROVE  Starts' = Starts /\ AllMarks' = AllMarks /\ ElectedTerms' = ElectedTerms
<1>1. ElectedTerms' = ElectedTerms
  BY DEF ElectedTerms, Unmoved
<1>2. \A c : Candidacy(c)' = Candidacy(c)
  BY DEF Candidacy, Unmoved
<1>3. Starts' = Starts
  BY <1>1, <1>2 DEF Starts
<1>4. AllMarks' = AllMarks
  BY DEF AllMarks, Unmoved
<1> QED BY <1>1, <1>3, <1>4

LEMMA UnmovedEvidence ==
  ASSUME Unmoved, NEW q \in Node
  PROVE  Evidence(q)' = Evidence(q)
<1>1. Acked(q)' = Acked(q)
  BY UnmovedStarts DEF Acked, Unmoved
<1>2. Own(q)' = Own(q)
  BY DEF Own, Unmoved
<1> QED BY <1>1, <1>2 DEF Evidence

LEMMA UnmovedChosen ==
  ASSUME Unmoved
  PROVE  /\ \A k : Chosen(k)' <=> Chosen(k)
         /\ \A d, i : Applied(d, i)' <=> Applied(d, i)
<1>1. ASSUME NEW k
      PROVE  Chosen(k)' <=> Chosen(k)
  <2>1. {q \in Node : k \in Evidence(q)}' = {q \in Node : k \in Evidence(q)}
    BY UnmovedEvidence
  <2>2. decided' = decided
    BY DEF Unmoved
  <2> QED BY <2>1, <2>2 DEF Chosen
<1>2. \A d, i : Applied(d, i)' <=> Applied(d, i)
  BY DEF Applied, Unmoved
<1> QED BY <1>1, <1>2

LEMMA UnmovedLines ==
  ASSUME Unmoved, SafetyInv
  PROVE  MarksOK' /\ LinesRooted'
<1>1. MarksOK'
  BY UnmovedStarts DEF SafetyInv, MarksOK
<1>2. DecidedTerms' = DecidedTerms
  BY DEF DecidedTerms, Unmoved
<1>3. LinesRooted'
  BY <1>2, UnmovedStarts DEF SafetyInv, LinesRooted, Unmoved, AppendTerms, End
<1> QED BY <1>1, <1>3

LEMMA UnmovedVotes ==
  ASSUME Unmoved, SafetyInv, TypeOK
  PROVE  AcksPast' /\ EvidenceKept' /\ DiskKnown' /\ AckMatch' /\ VotesGood'
<1>1. AcksPast'
  BY DEF SafetyInv, AcksPast, Unmoved
<1>2. EvidenceKept'
  BY UnmovedStarts, UnmovedEvidence DEF SafetyInv, EvidenceKept, Unmoved
<1>3. DiskKnown'
  BY DEF SafetyInv, DiskKnown, SentEntries, Unmoved
<1>4. AckMatch'
  BY UnmovedStarts DEF SafetyInv, AckMatch, Unmoved
<1>5. \A q \in Node : \A term, n : VoteGood(q, term, n)' <=> VoteGood(q, term, n)
  BY UnmovedStarts, UnmovedEvidence DEF VoteGood, RequestsOf, Unmoved
<1>6. \A e : GoodVoters(e)' = GoodVoters(e)
  BY <1>5 DEF GoodVoters, VotersOf, Unmoved
<1>7. ASSUME NEW v \in Votes, v[2] \notin ElectedTerms
      PROVE  VoteGood(v[1], v[2], v[3])'
  <2>1. v[1] \in Node
    BY MessageKinds DEF Votes, TypeOK, NetworkType, RequestVoteType, RequestVoteReplyType
  <2> QED BY <1>5, <1>7, <2>1 DEF SafetyInv, VotesGood
<1>8. VotesGood'
  BY <1>6, <1>7, UnmovedStarts DEF SafetyInv, VotesGood, Unmoved
<1> QED BY <1>1, <1>2, <1>3, <1>4, <1>8

LEMMA UnmovedProgress ==
  ASSUME Unmoved, SafetyInv
  PROVE  DecidedOK' /\ ProgressOK' /\ CommitsOK'
<1>1. \A k : Chosen(k)' <=> Chosen(k)
  BY UnmovedChosen
<1>2. DecidedOK'
  BY <1>1 DEF SafetyInv, DecidedOK, Unmoved
<1>3. ProgressOK'
  BY <1>1, UnmovedChosen DEF SafetyInv, ProgressOK, ChosenAt, Unmoved
<1>4. CommitsOK'
  BY <1>1 DEF SafetyInv, CommitsOK, End, Unmoved
<1> QED BY <1>2, <1>3, <1>4

(* The snapshot a task sends is of committed entries: so is its file.      *)
LEMMA ReadKeepsSafety ==
  ASSUME TypeOK, SafetyInv, NEW t \in snapTasks, ReadSnapshot(t)
  PROVE  SafetyInv'
<1>1. PICK i : i = InstallSnapshot(t, snapFile[t.src])
  OBVIOUS
<1>2. /\ messages' = messages \cup {i} /\ i.type = "InstallSnapshot" /\ t.src \in Node
      /\ i.term = t.term /\ i.index = t.index /\ i.snapTerm = t.snapTerm
      /\ i.body = snapFile[t.src] /\ snapFile[t.src] # Nil
  BY <1>1 DEF ReadSnapshot, Send, InstallSnapshot, TypeOK, NetworkType, TaskType
<1>3. UNCHANGED <<hs, snapFile, up, st, role, commitIndex, lastApplied, data, nextIndex,
                  matchIndex, snapTasks, elected, decided>>
  BY DEF ReadSnapshot, history, disk, progress, leadership
<1>4. /\ Requests' = Requests /\ Appends' = Appends /\ Installs' = Installs \cup {i}
      /\ Votes' = Votes /\ Acks' = Acks
  BY <1>2 DEF Requests, Appends, Installs, Votes, Acks
<1>5. SentEntries' = SentEntries /\ StoredMarks' = StoredMarks
  BY <1>3, <1>4 DEF SentEntries, StoredMarks
<1>6. SentMarks' \subseteq SentMarks \cup StoredMarks
  BY <1>2, <1>3, <1>4, <1>5 DEF SentMarks, StoredMarks
<1>7. SentMarks \subseteq SentMarks'
  BY <1>3, <1>4, <1>5 DEF SentMarks
<1>8. \A l \in Node : MarksBut(l)' = MarksBut(l)
  BY <1>3, <1>5, <1>6, <1>7 DEF MarksBut
<1>9. Unmoved
  BY <1>3, <1>4, <1>8 DEF Unmoved
<1>10. Starts' = Starts
  BY <1>9, UnmovedStarts
<1>11. OwnersTrue'
  <2>1. OwnMark(Starts, i.index, i.snapTerm, i.term)
    BY <1>2 DEF SafetyInv, OwnersTrue
  <2>2. \A m \in Installs' \cup snapTasks' : OwnMark(Starts, m.index, m.snapTerm, m.term)
    BY <1>3, <1>4, <2>1 DEF SafetyInv, OwnersTrue
  <2> QED BY <1>3, <1>4, <1>10, <2>2 DEF SafetyInv, OwnersTrue, AppendTerms, End
<1>12. LeadersRemember'
  <2>1. \A l \in Node : role[l] = "Leader" =>
          \A m \in Installs' \cup snapTasks' :
            m.term = st[l].currentTerm => m.index <= LastLogIndex(st[l])
    BY <1>2, <1>3, <1>4 DEF SafetyInv, LeadersRemember
  <2>2. \A p, term, index : AckedBy(p, term, index)' <=> AckedBy(p, term, index)
    BY <1>4 DEF AckedBy
  <2> QED BY <1>3, <1>4, <1>10, <2>1, <2>2 DEF SafetyInv, LeadersRemember, End
<1>13. SnapshotsOK'
  <2>1. /\ \A k : Chosen(k)' <=> Chosen(k)
        /\ \A d, j : Applied(d, j)' <=> Applied(d, j)
    BY <1>9, UnmovedChosen
  <2>2. Chosen(<<i.index, i.snapTerm>>)
    BY <1>2 DEF SafetyInv, SnapshotsOK
  <2>3. Chosen(<<i.body.index, i.body.term>>) /\ Applied(i.body.data, i.body.index)
    BY <1>2 DEF SafetyInv, SnapshotsOK, FileOK
  <2>4. \A m \in Installs' \cup snapTasks' : Chosen(<<m.index, m.snapTerm>>)
    BY <1>3, <1>4, <2>2 DEF SafetyInv, SnapshotsOK
  <2>5. \A m \in Installs' : /\ Chosen(<<m.body.index, m.body.term>>)
                             /\ Applied(m.body.data, m.body.index)
    BY <1>4, <2>3 DEF SafetyInv, SnapshotsOK
  <2>6. \A n \in Node :
          Base(hs[n]) = Base(st[n]) /\ ChosenAt(Base(st[n])) /\ FileOK(st[n], snapFile[n])
    BY DEF SafetyInv, SnapshotsOK
  <2>7. (\A n \in Node : Base(hs[n]) = Base(st[n]) /\ ChosenAt(Base(st[n]))
                         /\ FileOK(st[n], snapFile[n]))'
    BY <1>3, <2>1, <2>6 DEF ChosenAt, FileOK
  <2> QED BY <2>1, <2>4, <2>5, <2>7 DEF SnapshotsOK
<1> QED BY <1>9, <1>11, <1>12, <1>13, UnmovedLines, UnmovedVotes, UnmovedProgress DEF SafetyInv

LEMMA StutterKeepsSafety ==
  ASSUME TypeOK, SafetyInv, UNCHANGED vars
  PROVE  SafetyInv'
<1>1. UNCHANGED <<hs, snapFile, up, st, role, commitIndex, lastApplied, data, nextIndex,
                  matchIndex, messages, snapTasks, elected, decided>>
  BY DEF vars, history, disk, progress, leadership
<1>2. /\ Requests' = Requests /\ Appends' = Appends /\ Installs' = Installs
      /\ Votes' = Votes /\ Acks' = Acks
  BY <1>1 DEF Requests, Appends, Installs, Votes, Acks
<1>3. SentEntries' = SentEntries /\ StoredMarks' = StoredMarks
  BY <1>1, <1>2 DEF SentEntries, StoredMarks
<1>4. SentMarks' = SentMarks
  BY <1>1, <1>2, <1>3 DEF SentMarks
<1>5. \A l \in Node : MarksBut(l)' = MarksBut(l)
  BY <1>1, <1>3, <1>4 DEF MarksBut
<1>6. Unmoved
  BY <1>1, <1>2, <1>5 DEF Unmoved
<1>7. Starts' = Starts
  BY <1>6, UnmovedStarts
<1>8. OwnersTrue'
  BY <1>1, <1>2, <1>7 DEF SafetyInv, OwnersTrue, AppendTerms, End
<1>9. \A p, term, index : AckedBy(p, term, index)' <=> AckedBy(p, term, index)
  BY <1>2 DEF AckedBy
<1>10. LeadersRemember'
  BY <1>1, <1>2, <1>7, <1>9 DEF SafetyInv, LeadersRemember, End
<1>11. /\ \A k : Chosen(k)' <=> Chosen(k)
       /\ \A d, j : Applied(d, j)' <=> Applied(d, j)
  BY <1>6, UnmovedChosen
<1>12. SnapshotsOK'
  BY <1>1, <1>2, <1>11 DEF SafetyInv, SnapshotsOK, ChosenAt, FileOK
<1> QED BY <1>6, <1>8, <1>10, <1>12, UnmovedLines, UnmovedVotes, UnmovedProgress DEF SafetyInv

------------------------------------------------------------------------------
(* Every step of the specification.                                        *)

LEMMA StepMessages ==
  ASSUME NEW n \in Node, Step(n)
  PROVE  messages \subseteq messages'
<1> USE DEF Send
<1>1. CASE StartElection(n) \/ StartElectionUnsaved(n)
  BY <1>1 DEF StartElection, StartElectionUnsaved, GoDown
<1>2. CASE ElectionEnds(n) \/ HeartbeatTick(n)
  BY <1>2 DEF ElectionEnds, HeartbeatTick, SendHeartbeats
<1>3. CASE \E v \in Value : ClientRequest(n, v)
  BY <1>3 DEF ClientRequest, SendHeartbeats, GoDown
<1>4. CASE TriggerSnapshot(n) \/ TriggerSnapshotInterrupted(n)
  BY <1>4 DEF TriggerSnapshot, TriggerSnapshotInterrupted, GoDown
<1>5. CASE Crash(n) \/ Restart(n)
  BY <1>5 DEF Crash, Restart, GoDown
<1> QED BY <1>1, <1>2, <1>3, <1>4, <1>5 DEF Step

LEMMA ReceiveMessages ==
  ASSUME NEW n \in Node, NEW m \in messages, Receive(n, m)
  PROVE  messages \subseteq messages'
<1> USE DEF Send
<1>1. CASE ReceiveVote(n, m) \/ HandleRequestVote(n, m)
  BY <1>1 DEF ReceiveVote, HandleRequestVote
<1>2. CASE StaleAppendEntries(n, m) \/ HandleAppendEntries(n, m)
  BY <1>2 DEF StaleAppendEntries, HandleAppendEntries
<1>3. CASE HandleResult(n, m)
  BY <1>3 DEF HandleResult
<1>4. CASE StaleInstallSnapshot(n, m) \/ InstallSnapshotTermUnsaved(n, m) \/ RefuseSnapshot(n, m)
  BY <1>4 DEF StaleInstallSnapshot, InstallSnapshotTermUnsaved, RefuseSnapshot
<1>5. CASE HandleInstallSnapshot(n, m) \/ InstallSnapshotInterrupted(n, m)
  BY <1>5 DEF HandleInstallSnapshot, InstallSnapshotInterrupted, GoDown
<1> QED BY <1>1, <1>2, <1>3, <1>4, <1>5 DEF Receive

LEMMA StepIsTurn ==
  ASSUME Known, Known', DiskStep, NEW n \in Node, Step(n)
  PROVE  NodeTurn(n)
<1>1. /\ TypeOK /\ TypeOK' /\ ElectionInv /\ MemoryNotBehind /\ BallotsBacked
      /\ LeaderInv /\ LogsOK
  BY DEF Known, ElectionInv, LogInv
<1>2. \A p \in Node \ {n} : Untouched(p)
  BY <1>1, StepOthers
<1>3. Turn(n) /\ Sends(n) /\ Elects(n) /\ Tracks(n) /\ Acknowledges(n)
  BY <1>1, StepTurn, StepSent, StepElects, StepTracks, StepAcks
<1>4. role[n] = "Leader" /\ role'[n] = "Leader" => LeaderStep(n)
  BY <1>1, StepOfLeader
<1>5. GoesOn(n)
  BY <1>1, <1>3, <1>4, LeaderGoesOn
<1> QED BY <1>2, <1>3, <1>5, StepMessages DEF NodeTurn

LEMMA ReceiveIsTurn ==
  ASSUME ~StaleSnapshots, Known, Known', DiskStep,
         NEW m \in messages, NEW n \in Receivers(m), Receive(n, m)
  PROVE  n \in Node /\ NodeTurn(n)
<1>1. /\ TypeOK /\ TypeOK' /\ ElectionInv /\ LeaderInv /\ LogsOK
  BY DEF Known, LogInv
<1>2. n \in Node
  BY <1>1, ReceiversAreNodes DEF TypeOK, NetworkType
<1>3. \A p \in Node \ {n} : Untouched(p)
  BY <1>1, <1>2, ReceiveOthers
<1>4. Turn(n) /\ Sends(n) /\ Elects(n) /\ Tracks(n) /\ Acknowledges(n)
  BY <1>1, ReceiveTurn, ReceiveSent, ReceiveElects, ReceiveTracks, ReceiveAcks
<1>5. role[n] = "Leader" /\ role'[n] = "Leader" => LeaderStep(n)
  BY <1>1, <1>2, ReceiveOfLeader
<1>6. GoesOn(n)
  BY <1>1, <1>2, <1>4, <1>5, LeaderGoesOn
<1> QED BY <1>2, <1>3, <1>4, <1>6, ReceiveMessages DEF NodeTurn

LEMMA NextKeepsSafety ==
  ASSUME ~StaleSnapshots, Known, Known', SafetyInv, [Next]_vars
  PROVE  SafetyInv'
<1>1. DiskStep /\ TypeOK
  BY NextDisk DEF Known, ElectionInv
<1>2. ASSUME NEW n \in Node, Step(n)
      PROVE  SafetyInv'
  BY <1>1, <1>2, StepIsTurn, TurnKeepsSafety
<1>3. ASSUME NEW m \in messages, NEW n \in Receivers(m), Receive(n, m)
      PROVE  SafetyInv'
  BY <1>1, <1>3, ReceiveIsTurn, TurnKeepsSafety
<1>4. ASSUME NEW t \in snapTasks, ReadSnapshot(t)
      PROVE  SafetyInv'
  BY <1>1, <1>4, ReadKeepsSafety
<1>5. CASE UNCHANGED vars
  BY <1>1, <1>5, StutterKeepsSafety
<1> QED BY <1>2, <1>3, <1>4, <1>5 DEF Next

LEMMA InitSafety ==
  ASSUME Init
  PROVE  SafetyInv
<1>1. /\ \A n \in Node : st[n] = FreshState /\ hs[n] = FreshState /\ role[n] = "Follower"
                         /\ snapFile[n] = Nil /\ up[n] /\ data[n] = <<>>
                         /\ commitIndex[n] = 0 /\ lastApplied[n] = 0
      /\ messages = {} /\ snapTasks = {} /\ elected = {} /\ decided = {}
  BY DEF Init, NoIndex
<1>2. /\ Requests = {} /\ Appends = {} /\ Installs = {} /\ Votes = {} /\ Acks = {}
  BY <1>1 DEF Requests, Appends, Installs, Votes, Acks
<1>3. /\ HeldEntries(FreshState) = {} /\ Base(FreshState) = <<0, 0>>
      /\ FreshState.lastIncludedTerm = 0 /\ FreshState.lastIncludedIndex = 0
      /\ Held(FreshState) = {} /\ LastLogIndex(FreshState) = 0
      /\ GetLogTerm(FreshState, 0) = 0
  BY DEF HeldEntries, Held, Base, FreshState, Placeholder, LastLogIndex, GetLogTerm
<1>4. Marks(FreshState) = {<<0, 0>>}
  BY <1>3 DEF Marks
<1>5. SentEntries = {} /\ StoredMarks = {}
  BY <1>1, <1>2 DEF SentEntries, StoredMarks
<1>6. SentMarks = {}
  BY <1>1, <1>2, <1>5 DEF SentMarks
<1>7. \A l \in Node : \A k \in MarksBut(l) \cup Marks(hs[l]) : k = <<0, 0>>
  BY <1>1, <1>4, <1>5, <1>6 DEF MarksBut
<1>8. MarksOK
  BY <1>7 DEF MarksOK, AllMarks, MarkOK
<1>9. \A q \in Node : Evidence(q) = {}
  BY <1>1, <1>2 DEF Evidence, Acked, Own
<1>10. LinesRooted
  <2>1. DOMAIN Terms(FreshState) = {}
    BY <1>3 DEF Terms
  <2>2. DOMAIN DecidedTerms = {}
    BY <1>1 DEF DecidedTerms
  <2> QED BY <1>1, <1>2, <2>1, <2>2 DEF LinesRooted, Rooted
<1>11. OwnersTrue /\ LeadersRemember /\ AcksPast
  BY <1>1, <1>2 DEF OwnersTrue, LeadersRemember, AcksPast
<1>12. EvidenceKept /\ DiskKnown /\ AckMatch /\ VotesGood
  BY <1>1, <1>2, <1>3, <1>9 DEF EvidenceKept, DiskKnown, AckMatch, VotesGood
<1>13. DecidedOK /\ CommitsOK
  BY <1>1, <1>2 DEF DecidedOK, CommitsOK
<1>14. ProgressOK
  BY <1>1, <1>3 DEF ProgressOK, Applied, ChosenAt
<1>15. SnapshotsOK
  BY <1>1, <1>2, <1>3 DEF SnapshotsOK, FileOK, ChosenAt
<1> QED BY <1>8, <1>10, <1>11, <1>12, <1>13, <1>14, <1>15 DEF SafetyInv

LEMMA AlwaysKnown == Spec => []Known
<1>1. TypeOK /\ ElectionInv /\ ElectionSafety /\ LeaderInv /\ LogInv => Known
  BY DEF Known
<1> QED BY <1>1, TypeCorrect, ElectionsInvariant, OneLeaderPerTerm, LeadersInvariant,
           LogsInvariant, PTL

(* The invariant of replication, commitment and snapshots holds in every   *)
(* state: whatever log is the basis of a commit on a majority stays, on disk*)
(* and in memory, in the logs that later leaders can be elected with.  It  *)
(* holds as long as no snapshot reaches a peer that already holds its last *)
(* entry, where handle_install_snapshot would throw away the rest.         *)
THEOREM SafetyInvariant ==
  ASSUME ~StaleSnapshots
  PROVE  Spec => []SafetyInv
<1>1. Init => SafetyInv
  BY InitSafety
<1>2. Known /\ Known' /\ SafetyInv /\ [Next]_vars => SafetyInv'
  BY NextKeepsSafety
<1> QED BY <1>1, <1>2, AlwaysKnown, PTL DEF Spec

------------------------------------------------------------------------------
(* What the invariant says of logs, of disks and of what is applied.       *)

(* The committed entry of an index is what has it.                         *)
LEMMA OneDecided ==
  ASSUME SafetyInv, NEW e \in decided, NEW f \in decided, e.index = f.index
  PROVE  e = f
BY DEF SafetyInv, DecidedOK

(* A log past the end of a chosen line has all of the line above its base. *)
LEMMA HasDecided ==
  ASSUME Known, SafetyInv, NEW n \in Node, NEW s, s = hs[n] \/ s = st[n],
         NEW f \in decided, Chosen(EntryMark(f)), AtLeast(s, EntryMark(f)),
         NEW e \in decided, e.index <= f.index, e.index > s.lastIncludedIndex
  PROVE  e.index \in Held(s) /\ EntryAt(s, e.index) = e
<1>1. /\ s \in HardState /\ LogOK(s) /\ Rooted(Starts, Terms(s)) /\ HeldEntries(s) \subseteq Entries
  BY NodeLines
<1>2. /\ IsLine(Terms(s)) /\ DOMAIN Terms(s) = Held(s)
      /\ \A i \in Held(s) : Terms(s)[i] = EntryAt(s, i).term /\ GetLogTerm(s, i) = EntryAt(s, i).term
  BY <1>1, TermsLine
<1>3. PICK k : k = EntryMark(f)
  OBVIOUS
<1>4. k[1] = f.index /\ k[2] = f.term
  BY <1>3 DEF EntryMark
<1>5. /\ e.index \in Nat /\ f.index \in Nat /\ e.index >= 1
      /\ e.index \in DOMAIN DecidedTerms
  BY EntriesKnown
<1>6. s.lastIncludedIndex \in Nat /\ LastLogIndex(s) \in Nat
  BY <1>1, HardStateFields
<1>7. AlreadyHolds(s, k[1], k[2])
  BY <1>3, HoldsChosen
<1>8. InMemory(s, f.index) /\ GetLogTerm(s, f.index) = f.term
  BY <1>4, <1>5, <1>6, <1>7 DEF AlreadyHolds
<1>9. f.index <= LastLogIndex(s)
  BY <1>1, <1>5, <1>6, <1>8 DEF InMemory, HardState, LastLogIndex
<1>10. f.index \in Held(s) /\ e.index \in Held(s)
  BY <1>5, <1>6, <1>9 DEF Held
<1>11. Terms(s)[k[1]] = k[2]
  BY <1>2, <1>4, <1>8, <1>10
<1>12. Terms(s)[e.index] = DecidedTerms[e.index]
  <2>1. MarksOK /\ VotesGood /\ DecidedOK /\ Rooted(Starts, DecidedTerms) /\ Chosen(k)
    BY <1>3 DEF SafetyInv, LinesRooted
  <2>2. PICK g : g = Terms(s)
    OBVIOUS
  <2>3. /\ IsLine(g) /\ Rooted(Starts, g) /\ k[1] \in DOMAIN g /\ g[k[1]] = k[2]
        /\ e.index \in DOMAIN g /\ e.index <= k[1]
    BY <1>1, <1>2, <1>4, <1>10, <1>11, <2>2
  <2> QED BY <1>5, <2>1, <2>2, <2>3, LineIsDecided
<1>13. EntryAt(s, e.index) \in decided /\ EntryAt(s, e.index).index = e.index
  BY <1>1, <1>5, <1>10, <1>12, HeldIsDecided DEF SafetyInv
<1> QED BY <1>10, <1>13, OneDecided

(* What a state machine or a snapshot covers it has.                       *)
LEMMA AppliedHas ==
  ASSUME SafetyInv, NEW d, NEW i \in Nat, Applied(d, i), NEW e \in decided,
         e.index \in 1 .. i
  PROVE  e.index \in 1 .. Len(d) /\ d[e.index] = e
<1>1. /\ Len(d) = i /\ d[e.index].index = e.index /\ d[e.index] \in decided
  BY DEF Applied
<1> QED BY <1>1, OneDecided

LEMMA MatchingLogs ==
  ASSUME Known, SafetyInv
  PROVE  LogMatching
<1>1. SUFFICES ASSUME NEW s \in {st[n] : n \in Node} \cup {hs[n] : n \in Node},
                      NEW t \in {st[n] : n \in Node} \cup {hs[n] : n \in Node},
                      NEW i \in Held(s) \cap Held(t), EntryAt(s, i).term = EntryAt(t, i).term,
                      NEW j \in (Held(s) \cap Held(t)) \cap 1 .. i
               PROVE  EntryAt(s, j) = EntryAt(t, j)
  BY DEF LogMatching
<1>2. /\ s \in HardState /\ LogOK(s) /\ Rooted(Starts, Terms(s)) /\ HeldEntries(s) \subseteq Entries
      /\ t \in HardState /\ LogOK(t) /\ Rooted(Starts, Terms(t)) /\ HeldEntries(t) \subseteq Entries
  BY NodeLines
<1>3. /\ IsLine(Terms(s)) /\ DOMAIN Terms(s) = Held(s)
      /\ \A x \in Held(s) : Terms(s)[x] = EntryAt(s, x).term
  BY <1>2, TermsLine
<1>4. /\ IsLine(Terms(t)) /\ DOMAIN Terms(t) = Held(t)
      /\ \A x \in Held(t) : Terms(t)[x] = EntryAt(t, x).term
  BY <1>2, TermsLine
<1>5. GoodStarts(Starts)
  BY StartsGood DEF SafetyInv
<1>6. EntryAt(s, j).term = EntryAt(t, j).term
  <2>1. PICK f, g : f = Terms(s) /\ g = Terms(t)
    OBVIOUS
  <2>2. /\ IsLine(f) /\ Rooted(Starts, f) /\ IsLine(g) /\ Rooted(Starts, g)
        /\ i \in DOMAIN f /\ i \in DOMAIN g /\ f[i] = g[i]
        /\ j \in DOMAIN f /\ j \in DOMAIN g /\ j <= i
    BY <1>1, <1>2, <1>3, <1>4, <2>1
  <2>3. f[j] = g[j]
    BY <1>5, <2>2, LinesMatch
  <2> QED BY <1>3, <1>4, <2>1, <2>3
<1>7. EntryAt(s, j) \in HeldEntries(s) /\ EntryAt(s, j).index = j
  BY <1>2, HeldEntry, EntryIndex
<1>8. EntryAt(t, j) \in HeldEntries(t) /\ EntryAt(t, j).index = j
  BY <1>2, HeldEntry, EntryIndex
<1>9. EntryMark(EntryAt(s, j)) = EntryMark(EntryAt(t, j))
  BY <1>6, <1>7, <1>8 DEF EntryMark
<1> QED BY <1>2, <1>7, <1>8, <1>9 DEF Known, LogInv, EntryUnique

(* The leader of the latest term was elected with, or made, a log past     *)
(* every chosen mark.                                                      *)
LEMMA LeaderPastChosen ==
  ASSUME Known, SafetyInv, NEW l \in Node, role[l] = "Leader",
         \A e \in elected : e[1] <= st[l].currentTerm,
         NEW k, Chosen(k)
  PROVE  AtLeast(st[l], k)
<1>1. PICK s, T : s = st[l] /\ T = s.currentTerm
  OBVIOUS
<1>2. /\ MarksOK /\ VotesGood /\ DecidedOK /\ GoodStarts(Starts)
  BY StartsGood DEF SafetyInv
<1>3. /\ T \in DOMAIN Starts /\ T \in Nat /\ Starts[T].index \in Nat
  BY <1>1, <1>2, LeaderTerm
<1>4. /\ IsMark(k) /\ k[2] \in DOMAIN Starts /\ MarkOK(Starts, k[1], k[2]) /\ k[2] > 0
      /\ NoBad(Starts, k[1], k[2], T) /\ \E e \in decided : EntryMark(e) = k
  BY <1>2, ChosenFacts
<1>5. k[2] \in Nat /\ k[1] \in Nat
  BY <1>4 DEF IsMark
<1>6. k[2] <= T
  BY <1>1, <1>4 DEF Starts, ElectedTerms
<1>7. s \in HardState /\ LogOK(s)
  BY <1>1, NodeStates
<1>8. /\ LastLogIndex(s) \in Nat /\ LastLogTerm(s) \in Nat
      /\ LastLogTerm(s) = Full(s)[LastLogIndex(s)] /\ LastLogIndex(s) \in DOMAIN Full(s)
  BY <1>7, LastOfLine
<1>9. /\ OwnMark(Starts, LastLogIndex(s), LastLogTerm(s), T)
      /\ LastLogIndex(s) >= Starts[T].index
  <2>1. Owned(Starts, Full(s), T) /\ Starts[T].index <= LastLogIndex(s)
    BY <1>1 DEF SafetyInv, OwnersTrue
  <2> QED BY <1>3, <1>8, <2>1 DEF Owned
<1>10. k[2] = T => k[1] <= LastLogIndex(s) /\ k[1] > Starts[T].index
  <2>1. k \in MarksBut(l)
    BY <1>4 DEF StoredMarks, MarksBut
  <2>2. k[2] = T => k[1] <= LastLogIndex(s)
    BY <1>1, <2>1 DEF Known, LogInv, LeaderAhead
  <2> QED BY <1>4, <2>2 DEF MarkOK
<1>11. PICK i, t : i = LastLogIndex(s) /\ t = LastLogTerm(s)
  OBVIOUS
<1>12. PICK j, c : j = k[1] /\ c = k[2]
  OBVIOUS
<1>13. Past(i, t, j, c)
  <2>1. /\ T \in DOMAIN Starts /\ i \in Nat /\ t \in Nat /\ OwnMark(Starts, i, t, T)
        /\ i >= Starts[T].index /\ j \in Nat /\ c \in Nat /\ NoBad(Starts, j, c, T)
    BY <1>3, <1>4, <1>5, <1>8, <1>9, <1>11, <1>12
  <2>2. c < T \/ (c = T /\ j <= i /\ j > Starts[T].index)
    BY <1>3, <1>5, <1>6, <1>10, <1>11, <1>12
  <2> QED BY <1>2, <2>1, <2>2, OwnerPast
<1> QED BY <1>1, <1>11, <1>12, <1>13 DEF AtLeast

LEMMA CompleteLeaders ==
  ASSUME Known, SafetyInv
  PROVE  LeaderCompleteness
<1> SUFFICES ASSUME NEW n \in Node, up[n], role[n] = "Leader",
                    \A e \in elected : e[1] <= st[n].currentTerm,
                    NEW entry \in decided
             PROVE  Holds(n, entry)
  BY DEF LeaderCompleteness
<1>1. PICK s : s = st[n]
  OBVIOUS
<1>2. PICK f \in decided : f.index >= entry.index /\ Chosen(EntryMark(f))
  BY DEF SafetyInv, DecidedOK
<1>3. AtLeast(s, EntryMark(f))
  BY <1>1, <1>2, LeaderPastChosen
<1>4. /\ entry.index \in Nat /\ entry.index >= 1 /\ f.index \in Nat
      /\ s.lastIncludedIndex \in Nat /\ lastApplied[n] \in Nat
  BY <1>1, EntriesKnown, NodeStates
<1>5. CASE entry.index > s.lastIncludedIndex
  BY <1>1, <1>2, <1>3, <1>4, <1>5, HasDecided DEF Holds
<1>6. CASE entry.index <= s.lastIncludedIndex
  <2>1. Applied(data[n], lastApplied[n]) /\ s.lastIncludedIndex <= lastApplied[n]
    BY <1>1 DEF SafetyInv, ProgressOK
  <2>2. PICK d, i : d = data[n] /\ i = lastApplied[n]
    OBVIOUS
  <2>3. entry.index \in 1 .. i /\ i \in Nat /\ Applied(d, i)
    BY <1>4, <1>6, <2>1, <2>2
  <2>4. Len(d) = i /\ d[entry.index] = entry
    BY <2>3, AppliedHas DEF Applied
  <2> QED BY <2>2, <2>3, <2>4 DEF Holds
<1> QED BY <1>4, <1>5, <1>6

------------------------------------------------------------------------------
(* Disks.                                                                  *)

LEMMA StartableDisks ==
  ASSUME Known, SafetyInv
  PROVE  DiskStartable
<1> SUFFICES ASSUME NEW n \in Node
             PROVE  Startable(hs[n], snapFile[n])
  BY DEF DiskStartable
<1>1. PICK h, file : h = hs[n] /\ file = snapFile[n]
  OBVIOUS
<1>2. /\ h \in HardState /\ LogOK(h) /\ ChosenAt(Base(h)) /\ h.lastIncludedIndex \in Nat
  BY <1>1, NodeLines, HardStateFields
<1>3. /\ file = Nil => h.lastIncludedIndex = 0
      /\ file # Nil => /\ file.index \in Nat /\ h.lastIncludedIndex <= file.index
                       /\ Chosen(<<file.index, file.term>>) /\ file.index >= 1
  BY <1>1, FileFacts
<1>4. CASE file # Nil /\ file.index = h.lastIncludedIndex
  <2>1. PICK k, b : k = <<file.index, file.term>> /\ b = Base(h)
    OBVIOUS
  <2>2. Chosen(k) /\ Chosen(b)
    <3>1. b # <<0, 0>>
      BY <1>3, <1>4, <2>1 DEF Base
    <3> QED BY <1>2, <1>3, <1>4, <2>1, <3>1 DEF ChosenAt
  <2>3. DecidedTerms[k[1]] = k[2] /\ DecidedTerms[b[1]] = b[2]
    BY <2>2, ChosenFacts DEF SafetyInv
  <2>4. file.term = h.lastIncludedTerm
    BY <1>4, <2>1, <2>3 DEF Base
  <2> QED BY <1>1, <1>4, <2>4 DEF Startable
<1> QED BY <1>1, <1>2, <1>3, <1>4 DEF Startable

LEMMA DiskPastChosen ==
  ASSUME Known, SafetyInv, NEW q \in Node, NEW k, Chosen(k), k \in Evidence(q)
  PROVE  AtLeast(hs[q], k)
<1>1. \A term : NoBad(Starts, k[1], k[2], term)
  BY ChosenFacts DEF SafetyInv
<1> QED BY <1>1 DEF SafetyInv, EvidenceKept

LEMMA EvidenceRecovers ==
  ASSUME Known, SafetyInv, NEW f \in decided, Chosen(EntryMark(f)),
         NEW e \in decided, e.index <= f.index,
         NEW q \in Node, EntryMark(f) \in Evidence(q)
  PROVE  Recovers(q, e)
<1>1. PICK h, file, s : h = hs[q] /\ file = snapFile[q] /\ s = Recovered(h, file)
  OBVIOUS
<1>2. AtLeast(h, EntryMark(f))
  BY <1>1, DiskPastChosen
<1>3. /\ e.index \in Nat /\ e.index >= 1
  BY EntriesKnown
<1>4. /\ s \in HardState /\ h \in HardState
      /\ \A j \in Held(s) : j \in Held(h) /\ EntryAt(s, j) = EntryAt(h, j)
      /\ \A j \in Held(h) : j > s.lastIncludedIndex => j \in Held(s)
      /\ \/ s = h
         \/ /\ file # Nil /\ file.index > h.lastIncludedIndex
            /\ s.lastIncludedIndex = file.index
  BY <1>1, ReturnedLog, NodeStates, SMTT(30)
<1>5. /\ s.lastIncludedIndex \in Nat /\ h.lastIncludedIndex \in Nat
  BY <1>4, HardStateFields
<1>6. /\ file = Nil => h.lastIncludedIndex = 0
      /\ file # Nil => /\ file.index \in Nat /\ h.lastIncludedIndex <= file.index
                       /\ Applied(file.data, file.index)
  BY <1>1, FileFacts
<1>7. CASE e.index > s.lastIncludedIndex
  <2>1. e.index > h.lastIncludedIndex
    BY <1>3, <1>4, <1>5, <1>6, <1>7
  <2>2. e.index \in Held(h) /\ EntryAt(h, e.index) = e
    BY <1>1, <1>2, <2>1, HasDecided
  <2>3. e.index \in Held(s) /\ EntryAt(s, e.index) = e
    BY <1>4, <1>7, <2>2
  <2> QED BY <1>1, <2>3 DEF Recovers
<1>8. CASE ~(e.index > s.lastIncludedIndex)
  <2>1. file # Nil /\ e.index <= file.index
    BY <1>3, <1>4, <1>5, <1>6, <1>8
  <2>2. e.index \in 1 .. Len(file.data) /\ file.data[e.index] = e
    BY <1>3, <1>6, <2>1, AppliedHas
  <2>3. Startable(h, file)
    BY <1>1, StartableDisks DEF DiskStartable
  <2> QED BY <1>1, <2>1, <2>2, <2>3 DEF Recovers
<1> QED BY <1>7, <1>8

LEMMA QuorumRecovers ==
  ASSUME Known, SafetyInv
  PROVE  DecidedOnQuorum
<1> SUFFICES ASSUME NEW e \in decided
             PROVE  Cardinality({n \in Node : Recovers(n, e)}) >= Majority
  BY DEF DecidedOnQuorum
<1>1. PICK f \in decided : f.index >= e.index /\ Chosen(EntryMark(f))
  BY DEF SafetyInv, DecidedOK
<1>2. PICK P, Q : /\ P = {q \in Node : EntryMark(f) \in Evidence(q)}
                  /\ Q = {n \in Node : Recovers(n, e)}
  OBVIOUS
<1>3. e.index \in Nat /\ f.index \in Nat
  BY EntriesKnown
<1>4. P \subseteq Q
  BY <1>1, <1>2, <1>3, EvidenceRecovers
<1>5. Cardinality(P) >= Majority
  BY <1>1, <1>2 DEF Chosen
<1> QED BY <1>2, <1>4, <1>5, LargerQuorum

------------------------------------------------------------------------------
(* What a node commits and applies it keeps.                               *)

(* A snapshot that a node adopts reaches past what it has applied.         *)
LEMMA AdoptsMore ==
  ASSUME Known, SafetyInv, NEW n \in Node, up[n], NEW m \in Installs,
         ~AlreadyHolds(st[n], m.index, m.snapTerm)
  PROVE  m.index > commitIndex[n] /\ m.index \in Nat
<1>1. PICK s, c : s = st[n] /\ c = commitIndex[n]
  OBVIOUS
<1>2. /\ s \in HardState /\ LogOK(s) /\ Rooted(Starts, Terms(s)) /\ ChosenAt(Base(s))
  BY <1>1, NodeLines
<1>3. /\ s.lastIncludedIndex \in Nat /\ LastLogIndex(s) \in Nat /\ c \in Nat
  BY <1>1, NodeStates
<1>4. /\ c <= LastLogIndex(s) /\ ChosenAt(<<c, GetLogTerm(s, c)>>) /\ s.lastIncludedIndex <= c
  BY <1>1 DEF SafetyInv, ProgressOK
<1>5. PICK k : k = <<m.index, m.snapTerm>> /\ Chosen(k)
  BY DEF SafetyInv, SnapshotsOK
<1>6. /\ MarksOK /\ VotesGood /\ DecidedOK /\ Rooted(Starts, DecidedTerms)
  BY DEF SafetyInv, LinesRooted
<1>7. /\ m.index \in Nat /\ m.index >= 1 /\ DecidedTerms[m.index] = m.snapTerm
  BY <1>5, <1>6, ChosenFacts DEF IsMark
<1>8. SUFFICES ASSUME m.index <= c
               PROVE  AlreadyHolds(s, m.index, m.snapTerm)
  BY <1>1, <1>3, <1>7
<1>9. CASE m.index < s.lastIncludedIndex
  BY <1>9 DEF AlreadyHolds
<1>10. CASE m.index = s.lastIncludedIndex
  <2>1. PICK b : b = Base(s)
    OBVIOUS
  <2>2. b # <<0, 0>>
    BY <1>7, <1>10, <2>1 DEF Base
  <2>3. Chosen(b)
    BY <1>2, <2>1, <2>2 DEF ChosenAt
  <2>4. DecidedTerms[b[1]] = b[2]
    BY <1>6, <2>3, ChosenFacts
  <2>5. s.lastIncludedTerm = m.snapTerm
    BY <1>7, <1>10, <2>1, <2>4 DEF Base
  <2>6. InMemory(s, m.index)
    BY <1>3, <1>7, <1>10, FullLine, <1>2 DEF InMemory
  <2> QED BY <1>10, <2>5, <2>6 DEF AlreadyHolds, GetLogTerm
<1>11. CASE m.index > s.lastIncludedIndex
  <2>1. PICK g, q : g = Terms(s) /\ q = <<c, GetLogTerm(s, c)>>
    OBVIOUS
  <2>2. Chosen(q)
    BY <1>3, <1>4, <1>7, <1>8, <2>1 DEF ChosenAt
  <2>3. c \in Held(s) /\ m.index \in Held(s)
    BY <1>3, <1>4, <1>7, <1>8, <1>11 DEF Held
  <2>4. /\ IsLine(g) /\ Rooted(Starts, g) /\ DOMAIN g = Held(s)
        /\ \A i \in Held(s) : g[i] = GetLogTerm(s, i) /\ InMemory(s, i)
    BY <1>2, <2>1, TermsLine
  <2>5. q[1] = c /\ q[1] \in DOMAIN g /\ g[q[1]] = q[2] /\ m.index \in DOMAIN g
    BY <2>1, <2>3, <2>4
  <2>6. g[m.index] = DecidedTerms[m.index]
    BY <1>6, <1>7, <1>8, <2>2, <2>4, <2>5, LineIsDecided
  <2> QED BY <1>7, <2>3, <2>4, <2>6 DEF AlreadyHolds
<1> QED BY <1>3, <1>7, <1>9, <1>10, <1>11

LEMMA TurnCommitsMore ==
  ASSUME Known, SafetyInv, NEW n \in Node, Turn(n), up[n], up'[n]
  PROVE  commitIndex[n] <= commitIndex'[n] /\ lastApplied[n] <= lastApplied'[n]
<1>1. commitIndex[n] \in Nat /\ lastApplied[n] = commitIndex[n]
  BY NodeStates DEF SafetyInv, ProgressOK
<1>2. CASE Rests(n)
  BY <1>1, <1>2 DEF Rests
<1>3. CASE Commits(n)
  <2>1. PICK i \in Committable(st'[n], n, matchIndex'[n], commitIndex[n]) : Applies(n, i)
    BY <1>3 DEF Commits
  <2>2. i > commitIndex[n] /\ i \in Nat
    BY <1>1, <2>1 DEF Committable
  <2> QED BY <1>1, <2>1, <2>2 DEF Applies, Larger
<1>4. CASE Learns(n)
  <2>1. PICK m \in Appends :
          /\ MergedBy(n, m) /\ st'[n] = hs'[n]
          /\ m.leaderCommit > commitIndex[n]
          /\ Applies(n, Smaller(m.leaderCommit, LastLogIndex(st'[n])))
    BY <1>4 DEF Learns
  <2>2. PICK w : w = st'[n]
    OBVIOUS
  <2>3. MergedTo(n, w, m)
    BY <2>1, <2>2 DEF MergedBy, MergedTo, Merged
  <2>4. commitIndex[n] <= LastLogIndex(w) /\ w \in HardState
    BY <2>3, MergeKeeps, MergedEnd
  <2>5. LastLogIndex(w) \in Nat /\ m.leaderCommit \in Nat
    BY <2>4, HardStateFields, AppendLine DEF Known, LogInv
  <2> QED BY <1>1, <2>1, <2>2, <2>4, <2>5 DEF Applies, Larger, Smaller
<1>5. CASE Adopts(n)
  <2>1. PICK m \in Installs : /\ ~AlreadyHolds(st[n], m.index, m.snapTerm)
                              /\ commitIndex'[n] = m.index /\ lastApplied'[n] = m.index
    BY <1>5 DEF Adopts, InstalledBy
  <2> QED BY <1>1, <2>1, AdoptsMore
<1>6. CASE Dies(n) \/ Returns(n)
  BY <1>6 DEF Dies, Returns
<1> QED BY <1>2, <1>3, <1>4, <1>5, <1>6 DEF Turn

LEMMA NextCommitsMore ==
  ASSUME ~StaleSnapshots, Known, Known', SafetyInv, [Next]_vars, NEW p \in Node, up[p], up'[p]
  PROVE  commitIndex[p] <= commitIndex'[p] /\ lastApplied[p] <= lastApplied'[p]
<1>1. DiskStep /\ TypeOK
  BY NextDisk DEF Known, ElectionInv
<1>2. commitIndex[p] \in Nat /\ lastApplied[p] \in Nat
  BY NodeStates
<1>3. ASSUME NEW n \in Node, NodeTurn(n)
      PROVE  commitIndex[p] <= commitIndex'[p] /\ lastApplied[p] <= lastApplied'[p]
  <2>1. CASE p = n
    BY <1>3, <2>1, TurnCommitsMore DEF NodeTurn
  <2>2. CASE p # n
    BY <1>2, <1>3, <2>2 DEF NodeTurn, Untouched
  <2> QED BY <2>1, <2>2
<1>4. ASSUME NEW n \in Node, Step(n)
      PROVE  commitIndex[p] <= commitIndex'[p] /\ lastApplied[p] <= lastApplied'[p]
  BY <1>1, <1>3, <1>4, StepIsTurn
<1>5. ASSUME NEW m \in messages, NEW n \in Receivers(m), Receive(n, m)
      PROVE  commitIndex[p] <= commitIndex'[p] /\ lastApplied[p] <= lastApplied'[p]
  BY <1>1, <1>3, <1>5, ReceiveIsTurn
<1>6. CASE (\E t \in snapTasks : ReadSnapshot(t)) \/ UNCHANGED vars
  <2>1. commitIndex' = commitIndex /\ lastApplied' = lastApplied
    BY <1>6 DEF ReadSnapshot, progress, vars
  <2> QED BY <1>2, <2>1
<1> QED BY <1>4, <1>5, <1>6 DEF Next

------------------------------------------------------------------------------
(* Theorems.                                                               *)

(* Two logs, in memory or on disk, with an entry of the same index and term*)
(* are the same up to it: handle_append_entries looks at the entry before  *)
(* the first it is sent, and overwrites only what conflicts.               *)
THEOREM LogsMatch ==
  ASSUME ~StaleSnapshots
  PROVE  Spec => []LogMatching
<1> QED BY MatchingLogs, SafetyInvariant, AlwaysKnown, PTL

(* The leader of the latest term has every committed entry: advance_commit_*)
(* index counts only entries of its own term on a majority, and            *)
(* handle_request_vote refuses a candidate whose log is behind.            *)
THEOREM LeadersAreComplete ==
  ASSUME ~StaleSnapshots
  PROVE  Spec => []LeaderCompleteness
<1> QED BY CompleteLeaders, SafetyInvariant, AlwaysKnown, PTL

(* All nodes apply the same entries in the order of their indices, each    *)
(* once, across crashes, restarts, compaction and installed snapshots      *)
(* (apply_committed, compact_log, handle_install_snapshot, start-up).      *)
THEOREM StateMachinesAgree ==
  ASSUME ~StaleSnapshots
  PROVE  Spec => []StateMachineSafety
<1>1. SafetyInv => StateMachineSafety
  <2> SUFFICES ASSUME SafetyInv PROVE StateMachineSafety
    OBVIOUS
  <2>1. \A e, f \in decided : e.index = f.index => e = f
    BY DEF SafetyInv, DecidedOK
  <2>2. \A n \in Node :
          /\ Len(data[n]) = lastApplied[n]
          /\ \A i \in 1 .. Len(data[n]) : data[n][i].index = i /\ data[n][i] \in decided
    BY DEF SafetyInv, ProgressOK, Applied
  <2> QED BY <2>1, <2>2 DEF StateMachineSafety
<1> QED BY <1>1, SafetyInvariant, PTL

(* In a running node the placeholder, what is applied, what is committed and*)
(* the end of the log stay in that order, so that the subtractions on      *)
(* indices in get_log_term, compact_log and apply_committed never underflow.*)
THEOREM IndicesAreOrdered ==
  ASSUME ~StaleSnapshots
  PROVE  Spec => []IndicesOrdered
<1>1. SafetyInv => IndicesOrdered
  BY DEF SafetyInv, ProgressOK, IndicesOrdered
<1> QED BY <1>1, SafetyInvariant, PTL

(* Whichever of its writes fails or is cut off by a crash, a node finds at *)
(* start-up a snapshot file that its hard state goes with.                 *)
THEOREM DisksAreStartable ==
  ASSUME ~StaleSnapshots
  PROVE  Spec => []DiskStartable
<1> QED BY StartableDisks, SafetyInvariant, AlwaysKnown, PTL

(* Every committed entry can be read back from the two files of a majority *)
(* of nodes: a follower answers only after its log is saved, and a leader  *)
(* whose save failed does not count itself.                                *)
THEOREM DecidedIsRecoverable ==
  ASSUME ~StaleSnapshots
  PROVE  Spec => []DecidedOnQuorum
<1> QED BY QuorumRecovers, SafetyInvariant, AlwaysKnown, PTL

(* While its process lives a node never takes back a commit or what it     *)
(* applied, not even when it installs a snapshot.                          *)
THEOREM CommitsAreKept ==
  ASSUME ~StaleSnapshots
  PROVE  Spec => CommitMonotonic
<1>1. Known /\ Known' /\ SafetyInv /\ [Next]_vars
      => [\A n \in Node : up[n] /\ up'[n] =>
            commitIndex[n] <= commitIndex'[n] /\ lastApplied[n] <= lastApplied'[n]]_vars
  BY NextCommitsMore
<1> QED BY <1>1, SafetyInvariant, AlwaysKnown, PTL DEF Spec, CommitMonotonic

------------------------------------------------------------------------------
(* The replicated log of ReplicatedLog.                                    *)

(* The indices of the committed entries are 1 to some N.                   *)
DecidedCounted == \E N \in Nat : {e.index : e \in decided} = 1 .. N

LEMMA KeepsCounted ==
  ASSUME Known, Known', SafetyInv, DecidedCounted, NEW n \in Node, NodeTurn(n)
  PROVE  DecidedCounted'
<1>1. CASE decided' = decided
  BY <1>1 DEF DecidedCounted
<1>2. ASSUME NEW i, CommitsTo(n, i)
      PROVE  DecidedCounted'
  <2>1. PICK s, c : s = st'[n] /\ c = commitIndex[n]
    OBVIOUS
  <2>2. PICK N \in Nat : {e.index : e \in decided} = 1 .. N
    BY DEF DecidedCounted
  <2>3. /\ c \in Nat /\ i \in Nat /\ c < i
        /\ \A j \in c + 1 .. i : EntryAt(s, j).index = j
    BY <1>2, <2>1, CommitAdds
  <2>4. \A j \in 1 .. c : \E e \in decided : e.index = j
    BY <1>2, <2>1, CommitAdds
  <2>5. decided' = decided \cup {EntryAt(s, j) : j \in c + 1 .. i}
    BY <1>2, <2>1 DEF CommitsTo
  <2>6. c <= N
    <3>1. CASE c = 0
      BY <3>1
    <3>2. CASE c # 0
      <4>1. c \in {e.index : e \in decided}
        BY <2>3, <2>4, <3>2
      <4> QED BY <2>2, <2>3, <4>1
    <3> QED BY <3>1, <3>2
  <2>7. {e.index : e \in decided'} = (1 .. N) \cup (c + 1 .. i)
    <3>1. {e.index : e \in decided'}
            = {e.index : e \in decided} \cup {EntryAt(s, j).index : j \in c + 1 .. i}
      BY <2>5
    <3>2. {EntryAt(s, j).index : j \in c + 1 .. i} = c + 1 .. i
      BY <2>3
    <3> QED BY <2>2, <3>1, <3>2
  <2>8. (1 .. N) \cup (c + 1 .. i) = 1 .. (IF i > N THEN i ELSE N)
    BY <2>3, <2>6
  <2>9. (IF i > N THEN i ELSE N) \in Nat
    BY <2>3
  <2> QED BY <2>7, <2>8, <2>9 DEF DecidedCounted
<1> QED BY <1>1, <1>2, DecidedSteps

LEMMA NextKeepsCounted ==
  ASSUME ~StaleSnapshots, Known, Known', SafetyInv, DecidedCounted, [Next]_vars
  PROVE  DecidedCounted'
<1>1. DiskStep
  BY NextDisk DEF Known, ElectionInv
<1>2. ASSUME NEW n \in Node, Step(n)
      PROVE  DecidedCounted'
  BY <1>1, <1>2, StepIsTurn, KeepsCounted
<1>3. ASSUME NEW m \in messages, NEW n \in Receivers(m), Receive(n, m)
      PROVE  DecidedCounted'
  BY <1>1, <1>3, ReceiveIsTurn, KeepsCounted
<1>4. CASE (\E t \in snapTasks : ReadSnapshot(t)) \/ UNCHANGED vars
  <2>1. decided' = decided
    BY <1>4 DEF ReadSnapshot, history, vars
  <2> QED BY <2>1 DEF DecidedCounted
<1> QED BY <1>2, <1>3, <1>4 DEF Next

LEMMA CountedInvariant ==
  ASSUME ~StaleSnapshots
  PROVE  Spec => []DecidedCounted
<1>1. Init => DecidedCounted
  <2> SUFFICES ASSUME Init PROVE DecidedCounted
    OBVIOUS
  <2>1. {e.index : e \in decided} = {}
    BY DEF Init
  <2>2. 1 .. 0 = {}
    OBVIOUS
  <2> QED BY <2>1, <2>2 DEF DecidedCounted
<1>2. Known /\ Known' /\ SafetyInv /\ DecidedCounted /\ [Next]_vars => DecidedCounted'
  BY NextKeepsCounted
<1> QED BY <1>1, <1>2, AlwaysKnown, SafetyInvariant, PTL DEF Spec

LEMMA PrefixOf ==
  ASSUME NEW S, NEW s \in Seq(S), NEW t \in Seq(S), Len(s) <= Len(t),
         \A i \in 1 .. Len(s) : s[i] = t[i]
  PROVE  Replicated!IsPrefixOf(s, t)
<1>1. PICK r : r = SubSeq(t, 1, Len(s))
  OBVIOUS
<1>2. r \in Seq(S) /\ Len(r) = Len(s) /\ \A i \in 1 .. Len(s) : r[i] = t[i]
  BY <1>1
<1>3. r = s
  BY <1>2
<1> QED BY <1>1, <1>3 DEF Replicated!IsPrefixOf

(* The committed entries are a sequence of all that is decided.            *)
LogSays ==
  /\ CommittedLog \in Seq(LogEntry)
  /\ \A e \in decided : e.index \in 1 .. Len(CommittedLog) /\ CommittedLog[e.index] = e
  /\ \A i \in 1 .. Len(CommittedLog) : CommittedLog[i] \in decided /\ CommittedLog[i].index = i

LEMMA LogOfDecided == Known /\ SafetyInv /\ DecidedCounted => LogSays
<1> SUFFICES ASSUME Known, SafetyInv, DecidedCounted
             PROVE  LogSays
  OBVIOUS
<1>1. PICK N \in Nat : {e.index : e \in decided} = 1 .. N
  BY DEF DecidedCounted
<1>2. decided \subseteq LogEntry
  BY DEF Known, TypeOK, HistoryType
<1>3. PICK G : G = CommittedLog
  OBVIOUS
<1>4. G = [i \in 1 .. N |-> CHOOSE e \in decided : e.index = i]
  BY <1>1, <1>3 DEF CommittedLog
<1>5. \A i \in 1 .. N : G[i] \in decided /\ G[i].index = i
  <2> SUFFICES ASSUME NEW i \in 1 .. N
               PROVE  G[i] \in decided /\ G[i].index = i
    OBVIOUS
  <2>1. \E e \in decided : e.index = i
    BY <1>1
  <2>2. G[i] = CHOOSE e \in decided : e.index = i
    BY <1>4
  <2> QED BY <2>1, <2>2
<1>6. G \in Seq(LogEntry) /\ Len(G) = N
  BY <1>2, <1>4, <1>5
<1>7. ASSUME NEW e \in decided
      PROVE  e.index \in 1 .. N /\ G[e.index] = e
  <2>1. e.index \in 1 .. N
    BY <1>1
  <2> QED BY <1>5, <2>1, OneDecided
<1> QED BY <1>3, <1>5, <1>6, <1>7 DEF LogSays

(* Every state machine is a prefix of it.                                  *)
DataSays ==
  \A n \in Node : /\ data[n] \in Seq(LogEntry) /\ Len(data[n]) \in Nat
                  /\ Len(data[n]) <= Len(CommittedLog)
                  /\ \A i \in 1 .. Len(data[n]) : data[n][i] = CommittedLog[i]

LEMMA DataIsPrefix == Known /\ SafetyInv /\ DecidedCounted => DataSays
<1> SUFFICES ASSUME Known, SafetyInv, DecidedCounted, NEW n \in Node
             PROVE  /\ data[n] \in Seq(LogEntry) /\ Len(data[n]) \in Nat
                    /\ Len(data[n]) <= Len(CommittedLog)
                    /\ \A i \in 1 .. Len(data[n]) : data[n][i] = CommittedLog[i]
  BY DEF DataSays
<1>1. PICK d : d = data[n]
  OBVIOUS
<1>2. d \in Seq(LogEntry) /\ Len(d) \in Nat
  BY <1>1 DEF Known, TypeOK, ProgressType
<1>3. \A i \in 1 .. Len(d) : d[i].index = i /\ d[i] \in decided
  BY <1>1 DEF SafetyInv, ProgressOK, Applied
<1>4. /\ Len(CommittedLog) \in Nat
      /\ \A e \in decided : e.index \in 1 .. Len(CommittedLog) /\ CommittedLog[e.index] = e
  BY LogOfDecided DEF LogSays
<1>5. Len(d) <= Len(CommittedLog)
  <2>1. CASE Len(d) = 0
    BY <1>4, <2>1
  <2>2. CASE Len(d) # 0
    <3>1. Len(d) \in 1 .. Len(d)
      BY <1>2, <2>2
    <3>2. Len(d) \in 1 .. Len(CommittedLog)
      BY <1>3, <1>4, <3>1
    <3> QED BY <1>4, <3>2
  <2> QED BY <2>1, <2>2
<1> QED BY <1>1, <1>2, <1>3, <1>4, <1>5

------------------------------------------------------------------------------
(* Clients are answered for what the step applies.                         *)

NewAnswers(n) ==
  /\ answered \subseteq answered'
  /\ \A a \in answered' \ answered :
       /\ up[n] /\ up'[n]
       /\ \E i \in Len(data[n]) + 1 .. Len(data'[n]) : data'[n][i] = a.applied

LEMMA NoAnswers ==
  ASSUME NEW n, answered' = answered
  PROVE  NewAnswers(n)
BY DEF NewAnswers

LEMMA ApplyAnswers ==
  ASSUME TypeOK, NEW n \in Node, up[n], up' = up,
         NEW s \in HardState, NEW commit \in Nat, NEW waiting,
         s.lastIncludedIndex <= lastApplied[n], ApplyCommitted(n, s, commit, waiting)
  PROVE  NewAnswers(n)
<1>1. PICK c, from, to : /\ c = lastApplied[n]
                         /\ from = Larger(c + 1, s.lastIncludedIndex)
                         /\ to = Smaller(commit, LastLogIndex(s))
  OBVIOUS
<1>2. /\ c \in Nat /\ s.lastIncludedIndex \in Nat /\ LastLogIndex(s) \in Nat
      /\ s.lastIncludedIndex <= c
  BY <1>1, HardStateFields DEF TypeOK, ProgressType
<1>3. /\ from \in Nat /\ from > s.lastIncludedIndex /\ to \in Nat /\ to <= LastLogIndex(s)
  BY <1>1, <1>2 DEF Larger, Smaller
<1>4. PICK d, e, f : d = data[n] /\ e = EntriesBetween(s, from, to) /\ f = data'[n]
  OBVIOUS
<1>5. d \in Seq(LogEntry)
  BY <1>4 DEF TypeOK, ProgressType
<1>6. f = d \o e
  BY <1>1, <1>4 DEF ApplyCommitted, TypeOK, ProgressType
<1>7. answered' = answered \cup {[asked |-> p, applied |-> EntryAt(s, p.index)] :
                                   p \in {q \in waiting : q.index \in from .. to}}
  BY <1>1 DEF ApplyCommitted
<1>8. ASSUME NEW p \in waiting, p.index \in from .. to
      PROVE  \E i \in Len(d) + 1 .. Len(f) : f[i] = EntryAt(s, p.index)
  <2>1. PICK j : j = p.index
    OBVIOUS
  <2>2. j \in Nat /\ from <= j /\ j <= to /\ from <= to
    BY <1>3, <1>8, <2>1
  <2>3. e \in Seq(LogEntry)
    BY <1>3, <1>4, <2>2, EntriesTo
  <2>4. Len(e) = to - from + 1
    BY <1>3, <1>4, <2>2, EntriesTo
  <2>5. \A k \in 1 .. to - from + 1 : e[k] = EntryAt(s, from + k - 1)
    BY <1>3, <1>4, <2>2, EntriesTo
  <2>6. PICK k : k = j - from + 1
    OBVIOUS
  <2>7. k \in 1 .. to - from + 1 /\ from + k - 1 = j
    BY <1>3, <2>2, <2>6
  <2>8. e[k] = EntryAt(s, j)
    BY <2>5, <2>7
  <2>9. /\ Len(d) \in Nat /\ Len(f) = Len(d) + Len(e)
        /\ \A i \in Len(d) + 1 .. Len(f) : f[i] = e[i - Len(d)]
    BY <1>5, <1>6, <2>3, JoinedSeq
  <2>10. PICK i, l : l = Len(d) /\ i = l + k
    OBVIOUS
  <2>11. i \in l + 1 .. l + (to - from + 1) /\ i - l = k
    BY <1>3, <2>2, <2>7, <2>9, <2>10
  <2> QED BY <2>1, <2>4, <2>8, <2>9, <2>10, <2>11
<1> QED BY <1>4, <1>7, <1>8 DEF NewAnswers

LEMMA AdvanceAnswers ==
  ASSUME TypeOK, NEW n \in Node, up[n], up' = up,
         NEW s \in HardState, NEW match, NEW waiting,
         s.lastIncludedIndex <= lastApplied[n], AdvanceCommit(n, s, match, waiting)
  PROVE  NewAnswers(n)
<1>1. CASE answered' = answered
  BY <1>1, NoAnswers
<1>2. ASSUME NEW i \in Committable(s, n, match, commitIndex[n]), ApplyCommitted(n, s, i, waiting)
      PROVE  NewAnswers(n)
  <2>1. i \in Nat
    BY <1>2, HardStateFields DEF Committable, TypeOK, ProgressType
  <2> QED BY <1>2, <2>1, ApplyAnswers
<1> QED BY <1>1, <1>2 DEF AdvanceCommit

LEMMA RequestAnswers ==
  ASSUME TypeOK, NEW n \in Node, NEW v \in Value, ClientRequest(n, v),
         up[n] => st[n].lastIncludedIndex <= lastApplied[n]
  PROVE  NewAnswers(n)
<1> DEFINE s == PushEntry(st[n], v)
           entry == EntryAt(s, LastLogIndex(s))
           others == {p \in pending[n] : p.index # entry.index}
<1>1. st[n] \in HardState /\ s \in HardState
  BY PushEntryType DEF TypeOK, ProcessType, Command
<1>2. s.lastIncludedIndex = st[n].lastIncludedIndex
  BY <1>1 DEF PushEntry, HardState
<1>3. up[n] /\ up' = up
  BY DEF ClientRequest, Ready
<1>4. \/ AdvanceCommit(n, s, matchIndex[n], others \cup {entry})
      \/ answered' = answered
  BY DEF ClientRequest
<1> HIDE DEF s, entry, others
<1> QED BY <1>1, <1>2, <1>3, <1>4, AdvanceAnswers, NoAnswers

LEMMA ResultAnswers ==
  ASSUME TypeOK, NEW n \in Node, NEW m \in messages, HandleResult(n, m),
         up[n] => st[n].lastIncludedIndex <= lastApplied[n]
  PROVE  NewAnswers(n)
<1>1. up[n] /\ up' = up
  BY DEF HandleResult, Ready
<1>2. st[n] \in HardState
  BY DEF TypeOK, ProcessType
<1>3. \/ \E match : AdvanceCommit(n, st[n], match, pending[n])
      \/ answered' = answered
  BY DEF HandleResult, progress
<1> QED BY <1>1, <1>2, <1>3, AdvanceAnswers, NoAnswers

LEMMA AppendAnswers ==
  ASSUME TypeOK, NEW n \in Node, NEW m \in messages, HandleAppendEntries(n, m),
         up[n] => st[n].lastIncludedIndex <= lastApplied[n]
  PROVE  NewAnswers(n)
<1> DEFINE s == UpdateTerm(st[n], m.term)
           consistent == AppendConsistent(s, m.prevIndex, m.prevTerm)
           merged == IF consistent THEN WithEntries(s, m.prevIndex, m.entries) ELSE s
           commit == Smaller(m.leaderCommit, LastLogIndex(merged))
<1>1. /\ m.prevIndex \in Nat /\ m.entries \in Seq(LogEntry) /\ m.leaderCommit \in Nat
      /\ st[n] \in HardState /\ s \in HardState
  BY MessageKinds, UpdateTermType
  DEF HandleAppendEntries, TypeOK, NetworkType, ProcessType, AppendEntriesType
<1>2. merged \in HardState
  BY <1>1, WithEntriesType DEF AppendConsistent
<1>3. merged.lastIncludedIndex = st[n].lastIncludedIndex
  <2>1. s.lastIncludedIndex = st[n].lastIncludedIndex
    BY <1>1 DEF UpdateTerm, HardState
  <2>2. WithEntries(s, m.prevIndex, m.entries).lastIncludedIndex = s.lastIncludedIndex
    BY <1>1 DEF WithEntries, HardState
  <2> QED BY <2>1, <2>2
<1>4. commit \in Nat
  BY <1>1, <1>2, HardStateFields DEF Smaller
<1>5. up[n] /\ up' = up
  BY DEF HandleAppendEntries, Ready
<1>6. ApplyCommitted(n, merged, commit, pending[n]) \/ answered' = answered
  BY DEF HandleAppendEntries, progress
<1> HIDE DEF s, consistent, merged, commit
<1> QED BY <1>2, <1>3, <1>4, <1>5, <1>6, ApplyAnswers, NoAnswers

LEMMA StepAnswers ==
  ASSUME TypeOK, NEW n \in Node, Step(n),
         up[n] => st[n].lastIncludedIndex <= lastApplied[n]
  PROVE  NewAnswers(n)
<1>1. CASE StartElection(n) \/ StartElectionUnsaved(n) \/ ElectionEnds(n) \/ HeartbeatTick(n)
  BY <1>1, NoAnswers
  DEF StartElection, StartElectionUnsaved, ElectionEnds, HeartbeatTick, progress
<1>2. CASE \E v \in Value : ClientRequest(n, v)
  BY <1>2, RequestAnswers
<1>3. CASE TriggerSnapshot(n) \/ TriggerSnapshotInterrupted(n) \/ Crash(n) \/ Restart(n)
  BY <1>3, NoAnswers DEF TriggerSnapshot, TriggerSnapshotInterrupted, Crash, Restart, GoDown
<1> QED BY <1>1, <1>2, <1>3 DEF Step

LEMMA ReceiveAnswers ==
  ASSUME TypeOK, NEW n \in Node, NEW m \in messages, Receive(n, m),
         up[n] => st[n].lastIncludedIndex <= lastApplied[n]
  PROVE  NewAnswers(n)
<1>1. CASE ReceiveVote(n, m) \/ HandleRequestVote(n, m) \/ StaleAppendEntries(n, m)
  BY <1>1, NoAnswers DEF ReceiveVote, HandleRequestVote, StaleAppendEntries, progress
<1>2. CASE HandleAppendEntries(n, m)
  BY <1>2, AppendAnswers
<1>3. CASE HandleResult(n, m)
  BY <1>3, ResultAnswers
<1>4. CASE StaleInstallSnapshot(n, m) \/ InstallSnapshotTermUnsaved(n, m) \/ RefuseSnapshot(n, m)
  BY <1>4, NoAnswers DEF StaleInstallSnapshot, InstallSnapshotTermUnsaved, RefuseSnapshot, progress
<1>5. CASE HandleInstallSnapshot(n, m) \/ InstallSnapshotInterrupted(n, m)
  BY <1>5, NoAnswers DEF HandleInstallSnapshot, InstallSnapshotInterrupted, GoDown
<1> QED BY <1>1, <1>2, <1>3, <1>4, <1>5 DEF Receive

------------------------------------------------------------------------------
(* Every step is one of ReplicatedLog, or none.                            *)

Told == {a.applied : a \in answered}

(* What is shared by all cases: the log grows, n moves alone.              *)
Moves(n) ==
  /\ CommittedLog \in Seq(LogEntry) /\ CommittedLog' \in Seq(LogEntry)
  /\ Len(CommittedLog) <= Len(CommittedLog')
  /\ \A i \in 1 .. Len(CommittedLog) : CommittedLog'[i] = CommittedLog[i]
  /\ \A p \in Node \ {n} : data'[p] = data[p] /\ up'[p] = up[p]
  /\ data \in [Node -> Seq(LogEntry)] /\ data' \in [Node -> Seq(LogEntry)]
  /\ up \in [Node -> BOOLEAN] /\ up' \in [Node -> BOOLEAN]
  /\ DataSays /\ DataSays'
  /\ NewAnswers(n)

LEMMA TurnMoves ==
  ASSUME Known, Known', SafetyInv, SafetyInv', DecidedCounted, DecidedCounted',
         NEW n \in Node, NodeTurn(n), NewAnswers(n)
  PROVE  Moves(n)
<1>1. LogSays /\ LogSays' /\ DataSays /\ DataSays'
  BY LogOfDecided, DataIsPrefix, PTL
<1>2. decided \subseteq decided'
  BY TurnGrows
<1>3. PICK G, H : G = CommittedLog /\ H = CommittedLog'
  OBVIOUS
<1>4. /\ G \in Seq(LogEntry) /\ H \in Seq(LogEntry) /\ Len(G) \in Nat /\ Len(H) \in Nat
      /\ \A i \in 1 .. Len(G) : G[i] \in decided /\ G[i].index = i
      /\ \A e \in decided' : e.index \in 1 .. Len(H) /\ H[e.index] = e
  BY <1>1, <1>3 DEF LogSays
<1>5. \A i \in 1 .. Len(G) : i \in 1 .. Len(H) /\ H[i] = G[i]
  BY <1>2, <1>4
<1>6. Len(G) <= Len(H)
  <2>1. CASE Len(G) = 0
    BY <1>4, <2>1
  <2>2. CASE Len(G) # 0
    <3>1. Len(G) \in 1 .. Len(G)
      BY <1>4, <2>2
    <3>2. Len(G) \in 1 .. Len(H)
      BY <1>5, <3>1
    <3> QED BY <1>4, <3>2
  <2> QED BY <2>1, <2>2
<1>7. \A p \in Node \ {n} : data'[p] = data[p] /\ up'[p] = up[p]
  BY DEF NodeTurn, Untouched
<1>8. /\ data \in [Node -> Seq(LogEntry)] /\ data' \in [Node -> Seq(LogEntry)]
      /\ up \in [Node -> BOOLEAN] /\ up' \in [Node -> BOOLEAN]
  BY DEF Known, TypeOK, ProgressType, ProcessType
<1> QED BY <1>1, <1>3, <1>4, <1>5, <1>6, <1>7, <1>8 DEF Moves

LEMMA MovesAdvance ==
  ASSUME NEW n \in Node, Moves(n), up[n], up'[n], Len(data[n]) <= Len(data'[n])
  PROVE  Replicated!Advance(n) /\ Replicated!IsPrefixOf(CommittedLog, CommittedLog')
<1>1. PICK d, e, G, H : d = data[n] /\ e = data'[n] /\ G = CommittedLog /\ H = CommittedLog'
  OBVIOUS
<1>2. /\ d \in Seq(LogEntry) /\ e \in Seq(LogEntry) /\ G \in Seq(LogEntry) /\ H \in Seq(LogEntry)
      /\ Len(G) <= Len(H) /\ \A i \in 1 .. Len(G) : H[i] = G[i]
      /\ Len(d) <= Len(G) /\ \A i \in 1 .. Len(d) : d[i] = G[i]
      /\ Len(e) <= Len(H) /\ \A i \in 1 .. Len(e) : e[i] = H[i]
      /\ Len(d) <= Len(e)
      /\ Len(d) \in Nat /\ Len(e) \in Nat /\ Len(G) \in Nat /\ Len(H) \in Nat
  BY <1>1 DEF Moves, DataSays
<1>3. \A i \in 1 .. Len(d) : d[i] = e[i]
  BY <1>2
<1>4. Replicated!IsPrefixOf(d, e) /\ Replicated!IsPrefixOf(e, H) /\ Replicated!IsPrefixOf(G, H)
  BY <1>2, <1>3, PrefixOf
<1>5. up' = up
  BY DEF Moves
<1>6. \A p \in Node \ {n} : data'[p] = data[p]
  BY DEF Moves
<1>7. /\ Told \subseteq Told'
      /\ \A v \in Told' \ Told : \E i \in Len(d) + 1 .. Len(e) : e[i] = v
  BY <1>1 DEF Moves, NewAnswers, Told
<1>8. Told' \ Told \subseteq Replicated!Elements(SubSeq(e, Len(d) + 1, Len(e)))
  <2> SUFFICES ASSUME NEW v \in Told' \ Told
               PROVE  v \in Replicated!Elements(SubSeq(e, Len(d) + 1, Len(e)))
    OBVIOUS
  <2>1. PICK i \in Len(d) + 1 .. Len(e) : e[i] = v
    BY <1>7
  <2>2. PICK r, l, k : r = SubSeq(e, l + 1, Len(e)) /\ l = Len(d) /\ k = i - l
    OBVIOUS
  <2>3. l \in Nat /\ l + 1 <= Len(e) /\ k \in 1 .. Len(e) - l /\ l + k = i
    BY <1>2, <2>1, <2>2
  <2>4. Len(r) = Len(e) - l /\ \A x \in 1 .. Len(e) - l : r[x] = e[l + x]
    BY <1>2, <2>2, <2>3
  <2>5. k \in 1 .. Len(r) /\ r[k] = v
    BY <2>1, <2>3, <2>4
  <2> QED BY <2>2, <2>5 DEF Replicated!Elements
<1> QED BY <1>1, <1>4, <1>5, <1>6, <1>7, <1>8 DEF Replicated!Advance, Told

LEMMA StayApplies ==
  ASSUME NEW n \in Node, Moves(n), up[n], up'[n], Len(data[n]) <= Len(data'[n]),
         CommittedLog' = CommittedLog
  PROVE  Replicated!Next
BY MovesAdvance DEF Replicated!Next, Replicated!Apply

(* All that is committed the leader applies.                               *)
LEMMA CommitApplies ==
  ASSUME Known, Known', SafetyInv, SafetyInv', DecidedCounted, DecidedCounted',
         NEW n \in Node, NodeTurn(n), Moves(n), NEW i, CommitsTo(n, i),
         CommittedLog' # CommittedLog
  PROVE  data'[n] = CommittedLog'
<1>1. PICK s, c, e, G, H : /\ s = st'[n] /\ c = commitIndex[n] /\ e = data'[n]
                           /\ G = CommittedLog /\ H = CommittedLog'
  OBVIOUS
<1>2. /\ c \in Nat /\ i \in Nat /\ c < i /\ \A j \in c + 1 .. i : EntryAt(s, j).index = j
      /\ decided' = decided \cup {EntryAt(s, j) : j \in c + 1 .. i}
  BY <1>1, CommitAdds DEF CommitsTo
<1>3. Len(e) = i
  <2>1. lastApplied'[n] = i
    <3>1. lastApplied[n] = c
      BY <1>1 DEF CommitsTo, SafetyInv, ProgressOK
    <3>2. lastApplied'[n] = Larger(lastApplied[n], i)
      BY DEF CommitsTo, Applies
    <3> QED BY <1>2, <3>1, <3>2 DEF Larger
  <2>2. Len(e) = lastApplied'[n]
    BY <1>1 DEF SafetyInv, ProgressOK, Applied
  <2> QED BY <2>1, <2>2
<1>4. LogSays /\ LogSays'
  BY LogOfDecided, PTL
<1>5. /\ e \in Seq(LogEntry) /\ G \in Seq(LogEntry) /\ H \in Seq(LogEntry)
      /\ Len(G) <= Len(H) /\ \A j \in 1 .. Len(G) : H[j] = G[j]
      /\ Len(e) <= Len(H) /\ \A j \in 1 .. Len(e) : e[j] = H[j]
      /\ Len(G) \in Nat /\ Len(H) \in Nat
  BY <1>1 DEF Moves, DataSays
<1>6. Len(G) # Len(H)
  <2> SUFFICES ASSUME Len(G) = Len(H) PROVE G = H
    BY <1>1
  <2> QED BY <1>5
<1>7. Len(H) <= i
  <2> SUFFICES ASSUME Len(H) > i PROVE FALSE
    BY <1>2, <1>5
  <2>1. Len(H) \in 1 .. Len(H)
    BY <1>2, <1>5
  <2>2. H[Len(H)] \in decided' /\ H[Len(H)].index = Len(H)
    BY <1>1, <1>4, <2>1 DEF LogSays
  <2>3. H[Len(H)] \in decided
    BY <1>2, <1>5, <2>2
  <2>4. Len(H) \in 1 .. Len(G)
    BY <1>1, <1>4, <2>2, <2>3 DEF LogSays
  <2> QED BY <1>5, <1>6, <2>4
<1>8. Len(e) = Len(H)
  BY <1>2, <1>3, <1>5, <1>7
<1>9. e = H
  BY <1>5, <1>8
<1> QED BY <1>1, <1>9

LEMMA TurnImplements ==
  ASSUME Known, Known', SafetyInv, SafetyInv', DecidedCounted, DecidedCounted',
         NEW n \in Node, NodeTurn(n), NewAnswers(n)
  PROVE  Replicated!Next \/ UNCHANGED Replicated!vars
<1>1. Moves(n)
  BY TurnMoves
<1>2. Turn(n)
  BY DEF NodeTurn
<1>3. CASE up[n] /\ up'[n]
  <2>1. Len(data[n]) = lastApplied[n] /\ Len(data'[n]) = lastApplied'[n]
    BY DEF SafetyInv, ProgressOK, Applied
  <2>2. Len(data[n]) <= Len(data'[n])
    BY <1>2, <1>3, <2>1, TurnCommitsMore
  <2>3. CASE CommittedLog' = CommittedLog
    BY <1>1, <1>3, <2>2, <2>3, StayApplies
  <2>4. ASSUME NEW i, CommitsTo(n, i), CommittedLog' # CommittedLog
        PROVE  Replicated!Next
    <3>1. data'[n] = CommittedLog'
      BY <1>1, <2>4, CommitApplies
    <3>2. Replicated!Advance(n) /\ Replicated!IsPrefixOf(CommittedLog, CommittedLog')
      BY <1>1, <1>3, <2>2, MovesAdvance
    <3> QED BY <2>4, <3>1, <3>2 DEF Replicated!Next, Replicated!Commit
  <2>5. decided' = decided => CommittedLog' = CommittedLog
    BY DEF CommittedLog
  <2> QED BY <2>3, <2>4, <2>5, DecidedSteps
<1>4. CASE ~(up[n] /\ up'[n])
  <2>1. answered' = answered
    BY <1>1, <1>4 DEF Moves, NewAnswers
  <2>2. Told' = Told
    BY <2>1 DEF Told
  <2>3. /\ data \in [Node -> Seq(LogEntry)] /\ data' \in [Node -> Seq(LogEntry)]
        /\ up \in [Node -> BOOLEAN] /\ up' \in [Node -> BOOLEAN]
        /\ \A p \in Node \ {n} : data'[p] = data[p] /\ up'[p] = up[p]
    BY <1>1 DEF Moves
  <2>4. decided' = decided
    BY <1>2, <1>4 DEF Turn, Rests, Commits, Applies, Learns, Adopts, Dies, Returns
  <2>5. CommittedLog' = CommittedLog
    BY <2>4 DEF CommittedLog
  <2>6. CASE up[n] /\ ~up'[n]
    <3>1. data'[n] = <<>>
      BY <1>2, <2>6 DEF Turn, Rests, Commits, Applies, Learns, Adopts, Dies, Returns
    <3>2. data' = [data EXCEPT ![n] = <<>>] /\ up' = [up EXCEPT ![n] = FALSE]
      BY <2>3, <2>6, <3>1
    <3> QED BY <2>2, <2>5, <2>6, <3>2 DEF Replicated!Next, Replicated!Stop, Told
  <2>7. CASE ~up[n] /\ up'[n]
    <3>1. up' = [up EXCEPT ![n] = TRUE]
      BY <2>3, <2>7
    <3>2. PICK d, H : d = data'[n] /\ H = CommittedLog'
      OBVIOUS
    <3>3. /\ d \in Seq(LogEntry) /\ H \in Seq(LogEntry) /\ Len(d) \in Nat /\ Len(H) \in Nat
          /\ Len(d) <= Len(H) /\ \A i \in 1 .. Len(d) : d[i] = H[i]
      BY <1>1, <3>2 DEF Moves, DataSays
    <3>4. d = SubSeq(H, 1, Len(d))
      BY <3>3, PrefixOf DEF Replicated!IsPrefixOf
    <3>5. Len(d) \in 0 .. Len(CommittedLog)
      BY <2>5, <3>2, <3>3
    <3>6. data' = [data EXCEPT ![n] = SubSeq(CommittedLog, 1, Len(d))]
      BY <2>3, <2>5, <3>2, <3>4
    <3> QED BY <2>2, <2>5, <2>7, <3>1, <3>5, <3>6 DEF Replicated!Next, Replicated!Start, Told
  <2>8. CASE ~up[n] /\ ~up'[n]
    <3>1. data'[n] = data[n]
      BY <1>2, <2>8 DEF Turn, Rests, Commits, Applies, Learns, Adopts, Dies, Returns
    <3>2. data' = data /\ up' = up
      BY <2>3, <2>8, <3>1
    <3> QED BY <2>2, <2>5, <3>2 DEF Replicated!vars, Told
  <2> QED BY <1>4, <2>6, <2>7, <2>8
<1> QED BY <1>3, <1>4

LEMMA NextImplements ==
  ASSUME ~StaleSnapshots, Known, Known', SafetyInv, SafetyInv', DecidedCounted, DecidedCounted',
         [Next]_vars
  PROVE  Replicated!Next \/ UNCHANGED Replicated!vars
<1>1. DiskStep /\ TypeOK
  BY NextDisk DEF Known, ElectionInv
<1>2. \A n \in Node : up[n] => st[n].lastIncludedIndex <= lastApplied[n]
  BY DEF SafetyInv, ProgressOK
<1>3. ASSUME NEW n \in Node, Step(n)
      PROVE  Replicated!Next \/ UNCHANGED Replicated!vars
  BY <1>1, <1>2, <1>3, StepIsTurn, StepAnswers, TurnImplements
<1>4. ASSUME NEW m \in messages, NEW n \in Receivers(m), Receive(n, m)
      PROVE  Replicated!Next \/ UNCHANGED Replicated!vars
  <2>1. n \in Node /\ NodeTurn(n)
    BY <1>1, <1>4, ReceiveIsTurn
  <2> QED BY <1>1, <1>2, <1>4, <2>1, ReceiveAnswers, TurnImplements
<1>5. CASE (\E t \in snapTasks : ReadSnapshot(t)) \/ UNCHANGED vars
  <2>1. decided' = decided /\ up' = up /\ data' = data /\ answered' = answered
    BY <1>5 DEF ReadSnapshot, history, progress, vars
  <2> QED BY <2>1 DEF Replicated!vars, CommittedLog
<1> QED BY <1>3, <1>4, <1>5 DEF Next

(* The cluster implements the replicated log, step by step: an append, a   *)
(* vote or a compaction is no step of it, advance_commit_index is a Commit,*)
(* a follower's commit or an installed snapshot an Apply, a crash a Stop,  *)
(* RaftActor::new a Start.                                                 *)
THEOREM ClusterImplementsLog ==
  ASSUME ~StaleSnapshots
  PROVE  Spec => ImplementsReplicatedLog
<1>1. Init => Replicated!Init
  <2> SUFFICES ASSUME Init PROVE Replicated!Init
    OBVIOUS
  <2>1. /\ decided = {} /\ answered = {} /\ up = [n \in Node |-> TRUE]
        /\ data = [n \in Node |-> <<>>]
    BY DEF Init
  <2>2. {e.index : e \in decided} = {} /\ {a.applied : a \in answered} = {}
    BY <2>1
  <2>3. CommittedLog = <<>>
    <3>1. PICK G : G = CommittedLog
      OBVIOUS
    <3>2. G = [i \in 1 .. 0 |-> CHOOSE e \in decided : e.index = i]
      <4>1. {e.index : e \in decided} = 1 .. 0
        BY <2>2
      <4> QED BY <3>1, <4>1 DEF CommittedLog
    <3>3. G \in Seq(LogEntry) /\ Len(G) = 0
      BY <3>2
    <3> QED BY <3>1, <3>3
  <2> QED BY <2>1, <2>2, <2>3 DEF Replicated!Init
<1>2. /\ Known /\ Known' /\ SafetyInv /\ SafetyInv' /\ DecidedCounted /\ DecidedCounted'
      /\ [Next]_vars
      => [Replicated!Next]_(Replicated!vars)
  BY NextImplements
<1> QED BY <1>1, <1>2, AlwaysKnown, SafetyInvariant, CountedInvariant, PTL
        DEF Spec, ImplementsReplicatedLog, Replicated!Spec

------------------------------------------------------------------------------
(* What a follower acknowledged it keeps while it is in that term.         *)

(* A log that took in a request is past the beginning of the request's     *)
(* term, or has compacted all of the request.                              *)
LEMMA MergedReaches ==
  ASSUME Known, SafetyInv, NEW n \in Node, NEW m \in Appends, NEW s, MergedTo(n, s, m),
         NEW b, b = Beginning(m.term)
  PROVE  End(m) <= s.lastIncludedIndex \/ AtLeast(s, b)
<1>1. /\ s \in HardState /\ LogOK(s) /\ m.term \in Nat /\ m.term \in DOMAIN Starts
      /\ End(m) \in Nat /\ End(m) >= Starts[m.term].index
      /\ OwnMark(Starts, End(m), GetLogTerm(s, End(m)), m.term)
  BY MergedEnd
<1>2. End(m) <= LastLogIndex(s)
  BY MergedMiddle
<1>3. GoodStarts(Starts)
  BY StartsGood DEF SafetyInv
<1>4. b[1] = Starts[m.term].index /\ b[2] = Starts[m.term].term
  BY DEF Beginning
<1>5. b[1] \in Nat /\ b[2] \in Nat /\ b[2] < m.term
  BY <1>1, <1>3, <1>4 DEF GoodStarts
<1>6. /\ LastLogIndex(s) \in Nat /\ LastLogTerm(s) \in Nat /\ s.lastIncludedIndex \in Nat
      /\ LastLogIndex(s) > s.lastIncludedIndex =>
           LastLogIndex(s) \in Held(s) /\ LastLogTerm(s) = Terms(s)[LastLogIndex(s)]
  BY <1>1, LastOfLine
<1>7. ASSUME End(m) > s.lastIncludedIndex
      PROVE  AtLeast(s, b)
  <2>1. End(m) \in Held(s)
    BY <1>1, <1>2, <1>6, <1>7 DEF Held
  <2>2. LastLogIndex(s) \in Held(s) /\ LastLogTerm(s) = Terms(s)[LastLogIndex(s)]
    BY <1>1, <1>2, <1>6, <1>7
  <2>3. /\ IsLine(Terms(s)) /\ DOMAIN Terms(s) = Held(s)
        /\ Terms(s)[End(m)] = GetLogTerm(s, End(m)) /\ Terms(s)[End(m)] \in Nat
    BY <1>1, <2>1, TermsLine
  <2>4. Rooted(Starts, Terms(s))
    BY LineFrom DEF From
  <2>5. Terms(s)[End(m)] <= LastLogTerm(s)
    BY <1>2, <1>3, <2>1, <2>2, <2>3, <2>4, LineMonotone
  <2>6. CASE End(m) > Starts[m.term].index
    <3>1. Terms(s)[End(m)] = m.term
      BY <1>1, <2>3, <2>6 DEF OwnMark
    <3>2. LastLogTerm(s) > b[2]
      BY <1>1, <1>5, <1>6, <2>5, <3>1
    <3> QED BY <3>2 DEF AtLeast, Past
  <2>7. CASE End(m) = Starts[m.term].index
    <3>1. Terms(s)[End(m)] = b[2] /\ End(m) = b[1]
      BY <1>1, <1>4, <2>3, <2>7 DEF OwnMark
    <3>2. LastLogTerm(s) > b[2] \/ LastLogTerm(s) = b[2]
      BY <1>5, <1>6, <2>5, <3>1
    <3> QED BY <1>2, <3>1, <3>2 DEF AtLeast, Past
  <2>8. End(m) > Starts[m.term].index \/ End(m) = Starts[m.term].index
    BY <1>1, <1>4, <1>5
  <2> QED BY <2>6, <2>7, <2>8
<1> QED BY <1>1, <1>6, <1>7

(* An installed snapshot ends before what was acknowledged only if the log *)
(* it replaces has the snapshot's last entry, and then it is not installed.*)
LEMMA InstalledReaches ==
  ASSUME Known, SafetyInv, NEW n \in Node, NEW r, r.lastLogIndex \in Nat,
         r.term \in DOMAIN Starts, Reaches(r, st[n]),
         r.lastLogIndex <= Starts[r.term].index,
         NEW m \in Installs, m.term = r.term, NEW s, InstalledTo(n, s, m)
  PROVE  r.lastLogIndex <= m.index
<1>1. m.index \in Nat /\ m.snapTerm \in Nat /\ Chosen(<<m.index, m.snapTerm>>)
  <2>1. IsInstalled(s, m)
    BY InstallFacts
  <2> QED BY <2>1 DEF IsInstalled
<1>2. MarksOK /\ MajoritiesSafe /\ GoodStarts(Starts)
  BY StartsGood, ChosenSafe DEF SafetyInv
<1>3. PICK b : b = Beginning(r.term)
  OBVIOUS
<1>4. b[1] = Starts[r.term].index /\ b[2] = Starts[r.term].term
  BY <1>3 DEF Beginning
<1>5. b[1] \in Nat /\ b[2] \in Nat /\ b[2] < r.term /\ r.term \in Nat
  BY <1>2, <1>4 DEF GoodStarts
<1>6. PICK k : k = <<m.index, m.snapTerm>>
  OBVIOUS
<1>7. k[1] = m.index /\ k[2] = m.snapTerm /\ k[1] \in Nat /\ k[2] \in Nat
  BY <1>1, <1>6
<1>8. ASSUME m.index < r.lastLogIndex
      PROVE  FALSE
  <2>1. ~AlreadyHolds(st[n], m.index, m.snapTerm)
    BY DEF InstalledTo
  <2>2. st[n].lastIncludedIndex \in Nat
    BY NodeStates
  <2>3. ~(m.index < st[n].lastIncludedIndex)
    BY <2>1 DEF AlreadyHolds
  <2>4. ~(r.lastLogIndex <= st[n].lastIncludedIndex)
    BY <1>1, <1>8, <2>2, <2>3
  <2>5. AtLeast(st[n], b)
    BY <1>3, <2>4 DEF Reaches
  <2>6. MarkOK(Starts, m.index, m.snapTerm)
    <3>1. k \in AllMarks
      <4>1. k \in SentMarks
        BY <1>6 DEF SentMarks
      <4> QED BY <4>1 DEF AllMarks, MarksBut
    <3> QED BY <1>2, <1>7, <3>1 DEF MarksOK
  <2>7. m.snapTerm # r.term
    BY <1>1, <1>4, <1>5, <1>8, <2>6 DEF MarkOK
  <2>8. m.snapTerm <= r.term
    BY DEF Known, LogInv, TermsBounded
  <2>9. k[2] < r.term
    BY <1>5, <1>7, <2>7, <2>8
  <2>10. Safe(Starts, k[1], k[2])
    <3>1. Cardinality({q \in Node : k \in Evidence(q)}) >= Majority
      BY <1>1, <1>6 DEF Chosen
    <3> QED BY <1>2, <3>1 DEF MajoritiesSafe
  <2>11. Past(b[1], b[2], k[1], k[2])
    BY <1>4, <2>9, <2>10 DEF Safe
  <2>12. Past(LastLogIndex(st[n]), LastLogTerm(st[n]), b[1], b[2])
    BY <2>5 DEF AtLeast
  <2>13. LastLogIndex(st[n]) \in Nat /\ LastLogTerm(st[n]) \in Nat
    BY NodeStates, LastOfLine
  <2>14. Past(LastLogIndex(st[n]), LastLogTerm(st[n]), k[1], k[2])
    <3>1. PICK i \in Nat, d \in Nat : i = LastLogIndex(st[n]) /\ d = LastLogTerm(st[n])
      BY <2>13
    <3>2. PICK j \in Nat, x \in Nat : j = b[1] /\ x = b[2]
      BY <1>5
    <3>3. PICK k1 \in Nat, c \in Nat : k1 = k[1] /\ c = k[2]
      BY <1>7
    <3>4. Past(i, d, j, x) /\ Past(j, x, k1, c)
      BY <2>11, <2>12, <3>1, <3>2, <3>3
    <3>5. Past(i, d, k1, c)
      BY <3>4, PastTransitive
    <3> QED BY <3>1, <3>3, <3>5
  <2>15. AlreadyHolds(st[n], k[1], k[2])
    <3>1. AtLeast(st[n], k)
      BY <2>14 DEF AtLeast
    <3> QED BY <1>1, <1>6, <3>1, HoldsChosen
  <2> QED BY <1>7, <2>1, <2>15
<1> QED BY <1>1, <1>8

(* What n has and had in the term of what it acknowledged.                 *)
LEMMA ReachStays ==
  ASSUME Known, SafetyInv, AcksReach, NEW n \in Node, NEW r \in Acks, r.src = n,
         NEW s \in HardState, From(n, s), s.currentTerm = r.term
  PROVE  Reaches(r, s)
<1>1. GoodStarts(Starts) /\ MarksOK
  BY StartsGood DEF SafetyInv
<1>2. /\ st[n] \in HardState /\ hs[n] \in HardState
      /\ st[n].currentTerm \in Nat /\ hs[n].currentTerm \in Nat
      /\ hs[n].currentTerm <= st[n].currentTerm
      /\ LastLogIndex(st[n]) \in Nat /\ st[n].lastIncludedIndex \in Nat
      /\ LastLogIndex(hs[n]) \in Nat /\ hs[n].lastIncludedIndex \in Nat
      /\ LastLogIndex(s) \in Nat /\ s.lastIncludedIndex \in Nat
  BY NodeStates, HardStateFields
<1>3. r.lastLogIndex \in Nat /\ r.term \in Nat
  BY AckFields DEF Known
<1>4. hs[n].currentTerm >= r.term
  BY DEF SafetyInv, AcksPast
<1>5. \A t \in {hs[n], st[n]} : t.currentTerm = r.term => Reaches(r, t)
  BY DEF AcksReach
<1>6. st[n].currentTerm <= s.currentTerm => Reaches(r, st[n]) /\ st[n].currentTerm = r.term
  BY <1>2, <1>3, <1>4, <1>5
<1>7. r.term \in DOMAIN Starts /\ Starts[r.term].index \in Nat
  <2>1. r.term \in DOMAIN Starts
    BY OldSenders, ElectedInStarts
  <2> QED BY <1>1, <2>1 DEF GoodStarts
<1>8. r.lastLogIndex > Starts[r.term].index => r.lastLogIndex <= LastLogIndex(s)
  BY AckStays DEF MatchedBy
<1>9. PICK b : b = Beginning(r.term)
  OBVIOUS
<1>10. \A t : /\ r.lastLogIndex <= LastLogIndex(t)
              /\ r.lastLogIndex <= t.lastIncludedIndex \/ AtLeast(t, b)
              <=> Reaches(r, t)
  BY <1>9 DEF Reaches
<1>11. CASE Stayed(n, s)
  <2>1. PICK t \in {hs[n], st[n]} : SameLog(s, t) /\ s.currentTerm >= t.currentTerm
    BY <1>11 DEF Stayed
  <2>2. t.currentTerm = r.term
    BY <1>2, <1>3, <1>4, <2>1
  <2>3. Reaches(r, t)
    BY <1>5, <2>2
  <2>4. /\ LastLogIndex(s) = LastLogIndex(t) /\ s.lastIncludedIndex = t.lastIncludedIndex
        /\ AtLeast(s, b) <=> AtLeast(t, b)
    BY <2>1, SameLogs
  <2> QED BY <1>10, <2>3, <2>4
<1>12. CASE PushedTo(n, s)
  <2>1. <<st[n].currentTerm, n>> \in elected
    BY <1>1, <1>12, LeaderTerm DEF PushedTo
  <2>2. s.currentTerm = st[n].currentTerm
    BY <1>2, <1>12, PushEntryType DEF PushedTo, Command
  <2>3. <<r.term, r.dst>> \in elected /\ r.dst # n
    BY OldSenders
  <2> QED BY <2>1, <2>2, <2>3 DEF Known, ElectionSafety
<1>13. CASE CompactedTo(n, s)
  <2>1. PICK i : i = lastApplied[n]
    OBVIOUS
  <2>2. /\ s.currentTerm = st[n].currentTerm
        /\ LastLogIndex(s) = LastLogIndex(st[n]) /\ LastLogTerm(s) = LastLogTerm(st[n])
        /\ s.lastIncludedIndex = i /\ i > st[n].lastIncludedIndex
    BY <1>13, <2>1, CompactReady
  <2>3. Reaches(r, st[n])
    BY <1>2, <1>6, <2>2
  <2>4. AtLeast(s, b) <=> AtLeast(st[n], b)
    BY <2>2 DEF AtLeast
  <2> QED BY <1>2, <1>3, <1>10, <2>2, <2>3, <2>4
<1>14. ASSUME NEW m \in Appends, MergedTo(n, s, m)
       PROVE  Reaches(r, s)
  <2>1. /\ s.currentTerm = m.term /\ m.term >= st[n].currentTerm
        /\ End(m) \in Nat /\ End(m) >= Starts[m.term].index
        /\ SameLog(s, st[n]) \/ LastLogIndex(s) = End(m)
    BY <1>14, MergedEnd
  <2>2. Reaches(r, st[n]) /\ m.term = r.term
    BY <1>2, <1>6, <2>1
  <2>3. CASE SameLog(s, st[n])
    <3>1. /\ LastLogIndex(s) = LastLogIndex(st[n])
          /\ s.lastIncludedIndex = st[n].lastIncludedIndex
          /\ AtLeast(s, b) <=> AtLeast(st[n], b)
      BY <2>3, SameLogs
    <3> QED BY <1>10, <2>2, <3>1
  <2>4. CASE LastLogIndex(s) = End(m)
    <3>1. End(m) <= s.lastIncludedIndex \/ AtLeast(s, b)
      BY <1>9, <1>14, <2>2, MergedReaches
    <3>2. r.lastLogIndex <= End(m)
      BY <1>3, <1>7, <1>8, <2>1, <2>2, <2>4
    <3> QED BY <1>2, <1>3, <1>10, <2>1, <2>4, <3>1, <3>2
  <2> QED BY <2>1, <2>3, <2>4
<1>15. ASSUME NEW m \in Installs, InstalledTo(n, s, m)
       PROVE  Reaches(r, s)
  <2>1. /\ s.currentTerm = m.term /\ LastLogIndex(s) = m.index
        /\ s.lastIncludedIndex = m.index /\ m.index \in Nat
    <3>1. IsInstalled(s, m)
      BY <1>15, InstallFacts
    <3> QED BY <3>1 DEF IsInstalled
  <2>2. m.term >= st[n].currentTerm
    BY <1>15 DEF InstalledTo
  <2>3. Reaches(r, st[n]) /\ m.term = r.term
    BY <1>6, <2>1, <2>2
  <2>4. CASE r.lastLogIndex > Starts[r.term].index
    BY <1>8, <1>10, <2>1, <2>4
  <2>5. CASE r.lastLogIndex <= Starts[r.term].index
    <3>1. r.lastLogIndex <= m.index
      BY <1>3, <1>7, <1>15, <2>3, <2>5, InstalledReaches
    <3> QED BY <1>10, <2>1, <3>1
  <2> QED BY <1>3, <1>7, <2>4, <2>5
<1>16. CASE RecoveredTo(n, s)
  <2>1. PICK f : f = snapFile[n]
    OBVIOUS
  <2>2. /\ s.currentTerm = hs[n].currentTerm /\ LastLogIndex(s) >= LastLogIndex(hs[n])
        /\ \/ s = hs[n]
           \/ /\ f.index > hs[n].lastIncludedIndex
              /\ s.lastIncludedIndex = f.index
              /\ \/ /\ LastLogIndex(s) = LastLogIndex(hs[n])
                    /\ LastLogTerm(s) = LastLogTerm(hs[n])
                 \/ f.index >= LastLogIndex(hs[n])
    BY <1>16, <2>1, ReturnedLog DEF RecoveredTo
  <2>3. Reaches(r, hs[n])
    BY <1>5, <2>2
  <2>4. CASE s = hs[n]
    BY <2>3, <2>4
  <2>5. CASE /\ s.lastIncludedIndex > hs[n].lastIncludedIndex
             /\ LastLogIndex(s) = LastLogIndex(hs[n]) /\ LastLogTerm(s) = LastLogTerm(hs[n])
    <3>1. AtLeast(s, b) <=> AtLeast(hs[n], b)
      BY <2>5 DEF AtLeast
    <3> QED BY <1>2, <1>3, <1>10, <2>3, <2>5, <3>1
  <2>6. CASE s.lastIncludedIndex >= LastLogIndex(hs[n])
    BY <1>2, <1>3, <1>10, <2>2, <2>3, <2>6
  <2> QED BY <2>2, <2>4, <2>5, <2>6
<1> QED BY <1>11, <1>12, <1>13, <1>14, <1>15, <1>16 DEF From

LEMMA KeepsAcksReach ==
  ASSUME Known, Known', SafetyInv, AcksReach, NEW n \in Node, NodeTurn(n)
  PROVE  AcksReach'
<1>1. /\ ProgressOK /\ GoodStarts(Starts) /\ Extends(Starts', Starts)
  BY NextStarts DEF SafetyInv
<1>2. ASSUME NEW c \in DOMAIN Starts
      PROVE  Starts'[c] = Starts[c]
  BY <1>1 DEF Extends
<1>3. ASSUME NEW r \in Acks', NEW s, s = hs'[r.src] \/ s = st'[r.src],
             s.currentTerm = r.term
      PROVE  r.term \in DOMAIN Starts /\ Reaches(r, s)
  <2>1. CASE r \in Acks
    <3>1. r.src \in Node /\ r.term \in DOMAIN Starts
      BY <2>1, AckFields, OldSenders, ElectedInStarts DEF Known
    <3>2. CASE r.src # n
      <4>1. s = hs[r.src] \/ s = st[r.src]
        BY <1>3, <3>1, <3>2 DEF NodeTurn, Untouched
      <4> QED BY <1>3, <2>1, <3>1, <4>1 DEF AcksReach
    <3>3. CASE r.src = n
      <4>1. s \in HardState /\ From(n, s)
        BY <1>1, <1>3, <3>3, Sources, NodeStatesNext
      <4> QED BY <1>3, <2>1, <3>1, <3>3, <4>1, ReachStays
    <3> QED BY <3>2, <3>3
  <2>2. CASE r \notin Acks
    <3>1. /\ r.src = n /\ st'[n] = hs'[n]
          /\ \/ \E m \in Appends : MergedBy(n, m) /\ r.term = m.term /\ r.lastLogIndex = End(m)
             \/ \E m \in Installs : InstalledBy(n, m) /\ r.term = m.term /\ r.lastLogIndex = m.index
      BY <2>2, NewAck
    <3>2. s = st'[n]
      BY <1>3, <3>1
    <3>3. CASE \E m \in Appends : MergedBy(n, m) /\ r.term = m.term /\ r.lastLogIndex = End(m)
      <4>1. PICK m \in Appends : MergedBy(n, m) /\ r.term = m.term /\ r.lastLogIndex = End(m)
        BY <3>3
      <4>2. MergedTo(n, s, m)
        BY <3>1, <3>2, <4>1 DEF MergedBy, MergedTo, Merged
      <4>3. End(m) <= LastLogIndex(s)
        BY <4>2, MergedMiddle
      <4>4. m.term \in DOMAIN Starts
        BY OldSenders, ElectedInStarts
      <4>5. PICK b : b = Beginning(m.term)
        OBVIOUS
      <4>6. End(m) <= s.lastIncludedIndex \/ AtLeast(s, b)
        BY <4>2, <4>5, MergedReaches
      <4> QED BY <4>1, <4>3, <4>4, <4>5, <4>6 DEF Reaches
    <3>4. CASE \E m \in Installs : InstalledBy(n, m) /\ r.term = m.term /\ r.lastLogIndex = m.index
      <4>1. PICK m \in Installs : InstalledBy(n, m) /\ r.term = m.term /\ r.lastLogIndex = m.index
        BY <3>4
      <4>2. InstalledTo(n, s, m)
        BY <3>1, <3>2, <4>1 DEF InstalledBy, InstalledTo
      <4>3. LastLogIndex(s) = m.index /\ s.lastIncludedIndex = m.index /\ m.index \in Nat
        <5>1. IsInstalled(s, m)
          BY <4>2, InstallFacts
        <5> QED BY <5>1 DEF IsInstalled
      <4>4. m.term \in DOMAIN Starts
        BY OldSenders, ElectedInStarts
      <4> QED BY <4>1, <4>3, <4>4 DEF Reaches
    <3> QED BY <3>1, <3>3, <3>4
  <2> QED BY <2>1, <2>2
<1>4. ASSUME NEW r \in Acks', NEW s, s = hs'[r.src] \/ s = st'[r.src],
             s.currentTerm = r.term
      PROVE  /\ r.lastLogIndex <= LastLogIndex(s)
             /\ \/ r.lastLogIndex <= s.lastIncludedIndex
                \/ AtLeast(s, <<Starts'[r.term].index, Starts'[r.term].term>>)
  BY <1>2, <1>3, <1>4 DEF Reaches, Beginning
<1> QED BY <1>4 DEF AcksReach, Reaches, Beginning

LEMMA NextKeepsReach ==
  ASSUME ~StaleSnapshots, Known, Known', SafetyInv, AcksReach, [Next]_vars
  PROVE  AcksReach'
<1>1. DiskStep /\ TypeOK
  BY NextDisk DEF Known, ElectionInv
<1>2. ASSUME NEW n \in Node, Step(n)
      PROVE  AcksReach'
  BY <1>1, <1>2, StepIsTurn, KeepsAcksReach
<1>3. ASSUME NEW m \in messages, NEW n \in Receivers(m), Receive(n, m)
      PROVE  AcksReach'
  BY <1>1, <1>3, ReceiveIsTurn, KeepsAcksReach
<1>4. ASSUME NEW t \in snapTasks, ReadSnapshot(t)
      PROVE  AcksReach'
  <2>1. Acks' = Acks /\ Requests' = Requests
    <3>1. PICK i : i = InstallSnapshot(t, snapFile[t.src])
      OBVIOUS
    <3>2. messages' = messages \cup {i} /\ i.type = "InstallSnapshot"
      BY <1>1, <1>4, <3>1 DEF ReadSnapshot, Send, InstallSnapshot, TypeOK, NetworkType, TaskType
    <3> QED BY <3>2 DEF Acks, Requests
  <2>2. hs' = hs /\ st' = st /\ elected' = elected
    BY <1>4 DEF ReadSnapshot, history, disk
  <2>3. Starts' = Starts
    BY <2>1, <2>2 DEF Starts, ElectedTerms, Candidacy
  <2> QED BY <2>1, <2>2, <2>3 DEF AcksReach, Reaches, Beginning
<1>5. CASE UNCHANGED vars
  <2>1. UNCHANGED <<hs, st, elected, messages>>
    BY <1>5 DEF vars, disk, history
  <2>2. Acks' = Acks /\ Starts' = Starts
    BY <2>1 DEF Acks, Starts, ElectedTerms, Candidacy, Requests
  <2> QED BY <2>1, <2>2 DEF AcksReach, Reaches, Beginning
<1> QED BY <1>2, <1>3, <1>4, <1>5 DEF Next

LEMMA ReachInvariant ==
  ASSUME ~StaleSnapshots
  PROVE  Spec => []AcksReach
<1>1. Init => AcksReach
  BY DEF Init, AcksReach, Acks
<1>2. Known /\ Known' /\ SafetyInv /\ AcksReach /\ [Next]_vars => AcksReach'
  BY NextKeepsReach
<1> QED BY <1>1, <1>2, AlwaysKnown, SafetyInvariant, PTL DEF Spec

LEMMA CountedIsThere ==
  ASSUME Known, SafetyInv, AcksReach
  PROVE  AcknowledgedDurable
<1>1. ASSUME NEW l \in Node, NEW p \in Node, l # p, role[l] = "Leader",
             hs[p].currentTerm = st[l].currentTerm
      PROVE  matchIndex[l][p] <= LastLogIndex(Recovered(hs[p], snapFile[p]))
  <2>1. PICK s : s = Recovered(hs[p], snapFile[p])
    OBVIOUS
  <2>2. s \in HardState /\ LastLogIndex(s) >= LastLogIndex(hs[p])
    BY <2>1, ReturnedLog
  <2>3. LastLogIndex(s) \in Nat /\ LastLogIndex(hs[p]) \in Nat
    BY <2>2, NodeStates, HardStateFields
  <2>4. CASE matchIndex[l][p] = 0
    BY <2>1, <2>3, <2>4
  <2>5. CASE AckedBy(p, st[l].currentTerm, matchIndex[l][p])
    <3>1. PICK r \in Acks : /\ r.src = p /\ r.term = st[l].currentTerm
                            /\ r.lastLogIndex >= matchIndex[l][p]
      BY <2>5 DEF AckedBy
    <3>2. r.lastLogIndex <= LastLogIndex(hs[p])
      BY <1>1, <3>1 DEF AcksReach, Reaches
    <3>3. r.lastLogIndex \in Nat /\ matchIndex[l][p] \in Nat
      BY <3>1, AckFields DEF Known, TypeOK, LeadershipType
    <3> QED BY <2>1, <2>2, <2>3, <3>1, <3>2, <3>3
  <2> QED BY <1>1, <2>4, <2>5 DEF SafetyInv, LeadersRemember
<1> QED BY <1>1 DEF AcknowledgedDurable

(* What a leader has counted as acknowledged by a follower that is still in*)
(* its term is on the follower's disk, whichever of the follower's writes  *)
(* failed and however often it crashed, in whatever order replies came:    *)
(* also the entries below the beginning of the leader's term, which the    *)
(* leader found on the follower and did not send.                          *)
THEOREM AcknowledgedIsDurable ==
  ASSUME ~StaleSnapshots
  PROVE  Spec => []AcknowledgedDurable
<1>1. Known /\ SafetyInv /\ AcksReach => AcknowledgedDurable
  BY CountedIsThere
<1> QED BY <1>1, ReachInvariant, SafetyInvariant, AlwaysKnown, PTL
==============================================================================
