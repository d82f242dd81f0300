--------------------------- MODULE RaftTurnProofs ----------------------------
(***************************************************************************)
(* What a step of one node does to logs, files, indices and messages, said *)
(* once for all actions (NodeTurn), and the parts of SafetyInv it keeps    *)
(* that are about leaders, acknowledgements, evidence and votes.           *)
(***************************************************************************)
EXTENDS RaftLogProofs

------------------------------------------------------------------------------
(* What a turn of a node does to its log, its files and its progress.      *)

(* The disk is as it was, or the memory as the turn found it was saved.    *)
Saved(n) == SameLog(hs'[n], st[n]) /\ hs'[n].currentTerm >= st[n].currentTerm

Kept(n) ==
  /\ SameLog(st'[n], st[n]) /\ st'[n].currentTerm >= st[n].currentTerm
  /\ hs'[n] = hs[n] \/ Saved(n)
  /\ snapFile'[n] = snapFile[n]

MergedBy(n, m) ==
  LET s == UpdateTerm(st[n], m.term)
  IN  /\ m.dst = n /\ m.term >= st[n].currentTerm
      /\ AppendConsistent(s, m.prevIndex, m.prevTerm)
      /\ hs'[n] = WithEntries(s, m.prevIndex, m.entries)
      /\ st'[n] = s \/ st'[n] = hs'[n]
      /\ role'[n] = "Follower" /\ snapFile'[n] = snapFile[n]

InstalledBy(n, m) ==
  /\ m.dst = n /\ BodyMatches(m) /\ m.term >= st[n].currentTerm
  /\ ~AlreadyHolds(st[n], m.index, m.snapTerm)
  /\ hs'[n] = InstalledAt(UpdateTerm(st[n], m.term), m.index, m.snapTerm)
  /\ st'[n] = hs'[n] /\ snapFile'[n] = m.body /\ role'[n] = "Follower"

Compacted(n) ==
  /\ lastApplied[n] > st[n].lastIncludedIndex
  /\ role'[n] = role[n] /\ snapFile'[n] = OwnSnapshot(n)
  /\ InMemory(st[n], lastApplied[n]) =>
       hs'[n] = CompactTo(st[n], lastApplied[n]) /\ st'[n] = hs'[n]

Rests(n) ==
  /\ up'[n] = up[n] /\ decided' = decided
  /\ commitIndex'[n] = commitIndex[n] /\ lastApplied'[n] = lastApplied[n]
  /\ data'[n] = data[n]

Applies(n, commit) ==
  LET from == Larger(lastApplied[n] + 1, st'[n].lastIncludedIndex)
      to == Smaller(commit, LastLogIndex(st'[n]))
  IN  /\ up[n] /\ up'[n]
      /\ commitIndex'[n] = commit /\ lastApplied'[n] = Larger(lastApplied[n], commit)
      /\ data'[n] = data[n] \o EntriesBetween(st'[n], from, to)

Commits(n) ==
  /\ role[n] = "Leader" /\ role'[n] = "Leader"
  /\ \E i \in Committable(st'[n], n, matchIndex'[n], commitIndex[n]) :
       /\ Applies(n, i)
       /\ decided' = decided \cup
            {EntryAt(st'[n], j) : j \in Larger(commitIndex[n], st'[n].lastIncludedIndex) + 1 .. i}

Learns(n) ==
  \E m \in Appends :
    /\ MergedBy(n, m) /\ st'[n] = hs'[n] /\ decided' = decided
    /\ m.leaderCommit > commitIndex[n]
    /\ Applies(n, Smaller(m.leaderCommit, LastLogIndex(st'[n])))

Adopts(n) ==
  \E m \in Installs :
    /\ InstalledBy(n, m) /\ up[n] /\ up'[n] /\ decided' = decided
    /\ commitIndex'[n] = m.index /\ lastApplied'[n] = m.index /\ data'[n] = m.body.data

Dies(n) ==
  /\ role'[n] = "Follower" /\ up[n] /\ ~up'[n] /\ st'[n] = hs'[n] /\ decided' = decided
  /\ hs'[n] = hs[n] \/ Saved(n)
  /\ commitIndex'[n] = 0 /\ lastApplied'[n] = 0 /\ data'[n] = <<>>
  /\ \/ snapFile'[n] = snapFile[n]
     \/ lastApplied[n] > st[n].lastIncludedIndex /\ snapFile'[n] = OwnSnapshot(n)
     \/ \E m \in Installs : /\ BodyMatches(m) /\ snapFile'[n] = m.body
                            /\ ~AlreadyHolds(st[n], m.index, m.snapTerm)

Returns(n) ==
  /\ ~up[n] /\ up'[n] /\ role'[n] = role[n] /\ decided' = decided
  /\ Startable(hs[n], snapFile[n])
  /\ hs'[n] = Recovered(hs[n], snapFile[n]) /\ st'[n] = hs'[n] /\ snapFile'[n] = snapFile[n]
  /\ commitIndex'[n] = st'[n].lastIncludedIndex /\ lastApplied'[n] = st'[n].lastIncludedIndex
  /\ data'[n] = IF snapFile[n] = Nil THEN <<>> ELSE snapFile[n].data

Turn(n) ==
  \/ Rests(n) /\ Kept(n)
  \/ Rests(n) /\ PushedLog(n)
  \/ Rests(n) /\ \E m \in Appends : MergedBy(n, m)
  \/ Rests(n) /\ up[n] /\ Compacted(n)
  \/ Commits(n) /\ (Kept(n) \/ PushedLog(n))
  \/ Learns(n) \/ Adopts(n) \/ Dies(n) \/ Returns(n)

(* The indices a leader keeps of its peers: new, or as replies moved them. *)
Tracks(n) ==
  role'[n] = "Leader" =>
    \/ /\ <<st'[n].currentTerm, n>> \notin elected
       /\ <<st'[n].currentTerm, n>> \in elected'
       /\ \A p \in Node \ {n} : /\ nextIndex'[n][p] = LastLogIndex(st'[n]) + 1
                                /\ matchIndex'[n][p] = 0
    \/ /\ role[n] = "Leader" /\ st'[n].currentTerm = st[n].currentTerm /\ elected' = elected
       /\ \A p \in Node \ {n} :
            \/ nextIndex'[n][p] = nextIndex[n][p] /\ matchIndex'[n][p] = matchIndex[n][p]
            \/ /\ nextIndex'[n][p] = StepBack(nextIndex[n][p])
               /\ matchIndex'[n][p] = matchIndex[n][p]
            \/ \E r \in Acks :
                 /\ r.src = p /\ r.term = st[n].currentTerm
                 /\ nextIndex'[n][p] = r.lastLogIndex + 1 /\ matchIndex'[n][p] = r.lastLogIndex

(* What it acknowledges it has, in memory and on disk.                     *)
Acknowledges(n) ==
  \A r \in Acks' \ Acks :
    /\ r.src = n /\ r.term = st'[n].currentTerm /\ st'[n] = hs'[n]
    /\ \/ \E m \in Appends : /\ MergedBy(n, m)
                             /\ r.term = m.term /\ r.lastLogIndex = End(m)
       \/ \E m \in Installs : /\ InstalledBy(n, m)
                              /\ r.term = m.term /\ r.lastLogIndex = m.index

LEMMA AppliedBy ==
  ASSUME TypeOK, NEW n \in Node, NEW s, NEW commit, NEW waiting,
         ApplyCommitted(n, s, commit, waiting), st'[n] = s, up[n], up' = up
  PROVE  Applies(n, commit)
BY DEF ApplyCommitted, Applies, TypeOK, ProgressType

LEMMA CommittedBy ==
  ASSUME TypeOK, NEW n \in Node, NEW s, NEW match, NEW waiting,
         AdvanceCommit(n, s, match, waiting), st'[n] = s, up[n], up' = up,
         role[n] = "Leader", role'[n] = "Leader", matchIndex'[n] = match
  PROVE  Rests(n) \/ Commits(n)
<1>1. CASE UNCHANGED <<commitIndex, lastApplied, data, decided>>
  BY <1>1 DEF Rests
<1>2. ASSUME NEW i \in Committable(s, n, match, commitIndex[n]),
             ApplyCommitted(n, s, i, waiting),
             decided' = decided \cup
                {EntryAt(s, j) : j \in Larger(commitIndex[n], s.lastIncludedIndex) + 1 .. i}
      PROVE  Commits(n)
  <2>1. Applies(n, i)
    BY <1>2, AppliedBy
  <2> QED BY <1>2, <2>1 DEF Commits
<1> QED BY <1>1, <1>2 DEF AdvanceCommit

LEMMA DiesBy ==
  ASSUME TypeOK, NEW n \in Node, up[n], GoDown(n), hs'[n] = hs[n] \/ Saved(n),
         \/ snapFile'[n] = snapFile[n]
         \/ lastApplied[n] > st[n].lastIncludedIndex /\ snapFile'[n] = OwnSnapshot(n)
         \/ \E m \in Installs : /\ BodyMatches(m) /\ snapFile'[n] = m.body
                                /\ ~AlreadyHolds(st[n], m.index, m.snapTerm)
  PROVE  Dies(n)
<1>1. role'[n] = "Follower" /\ ~up'[n] /\ st'[n] = hs'[n]
  BY DEF GoDown, StepDown, TypeOK, ProcessType
<1>2. commitIndex'[n] = 0 /\ lastApplied'[n] = 0 /\ data'[n] = <<>> /\ decided' = decided
  BY DEF GoDown, TypeOK, ProgressType, history
<1> QED BY <1>1, <1>2 DEF Dies

LEMMA StepTurn ==
  ASSUME TypeOK, NEW n \in Node, Step(n)
  PROVE  Turn(n)
<1>1. /\ st[n] \in HardState /\ hs[n] \in HardState /\ st[n].currentTerm \in Nat
      /\ hs[n].currentTerm \in Nat
  BY HardStateFields DEF TypeOK, ProcessType, DiskType
<1>2. CASE UNCHANGED <<disk, up, st, commitIndex, lastApplied, data, decided>>
  BY <1>1, <1>2, SameLogSelf DEF Turn, Kept, Rests, disk
<1>3. CASE StartElection(n) \/ StartElectionUnsaved(n)
  <2> DEFINE s == IncrementTerm(st[n], n)
  <2>0. s.currentTerm = st[n].currentTerm + 1
    BY <1>1, IncrementTermType
  <2>1. SameLog(s, st[n]) /\ s.currentTerm >= st[n].currentTerm
    <3>1. SameLog(s, st[n])
      BY <1>1, UpdatedLog
    <3> QED BY <1>1, <2>0, <3>1
  <2>2. st'[n] = s /\ (hs'[n] = s \/ hs'[n] = hs[n]) /\ snapFile' = snapFile
    BY <1>3, WrittenLog DEF StartElection, StartElectionUnsaved
  <2>3. Rests(n)
    BY <1>3 DEF StartElection, StartElectionUnsaved, Rests, progress, history
  <2> HIDE DEF s
  <2> QED BY <2>1, <2>2, <2>3 DEF Turn, Kept, Saved
<1>4. ASSUME NEW v \in Value, ClientRequest(n, v)
      PROVE  Turn(n)
  <2> DEFINE s == PushEntry(st[n], v)
  <2>1. snapFile' = snapFile /\ role[n] = "Leader" /\ role' = role /\ up' = up /\ up[n]
        /\ matchIndex' = matchIndex
    BY <1>4 DEF ClientRequest, Ready, leadership
  <2>2. ASSUME NEW waiting, Write(n, s), AdvanceCommit(n, s, matchIndex[n], waiting)
        PROVE  Turn(n)
    <3>1. st'[n] = s /\ hs'[n] = s
      BY <2>2, WrittenLog
    <3>2. PushedLog(n)
      BY <2>1, <3>1 DEF PushedLog
    <3>3. Rests(n) \/ Commits(n)
      <4> HIDE DEF s
      <4> QED BY <2>1, <2>2, <3>1, CommittedBy
    <3> QED BY <3>2, <3>3 DEF Turn
  <2>3. CASE WriteFails(n, s, st[n]) /\ UNCHANGED <<commitIndex, lastApplied, data, decided>>
    <3>1. st'[n] = st[n] /\ (hs'[n] = s \/ hs'[n] = hs[n])
      BY <2>3, WrittenLog
    <3>2. Rests(n)
      BY <2>1, <2>3 DEF Rests
    <3>3. CASE hs'[n] = s
      BY <2>1, <3>1, <3>2, <3>3 DEF Turn, PushedLog
    <3>4. CASE hs'[n] = hs[n]
      BY <1>1, <2>1, <3>1, <3>2, <3>4, SameLogSelf DEF Turn, Kept
    <3> QED BY <3>1, <3>3, <3>4
  <2> QED BY <1>4, <2>2, <2>3 DEF ClientRequest
<1>5. CASE TriggerSnapshot(n)
  <2>1. Rests(n) /\ up[n] /\ role' = role
    BY <1>5 DEF TriggerSnapshot, Ready, Rests, history
  <2>2. CASE UNCHANGED <<disk, st>>
    BY <1>1, <2>1, <2>2, SameLogSelf DEF Turn, Kept, disk
  <2>3. CASE /\ lastApplied[n] > st[n].lastIncludedIndex
             /\ snapFile' = [snapFile EXCEPT ![n] = OwnSnapshot(n)]
             /\ IF InMemory(st[n], lastApplied[n])
                THEN Write(n, CompactTo(st[n], lastApplied[n])) ELSE UNCHANGED <<hs, st>>
    <3>1. snapFile'[n] = OwnSnapshot(n)
      BY <2>3 DEF TypeOK, DiskType
    <3> QED BY <2>1, <2>3, <3>1, WrittenLog DEF Turn, Compacted
  <2> QED BY <1>5, <2>2, <2>3 DEF TriggerSnapshot, OwnSnapshot
<1>6. CASE TriggerSnapshotInterrupted(n)
  <2>1. /\ up[n] /\ GoDown(n) /\ hs' = hs
        /\ lastApplied[n] > st[n].lastIncludedIndex /\ snapFile'[n] = OwnSnapshot(n)
    BY <1>6 DEF TriggerSnapshotInterrupted, Ready, OwnSnapshot, TypeOK, DiskType
  <2> QED BY <2>1, DiesBy DEF Turn
<1>7. CASE Crash(n)
  <2>1. up[n] /\ GoDown(n) /\ hs' = hs /\ snapFile' = snapFile
    BY <1>7 DEF Crash, disk
  <2> QED BY <2>1, DiesBy DEF Turn
<1>8. CASE Restart(n)
  <2> DEFINE s == Recovered(hs[n], snapFile[n])
  <2>1. st'[n] = s /\ hs'[n] = s
    BY <1>8, WrittenLog DEF Restart
  <2>2. /\ ~up[n] /\ up'[n] /\ role'[n] = role[n] /\ decided' = decided
        /\ Startable(hs[n], snapFile[n]) /\ snapFile'[n] = snapFile[n]
    BY <1>8 DEF Restart, history, TypeOK, ProcessType
  <2>3. /\ commitIndex'[n] = s.lastIncludedIndex /\ lastApplied'[n] = s.lastIncludedIndex
        /\ data'[n] = IF snapFile[n] = Nil THEN <<>> ELSE snapFile[n].data
    BY <1>8 DEF Restart, TypeOK, ProgressType
  <2> QED BY <2>1, <2>2, <2>3 DEF Turn, Returns
<1> QED
  BY <1>2, <1>3, <1>4, <1>5, <1>6, <1>7, <1>8 DEF Step, ElectionEnds, HeartbeatTick, progress, history

LEMMA ReceiveTurn ==
  ASSUME TypeOK, ~StaleSnapshots, NEW m \in messages, NEW n \in Receivers(m), Receive(n, m)
  PROVE  Turn(n)
<1>1. n \in Node /\ (m.type # "RequestVote" => n = m.dst)
  BY ReceiversAreNodes DEF Receivers, TypeOK, NetworkType
<1>2. /\ st[n] \in HardState /\ hs[n] \in HardState /\ st[n].currentTerm \in Nat
      /\ m.term \in Nat
  BY <1>1, HardStateFields, MessageKinds DEF TypeOK, ProcessType, DiskType, NetworkType
<1> DEFINE s == UpdateTerm(st[n], m.term)
<1>3. /\ SameLog(s, st[n]) /\ SameLog([s EXCEPT !.votedFor = m.src], st[n])
      /\ s.currentTerm >= st[n].currentTerm
      /\ [s EXCEPT !.votedFor = m.src].currentTerm >= st[n].currentTerm
  <2>1. SameLog(s, st[n]) /\ SameLog([s EXCEPT !.votedFor = m.src], st[n])
    BY <1>2, UpdatedLog
  <2>2. s.currentTerm >= st[n].currentTerm
    BY <1>2, UpdateTermFields
  <2>3. s \in HardState
    BY <1>2, UpdateTermType
  <2> QED BY <2>1, <2>2, <2>3 DEF HardState
<1> HIDE DEF s
<1>4. ASSUME \/ st'[n] = st[n]
             \/ st'[n] = s
             \/ st'[n] = [s EXCEPT !.votedFor = m.src],
             hs'[n] = st'[n] \/ hs'[n] = hs[n], snapFile'[n] = snapFile[n],
             UNCHANGED <<up, commitIndex, lastApplied, data, decided>>
      PROVE  Turn(n)
  <2>1. SameLog(st'[n], st[n]) /\ st'[n].currentTerm >= st[n].currentTerm
    <3>1. CASE st'[n] = st[n]
      BY <1>2, <3>1, SameLogSelf
    <3>2. CASE st'[n] = s
      BY <1>3, <3>2
    <3>3. CASE st'[n] = [s EXCEPT !.votedFor = m.src]
      <4> DEFINE v == [s EXCEPT !.votedFor = m.src]
      <4>1. SameLog(v, st[n]) /\ v.currentTerm >= st[n].currentTerm /\ st'[n] = v
        BY <1>3, <3>3
      <4> HIDE DEF v
      <4> QED BY <4>1
    <3> QED BY <1>4, <3>1, <3>2, <3>3
  <2> QED BY <1>4, <2>1 DEF Turn, Kept, Saved, Rests
<1>5. CASE ReceiveVote(n, m)
  <2>1. \/ st'[n] = s /\ hs'[n] = s
        \/ st'[n] = st[n] /\ hs'[n] = hs[n]
    BY <1>1, <1>5, WrittenLog DEF ReceiveVote, s
  <2> QED BY <1>4, <1>5, <2>1 DEF ReceiveVote, progress
<1>6. CASE HandleRequestVote(n, m)
  <2>1. PICK voted : /\ voted = s \/ voted = [s EXCEPT !.votedFor = m.src]
                     /\ Write(n, voted) \/ WriteFails(n, voted, voted)
    BY <1>6 DEF HandleRequestVote, s
  <2>2. st'[n] = voted /\ (hs'[n] = voted \/ hs'[n] = hs[n])
    BY <1>1, <2>1, WrittenLog
  <2>3. UNCHANGED <<snapFile, up, commitIndex, lastApplied, data, decided>>
    BY <1>6 DEF HandleRequestVote, progress, history
  <2> QED BY <1>4, <2>1, <2>2, <2>3
<1>7. CASE StaleAppendEntries(n, m) \/ StaleInstallSnapshot(n, m)
  BY <1>4, <1>7 DEF StaleAppendEntries, StaleInstallSnapshot, disk, progress, history
<1>8. CASE HandleAppendEntries(n, m)
  <2> DEFINE consistent == AppendConsistent(s, m.prevIndex, m.prevTerm)
             w == WithEntries(s, m.prevIndex, m.entries)
             merged == IF consistent THEN w ELSE s
             commits == consistent /\ m.leaderCommit > commitIndex[n]
             commit == Smaller(m.leaderCommit, LastLogIndex(merged))
  <2>1. \/ /\ hs'[n] = merged /\ st'[n] = merged
           /\ IF commits THEN ApplyCommitted(n, merged, commit, pending[n])
              ELSE UNCHANGED progress
        \/ /\ (hs'[n] = merged \/ hs'[n] = hs[n]) /\ st'[n] = s
           /\ UNCHANGED progress
    <3>1. \/ /\ Write(n, merged)
             /\ IF commits THEN ApplyCommitted(n, merged, commit, pending[n])
                ELSE UNCHANGED progress
          \/ WriteFails(n, merged, s) /\ UNCHANGED progress
      BY <1>8 DEF HandleAppendEntries, s
    <3> HIDE DEF merged, commits, commit
    <3> QED BY <1>1, <3>1, WrittenLog
  <2>2. snapFile' = snapFile /\ role'[n] = "Follower" /\ UNCHANGED <<up, decided>> /\ up[n]
    BY <1>1, <1>8 DEF HandleAppendEntries, Follow, Ready, history, TypeOK, ProcessType
  <2>3. m \in Appends /\ m.dst = n /\ m.term >= st[n].currentTerm
    BY <1>1, <1>8 DEF HandleAppendEntries, Appends
  <2> HIDE DEF w
  <2>4. CASE ~consistent
    BY <1>4, <2>1, <2>2, <2>4 DEF progress
  <2>5. CASE consistent /\ hs'[n] = w
    <3>1. MergedBy(n, m)
      BY <2>1, <2>2, <2>3, <2>5 DEF MergedBy, s, w
    <3>2. CASE UNCHANGED progress
      BY <2>2, <2>3, <3>1, <3>2 DEF Turn, Rests, progress
    <3>3. CASE st'[n] = w /\ commits /\ ApplyCommitted(n, w, commit, pending[n])
      <4>1. commit = Smaller(m.leaderCommit, LastLogIndex(st'[n])) /\ m.leaderCommit > commitIndex[n]
        BY <2>5, <3>3
      <4> HIDE DEF commit
      <4>2. Applies(n, commit)
        BY <1>1, <2>2, <3>3, AppliedBy
      <4> QED BY <2>2, <2>3, <2>5, <3>1, <3>3, <4>1, <4>2 DEF Turn, Learns
    <3> QED BY <2>1, <2>5, <3>2, <3>3
  <2>6. CASE st'[n] = s /\ hs'[n] = hs[n] /\ UNCHANGED progress
    BY <1>4, <2>2, <2>6 DEF progress
  <2> QED BY <2>1, <2>4, <2>5, <2>6
<1>9. CASE HandleResult(n, m)
  <2>1. snapFile' = snapFile /\ up' = up /\ up[n]
    BY <1>9 DEF HandleResult, Ready
  <2>2. CASE Write(n, s) /\ UNCHANGED <<progress, decided>>
    <3>1. st'[n] = s /\ hs'[n] = s
      BY <1>1, <2>2, WrittenLog
    <3> QED BY <1>4, <2>1, <2>2, <3>1 DEF progress
  <2>3. CASE UNCHANGED <<hs, st>> /\ UNCHANGED <<progress, decided>>
    BY <1>4, <2>1, <2>3 DEF progress
  <2>4. ASSUME NEW match, matchIndex' = [matchIndex EXCEPT ![n] = match],
               role[n] = "Leader", AdvanceCommit(n, st[n], match, pending[n]),
               UNCHANGED <<hs, st, role>>
        PROVE  Turn(n)
    <3>1. matchIndex'[n] = match
      BY <1>1, <2>4 DEF TypeOK, LeadershipType
    <3>2. Rests(n) \/ Commits(n)
      BY <1>1, <2>1, <2>4, <3>1, CommittedBy
    <3>3. Kept(n)
      BY <1>2, <2>1, <2>4, SameLogSelf DEF Kept
    <3> QED BY <3>2, <3>3 DEF Turn
  <2> QED BY <1>9, <2>2, <2>3, <2>4 DEF HandleResult, s
<1>10. CASE InstallSnapshotTermUnsaved(n, m)
  <2>1. st'[n] = s /\ (hs'[n] = s \/ hs'[n] = hs[n])
    BY <1>1, <1>10, WrittenLog DEF InstallSnapshotTermUnsaved, s
  <2> QED BY <1>4, <1>10, <2>1 DEF InstallSnapshotTermUnsaved, progress, history
<1>11. CASE RefuseSnapshot(n, m)
  <2>1. st'[n] = s /\ hs'[n] = TermSaved(n, m)
    BY <1>1, <1>11 DEF RefuseSnapshot, TypeOK, DiskType, ProcessType, s
  <2> QED BY <1>4, <1>11, <2>1 DEF RefuseSnapshot, TermSaved, s, progress, history
<1>12. CASE HandleInstallSnapshot(n, m)
  <2>1. st'[n] = InstalledAt(s, m.index, m.snapTerm) /\ hs'[n] = st'[n]
    <3>1. Write(n, InstalledAt(s, m.index, m.snapTerm))
      BY <1>12 DEF HandleInstallSnapshot, s
    <3>2. PICK i : i = InstalledAt(s, m.index, m.snapTerm)
      OBVIOUS
    <3> QED BY <1>1, <3>1, <3>2, WrittenLog
  <2>2. /\ snapFile'[n] = m.body /\ role'[n] = "Follower" /\ up[n] /\ up'[n]
        /\ decided' = decided
    BY <1>1, <1>12 DEF HandleInstallSnapshot, Follow, Ready, history, TypeOK, DiskType, ProcessType
  <2>3. /\ m \in Installs /\ m.dst = n /\ BodyMatches(m) /\ m.term >= st[n].currentTerm
        /\ ~AlreadyHolds(st[n], m.index, m.snapTerm)
    BY <1>1, <1>12 DEF HandleInstallSnapshot, Delivered, Installs
  <2>4. commitIndex'[n] = m.index /\ lastApplied'[n] = m.index /\ data'[n] = m.body.data
    BY <1>1, <1>12 DEF HandleInstallSnapshot, TypeOK, ProgressType
  <2> QED BY <2>1, <2>2, <2>3, <2>4 DEF Turn, Adopts, InstalledBy, s
<1>13. CASE InstallSnapshotInterrupted(n, m)
  <2>1. GoDown(n) /\ up[n] /\ hs'[n] = TermSaved(n, m)
    BY <1>1, <1>13 DEF InstallSnapshotInterrupted, Ready, TypeOK, DiskType
  <2>2. hs'[n] = hs[n] \/ Saved(n)
    BY <1>3, <2>1 DEF TermSaved, Saved, s
  <2>3. snapFile'[n] = snapFile[n] \/ snapFile'[n] = m.body
    BY <1>1, <1>13 DEF InstallSnapshotInterrupted, TypeOK, DiskType
  <2>4. m \in Installs /\ BodyMatches(m) /\ ~AlreadyHolds(st[n], m.index, m.snapTerm)
    BY <1>1, <1>13 DEF InstallSnapshotInterrupted, Delivered, Installs
  <2> QED BY <1>1, <2>1, <2>2, <2>3, <2>4, DiesBy DEF Turn
<1> QED
  BY <1>5, <1>6, <1>7, <1>8, <1>9, <1>10, <1>11, <1>12, <1>13 DEF Receive

LEMMA TracksNew ==
  ASSUME TypeOK, NEW n \in Node, BecomeLeader(n, st'[n]), <<st'[n].currentTerm, n>> \notin elected
  PROVE  Tracks(n)
<1>1. /\ nextIndex'[n] = [p \in Node |-> IF p = n THEN 0 ELSE LastLogIndex(st'[n]) + 1]
      /\ matchIndex'[n] = NoIndex
  BY DEF BecomeLeader, TypeOK, LeadershipType
<1>2. <<st'[n].currentTerm, n>> \in elected'
  BY DEF BecomeLeader
<1> QED BY <1>1, <1>2 DEF Tracks, NoIndex

LEMMA TracksOld ==
  ASSUME NEW n \in Node, role'[n] = "Leader" => role[n] = "Leader",
         st'[n].currentTerm = st[n].currentTerm, UNCHANGED <<nextIndex, matchIndex, elected>>
  PROVE  Tracks(n)
BY DEF Tracks

LEMMA StepTracks ==
  ASSUME TypeOK, LeaderInv, MemoryNotBehind, NEW n \in Node, Step(n)
  PROVE  Tracks(n)
<1>1. st[n] \in HardState
  BY DEF TypeOK, ProcessType
<1>2. ASSUME role'[n] # "Leader"
      PROVE  Tracks(n)
  BY <1>2 DEF Tracks
<1>3. CASE StartElection(n)
  <2>1. st'[n] = IncrementTerm(st[n], n)
    BY <1>3, WrittenLog DEF StartElection
  <2>2. <<st'[n].currentTerm, n>> \notin elected
    BY <2>1, TermIsNew
  <2>3. CASE role'[n] # "Leader"
    BY <1>2, <2>3
  <2>4. CASE BecomeLeader(n, st'[n])
    BY <2>2, <2>4, TracksNew
  <2>5. role'[n] = "Candidate" \/ BecomeLeader(n, st'[n])
    BY <1>3, <2>1 DEF StartElection, TypeOK, ProcessType
  <2> QED BY <2>3, <2>4, <2>5
<1>4. CASE StartElectionUnsaved(n) \/ TriggerSnapshotInterrupted(n) \/ Crash(n)
  <2>1. role'[n] = "Follower"
    BY <1>4 DEF StartElectionUnsaved, TriggerSnapshotInterrupted, Crash, GoDown, StepDown,
                TypeOK, ProcessType
  <2> QED BY <1>2, <2>1
<1>5. CASE ElectionEnds(n) \/ HeartbeatTick(n)
  BY <1>5, TracksOld DEF ElectionEnds, HeartbeatTick, leadership, history
<1>6. ASSUME NEW v \in Value, ClientRequest(n, v)
      PROVE  Tracks(n)
  <2>1. st'[n].currentTerm = st[n].currentTerm
    BY <1>1, <1>6, WrittenLog, PushedNotBehind DEF ClientRequest
  <2> QED BY <1>6, <2>1, TracksOld DEF ClientRequest, leadership
<1>7. CASE TriggerSnapshot(n)
  <2>1. st'[n].currentTerm = st[n].currentTerm
    <3>1. PICK c : c = CompactTo(st[n], lastApplied[n])
      OBVIOUS
    <3>2. c.currentTerm = st[n].currentTerm
      BY <1>1, <3>1 DEF CompactTo, StartAt, HardState
    <3>3. Write(n, c) => st'[n] = c
      BY WrittenLog
    <3>4. UNCHANGED st \/ Write(n, c)
      BY <1>7, <3>1 DEF TriggerSnapshot
    <3> QED BY <3>2, <3>3, <3>4
  <2> QED BY <1>7, <2>1, TracksOld DEF TriggerSnapshot, leadership, history
<1>8. CASE Restart(n)
  <2>1. role[n] = "Follower" /\ role' = role
    BY <1>8 DEF Restart, LeaderInv, DownIsFollower
  <2> QED BY <1>2, <2>1
<1> QED BY <1>3, <1>4, <1>5, <1>6, <1>7, <1>8 DEF Step

LEMMA ReceiveTracks ==
  ASSUME TypeOK, LeaderInv, NEW m \in messages, NEW n \in Receivers(m), Receive(n, m)
  PROVE  Tracks(n)
<1>1. n \in Node /\ (m.type # "RequestVote" => n = m.dst)
  BY ReceiversAreNodes DEF Receivers, TypeOK, NetworkType
<1>2. /\ st[n] \in HardState /\ m.src \in Node /\ m.term \in Nat /\ st[n].currentTerm \in Nat
  BY <1>1, HardStateFields, MessageKinds DEF TypeOK, ProcessType, NetworkType
<1>3. ASSUME role'[n] # "Leader"
      PROVE  Tracks(n)
  BY <1>3 DEF Tracks
<1>4. CASE ReceiveVote(n, m)
  <2>1. CASE StepDown(n)
    BY <1>1, <1>3, <2>1 DEF StepDown, TypeOK, ProcessType
  <2>2. CASE UNCHANGED <<st, role, leadership, elected>>
    BY <1>1, <2>2, TracksOld DEF leadership
  <2>3. CASE BecomeLeader(n, st[n]) /\ UNCHANGED st
    <3>1. <<st[n].currentTerm, n>> \notin elected
      BY <1>1, <1>4 DEF ReceiveVote, LeaderInv, CandidatesNew
    <3> QED BY <1>1, <2>3, <3>1, TracksNew
  <2> QED BY <1>4, <2>1, <2>2, <2>3 DEF ReceiveVote
<1>5. CASE HandleRequestVote(n, m)
  <2>1. CASE m.term > st[n].currentTerm
    BY <1>1, <1>3, <1>5, <2>1 DEF HandleRequestVote, StepDown, TypeOK, ProcessType
  <2>2. CASE ~(m.term > st[n].currentTerm)
    <3> DEFINE s == UpdateTerm(st[n], m.term)
    <3>1. PICK voted : /\ voted = s \/ voted = [s EXCEPT !.votedFor = m.src]
                       /\ Write(n, voted) \/ WriteFails(n, voted, voted)
      BY <1>5 DEF HandleRequestVote
    <3>2. st'[n] = voted
      BY <1>1, <3>1, WrittenLog
    <3>3. s = st[n]
      BY <1>2, <2>2, UpdateTermFields
    <3>4. st'[n].currentTerm = st[n].currentTerm
      <4>1. [st[n] EXCEPT !.votedFor = m.src].currentTerm = st[n].currentTerm
        BY <1>2 DEF HardState
      <4> HIDE DEF s
      <4> QED BY <3>1, <3>2, <3>3, <4>1
    <3>5. UNCHANGED <<role, nextIndex, matchIndex, elected>>
      BY <1>5, <2>2 DEF HandleRequestVote, leadership, history
    <3> QED BY <1>1, <3>4, <3>5, TracksOld
  <2> QED BY <2>1, <2>2
<1>6. CASE StaleAppendEntries(n, m) \/ StaleInstallSnapshot(n, m)
  BY <1>1, <1>6, TracksOld DEF StaleAppendEntries, StaleInstallSnapshot, leadership, history
<1>7. CASE \/ HandleAppendEntries(n, m) \/ InstallSnapshotTermUnsaved(n, m)
           \/ RefuseSnapshot(n, m) \/ HandleInstallSnapshot(n, m)
           \/ InstallSnapshotInterrupted(n, m)
  <2>1. role'[n] = "Follower"
    BY <1>1, <1>7 DEF HandleAppendEntries, InstallSnapshotTermUnsaved, RefuseSnapshot,
         HandleInstallSnapshot, InstallSnapshotInterrupted, Follow, StepDown, GoDown,
         TypeOK, ProcessType
  <2> QED BY <1>3, <2>1
<1>8. CASE HandleResult(n, m)
  <2>1. CASE StepDown(n)
    BY <1>1, <1>3, <2>1 DEF StepDown, TypeOK, ProcessType
  <2>2. UNCHANGED elected
    BY <1>8 DEF HandleResult
  <2>3. ASSUME UNCHANGED <<st, role>>, role[n] = "Leader", m.success, m.term = st[n].currentTerm,
               matchIndex' = [matchIndex EXCEPT ![n] = [matchIndex[n] EXCEPT ![m.src] = m.lastLogIndex]],
               nextIndex' = [nextIndex EXCEPT ![n][m.src] = m.lastLogIndex + 1]
        PROVE  Tracks(n)
    <3>1. m \in Acks
      BY <1>8, <2>3 DEF HandleResult, Acks
    <3>2. ASSUME NEW p \in Node \ {m.src}
          PROVE  nextIndex'[n][p] = nextIndex[n][p] /\ matchIndex'[n][p] = matchIndex[n][p]
      BY <1>1, <2>3 DEF TypeOK, LeadershipType
    <3>3. nextIndex'[n][m.src] = m.lastLogIndex + 1 /\ matchIndex'[n][m.src] = m.lastLogIndex
      BY <1>1, <1>2, <2>3 DEF TypeOK, LeadershipType
    <3> QED BY <2>2, <2>3, <3>1, <3>2, <3>3 DEF Tracks
  <2>4. ASSUME UNCHANGED <<st, role, matchIndex>>, role[n] = "Leader",
               nextIndex' = [nextIndex EXCEPT ![n][m.src] = StepBack(@)]
        PROVE  Tracks(n)
    <3>1. ASSUME NEW p \in Node \ {m.src}
          PROVE  nextIndex'[n][p] = nextIndex[n][p]
      BY <1>1, <2>4 DEF TypeOK, LeadershipType
    <3>2. nextIndex'[n][m.src] = StepBack(nextIndex[n][m.src])
      BY <1>1, <1>2, <2>4 DEF TypeOK, LeadershipType
    <3> QED BY <2>2, <2>4, <3>1, <3>2 DEF Tracks
  <2> QED BY <1>8, <2>1, <2>3, <2>4 DEF HandleResult
<1> QED BY <1>4, <1>5, <1>6, <1>7, <1>8 DEF Receive

------------------------------------------------------------------------------
(* New acknowledgements.                                                   *)

LEMMA NoAck ==
  ASSUME NEW n, NEW ms, messages' = messages \cup ms,
         \A r \in ms : r.type = "AppendEntriesResult" => ~r.success
  PROVE  Acknowledges(n)
BY DEF Acknowledges, Acks

LEMMA OneMessage ==
  ASSUME NEW n, NEW r, messages' = messages \cup {r},
         r.type = "AppendEntriesResult" => ~r.success
  PROVE  Acknowledges(n)
BY DEF Acknowledges, Acks

LEMMA NoMessages ==
  ASSUME NEW n, UNCHANGED messages
  PROVE  Acknowledges(n)
BY DEF Acknowledges, Acks

LEMMA StepAcks ==
  ASSUME TypeOK, NEW n \in Node, Step(n)
  PROVE  Acknowledges(n)
<1>1. CASE UNCHANGED messages
  BY <1>1, NoMessages
<1>2. ASSUME NEW s, NEW next, NEW commit, Send(Heartbeats(n, s, next, commit))
      PROVE  Acknowledges(n)
  <2>1. \A m \in Heartbeats(n, s, next, commit) : m.type = "AppendEntries"
    BY HeartbeatFields
  <2> QED BY <1>2, <2>1, NoAck DEF Send
<1>3. CASE StartElection(n)
  <2>1. PICK m : m = RequestVote(n, IncrementTerm(st[n], n))
    OBVIOUS
  <2>2. messages' = messages \cup {m}
    BY <1>3, <2>1 DEF StartElection, Send
  <2>3. m.type = "RequestVote"
    BY <2>1 DEF RequestVote
  <2> QED BY <2>2, <2>3, OneMessage
<1>4. CASE HeartbeatTick(n)
  BY <1>2, <1>4 DEF HeartbeatTick, SendHeartbeats
<1>5. ASSUME NEW v \in Value, ClientRequest(n, v)
      PROVE  Acknowledges(n)
  BY <1>1, <1>2, <1>5 DEF ClientRequest, SendHeartbeats
<1>6. CASE \/ StartElectionUnsaved(n) \/ ElectionEnds(n) \/ TriggerSnapshot(n)
           \/ TriggerSnapshotInterrupted(n) \/ Crash(n) \/ Restart(n)
  BY <1>1, <1>6 DEF StartElectionUnsaved, ElectionEnds, TriggerSnapshot,
                    TriggerSnapshotInterrupted, Crash, Restart
<1> QED BY <1>3, <1>4, <1>5, <1>6 DEF Step

LEMMA ReceiveAcks ==
  ASSUME TypeOK, ~StaleSnapshots, NEW m \in messages, NEW n \in Receivers(m), Receive(n, m)
  PROVE  Acknowledges(n)
<1>1. n \in Node /\ (m.type # "RequestVote" => n = m.dst)
  BY ReceiversAreNodes DEF Receivers, TypeOK, NetworkType
<1>2. /\ st[n] \in HardState /\ m.src \in Node /\ m.term \in Nat /\ st[n].currentTerm \in Nat
  BY <1>1, HardStateFields, MessageKinds DEF TypeOK, ProcessType, NetworkType
<1>3. CASE UNCHANGED messages
  BY <1>3, NoMessages
<1>4. ASSUME NEW term, NEW index, Send({Result(m, term, FALSE, index)})
      PROVE  Acknowledges(n)
  <2>1. PICK r : r = Result(m, term, FALSE, index)
    OBVIOUS
  <2>2. ~r.success
    BY <2>1 DEF Result
  <2>3. messages' = messages \cup {r}
    BY <1>4, <2>1 DEF Send
  <2> QED BY <2>2, <2>3, OneMessage
<1>5. CASE ReceiveVote(n, m)
  <2>1. CASE Send(Heartbeats(n, st[n], nextIndex'[n], commitIndex[n]))
    <3>1. \A x \in Heartbeats(n, st[n], nextIndex'[n], commitIndex[n]) : x.type = "AppendEntries"
      BY HeartbeatFields
    <3> QED BY <2>1, <3>1, NoAck DEF Send
  <2> QED BY <1>3, <1>5, <2>1 DEF ReceiveVote
<1>6. CASE HandleRequestVote(n, m)
  <2>1. PICK term, granted : Send({RequestVoteReply(m, n, term, granted)})
    BY <1>6 DEF HandleRequestVote
  <2>2. PICK r : r = RequestVoteReply(m, n, term, granted)
    OBVIOUS
  <2>3. messages' = messages \cup {r} /\ r.type = "RequestVoteReply"
    BY <2>1, <2>2 DEF Send, RequestVoteReply
  <2> QED BY <2>3, OneMessage
<1>7. CASE \/ StaleAppendEntries(n, m) \/ StaleInstallSnapshot(n, m)
           \/ InstallSnapshotTermUnsaved(n, m) \/ RefuseSnapshot(n, m)
  BY <1>4, <1>7 DEF StaleAppendEntries, StaleInstallSnapshot, InstallSnapshotTermUnsaved,
                    RefuseSnapshot
<1>8. CASE HandleAppendEntries(n, m)
  <2> DEFINE s == UpdateTerm(st[n], m.term)
             consistent == AppendConsistent(s, m.prevIndex, m.prevTerm)
             w == WithEntries(s, m.prevIndex, m.entries)
             last == m.prevIndex + Len(m.entries)
  <2>1. CASE Send({Result(m, s.currentTerm, FALSE, last)})
    BY <1>4, <2>1
  <2>2. CASE consistent /\ Write(n, w) /\ Send({Result(m, s.currentTerm, TRUE, last)})
    <3>1. st'[n] = w /\ hs'[n] = w
      BY <1>1, <2>2, WrittenLog
    <3>2. /\ m \in Appends /\ m.dst = n /\ m.term >= st[n].currentTerm
          /\ role'[n] = "Follower" /\ snapFile'[n] = snapFile[n]
      BY <1>1, <1>8 DEF HandleAppendEntries, Follow, Appends, TypeOK, ProcessType
    <3>3. MergedBy(n, m)
      BY <2>2, <3>1, <3>2 DEF MergedBy
    <3>4. s.currentTerm = m.term
      BY <1>1, <3>2, ReachedTerm
    <3>5. w.currentTerm = s.currentTerm
      BY DEF WithEntries
    <3>6. \A r \in Acks' \ Acks : r = Result(m, s.currentTerm, TRUE, last)
      BY <2>2 DEF Send, Acks
    <3> HIDE DEF s, w, last
    <3>7. \A r \in Acks' \ Acks : r.src = n /\ r.term = m.term /\ r.lastLogIndex = last
      <4>1. PICK x : x = Result(m, s.currentTerm, TRUE, last)
        OBVIOUS
      <4>2. x.src = m.dst /\ x.term = s.currentTerm /\ x.lastLogIndex = last
        BY <4>1 DEF Result
      <4> QED BY <3>2, <3>4, <3>6, <4>1, <4>2
    <3> QED BY <3>1, <3>2, <3>3, <3>4, <3>5, <3>7 DEF Acknowledges, last, End
  <2>3. consistent \in BOOLEAN
    BY DEF AppendConsistent, InMemory
  <2>4. \/ Write(n, IF consistent THEN w ELSE s) /\ Send({Result(m, s.currentTerm, consistent, last)})
        \/ Send({Result(m, s.currentTerm, FALSE, last)})
    BY <1>8 DEF HandleAppendEntries
  <2> HIDE DEF s, w, last, consistent
  <2>5. CASE consistent = TRUE
    BY <2>1, <2>2, <2>4, <2>5
  <2>6. CASE consistent = FALSE
    BY <2>1, <2>4, <2>6
  <2> QED BY <2>3, <2>5, <2>6
<1>9. CASE HandleResult(n, m)
  BY <1>3, <1>9 DEF HandleResult
<1>10. CASE HandleInstallSnapshot(n, m)
  <2>1. PICK s \in HardState : s = UpdateTerm(st[n], m.term)
    BY <1>2, UpdateTermType
  <2>2. PICK c : c = InstalledAt(s, m.index, m.snapTerm)
    OBVIOUS
  <2>3. st'[n] = c /\ hs'[n] = c
    <3>1. Write(n, c)
      BY <1>10, <2>1, <2>2 DEF HandleInstallSnapshot
    <3> QED BY <1>1, <3>1, WrittenLog
  <2>4. /\ m \in Installs /\ m.dst = n /\ BodyMatches(m) /\ m.term >= st[n].currentTerm
        /\ ~AlreadyHolds(st[n], m.index, m.snapTerm)
        /\ role'[n] = "Follower" /\ snapFile'[n] = m.body
    BY <1>1, <1>10 DEF HandleInstallSnapshot, Delivered, Installs, Follow, TypeOK, ProcessType, DiskType
  <2>5. InstalledBy(n, m)
    BY <2>1, <2>2, <2>3, <2>4 DEF InstalledBy
  <2>6. c.currentTerm = m.term
    <3>1. s.currentTerm = m.term
      BY <1>1, <2>1, <2>4, ReachedTerm
    <3> QED BY <2>1, <2>2, <3>1 DEF InstalledAt, StartAt, HardState
  <2>7. \A r \in Acks' \ Acks : r = Result(m, m.term, TRUE, m.index)
    BY <1>10 DEF HandleInstallSnapshot, Send, Acks
  <2>8. \A r \in Acks' \ Acks : r.src = n /\ r.term = m.term /\ r.lastLogIndex = m.index
    <3>1. PICK x : x = Result(m, m.term, TRUE, m.index)
      OBVIOUS
    <3>2. x.src = m.dst /\ x.term = m.term /\ x.lastLogIndex = m.index
      BY <3>1 DEF Result
    <3> QED BY <2>4, <2>7, <3>1, <3>2
  <2> QED BY <2>3, <2>4, <2>5, <2>6, <2>8 DEF Acknowledges
<1>11. CASE InstallSnapshotInterrupted(n, m)
  BY <1>3, <1>11 DEF InstallSnapshotInterrupted
<1> QED BY <1>5, <1>6, <1>7, <1>8, <1>9, <1>10, <1>11 DEF Receive

------------------------------------------------------------------------------
(* All that is known of a step of one node.                                *)

NodeTurn(n) ==
  /\ DiskStep /\ \A p \in Node \ {n} : Untouched(p)
  /\ Turn(n) /\ Sends(n) /\ Elects(n) /\ Tracks(n) /\ Acknowledges(n) /\ GoesOn(n)
  /\ messages \subseteq messages'

LEMMA HeldMark ==
  ASSUME NEW s \in HardState, LogOK(s), NEW i \in Held(s)
  PROVE  <<i, EntryAt(s, i).term>> \in Marks(s)
<1>1. EntryAt(s, i) \in HeldEntries(s) /\ EntryAt(s, i).index = i
  BY HeldEntry, EntryIndex
<1> QED BY <1>1 DEF Marks, EntryMark

NodeOK(n) ==
  /\ st[n] \in HardState /\ hs[n] \in HardState /\ LogOK(st[n]) /\ LogOK(hs[n])
  /\ st[n].currentTerm \in Nat /\ hs[n].currentTerm \in Nat
  /\ hs[n].currentTerm <= st[n].currentTerm
  /\ st[n].lastIncludedIndex \in Nat /\ LastLogIndex(st[n]) \in Nat
  /\ LastLogIndex(st[n]) >= st[n].lastIncludedIndex
  /\ commitIndex[n] \in Nat /\ lastApplied[n] \in Nat

NodesOK == \A n \in Node : NodeOK(n)

LEMMA NodesKnown == Known => NodesOK
<1> SUFFICES ASSUME Known, NEW n \in Node
             PROVE  NodeOK(n)
  BY DEF NodesOK
<1>1. /\ st[n] \in HardState /\ hs[n] \in HardState
      /\ commitIndex[n] \in Nat /\ lastApplied[n] \in Nat
  BY DEF Known, TypeOK, ProcessType, DiskType, ProgressType
<1>2. LogOK(st[n]) /\ LogOK(hs[n])
  BY DEF Known, LogInv, LogsOK
<1>3. NotBehind(st[n], hs[n])
  BY DEF Known, ElectionInv, MemoryNotBehind
<1> QED BY <1>1, <1>2, <1>3, HardStateFields DEF NotBehind, NodeOK

LEMMA NodeStates ==
  ASSUME Known, NEW n \in Node
  PROVE  /\ st[n] \in HardState /\ hs[n] \in HardState /\ LogOK(st[n]) /\ LogOK(hs[n])
         /\ st[n].currentTerm \in Nat /\ hs[n].currentTerm \in Nat
         /\ hs[n].currentTerm <= st[n].currentTerm
         /\ st[n].lastIncludedIndex \in Nat /\ LastLogIndex(st[n]) \in Nat
         /\ LastLogIndex(st[n]) >= st[n].lastIncludedIndex
         /\ commitIndex[n] \in Nat /\ lastApplied[n] \in Nat
BY NodesKnown DEF NodesOK, NodeOK

LEMMA NodeStatesNext ==
  ASSUME Known', NEW n \in Node
  PROVE  /\ st'[n] \in HardState /\ hs'[n] \in HardState /\ LogOK(st'[n]) /\ LogOK(hs'[n])
         /\ st'[n].currentTerm \in Nat /\ hs'[n].currentTerm \in Nat
         /\ hs'[n].currentTerm <= st'[n].currentTerm
         /\ st'[n].lastIncludedIndex \in Nat /\ LastLogIndex(st'[n]) \in Nat
         /\ LastLogIndex(st'[n]) >= st'[n].lastIncludedIndex
         /\ commitIndex'[n] \in Nat /\ lastApplied'[n] \in Nat
<1>1. NodesOK'
  BY NodesKnown, PTL
<1> QED BY <1>1 DEF NodesOK, NodeOK

(* The last applied entry of a running node is in its log.                 *)
LEMMA AppliedInMemory ==
  ASSUME Known, ProgressOK, NEW n \in Node, up[n]
  PROVE  /\ InMemory(st[n], lastApplied[n])
         /\ <<lastApplied[n], GetLogTerm(st[n], lastApplied[n])>> \in Marks(st[n])
<1>1. InMemory(st[n], lastApplied[n])
  <2>1. /\ st[n].lastIncludedIndex <= lastApplied[n] /\ lastApplied[n] = commitIndex[n]
        /\ commitIndex[n] <= LastLogIndex(st[n])
    BY DEF ProgressOK
  <2> QED BY <2>1, NodeStates DEF InMemory
<1> QED BY <1>1, NodeStates, TermMark

(* What the log of n and its file are made of, besides n's own disk.       *)
Shared(n) == SentMarks \cup StoredMarks \cup Marks(st[n])

LEMMA SharedMarks ==
  ASSUME NEW n \in Node, NEW l \in Node
  PROVE  Shared(n) \subseteq MarksBut(l)
BY DEF Shared, MarksBut

(* Where the marks of a node's log come from.                              *)
LEMMA TurnMarks ==
  ASSUME Known, ProgressOK, NEW n \in Node, Turn(n)
  PROVE  /\ \A k \in Marks(hs'[n]) :
              \/ k \in Shared(n) \cup Marks(hs[n])
              \/ PushedLog(n) /\ k = <<LastLogIndex(st[n]) + 1, st[n].currentTerm>>
         /\ \A k \in Marks(st'[n]) :
              \/ k \in Shared(n)
              \/ k \in Marks(hs[n]) /\ (Dies(n) \/ Returns(n))
              \/ /\ PushedLog(n) /\ st'[n] = hs'[n]
                 /\ k = <<LastLogIndex(st[n]) + 1, st[n].currentTerm>>
         /\ snapFile'[n] # Nil => FileMark(snapFile'[n]) \in Shared(n)
<1>1. TypeOK /\ LogsOK
  BY DEF Known, LogInv
<1>2. st[n] \in HardState /\ hs[n] \in HardState /\ LogOK(st[n]) /\ LogOK(hs[n])
  BY NodeStates
<1>3. /\ Marks(st[n]) \subseteq Shared(n) /\ SentMarks \subseteq Shared(n)
      /\ StoredMarks \subseteq Shared(n)
  BY DEF Shared
<1>4. snapFile[n] # Nil => FileMark(snapFile[n]) \in StoredMarks
  BY StoredMark
<1>5. SameLog(st'[n], st[n]) => Marks(st'[n]) = Marks(st[n])
  BY DEF SameLog, Marks, Base, HeldEntries
<1>6. hs'[n] = hs[n] \/ Saved(n) => Marks(hs'[n]) \subseteq Marks(hs[n]) \cup Marks(st[n])
  BY DEF Saved, SameLog, Marks, Base, HeldEntries
<1>7. CASE Kept(n)
  BY <1>3, <1>4, <1>5, <1>6, <1>7 DEF Kept
<1>8. CASE PushedLog(n)
  <2>1. PICK v \in Value : /\ hs'[n] = PushEntry(st[n], v)
                           /\ st'[n] = PushEntry(st[n], v) \/ st'[n] = st[n]
    BY <1>8 DEF PushedLog
  <2>2. v \in Command
    BY DEF Command
  <2>3. PICK e \in LogEntry : e = [term |-> st[n].currentTerm, index |-> LastLogIndex(st[n]) + 1,
                                   command |-> v]
    BY <1>2, <2>2, PushedFields
  <2>4. /\ HeldEntries(PushEntry(st[n], v)) = HeldEntries(st[n]) \cup {e}
        /\ Base(PushEntry(st[n], v)) = Base(st[n])
    BY <1>2, <2>2, <2>3, PushedLogOK
  <2>5. EntryMark(e) = <<LastLogIndex(st[n]) + 1, st[n].currentTerm>>
    BY <2>3 DEF EntryMark
  <2>6. \A k \in Marks(hs'[n]) : k \in Marks(st[n]) \/ k = EntryMark(e)
    BY <2>1, <2>4 DEF Marks
  <2>7. st'[n] = hs'[n] \/ Marks(st'[n]) = Marks(st[n])
    BY <2>1
  <2>8. snapFile'[n] = snapFile[n]
    BY <1>8 DEF PushedLog
  <2> QED BY <1>3, <1>4, <1>8, <2>5, <2>6, <2>7, <2>8
<1>9. ASSUME NEW m \in Appends, MergedBy(n, m)
      PROVE  /\ Marks(hs'[n]) \cup Marks(st'[n]) \subseteq Shared(n)
             /\ snapFile'[n] = snapFile[n]
  <2>1. PICK s \in HardState : s = UpdateTerm(st[n], m.term)
    <3>1. m.term \in Nat
      BY <1>1, MessageKinds DEF TypeOK, NetworkType, Appends
    <3> QED BY <1>2, <3>1, UpdateTermType
  <2>2. SameLog(s, st[n])
    BY <1>2, <2>1, UpdatedLog
  <2>3. LogOK(s) /\ HeldEntries(s) = HeldEntries(st[n]) /\ Base(s) = Base(st[n])
    BY <1>2, <2>2 DEF SameLog, LogOK, HeldEntries, Base
  <2>4. /\ m.prevIndex \in Nat /\ m.entries \in Seq(LogEntry)
        /\ \A k \in 1 .. Len(m.entries) :
             m.entries[k].index = m.prevIndex + k /\ m.entries[k] \in SentEntries
    BY <1>1, AppendFields
  <2>5. InMemory(s, m.prevIndex) /\ (st'[n] = s \/ st'[n] = hs'[n])
        /\ hs'[n] = WithEntries(s, m.prevIndex, m.entries) /\ snapFile'[n] = snapFile[n]
    BY <1>9, <2>1 DEF MergedBy, AppendConsistent
  <2>6. /\ HeldEntries(hs'[n]) \subseteq HeldEntries(s) \cup {m.entries[k] : k \in 1 .. Len(m.entries)}
        /\ Base(hs'[n]) = Base(s)
    <3>1. HeldEntries(WithEntries(s, m.prevIndex, m.entries))
            \subseteq HeldEntries(s) \cup {m.entries[k] : k \in 1 .. Len(m.entries)}
      BY <2>3, <2>4, <2>5, MergedLogOK
    <3>2. Base(WithEntries(s, m.prevIndex, m.entries)) = Base(s)
      BY <2>3, <2>4, <2>5, MergedLogOK
    <3> QED BY <2>5, <3>1, <3>2
  <2>7. HeldEntries(hs'[n]) \subseteq HeldEntries(st[n]) \cup SentEntries
    BY <2>3, <2>4, <2>6
  <2>8. \A e \in SentEntries : EntryMark(e) \in SentMarks
    BY DEF SentMarks
  <2>9. Marks(hs'[n]) \subseteq Marks(st[n]) \cup SentMarks
    BY <2>3, <2>6, <2>7, <2>8 DEF Marks
  <2>10. Marks(s) = Marks(st[n])
    BY <2>3 DEF Marks
  <2> QED BY <1>3, <2>5, <2>9, <2>10
<1>10. CASE \E m \in Appends : MergedBy(n, m)
  BY <1>3, <1>4, <1>9, <1>10
<1>11. CASE up[n] /\ Compacted(n)
  <2> DEFINE i == lastApplied[n]
             t == GetLogTerm(st[n], i)
             c == StartAt(st[n], i, t, EntriesBetween(st[n], i + 1, LastLogIndex(st[n])))
  <2>1. InMemory(st[n], i) /\ <<i, t>> \in Marks(st[n])
    BY <1>11, AppliedInMemory
  <2>2. i \in Nat /\ t \in Nat /\ i > st[n].lastIncludedIndex /\ (i = 0 => t = 0)
    BY <1>2, <1>11, NodeStates, GetLogTermType DEF Compacted
  <2>3. hs'[n] = c /\ st'[n] = c
    BY <1>11, <2>1 DEF Compacted, CompactTo
  <2>4. FileMark(snapFile'[n]) = <<i, t>>
    BY <1>11 DEF Compacted, OwnSnapshot, Snapshot, FileMark
  <2>5. HeldEntries(c) \subseteq HeldEntries(st[n]) /\ Base(c) = <<i, t>>
    <3>1. i >= st[n].lastIncludedIndex
      BY <1>2, <2>2, NodeStates
    <3> HIDE DEF i, t
    <3> QED BY <1>2, <2>2, <3>1, CompactedLogOK
  <2> HIDE DEF c, i, t
  <2>6. Marks(c) \subseteq Marks(st[n])
    BY <2>1, <2>5 DEF Marks
  <2> QED BY <1>3, <2>1, <2>3, <2>4, <2>6
<1>12. ASSUME NEW m \in Installs, InstalledBy(n, m)
       PROVE  /\ Marks(hs'[n]) \cup Marks(st'[n]) \subseteq Shared(n)
              /\ FileMark(snapFile'[n]) \in Shared(n)
  <2>1. /\ m.index \in Nat /\ m.snapTerm \in Nat /\ (m.index = 0 => m.snapTerm = 0)
        /\ <<m.index, m.snapTerm>> \in SentMarks /\ FileMark(m.body) \in SentMarks
    BY <1>1, InstallFields
  <2>2. PICK s \in HardState : s = UpdateTerm(st[n], m.term)
    <3>1. m.term \in Nat
      BY <1>1, MessageKinds DEF TypeOK, NetworkType, Installs
    <3> QED BY <1>2, <3>1, UpdateTermType
  <2>3. hs'[n] = InstalledAt(s, m.index, m.snapTerm) /\ st'[n] = hs'[n] /\ snapFile'[n] = m.body
    BY <1>12, <2>2 DEF InstalledBy
  <2>4. HeldEntries(hs'[n]) = {} /\ Base(hs'[n]) = <<m.index, m.snapTerm>>
    BY <2>1, <2>3, InstalledLogOK
  <2> QED BY <1>3, <2>1, <2>3, <2>4 DEF Marks
<1>13. CASE Adopts(n)
  BY <1>12, <1>13 DEF Adopts
<1>14. CASE Dies(n)
  <2>1. Marks(hs'[n]) \subseteq Marks(hs[n]) \cup Marks(st[n]) /\ st'[n] = hs'[n]
    BY <1>6, <1>14 DEF Dies
  <2>2. CASE snapFile'[n] = snapFile[n]
    BY <1>3, <1>4, <1>14, <2>1, <2>2
  <2>3. CASE snapFile'[n] = OwnSnapshot(n)
    <3>1. up[n]
      BY <1>14 DEF Dies
    <3>2. FileMark(snapFile'[n]) \in Marks(st[n])
      BY <2>3, <3>1, AppliedInMemory DEF OwnSnapshot, Snapshot, FileMark
    <3> QED BY <1>3, <1>14, <2>1, <3>2
  <2>4. ASSUME NEW m \in Installs, snapFile'[n] = m.body
        PROVE  FileMark(snapFile'[n]) \in SentMarks
    BY <1>1, <2>4, InstallFields
  <2> QED BY <1>3, <1>14, <2>1, <2>2, <2>3, <2>4 DEF Dies
<1>15. CASE Returns(n)
  <2>1. /\ hs'[n] = Recovered(hs[n], snapFile[n]) /\ st'[n] = hs'[n]
        /\ snapFile'[n] = snapFile[n]
    BY <1>15 DEF Returns
  <2>2. CASE hs'[n] = hs[n]
    BY <1>3, <1>4, <1>15, <2>1, <2>2
  <2>3. CASE snapFile[n] # Nil /\ snapFile[n].index > hs[n].lastIncludedIndex
    <3>1. PICK f \in SnapshotBody : f = snapFile[n]
      BY <1>1, <2>3 DEF TypeOK, DiskType
    <3>2. f.index \in Nat /\ f.term \in Nat /\ hs[n].lastIncludedIndex \in Nat
      BY <1>2, <3>1, HardStateFields DEF SnapshotBody
    <3>3. hs'[n] = StartAt(hs[n], f.index, f.term,
                           EntriesBetween(hs[n], f.index + 1, LastLogIndex(hs[n])))
      BY <2>1, <2>3, <3>1 DEF Recovered, Reconciled
    <3>4. HeldEntries(hs'[n]) \subseteq HeldEntries(hs[n]) /\ Base(hs'[n]) = <<f.index, f.term>>
      <4>1. f.index >= hs[n].lastIncludedIndex /\ (f.index = 0 => f.term = 0)
        BY <2>3, <3>1, <3>2
      <4>2. PICK i \in Nat, t \in Nat : i = f.index /\ t = f.term
        BY <3>2
      <4> QED BY <1>2, <3>3, <4>1, <4>2, CompactedLogOK
    <3>5. Marks(hs'[n]) \subseteq Marks(hs[n]) \cup StoredMarks
      BY <1>4, <2>3, <3>1, <3>4 DEF Marks, FileMark
    <3> QED BY <1>3, <1>4, <1>15, <2>1, <3>5
  <2> QED BY <2>1, <2>2, <2>3 DEF Recovered
<1> QED BY <1>7, <1>8, <1>10, <1>11, <1>12, <1>13, <1>14, <1>15 DEF Turn, Learns

------------------------------------------------------------------------------
(* What a leader sends begins in its log.                                  *)
LEMMA NextInLog ==
  ASSUME Known, Known', LeadersRemember, NEW n \in Node, NodeTurn(n), role'[n] = "Leader",
         NEW p \in Node \ {n}
  PROVE  /\ nextIndex'[n][p] \in 1 .. LastLogIndex(st'[n]) + 1
<1>1. /\ LastLogIndex(st[n]) \in Nat /\ LastLogIndex(st'[n]) \in Nat
  BY NodeStates, NodeStatesNext
<1>2. CASE nextIndex'[n][p] = LastLogIndex(st'[n]) + 1
  BY <1>1, <1>2
<1>3. CASE /\ role[n] = "Leader" /\ st'[n].currentTerm = st[n].currentTerm
           /\ <<st'[n].currentTerm, n>> \in elected
  <2>1. LastLogIndex(st'[n]) >= LastLogIndex(st[n])
    BY <1>3 DEF NodeTurn, GoesOn
  <2>2. nextIndex[n][p] \in 1 .. LastLogIndex(st[n]) + 1
    BY <1>3 DEF LeadersRemember
  <2>3. CASE nextIndex'[n][p] = nextIndex[n][p] \/ nextIndex'[n][p] = StepBack(nextIndex[n][p])
    BY <1>1, <2>1, <2>2, <2>3 DEF StepBack
  <2>4. ASSUME NEW r \in Acks, r.term = st[n].currentTerm, nextIndex'[n][p] = r.lastLogIndex + 1
        PROVE  nextIndex'[n][p] \in 1 .. LastLogIndex(st'[n]) + 1
    <3>1. r.lastLogIndex <= LastLogIndex(st[n])
      BY <1>3, <2>4 DEF LeadersRemember
    <3>2. r.lastLogIndex \in Nat
      BY AckFields DEF Known
    <3> QED BY <1>1, <2>1, <2>4, <3>1, <3>2
  <2>5. \/ nextIndex'[n][p] = nextIndex[n][p] \/ nextIndex'[n][p] = StepBack(nextIndex[n][p])
        \/ \E r \in Acks : r.term = st[n].currentTerm /\ nextIndex'[n][p] = r.lastLogIndex + 1
    BY <1>3 DEF NodeTurn, Tracks
  <2> QED BY <2>3, <2>4, <2>5
<1>4. role[n] = "Leader" => <<st[n].currentTerm, n>> \in elected
  BY DEF Known, LeaderInv, LeadersElected
<1> QED BY <1>2, <1>3, <1>4 DEF NodeTurn, Tracks

(* What a leader sends is its log from the place where it begins.          *)
LEMMA NewAppendFields ==
  ASSUME Known, Known', LeadersRemember, NEW n \in Node, NodeTurn(n),
         NEW m \in Appends', m \notin Appends
  PROVE  /\ role'[n] = "Leader" /\ m.src = n /\ m.dst \in Node \ {n}
         /\ m.term = st'[n].currentTerm /\ m.leaderCommit = commitIndex[n]
         /\ m.prevIndex + 1 = nextIndex'[n][m.dst] /\ m.prevIndex \in Nat
         /\ m.prevIndex >= st'[n].lastIncludedIndex
         /\ m.prevTerm = GetLogTerm(st'[n], m.prevIndex)
         /\ InMemory(st'[n], m.prevIndex)
         /\ m.entries = EntriesBetween(st'[n], m.prevIndex + 1, LastLogIndex(st'[n]))
         /\ End(m) = LastLogIndex(st'[n])
         /\ \A k \in 1 .. Len(m.entries) : m.entries[k] = EntryAt(st'[n], m.prevIndex + k)
<1>1. /\ role'[n] = "Leader" /\ m.dst \in Node \ {n}
      /\ nextIndex'[n][m.dst] > st'[n].lastIncludedIndex
      /\ m = AppendEntries(n, m.dst, st'[n], nextIndex'[n][m.dst], commitIndex[n])
  BY DEF NodeTurn, Sends, Appends
<1>2. PICK s \in HardState : s = st'[n]
  BY NodeStatesNext
<1>3. /\ s.lastIncludedIndex \in Nat /\ LastLogIndex(s) \in Nat
      /\ LastLogIndex(s) >= s.lastIncludedIndex
  BY <1>2, HardStateFields
<1>4. PICK next \in 1 .. LastLogIndex(s) + 1 : next = nextIndex'[n][m.dst]
  BY <1>1, <1>2, NextInLog
<1>5. PICK prev \in Nat : prev = next - 1 /\ prev + 1 = next
  BY <1>3, <1>4
<1>6. /\ m.src = n /\ m.term = s.currentTerm /\ m.leaderCommit = commitIndex[n]
      /\ m.prevIndex = prev /\ m.prevTerm = GetLogTerm(s, prev)
      /\ m.entries = EntriesBetween(s, next, LastLogIndex(s))
  BY <1>1, <1>2, <1>4, <1>5 DEF AppendEntries
<1>7. next > s.lastIncludedIndex
  BY <1>1, <1>2, <1>4
<1>8. prev >= s.lastIncludedIndex /\ InMemory(s, prev)
  BY <1>3, <1>4, <1>5, <1>7 DEF InMemory
<1>9. LET e == EntriesBetween(s, next, LastLogIndex(s))
      IN  /\ Len(e) \in Nat
          /\ Len(e) = IF next <= LastLogIndex(s) THEN LastLogIndex(s) - next + 1 ELSE 0
          /\ \A k \in 1 .. Len(e) : e[k] = EntryAt(s, next + k - 1)
  BY <1>3, <1>4, <1>7, EntriesFrom
<1>10. prev + Len(m.entries) = LastLogIndex(s)
  BY <1>3, <1>4, <1>5, <1>6, <1>9
<1>11. \A k \in 1 .. Len(m.entries) : m.entries[k] = EntryAt(s, prev + k)
  <2> SUFFICES ASSUME NEW k \in 1 .. Len(m.entries)
               PROVE  m.entries[k] = EntryAt(s, prev + k)
    OBVIOUS
  <2>1. m.entries[k] = EntryAt(s, next + k - 1)
    BY <1>6, <1>9
  <2>2. next + k - 1 = prev + k
    BY <1>4, <1>5, <1>6, <1>9
  <2> QED BY <2>1, <2>2
<1> QED BY <1>1, <1>2, <1>4, <1>5, <1>6, <1>8, <1>10, <1>11 DEF End

(* No step makes a mark but those of its node's log.                       *)
LEMMA NewMarks ==
  ASSUME Known, Known', LeadersRemember, ProgressOK, NEW n \in Node, NodeTurn(n)
  PROVE  /\ \A k \in MarksBut(n)' : k \in MarksBut(n) \cup Marks(st'[n])
         /\ \A l \in Node \ {n} : \A k \in MarksBut(l)' :
              k \in MarksBut(l) \cup Marks(st'[n]) \cup Marks(hs'[n])
         /\ SentEntries' \subseteq SentEntries \cup HeldEntries(st'[n])
<1>1. /\ TypeOK /\ TypeOK' /\ LogsOK /\ LogsOK' /\ LogOK(st'[n]) /\ st'[n] \in HardState
      /\ Sends(n) /\ Turn(n)
  BY NodeStatesNext DEF Known, LogInv, NodeTurn
<1>2. \A m \in Appends' : m \in Appends \/ <<m.prevIndex, m.prevTerm>> \in Marks(st'[n])
  <2> SUFFICES ASSUME NEW m \in Appends', m \notin Appends
               PROVE  <<m.prevIndex, m.prevTerm>> \in Marks(st'[n])
    OBVIOUS
  <2>1. /\ m.prevTerm = GetLogTerm(st'[n], m.prevIndex)
        /\ InMemory(st'[n], m.prevIndex) /\ m.prevIndex \in Nat
    BY NewAppendFields
  <2>2. PICK s \in HardState : s = st'[n]
    BY <1>1
  <2> QED BY <1>1, <2>1, <2>2, TermMark
<1>3. /\ SentEntries' \subseteq SentEntries \cup HeldEntries(st'[n])
  BY <1>1, SentCopied
<1>4. \A m \in Requests' : m \in Requests \/ <<m.lastLogIndex, m.lastLogTerm>> \in Marks(st'[n])
  <2> SUFFICES ASSUME NEW m \in Requests', m \notin Requests
               PROVE  <<m.lastLogIndex, m.lastLogTerm>> \in Marks(st'[n])
    OBVIOUS
  <2>1. m = RequestVote(n, st'[n])
    BY <1>1 DEF Requests, Sends
  <2>2. PICK s \in HardState : s = st'[n]
    BY <1>1
  <2>3. m.lastLogIndex = LastLogIndex(s) /\ m.lastLogTerm = LastLogTerm(s)
    BY <2>1, <2>2 DEF RequestVote
  <2> QED BY <1>1, <2>2, <2>3, LastMark
<1>5. Installs' \subseteq Installs
  BY <1>1 DEF Sends, Installs
<1>6. \A t \in snapTasks' : t \in snapTasks \/ <<t.index, t.snapTerm>> \in Marks(st'[n])
  <2> SUFFICES ASSUME NEW t \in snapTasks', t \notin snapTasks
               PROVE  <<t.index, t.snapTerm>> \in Marks(st'[n])
    OBVIOUS
  <2>1. t = SnapshotTask(n, t.dst, st'[n])
    BY <1>1 DEF Sends
  <2>2. PICK s : s = st'[n]
    OBVIOUS
  <2>3. <<t.index, t.snapTerm>> = Base(s)
    BY <2>1, <2>2 DEF SnapshotTask, Base
  <2> QED BY <2>2, <2>3 DEF Marks
<1>7. SentMarks' \subseteq SentMarks \cup Marks(st'[n])
  <2> SUFFICES ASSUME NEW k \in SentMarks', k \notin Marks(st'[n])
               PROVE  k \in SentMarks
    OBVIOUS
  <2>1. CASE k \in {<<m.prevIndex, m.prevTerm>> : m \in Appends'}
    BY <1>2, <2>1 DEF SentMarks
  <2>2. CASE k \in {EntryMark(e) : e \in SentEntries'}
    BY <1>3, <2>2 DEF SentMarks, Marks
  <2>3. CASE k \in {<<m.lastLogIndex, m.lastLogTerm>> : m \in Requests'}
    BY <1>4, <2>3 DEF SentMarks
  <2>4. CASE k \in {<<m.index, m.snapTerm>> : m \in (Installs \cup snapTasks)'}
    BY <1>5, <1>6, <2>4 DEF SentMarks
  <2>5. CASE k \in {<<m.body.index, m.body.term>> : m \in Installs'}
    BY <1>5, <2>5 DEF SentMarks
  <2> QED BY <2>1, <2>2, <2>3, <2>4, <2>5 DEF SentMarks
<1>8. StoredMarks' \subseteq Shared(n) \cup Marks(st'[n])
  <2> SUFFICES ASSUME NEW k \in StoredMarks', k \notin Marks(st'[n])
               PROVE  k \in Shared(n)
    OBVIOUS
  <2>1. ASSUME NEW p \in Node, snapFile'[p] # Nil, k = FileMark(snapFile'[p])
        PROVE  k \in Shared(n)
    <3>1. CASE p = n
      BY <1>1, <2>1, <3>1, TurnMarks
    <3>2. CASE p # n
      BY <2>1, <3>2, StoredMark DEF NodeTurn, Untouched, Shared
    <3> QED BY <3>1, <3>2
  <2>2. ASSUME NEW e \in decided', k = EntryMark(e)
        PROVE  k \in StoredMarks
    <3>1. e \notin HeldEntries(st'[n])
      BY <2>2 DEF Marks
    <3>2. e \in decided
      BY <1>1, <3>1 DEF Sends
    <3> QED BY <2>2, <3>2 DEF StoredMarks
  <2> QED BY <2>1, <2>2 DEF StoredMarks, FileMark, Shared
<1>9. \A p \in Node \ {n} : st'[p] = st[p] /\ hs'[p] = hs[p]
  BY DEF NodeTurn, Untouched
<1>14. \A l \in Node : Shared(n) \subseteq MarksBut(l)
  BY SharedMarks
<1>10. \A l \in Node : \A k \in MarksBut(l)' :
         \/ k \in MarksBut(l) \cup Marks(st'[n])
         \/ k \in Shared(n)
         \/ l # n /\ k \in Marks(hs'[n])
  <2> SUFFICES ASSUME NEW l \in Node, NEW k \in MarksBut(l)', k \notin Marks(st'[n])
               PROVE  \/ k \in MarksBut(l)
                      \/ k \in Shared(n)
                      \/ l # n /\ k \in Marks(hs'[n])
    OBVIOUS
  <2>1. CASE k \in SentMarks'
    BY <1>7, <2>1 DEF MarksBut
  <2>2. CASE k \in StoredMarks'
    BY <1>8, <2>2 DEF MarksBut
  <2>3. ASSUME NEW p \in Node, k \in Marks(st'[p])
        PROVE  k \in MarksBut(l)
    BY <1>9, <2>3 DEF MarksBut
  <2>4. ASSUME NEW p \in Node \ {l}, k \in Marks(hs'[p])
        PROVE  k \in MarksBut(l) \/ (l # n /\ k \in Marks(hs'[n]))
    BY <1>9, <2>4 DEF MarksBut
  <2> QED BY <2>1, <2>2, <2>3, <2>4 DEF MarksBut
<1> QED BY <1>3, <1>14, <1>10

------------------------------------------------------------------------------
(* What only grows.                                                        *)
LEMMA TurnGrows ==
  ASSUME Known, NEW n \in Node, NodeTurn(n)
  PROVE  /\ elected \subseteq elected' /\ Requests \subseteq Requests' /\ Votes \subseteq Votes'
         /\ decided \subseteq decided' /\ Acks \subseteq Acks' /\ Appends \subseteq Appends'
         /\ Installs' = Installs
         /\ \A t \in snapTasks' \ snapTasks :
              /\ role'[n] = "Leader" /\ t = SnapshotTask(n, t.dst, st'[n])
<1>1. elected \subseteq elected' /\ Requests \subseteq Requests' /\ Votes \subseteq Votes'
  BY ElectsVotes DEF NodeTurn, Known
<1>2. decided \subseteq decided'
  BY DEF NodeTurn, Turn, Rests, Commits, Learns, Adopts, Dies, Returns
<1>3. /\ Acks \subseteq Acks' /\ Appends \subseteq Appends' /\ Installs \subseteq Installs'
  BY DEF NodeTurn, Acks, Appends, Installs
<1>4. Installs' \subseteq Installs
  BY DEF NodeTurn, Sends, Installs
<1> QED BY <1>1, <1>2, <1>3, <1>4 DEF NodeTurn, Sends

LEMMA LeaderTerm ==
  ASSUME Known, MarksOK, NEW l \in Node, role[l] = "Leader"
  PROVE  /\ <<st[l].currentTerm, l>> \in elected
         /\ st[l].currentTerm \in DOMAIN Starts /\ st[l].currentTerm \in Nat
         /\ Starts[st[l].currentTerm].index \in Nat
<1>1. <<st[l].currentTerm, l>> \in elected
  BY DEF Known, LeaderInv, LeadersElected
<1>2. st[l].currentTerm \in DOMAIN Starts
  BY <1>1 DEF Starts, ElectedTerms
<1> QED BY <1>1, <1>2, StartsGood DEF GoodStarts

LEMMA ElectedInStarts ==
  ASSUME NEW c, NEW n, <<c, n>> \in elected
  PROVE  c \in DOMAIN Starts
BY DEF Starts, ElectedTerms

(* The beginnings of terms stay, and all marks are after them.             *)
LEMMA NextStarts ==
  ASSUME Known, Known', SafetyInv, NEW n \in Node, NodeTurn(n)
  PROVE  /\ MarksOK' /\ GoodStarts(Starts) /\ GoodStarts(Starts') /\ Extends(Starts', Starts)
         /\ \A l \in Node : \A k \in MarksBut(l)' \cup Marks(hs'[l]) :
              \/ k \in AllMarks
              \/ PushedLog(n) /\ k = <<LastLogIndex(st[n]) + 1, st[n].currentTerm>>
<1>1. /\ MarksOK /\ LeadersRemember /\ ProgressOK /\ OwnersTrue /\ Turn(n)
  BY DEF SafetyInv, NodeTurn
<1>2. GoodStarts(Starts)
  BY <1>1, StartsGood
<1>3. Extends(Starts', Starts)
  BY TurnGrows, StartsStay
<1>4. \A l \in Node : MarksBut(l) \cup Marks(hs[l]) \subseteq AllMarks
  BY DEF AllMarks
<1>5. Shared(n) \subseteq AllMarks
  BY <1>4, SharedMarks
<1> DEFINE pushed(k) == PushedLog(n) /\ k = <<LastLogIndex(st[n]) + 1, st[n].currentTerm>>
<1>6. \A k \in Marks(st'[n]) \cup Marks(hs'[n]) : k \in AllMarks \/ pushed(k)
  BY <1>1, <1>4, <1>5, TurnMarks
<1>7. ASSUME NEW l \in Node, NEW k \in MarksBut(l)' \cup Marks(hs'[l])
      PROVE  k \in AllMarks \/ pushed(k)
  <2>1. CASE k \in Marks(hs'[l]) /\ l # n
    BY <1>4, <2>1 DEF NodeTurn, Untouched
  <2>2. CASE k \in Marks(hs'[l]) /\ l = n
    BY <1>6, <2>2
  <2>3. CASE k \in MarksBut(l)'
    <3>1. k \in MarksBut(l) \cup Marks(st'[n]) \cup Marks(hs'[n])
      BY <1>1, <2>3, NewMarks
    <3> QED BY <1>4, <1>6, <3>1
  <2> QED BY <2>1, <2>2, <2>3
<1>8. ASSUME NEW k, pushed(k)
      PROVE  MarkOK(Starts, k[1], k[2])
  <2>1. role[n] = "Leader"
    BY <1>8 DEF PushedLog
  <2>2. st[n].currentTerm \in DOMAIN Starts /\ Starts[st[n].currentTerm].index \in Nat
    BY <1>1, <2>1, LeaderTerm
  <2>3. Starts[st[n].currentTerm].index <= LastLogIndex(st[n]) /\ LastLogIndex(st[n]) \in Nat
    BY <1>1, <2>1, NodeStates DEF OwnersTrue
  <2> QED BY <1>8, <2>2, <2>3 DEF MarkOK
<1>9. \A k \in AllMarks : MarkOK(Starts, k[1], k[2])
  BY <1>1 DEF MarksOK
<1>10. \A k \in AllMarks' : MarkOK(Starts, k[1], k[2])
  BY <1>7, <1>8, <1>9 DEF AllMarks
<1>11. MarksOK'
  BY <1>2, <1>3, <1>10, MoreTerms DEF MarksOK
<1>12. GoodStarts(Starts')
  <2>1. Known /\ MarksOK => GoodStarts(Starts)
    BY StartsGood
  <2>2. (Known /\ MarksOK => GoodStarts(Starts))'
    BY StartsGood, PTL
  <2> QED BY <1>11, <2>2
<1> QED BY <1>2, <1>3, <1>7, <1>11, <1>12

------------------------------------------------------------------------------
(* Two states with one log.                                                *)
LEMMA SameLogs ==
  ASSUME NEW s, NEW t, SameLog(s, t)
  PROVE  /\ HeldEntries(s) = HeldEntries(t) /\ Marks(s) = Marks(t) /\ Base(s) = Base(t)
         /\ LastLogIndex(s) = LastLogIndex(t) /\ LastLogTerm(s) = LastLogTerm(t)
         /\ s.lastIncludedIndex = t.lastIncludedIndex /\ s.lastIncludedTerm = t.lastIncludedTerm
         /\ Held(s) = Held(t) /\ Terms(s) = Terms(t) /\ Full(s) = Full(t)
         /\ \A i : EntryAt(s, i) = EntryAt(t, i) /\ GetLogTerm(s, i) = GetLogTerm(t, i)
                   /\ (InMemory(s, i) <=> InMemory(t, i))
         /\ \A k : AtLeast(s, k) <=> AtLeast(t, k)
<1>1. s.log = t.log /\ s.lastIncludedIndex = t.lastIncludedIndex
      /\ s.lastIncludedTerm = t.lastIncludedTerm
  BY DEF SameLog
<1>2. HeldEntries(s) = HeldEntries(t) /\ Base(s) = Base(t)
  BY <1>1 DEF HeldEntries, Base
<1>3. LastLogIndex(s) = LastLogIndex(t) /\ LastLogTerm(s) = LastLogTerm(t)
  BY <1>1 DEF LastLogIndex, LastLogTerm
<1>4. \A i : EntryAt(s, i) = EntryAt(t, i) /\ (InMemory(s, i) <=> InMemory(t, i))
  BY <1>1, <1>3 DEF EntryAt, InMemory
<1>5. \A i : GetLogTerm(s, i) = GetLogTerm(t, i)
  BY <1>1, <1>4 DEF GetLogTerm
<1>6. Held(s) = Held(t)
  BY <1>1, <1>3 DEF Held
<1>7. Terms(s) = Terms(t) /\ Full(s) = Full(t)
  BY <1>1, <1>3, <1>4, <1>5, <1>6 DEF Terms, Full
<1>8. \A k : AtLeast(s, k) <=> AtLeast(t, k)
  BY <1>3 DEF AtLeast
<1> QED BY <1>1, <1>2, <1>3, <1>4, <1>5, <1>6, <1>7, <1>8 DEF Marks

(* A term begins with what its winner's log ends with.                     *)
LEMMA NewLeaderStart ==
  ASSUME Known, Known', NEW n \in Node, NodeTurn(n),
         <<st'[n].currentTerm, n>> \in elected', <<st'[n].currentTerm, n>> \notin elected
  PROVE  Starts'[st'[n].currentTerm]
           = [index |-> LastLogIndex(st'[n]), term |-> LastLogTerm(st'[n])]
<1>1. PICK s \in HardState : s = st'[n]
  BY NodeStatesNext
<1>2. PICK T : T = s.currentTerm
  OBVIOUS
<1>3. TrueStarts'
  BY StartsTrue, PTL
<1>4. \A m \in RequestsOf(T, n)' : Starts'[T] = [index |-> m.lastLogIndex, term |-> m.lastLogTerm]
  <2>1. <<T, n>> \in elected'
    BY <1>1, <1>2
  <2> QED BY <1>3, <2>1 DEF TrueStarts
<1>5. CASE Campaigned(n)
  <2>1. RequestVote(n, s) \in Requests'
    BY <1>1, <1>5 DEF Campaigned
  <2>2. PICK m : m = RequestVote(n, s)
    OBVIOUS
  <2>3. m \in RequestsOf(T, n)' /\ m.lastLogIndex = LastLogIndex(s) /\ m.lastLogTerm = LastLogTerm(s)
    BY <1>2, <2>1, <2>2 DEF RequestVote, RequestsOf
  <2> QED BY <1>1, <1>2, <1>4, <2>3
<1>6. CASE Won(n)
  <2>1. s = st[n] /\ ballot[n].open /\ Requests' = Requests
    BY <1>1, <1>6 DEF Won
  <2>2. /\ RequestsOf(T, n) # {}
        /\ \A m \in RequestsOf(T, n) :
             m.lastLogIndex = LastLogIndex(s) /\ m.lastLogTerm = LastLogTerm(s)
    BY <1>2, <2>1 DEF Known, LogInv, RequestsTrue
  <2>3. PICK m : m \in RequestsOf(T, n)
    BY <2>2
  <2>4. m \in RequestsOf(T, n)'
    BY <2>1, <2>3 DEF RequestsOf
  <2> QED BY <1>1, <1>2, <1>4, <2>2, <2>3, <2>4
<1>7. ~NoElection(n)
  BY DEF NoElection
<1> QED BY <1>5, <1>6, <1>7 DEF NodeTurn, Elects

(* How one comes to lead, or goes on leading.                              *)
BeginsToLead(n) ==
  /\ <<st'[n].currentTerm, n>> \notin elected /\ <<st'[n].currentTerm, n>> \in elected'
  /\ SameLog(st'[n], st[n])
  /\ \A p \in Node \ {n} : nextIndex'[n][p] = LastLogIndex(st'[n]) + 1 /\ matchIndex'[n][p] = 0

LeadsOn(n) ==
  /\ role[n] = "Leader" /\ elected' = elected /\ st'[n].currentTerm = st[n].currentTerm
  /\ \/ SameLog(st'[n], st[n])
     \/ PushedLog(n) /\ st'[n] = hs'[n]
     \/ /\ st'[n] = CompactTo(st[n], lastApplied[n]) /\ InMemory(st[n], lastApplied[n])
        /\ lastApplied[n] > st[n].lastIncludedIndex

LEMMA CompactTerm ==
  ASSUME NEW s, NEW i
  PROVE  CompactTo(s, i).currentTerm = s.currentTerm
BY DEF CompactTo, StartAt

LEMMA LeaderTurn ==
  ASSUME Known, Known', ProgressOK, NEW n \in Node, NodeTurn(n), role'[n] = "Leader"
  PROVE  /\ up[n] /\ up'[n]
         /\ BeginsToLead(n) \/ LeadsOn(n)
<1>1. up'[n]
  BY DEF Known, LeaderInv, DownIsFollower
<1>2. ~Dies(n) /\ ~Learns(n) /\ ~Adopts(n) /\ ~\E m \in Appends : MergedBy(n, m)
  BY DEF Dies, Learns, Adopts, MergedBy, InstalledBy
<1>3. ~Returns(n)
  BY DEF Returns, Known, LeaderInv, DownIsFollower
<1>4. (Rests(n) \/ Commits(n)) /\ (Kept(n) \/ PushedLog(n) \/ (up[n] /\ Compacted(n)))
  BY <1>2, <1>3 DEF NodeTurn, Turn
<1>5. up[n]
  BY <1>1, <1>4 DEF Rests, Commits, Applies
<1>6. InMemory(st[n], lastApplied[n])
  BY <1>5, AppliedInMemory
<1>7. \/ SameLog(st'[n], st[n])
      \/ PushedLog(n) /\ st'[n] = hs'[n] /\ role[n] = "Leader" /\ st'[n].currentTerm = st[n].currentTerm
      \/ /\ st'[n] = CompactTo(st[n], lastApplied[n]) /\ lastApplied[n] > st[n].lastIncludedIndex
         /\ role[n] = "Leader" /\ st'[n].currentTerm = st[n].currentTerm
  <2>1. CASE Kept(n)
    BY <2>1 DEF Kept
  <2>2. CASE PushedLog(n)
    <3>1. CASE st'[n] = st[n]
      BY <3>1 DEF SameLog
    <3>2. ASSUME NEW v \in Value, st'[n] = PushEntry(st[n], v)
          PROVE  st'[n].currentTerm = st[n].currentTerm
      BY <3>2 DEF PushEntry
    <3> QED BY <2>2, <3>1, <3>2 DEF PushedLog
  <2>3. CASE Compacted(n)
    BY <1>6, <2>3, CompactTerm DEF Compacted
  <2> QED BY <1>4, <2>1, <2>2, <2>3
<1>8. role[n] = "Leader" => <<st[n].currentTerm, n>> \in elected
  BY DEF Known, LeaderInv, LeadersElected
<1>9. Tracks(n)
  BY DEF NodeTurn
<1>10. CASE <<st'[n].currentTerm, n>> \notin elected
  <2>1. SameLog(st'[n], st[n])
    BY <1>7, <1>8, <1>10
  <2> QED BY <1>1, <1>5, <1>8, <1>9, <1>10, <2>1 DEF Tracks, BeginsToLead
<1>11. CASE <<st'[n].currentTerm, n>> \in elected
  BY <1>1, <1>5, <1>6, <1>7, <1>9, <1>11 DEF Tracks, LeadsOn
<1> QED BY <1>10, <1>11

------------------------------------------------------------------------------
(* What a leader knows.                                                    *)

LEMMA OnlyLeader ==
  ASSUME Known, Known', NEW n \in Node, NodeTurn(n), NEW c, NEW p, NEW q,
         <<c, p>> \in elected \cup elected', <<c, q>> \in elected \cup elected'
  PROVE  p = q
<1>1. elected \subseteq elected' /\ ElectionSafety'
  BY TurnGrows DEF Known
<1>2. <<c, p>> \in elected' /\ <<c, q>> \in elected'
  BY <1>1
<1> QED BY <1>1, <1>2 DEF ElectionSafety

(* What is sent or acknowledged now.                                       *)
LEMMA NewAck ==
  ASSUME Known, NEW n \in Node, NodeTurn(n), NEW r \in Acks', r \notin Acks
  PROVE  /\ r.src = n /\ role'[n] = "Follower" /\ st'[n] = hs'[n]
         /\ r.term = st'[n].currentTerm
         /\ \/ \E m \in Appends : /\ MergedBy(n, m) /\ r.term = m.term
                                  /\ r.lastLogIndex = End(m)
            \/ \E m \in Installs : /\ InstalledBy(n, m) /\ r.term = m.term
                                   /\ r.lastLogIndex = m.index
BY DEF NodeTurn, Acknowledges, MergedBy, InstalledBy

LEMMA NewTask ==
  ASSUME Known, Known', NEW n \in Node, NodeTurn(n), NEW t \in snapTasks', t \notin snapTasks
  PROVE  /\ role'[n] = "Leader" /\ t.src = n /\ t.dst \in Node \ {n}
         /\ t.term = st'[n].currentTerm
         /\ t.index = st'[n].lastIncludedIndex /\ t.snapTerm = st'[n].lastIncludedTerm
         /\ nextIndex'[n][t.dst] <= st'[n].lastIncludedIndex
<1>1. PICK s, d : s = st'[n] /\ d = t.dst
  OBVIOUS
<1>2. /\ role'[n] = "Leader" /\ d \in Node \ {n} /\ t = SnapshotTask(n, d, s)
      /\ nextIndex'[n][d] <= s.lastIncludedIndex
  BY <1>1 DEF NodeTurn, Sends
<1> QED BY <1>1, <1>2 DEF SnapshotTask

LEMMA NewAppendOfLeader ==
  ASSUME Known, Known', LeadersRemember, NEW n \in Node, NodeTurn(n), NEW l \in Node,
         NEW c, <<c, l>> \in elected',
         NEW m \in Appends', m \notin Appends, m.term = c
  PROVE  l = n
<1>1. m.src = n /\ m.term = st'[n].currentTerm /\ role'[n] = "Leader"
  BY NewAppendFields
<1>2. <<c, n>> \in elected'
  BY <1>1 DEF Known, LeaderInv, LeadersElected
<1> QED BY <1>2, OnlyLeader

LEMMA OldSenders ==
  ASSUME Known
  PROVE  /\ \A m \in Appends \cup Installs \cup snapTasks : <<m.term, m.src>> \in elected /\ m.dst # m.src
         /\ \A r \in Acks : <<r.term, r.dst>> \in elected /\ r.dst # r.src
BY DEF Known, LeaderInv, SentByElected

LEMMA NewSenders ==
  ASSUME Known'
  PROVE  /\ \A m \in (Appends \cup Installs \cup snapTasks)' :
              <<m.term, m.src>> \in elected' /\ m.dst # m.src
         /\ \A r \in Acks' : <<r.term, r.dst>> \in elected' /\ r.dst # r.src
         /\ \A l \in Node : role'[l] = "Leader" => <<st'[l].currentTerm, l>> \in elected'
BY DEF Known, LeaderInv, SentByElected, LeadersElected

(* A new leader's term was nobody's before.                                *)
LEMMA NothingOfTerm ==
  ASSUME Known, Known', NEW n \in Node, NodeTurn(n), NEW T,
         <<T, n>> \in elected', <<T, n>> \notin elected
  PROVE  /\ \A m \in Appends \cup Installs \cup snapTasks : m.term # T
         /\ \A r \in Acks : r.term # T
         /\ T \notin ElectedTerms
<1>1. \A p : <<T, p>> \notin elected
  BY OnlyLeader
<1>2. T \notin ElectedTerms
  <2> SUFFICES ASSUME NEW e \in elected, e[1] = T
               PROVE  FALSE
    BY DEF ElectedTerms
  <2>1. e = <<e[1], e[2]>>
    BY DEF Known, TypeOK, HistoryType
  <2> QED BY <1>1, <2>1
<1> QED BY <1>1, <1>2, OldSenders

(* The reach of a leader's log.                                            *)
LEMMA LeadersReach ==
  ASSUME Known, Known', SafetyInv, NEW n \in Node, NodeTurn(n), NEW l \in Node, role'[l] = "Leader"
  PROVE  /\ \A m \in Appends' : m.term = st'[l].currentTerm => End(m) <= LastLogIndex(st'[l])
         /\ \A m \in (Installs \cup snapTasks)' :
              m.term = st'[l].currentTerm => m.index <= LastLogIndex(st'[l])
         /\ \A r \in Acks' : r.term = st'[l].currentTerm => r.lastLogIndex <= LastLogIndex(st'[l])
<1>1. LeadersRemember /\ ProgressOK
  BY DEF SafetyInv
<1>2. Installs' = Installs /\ elected \subseteq elected'
  BY TurnGrows
<1>3. PICK T : T = st'[l].currentTerm
  OBVIOUS
<1>4. <<T, l>> \in elected'
  BY <1>3, NewSenders
<1>5. PICK L : L = LastLogIndex(st'[l])
  OBVIOUS
<1>6. ASSUME NEW r \in Acks', r \notin Acks, r.term = T
      PROVE  /\ l # n
             /\ \/ \E m \in Appends : r.term = m.term /\ r.lastLogIndex = End(m)
                \/ \E m \in Installs : r.term = m.term /\ r.lastLogIndex = m.index
  <2>1. r.src = n /\ <<r.term, r.dst>> \in elected' /\ r.dst # r.src
    BY <1>6, NewAck, NewSenders
  <2>2. r.dst = l
    BY <1>4, <1>6, <2>1, OnlyLeader
  <2> QED BY <1>6, <2>1, <2>2, NewAck
<1>7. CASE l # n
  <2>1. st'[l] = st[l] /\ role[l] = "Leader"
    BY <1>7 DEF NodeTurn, Untouched
  <2>2. /\ \A m \in Appends : m.term = T => End(m) <= L
        /\ \A m \in Installs \cup snapTasks : m.term = T => m.index <= L
        /\ \A r \in Acks : r.term = T => r.lastLogIndex <= L
    BY <1>1, <1>3, <1>5, <2>1 DEF LeadersRemember
  <2>3. \A m \in Appends' : m.term = T => m \in Appends
    BY <1>1, <1>4, <1>7, NewAppendOfLeader
  <2>4. \A t \in snapTasks' : t.term = T => t \in snapTasks
    <3> SUFFICES ASSUME NEW t \in snapTasks', t.term = T, t \notin snapTasks
                 PROVE  FALSE
      OBVIOUS
    <3>1. t.src = n
      BY NewTask
    <3>2. <<t.term, n>> \in elected'
      BY <3>1, NewSenders
    <3> QED BY <1>4, <1>7, <3>2, OnlyLeader
  <2>5. \A r \in Acks' : r.term = T => r.lastLogIndex <= L
    BY <1>6, <2>2
  <2> QED BY <1>2, <1>3, <1>5, <2>2, <2>3, <2>4, <2>5
<1>8. CASE l = n
  <2>1. \A m \in Appends' : m \in Appends \/ End(m) = L
    BY <1>1, <1>5, <1>8, NewAppendFields
  <2>2. \A t \in snapTasks' : t \in snapTasks \/ t.index <= L
    <3> SUFFICES ASSUME NEW t \in snapTasks', t \notin snapTasks
                 PROVE  t.index <= L
      OBVIOUS
    <3>1. t.index = st'[n].lastIncludedIndex
      BY NewTask
    <3> QED BY <1>5, <1>8, <3>1, NodeStatesNext
  <2>3. \A r \in Acks' : r.term = T => r \in Acks
    BY <1>6, <1>8
  <2>4. L \in Nat /\ \A m \in Appends' : End(m) \in Nat
    <3>1. L \in Nat
      BY <1>5, <1>8, NodeStatesNext
    <3>2. TypeOK' /\ LogsOK'
      BY DEF Known, LogInv
    <3>3. ASSUME NEW m \in Appends' PROVE End(m) \in Nat
      <4>1. m \in AppendEntriesType
        BY <3>2, <3>3, MessageKinds DEF TypeOK, NetworkType, Appends
      <4>2. m.prevIndex \in Nat /\ m.entries \in Seq(LogEntry)
        BY <4>1 DEF AppendEntriesType
      <4> QED BY <4>2 DEF End
    <3> QED BY <3>1, <3>3
  <2>5. CASE BeginsToLead(n)
    <3>1. <<T, n>> \in elected' /\ <<T, n>> \notin elected
      BY <1>3, <1>8, <2>5 DEF BeginsToLead
    <3>2. /\ \A m \in Appends \cup Installs \cup snapTasks : m.term # T
          /\ \A r \in Acks : r.term # T
      BY <3>1, NothingOfTerm
    <3> QED BY <1>2, <1>3, <1>5, <2>1, <2>2, <2>3, <2>4, <3>2
  <2>6. CASE LeadsOn(n)
    <3>1. role[n] = "Leader" /\ T = st[n].currentTerm
      BY <1>3, <1>8, <2>6 DEF LeadsOn
    <3>2. LastLogIndex(st[n]) <= L
      <4>1. <<T, n>> \in elected
        BY <3>1 DEF Known, LeaderInv, LeadersElected
      <4> QED BY <1>3, <1>5, <1>8, <4>1 DEF NodeTurn, GoesOn
    <3>3. PICK K : K = LastLogIndex(st[n])
      OBVIOUS
    <3>4. K \in Nat /\ K <= L
      BY <3>2, <3>3, NodeStates
    <3>5. /\ \A m \in Appends : m.term = T => End(m) <= K
          /\ \A m \in Installs \cup snapTasks : m.term = T => m.index <= K
          /\ \A r \in Acks : r.term = T => r.lastLogIndex <= K
      BY <1>1, <3>1, <3>3 DEF LeadersRemember
    <3>6. \A m \in Appends' : m.term = T => End(m) <= L
      BY <2>1, <2>4, <3>4, <3>5
    <3>7. \A m \in Installs \cup snapTasks : m.index \in Nat
      <4>1. \A m \in Installs : m.index \in Nat
        BY InstallFields DEF Known, LogInv
      <4>2. \A m \in snapTasks : m.index \in Nat
        BY DEF Known, TypeOK, NetworkType, TaskType
      <4> QED BY <4>1, <4>2
    <3>8. \A m \in (Installs \cup snapTasks)' : m.term = T => m.index <= L
      BY <1>2, <2>2, <2>4, <3>4, <3>5, <3>7
    <3>9. \A r \in Acks' : r.term = T => r.lastLogIndex <= L
      <4>1. \A r \in Acks : r.lastLogIndex \in Nat
        BY AckFields DEF Known
      <4> QED BY <2>3, <2>4, <3>4, <3>5, <4>1
    <3> QED BY <1>3, <1>5, <3>6, <3>8, <3>9
  <2> QED BY <1>1, <1>8, <2>5, <2>6, LeaderTurn
<1> QED BY <1>7, <1>8

AckedNext(p, term, index) ==
  \E r \in Acks' : r.src = p /\ r.term = term /\ r.lastLogIndex >= index

(* What a leader knows of its peers.                                       *)
LEMMA LeadersKnow ==
  ASSUME Known, Known', SafetyInv, NEW n \in Node, NodeTurn(n), NEW l \in Node, role'[l] = "Leader",
         NEW p \in Node \ {l}
  PROVE  /\ nextIndex'[l][p] \in 1 .. LastLogIndex(st'[l]) + 1
         /\ \/ nextIndex'[l][p] - 1 <= Starts'[st'[l].currentTerm].index
            \/ AckedNext(p, st'[l].currentTerm, nextIndex'[l][p] - 1)
         /\ matchIndex'[l][p] = 0 \/ AckedNext(p, st'[l].currentTerm, matchIndex'[l][p])
<1>1. LeadersRemember /\ ProgressOK /\ MarksOK /\ Extends(Starts', Starts) /\ Acks \subseteq Acks'
  BY NextStarts, TurnGrows DEF SafetyInv
<1>2. \A c, i : AckedBy(p, c, i) => AckedNext(p, c, i)
  BY <1>1 DEF AckedBy, AckedNext
<1>3. ASSUME role[l] = "Leader"
      PROVE  /\ st[l].currentTerm \in Nat
             /\ Starts[st[l].currentTerm].index \in Nat
             /\ Starts'[st[l].currentTerm].index = Starts[st[l].currentTerm].index
             /\ nextIndex[l][p] \in 1 .. LastLogIndex(st[l]) + 1
             /\ \/ nextIndex[l][p] - 1 <= Starts[st[l].currentTerm].index
                \/ AckedBy(p, st[l].currentTerm, nextIndex[l][p] - 1)
             /\ matchIndex[l][p] = 0 \/ AckedBy(p, st[l].currentTerm, matchIndex[l][p])
  <2>1. /\ st[l].currentTerm \in DOMAIN Starts /\ st[l].currentTerm \in Nat
        /\ Starts[st[l].currentTerm].index \in Nat
    BY <1>1, <1>3, LeaderTerm
  <2> QED BY <1>1, <1>3, <2>1 DEF LeadersRemember, Extends
<1>4. CASE l # n
  <2>1. /\ role[l] = "Leader" /\ st'[l] = st[l]
        /\ nextIndex'[l] = nextIndex[l] /\ matchIndex'[l] = matchIndex[l]
    BY <1>4 DEF NodeTurn, Untouched
  <2> QED BY <1>2, <1>3, <2>1
<1>5. CASE l = n /\ BeginsToLead(n)
  <2>1. Starts'[st'[n].currentTerm].index = LastLogIndex(st'[n])
    <3>1. Starts'[st'[n].currentTerm]
            = [index |-> LastLogIndex(st'[n]), term |-> LastLogTerm(st'[n])]
      BY <1>5, NewLeaderStart DEF BeginsToLead
    <3> QED BY <3>1
  <2>2. nextIndex'[n][p] = LastLogIndex(st'[n]) + 1 /\ matchIndex'[n][p] = 0
    BY <1>5 DEF BeginsToLead
  <2>3. LastLogIndex(st'[n]) \in Nat
    BY NodeStatesNext
  <2> QED BY <1>5, <2>1, <2>2, <2>3
<1>6. CASE l = n /\ LeadsOn(n)
  <2>1. PICK T : T = st[n].currentTerm
    OBVIOUS
  <2>2. role[n] = "Leader" /\ st'[n].currentTerm = T
    BY <1>6, <2>1 DEF LeadsOn
  <2>3. nextIndex'[l][p] \in 1 .. LastLogIndex(st'[l]) + 1
    BY <1>1, <1>6, NextInLog
  <2>4. PICK B : B = Starts[T].index
    OBVIOUS
  <2>5. /\ B \in Nat /\ Starts'[T].index = B
        /\ nextIndex[n][p] \in Nat /\ nextIndex[n][p] >= 1
        /\ nextIndex[n][p] - 1 <= B \/ AckedBy(p, T, nextIndex[n][p] - 1)
        /\ matchIndex[n][p] = 0 \/ AckedBy(p, T, matchIndex[n][p])
    BY <1>3, <1>6, <2>1, <2>2, <2>4, NodeStates
  <2>6. <<T, n>> \in elected
    BY <2>1, <2>2 DEF Known, LeaderInv, LeadersElected
  <2>7. \/ nextIndex'[n][p] = nextIndex[n][p] /\ matchIndex'[n][p] = matchIndex[n][p]
        \/ /\ nextIndex'[n][p] = StepBack(nextIndex[n][p])
           /\ matchIndex'[n][p] = matchIndex[n][p]
        \/ \E r \in Acks :
             /\ r.src = p /\ r.term = T
             /\ nextIndex'[n][p] = r.lastLogIndex + 1 /\ matchIndex'[n][p] = r.lastLogIndex
    BY <1>6, <2>1, <2>2, <2>6 DEF NodeTurn, Tracks
  <2>8. \/ nextIndex'[n][p] - 1 <= B \/ AckedBy(p, T, nextIndex'[n][p] - 1)
    <3>1. CASE nextIndex'[n][p] = nextIndex[n][p]
      BY <2>5, <3>1
    <3>2. CASE nextIndex'[n][p] = StepBack(nextIndex[n][p])
      <4>1. PICK x \in Nat : x = nextIndex[n][p] /\ x >= 1
        BY <2>5
      <4>2. PICK y \in Nat : y = StepBack(x) /\ y >= 1 /\ y <= x
        BY <4>1 DEF StepBack
      <4>3. AckedBy(p, T, x - 1) => AckedBy(p, T, y - 1)
        <5> SUFFICES ASSUME NEW r \in Acks, r.src = p, r.term = T, r.lastLogIndex >= x - 1
                     PROVE  AckedBy(p, T, y - 1)
          BY DEF AckedBy
        <5>1. r.lastLogIndex \in Nat
          BY AckFields DEF Known
        <5> QED BY <4>1, <4>2, <5>1 DEF AckedBy
      <4>4. x - 1 <= B => y - 1 <= B
        BY <2>5, <4>1, <4>2
      <4> QED BY <2>5, <3>2, <4>1, <4>2, <4>3, <4>4
    <3>3. ASSUME NEW r \in Acks, r.src = p, r.term = T, nextIndex'[n][p] = r.lastLogIndex + 1
          PROVE  AckedBy(p, T, nextIndex'[n][p] - 1)
      <4>1. r.lastLogIndex \in Nat
        BY AckFields DEF Known
      <4> QED BY <3>3, <4>1 DEF AckedBy
    <3> QED BY <2>7, <3>1, <3>2, <3>3
  <2>9. matchIndex'[n][p] = 0 \/ AckedBy(p, T, matchIndex'[n][p])
    <3>1. ASSUME NEW r \in Acks, r.src = p, r.term = T, matchIndex'[n][p] = r.lastLogIndex
          PROVE  AckedBy(p, T, matchIndex'[n][p])
      <4>1. r.lastLogIndex \in Nat
        BY AckFields DEF Known
      <4> QED BY <3>1, <4>1 DEF AckedBy
    <3> QED BY <2>5, <2>7, <3>1
  <2>10. AckedBy(p, T, nextIndex'[n][p] - 1) => AckedNext(p, T, nextIndex'[n][p] - 1)
    <3>1. PICK i : i = nextIndex'[n][p] - 1
      OBVIOUS
    <3> QED BY <1>2, <3>1
  <2>11. AckedBy(p, T, matchIndex'[n][p]) => AckedNext(p, T, matchIndex'[n][p])
    <3>1. PICK i : i = matchIndex'[n][p]
      OBVIOUS
    <3> QED BY <1>2, <3>1
  <2> QED BY <1>6, <2>2, <2>3, <2>5, <2>8, <2>9, <2>10, <2>11
<1> QED BY <1>1, <1>4, <1>5, <1>6, LeaderTurn

LEMMA KeepsRemembering ==
  ASSUME Known, Known', SafetyInv, NEW n \in Node, NodeTurn(n)
  PROVE  LeadersRemember'
<1>1. LeadersRemember /\ MarksOK /\ Extends(Starts', Starts) /\ Acks \subseteq Acks'
  BY NextStarts, TurnGrows DEF SafetyInv
<1>2. ASSUME NEW l \in Node, role'[l] = "Leader"
      PROVE  /\ \A m \in Appends' : m.term = st'[l].currentTerm => End(m) <= LastLogIndex(st'[l])
             /\ \A m \in (Installs \cup snapTasks)' :
                  m.term = st'[l].currentTerm => m.index <= LastLogIndex(st'[l])
             /\ \A r \in Acks' :
                  r.term = st'[l].currentTerm => r.lastLogIndex <= LastLogIndex(st'[l])
  BY <1>2, LeadersReach
<1>3. ASSUME NEW m \in Appends'
      PROVE  m.prevIndex <= Starts'[m.term].index \/ AckedNext(m.dst, m.term, m.prevIndex)
  <2>1. CASE m \in Appends
    <3>1. m.prevIndex <= Starts[m.term].index \/ AckedBy(m.dst, m.term, m.prevIndex)
      BY <1>1, <2>1 DEF LeadersRemember
    <3>2. m.term \in DOMAIN Starts
      BY <2>1, OldSenders, ElectedInStarts
    <3> QED BY <1>1, <3>1, <3>2 DEF Extends, AckedBy, AckedNext
  <2>2. CASE m \notin Appends
    <3>1. /\ role'[n] = "Leader" /\ m.dst \in Node \ {n} /\ m.term = st'[n].currentTerm
          /\ m.prevIndex + 1 = nextIndex'[n][m.dst] /\ m.prevIndex \in Nat
      BY <1>1, <2>2, NewAppendFields
    <3>2. PICK p, T, i : p = m.dst /\ T = st'[n].currentTerm /\ i = nextIndex'[n][p] - 1
      OBVIOUS
    <3>3. i <= Starts'[T].index \/ AckedNext(p, T, i)
      <4>1. \/ nextIndex'[n][p] - 1 <= Starts'[st'[n].currentTerm].index
            \/ AckedNext(p, st'[n].currentTerm, nextIndex'[n][p] - 1)
        BY <3>1, <3>2, LeadersKnow
      <4> QED BY <3>2, <4>1
    <3>4. i = m.prevIndex
      BY <3>1, <3>2
    <3> QED BY <3>1, <3>2, <3>3, <3>4
  <2> QED BY <2>1, <2>2
<1> QED BY <1>2, <1>3, LeadersKnow DEF LeadersRemember, AckedBy, AckedNext

------------------------------------------------------------------------------
(* A log after the merge of a request's entries.                           *)

Merged(s, m) == WithEntries(s, m.prevIndex, m.entries)

LEMMA MergedFacts ==
  ASSUME TypeOK, LogsOK, NEW m \in Appends, NEW s \in HardState, LogOK(s),
         AppendConsistent(s, m.prevIndex, m.prevTerm), NEW w, w = Merged(s, m)
  PROVE  /\ w \in HardState /\ LogOK(w) /\ Base(w) = Base(s) /\ w.currentTerm = s.currentTerm
         /\ w.lastIncludedIndex = s.lastIncludedIndex /\ w.lastIncludedTerm = s.lastIncludedTerm
         /\ m.prevIndex >= s.lastIncludedIndex /\ m.prevIndex <= LastLogIndex(s)
         /\ End(m) <= LastLogIndex(w)
         /\ \A j \in m.prevIndex .. End(m) : GetLogTerm(w, j) = AppendTerms(m)[j]
         /\ \/ w = s
            \/ /\ LastLogIndex(w) = End(m) /\ End(m) > m.prevIndex
               /\ \A i \in Held(w) : i <= m.prevIndex =>
                    i \in Held(s) /\ EntryAt(w, i) = EntryAt(s, i)
         /\ HeldEntries(w) \subseteq HeldEntries(s) \cup {m.entries[k] : k \in 1 .. Len(m.entries)}
         /\ (\A j \in m.prevIndex + 1 .. End(m) :
               j \in Held(s) /\ EntryAt(s, j).term = AppendTerms(m)[j]) => w = s
<1>0. PICK p, es, b, base, n : p = m.prevIndex /\ es = m.entries /\ b = s.lastIncludedIndex
                               /\ base = p - b + 1 /\ n = Len(es)
  OBVIOUS
<1>1. /\ p \in Nat /\ m.prevTerm \in Nat /\ es \in Seq(LogEntry) /\ n \in Nat
      /\ End(m) = p + n /\ End(m) \in Nat
      /\ AppendTerms(m)[p] = m.prevTerm
      /\ \A k \in 1 .. n : AppendTerms(m)[p + k] = es[k].term
      /\ \A k \in 1 .. n : es[k].index = p + k
  BY <1>0, AppendLine
<1>2. InMemory(s, p) /\ GetLogTerm(s, p) = m.prevTerm
  BY <1>0 DEF AppendConsistent
<1>3. /\ w = WithEntries(s, p, es)
      /\ w \in HardState /\ w.currentTerm = s.currentTerm
      /\ w.lastIncludedIndex = b /\ w.lastIncludedTerm = s.lastIncludedTerm
  <2>1. w = WithEntries(s, p, es)
    BY <1>0 DEF Merged
  <2>2. /\ w.lastIncludedIndex = b /\ w.lastIncludedTerm = s.lastIncludedTerm
    <3>1. s = [s EXCEPT !.log = s.log]
      BY DEF HardState
    <3> QED BY <1>0, <2>1 DEF WithEntries, HardState
  <2> QED BY <1>1, <1>2, <2>1, <2>2, WithEntriesType
<1>4. /\ LogOK(w) /\ Base(w) = Base(s)
      /\ HeldEntries(w) \subseteq HeldEntries(s) \cup {es[k] : k \in 1 .. Len(es)}
  <2>1. \A k \in 1 .. Len(es) : es[k].index = p + k
    BY <1>0, <1>1
  <2>2. LogOK(WithEntries(s, p, es))
    BY <1>1, <1>2, <2>1, MergedLogOK
  <2>3. Base(WithEntries(s, p, es)) = Base(s)
    BY <1>1, <1>2, <2>1, MergedLogOK
  <2>4. HeldEntries(WithEntries(s, p, es)) \subseteq HeldEntries(s) \cup {es[k] : k \in 1 .. Len(es)}
    BY <1>1, <1>2, <2>1, MergedLogOK
  <2> QED BY <1>3, <2>2, <2>3, <2>4
<1>5. /\ b \in Nat /\ Len(s.log) \in Nat /\ Len(s.log) >= 1 /\ LastLogIndex(s) = b + Len(s.log) - 1
      /\ Len(w.log) \in Nat /\ LastLogIndex(w) = b + Len(w.log) - 1
      /\ p >= b /\ p <= LastLogIndex(s) /\ base \in Nat /\ base >= 1 /\ base <= Len(s.log)
      /\ base = p - b + 1 /\ s.lastIncludedIndex = b /\ w.lastIncludedIndex = b
  <2>1. b \in Nat /\ Len(s.log) \in Nat /\ Len(s.log) >= 1 /\ Len(w.log) \in Nat
    BY <1>0, <1>3, HardStateFields
  <2>2. LastLogIndex(s) = b + Len(s.log) - 1 /\ LastLogIndex(w) = b + Len(w.log) - 1
    BY <1>0, <1>3 DEF LastLogIndex
  <2>3. p >= b /\ p <= LastLogIndex(s)
    BY <1>0, <1>1, <1>2, <2>1, <2>2 DEF InMemory
  <2>4. s.lastIncludedIndex = b /\ w.lastIncludedIndex = b /\ base = p - b + 1
    BY <1>0, <1>3
  <2>5. base \in Nat /\ base >= 1 /\ base <= Len(s.log)
    BY <1>1, <2>1, <2>2, <2>3, <2>4, SMTT(30)
  <2> QED BY <2>1, <2>2, <2>3, <2>4, <2>5
<1> DEFINE held == \A k \in 1 .. n : base + k <= Len(s.log) /\ s.log[base + k].term = es[k].term
<1>6. /\ held => w = s
      /\ ~held => /\ Len(w.log) = base + n
                  /\ \A i \in 1 .. base : w.log[i] = s.log[i]
                  /\ \A k \in 1 .. n : w.log[base + k].term = es[k].term
  <2> DEFINE x == WithEntries(s, p, es)
  <2>1. b = s.lastIncludedIndex /\ base = p - s.lastIncludedIndex + 1 /\ n = Len(es)
    BY <1>0
  <2>2. held => x = s
    BY <1>1, <1>2, <2>1, MergedLog
  <2>3. ~held => /\ Len(x.log) = base + n
                 /\ \A i \in 1 .. base : x.log[i] = s.log[i]
                 /\ \A k \in 1 .. n : x.log[base + k].term = es[k].term
    BY <1>1, <1>2, <2>1, MergedLog
  <2> QED BY <1>3, <2>2, <2>3
<1>20. \/ held
       \/ ~held
  OBVIOUS
<1> HIDE DEF held
<1>7. End(m) <= LastLogIndex(w)
  <2>1. CASE held /\ n = 0
    BY <1>1, <1>5, <1>6, <2>1
  <2>2. CASE held /\ n > 0
    <3>1. base + n <= Len(s.log)
      BY <1>1, <2>2 DEF held
    <3> QED BY <1>1, <1>5, <1>6, <2>2, <3>1
  <2>3. CASE ~held
    BY <1>1, <1>5, <1>6, <2>3
  <2> QED BY <1>1, <2>1, <2>2, <2>3
<1>8. ASSUME NEW k \in 1 .. n
      PROVE  GetLogTerm(w, p + k) = es[k].term
  <2>1. w.log[base + k].term = es[k].term
    BY <1>6 DEF held
  <2>2. p + k # b /\ InMemory(w, p + k)
    <3>1. p + k \in Nat /\ p + k > b
      BY <1>1, <1>5, SMTT(30)
    <3>2. p + k <= p + n /\ p + n = End(m)
      BY <1>1
    <3>3. LastLogIndex(w) \in Nat /\ End(m) \in Nat
      BY <1>1, <1>3, HardStateFields
    <3>4. p + k <= LastLogIndex(w)
      BY <1>7, <3>1, <3>2, <3>3
    <3> QED BY <1>5, <3>1, <3>3, <3>4 DEF InMemory
  <2>3. EntryAt(w, p + k) = w.log[base + k]
    <3>1. (p + k) - b + 1 = base + k
      BY <1>1, <1>5, SMTT(30)
    <3> QED BY <1>3, <3>1 DEF EntryAt
  <2> QED BY <1>3, <2>1, <2>2, <2>3 DEF GetLogTerm
<1>9. GetLogTerm(w, p) = m.prevTerm
  <2>1. CASE p = b
    BY <1>2, <1>3, <1>5, <2>1 DEF GetLogTerm
  <2>2. CASE p # b /\ held
    BY <1>2, <1>6, <2>2
  <2>3. CASE p # b /\ ~held
    <3>1. InMemory(w, p)
      BY <1>1, <1>3, <1>5, <1>7 DEF InMemory
    <3>2. EntryAt(w, p) = w.log[base] /\ EntryAt(s, p) = s.log[base]
      BY <1>3, <1>5 DEF EntryAt
    <3>3. w.log[base] = s.log[base]
      BY <1>5, <1>6, <2>3
    <3> QED BY <1>2, <1>3, <1>5, <2>3, <3>1, <3>2, <3>3 DEF GetLogTerm
  <2> QED BY <2>1, <2>2, <2>3
<1>10. ASSUME NEW j \in p .. End(m)
       PROVE  GetLogTerm(w, j) = AppendTerms(m)[j]
  <2>1. CASE j = p
    BY <1>1, <1>9, <2>1
  <2>2. CASE j # p
    <3>1. j - p \in 1 .. n /\ j = p + (j - p)
      BY <1>1, <2>2
    <3>2. PICK k \in 1 .. n : j = p + k
      BY <3>1
    <3> QED BY <1>1, <1>8, <3>2
  <2> QED BY <2>1, <2>2
<1>11. CASE held
  <2>1. w = s
    BY <1>6, <1>11
  <2> QED BY <1>0, <1>3, <1>4, <1>5, <1>7, <1>10, <2>1
<1>12. CASE ~held
  <2>1. n > 0
    BY <1>1, <1>12 DEF held
  <2>2. LastLogIndex(w) = End(m) /\ End(m) > p
    <3>1. Len(w.log) = base + n
      BY <1>6, <1>12
    <3>2. b + (p - b + 1 + n) - 1 = p + n
      BY <1>1, <1>5, SMTT(30)
    <3>3. LastLogIndex(w) = p + n
      BY <1>5, <3>1, <3>2
    <3> QED BY <1>1, <2>1, <3>3
  <2>3. ASSUME NEW i \in Held(w), i <= p
        PROVE  i \in Held(s) /\ EntryAt(w, i) = EntryAt(s, i)
    <3>1. i \in Held(s) /\ i - b + 1 \in 1 .. base
      <4>1. i \in b + 1 .. LastLogIndex(w) /\ LastLogIndex(w) \in Nat
        BY <1>3, <1>5, <2>3, HardStateFields DEF Held
      <4>2. i \in Nat /\ i >= b + 1 /\ i <= LastLogIndex(s)
        BY <1>1, <1>5, <2>3, <4>1
      <4>3. i \in Held(s)
        BY <1>5, <4>2 DEF Held
      <4>4. i - b + 1 \in 1 .. base
        BY <1>1, <1>5, <2>3, <4>2, SMTT(30)
      <4> QED BY <4>3, <4>4
    <3>2. w.log[i - b + 1] = s.log[i - b + 1]
      BY <1>6, <1>12, <3>1
    <3> QED BY <1>3, <1>5, <3>1, <3>2 DEF EntryAt
  <2>4. ASSUME \A j \in p + 1 .. End(m) : j \in Held(s) /\ EntryAt(s, j).term = AppendTerms(m)[j]
        PROVE  FALSE
    <3>1. ASSUME NEW k \in 1 .. n
          PROVE  base + k <= Len(s.log) /\ s.log[base + k].term = es[k].term
      <4>1. p + k \in p + 1 .. End(m)
        BY <1>1
      <4>2. p + k \in Held(s) /\ EntryAt(s, p + k).term = es[k].term
        BY <1>1, <2>4, <4>1
      <4>3. base + k <= Len(s.log)
        <5>1. p + k <= LastLogIndex(s)
          BY <1>1, <1>5, <4>2 DEF Held
        <5> QED BY <1>1, <1>5, <5>1
      <4>4. (p + k) - b + 1 = base + k
        BY <1>1, <1>5, SMTT(30)
      <4> QED BY <1>5, <4>2, <4>3, <4>4 DEF EntryAt
    <3> QED BY <1>12, <3>1 DEF held
  <2> QED BY <1>0, <1>3, <1>4, <1>5, <1>7, <1>10, <2>2, <2>3, <2>4
<1> QED BY <1>11, <1>12

------------------------------------------------------------------------------
(* Where the log of a node, in memory or on disk, comes from.              *)

Stayed(n, s) == \E t \in {hs[n], st[n]} : SameLog(s, t) /\ s.currentTerm >= t.currentTerm

PushedTo(n, s) ==
  /\ role[n] = "Leader" /\ role'[n] = "Leader"
  /\ \E v \in Value : s = PushEntry(st[n], v)

MergedTo(n, s, m) ==
  /\ m.dst = n /\ m.term >= st[n].currentTerm
  /\ AppendConsistent(UpdateTerm(st[n], m.term), m.prevIndex, m.prevTerm)
  /\ s = Merged(UpdateTerm(st[n], m.term), m)

CompactedTo(n, s) ==
  /\ up[n] /\ InMemory(st[n], lastApplied[n]) /\ lastApplied[n] > st[n].lastIncludedIndex
  /\ s = CompactTo(st[n], lastApplied[n])

InstalledTo(n, s, m) ==
  /\ m.dst = n /\ BodyMatches(m) /\ m.term >= st[n].currentTerm
  /\ ~AlreadyHolds(st[n], m.index, m.snapTerm)
  /\ s = InstalledAt(UpdateTerm(st[n], m.term), m.index, m.snapTerm)

RecoveredTo(n, s) == Returns(n) /\ s = Recovered(hs[n], snapFile[n])

From(n, s) ==
  \/ Stayed(n, s) \/ PushedTo(n, s) \/ CompactedTo(n, s) \/ RecoveredTo(n, s)
  \/ \E m \in Appends : MergedTo(n, s, m)
  \/ \E m \in Installs : InstalledTo(n, s, m)

LEMMA UpdatedTo ==
  ASSUME NEW s \in HardState, NEW term \in Nat, term >= s.currentTerm
  PROVE  /\ UpdateTerm(s, term) \in HardState /\ SameLog(UpdateTerm(s, term), s)
         /\ UpdateTerm(s, term).currentTerm = term
<1>1. s.currentTerm \in Nat /\ UpdateTerm(s, term) \in HardState
  BY UpdateTermType, HardStateFields
<1>2. SameLog(UpdateTerm(s, term), s)
  BY UpdateTermFields DEF SameLog
<1>3. UpdateTerm(s, term).currentTerm = term
  <2>1. CASE term > s.currentTerm
    BY <2>1, UpdateTermFields
  <2>2. CASE ~(term > s.currentTerm)
    <3>1. UpdateTerm(s, term) = s
      BY <2>2, UpdateTermFields
    <3> QED BY <1>1, <2>2, <3>1
  <2> QED BY <2>1, <2>2
<1> QED BY <1>1, <1>2, <1>3

LEMMA Sources ==
  ASSUME Known, Known', ProgressOK, NEW n \in Node, NodeTurn(n), NEW s, s = hs'[n] \/ s = st'[n]
  PROVE  From(n, s)
<1>1. st[n] \in HardState /\ hs[n] \in HardState /\ st[n].currentTerm \in Nat /\ hs[n].currentTerm \in Nat
  BY NodeStates
<1>2. Stayed(n, hs[n]) /\ Stayed(n, st[n])
  BY <1>1 DEF Stayed, SameLog
<1>3. CASE Kept(n) \/ Dies(n)
  <2>1. hs'[n] = hs[n] \/ Saved(n)
    BY <1>3 DEF Kept, Dies
  <2>2. Saved(n) => Stayed(n, hs'[n])
    BY DEF Saved, Stayed
  <2>3. Stayed(n, hs'[n])
    BY <1>2, <2>1, <2>2
  <2>4. Stayed(n, st'[n])
    BY <1>3, <2>3 DEF Kept, Dies, Stayed
  <2> QED BY <2>3, <2>4 DEF From
<1>4. CASE PushedLog(n)
  BY <1>2, <1>4 DEF PushedLog, PushedTo, From
<1>5. ASSUME NEW m \in Appends, MergedBy(n, m)
      PROVE  From(n, s)
  <2>1. m.term \in Nat
    BY AppendLine DEF Known, LogInv
  <2>2. PICK u : u = UpdateTerm(st[n], m.term)
    OBVIOUS
  <2>3. m.term >= st[n].currentTerm /\ SameLog(u, st[n]) /\ u.currentTerm = m.term
    <3>1. m.term >= st[n].currentTerm
      BY <1>5 DEF MergedBy
    <3>2. PICK t \in HardState : t = st[n]
      BY <1>1
    <3> QED BY <2>1, <2>2, <3>1, <3>2, UpdatedTo
  <2>4. Stayed(n, u)
    BY <2>3 DEF Stayed
  <2>5. MergedTo(n, hs'[n], m)
    BY <1>5 DEF MergedBy, MergedTo, Merged
  <2>6. st'[n] = u \/ st'[n] = hs'[n]
    BY <1>5, <2>2 DEF MergedBy
  <2> QED BY <2>4, <2>5, <2>6 DEF From
<1>6. CASE up[n] /\ Compacted(n)
  <2>1. InMemory(st[n], lastApplied[n])
    BY <1>6, AppliedInMemory
  <2> QED BY <1>6, <2>1 DEF Compacted, CompactedTo, From
<1>7. CASE Learns(n)
  BY <1>5, <1>7 DEF Learns
<1>8. CASE Adopts(n)
  <2>1. PICK m \in Installs : InstalledBy(n, m)
    BY <1>8 DEF Adopts
  <2>2. InstalledTo(n, s, m)
    BY <2>1 DEF InstalledBy, InstalledTo
  <2> QED BY <2>2 DEF From
<1>9. CASE Returns(n)
  <2>1. s = Recovered(hs[n], snapFile[n])
    BY <1>9 DEF Returns
  <2> QED BY <1>9, <2>1 DEF RecoveredTo, From
<1> QED BY <1>3, <1>4, <1>5, <1>6, <1>7, <1>8, <1>9 DEF NodeTurn, Turn

------------------------------------------------------------------------------
(* The lines of logs.                                                      *)

LEMMA MergedLine ==
  ASSUME Known, MarksOK, LinesRooted, NEW m \in Appends, NEW s \in HardState, LogOK(s),
         Rooted(Starts, Terms(s)),
         AppendConsistent(s, m.prevIndex, m.prevTerm), NEW w, w = Merged(s, m)
  PROVE  Rooted(Starts, Terms(w))
<1>1. TypeOK /\ LogsOK /\ GoodStarts(Starts) /\ Rooted(Starts, AppendTerms(m))
  BY StartsGood DEF Known, LogInv, LinesRooted
<1>2. /\ w \in HardState /\ w.lastIncludedIndex = s.lastIncludedIndex
      /\ m.prevIndex >= s.lastIncludedIndex /\ m.prevIndex <= LastLogIndex(s)
      /\ \A j \in m.prevIndex .. End(m) : GetLogTerm(w, j) = AppendTerms(m)[j]
      /\ \/ w = s
         \/ /\ LastLogIndex(w) = End(m)
            /\ \A i \in Held(w) : i <= m.prevIndex => i \in Held(s) /\ EntryAt(w, i) = EntryAt(s, i)
  BY <1>1, MergedFacts
<1>3. /\ IsLine(AppendTerms(m)) /\ DOMAIN AppendTerms(m) = m.prevIndex .. End(m)
      /\ m.prevIndex \in Nat /\ End(m) \in Nat /\ m.prevIndex \in DOMAIN AppendTerms(m)
      /\ AppendTerms(m)[m.prevIndex] = m.prevTerm
  BY <1>1, AppendLine
<1>4. /\ IsLine(Terms(s)) /\ DOMAIN Terms(s) = Held(s)
      /\ \A i \in Held(s) : Terms(s)[i] = EntryAt(s, i).term /\ GetLogTerm(s, i) = EntryAt(s, i).term
  BY TermsLine
<1>5. /\ DOMAIN Terms(w) = Held(w)
      /\ \A i \in Held(w) : /\ i \in Nat /\ i > w.lastIncludedIndex
                            /\ Terms(w)[i] = EntryAt(w, i).term /\ GetLogTerm(w, i) = EntryAt(w, i).term
  BY <1>2, TermsLine
<1>6. CASE w = s
  BY <1>6
<1>7. CASE LastLogIndex(w) = End(m)
           /\ \A i \in Held(w) : i <= m.prevIndex => i \in Held(s) /\ EntryAt(w, i) = EntryAt(s, i)
  <2>1. \A i \in Held(w) : i \in Nat /\ i <= End(m)
    BY <1>2, <1>3, <1>5, <1>7, HardStateFields DEF Held
  <2>2. \A i \in Held(w) : i >= m.prevIndex =>
          i \in DOMAIN AppendTerms(m) /\ Terms(w)[i] = AppendTerms(m)[i]
    BY <1>2, <1>3, <1>5, <2>1
  <2>3. \A i \in Held(w) : i <= m.prevIndex => i \in DOMAIN Terms(s) /\ Terms(w)[i] = Terms(s)[i]
    BY <1>4, <1>5, <1>7
  <2>4. CASE m.prevIndex = s.lastIncludedIndex
    <3>1. \A i \in DOMAIN Terms(w) : i \in DOMAIN AppendTerms(m) /\ Terms(w)[i] = AppendTerms(m)[i]
      BY <1>2, <1>3, <1>5, <2>2, <2>4
    <3> QED BY <1>1, <3>1, PartOfLine
  <2>5. CASE m.prevIndex > s.lastIncludedIndex
    <3>1. m.prevIndex \in Held(s)
      BY <1>2, <1>3, <2>5, HardStateFields DEF Held
    <3>2. Terms(s)[m.prevIndex] = AppendTerms(m)[m.prevIndex]
      BY <1>3, <1>4, <3>1 DEF AppendConsistent
    <3>3. \A i \in DOMAIN Terms(w) :
            \/ i \in DOMAIN Terms(s) /\ i <= m.prevIndex /\ Terms(w)[i] = Terms(s)[i]
            \/ i \in DOMAIN AppendTerms(m) /\ i >= m.prevIndex /\ Terms(w)[i] = AppendTerms(m)[i]
      BY <1>3, <1>5, <2>2, <2>3
    <3> QED BY <1>1, <1>3, <1>4, <3>1, <3>2, <3>3, JoinedLine
  <2> QED BY <1>2, <1>3, <2>4, <2>5, HardStateFields
<1> QED BY <1>2, <1>6, <1>7

LEMMA PushedFull ==
  ASSUME Known, MarksOK, LinesRooted, OwnersTrue, NEW n \in Node, role[n] = "Leader",
         NEW v \in Value, NEW w, w = PushEntry(st[n], v)
  PROVE  /\ w \in HardState /\ LastLogIndex(w) = LastLogIndex(st[n]) + 1
         /\ w.lastIncludedIndex = st[n].lastIncludedIndex
         /\ w.lastIncludedTerm = st[n].lastIncludedTerm
         /\ LastLogTerm(w) = st[n].currentTerm
         /\ \A i \in Held(w) : \/ i \in Held(st[n]) /\ EntryAt(w, i) = EntryAt(st[n], i)
                               \/ i = LastLogIndex(w) /\ EntryAt(w, i).term = st[n].currentTerm
         /\ Rooted(Starts, Full(w)) /\ Owned(Starts, Full(w), st[n].currentTerm)
         /\ Rooted(Starts, Terms(w))
<1>1. PICK s \in HardState : s = st[n]
  BY NodeStates
<1>2. PICK T \in Nat : T = s.currentTerm
  BY <1>1, HardStateFields
<1>3. GoodStarts(Starts) /\ T \in DOMAIN Starts /\ Starts[T].index \in Nat
  BY <1>1, <1>2, StartsGood, LeaderTerm
<1>4. /\ Rooted(Starts, Full(s)) /\ Owned(Starts, Full(s), T)
      /\ Starts[T].index <= LastLogIndex(s)
  BY <1>1, <1>2 DEF LinesRooted, OwnersTrue
<1>5. w = PushEntry(s, v) /\ v \in Command
  BY <1>1 DEF Command
<1>6. /\ w \in HardState /\ LastLogIndex(w) = LastLogIndex(s) + 1
      /\ w.lastIncludedIndex = s.lastIncludedIndex /\ w.lastIncludedTerm = s.lastIncludedTerm
      /\ Len(w.log) = Len(s.log) + 1
      /\ w.log[Len(w.log)].term = T /\ EntryAt(w, LastLogIndex(w)).term = T
      /\ \A i \in s.lastIncludedIndex .. LastLogIndex(s) : EntryAt(w, i) = EntryAt(s, i)
  <2> DEFINE x == PushEntry(s, v)
  <2>1. /\ x \in HardState /\ LastLogIndex(x) = LastLogIndex(s) + 1
        /\ x.lastIncludedIndex = s.lastIncludedIndex /\ x.lastIncludedTerm = s.lastIncludedTerm
    BY <1>5, PushedFields
  <2>2. Len(x.log) = Len(s.log) + 1
    BY <1>5, PushedFields
  <2>3. x.log[Len(x.log)].term = T /\ EntryAt(x, LastLogIndex(x)).term = T
    <3>1. x.log[Len(x.log)] = [term |-> s.currentTerm, index |-> LastLogIndex(s) + 1, command |-> v]
      BY <1>5, PushedFields
    <3>2. EntryAt(x, LastLogIndex(x))
            = [term |-> s.currentTerm, index |-> LastLogIndex(s) + 1, command |-> v]
      BY <1>5, PushedFields
    <3> QED BY <1>2, <3>1, <3>2
  <2>4. \A i \in s.lastIncludedIndex .. LastLogIndex(s) : EntryAt(x, i) = EntryAt(s, i)
    BY <1>5, PushedFields
  <2> HIDE DEF x
  <2>5. w = x
    BY <1>5 DEF x
  <2> QED BY <2>1, <2>2, <2>3, <2>4, <2>5
<1>7. LastLogTerm(w) = T
  BY <1>6 DEF LastLogTerm
<1>8. /\ s.lastIncludedIndex \in Nat /\ LastLogIndex(s) \in Nat
      /\ LastLogIndex(s) >= s.lastIncludedIndex
  BY HardStateFields
<1>9. \A i \in Held(w) : \/ i \in Held(s) /\ EntryAt(w, i) = EntryAt(s, i)
                         \/ i = LastLogIndex(w) /\ EntryAt(w, i).term = T
  BY <1>6, <1>8 DEF Held
<1>10. /\ IsLine(Full(s)) /\ DOMAIN Full(s) = s.lastIncludedIndex .. LastLogIndex(s)
       /\ Full(s)[s.lastIncludedIndex] = s.lastIncludedTerm
       /\ \A i \in Held(s) : Full(s)[i] = EntryAt(s, i).term
  BY FullLine, TermsLine
<1>11. /\ DOMAIN Full(w) = w.lastIncludedIndex .. LastLogIndex(w)
       /\ Full(w)[w.lastIncludedIndex] = w.lastIncludedTerm
       /\ \A i \in Held(w) : Full(w)[i] = EntryAt(w, i).term /\ Full(w)[i] = Terms(w)[i]
       /\ DOMAIN Terms(w) = Held(w) /\ Held(w) \subseteq DOMAIN Full(w)
  BY <1>6, FullLine, TermsLine
<1>12. \A i \in DOMAIN Full(w) :
         \/ i \in DOMAIN Full(s) /\ i < LastLogIndex(w) /\ Full(w)[i] = Full(s)[i]
         \/ i = LastLogIndex(w) /\ Full(w)[i] = T
  <2> SUFFICES ASSUME NEW i \in DOMAIN Full(w)
               PROVE  \/ i \in DOMAIN Full(s) /\ i < LastLogIndex(w) /\ Full(w)[i] = Full(s)[i]
                      \/ i = LastLogIndex(w) /\ Full(w)[i] = T
    OBVIOUS
  <2>1. CASE i = w.lastIncludedIndex
    BY <1>6, <1>8, <1>10, <1>11, <2>1
  <2>2. CASE i # w.lastIncludedIndex
    <3>1. i \in Held(w)
      BY <1>6, <1>8, <1>11, <2>2 DEF Held
    <3>2. CASE i \in Held(s) /\ EntryAt(w, i) = EntryAt(s, i)
      BY <1>6, <1>8, <1>10, <1>11, <3>1, <3>2, SMTT(30) DEF Held
    <3>3. CASE i = LastLogIndex(w) /\ EntryAt(w, i).term = T
      BY <1>11, <3>1, <3>3
    <3> QED BY <1>9, <3>1, <3>2, <3>3
  <2> QED BY <2>1, <2>2
<1>13. Rooted(Starts, Full(w)) /\ Owned(Starts, Full(w), T)
  <2>1. LastLogIndex(w) \in Nat /\ LastLogIndex(w) > Starts[T].index
    BY <1>3, <1>4, <1>6, <1>8
  <2> QED BY <1>3, <1>4, <1>10, <1>12, <2>1, PushedLine
<1>14. Rooted(Starts, Terms(w))
  <2>1. \A i \in DOMAIN Terms(w) : i \in DOMAIN Full(w) /\ Terms(w)[i] = Full(w)[i]
    BY <1>11
  <2> QED BY <1>13, <2>1, PartOfLine
<1> QED BY <1>1, <1>2, <1>6, <1>7, <1>9, <1>13, <1>14

------------------------------------------------------------------------------
(* A log cut at an index.                                                  *)

CutAt(s, i, t) == StartAt(s, i, t, EntriesBetween(s, i + 1, LastLogIndex(s)))

LEMMA CutFacts ==
  ASSUME NEW s \in HardState, LogOK(s), NEW i \in Nat, i >= s.lastIncludedIndex, NEW t \in Nat,
         i = 0 => t = 0, NEW c, c = CutAt(s, i, t)
  PROVE  /\ c \in HardState /\ LogOK(c) /\ Base(c) = <<i, t>>
         /\ c.lastIncludedIndex = i /\ c.lastIncludedTerm = t /\ c.currentTerm = s.currentTerm
         /\ LastLogIndex(c) >= LastLogIndex(s)
         /\ HeldEntries(c) \subseteq HeldEntries(s)
         /\ \A j \in Held(c) : j \in Held(s) /\ EntryAt(c, j) = EntryAt(s, j)
         /\ \A j \in Held(s) : j > i => j \in Held(c)
         /\ i < LastLogIndex(s) =>
              LastLogIndex(c) = LastLogIndex(s) /\ LastLogTerm(c) = LastLogTerm(s)
         /\ i >= LastLogIndex(s) => LastLogIndex(c) = i /\ LastLogTerm(c) = t
<1>1. /\ c \in HardState /\ c.lastIncludedIndex = i /\ c.lastIncludedTerm = t
      /\ c.currentTerm = s.currentTerm
      /\ LastLogIndex(c) = IF i <= LastLogIndex(s) THEN LastLogIndex(s) ELSE i
  BY CompactedFields DEF CutAt
<1>2. \A j \in i + 1 .. LastLogIndex(c) : EntryAt(c, j) = EntryAt(s, j)
  BY CompactedFields DEF CutAt
<1>3. LogOK(c) /\ Base(c) = <<i, t>>
  BY CompactedLogOK DEF CutAt
<1>4. HeldEntries(c) \subseteq HeldEntries(s)
  BY CompactedLogOK DEF CutAt
<1>5. /\ s.lastIncludedIndex \in Nat /\ LastLogIndex(s) \in Nat
      /\ LastLogIndex(s) >= s.lastIncludedIndex
  BY HardStateFields
<1>6. \A j \in Held(c) : j \in Held(s) /\ EntryAt(c, j) = EntryAt(s, j)
  BY <1>1, <1>2, <1>5 DEF Held
<1>7. \A j \in Held(s) : j > i => j \in Held(c)
  BY <1>1, <1>5 DEF Held
<1>8. ASSUME i < LastLogIndex(s)
      PROVE  LastLogIndex(c) = LastLogIndex(s) /\ LastLogTerm(c) = LastLogTerm(s)
  <2>1. LastLogIndex(c) = LastLogIndex(s) /\ LastLogIndex(s) > c.lastIncludedIndex
    BY <1>1, <1>5, <1>8
  <2>2. LastLogIndex(c) \in Held(c) /\ LastLogTerm(c) = Terms(c)[LastLogIndex(c)]
    BY <1>1, <1>3, <1>5, <2>1, LastOfLine
  <2>3. LastLogIndex(s) \in Held(s) /\ LastLogTerm(s) = Terms(s)[LastLogIndex(s)]
    BY <1>5, <1>8, LastOfLine
  <2> QED BY <1>1, <1>6, <2>1, <2>2, <2>3, TermsLine
<1>9. ASSUME i >= LastLogIndex(s)
      PROVE  LastLogIndex(c) = i /\ LastLogTerm(c) = t
  <2>1. LastLogIndex(c) = i
    BY <1>1, <1>5, <1>9
  <2>2. LastLogTerm(c) = c.lastIncludedTerm
    BY <1>1, <1>3, <2>1, LastOfLine
  <2> QED BY <1>1, <2>1, <2>2
<1> QED BY <1>1, <1>3, <1>4, <1>5, <1>6, <1>7, <1>8, <1>9

LEMMA CompactedLine ==
  ASSUME NEW s \in HardState, LogOK(s), NEW i \in Nat, i > s.lastIncludedIndex, InMemory(s, i),
         NEW c, c = CompactTo(s, i)
  PROVE  /\ c \in HardState /\ LogOK(c) /\ Base(c) = <<i, GetLogTerm(s, i)>>
         /\ c.lastIncludedIndex = i /\ c.lastIncludedTerm = GetLogTerm(s, i)
         /\ c.currentTerm = s.currentTerm
         /\ LastLogIndex(c) = LastLogIndex(s) /\ LastLogTerm(c) = LastLogTerm(s)
         /\ HeldEntries(c) \subseteq HeldEntries(s)
         /\ \A j \in Held(c) : j \in Held(s) /\ EntryAt(c, j) = EntryAt(s, j)
         /\ \A j \in DOMAIN Full(c) : j \in DOMAIN Full(s) /\ Full(c)[j] = Full(s)[j]
         /\ \A j \in DOMAIN Terms(c) : j \in DOMAIN Terms(s) /\ Terms(c)[j] = Terms(s)[j]
<1>1. PICK t \in Nat : t = GetLogTerm(s, i)
  BY GetLogTermType
<1>2. c = CutAt(s, i, t)
  BY <1>1 DEF CompactTo, CutAt
<1>3. s.lastIncludedIndex \in Nat /\ LastLogIndex(s) \in Nat /\ i <= LastLogIndex(s) /\ i > 0
  BY HardStateFields DEF InMemory
<1>4. /\ c \in HardState /\ LogOK(c) /\ Base(c) = <<i, t>>
      /\ c.lastIncludedIndex = i /\ c.lastIncludedTerm = t /\ c.currentTerm = s.currentTerm
      /\ HeldEntries(c) \subseteq HeldEntries(s)
      /\ \A j \in Held(c) : j \in Held(s) /\ EntryAt(c, j) = EntryAt(s, j)
      /\ i < LastLogIndex(s) =>
           LastLogIndex(c) = LastLogIndex(s) /\ LastLogTerm(c) = LastLogTerm(s)
      /\ i >= LastLogIndex(s) => LastLogIndex(c) = i /\ LastLogTerm(c) = t
  BY <1>2, <1>3, CutFacts
<1>5. LastLogIndex(c) = LastLogIndex(s) /\ LastLogTerm(c) = LastLogTerm(s)
  <2>1. CASE i < LastLogIndex(s)
    BY <1>4, <2>1
  <2>2. CASE i = LastLogIndex(s)
    <3>1. LastLogTerm(s) = GetLogTerm(s, LastLogIndex(s))
      BY LastOfLine
    <3> QED BY <1>1, <1>3, <1>4, <2>2, <3>1
  <2> QED BY <1>3, <2>1, <2>2
<1>6. /\ DOMAIN Terms(c) = Held(c) /\ \A j \in Held(c) : Terms(c)[j] = EntryAt(c, j).term
      /\ DOMAIN Terms(s) = Held(s) /\ \A j \in Held(s) : Terms(s)[j] = EntryAt(s, j).term
  BY <1>4, TermsLine
<1>7. \A j \in DOMAIN Terms(c) : j \in DOMAIN Terms(s) /\ Terms(c)[j] = Terms(s)[j]
  BY <1>4, <1>6
<1>8. ASSUME NEW j \in DOMAIN Full(c)
      PROVE  j \in DOMAIN Full(s) /\ Full(c)[j] = Full(s)[j]
  <2>1. j = i \/ j \in Held(c)
    BY <1>4, FullLine
  <2>2. i \in DOMAIN Full(s) /\ Full(s)[i] = t
    BY <1>1, <1>3, FullLine
  <2>3. Full(c)[i] = t
    BY <1>4, FullLine
  <2>4. CASE j \in Held(c)
    BY <1>4, <1>6, <2>4, FullLine
  <2> QED BY <2>1, <2>2, <2>3, <2>4
<1> QED BY <1>1, <1>4, <1>5, <1>7, <1>8

LEMMA RecoveredLine ==
  ASSUME NEW s \in HardState, LogOK(s), NEW file \in SnapshotBody \cup {Nil},
         NEW c, c = Recovered(s, file), file # Nil /\ file.index = 0 => file.term = 0
  PROVE  /\ c \in HardState /\ LogOK(c) /\ c.currentTerm = s.currentTerm
         /\ LastLogIndex(c) >= LastLogIndex(s)
         /\ \A j \in Held(c) : j \in Held(s) /\ EntryAt(c, j) = EntryAt(s, j)
         /\ \A j \in Held(s) : j > c.lastIncludedIndex => j \in Held(c)
         /\ \A j \in DOMAIN Terms(c) : j \in DOMAIN Terms(s) /\ Terms(c)[j] = Terms(s)[j]
         /\ \/ c = s
            \/ /\ file # Nil /\ file.index > s.lastIncludedIndex
               /\ file.index \in Nat /\ file.term \in Nat
               /\ Base(c) = <<file.index, file.term>>
               /\ c.lastIncludedIndex = file.index
               /\ \/ /\ file.index < LastLogIndex(s)
                     /\ LastLogIndex(c) = LastLogIndex(s) /\ LastLogTerm(c) = LastLogTerm(s)
                  \/ /\ file.index >= LastLogIndex(s)
                     /\ LastLogIndex(c) = file.index /\ LastLogTerm(c) = file.term
<1>1. s.lastIncludedIndex \in Nat /\ LastLogIndex(s) \in Nat
  BY HardStateFields
<1>2. CASE ~(file # Nil /\ file.index > s.lastIncludedIndex)
  <2>1. c = s
    BY <1>2 DEF Recovered
  <2> QED BY <1>1, <2>1
<1>3. CASE file # Nil /\ file.index > s.lastIncludedIndex
  <2>1. PICK i \in Nat, t \in Nat : i = file.index /\ t = file.term
    BY <1>3 DEF SnapshotBody
  <2>2. c = CutAt(s, i, t)
    BY <1>3, <2>1 DEF Recovered, Reconciled, CutAt
  <2>3. i >= s.lastIncludedIndex /\ (i = 0 => t = 0)
    BY <1>1, <1>3, <2>1
  <2>4. /\ c \in HardState /\ LogOK(c) /\ Base(c) = <<i, t>>
        /\ c.lastIncludedIndex = i /\ c.lastIncludedTerm = t /\ c.currentTerm = s.currentTerm
        /\ LastLogIndex(c) >= LastLogIndex(s)
        /\ \A j \in Held(c) : j \in Held(s) /\ EntryAt(c, j) = EntryAt(s, j)
        /\ \A j \in Held(s) : j > i => j \in Held(c)
        /\ i < LastLogIndex(s) =>
             LastLogIndex(c) = LastLogIndex(s) /\ LastLogTerm(c) = LastLogTerm(s)
        /\ i >= LastLogIndex(s) => LastLogIndex(c) = i /\ LastLogTerm(c) = t
    BY <2>2, <2>3, CutFacts
  <2>5. \A j \in DOMAIN Terms(c) : j \in DOMAIN Terms(s) /\ Terms(c)[j] = Terms(s)[j]
    BY <2>4, TermsLine
  <2>6. i < LastLogIndex(s) \/ i >= LastLogIndex(s)
    BY <1>1
  <2> QED BY <1>3, <2>1, <2>4, <2>5, <2>6
<1> QED BY <1>2, <1>3

LEMMA NodeLines ==
  ASSUME Known, SafetyInv, NEW n \in Node, NEW s, s = hs[n] \/ s = st[n]
  PROVE  /\ s \in HardState /\ LogOK(s) /\ Rooted(Starts, Terms(s)) /\ ChosenAt(Base(s))
         /\ HeldEntries(s) \subseteq Entries
         /\ s.currentTerm >= hs[n].currentTerm
<1>1. s \in HardState /\ LogOK(s) /\ s.currentTerm >= hs[n].currentTerm
  BY NodeStates
<1>2. Rooted(Starts, Terms(s))
  BY DEF SafetyInv, LinesRooted
<1>3. ChosenAt(Base(s))
  BY DEF SafetyInv, SnapshotsOK
<1>4. HeldEntries(s) \subseteq Entries
  BY DEF Entries
<1> QED BY <1>1, <1>2, <1>3, <1>4

LEMMA FileFacts ==
  ASSUME Known, SafetyInv, NEW n \in Node
  PROVE  /\ snapFile[n] \in SnapshotBody \cup {Nil}
         /\ hs[n].lastIncludedIndex = st[n].lastIncludedIndex
         /\ hs[n].lastIncludedTerm = st[n].lastIncludedTerm
         /\ snapFile[n] = Nil => hs[n].lastIncludedIndex = 0
         /\ snapFile[n] # Nil =>
              /\ snapFile[n].index \in Nat /\ snapFile[n].term \in Nat
              /\ snapFile[n].data \in Seq(LogEntry)
              /\ hs[n].lastIncludedIndex <= snapFile[n].index
              /\ Chosen(<<snapFile[n].index, snapFile[n].term>>)
              /\ Applied(snapFile[n].data, snapFile[n].index)
              /\ snapFile[n].index >= 1
<1>1. Base(hs[n]) = Base(st[n]) /\ FileOK(st[n], snapFile[n])
  BY DEF SafetyInv, SnapshotsOK
<1>2. hs[n].lastIncludedIndex = st[n].lastIncludedIndex
      /\ hs[n].lastIncludedTerm = st[n].lastIncludedTerm
  BY <1>1 DEF Base
<1>3. snapFile[n] \in SnapshotBody \cup {Nil}
  BY DEF Known, TypeOK, DiskType
<1>4. CASE snapFile[n] # Nil
  <2>1. PICK i, t : i = snapFile[n].index /\ t = snapFile[n].term
    OBVIOUS
  <2>2. i \in Nat /\ t \in Nat /\ snapFile[n].data \in Seq(LogEntry)
    BY <1>3, <1>4, <2>1 DEF SnapshotBody
  <2>3. Chosen(<<i, t>>) /\ Applied(snapFile[n].data, i) /\ st[n].lastIncludedIndex <= i
    BY <1>1, <1>4, <2>1 DEF FileOK
  <2>4. PICK k : k = <<i, t>>
    OBVIOUS
  <2>5. k[1] >= 1
    BY <2>3, <2>4, ChosenFacts DEF SafetyInv
  <2> QED BY <1>2, <1>3, <1>4, <2>1, <2>2, <2>3, <2>4, <2>5
<1>5. CASE snapFile[n] = Nil
  BY <1>1, <1>2, <1>3, <1>5 DEF FileOK
<1> QED BY <1>4, <1>5

LEMMA ReturnedLog ==
  ASSUME Known, SafetyInv, NEW n \in Node, NEW s, s = Recovered(hs[n], snapFile[n])
  PROVE  /\ s \in HardState /\ LogOK(s) /\ s.currentTerm = hs[n].currentTerm
         /\ LastLogIndex(s) >= LastLogIndex(hs[n])
         /\ \A j \in Held(s) : j \in Held(hs[n]) /\ EntryAt(s, j) = EntryAt(hs[n], j)
         /\ \A j \in Held(hs[n]) : j > s.lastIncludedIndex => j \in Held(s)
         /\ \A j \in DOMAIN Terms(s) : j \in DOMAIN Terms(hs[n]) /\ Terms(s)[j] = Terms(hs[n])[j]
         /\ \/ s = hs[n]
            \/ /\ snapFile[n] # Nil /\ snapFile[n].index > hs[n].lastIncludedIndex
               /\ Base(s) = <<snapFile[n].index, snapFile[n].term>>
               /\ s.lastIncludedIndex = snapFile[n].index
               /\ \/ /\ snapFile[n].index < LastLogIndex(hs[n])
                     /\ LastLogIndex(s) = LastLogIndex(hs[n])
                     /\ LastLogTerm(s) = LastLogTerm(hs[n])
                  \/ /\ snapFile[n].index >= LastLogIndex(hs[n])
                     /\ LastLogIndex(s) = snapFile[n].index /\ LastLogTerm(s) = snapFile[n].term
<1>1. PICK h \in HardState, file \in SnapshotBody \cup {Nil} : h = hs[n] /\ file = snapFile[n]
  BY NodeStates, FileFacts
<1>2. LogOK(h) /\ s = Recovered(h, file)
  BY <1>1, NodeStates
<1>3. file # Nil /\ file.index = 0 => file.term = 0
  <2>1. CASE file # Nil
    <3>1. snapFile[n].index >= 1
      BY <1>1, <2>1, FileFacts
    <3>2. file.index >= 1
      BY <1>1, <3>1
    <3> QED BY <3>2
  <2> QED BY <2>1
<1> QED BY <1>1, <1>2, <1>3, RecoveredLine

LEMMA MergeReady ==
  ASSUME Known, SafetyInv, NEW n \in Node, NEW m \in Appends, NEW s, MergedTo(n, s, m)
  PROVE  \E u \in HardState :
           /\ SameLog(u, st[n]) /\ u.currentTerm = m.term /\ m.term \in Nat
           /\ m.term >= st[n].currentTerm
           /\ LogOK(u) /\ Rooted(Starts, Terms(u))
           /\ AppendConsistent(u, m.prevIndex, m.prevTerm) /\ s = Merged(u, m)
<1>1. PICK t \in HardState : t = st[n] /\ LogOK(t) /\ Rooted(Starts, Terms(t))
  BY NodeLines
<1>2. m.term \in Nat /\ m.term >= t.currentTerm
  BY <1>1, AppendLine DEF Known, LogInv, MergedTo
<1>3. PICK u : u = UpdateTerm(t, m.term)
  OBVIOUS
<1>4. u \in HardState /\ SameLog(u, t) /\ u.currentTerm = m.term
  BY <1>1, <1>2, <1>3, UpdatedTo
<1>5. LogOK(u)
  BY <1>1, <1>4 DEF SameLog, LogOK
<1>6. Rooted(Starts, Terms(u))
  BY <1>1, <1>4, SameLogs
<1>7. AppendConsistent(u, m.prevIndex, m.prevTerm) /\ s = Merged(u, m)
  BY <1>1, <1>3 DEF MergedTo
<1> QED BY <1>1, <1>2, <1>4, <1>5, <1>6, <1>7

LEMMA InstallReady ==
  ASSUME Known, SafetyInv, NEW n \in Node, NEW m \in Installs, NEW s, InstalledTo(n, s, m)
  PROVE  /\ s \in HardState /\ LogOK(s) /\ s.currentTerm = m.term
         /\ s.lastIncludedIndex = m.index /\ s.lastIncludedTerm = m.snapTerm
         /\ Base(s) = <<m.index, m.snapTerm>>
         /\ LastLogIndex(s) = m.index /\ LastLogTerm(s) = m.snapTerm /\ Held(s) = {}
         /\ HeldEntries(s) = {}
         /\ m.index \in Nat /\ m.snapTerm \in Nat /\ m.term \in Nat
         /\ Chosen(<<m.index, m.snapTerm>>) /\ m.index >= 1
<1>1. PICK t \in HardState : t = st[n]
  BY NodeStates
<1>2. /\ m.index \in Nat /\ m.snapTerm \in Nat
      /\ m.index = 0 => m.snapTerm = 0
  BY InstallFields DEF Known, LogInv
<1>3. m.term \in Nat
  BY MessageKinds DEF Known, TypeOK, NetworkType, Installs, InstallSnapshotType
<1>4. PICK u : u = UpdateTerm(t, m.term)
  OBVIOUS
<1>5. u \in HardState /\ u.currentTerm = m.term
  BY <1>1, <1>3, <1>4, UpdatedTo DEF InstalledTo
<1>6. s = InstalledAt(u, m.index, m.snapTerm)
  BY <1>1, <1>4 DEF InstalledTo
<1>7. LogOK(s)
  BY <1>2, <1>5, <1>6, InstalledLogOK
<1>8. HeldEntries(s) = {}
  BY <1>2, <1>5, <1>6, InstalledLogOK
<1>9. /\ s \in HardState /\ s.currentTerm = m.term
      /\ s.lastIncludedIndex = m.index /\ s.lastIncludedTerm = m.snapTerm
  <2>1. <<>> \in Seq(LogEntry)
    OBVIOUS
  <2>2. PICK e \in Seq(LogEntry) : e = <<>>
    BY <2>1
  <2>3. s = StartAt(u, m.index, m.snapTerm, e)
    BY <1>6, <2>2 DEF InstalledAt
  <2>4. PICK i \in Nat, t0 \in Nat : i = m.index /\ t0 = m.snapTerm
    BY <1>2
  <2>5. /\ StartAt(u, i, t0, e) \in HardState
        /\ StartAt(u, i, t0, e).currentTerm = u.currentTerm
        /\ StartAt(u, i, t0, e).lastIncludedIndex = i
        /\ StartAt(u, i, t0, e).lastIncludedTerm = t0
    <3>1. e \in Seq(LogEntry) /\ u \in HardState /\ i \in Nat /\ t0 \in Nat
      BY <1>5, <2>2, <2>4
    <3>2. StartAt(u, i, t0, e).currentTerm = u.currentTerm
      BY <3>1, StartAtType
    <3>3. StartAt(u, i, t0, e) \in HardState
      BY <3>1, StartAtType
    <3>4. StartAt(u, i, t0, e).lastIncludedIndex = i
      BY <3>1, StartAtType
    <3>5. StartAt(u, i, t0, e).lastIncludedTerm = t0
      BY <3>1, StartAtType
    <3> QED BY <3>2, <3>3, <3>4, <3>5
  <2> QED BY <1>5, <2>3, <2>4, <2>5
<1>10. LastLogIndex(s) = m.index
  <2>1. PICK e \in Seq(LogEntry) : e = <<>>
    <3>1. <<>> \in Seq(LogEntry)
      OBVIOUS
    <3> QED BY <3>1
  <2>2. s = StartAt(u, m.index, m.snapTerm, e)
    BY <1>6, <2>1 DEF InstalledAt
  <2>3. LastLogIndex(s) = m.index + Len(e)
    BY <1>2, <1>5, <2>2, StartAtLog, SMTT(30)
  <2> QED BY <1>2, <2>1, <2>3
<1>11. LastLogTerm(s) = m.snapTerm /\ Held(s) = {}
  <2>1. Held(s) = {}
    BY <1>2, <1>9, <1>10 DEF Held
  <2> QED BY <1>2, <1>7, <1>9, <1>10, <2>1, LastOfLine
<1>12. Chosen(<<m.index, m.snapTerm>>)
  BY DEF SafetyInv, SnapshotsOK
<1>13. m.index >= 1
  <2>1. PICK k : k = <<m.index, m.snapTerm>>
    OBVIOUS
  <2>2. k[1] >= 1
    BY <1>12, <2>1, ChosenFacts DEF SafetyInv
  <2> QED BY <2>1, <2>2
<1> QED BY <1>2, <1>3, <1>7, <1>8, <1>9, <1>10, <1>11, <1>12, <1>13 DEF Base

(* What a node whose log an InstallSnapshot replaced is left with.           *)
IsInstalled(s, m) ==
  /\ s \in HardState /\ LogOK(s) /\ s.currentTerm = m.term
  /\ LastLogIndex(s) = m.index /\ LastLogTerm(s) = m.snapTerm /\ Held(s) = {}
  /\ s.lastIncludedIndex = m.index
  /\ m.index \in Nat /\ m.snapTerm \in Nat /\ Chosen(<<m.index, m.snapTerm>>)

LEMMA InstallFacts ==
  ASSUME Known, SafetyInv, NEW n \in Node, NEW m \in Installs, NEW s, InstalledTo(n, s, m)
  PROVE  IsInstalled(s, m)
<1>1. /\ s \in HardState /\ LogOK(s) /\ s.currentTerm = m.term
      /\ LastLogIndex(s) = m.index /\ LastLogTerm(s) = m.snapTerm /\ Held(s) = {}
      /\ s.lastIncludedIndex = m.index
      /\ m.index \in Nat /\ m.snapTerm \in Nat /\ Chosen(<<m.index, m.snapTerm>>)
  BY InstallReady
<1> QED BY <1>1 DEF IsInstalled

LEMMA CompactReady ==
  ASSUME Known, SafetyInv, NEW n \in Node, NEW s, CompactedTo(n, s), NEW i, i = lastApplied[n]
  PROVE  /\ s \in HardState /\ LogOK(s) /\ Base(s) = <<i, GetLogTerm(st[n], i)>>
         /\ s.lastIncludedIndex = i /\ s.lastIncludedTerm = GetLogTerm(st[n], i)
         /\ i \in Nat /\ i > st[n].lastIncludedIndex
         /\ s.currentTerm = st[n].currentTerm
         /\ LastLogIndex(s) = LastLogIndex(st[n]) /\ LastLogTerm(s) = LastLogTerm(st[n])
         /\ HeldEntries(s) \subseteq HeldEntries(st[n])
         /\ \A j \in Held(s) : j \in Held(st[n]) /\ EntryAt(s, j) = EntryAt(st[n], j)
         /\ \A j \in DOMAIN Full(s) : j \in DOMAIN Full(st[n]) /\ Full(s)[j] = Full(st[n])[j]
         /\ \A j \in DOMAIN Terms(s) : j \in DOMAIN Terms(st[n]) /\ Terms(s)[j] = Terms(st[n])[j]
<1>1. PICK t \in HardState : t = st[n] /\ LogOK(t)
  BY NodeStates
<1>2. i \in Nat
  BY NodeStates
<1>3. i > t.lastIncludedIndex /\ InMemory(t, i) /\ s = CompactTo(t, i)
  BY <1>1 DEF CompactedTo
<1> QED BY <1>1, <1>2, <1>3, CompactedLine

LEMMA LineFrom ==
  ASSUME Known, SafetyInv, NEW n \in Node, NEW s, From(n, s)
  PROVE  Rooted(Starts, Terms(s))
<1>1. CASE Stayed(n, s)
  <2>1. PICK t \in {hs[n], st[n]} : SameLog(s, t)
    BY <1>1 DEF Stayed
  <2> QED BY <2>1, NodeLines, SameLogs
<1>2. CASE PushedTo(n, s)
  BY <1>2, PushedFull DEF PushedTo, SafetyInv
<1>3. CASE CompactedTo(n, s)
  <2>1. \A j \in DOMAIN Terms(s) : j \in DOMAIN Terms(st[n]) /\ Terms(s)[j] = Terms(st[n])[j]
    BY <1>3, CompactReady
  <2> QED BY <2>1, NodeLines, PartOfLine
<1>4. CASE RecoveredTo(n, s)
  <2>1. \A j \in DOMAIN Terms(s) : j \in DOMAIN Terms(hs[n]) /\ Terms(s)[j] = Terms(hs[n])[j]
    BY <1>4, ReturnedLog DEF RecoveredTo
  <2> QED BY <2>1, NodeLines, PartOfLine
<1>5. ASSUME NEW m \in Appends, MergedTo(n, s, m)
      PROVE  Rooted(Starts, Terms(s))
  <2>1. PICK u \in HardState : /\ LogOK(u) /\ Rooted(Starts, Terms(u))
                               /\ AppendConsistent(u, m.prevIndex, m.prevTerm) /\ s = Merged(u, m)
    BY <1>5, MergeReady
  <2> QED BY <2>1, MergedLine DEF SafetyInv
<1>6. ASSUME NEW m \in Installs, InstalledTo(n, s, m)
      PROVE  Rooted(Starts, Terms(s))
  <2>1. Held(s) = {}
    BY <1>6, InstallReady
  <2> QED BY <2>1 DEF Rooted, Terms
<1> QED BY <1>1, <1>2, <1>3, <1>4, <1>5, <1>6 DEF From

(* A leader's log stays its own.                                           *)
LEMMA LeadersLine ==
  ASSUME Known, Known', SafetyInv, NEW n \in Node, NodeTurn(n), LeadsOn(n), role'[n] = "Leader",
         NEW s, s = st'[n]
  PROVE  /\ Rooted(Starts, Full(s)) /\ Owned(Starts, Full(s), s.currentTerm)
         /\ Starts[s.currentTerm].index <= LastLogIndex(s)
         /\ s.currentTerm \in DOMAIN Starts
<1>1. PICK t \in HardState : t = st[n]
  BY NodeStates
<1>2. /\ role[n] = "Leader" /\ s.currentTerm = t.currentTerm /\ LogOK(t)
      /\ MarksOK /\ LinesRooted /\ OwnersTrue
  BY <1>1, NodeStates DEF LeadsOn, SafetyInv
<1>3. PICK T : T = s.currentTerm
  OBVIOUS
<1>4. /\ T \in DOMAIN Starts /\ Starts[T].index \in Nat /\ <<T, n>> \in elected
  BY <1>1, <1>2, <1>3, LeaderTerm
<1>5. /\ Rooted(Starts, Full(t)) /\ Owned(Starts, Full(t), T)
      /\ Starts[T].index <= LastLogIndex(t)
  BY <1>1, <1>2, <1>3 DEF LinesRooted, OwnersTrue
<1>6. LastLogIndex(t) \in Nat /\ LastLogIndex(s) \in Nat /\ LastLogIndex(t) <= LastLogIndex(s)
  <2>1. LastLogIndex(t) \in Nat /\ LastLogIndex(s) \in Nat
    BY <1>1, NodeStates, NodeStatesNext
  <2>2. t.currentTerm = st[n].currentTerm /\ <<st[n].currentTerm, n>> \in elected
    BY <1>1, <1>2, <1>3, <1>4
  <2>3. GoesOn(n)
    BY DEF NodeTurn
  <2>4. LastLogIndex(st[n]) <= LastLogIndex(st'[n])
    BY <1>1, <1>2, <2>2, <2>3 DEF GoesOn, LeadsOn
  <2> QED BY <1>1, <2>1, <2>4
<1>7. CASE SameLog(s, t)
  BY <1>3, <1>4, <1>5, <1>6, <1>7, SameLogs
<1>8. CASE PushedLog(n) /\ st'[n] = hs'[n]
  <2>1. PICK v \in Value : s = PushEntry(st[n], v)
    BY <1>8 DEF PushedLog
  <2>2. Rooted(Starts, Full(s)) /\ Owned(Starts, Full(s), st[n].currentTerm)
    BY <1>2, <2>1, PushedFull
  <2> QED BY <1>1, <1>2, <1>3, <1>4, <1>5, <1>6, <2>2
<1>9. CASE /\ s = CompactTo(t, lastApplied[n]) /\ InMemory(t, lastApplied[n])
           /\ lastApplied[n] > t.lastIncludedIndex
  <2>1. PICK i \in Nat : i = lastApplied[n]
    BY NodeStates
  <2>2. \A j \in DOMAIN Full(s) : j \in DOMAIN Full(t) /\ Full(s)[j] = Full(t)[j]
    BY <1>2, <1>9, <2>1, CompactedLine
  <2> QED BY <1>3, <1>4, <1>5, <1>6, <2>2, PartOfLine
<1> QED BY <1>1, <1>7, <1>8, <1>9 DEF LeadsOn

(* A new leader's log is its own: nothing is above where its term begins.  *)
LEMMA NewLeaderOwns ==
  ASSUME Known, Known', NEW n \in Node, NodeTurn(n), BeginsToLead(n),
         NEW s, s = st'[n]
  PROVE  /\ Owned(Starts', Full(s), s.currentTerm)
         /\ Starts'[s.currentTerm].index <= LastLogIndex(s)
<1>1. s \in HardState /\ LogOK(s) /\ LastLogIndex(s) \in Nat
  BY NodeStatesNext
<1>2. Starts'[s.currentTerm] = [index |-> LastLogIndex(s), term |-> LastLogTerm(s)]
  BY NewLeaderStart DEF BeginsToLead
<1>3. /\ DOMAIN Full(s) = s.lastIncludedIndex .. LastLogIndex(s)
      /\ LastLogTerm(s) = Full(s)[LastLogIndex(s)]
      /\ s.lastIncludedIndex \in Nat
  BY <1>1, FullLine, LastOfLine
<1>4. Owned(Starts', Full(s), s.currentTerm)
  BY <1>1, <1>2, <1>3 DEF Owned, OwnMark
<1> QED BY <1>1, <1>2, <1>4

(* What is sent is a part of the leader's log.                             *)
LEMMA SentLine ==
  ASSUME Known, Known', LeadersRemember, NEW n \in Node, NodeTurn(n),
         NEW m \in Appends', m \notin Appends, NEW s, s = st'[n]
  PROVE  \A j \in DOMAIN AppendTerms(m) : j \in DOMAIN Full(s) /\ AppendTerms(m)[j] = Full(s)[j]
<1>1. s \in HardState /\ LogOK(s)
  BY NodeStatesNext
<1>2. /\ m.prevIndex \in Nat /\ m.prevIndex >= s.lastIncludedIndex
      /\ m.prevTerm = GetLogTerm(s, m.prevIndex)
      /\ InMemory(s, m.prevIndex)
      /\ End(m) = LastLogIndex(s)
      /\ \A k \in 1 .. Len(m.entries) : m.entries[k] = EntryAt(s, m.prevIndex + k)
  BY NewAppendFields
<1>3. m.entries \in Seq(LogEntry)
  BY MessageKinds DEF Known, TypeOK, NetworkType, Appends, AppendEntriesType
<1>4. PICK p \in Nat, l \in Nat : p = m.prevIndex /\ l = Len(m.entries) /\ End(m) = p + l
  BY <1>2, <1>3 DEF End
<1>5. DOMAIN AppendTerms(m) = p .. p + l
  BY <1>4 DEF AppendTerms
<1>6. /\ DOMAIN Full(s) = s.lastIncludedIndex .. LastLogIndex(s)
      /\ \A i \in DOMAIN Full(s) : Full(s)[i] = GetLogTerm(s, i)
      /\ \A i \in Held(s) : Full(s)[i] = Terms(s)[i] /\ Terms(s)[i] = EntryAt(s, i).term
      /\ s.lastIncludedIndex \in Nat /\ LastLogIndex(s) \in Nat
  BY <1>1, FullLine, TermsLine, HardStateFields
<1>7. ASSUME NEW j \in DOMAIN AppendTerms(m)
      PROVE  j \in DOMAIN Full(s) /\ AppendTerms(m)[j] = Full(s)[j]
  <2>1. j \in p .. p + l /\ j \in DOMAIN Full(s)
    <3>1. j \in p .. p + l /\ j \in Nat
      BY <1>5, <1>7
    <3>2. p + l = LastLogIndex(s) /\ s.lastIncludedIndex <= p
      BY <1>2, <1>4, <1>6
    <3>3. j \in s.lastIncludedIndex .. LastLogIndex(s)
      BY <1>6, <3>1, <3>2
    <3> QED BY <1>6, <3>1, <3>3
  <2>2. CASE j = p
    BY <1>2, <1>4, <1>5, <1>6, <2>1, <2>2 DEF AppendTerms
  <2>3. CASE j # p
    <3>1. j \in Held(s)
      BY <1>2, <1>4, <1>6, <2>1, <2>3 DEF Held
    <3>2. j - p \in 1 .. l /\ p + (j - p) = j
      BY <1>4, <2>1, <2>3, SMTT(30)
    <3>3. AppendTerms(m)[j] = m.entries[j - p].term
      BY <1>4, <1>5, <2>1, <2>3 DEF AppendTerms
    <3>4. m.entries[j - p] = EntryAt(s, j)
      BY <1>2, <1>4, <3>2
    <3> QED BY <1>6, <2>1, <3>1, <3>3, <3>4
  <2> QED BY <2>1, <2>2, <2>3
<1> QED BY <1>7

LEMMA KeepsOwners ==
  ASSUME Known, Known', SafetyInv, NEW n \in Node, NodeTurn(n)
  PROVE  OwnersTrue'
<1>1. /\ OwnersTrue /\ MarksOK /\ LeadersRemember /\ ProgressOK
      /\ GoodStarts(Starts) /\ Extends(Starts', Starts)
  BY NextStarts DEF SafetyInv
<1>2. /\ \A f, c : c \in DOMAIN Starts /\ Owned(Starts, f, c) => Owned(Starts', f, c)
      /\ \A i, t, c : c \in DOMAIN Starts => (OwnMark(Starts, i, t, c) <=> OwnMark(Starts', i, t, c))
      /\ \A c : c \in DOMAIN Starts => Starts'[c] = Starts[c]
  BY <1>1, MoreTerms DEF Extends
<1>3. ASSUME NEW l \in Node, role'[l] = "Leader", NEW s, s = st'[l]
      PROVE  /\ Owned(Starts', Full(s), s.currentTerm)
             /\ Starts'[s.currentTerm].index <= LastLogIndex(s)
  <2>1. CASE l # n
    <3>1. s = st[l] /\ role[l] = "Leader"
      BY <1>3, <2>1 DEF NodeTurn, Untouched
    <3>2. s.currentTerm \in DOMAIN Starts
      BY <1>1, <3>1, LeaderTerm
    <3> QED BY <1>1, <1>2, <3>1, <3>2 DEF OwnersTrue
  <2>2. CASE l = n /\ BeginsToLead(n)
    BY <1>3, <2>2, NewLeaderOwns
  <2>3. CASE l = n /\ LeadsOn(n)
    BY <1>2, <1>3, <2>3, LeadersLine
  <2> QED BY <1>1, <1>3, <2>1, <2>2, <2>3, LeaderTurn
<1>4. ASSUME NEW m \in Appends'
      PROVE  Owned(Starts', AppendTerms(m), m.term) /\ Starts'[m.term].index <= End(m)
  <2>1. CASE m \in Appends
    <3>1. m.term \in DOMAIN Starts
      BY <2>1, OldSenders, ElectedInStarts
    <3> QED BY <1>1, <1>2, <2>1, <3>1 DEF OwnersTrue
  <2>2. CASE m \notin Appends
    <3>1. PICK s : s = st'[n]
      OBVIOUS
    <3>2. role'[n] = "Leader" /\ m.term = s.currentTerm /\ End(m) = LastLogIndex(s)
      BY <1>1, <2>2, <3>1, NewAppendFields
    <3>3. \A j \in DOMAIN AppendTerms(m) : j \in DOMAIN Full(s) /\ AppendTerms(m)[j] = Full(s)[j]
      BY <1>1, <2>2, <3>1, SentLine
    <3>4. Owned(Starts', Full(s), s.currentTerm) /\ Starts'[s.currentTerm].index <= LastLogIndex(s)
      BY <1>3, <3>1, <3>2
    <3> QED BY <3>2, <3>3, <3>4 DEF Owned
  <2> QED BY <2>1, <2>2
<1>5. ASSUME NEW m \in (Installs \cup snapTasks)'
      PROVE  OwnMark(Starts', m.index, m.snapTerm, m.term)
  <2>1. CASE m \in Installs \cup snapTasks
    <3>1. m.term \in DOMAIN Starts
      BY <2>1, OldSenders, ElectedInStarts
    <3> QED BY <1>1, <1>2, <2>1, <3>1 DEF OwnersTrue
  <2>2. CASE m \notin Installs \cup snapTasks
    <3>1. m \in snapTasks' /\ m \notin snapTasks
      BY <1>5, <2>2, TurnGrows
    <3>2. PICK s : s = st'[n]
      OBVIOUS
    <3>3. /\ role'[n] = "Leader" /\ m.term = s.currentTerm
          /\ m.index = s.lastIncludedIndex /\ m.snapTerm = s.lastIncludedTerm
      BY <3>1, <3>2, NewTask
    <3>4. s \in HardState
      BY <3>2, NodeStatesNext
    <3>5. s.lastIncludedIndex \in DOMAIN Full(s) /\ Full(s)[s.lastIncludedIndex] = s.lastIncludedTerm
      BY <3>4, FullLine
    <3>6. Owned(Starts', Full(s), s.currentTerm)
      BY <1>3, <3>2, <3>3
    <3> QED BY <3>3, <3>5, <3>6 DEF Owned
  <2> QED BY <2>1, <2>2
<1> QED BY <1>3, <1>4, <1>5 DEF OwnersTrue

------------------------------------------------------------------------------
(* Acknowledgements and disks.                                             *)

LEMMA KeepsAcksPast ==
  ASSUME Known, Known', SafetyInv, NEW n \in Node, NodeTurn(n)
  PROVE  AcksPast'
<1> SUFFICES ASSUME NEW r \in Acks'
             PROVE  hs'[r.src].currentTerm >= r.term
  BY DEF AcksPast
<1>1. CASE r \in Acks
  <2>1. r.src \in Node /\ r.term \in Nat
    BY <1>1, AckFields DEF Known
  <2>2. hs[r.src].currentTerm >= r.term
    BY <1>1 DEF SafetyInv, AcksPast
  <2>3. NotBehind(hs'[r.src], hs[r.src])
    BY <2>1 DEF NodeTurn, DiskStep
  <2>4. hs[r.src].currentTerm \in Nat /\ hs'[r.src].currentTerm \in Nat
    BY <2>1, NodeStates, NodeStatesNext
  <2> QED BY <2>1, <2>2, <2>3, <2>4 DEF NotBehind
<1>2. CASE r \notin Acks
  <2>1. r.src = n /\ st'[n] = hs'[n] /\ r.term = st'[n].currentTerm
    BY <1>2, NewAck
  <2>2. st'[n].currentTerm \in Nat
    BY NodeStatesNext
  <2> QED BY <2>1, <2>2
<1> QED BY <1>1, <1>2

LEMMA KeepsDiskKnown ==
  ASSUME Known, Known', SafetyInv, NEW n \in Node, NodeTurn(n)
  PROVE  DiskKnown'
<1>1. DiskKnown /\ ProgressOK
  BY DEF SafetyInv
<1>2. SentEntries \subseteq SentEntries'
  BY TurnGrows DEF SentEntries
<1>3. \A e \in HeldEntries(hs[n]) :
        e \in HeldEntries(st[n]) \cup SentEntries \/ e.term = hs[n].currentTerm
  BY <1>1 DEF DiskKnown
<1>4. ASSUME NEW e \in HeldEntries(hs'[n]), ~(st'[n] = hs'[n])
      PROVE  e \in HeldEntries(st'[n]) \cup SentEntries' \/ e.term = hs'[n].currentTerm
  <2>1. CASE Kept(n)
    <3>1. HeldEntries(st'[n]) = HeldEntries(st[n])
      BY <2>1, SameLogs DEF Kept
    <3>2. CASE Saved(n)
      <4>1. HeldEntries(hs'[n]) = HeldEntries(st[n])
        BY <3>2, SameLogs DEF Saved
      <4> QED BY <1>4, <3>1, <4>1
    <3>3. CASE hs'[n] = hs[n]
      BY <1>2, <1>3, <1>4, <3>1, <3>3
    <3> QED BY <2>1, <3>2, <3>3 DEF Kept
  <2>2. CASE PushedLog(n)
    <3>1. PICK v \in Value : hs'[n] = PushEntry(st[n], v) /\ st'[n] = st[n]
      BY <1>4, <2>2 DEF PushedLog
    <3>2. PICK t \in HardState : t = st[n] /\ LogOK(t)
      BY NodeStates
    <3>3. PICK w : w = PushEntry(t, v)
      OBVIOUS
    <3>4. PICK x : x = [term |-> t.currentTerm, index |-> LastLogIndex(t) + 1, command |-> v]
      OBVIOUS
    <3>5. HeldEntries(w) = HeldEntries(t) \cup {x}
      BY <3>2, <3>3, <3>4, PushedLogOK DEF Command
    <3>6. w.currentTerm = t.currentTerm
      BY <3>2, <3>3, PushEntryType DEF Command
    <3> QED BY <1>4, <3>1, <3>2, <3>3, <3>4, <3>5, <3>6
  <2>3. ASSUME NEW m \in Appends, MergedBy(n, m)
        PROVE  e \in HeldEntries(st'[n]) \cup SentEntries'
    <3>1. PICK t \in HardState : t = st[n] /\ LogOK(t)
      BY NodeStates
    <3>2. PICK u : u = UpdateTerm(t, m.term)
      OBVIOUS
    <3>3. m.term \in Nat /\ m.term >= t.currentTerm
      BY <2>3, <3>1, AppendLine DEF Known, LogInv, MergedBy
    <3>4. u \in HardState /\ SameLog(u, t)
      BY <3>1, <3>2, <3>3, UpdatedTo
    <3>5. LogOK(u)
      BY <3>1, <3>4 DEF SameLog, LogOK
    <3>6. /\ AppendConsistent(u, m.prevIndex, m.prevTerm) /\ hs'[n] = Merged(u, m)
          /\ st'[n] = u
      BY <1>4, <2>3, <3>1, <3>2 DEF MergedBy, Merged
    <3>7. PICK w : w = Merged(u, m)
      OBVIOUS
    <3>8. HeldEntries(w) \subseteq HeldEntries(u) \cup {m.entries[k] : k \in 1 .. Len(m.entries)}
      BY <3>4, <3>5, <3>6, <3>7, MergedFacts DEF Known, LogInv
    <3>9. {m.entries[k] : k \in 1 .. Len(m.entries)} \subseteq SentEntries
      BY DEF SentEntries
    <3> QED BY <1>2, <1>4, <3>6, <3>7, <3>8, <3>9
  <2>4. CASE up[n] /\ Compacted(n)
    <3>1. InMemory(st[n], lastApplied[n])
      BY <1>1, <2>4, AppliedInMemory
    <3> QED BY <1>4, <2>4, <3>1 DEF Compacted
  <2>5. ~Dies(n) /\ ~Returns(n) /\ ~Adopts(n) /\ ~Learns(n)
    BY <1>4 DEF Dies, Returns, Adopts, InstalledBy, Learns
  <2> QED BY <2>1, <2>2, <2>3, <2>4, <2>5 DEF NodeTurn, Turn
<1>5. ASSUME NEW q \in Node, NEW e \in HeldEntries(hs'[q])
      PROVE  e \in HeldEntries(st'[q]) \cup SentEntries' \/ e.term = hs'[q].currentTerm
  <2>1. CASE q # n
    <3>1. hs'[q] = hs[q] /\ st'[q] = st[q]
      BY <2>1 DEF NodeTurn, Untouched
    <3> QED BY <1>1, <1>2, <1>5, <3>1 DEF DiskKnown
  <2>2. CASE q = n
    BY <1>4, <1>5, <2>2
  <2> QED BY <2>1, <2>2
<1> QED BY <1>5 DEF DiskKnown

(* A log past a chosen mark has it, or covers it.                          *)
LEMMA HoldsChosen ==
  ASSUME Known, SafetyInv, NEW n \in Node, NEW s, s = hs[n] \/ s = st[n],
         NEW k, Chosen(k), AtLeast(s, k)
  PROVE  AlreadyHolds(s, k[1], k[2])
<1>1. MarksOK /\ VotesGood /\ DecidedOK
  BY DEF SafetyInv
<1>2. s \in HardState /\ LogOK(s) /\ Rooted(Starts, Terms(s)) /\ ChosenAt(Base(s))
  BY NodeLines
<1>3. /\ IsMark(k) /\ k[1] >= 1 /\ k[2] > 0
      /\ \A term : NoBad(Starts, k[1], k[2], term)
      /\ DecidedTerms[k[1]] = k[2]
  BY <1>1, ChosenFacts
<1>4. k[1] \in Nat /\ k[2] \in Nat
  BY <1>3 DEF IsMark
<1>5. /\ LastLogIndex(s) \in Nat /\ LastLogTerm(s) \in Nat
      /\ s.lastIncludedIndex \in Nat /\ s.lastIncludedTerm \in Nat
      /\ LastLogIndex(s) >= s.lastIncludedIndex
      /\ \/ /\ LastLogIndex(s) = s.lastIncludedIndex /\ LastLogTerm(s) = s.lastIncludedTerm
            /\ Held(s) = {}
         \/ /\ LastLogIndex(s) > s.lastIncludedIndex /\ LastLogIndex(s) \in Held(s)
            /\ LastLogTerm(s) = Terms(s)[LastLogIndex(s)]
  BY <1>2, LastOfLine
<1>6. Past(LastLogIndex(s), LastLogTerm(s), k[1], k[2])
  BY DEF AtLeast
<1>7. PICK b : b = Base(s)
  OBVIOUS
<1>8. b[1] = s.lastIncludedIndex /\ b[2] = s.lastIncludedTerm /\ (b = <<0, 0>> \/ Chosen(b))
  BY <1>2, <1>7 DEF Base, ChosenAt
<1>9. CASE k[1] < s.lastIncludedIndex
  BY <1>9 DEF AlreadyHolds
<1>10. CASE k[1] = s.lastIncludedIndex
  <2>1. Chosen(b)
    BY <1>3, <1>8, <1>10
  <2>2. DecidedTerms[b[1]] = b[2]
    BY <1>1, <2>1, ChosenFacts
  <2>3. s.lastIncludedTerm = k[2]
    BY <1>3, <1>8, <1>10, <2>2
  <2>4. InMemory(s, k[1])
    BY <1>5, <1>10 DEF InMemory
  <2> QED BY <1>10, <2>3, <2>4 DEF AlreadyHolds, GetLogTerm
<1>11. CASE k[1] > s.lastIncludedIndex /\ Held(s) = {}
  <2>1. LastLogIndex(s) = b[1] /\ LastLogTerm(s) = b[2] /\ k[1] > b[1]
    BY <1>5, <1>8, <1>11
  <2>2. b[2] > k[2]
    BY <1>4, <1>5, <1>6, <1>8, <2>1 DEF Past
  <2>3. Chosen(b)
    BY <1>4, <1>8, <2>2
  <2>4. MarkOK(Starts, b[1], b[2])
    BY <1>1, <2>3, ChosenFacts
  <2>5. GoodStarts(Starts)
    BY <1>1, StartsGood
  <2>6. b[1] \in Nat /\ b[2] \in Nat
    BY <1>5, <1>8
  <2>7. b[1] >= k[1]
    BY <1>3, <1>4, <1>6, <2>1, <2>4, <2>5, <2>6, LaterMark
  <2> QED BY <1>4, <2>1, <2>6, <2>7
<1>12. CASE k[1] > s.lastIncludedIndex /\ LastLogIndex(s) \in Held(s)
  <2>1. LastLogTerm(s) = Terms(s)[LastLogIndex(s)]
    BY <1>5, <1>12
  <2>2. /\ IsLine(Terms(s)) /\ DOMAIN Terms(s) = Held(s)
        /\ \A i \in Held(s) : Terms(s)[i] = EntryAt(s, i).term /\ InMemory(s, i)
                              /\ GetLogTerm(s, i) = EntryAt(s, i).term
    BY <1>2, TermsLine
  <2>3. /\ LastLogIndex(s) >= k[1]
        /\ k[1] \in DOMAIN Terms(s) => Terms(s)[k[1]] = k[2]
    BY <1>1, <1>2, <1>6, <1>12, <2>1, <2>2, LineHasChosen
  <2>4. k[1] \in Held(s)
    BY <1>4, <1>5, <1>12, <2>3 DEF Held
  <2> QED BY <2>2, <2>3, <2>4 DEF AlreadyHolds
<1> QED BY <1>4, <1>5, <1>9, <1>10, <1>11, <1>12

(* A log with an entry of the sender's term where the request ends, or     *)
(* after, already has all of the request.                                  *)
LEMMA NoConflict ==
  ASSUME Known, SafetyInv, NEW m \in Appends, NEW s \in HardState, LogOK(s),
         Rooted(Starts, Terms(s)), AppendConsistent(s, m.prevIndex, m.prevTerm),
         NEW i \in Held(s), EntryAt(s, i).term = m.term, i >= End(m)
  PROVE  Merged(s, m) = s
<1>1. TypeOK /\ LogsOK /\ MarksOK /\ GoodStarts(Starts)
  BY StartsGood DEF SafetyInv, Known, LogInv
<1>2. /\ IsLine(AppendTerms(m)) /\ DOMAIN AppendTerms(m) = m.prevIndex .. End(m)
      /\ m.prevIndex \in Nat /\ End(m) \in Nat /\ m.term \in Nat
  BY <1>1, AppendLine
<1>3. /\ Rooted(Starts, AppendTerms(m))
      /\ Owned(Starts, AppendTerms(m), m.term) /\ Starts[m.term].index <= End(m)
  BY DEF SafetyInv, LinesRooted, OwnersTrue
<1>4. m.term \in DOMAIN Starts /\ m.term > 0 /\ Starts[m.term].index \in Nat
  <2>1. m.term \in DOMAIN Starts
    BY OldSenders, ElectedInStarts
  <2> QED BY <1>1, <2>1 DEF GoodStarts
<1>5. /\ IsLine(Terms(s)) /\ DOMAIN Terms(s) = Held(s) /\ i \in Nat
      /\ \A j \in Held(s) : Terms(s)[j] = EntryAt(s, j).term
  BY <1>1, TermsLine
<1>6. m.prevIndex >= s.lastIncludedIndex /\ s.lastIncludedIndex \in Nat /\ LastLogIndex(s) \in Nat
  BY HardStateFields DEF AppendConsistent, InMemory
<1>7. \A j \in m.prevIndex + 1 .. End(m) : j \in Held(s)
  BY <1>2, <1>5, <1>6 DEF Held
<1>8. ASSUME NEW j \in m.prevIndex + 1 .. End(m)
      PROVE  EntryAt(s, j).term = AppendTerms(m)[j]
  <2>1. End(m) \in Held(s) /\ j \in Held(s) /\ j <= End(m) /\ j \in Nat
    BY <1>2, <1>7
  <2>2. End(m) \in DOMAIN AppendTerms(m) /\ j \in DOMAIN AppendTerms(m)
    BY <1>2, <2>1
  <2>3. OwnMark(Starts, End(m), Terms(s)[End(m)], m.term)
    BY <1>4, <1>5, <2>1 DEF Rooted
  <2>4. OwnMark(Starts, End(m), AppendTerms(m)[End(m)], m.term)
    BY <1>3, <2>2 DEF Owned
  <2>5. Terms(s)[End(m)] = AppendTerms(m)[End(m)]
    BY <1>2, <1>3, <1>4, <2>3, <2>4 DEF OwnMark
  <2>6. Terms(s)[j] = AppendTerms(m)[j]
    BY <1>1, <1>2, <1>3, <1>5, <2>1, <2>2, <2>5, LinesMatch
  <2> QED BY <1>5, <2>1, <2>6
<1>9. PICK w : w = Merged(s, m)
  OBVIOUS
<1>10. (\A j \in m.prevIndex + 1 .. End(m) :
          j \in Held(s) /\ EntryAt(s, j).term = AppendTerms(m)[j]) => w = s
  BY <1>1, <1>9, MergedFacts
<1> QED BY <1>7, <1>8, <1>9, <1>10

------------------------------------------------------------------------------
(* What is evidence after a step.                                          *)

LEMMA MarkHeld ==
  ASSUME NEW s \in HardState, LogOK(s), NEW k \in Marks(s), k # Base(s)
  PROVE  k[1] \in Held(s) /\ EntryAt(s, k[1]).term = k[2]
<1>1. PICK j \in 2 .. Len(s.log) : k = EntryMark(s.log[j])
  BY DEF Marks, HeldEntries
<1>2. s.log[j].index = s.lastIncludedIndex + j - 1
  BY <1>1, HardStateFields DEF LogOK
<1>3. j \in Nat /\ s.lastIncludedIndex \in Nat /\ Len(s.log) \in Nat
  BY <1>1, HardStateFields
<1>4. k[1] = s.lastIncludedIndex + j - 1 /\ k[2] = s.log[j].term
  BY <1>1, <1>2 DEF EntryMark
<1>5. k[1] - s.lastIncludedIndex + 1 = j
  BY <1>3, <1>4
<1>6. k[1] \in Held(s)
  BY <1>1, <1>3, <1>4 DEF Held, LastLogIndex
<1> QED BY <1>4, <1>5, <1>6 DEF EntryAt

NewlyAcked(k) ==
  \E r \in Acks' \ Acks :
    /\ r.term = k[2] /\ IsMark(k) /\ k[2] \in DOMAIN Starts
    /\ k[1] > Starts[k[2]].index /\ k[1] <= r.lastLogIndex

JustPushed(n, k) ==
  PushedLog(n) /\ st'[n] = hs'[n] /\ k = <<LastLogIndex(st[n]) + 1, st[n].currentTerm>>

Reappeared(n, k) ==
  /\ Dies(n) \/ Returns(n)
  /\ <<k[2], n>> \in elected /\ k[2] = hs[n].currentTerm
  /\ k[1] \in Held(st'[n]) /\ EntryAt(st'[n], k[1]).term = k[2]

LEMMA OldOrNewMark ==
  ASSUME Known, Known', SafetyInv, NEW n \in Node, NodeTurn(n), NEW q \in Node,
         NEW k, <<k[2], q>> \in elected', k \in MarksBut(q) \cup Marks(hs[q])
  PROVE  <<k[2], q>> \in elected
<1>1. k[2] = 0 \/ IsElected(k[2])
  BY DEF Known, LogInv, MarksElected
<1>2. k[2] # 0
  BY DEF Known, LogInv, RequestsTrue, RequestsOf
<1>3. PICK p \in Node : <<k[2], p>> \in elected
  BY <1>1, <1>2 DEF IsElected
<1>4. p = q
  BY <1>3, OnlyLeader
<1> QED BY <1>3, <1>4

AckedSays ==
  \A q \in Node : \A k \in Acked(q) :
    \E r \in Acks : /\ r.src = q /\ r.term = k[2] /\ IsMark(k)
                    /\ k[1] > Starts[r.term].index /\ k[1] <= r.lastLogIndex

LEMMA AckedMarks == Known /\ MarksOK => AckedSays
BY AckedMark DEF AckedSays

LEMMA NewEvidence ==
  ASSUME Known, Known', SafetyInv, NEW n \in Node, NodeTurn(n), NEW q \in Node,
         NEW k \in Evidence(q)'
  PROVE  \/ k \in Evidence(q)
         \/ q = n /\ (NewlyAcked(k) \/ JustPushed(n, k) \/ Reappeared(n, k))
<1>1. /\ MarksOK /\ LeadersRemember /\ ProgressOK /\ DiskKnown /\ MarksOK' /\ SnapshotsOK
      /\ GoodStarts(Starts) /\ Extends(Starts', Starts) /\ elected \subseteq elected'
  BY NextStarts, TurnGrows DEF SafetyInv
<1>2. CASE k \in Acked(q)'
  <2>1. PICK r \in Acks' : /\ r.src = q /\ r.term = k[2] /\ IsMark(k)
                           /\ k[1] > Starts'[r.term].index /\ k[1] <= r.lastLogIndex
    <3>1. (Known /\ MarksOK => AckedSays)'
      BY AckedMarks, PTL
    <3> QED BY <1>1, <1>2, <3>1 DEF AckedSays
  <2>2. CASE r \in Acks
    <3>1. r.term \in DOMAIN Starts
      BY <2>2, OldSenders, ElectedInStarts
    <3>2. Starts'[r.term] = Starts[r.term]
      BY <1>1, <3>1 DEF Extends
    <3>3. k \in Acked(q)
      BY <1>1, <2>1, <2>2, <3>2, AckedMark
    <3> QED BY <3>3 DEF Evidence
  <2>3. CASE r \notin Acks
    <3>1. r.src = n /\ \E m \in Appends \cup Installs : r.term = m.term
      BY <2>3, NewAck
    <3>2. r.term \in DOMAIN Starts
      BY <3>1, OldSenders, ElectedInStarts
    <3>3. Starts'[r.term] = Starts[r.term]
      BY <1>1, <3>2 DEF Extends
    <3> QED BY <2>1, <2>3, <3>1, <3>2, <3>3 DEF NewlyAcked
  <2> QED BY <2>2, <2>3
<1>3. CASE k \in Own(q)'
  <2>1. k \in MarksBut(q)' /\ <<k[2], q>> \in elected'
    BY <1>3 DEF Own
  <2>2. k \in MarksBut(q) => k \in Evidence(q)
    BY <2>1, OldOrNewMark DEF Own, Evidence
  <2>3. Shared(n) \subseteq MarksBut(q) /\ (q # n => Marks(hs[n]) \subseteq MarksBut(q))
    BY SharedMarks DEF MarksBut
  <2>4. PushedLog(n) /\ k = <<LastLogIndex(st[n]) + 1, st[n].currentTerm>> => q = n
    <3> SUFFICES ASSUME PushedLog(n), k = <<LastLogIndex(st[n]) + 1, st[n].currentTerm>>
                 PROVE  q = n
      OBVIOUS
    <3>1. <<st[n].currentTerm, n>> \in elected
      BY <1>1, LeaderTerm DEF PushedLog
    <3>2. k[2] = st[n].currentTerm
      OBVIOUS
    <3> QED BY <2>1, <3>1, <3>2, OnlyLeader
  <2>5. k \in MarksBut(q) \/ k \in Marks(st'[n]) \/ (q # n /\ k \in Marks(hs'[n]))
    BY <1>1, <2>1, NewMarks
  <2>6. CASE q # n /\ k \in Marks(hs'[n])
    <3>1. Turn(n)
      BY DEF NodeTurn
    <3>2. \/ k \in Shared(n) \cup Marks(hs[n])
          \/ PushedLog(n) /\ k = <<LastLogIndex(st[n]) + 1, st[n].currentTerm>>
      BY <1>1, <2>6, <3>1, TurnMarks
    <3> QED BY <2>2, <2>3, <2>4, <2>6, <3>2
  <2>7. CASE k \in Marks(st'[n]) /\ k \notin MarksBut(q)
    <3>1. Turn(n)
      BY DEF NodeTurn
    <3>2. \/ k \in Shared(n)
          \/ k \in Marks(hs[n]) /\ (Dies(n) \/ Returns(n))
          \/ /\ PushedLog(n) /\ st'[n] = hs'[n]
             /\ k = <<LastLogIndex(st[n]) + 1, st[n].currentTerm>>
      BY <1>1, <2>7, <3>1, TurnMarks
    <3>3. CASE PushedLog(n) /\ st'[n] = hs'[n] /\ k = <<LastLogIndex(st[n]) + 1, st[n].currentTerm>>
      BY <2>4, <3>3 DEF JustPushed
    <3>4. CASE k \in Marks(hs[n]) /\ (Dies(n) \/ Returns(n))
      <4>1. q = n /\ k \notin Shared(n)
        BY <2>3, <2>7, <3>4
      <4>2. k \notin Marks(st[n]) /\ k \notin SentMarks /\ k \notin StoredMarks
        BY <4>1 DEF Shared
      <4>3. <<k[2], n>> \in elected
        BY <2>1, <3>4, <4>1, OldOrNewMark
      <4>4. Base(hs[n]) = Base(st[n]) /\ k # Base(hs[n])
        BY <1>1, <4>2 DEF SnapshotsOK, Marks
      <4>5. PICK e \in HeldEntries(hs[n]) : k = EntryMark(e)
        BY <3>4, <4>4 DEF Marks
      <4>6. e.term = hs[n].currentTerm
        BY <1>1, <4>2, <4>5 DEF DiskKnown, Marks, SentMarks
      <4>7. k # Base(st'[n])
        <5>1. CASE Dies(n)
          BY <4>2, <4>4, <5>1, SameLogs DEF Dies, Saved, Marks
        <5>2. CASE Returns(n)
          <6>1. PICK s : s = st'[n]
            OBVIOUS
          <6>2. s = Recovered(hs[n], snapFile[n])
            BY <5>2, <6>1 DEF Returns
          <6>3. \/ s = hs[n]
                \/ /\ snapFile[n] # Nil
                   /\ Base(s) = <<snapFile[n].index, snapFile[n].term>>
            BY <6>2, ReturnedLog
          <6> QED BY <4>2, <4>4, <6>1, <6>3 DEF StoredMarks
        <5> QED BY <3>4, <5>1, <5>2
      <4>8. k[1] \in Held(st'[n]) /\ EntryAt(st'[n], k[1]).term = k[2]
        <5>1. PICK s : s = st'[n]
          OBVIOUS
        <5>2. s \in HardState /\ LogOK(s)
          BY <5>1, NodeStatesNext
        <5> QED BY <2>7, <4>7, <5>1, <5>2, MarkHeld
      <4>9. k[2] = hs[n].currentTerm
        BY <4>5, <4>6 DEF EntryMark
      <4> QED BY <3>4, <4>1, <4>3, <4>8, <4>9 DEF Reappeared
    <3> QED BY <2>3, <2>7, <3>2, <3>3, <3>4
  <2> QED BY <2>2, <2>5, <2>6, <2>7
<1> QED BY <1>2, <1>3 DEF Evidence

(* What a node made or acknowledged is of no later term than its disk.     *)
LEMMA EvidenceDurable ==
  ASSUME Known, SafetyInv, NEW q \in Node, NEW k \in Evidence(q)
  PROVE  k[2] <= hs[q].currentTerm /\ k[1] \in Nat /\ k[2] \in Nat
<1>1. MarksOK
  BY DEF SafetyInv
<1>2. k[1] \in Nat /\ k[2] \in Nat
  BY <1>1, EvidenceMark DEF IsMark
<1>3. CASE k \in Acked(q)
  <2>1. PICK r \in Acks : r.src = q /\ r.term = k[2]
    BY <1>1, <1>3, AckedMark
  <2>2. hs[q].currentTerm >= r.term
    BY <2>1 DEF SafetyInv, AcksPast
  <2>3. hs[q].currentTerm \in Nat
    BY NodeStates
  <2> QED BY <1>2, <2>1, <2>2, <2>3
<1>4. CASE k \in Own(q)
  <2>1. <<k[2], q>> \in elected
    BY <1>4 DEF Own
  <2>2. hs[q].currentTerm >= k[2]
    BY <2>1 DEF Known, LeaderInv, ElectedDurable
  <2>3. hs[q].currentTerm \in Nat
    BY NodeStates
  <2> QED BY <1>2, <2>2, <2>3
<1> QED BY <1>2, <1>3, <1>4 DEF Evidence

LEMMA EarlierNoBad ==
  ASSUME NEW S, DOMAIN S \subseteq Nat, NEW k, NEW c, NEW t \in Nat, NEW term \in Nat,
         t <= term, NoBad(S, k, c, term)
  PROVE  NoBad(S, k, c, t)
BY DEF NoBad

(* An index that a node acknowledged in its term it has, in that term.     *)
LEMMA StillAcked ==
  ASSUME Known, SafetyInv, NEW n \in Node, NEW m \in Appends, m.dst = n,
         m.term >= st[n].currentTerm,
         NEW k \in Evidence(n), k[2] = m.term
  PROVE  \E r \in Acks : /\ r.src = n /\ r.term = m.term /\ r.lastLogIndex \in Nat
                         /\ k[1] <= r.lastLogIndex
                         /\ r.lastLogIndex <= LastLogIndex(st[n])
                         /\ r.lastLogIndex \in Held(st[n]) =>
                              EntryAt(st[n], r.lastLogIndex).term = m.term
<1>1. MarksOK /\ AckMatch /\ m.dst = n
  BY DEF SafetyInv
<1>2. <<m.term, m.src>> \in elected /\ m.src # n
  BY <1>1, OldSenders
<1>3. k \notin Own(n)
  BY <1>2 DEF Own, Known, ElectionSafety
<1>4. PICK r \in Acks : /\ r.src = n /\ r.term = k[2] /\ IsMark(k)
                        /\ k[1] > Starts[r.term].index /\ k[1] <= r.lastLogIndex
  BY <1>1, <1>3, AckedMark DEF Evidence
<1>5. r.lastLogIndex \in Nat
  BY AckFields DEF Known
<1>6. m.term \in DOMAIN Starts /\ Starts[m.term].index \in Nat
  <2>1. m.term \in DOMAIN Starts
    BY <1>2, ElectedInStarts
  <2> QED BY <1>1, <2>1, StartsGood DEF GoodStarts
<1>7. st[n].currentTerm = m.term
  <2>1. hs[n].currentTerm >= m.term
    BY <1>4 DEF SafetyInv, AcksPast
  <2>2. hs[n].currentTerm \in Nat /\ st[n].currentTerm \in Nat
        /\ hs[n].currentTerm <= st[n].currentTerm
    BY NodeStates
  <2>3. m.term \in Nat
    BY <1>1, <1>6, StartsGood DEF GoodStarts
  <2> QED BY <2>1, <2>2, <2>3
<1>8. r.lastLogIndex > Starts[r.term].index
  BY <1>4, <1>5, <1>6 DEF IsMark
<1> QED BY <1>1, <1>4, <1>5, <1>7, <1>8 DEF AckMatch

(* The last entry of a log that a request replaced.                        *)
LEMMA MergedEnd ==
  ASSUME Known, SafetyInv, NEW n \in Node, NEW m \in Appends, NEW w, MergedTo(n, w, m)
  PROVE  /\ w \in HardState /\ LogOK(w) /\ w.currentTerm = m.term /\ m.term \in Nat
         /\ m.term >= st[n].currentTerm
         /\ m.term \in DOMAIN Starts /\ End(m) \in Nat /\ End(m) >= Starts[m.term].index
         /\ OwnMark(Starts, End(m), GetLogTerm(w, End(m)), m.term)
         /\ GetLogTerm(w, End(m)) \in Nat
         /\ \/ SameLog(w, st[n])
            \/ /\ LastLogIndex(w) = End(m) /\ LastLogTerm(w) = GetLogTerm(w, End(m))
               /\ \A i \in Held(st[n]) : EntryAt(st[n], i).term = m.term => i < End(m)
<1>1. PICK u \in HardState :
           /\ SameLog(u, st[n]) /\ u.currentTerm = m.term /\ m.term \in Nat
           /\ m.term >= st[n].currentTerm
           /\ LogOK(u) /\ Rooted(Starts, Terms(u))
           /\ AppendConsistent(u, m.prevIndex, m.prevTerm) /\ w = Merged(u, m)
  BY MergeReady
<1>2. TypeOK /\ LogsOK /\ MarksOK /\ GoodStarts(Starts)
  BY StartsGood DEF SafetyInv, Known, LogInv
<1>3. /\ w \in HardState /\ LogOK(w) /\ w.currentTerm = u.currentTerm
      /\ \A j \in m.prevIndex .. End(m) : GetLogTerm(w, j) = AppendTerms(m)[j]
      /\ w = u \/ LastLogIndex(w) = End(m)
  BY <1>1, <1>2, MergedFacts
<1>4. /\ m.prevIndex \in Nat /\ End(m) \in Nat /\ End(m) \in DOMAIN AppendTerms(m)
      /\ DOMAIN AppendTerms(m) = m.prevIndex .. End(m) /\ IsLine(AppendTerms(m))
  BY <1>2, AppendLine
<1>5. GetLogTerm(w, End(m)) = AppendTerms(m)[End(m)]
  BY <1>3, <1>4
<1>6. Owned(Starts, AppendTerms(m), m.term) /\ Starts[m.term].index <= End(m)
  BY DEF SafetyInv, OwnersTrue
<1>7. m.term \in DOMAIN Starts /\ Starts[m.term].index \in Nat
  <2>1. m.term \in DOMAIN Starts
    BY OldSenders, ElectedInStarts
  <2> QED BY <1>2, <2>1 DEF GoodStarts
<1>8. AppendTerms(m)[End(m)] \in Nat
  BY <1>4 DEF IsLine
<1>9. CASE w = u
  BY <1>1, <1>3, <1>4, <1>5, <1>6, <1>7, <1>8, <1>9 DEF Owned
<1>10. CASE w # u
  <2>1. LastLogIndex(w) = End(m)
    BY <1>3, <1>10
  <2>2. LastLogTerm(w) = GetLogTerm(w, LastLogIndex(w))
    BY <1>3, LastOfLine
  <2>3. ASSUME NEW i \in Held(st[n]), EntryAt(st[n], i).term = m.term
        PROVE  i < End(m)
    <3>1. Held(u) = Held(st[n]) /\ EntryAt(u, i) = EntryAt(st[n], i)
      BY <1>1, SameLogs
    <3>2. i \in Nat
      BY <1>1, <3>1, TermsLine
    <3>3. ~(i >= End(m))
      BY <1>1, <1>10, <2>3, <3>1, NoConflict
    <3> QED BY <1>4, <3>2, <3>3
  <2> QED BY <1>1, <1>3, <1>4, <1>5, <1>6, <1>7, <1>8, <2>1, <2>2, <2>3 DEF Owned
<1> QED BY <1>9, <1>10

(* Old evidence stays.                                                     *)
LEMMA EvidenceStays ==
  ASSUME Known, SafetyInv, NEW n \in Node, NEW k \in Evidence(n), NEW s \in HardState, From(n, s),
         NoBad(Starts, k[1], k[2], s.currentTerm)
  PROVE  AtLeast(s, k)
<1>1. /\ MarksOK /\ EvidenceKept /\ GoodStarts(Starts) /\ DOMAIN Starts \subseteq Nat
  BY StartsGood DEF SafetyInv, GoodStarts
<1>2. /\ k[1] \in Nat /\ k[2] \in Nat /\ k[2] <= hs[n].currentTerm
      /\ k[1] > Starts[k[2]].index /\ k[2] \in DOMAIN Starts
  BY <1>1, EvidenceDurable, EvidenceMark
<1>3. /\ st[n] \in HardState /\ hs[n] \in HardState /\ LogOK(st[n]) /\ LogOK(hs[n])
      /\ st[n].currentTerm \in Nat /\ hs[n].currentTerm \in Nat
      /\ hs[n].currentTerm <= st[n].currentTerm
  BY NodeStates
<1>4. \A t \in {hs[n], st[n]} :
        NoBad(Starts, k[1], k[2], t.currentTerm) => AtLeast(t, k)
  BY <1>1 DEF EvidenceKept
<1>5. s.currentTerm \in Nat
  BY HardStateFields
<1>6. CASE Stayed(n, s)
  <2>1. PICK t \in {hs[n], st[n]} : SameLog(s, t) /\ s.currentTerm >= t.currentTerm
    BY <1>6 DEF Stayed
  <2>2. NoBad(Starts, k[1], k[2], t.currentTerm)
    BY <1>1, <1>3, <1>5, <2>1, EarlierNoBad
  <2> QED BY <1>4, <2>1, <2>2, SameLogs
<1>7. /\ LastLogIndex(st[n]) \in Nat /\ LastLogTerm(st[n]) \in Nat
      /\ LastLogTerm(st[n]) = st[n].lastIncludedTerm
         \/ /\ LastLogIndex(st[n]) \in Held(st[n])
            /\ LastLogTerm(st[n]) = Terms(st[n])[LastLogIndex(st[n])]
  BY <1>3, LastOfLine
<1>8. s.currentTerm >= st[n].currentTerm => AtLeast(st[n], k)
  <2> SUFFICES ASSUME s.currentTerm >= st[n].currentTerm
               PROVE  AtLeast(st[n], k)
    OBVIOUS
  <2>1. NoBad(Starts, k[1], k[2], st[n].currentTerm)
    BY <1>1, <1>3, <1>5, EarlierNoBad
  <2> QED BY <1>4, <2>1
<1>9. CASE PushedTo(n, s)
  <2>1. PICK v \in Value : s = PushEntry(st[n], v)
    BY <1>9 DEF PushedTo
  <2>2. role[n] = "Leader"
    BY <1>9 DEF PushedTo
  <2>3. /\ LastLogIndex(s) = LastLogIndex(st[n]) + 1
        /\ LastLogTerm(s) = st[n].currentTerm
    BY <2>1, <2>2, PushedFull DEF SafetyInv
  <2>4. s.currentTerm = st[n].currentTerm
    BY <1>3, <2>1, PushEntryType DEF Command
  <2>5. Past(LastLogIndex(st[n]), LastLogTerm(st[n]), k[1], k[2])
    BY <1>3, <1>8, <2>4 DEF AtLeast
  <2>6. LastLogTerm(st[n]) <= st[n].currentTerm
    <3>1. CASE LastLogTerm(st[n]) = st[n].lastIncludedTerm
      BY <2>2, <3>1 DEF Known, LogInv, TermsBounded
    <3>2. CASE /\ LastLogIndex(st[n]) \in Held(st[n])
               /\ LastLogTerm(st[n]) = Terms(st[n])[LastLogIndex(st[n])]
      <4>1. EntryAt(st[n], LastLogIndex(st[n])) \in HeldEntries(st[n])
        BY <1>3, <3>2, HeldEntry
      <4>2. LastLogTerm(st[n]) = EntryAt(st[n], LastLogIndex(st[n])).term
        BY <1>3, <3>2, TermsLine
      <4>3. LastLogTerm(st[n]) <= hs[n].currentTerm
        BY <4>1, <4>2 DEF Known, LogInv, TermsBounded
      <4> QED BY <1>3, <1>7, <4>3
    <3> QED BY <1>7, <3>1, <3>2
  <2> QED BY <1>2, <1>3, <1>7, <2>3, <2>5, <2>6 DEF AtLeast, Past
<1>10. CASE CompactedTo(n, s)
  <2>1. PICK i : i = lastApplied[n]
    OBVIOUS
  <2>2. /\ s.currentTerm = st[n].currentTerm
        /\ LastLogIndex(s) = LastLogIndex(st[n]) /\ LastLogTerm(s) = LastLogTerm(st[n])
    BY <1>10, <2>1, CompactReady
  <2> QED BY <1>3, <1>8, <2>2 DEF AtLeast
<1>11. ASSUME NEW m \in Appends, MergedTo(n, s, m)
       PROVE  AtLeast(s, k)
  <2>1. /\ LogOK(s) /\ s.currentTerm = m.term /\ m.term \in Nat
        /\ m.term >= st[n].currentTerm
        /\ m.term \in DOMAIN Starts /\ End(m) \in Nat /\ End(m) >= Starts[m.term].index
        /\ OwnMark(Starts, End(m), GetLogTerm(s, End(m)), m.term)
        /\ GetLogTerm(s, End(m)) \in Nat
        /\ \/ SameLog(s, st[n])
           \/ /\ LastLogIndex(s) = End(m) /\ LastLogTerm(s) = GetLogTerm(s, End(m))
              /\ \A i \in Held(st[n]) : EntryAt(st[n], i).term = m.term => i < End(m)
    BY <1>11, MergedEnd
  <2>2. AtLeast(st[n], k)
    BY <1>8, <2>1
  <2>3. CASE SameLog(s, st[n])
    BY <2>2, <2>3, SameLogs
  <2>4. CASE /\ LastLogIndex(s) = End(m) /\ LastLogTerm(s) = GetLogTerm(s, End(m))
             /\ \A i \in Held(st[n]) : EntryAt(st[n], i).term = m.term => i < End(m)
    <3>1. k[2] <= m.term
      BY <1>2, <1>3, <2>1
    <3>2. NoBad(Starts, k[1], k[2], m.term)
      BY <2>1
    <3>3. k[2] = m.term => k[1] <= End(m)
      <4> SUFFICES ASSUME k[2] = m.term
                   PROVE  k[1] <= End(m)
        OBVIOUS
      <4>1. m.dst = n
        BY <1>11 DEF MergedTo
      <4>2. PICK r \in Acks : /\ r.lastLogIndex \in Nat /\ k[1] <= r.lastLogIndex
                              /\ r.lastLogIndex <= LastLogIndex(st[n])
                              /\ r.lastLogIndex \in Held(st[n]) =>
                                   EntryAt(st[n], r.lastLogIndex).term = m.term
        BY <2>1, <4>1, StillAcked
      <4>3. CASE r.lastLogIndex \in Held(st[n])
        BY <1>2, <2>1, <2>4, <4>2, <4>3
      <4>4. CASE r.lastLogIndex \notin Held(st[n])
        <5>1. r.lastLogIndex <= st[n].lastIncludedIndex
          BY <1>7, <4>2, <4>4, NodeStates DEF Held
        <5>2. End(m) >= st[n].lastIncludedIndex
          <6>1. PICK u \in HardState : 
                   /\ SameLog(u, st[n]) /\ AppendConsistent(u, m.prevIndex, m.prevTerm)
            BY <1>11, MergeReady
          <6>2. m.prevIndex >= u.lastIncludedIndex
            BY <6>1, HardStateFields DEF AppendConsistent, InMemory
          <6>3. u.lastIncludedIndex = st[n].lastIncludedIndex
            BY <6>1, SameLogs
          <6>4. m.prevIndex \in Nat /\ Len(m.entries) \in Nat /\ End(m) = m.prevIndex + Len(m.entries)
            BY AppendLine DEF Known, LogInv
          <6>5. st[n].lastIncludedIndex \in Nat
            BY NodeStates
          <6> QED BY <6>2, <6>3, <6>4, <6>5
        <5>3. st[n].lastIncludedIndex \in Nat
          BY NodeStates
        <5> QED BY <1>2, <2>1, <4>2, <5>1, <5>2, <5>3
      <4> QED BY <4>3, <4>4
    <3>4. Past(End(m), GetLogTerm(s, End(m)), k[1], k[2])
      <4>1. k[2] < m.term \/ (k[2] = m.term /\ k[1] <= End(m) /\ k[1] > Starts[m.term].index)
        BY <1>2, <2>1, <3>1, <3>3
      <4> QED BY <1>1, <1>2, <2>1, <3>2, <4>1, OwnerPast
    <3> QED BY <2>4, <3>4 DEF AtLeast
  <2> QED BY <2>1, <2>3, <2>4
<1>12. ASSUME NEW m \in Installs, InstalledTo(n, s, m)
       PROVE  AtLeast(s, k)
  <2>1. /\ s.currentTerm = m.term /\ LastLogIndex(s) = m.index /\ LastLogTerm(s) = m.snapTerm
        /\ m.index \in Nat /\ m.snapTerm \in Nat /\ Chosen(<<m.index, m.snapTerm>>)
    <3>1. IsInstalled(s, m)
      BY <1>12, InstallFacts
    <3> QED BY <3>1 DEF IsInstalled
  <2>2. AtLeast(st[n], k)
    BY <1>8, <1>12, <2>1 DEF InstalledTo
  <2>3. ~AlreadyHolds(st[n], m.index, m.snapTerm)
    BY <1>12 DEF InstalledTo
  <2>4. ~AtLeast(st[n], <<m.index, m.snapTerm>>)
    BY <2>1, <2>3, HoldsChosen
  <2> QED BY <1>2, <1>7, <2>1, <2>2, <2>4 DEF AtLeast, Past
<1>13. CASE RecoveredTo(n, s)
  <2>1. /\ s.currentTerm = hs[n].currentTerm
        /\ \/ s = hs[n]
           \/ /\ snapFile[n] # Nil /\ snapFile[n].index > hs[n].lastIncludedIndex
              /\ \/ /\ LastLogIndex(s) = LastLogIndex(hs[n])
                    /\ LastLogTerm(s) = LastLogTerm(hs[n])
                 \/ /\ snapFile[n].index >= LastLogIndex(hs[n])
                    /\ LastLogIndex(s) = snapFile[n].index /\ LastLogTerm(s) = snapFile[n].term
    BY <1>13, ReturnedLog DEF RecoveredTo
  <2>2. AtLeast(hs[n], k)
    BY <1>4, <2>1
  <2>3. CASE /\ snapFile[n] # Nil /\ snapFile[n].index > hs[n].lastIncludedIndex
             /\ snapFile[n].index >= LastLogIndex(hs[n])
             /\ LastLogIndex(s) = snapFile[n].index /\ LastLogTerm(s) = snapFile[n].term
    <3>1. PICK i, t : i = snapFile[n].index /\ t = snapFile[n].term
      OBVIOUS
    <3>2. i \in Nat /\ t \in Nat /\ Chosen(<<i, t>>)
      BY <2>3, <3>1, FileFacts
    <3>3. AtLeast(hs[n], <<i, t>>) => AlreadyHolds(hs[n], i, t)
      BY <3>2, HoldsChosen
    <3>4. /\ LastLogIndex(hs[n]) \in Nat /\ LastLogTerm(hs[n]) \in Nat
          /\ LastLogTerm(hs[n]) = GetLogTerm(hs[n], LastLogIndex(hs[n]))
          /\ hs[n].lastIncludedIndex \in Nat
      BY <1>3, LastOfLine
    <3>5. CASE AlreadyHolds(hs[n], i, t)
      <4>1. i = LastLogIndex(hs[n]) /\ GetLogTerm(hs[n], i) = t
        BY <2>3, <3>1, <3>2, <3>4, <3>5 DEF AlreadyHolds, InMemory
      <4> QED BY <2>2, <2>3, <3>1, <3>4, <4>1 DEF AtLeast
    <3>6. CASE ~AtLeast(hs[n], <<i, t>>)
      BY <1>2, <2>2, <2>3, <3>1, <3>2, <3>4, <3>6 DEF AtLeast, Past
    <3> QED BY <3>3, <3>5, <3>6
  <2> QED BY <2>1, <2>2, <2>3 DEF AtLeast
<1> QED BY <1>6, <1>9, <1>10, <1>11, <1>12, <1>13 DEF From

(* What a node just made or acknowledged its log is past.                  *)
LEMMA FreshEvidence ==
  ASSUME Known, Known', SafetyInv, NEW n \in Node, NodeTurn(n),
         NEW k, IsMark(k), k \notin Evidence(n),
         NewlyAcked(k) \/ JustPushed(n, k) \/ Reappeared(n, k)
  PROVE  st'[n] = hs'[n] /\ AtLeast(st'[n], k)
<1>1. MarksOK /\ GoodStarts(Starts) /\ LeadersRemember /\ OwnersTrue /\ ProgressOK
  BY StartsGood DEF SafetyInv
<1>2. PICK s : s = st'[n]
  OBVIOUS
<1>3. s \in HardState /\ LogOK(s) /\ Rooted(Starts, Terms(s))
  BY <1>1, <1>2, NodeStatesNext, Sources, LineFrom
<1>4. k[1] \in Nat /\ k[2] \in Nat /\ k = <<k[1], k[2]>>
  BY DEF IsMark
<1>5. /\ LastLogIndex(s) \in Nat /\ LastLogTerm(s) \in Nat
      /\ LastLogTerm(s) = GetLogTerm(s, LastLogIndex(s))
      /\ s.lastIncludedIndex \in Nat
      /\ LastLogIndex(s) > s.lastIncludedIndex =>
           LastLogIndex(s) \in Held(s) /\ LastLogTerm(s) = Terms(s)[LastLogIndex(s)]
  BY <1>3, LastOfLine
<1>6. ASSUME NEW i \in Held(s), EntryAt(s, i).term = k[2], k[1] <= i
      PROVE  AtLeast(s, k)
  <2>1. /\ IsLine(Terms(s)) /\ DOMAIN Terms(s) = Held(s)
        /\ \A j \in Held(s) : Terms(s)[j] = EntryAt(s, j).term /\ j \in Nat
    BY <1>3, TermsLine
  <2>2. i <= LastLogIndex(s) /\ i > s.lastIncludedIndex /\ i \in Nat
    BY <1>5, <1>6, <2>1 DEF Held
  <2>3. LastLogIndex(s) \in Held(s) /\ LastLogTerm(s) = Terms(s)[LastLogIndex(s)]
    BY <1>5, <2>2
  <2>4. Terms(s)[i] <= Terms(s)[LastLogIndex(s)]
    BY <1>1, <1>3, <2>1, <2>2, <2>3, LineMonotone
  <2>5. k[2] <= LastLogTerm(s)
    BY <1>6, <2>1, <2>3, <2>4
  <2> QED BY <1>4, <1>5, <1>6, <2>2, <2>5 DEF AtLeast, Past
<1>7. CASE NewlyAcked(k)
  <2>1. PICK r \in Acks' \ Acks :
          /\ r.term = k[2] /\ k[2] \in DOMAIN Starts
          /\ k[1] > Starts[k[2]].index /\ k[1] <= r.lastLogIndex
    BY <1>7 DEF NewlyAcked
  <2>2. /\ r.src = n /\ st'[n] = hs'[n]
        /\ \/ \E m \in Appends : /\ MergedBy(n, m) /\ r.term = m.term
                                 /\ r.lastLogIndex = End(m)
           \/ \E m \in Installs : /\ InstalledBy(n, m) /\ r.term = m.term
                                  /\ r.lastLogIndex = m.index
    BY <2>1, NewAck
  <2>3. Starts[k[2]].index \in Nat
    BY <1>1, <2>1 DEF GoodStarts
  <2>4. CASE \E m \in Appends : /\ MergedBy(n, m) /\ r.term = m.term
                                /\ r.lastLogIndex = End(m)
    <3>1. PICK m \in Appends : MergedBy(n, m) /\ r.term = m.term /\ r.lastLogIndex = End(m)
      BY <2>4
    <3>2. MergedTo(n, s, m)
      BY <1>2, <2>2, <3>1 DEF MergedBy, MergedTo, Merged
    <3>3. /\ End(m) \in Nat /\ m.prevIndex \in Nat /\ Len(m.entries) \in Nat
          /\ End(m) = m.prevIndex + Len(m.entries)
      BY AppendLine DEF Known, LogInv
    <3>4. k[1] > m.prevIndex
      <4> SUFFICES ASSUME k[1] <= m.prevIndex PROVE FALSE
        BY <1>4, <3>3
      <4>1. m.prevIndex > Starts[m.term].index
        BY <1>4, <2>1, <2>3, <3>1, <3>3
      <4>2. AckedBy(m.dst, m.term, m.prevIndex)
        BY <1>1, <2>1, <2>3, <3>1, <3>3, <4>1 DEF LeadersRemember
      <4>3. PICK a \in Acks : a.src = n /\ a.term = k[2] /\ a.lastLogIndex >= m.prevIndex
        BY <2>1, <3>1, <3>2, <4>2 DEF AckedBy, MergedTo
      <4>4. a.lastLogIndex \in Nat
        BY AckFields DEF Known
      <4>5. k[1] <= a.lastLogIndex
        BY <1>4, <3>3, <4>3, <4>4
      <4>6. k \in Acked(n)
        BY <1>1, <2>1, <4>3, <4>5, AckedMark
      <4> QED BY <4>6 DEF Evidence
    <3>5. /\ OwnMark(Starts, End(m), GetLogTerm(s, End(m)), m.term)
          /\ End(m) <= LastLogIndex(s) /\ m.prevIndex >= s.lastIncludedIndex
      <4>1. OwnMark(Starts, End(m), GetLogTerm(s, End(m)), m.term)
        BY <3>2, MergedEnd
      <4>2. PICK u \in HardState :
              /\ LogOK(u) /\ AppendConsistent(u, m.prevIndex, m.prevTerm) /\ s = Merged(u, m)
        BY <3>2, MergeReady
      <4>3. /\ End(m) <= LastLogIndex(s) /\ m.prevIndex >= u.lastIncludedIndex
            /\ s.lastIncludedIndex = u.lastIncludedIndex
        BY <4>2, MergedFacts DEF Known, LogInv
      <4> QED BY <4>1, <4>3
    <3>6. End(m) >= k[1] /\ End(m) > Starts[m.term].index
      BY <1>4, <2>1, <2>3, <3>1, <3>3
    <3>7. End(m) \in Held(s)
      BY <1>4, <1>5, <3>3, <3>4, <3>5, <3>6 DEF Held
    <3>8. EntryAt(s, End(m)).term = k[2]
      <4>1. GetLogTerm(s, End(m)) = EntryAt(s, End(m)).term
        BY <1>3, <3>7, TermsLine
      <4> QED BY <2>1, <3>1, <3>5, <3>6, <4>1 DEF OwnMark
    <3> QED BY <1>2, <1>6, <2>2, <3>6, <3>7, <3>8
  <2>5. CASE \E m \in Installs : /\ InstalledBy(n, m) /\ r.term = m.term
                                 /\ r.lastLogIndex = m.index
    <3>1. PICK m \in Installs : InstalledBy(n, m) /\ r.term = m.term /\ r.lastLogIndex = m.index
      BY <2>5
    <3>2. InstalledTo(n, s, m)
      BY <1>2, <2>2, <3>1 DEF InstalledBy, InstalledTo
    <3>3. LastLogIndex(s) = m.index /\ LastLogTerm(s) = m.snapTerm /\ m.index \in Nat
      BY <3>2, InstallReady
    <3>4. OwnMark(Starts, m.index, m.snapTerm, m.term)
      BY <1>1 DEF OwnersTrue
    <3>5. m.snapTerm = k[2]
      BY <1>4, <2>1, <2>3, <3>1, <3>3, <3>4 DEF OwnMark
    <3> QED BY <1>2, <1>4, <1>5, <2>1, <2>2, <3>1, <3>3, <3>5 DEF AtLeast, Past
  <2> QED BY <2>2, <2>4, <2>5
<1>8. CASE JustPushed(n, k)
  <2>1. /\ role[n] = "Leader" /\ st'[n] = hs'[n]
        /\ k[1] = LastLogIndex(st[n]) + 1 /\ k[2] = st[n].currentTerm
    BY <1>8 DEF JustPushed, PushedLog
  <2>2. \E v \in Value : s = PushEntry(st[n], v)
    BY <1>2, <1>8 DEF JustPushed, PushedLog
  <2>3. LastLogIndex(s) = LastLogIndex(st[n]) + 1 /\ LastLogTerm(s) = st[n].currentTerm
    BY <2>1, <2>2, PushedFull DEF SafetyInv
  <2> QED BY <1>2, <1>4, <1>5, <2>1, <2>3 DEF AtLeast, Past
<1>9. CASE Reappeared(n, k)
  <2>1. st'[n] = hs'[n]
    BY <1>9 DEF Reappeared, Dies, Returns
  <2>2. k[1] \in Held(s) /\ EntryAt(s, k[1]).term = k[2]
    BY <1>2, <1>9 DEF Reappeared
  <2>3. AtLeast(s, k)
    BY <1>4, <1>6, <2>2
  <2> QED BY <1>2, <2>1, <2>3
<1> QED BY <1>7, <1>8, <1>9

EvidenceMarks ==
  \A q \in Node : \A k \in Evidence(q) :
    /\ IsMark(k) /\ MarkOK(Starts, k[1], k[2])
    /\ k[2] \in DOMAIN Starts /\ k[1] > Starts[k[2]].index /\ k[2] > 0

LEMMA EvidenceMarked == Known /\ MarksOK => EvidenceMarks
BY EvidenceMark DEF EvidenceMarks

LEMMA KeepsEvidence ==
  ASSUME Known, Known', SafetyInv, NEW n \in Node, NodeTurn(n)
  PROVE  EvidenceKept'
<1>1. /\ MarksOK /\ MarksOK' /\ ProgressOK /\ EvidenceKept
      /\ GoodStarts(Starts) /\ Extends(Starts', Starts)
  BY NextStarts DEF SafetyInv
<1>2. ASSUME NEW q \in Node, NEW k \in Evidence(q)', NEW s, s = hs'[q] \/ s = st'[q],
             NoBad(Starts', k[1], k[2], s.currentTerm)
      PROVE  AtLeast(s, k)
  <2>1. NoBad(Starts, k[1], k[2], s.currentTerm)
    BY <1>1, <1>2, MoreTerms
  <2>2. CASE k \in Evidence(q) /\ q # n
    <3>1. s = hs[q] \/ s = st[q]
      BY <1>2, <2>2 DEF NodeTurn, Untouched
    <3> QED BY <1>1, <2>1, <2>2, <3>1 DEF EvidenceKept
  <2>3. CASE k \in Evidence(q) /\ q = n
    <3>1. s \in HardState /\ From(n, s)
      BY <1>1, <1>2, <2>3, Sources, NodeStatesNext
    <3> QED BY <2>1, <2>3, <3>1, EvidenceStays
  <2>4. CASE k \notin Evidence(q)
    <3>1. q = n /\ (NewlyAcked(k) \/ JustPushed(n, k) \/ Reappeared(n, k))
      BY <2>4, NewEvidence
    <3>2. IsMark(k)
      <4>1. (Known /\ MarksOK => EvidenceMarks)'
        BY EvidenceMarked, PTL
      <4> QED BY <1>1, <1>2, <4>1 DEF EvidenceMarks, IsMark
    <3> QED BY <1>2, <2>4, <3>1, <3>2, FreshEvidence
  <2> QED BY <2>2, <2>3, <2>4
<1> QED BY <1>2 DEF EvidenceKept

(* What a request put in a log is its sender's.                            *)
LEMMA MergedMiddle ==
  ASSUME Known, SafetyInv, NEW n \in Node, NEW m \in Appends, NEW w, MergedTo(n, w, m)
  PROVE  /\ w \in HardState /\ LogOK(w) /\ Base(w) = Base(st[n])
         /\ w.lastIncludedIndex = st[n].lastIncludedIndex
         /\ m.prevIndex \in Nat /\ End(m) \in Nat
         /\ st[n].lastIncludedIndex <= m.prevIndex /\ m.prevIndex <= LastLogIndex(st[n])
         /\ m.prevIndex <= End(m)
         /\ End(m) <= LastLogIndex(w)
         /\ \A j \in m.prevIndex .. End(m) : OwnMark(Starts, j, GetLogTerm(w, j), m.term)
                                             /\ GetLogTerm(w, j) = AppendTerms(m)[j]
         /\ \/ SameLog(w, st[n])
            \/ /\ LastLogIndex(w) = End(m)
               /\ \A i \in Held(w) : i <= m.prevIndex =>
                    i \in Held(st[n]) /\ EntryAt(w, i) = EntryAt(st[n], i)
<1>1. PICK u \in HardState :
           /\ SameLog(u, st[n]) /\ u.currentTerm = m.term /\ m.term \in Nat
           /\ LogOK(u) /\ Rooted(Starts, Terms(u))
           /\ AppendConsistent(u, m.prevIndex, m.prevTerm) /\ w = Merged(u, m)
  BY MergeReady
<1>2. TypeOK /\ LogsOK
  BY DEF Known, LogInv
<1>3. w \in HardState /\ LogOK(w) /\ Base(w) = Base(u) /\ w.lastIncludedIndex = u.lastIncludedIndex
  BY <1>1, <1>2, MergedFacts
<1>4. /\ m.prevIndex >= u.lastIncludedIndex /\ m.prevIndex <= LastLogIndex(u)
      /\ End(m) <= LastLogIndex(w)
      /\ \A j \in m.prevIndex .. End(m) : GetLogTerm(w, j) = AppendTerms(m)[j]
  BY <1>1, <1>2, MergedFacts
<1>5. \/ w = u
      \/ /\ LastLogIndex(w) = End(m) /\ End(m) > m.prevIndex
         /\ \A i \in Held(w) : i <= m.prevIndex =>
              i \in Held(u) /\ EntryAt(w, i) = EntryAt(u, i)
  BY <1>1, <1>2, MergedFacts
<1>6. /\ m.prevIndex \in Nat /\ End(m) \in Nat /\ Len(m.entries) \in Nat
      /\ End(m) = m.prevIndex + Len(m.entries)
      /\ DOMAIN AppendTerms(m) = m.prevIndex .. End(m)
  BY <1>2, AppendLine
<1>7. Owned(Starts, AppendTerms(m), m.term)
  BY DEF SafetyInv, OwnersTrue
<1>8. /\ Base(u) = Base(st[n]) /\ u.lastIncludedIndex = st[n].lastIncludedIndex
      /\ LastLogIndex(u) = LastLogIndex(st[n]) /\ Held(u) = Held(st[n])
      /\ \A i : EntryAt(u, i) = EntryAt(st[n], i)
  BY <1>1, SameLogs
<1>9. \A j \in m.prevIndex .. End(m) : OwnMark(Starts, j, GetLogTerm(w, j), m.term)
  BY <1>4, <1>6, <1>7 DEF Owned
<1>10. m.prevIndex <= End(m)
  BY <1>6
<1>11. CASE w = u
  BY <1>1, <1>3, <1>4, <1>6, <1>8, <1>9, <1>10, <1>11
<1>12. CASE w # u
  BY <1>3, <1>4, <1>5, <1>6, <1>8, <1>9, <1>10, <1>12
<1> QED BY <1>11, <1>12

(* What q acknowledged and holds in s, while s is in the term of r.        *)
MatchedBy(r, s) ==
  /\ r.lastLogIndex <= LastLogIndex(s)
  /\ r.lastLogIndex \in Held(s) => EntryAt(s, r.lastLogIndex).term = r.term

LEMMA AckStays ==
  ASSUME Known, SafetyInv, NEW n \in Node, NEW r \in Acks, r.src = n,
         NEW s \in HardState, From(n, s), s.currentTerm = r.term,
         r.lastLogIndex > Starts[r.term].index
  PROVE  MatchedBy(r, s)
<1>1. MarksOK /\ AckMatch /\ GoodStarts(Starts)
  BY StartsGood DEF SafetyInv
<1>2. /\ st[n] \in HardState /\ hs[n] \in HardState /\ LogOK(st[n]) /\ LogOK(hs[n])
      /\ st[n].currentTerm \in Nat /\ hs[n].currentTerm \in Nat
      /\ hs[n].currentTerm <= st[n].currentTerm
      /\ LastLogIndex(st[n]) \in Nat /\ st[n].lastIncludedIndex \in Nat
      /\ LastLogIndex(hs[n]) \in Nat
  BY NodeStates, HardStateFields
<1>3. r.lastLogIndex \in Nat /\ r.term \in Nat
  BY AckFields DEF Known
<1>4. hs[n].currentTerm >= r.term
  BY DEF SafetyInv, AcksPast
<1>5. \A t \in {hs[n], st[n]} : t.currentTerm = r.term => MatchedBy(r, t)
  BY <1>1 DEF AckMatch, MatchedBy
<1>6. st[n].currentTerm <= s.currentTerm => MatchedBy(r, st[n]) /\ st[n].currentTerm = r.term
  BY <1>2, <1>3, <1>4, <1>5
<1>7. r.term \in DOMAIN Starts /\ Starts[r.term].index \in Nat
  <2>1. r.term \in DOMAIN Starts
    BY OldSenders, ElectedInStarts
  <2> QED BY <1>1, <2>1 DEF GoodStarts
<1>8. CASE Stayed(n, s)
  <2>1. PICK t \in {hs[n], st[n]} : SameLog(s, t) /\ s.currentTerm >= t.currentTerm
    BY <1>8 DEF Stayed
  <2>2. t.currentTerm = r.term
    BY <1>2, <1>3, <1>4, <2>1
  <2>3. MatchedBy(r, t)
    BY <1>5, <2>2
  <2> QED BY <2>1, <2>3, SameLogs DEF MatchedBy
<1>9. CASE PushedTo(n, s)
  <2>1. <<st[n].currentTerm, n>> \in elected
    BY <1>1, <1>9, LeaderTerm DEF PushedTo
  <2>2. s.currentTerm = st[n].currentTerm
    BY <1>2, <1>9, PushEntryType DEF PushedTo, Command
  <2>3. <<r.term, r.dst>> \in elected /\ r.dst # n
    BY OldSenders
  <2> QED BY <2>1, <2>2, <2>3 DEF Known, ElectionSafety
<1>10. CASE CompactedTo(n, s)
  <2>1. PICK i : i = lastApplied[n]
    OBVIOUS
  <2>2. /\ s.currentTerm = st[n].currentTerm
        /\ LastLogIndex(s) = LastLogIndex(st[n])
        /\ \A j \in Held(s) : j \in Held(st[n]) /\ EntryAt(s, j) = EntryAt(st[n], j)
    BY <1>10, <2>1, CompactReady
  <2> QED BY <1>2, <1>6, <2>2 DEF MatchedBy
<1>11. ASSUME NEW m \in Appends, MergedTo(n, s, m)
       PROVE  MatchedBy(r, s)
  <2>1. /\ s.currentTerm = m.term /\ m.term >= st[n].currentTerm
        /\ OwnMark(Starts, End(m), GetLogTerm(s, End(m)), m.term)
        /\ \/ SameLog(s, st[n])
           \/ /\ LastLogIndex(s) = End(m)
              /\ \A i \in Held(st[n]) : EntryAt(st[n], i).term = m.term => i < End(m)
    BY <1>11, MergedEnd
  <2>2. /\ LogOK(s) /\ s.lastIncludedIndex = st[n].lastIncludedIndex
        /\ m.prevIndex \in Nat /\ End(m) \in Nat
        /\ st[n].lastIncludedIndex <= m.prevIndex
        /\ m.prevIndex <= End(m)
        /\ \A j \in m.prevIndex .. End(m) : OwnMark(Starts, j, GetLogTerm(s, j), m.term)
        /\ \/ SameLog(s, st[n])
           \/ \A i \in Held(s) : i <= m.prevIndex =>
                i \in Held(st[n]) /\ EntryAt(s, i) = EntryAt(st[n], i)
    BY <1>11, MergedMiddle
  <2>3. MatchedBy(r, st[n]) /\ m.term = r.term
    BY <1>6, <2>1
  <2>4. CASE SameLog(s, st[n])
    BY <2>3, <2>4, SameLogs DEF MatchedBy
  <2>5. CASE ~SameLog(s, st[n])
    <3>1. r.lastLogIndex <= End(m)
      <4>1. CASE r.lastLogIndex \in Held(st[n])
        <5>1. EntryAt(st[n], r.lastLogIndex).term = m.term
          BY <2>3, <4>1 DEF MatchedBy
        <5>2. r.lastLogIndex < End(m)
          BY <2>1, <2>5, <4>1, <5>1
        <5> QED BY <1>3, <2>2, <5>2
      <4>2. CASE r.lastLogIndex \notin Held(st[n])
        BY <1>2, <1>3, <2>2, <2>3, <4>2 DEF MatchedBy, Held
      <4> QED BY <4>1, <4>2
    <3>2. ASSUME r.lastLogIndex \in Held(s)
          PROVE  EntryAt(s, r.lastLogIndex).term = r.term
      <4>1. CASE r.lastLogIndex <= m.prevIndex
        BY <2>2, <2>3, <2>5, <3>2, <4>1 DEF MatchedBy
      <4>2. CASE r.lastLogIndex > m.prevIndex
        <5>1. r.lastLogIndex \in m.prevIndex .. End(m)
          BY <1>3, <2>2, <3>1, <4>2
        <5>2. OwnMark(Starts, r.lastLogIndex, GetLogTerm(s, r.lastLogIndex), m.term)
          BY <2>2, <5>1
        <5>3. GetLogTerm(s, r.lastLogIndex) = EntryAt(s, r.lastLogIndex).term
          BY <3>2, TermsLine
        <5> QED BY <2>3, <5>2, <5>3 DEF OwnMark
      <4> QED BY <1>3, <2>2, <4>1, <4>2
    <3> QED BY <2>1, <2>5, <3>1, <3>2 DEF MatchedBy
  <2> QED BY <2>4, <2>5
<1>12. ASSUME NEW m \in Installs, InstalledTo(n, s, m)
       PROVE  MatchedBy(r, s)
  <2>1. /\ s.currentTerm = m.term /\ LastLogIndex(s) = m.index /\ LastLogTerm(s) = m.snapTerm
        /\ m.index \in Nat /\ m.snapTerm \in Nat /\ Held(s) = {}
    <3>1. IsInstalled(s, m)
      BY <1>12, InstallFacts
    <3> QED BY <3>1 DEF IsInstalled
  <2>2. PICK k : k = <<r.lastLogIndex, r.term>>
    OBVIOUS
  <2>3. k \in Evidence(n) /\ k[1] = r.lastLogIndex /\ k[2] = r.term
    <3>1. IsMark(k)
      BY <1>3, <2>2 DEF IsMark
    <3>2. r.lastLogIndex <= r.lastLogIndex
      BY <1>3
    <3> QED BY <1>1, <2>2, <3>1, <3>2, AckedMark DEF Evidence
  <2>4. NoBad(Starts, k[1], k[2], s.currentTerm)
    BY <1>1, <1>3, <2>3 DEF NoBad, GoodStarts
  <2>5. AtLeast(s, k)
    BY <2>3, <2>4, <1>12, EvidenceStays DEF From
  <2>6. m.snapTerm <= r.term
    BY <2>1 DEF Known, LogInv, TermsBounded
  <2>7. Past(m.index, m.snapTerm, r.lastLogIndex, r.term)
    BY <2>1, <2>3, <2>5 DEF AtLeast
  <2>8. r.lastLogIndex <= m.index
    BY <1>3, <2>1, <2>6, <2>7 DEF Past
  <2>9. r.lastLogIndex \notin Held(s)
    BY <2>1
  <2> QED BY <2>1, <2>8, <2>9 DEF MatchedBy
<1>13. CASE RecoveredTo(n, s)
  <2>1. /\ s.currentTerm = hs[n].currentTerm /\ LastLogIndex(s) >= LastLogIndex(hs[n])
        /\ \A j \in Held(s) : j \in Held(hs[n]) /\ EntryAt(s, j) = EntryAt(hs[n], j)
    BY <1>13, ReturnedLog DEF RecoveredTo
  <2>2. MatchedBy(r, hs[n])
    BY <1>5, <2>1
  <2>3. LastLogIndex(s) \in Nat
    BY HardStateFields
  <2> QED BY <1>2, <1>3, <2>1, <2>2, <2>3 DEF MatchedBy
<1> QED BY <1>8, <1>9, <1>10, <1>11, <1>12, <1>13 DEF From

LEMMA KeepsAckMatch ==
  ASSUME Known, Known', SafetyInv, NEW n \in Node, NodeTurn(n)
  PROVE  AckMatch'
<1>1. /\ MarksOK /\ ProgressOK /\ AckMatch
      /\ GoodStarts(Starts) /\ Extends(Starts', Starts)
  BY NextStarts DEF SafetyInv
<1>2. ASSUME NEW r \in Acks', NEW s, s = hs'[r.src] \/ s = st'[r.src],
             s.currentTerm = r.term, r.lastLogIndex > Starts'[r.term].index
      PROVE  MatchedBy(r, s)
  <2>1. CASE r \in Acks
    <3>1. r.src \in Node /\ r.term \in DOMAIN Starts
      BY <2>1, AckFields, OldSenders, ElectedInStarts DEF Known
    <3>2. r.lastLogIndex > Starts[r.term].index
      BY <1>1, <1>2, <3>1 DEF Extends
    <3>3. CASE r.src # n
      <4>1. s = hs[r.src] \/ s = st[r.src]
        BY <1>2, <3>1, <3>3 DEF NodeTurn, Untouched
      <4> QED BY <1>1, <1>2, <2>1, <3>2, <4>1 DEF AckMatch, MatchedBy
    <3>4. CASE r.src = n
      <4>1. s \in HardState /\ From(n, s)
        BY <1>1, <1>2, <3>4, Sources, NodeStatesNext
      <4> QED BY <1>2, <2>1, <3>2, <3>4, <4>1, AckStays
    <3> QED BY <3>3, <3>4
  <2>2. CASE r \notin Acks
    <3>1. /\ r.src = n /\ st'[n] = hs'[n]
          /\ \/ \E m \in Appends : MergedBy(n, m) /\ r.term = m.term /\ r.lastLogIndex = End(m)
             \/ \E m \in Installs : InstalledBy(n, m) /\ r.term = m.term /\ r.lastLogIndex = m.index
      BY <2>2, NewAck
    <3>2. s = st'[n]
      BY <1>2, <3>1
    <3>3. CASE \E m \in Appends : MergedBy(n, m) /\ r.term = m.term /\ r.lastLogIndex = End(m)
      <4>1. PICK m \in Appends : MergedBy(n, m) /\ r.term = m.term /\ r.lastLogIndex = End(m)
        BY <3>3
      <4>2. MergedTo(n, s, m)
        BY <3>1, <3>2, <4>1 DEF MergedBy, MergedTo, Merged
      <4>3. /\ s \in HardState /\ m.prevIndex \in Nat /\ End(m) \in Nat /\ m.prevIndex <= End(m)
            /\ End(m) <= LastLogIndex(s)
            /\ \A j \in m.prevIndex .. End(m) : OwnMark(Starts, j, GetLogTerm(s, j), m.term)
        BY <4>2, MergedMiddle
      <4>4. OwnMark(Starts, End(m), GetLogTerm(s, End(m)), m.term)
        BY <4>3
      <4>5. m.term \in DOMAIN Starts
        BY OldSenders, ElectedInStarts
      <4>6. End(m) > Starts[m.term].index
        BY <1>1, <1>2, <4>1, <4>5 DEF Extends
      <4>7. End(m) \in Held(s) => GetLogTerm(s, End(m)) = EntryAt(s, End(m)).term
        BY <4>3, TermsLine
      <4> QED BY <4>1, <4>3, <4>4, <4>6, <4>7 DEF MatchedBy, OwnMark
    <3>4. CASE \E m \in Installs : InstalledBy(n, m) /\ r.term = m.term /\ r.lastLogIndex = m.index
      <4>1. PICK m \in Installs : InstalledBy(n, m) /\ r.term = m.term /\ r.lastLogIndex = m.index
        BY <3>4
      <4>2. InstalledTo(n, s, m)
        BY <3>1, <3>2, <4>1 DEF InstalledBy, InstalledTo
      <4>3. LastLogIndex(s) = m.index /\ Held(s) = {} /\ m.index \in Nat
        BY <4>2, InstallReady
      <4> QED BY <4>1, <4>3 DEF MatchedBy
    <3> QED BY <3>1, <3>3, <3>4
  <2> QED BY <2>1, <2>2
<1> QED BY <1>2 DEF AckMatch, MatchedBy

(* Fresh evidence is of no earlier term than the disk.                     *)
LEMMA FreshTerm ==
  ASSUME Known, Known', SafetyInv, NEW n \in Node, NodeTurn(n),
         NEW k, IsMark(k), NewlyAcked(k) \/ JustPushed(n, k) \/ Reappeared(n, k)
  PROVE  k[2] >= hs[n].currentTerm
<1>1. /\ st[n].currentTerm \in Nat /\ hs[n].currentTerm \in Nat
      /\ hs[n].currentTerm <= st[n].currentTerm
  BY NodeStates
<1>2. k[2] \in Nat
  BY DEF IsMark
<1>3. CASE NewlyAcked(k)
  <2>1. PICK r \in Acks' \ Acks : r.term = k[2]
    BY <1>3 DEF NewlyAcked
  <2>2. \/ \E m \in Appends : MergedBy(n, m) /\ r.term = m.term
        \/ \E m \in Installs : InstalledBy(n, m) /\ r.term = m.term
    BY <2>1, NewAck
  <2>3. r.term >= st[n].currentTerm
    BY <2>2 DEF MergedBy, InstalledBy
  <2> QED BY <1>1, <1>2, <2>1, <2>3
<1>4. CASE JustPushed(n, k)
  BY <1>1, <1>4 DEF JustPushed
<1>5. CASE Reappeared(n, k)
  BY <1>1, <1>5 DEF Reappeared
<1> QED BY <1>3, <1>4, <1>5

(* A candidate's requests of a term are one and the same.                  *)
LEMMA SameRequest ==
  ASSUME Known, Known', Requests \subseteq Requests', NEW term, NEW n,
         NEW r \in RequestsOf(term, n)
  PROVE  \A m \in RequestsOf(term, n)' : m = r
<1>1. RequestsTrue'
  BY DEF Known, LogInv
<1>2. r \in Requests' /\ r.term = term /\ r.src = n
  BY DEF RequestsOf
<1>3. ASSUME NEW m \in RequestsOf(term, n)'
      PROVE  m = r
  <2>1. m \in Requests' /\ m.term = term /\ m.src = n
    BY <1>3 DEF RequestsOf
  <2> QED BY <1>1, <1>2, <2>1 DEF RequestsTrue
<1> QED BY <1>3

LEMMA MarkOfEvidence ==
  ASSUME Known', MarksOK', NEW q \in Node, NEW k \in Evidence(q)'
  PROVE  IsMark(k)
<1>1. (Known /\ MarksOK => EvidenceMarks)'
  BY EvidenceMarked, PTL
<1> QED BY <1>1 DEF EvidenceMarks, IsMark

LEMMA VoteStays ==
  ASSUME Known, Known', SafetyInv, NEW n \in Node, NodeTurn(n),
         NEW v \in Votes, VoteGood(v[1], v[2], v[3])
  PROVE  VoteGood(v[1], v[2], v[3])'
<1>1. /\ MarksOK' /\ GoodStarts(Starts) /\ Extends(Starts', Starts)
      /\ Requests \subseteq Requests'
  BY NextStarts, TurnGrows
<1>2. PICK q \in Node, term \in Nat, c \in Node : v = <<q, term, c>>
  BY VotesType DEF Known
<1>3. v[1] = q /\ v[2] = term /\ v[3] = c
  BY <1>2
<1>4. PICK r : r \in RequestsOf(term, c)
  BY <1>3 DEF Known, LogInv, RequestsTrue
<1>5. \A m \in RequestsOf(term, c)' : m = r
  BY <1>1, <1>4, SameRequest
<1>6. ASSUME NEW k \in Evidence(q)', k[2] < term
      PROVE  \/ \A m \in RequestsOf(term, c)' : Past(m.lastLogIndex, m.lastLogTerm, k[1], k[2])
             \/ ~NoBad(Starts', k[1], k[2], term - 1)
  <2>1. CASE k \in Evidence(q)
    <3>1. \/ Past(r.lastLogIndex, r.lastLogTerm, k[1], k[2])
          \/ ~NoBad(Starts, k[1], k[2], term - 1)
      BY <1>3, <1>4, <1>6, <2>1 DEF VoteGood
    <3>2. NoBad(Starts', k[1], k[2], term - 1) => NoBad(Starts, k[1], k[2], term - 1)
      BY <1>1, MoreTerms
    <3> QED BY <1>5, <3>1, <3>2
  <2>2. CASE k \notin Evidence(q)
    <3>1. IsMark(k)
      BY <1>1, MarkOfEvidence
    <3>2. q = n /\ (NewlyAcked(k) \/ JustPushed(n, k) \/ Reappeared(n, k))
      BY <2>2, NewEvidence
    <3>3. k[2] >= hs[n].currentTerm
      BY <3>1, <3>2, FreshTerm
    <3>4. hs[n].currentTerm >= term
      <4>1. hs[v[1]].currentTerm > v[2] \/ hs[v[1]].currentTerm = v[2]
        BY DEF Known, ElectionInv, VotesDurable
      <4>2. hs[n].currentTerm \in Nat
        BY NodeStates
      <4> QED BY <1>3, <3>2, <4>1, <4>2
    <3>5. k[2] \in Nat /\ hs[n].currentTerm \in Nat
      BY <3>1, NodeStates DEF IsMark
    <3> QED BY <1>6, <3>3, <3>4, <3>5
  <2> QED BY <2>1, <2>2
<1>7. VoteGood(q, term, c)'
  BY <1>6 DEF VoteGood
<1> QED BY <1>3, <1>7

(* A vote that was just granted goes to a log past all its voter has.      *)
LEMMA GrantedVoteGood ==
  ASSUME Known, Known', SafetyInv, NEW n \in Node, NodeTurn(n), NoElection(n),
         NEW v \in Votes', v \notin Votes, v[2] \notin ElectedTerms'
  PROVE  VoteGood(v[1], v[2], v[3])'
<1>1. /\ MarksOK' /\ EvidenceKept' /\ Requests \subseteq Requests'
  BY NextStarts, KeepsEvidence, TurnGrows
<1>2. PICK q, term, c : q = v[1] /\ term = v[2] /\ c = v[3]
  OBVIOUS
<1>3. /\ q = n /\ hs'[n].currentTerm = term
      /\ SameLog(hs'[n], st[n])
      /\ \E m \in RequestsOf(term, c) : IsLogUpToDate(st[n], m.lastLogIndex, m.lastLogTerm)
  BY <1>2 DEF NoElection, SameLog
<1>4. PICK r \in RequestsOf(term, c) : IsLogUpToDate(st[n], r.lastLogIndex, r.lastLogTerm)
  BY <1>3
<1>5. \A m \in RequestsOf(term, c)' : m = r
  BY <1>1, SameRequest
<1>6. r.lastLogIndex \in Nat /\ r.lastLogTerm \in Nat
  BY RequestFields DEF Known, RequestsOf
<1>7. st[n] \in HardState /\ LogOK(st[n]) /\ term \in Nat
  BY <1>3, NodeStates, NodeStatesNext
<1>8. LastLogIndex(st[n]) \in Nat /\ LastLogTerm(st[n]) \in Nat
  BY <1>7, LastOfLine
<1>9. ASSUME NEW k \in Evidence(q)', k[2] < term
      PROVE  \/ \A m \in RequestsOf(term, c)' : Past(m.lastLogIndex, m.lastLogTerm, k[1], k[2])
             \/ ~NoBad(Starts', k[1], k[2], term - 1)
  <2>1. k[1] \in Nat /\ k[2] \in Nat
    BY <1>1, <1>3, MarkOfEvidence DEF IsMark
  <2>2. PICK s : s = hs'[n]
    OBVIOUS
  <2>3. AtLeast(s, k) \/ ~NoBad(Starts', k[1], k[2], term)
    BY <1>1, <1>3, <2>2 DEF EvidenceKept
  <2>4. CASE AtLeast(s, k)
    <3>1. Past(LastLogIndex(st[n]), LastLogTerm(st[n]), k[1], k[2])
      BY <1>3, <2>2, <2>4, SameLogs DEF AtLeast
    <3>2. Past(r.lastLogIndex, r.lastLogTerm, LastLogIndex(st[n]), LastLogTerm(st[n]))
      BY <1>4 DEF IsLogUpToDate, Past
    <3>3. Past(r.lastLogIndex, r.lastLogTerm, k[1], k[2])
      BY <1>6, <1>8, <2>1, <3>1, <3>2 DEF Past
    <3> QED BY <1>5, <3>3
  <2>5. CASE ~NoBad(Starts', k[1], k[2], term)
    <3>1. PICK d \in DOMAIN Starts' :
            /\ k[2] < d /\ d <= term /\ ~Past(Starts'[d].index, Starts'[d].term, k[1], k[2])
      BY <2>5 DEF NoBad
    <3>2. d # term /\ d \in Nat
      <4>1. DOMAIN Starts' = ElectedTerms'
        BY DEF Starts
      <4>2. d \in Nat
        BY NextStarts DEF GoodStarts
      <4> QED BY <1>2, <4>1, <4>2
    <3>3. d <= term - 1
      BY <1>7, <3>1, <3>2
    <3> QED BY <3>1, <3>3 DEF NoBad
  <2> QED BY <2>3, <2>4, <2>5
<1>10. VoteGood(q, term, c)'
  BY <1>9 DEF VoteGood
<1> QED BY <1>2, <1>10

(* And a candidate's own vote.                                             *)
LEMMA OwnVoteGood ==
  ASSUME Known, Known', SafetyInv, NEW n \in Node, NodeTurn(n), Campaigned(n),
         NEW v, v = <<n, st'[n].currentTerm, n>>
  PROVE  VoteGood(v[1], v[2], v[3])'
<1>1. /\ MarksOK /\ MarksOK' /\ EvidenceKept /\ GoodStarts(Starts) /\ Extends(Starts', Starts)
  BY NextStarts DEF SafetyInv
<1>2. PICK s, term : s = st'[n] /\ term = s.currentTerm
  OBVIOUS
<1>3. st[n] \in HardState /\ st[n].currentTerm \in Nat /\ LogOK(st[n])
  BY NodeStates
<1>4. s = IncrementTerm(st[n], n) /\ term = st[n].currentTerm + 1 /\ SameLog(s, st[n])
  <2>1. s = IncrementTerm(st[n], n)
    BY <1>2 DEF Campaigned
  <2>2. SameLog(s, st[n])
    BY <1>3, <2>1 DEF SameLog, IncrementTerm, HardState
  <2> QED BY <1>2, <1>3, <2>1, <2>2, IncrementTermType
<1>5. RequestVote(n, s) \in RequestsOf(term, n)'
  <2>1. PICK r : r = RequestVote(n, s)
    OBVIOUS
  <2>2. r \in Requests'
    BY <1>2, <2>1 DEF Campaigned
  <2>3. r.term = term /\ r.src = n
    BY <1>2, <2>1 DEF RequestVote
  <2> QED BY <2>1, <2>2, <2>3 DEF RequestsOf
<1>6. ASSUME NEW m \in RequestsOf(term, n)'
      PROVE  m.lastLogIndex = LastLogIndex(s) /\ m.lastLogTerm = LastLogTerm(s)
  <2>1. PICK r : r = RequestVote(n, s)
    OBVIOUS
  <2>2. r.lastLogIndex = LastLogIndex(s) /\ r.lastLogTerm = LastLogTerm(s)
    BY <2>1 DEF RequestVote
  <2>3. m = r
    <3>1. m \in Requests' /\ m.term = term /\ m.src = n
      BY <1>6 DEF RequestsOf
    <3>2. r \in Requests' /\ r.term = term /\ r.src = n
      BY <1>5, <2>1 DEF RequestsOf
    <3> QED BY <3>1, <3>2 DEF Known, LogInv, RequestsTrue
  <2> QED BY <2>2, <2>3
<1>7. ASSUME NEW k \in Evidence(n)', k[2] < term
      PROVE  \/ \A m \in RequestsOf(term, n)' : Past(m.lastLogIndex, m.lastLogTerm, k[1], k[2])
             \/ ~NoBad(Starts', k[1], k[2], term - 1)
  <2>1. CASE k \in Evidence(n)
    <3>1. AtLeast(st[n], k) \/ ~NoBad(Starts, k[1], k[2], st[n].currentTerm)
      BY <1>1, <2>1 DEF EvidenceKept
    <3>2. term - 1 = st[n].currentTerm
      BY <1>3, <1>4
    <3>3. NoBad(Starts', k[1], k[2], term - 1) => NoBad(Starts, k[1], k[2], term - 1)
      BY <1>1, MoreTerms
    <3>4. AtLeast(s, k) \/ ~NoBad(Starts', k[1], k[2], term - 1)
      BY <1>4, <3>1, <3>2, <3>3, SameLogs
    <3> QED BY <1>6, <3>4 DEF AtLeast
  <2>2. CASE k \notin Evidence(n)
    <3>1. IsMark(k)
      BY <1>1, MarkOfEvidence
    <3>2. NewlyAcked(k) \/ JustPushed(n, k) \/ Reappeared(n, k)
      BY <2>2, NewEvidence
    <3>3. AtLeast(s, k)
      BY <1>2, <2>2, <3>1, <3>2, FreshEvidence
    <3> QED BY <1>6, <3>3 DEF AtLeast
  <2> QED BY <2>1, <2>2
<1>8. VoteGood(n, term, n)'
  BY <1>7 DEF VoteGood
<1>9. v[1] = n /\ v[2] = term /\ v[3] = n
  BY <1>2
<1> QED BY <1>8, <1>9

LEMMA KeepsVotes ==
  ASSUME Known, Known', SafetyInv, NEW n \in Node, NodeTurn(n)
  PROVE  VotesGood'
<1>1. /\ elected \subseteq elected' /\ Votes \subseteq Votes' /\ VotesGood
  BY TurnGrows DEF SafetyInv
<1>2. \A v \in Votes : VoteGood(v[1], v[2], v[3]) => VoteGood(v[1], v[2], v[3])'
  BY VoteStays
<1>3. Campaigned(n) \/ Won(n) \/ NoElection(n)
  BY DEF NodeTurn, Elects
<1>4. ASSUME NEW v \in Votes', v[2] \notin ElectedTerms'
      PROVE  VoteGood(v[1], v[2], v[3])'
  <2>1. CASE v \in Votes
    <3>1. v[2] \notin ElectedTerms
      BY <1>1, <1>4 DEF ElectedTerms
    <3> QED BY <1>1, <1>2, <2>1, <3>1 DEF VotesGood
  <2>2. CASE v \notin Votes /\ NoElection(n)
    BY <1>4, <2>2, GrantedVoteGood
  <2>3. CASE v \notin Votes /\ Campaigned(n)
    <3>1. v = <<n, st'[n].currentTerm, n>>
      BY <2>3 DEF Campaigned
    <3> QED BY <2>3, <3>1, OwnVoteGood
  <2>4. CASE v \notin Votes /\ Won(n)
    BY <2>4 DEF Won
  <2> QED BY <1>3, <2>1, <2>2, <2>3, <2>4
<1>5. ASSUME NEW e \in elected'
      PROVE  Cardinality(GoodVoters(e)') >= Majority
  <2>1. GoodVoters(e)' \subseteq Node
    BY DEF GoodVoters, VotersOf
  <2>2. CASE e \in elected
    <3>1. GoodVoters(e) \subseteq GoodVoters(e)'
      <4>1. ASSUME NEW q \in GoodVoters(e)
            PROVE  q \in GoodVoters(e)'
        <5>1. q \in Node /\ <<q, e[1], e[2]>> \in Votes /\ VoteGood(q, e[1], e[2])
          BY <4>1 DEF GoodVoters, VotersOf
        <5>2. PICK v : v = <<q, e[1], e[2]>>
          OBVIOUS
        <5>3. v[1] = q /\ v[2] = e[1] /\ v[3] = e[2]
          BY <5>2
        <5>4. VoteGood(q, e[1], e[2])'
          BY <1>2, <5>1, <5>2, <5>3
        <5> QED BY <1>1, <5>1, <5>4 DEF GoodVoters, VotersOf
      <4> QED BY <4>1
    <3>2. Cardinality(GoodVoters(e)) >= Majority
      BY <1>1, <2>2 DEF VotesGood
    <3>3. PICK P, Q : P = GoodVoters(e) /\ Q = GoodVoters(e)'
      OBVIOUS
    <3> QED BY <2>1, <3>1, <3>2, <3>3, LargerQuorum
  <2>3. CASE e \notin elected
    <3>1. PICK T : T = st'[n].currentTerm
      OBVIOUS
    <3>2. Campaigned(n) \/ Won(n)
      BY <1>3, <2>3 DEF NoElection
    <3>3. e = <<T, n>>
      BY <2>3, <3>1, <3>2 DEF Campaigned, Won
    <3>4. T \notin ElectedTerms
      BY <2>3, <3>3, NothingOfTerm
    <3>5. ASSUME NEW q \in VotersOf(e)'
          PROVE  q \in GoodVoters(e)'
      <4>1. PICK v : v = <<q, e[1], e[2]>>
        OBVIOUS
      <4>2. v[1] = q /\ v[2] = T /\ v[3] = n /\ v \in Votes' /\ e[1] = T /\ e[2] = n
        BY <3>3, <3>5, <4>1 DEF VotersOf
      <4>3. CASE v \in Votes
        <5>1. VoteGood(v[1], v[2], v[3])
          BY <1>1, <3>4, <4>2, <4>3 DEF VotesGood
        <5>2. VoteGood(v[1], v[2], v[3])'
          BY <1>2, <4>3, <5>1
        <5> QED BY <3>5, <4>2, <5>2 DEF GoodVoters
      <4>4. CASE v \notin Votes
        <5>1. Campaigned(n)
          BY <3>2, <4>2, <4>4 DEF Won
        <5>2. v = <<n, st'[n].currentTerm, n>>
          BY <4>2, <4>4, <5>1 DEF Campaigned
        <5>3. VoteGood(v[1], v[2], v[3])'
          BY <5>1, <5>2, OwnVoteGood
        <5> QED BY <3>5, <4>2, <5>3 DEF GoodVoters
      <4> QED BY <4>3, <4>4
    <3>6. Cardinality(VotersOf(e)') >= Majority
      BY DEF Known, ElectionInv, LeadersBacked
    <3>7. PICK P, Q : P = VotersOf(e)' /\ Q = GoodVoters(e)'
      OBVIOUS
    <3>8. P \subseteq Q
      BY <3>5, <3>7
    <3> QED BY <2>1, <3>6, <3>7, <3>8, LargerQuorum
  <2> QED BY <2>2, <2>3
<1> QED BY <1>4, <1>5 DEF VotesGood
==============================================================================
