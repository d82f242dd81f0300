----------------------------- MODULE MCOverlap -----------------------------
(* An instance of RaftCluster for TLC with two beginnings.                 *)
EXTENDS MCRaftCluster

VARIABLE forked  \* the beginning was ForkInit

OverlapInit == forked \in BOOLEAN /\ IF forked THEN ForkInit ELSE LedInit

(* From LedInit there is one entry, and the candidate may crash; from      *)
(* ForkInit there are two, and the deposed leader may crash.               *)
Overlapping ==
  IF forked THEN up'[SecondLeader]
  ELSE up'[FirstLeader] /\ \A n \in Node : LastLogIndex(st'[n]) <= 1

OverlapSpec == OverlapInit /\ [][Next /\ Overlapping /\ UNCHANGED forked]_<<vars, forked>>
==============================================================================
