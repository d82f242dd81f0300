--------------------------- MODULE RaftRefinement ---------------------------
(* The cluster of RaftCluster implements the replicated log of             *)
(* ReplicatedLog.                                                          *)
EXTENDS RaftProperties

(* The committed entries, each at its index. *)
CommittedLog == [i \in {e.index : e \in decided} |-> CHOOSE e \in decided : e.index = i]

Replicated == INSTANCE ReplicatedLog WITH
  log <- CommittedLog,
  running <- up,
  applied <- data,
  told <- {a.applied : a \in answered}

(* Whatever elections, compaction, snapshots, crashes and lost or late     *)
(* messages do, the committed entries form one sequence that only grows,   *)
(* every running state machine is a prefix of it that only grows, and a    *)
(* client is told a result in the step that applies a committed entry      *)
(* (apply_committed_entries, handle_install_snapshot, RaftActor::new).     *)
ImplementsReplicatedLog == Replicated!Spec
==============================================================================
