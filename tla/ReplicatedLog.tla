---------------------------- MODULE ReplicatedLog ----------------------------
(***************************************************************************)
(* What the cluster of Raft actors promises the state machines and the     *)
(* clients, without terms, logs, votes, snapshots or messages: one growing *)
(* sequence of commands, of which every running node has applied a prefix. *)
(***************************************************************************)
EXTENDS Naturals, Sequences

CONSTANT Node

VARIABLES
  log,      \* the commands committed, in order
  running,  \* running[n]: the process of n is up
  applied,  \* applied[n]: the commands in the state machine of n, in order
  told      \* the commands whose clients were told a result

vars == <<log, running, applied, told>>

IsPrefixOf(s, t) == Len(s) <= Len(t) /\ SubSeq(t, 1, Len(s)) = s

Elements(s) == {s[i] : i \in 1 .. Len(s)}

Init ==
  /\ log = <<>> /\ told = {}
  /\ running = [n \in Node |-> TRUE]
  /\ applied = [n \in Node |-> <<>>]

(* A node goes on from what it has applied to a longer prefix of what is   *)
(* committed, and answers some of the clients of what it applies now.      *)
Advance(n) ==
  /\ running[n] /\ UNCHANGED running
  /\ IsPrefixOf(applied[n], applied'[n]) /\ IsPrefixOf(applied'[n], log')
  /\ \A p \in Node \ {n} : applied'[p] = applied[p]
  /\ told \subseteq told'
  /\ told' \ told \subseteq
       Elements(SubSeq(applied'[n], Len(applied[n]) + 1, Len(applied'[n])))

Apply(n) == UNCHANGED log /\ Advance(n)

(* The leader commits one or more commands and applies them all. *)
Commit(n) ==
  /\ log' # log /\ IsPrefixOf(log, log')
  /\ Advance(n)
  /\ applied'[n] = log'

Stop(n) ==
  /\ running[n]
  /\ running' = [running EXCEPT ![n] = FALSE]
  /\ applied' = [applied EXCEPT ![n] = <<>>]
  /\ UNCHANGED <<log, told>>

(* A node starts again from a snapshot of some prefix. *)
Start(n) ==
  /\ ~running[n]
  /\ running' = [running EXCEPT ![n] = TRUE]
  /\ \E k \in 0 .. Len(log) : applied' = [applied EXCEPT ![n] = SubSeq(log, 1, k)]
  /\ UNCHANGED <<log, told>>

Next == \E n \in Node : Apply(n) \/ Commit(n) \/ Stop(n) \/ Start(n)

Spec == Init /\ [][Next]_vars
==============================================================================
