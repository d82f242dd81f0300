------------------------------- MODULE KeyValue -------------------------------
(***************************************************************************)
(* The key-value state machine, src/src/raft/machine.rs.  A store maps the *)
(* keys it has to texts; a text is a sequence of letters, and so is the    *)
(* result of a command, in which a word like OK is one letter.             *)
(***************************************************************************)
EXTENDS Naturals, Sequences

LOCAL INSTANCE TLC
LOCAL INSTANCE SequencesExt

Empty == <<>>   \* StateMachine::new, the map without keys

Ping == [op |-> "Ping"]
Set(key, value) == [op |-> "Set", key |-> key, value |-> value]
Get(key) == [op |-> "Get", key |-> key]
Strlen(key) == [op |-> "Strlen", key |-> key]
Appending(key, value) == [op |-> "Append", key |-> key, value |-> value]
Del(key) == [op |-> "Del", key |-> key]
Transaction(commands) == [op |-> "Transaction", commands |-> commands]

Outcome(store, result) == [store |-> store, result |-> result]

Value(store, key) == IF key \in DOMAIN store THEN store[key] ELSE <<>>

Without(store, key) == [k \in DOMAIN store \ {key} |-> store[k]]

(* The results of a transaction in brackets, separated by commas.          *)
Joined(results) ==
  LET items == [k \in DOMAIN results |-> IF k = 1 THEN results[k] ELSE <<",">> \o results[k]]
  IN  <<"[">> \o FlattenSeq(items) \o <<"]">>

RECURSIVE Apply(_, _)

(* The commands of a transaction, one after the other on the same store.   *)
ApplyAll(store, commands) ==
  LET Step(acc, command) ==
        LET o == Apply(acc.store, command)
        IN  Outcome(o.store, Append(acc.result, o.result))
  IN  FoldLeft(Step, Outcome(store, <<>>), commands)

(* StateMachine::apply: the store after a command, and the text it returns.*)
Apply(store, command) ==
  CASE command.op = "Ping" -> Outcome(store, <<"PONG">>)
    [] command.op = "Set" ->
         Outcome((command.key :> command.value) @@ store, <<"OK">>)
    [] command.op = "Get" -> Outcome(store, Value(store, command.key))
    [] command.op = "Strlen" ->
         Outcome(store, <<ToString(Len(Value(store, command.key)))>>)
    [] command.op = "Append" ->
         Outcome((command.key :> Value(store, command.key) \o command.value) @@ store, <<"OK">>)
    [] command.op = "Del" ->
         Outcome(Without(store, command.key), Value(store, command.key))
    [] command.op \in {"AddNode", "RemoveNode"} -> Outcome(store, <<"OK">>)
    [] command.op = "Transaction" ->
         LET all == ApplyAll(store, command.commands)
         IN  Outcome(all.store, Joined(all.result))
==============================================================================
