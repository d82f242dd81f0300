--------------------------- MODULE StorageRefinement ---------------------------
(***************************************************************************)
(* Storage implements DurableRegister: the register is the file            *)
(* node_<id>.json.                                                         *)
(***************************************************************************)
EXTENDS Storage

RegisterValue == IF dir["node"] = Nil THEN Nil ELSE content[dir["node"]]

FoundIn(d) == IF d["node"] = Nil THEN {Nil} ELSE survives[d["node"]]

RegisterLeft == UNION {FoundIn(d) : d \in dirs}

Register ==
  INSTANCE DurableRegister
  WITH Values <- HardState, Unwritten <- Nil, value <- RegisterValue, left <- RegisterLeft

(* Saving the HardState is atomic: its six system calls amount to one      *)
(* replacement and one confirmation, wherever they are interrupted.        *)
ImplementsRegister == Register!Spec
==============================================================================
