---------------------------- MODULE DurableRegister ----------------------------
(***************************************************************************)
(* What the handlers of a node expect of persist_state: the file holds one *)
(* whole value; a save replaces it in one step and is confirmed later; a   *)
(* failure leaves one of the values a reader could have found since the    *)
(* last confirmation.  Written without a look at files and directories,    *)
(* which Storage models.                                                   *)
(***************************************************************************)
CONSTANTS Values, Unwritten

VARIABLES
  value,   \* what a reader finds
  left     \* what a reader may find after a power failure

Init == value = Unwritten /\ left = {Unwritten}

Replace == value' \in Values /\ left' = left \cup {value'}

(* The save is reported as successful only after this step.                *)
Confirm == left' = {value} /\ UNCHANGED value

Fail == value' \in left /\ left' = {value'}

Next == Replace \/ Confirm \/ Fail

Spec == Init /\ [][Next]_<<value, left>>
==============================================================================
