------------------------------- MODULE MCClient -------------------------------
(* An instance of Client for TLC: one caller appends and then reads, the   *)
(* other appends to the same key inside a transaction.  The machine is     *)
(* KeyValue's.                                                             *)
EXTENDS Client, KeyValue

CONSTANTS First, Second, Key, n1, n2

MCRequests ==
  [c \in Caller |->
     IF c = First THEN <<Appending(Key, <<"a">>), Get(Key)>>
     ELSE <<Transaction(<<Appending(Key, <<"b">>), Strlen(Key)>>)>>]

MCHome == [c \in Caller |-> IF c = First THEN n1 ELSE n2]
==============================================================================
