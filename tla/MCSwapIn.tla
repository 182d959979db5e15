------------------------------ MODULE MCSwapIn ------------------------------
(***************************************************************************)
(* SwapIn for TLC: a deposit of the amount, 5, with a stray of another     *)
(* value or a second deposit of the same.                                  *)
(***************************************************************************)
EXTENDS SwapIn

One == {1}
Two == {1, 2}
Deposit == [o \in One |-> 5]
DepositAndStray == [o \in Two |-> IF o = 1 THEN 5 ELSE 3]
SameTwice == [o \in Two |-> 5]
NoFaults == {}
AMiss == {"miss"}
EveryFault == {"reorg", "eviction", "miss", "fail", "loss"}
Steady == {1}
Swinging == {1, 4}
=============================================================================
