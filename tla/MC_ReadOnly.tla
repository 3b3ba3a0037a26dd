------------------------------ MODULE MC_ReadOnly ------------------------------
(* A read-only node with two accounts and two deposits.                     *)
EXTENDS ReadOnly

CONSTANTS a1, a2, d1, d2

MCDepositTo == [d \in Deposits |-> IF d = d1 THEN a1 ELSE a2]

\* both deposits credit a1
MCDepositToA1 == [d \in Deposits |-> a1]

=============================================================================
