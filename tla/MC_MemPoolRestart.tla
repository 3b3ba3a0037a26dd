-------------------------- MODULE MC_MemPoolRestart --------------------------
(* The mem pool with saves and restarts, on a chain of up to two blocks.   *)
EXTENDS MemPoolRestart

CONSTANTS a1, a2, d1, d2

MCDepositTo == [d \in Deposits |-> IF d = d1 THEN a1 ELSE a2]

\* both deposits credit a1, so a1 can queue two withdrawals
MCDepositToA1 == [d \in Deposits |-> a1]

=============================================================================
