----------------------------- MODULE MC_MemPool -----------------------------
(* Two accounts, one deposit each, nonces 0 and 1, a chain of three blocks. *)
EXTENDS MemPool

CONSTANTS a1, a2, d1, d2

MCDepositTo == [d \in Deposits |-> IF d = d1 THEN a1 ELSE a2]

=============================================================================
