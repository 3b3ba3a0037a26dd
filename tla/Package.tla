------------------------------ MODULE Package ------------------------------
(***************************************************************************)
(* repackage_count and MemPool::package_mem_block                          *)
(* (crates/mem-pool/src/pool.rs): when block submission is retried, the    *)
(* block producer asks for the mem block again with a larger retry count;  *)
(* the number of packaged items is halved per retry, at least one is kept, *)
(* and withdrawals are kept before deposits before transactions.           *)
(*                                                                         *)
(* The count is computed with usize arithmetic: total.shr(retry_count).    *)
(* A shift by UsizeBits or more panics when overflow checks are on and     *)
(* shifts by retry_count mod UsizeBits when they are off; both outcomes    *)
(* are possible for the node's build.                                      *)
(***************************************************************************)
EXTENDS Integers, Sequences, PackageCount

CONSTANTS
    MaxItems,     \* most withdrawals, deposits, transactions in a mem block
    MaxRetry,     \* largest retry_count the block producer passes
    NotPackaged   \* out before package_mem_block has run

ASSUME MaxItems \in Nat /\ MaxRetry \in Nat
ASSUME 3 * MaxItems < 2^UsizeBits

VARIABLES
    nWithdrawals,  \* mem_block.withdrawals().len()
    nDeposits,     \* mem_block.deposits().len()
    nTxs,          \* mem_block.txs().len()
    retry,         \* output_param.retry_count
    out            \* (withdrawals_count, deposits_count, txs_count) or Panic

vars == <<nWithdrawals, nDeposits, nTxs, retry, out>>

Init ==
    /\ nWithdrawals \in 0..MaxItems
    /\ nDeposits \in 0..MaxItems
    /\ nTxs \in 0..MaxItems
    /\ retry \in 0..MaxRetry
    /\ out = NotPackaged

\* output_mem_block -> package_mem_block -> repackage_count
PackageMemBlock ==
    /\ out = NotPackaged
    /\ \E s \in ShrOutcomes(nWithdrawals + nDeposits + nTxs, retry) :
          out' = IF s = Panic THEN Panic
                 ELSE RepackageCount(nWithdrawals, nDeposits, nTxs, s)
    /\ UNCHANGED <<nWithdrawals, nDeposits, nTxs, retry>>

Next == PackageMemBlock

Spec == Init /\ [][Next]_vars

----------------------------------------------------------------------------
(* Reference definition (spec.md 4.4 and 8): the packaged items are the    *)
(* first max(1, N >> r) items of withdrawals ++ deposits ++ transactions,  *)
(* where N >> r is the mathematical quotient N div 2^r.                    *)

Items == [i \in 1..nWithdrawals |-> "w"] \o [i \in 1..nDeposits |-> "d"]
           \o [i \in 1..nTxs |-> "t"]

Target ==
    LET n == Len(Items) IN
    IF n \div 2^retry = 0 THEN MinOf(1, n) ELSE n \div 2^retry

CountIn(seq, tag) == Len(SelectSeq(seq, LAMBDA x : x = tag))

\* For every mem block and retry count, package_mem_block returns (and does
\* not panic) the counts of the first max(1, N >> retry_count) items of
\* the mem block, withdrawals first, then deposits, then transactions.
PackageMatchesReference ==
    out /= NotPackaged =>
        LET prefix == SubSeq(Items, 1, Target) IN
        out = <<CountIn(prefix, "w"), CountIn(prefix, "d"), CountIn(prefix, "t")>>

=============================================================================
