--------------------------- MODULE MemPoolRestart ---------------------------
(***************************************************************************)
(* The mem pool across restarts of the node.  The store (the chain and the *)
(* mem pool tables) is durable; everything else of MemPool is rebuilt by   *)
(* MemPool::create from the store and from the mem block the               *)
(* RestoreManager saved last (save_mem_block, called by Drop).  An abrupt  *)
(* crash skips the save, so a restart reads whatever was saved before, or  *)
(* nothing when that file is gone (delete_before_one_hour) or unreadable.  *)
(***************************************************************************)
EXTENDS MemPool

CONSTANT NoFile   \* no restorable mem block in the restore directory

VARIABLE saved    \* the latest mem block the RestoreManager saved

rvars == <<vars, saved>>

\* save_mem_block: the mem block is written to the restore directory.  The
\* startup replay has drained pending_restored_tx_hashes before the pool
\* serves anyone, so the force_reinject_tx_hashes branch never applies.
SaveMemBlock ==
    /\ saved' = memBlock
    /\ UNCHANGED vars

\* Variant for mutation checking: the restored mem block's withdrawals are
\* not skipped, so their second push fails and removes them from the store.
RestorePendingWithdrawalsNoSkip(n, forced) ==
    LET ok(w) == w.nonce = ChainNonce(n, w.from) /\ ChainBalance(n, w.from) >= 1
    IN  [pend |-> [a \in Accounts |->
                     [txs |-> {}, wds |-> SetToSeq({w \in dbWds : w.from = a /\ ok(w)
                                                        /\ w \notin ToSet(forced)})]],
         dbWds |-> {w \in dbWds : ok(w) /\ w \notin ToSet(forced)}]

\* restore_pending_withdrawals: every stored withdrawal that is not one of
\* the restored mem block's is pushed again with push_withdrawal_request,
\* verified against the tip state n (the fresh state_db of create); one that
\* fails is removed from the store.  Only the withdrawal at an account's
\* tip nonce passes, so the store's iteration order does not matter.
RestorePendingWithdrawals(n, forced) ==
    LET ok(w) == w.nonce = ChainNonce(n, w.from) /\ ChainBalance(n, w.from) >= 1
        skip(w) == w \in ToSet(forced)
    IN  [pend |-> [a \in Accounts |->
                     [txs |-> {}, wds |-> SetToSeq({w \in dbWds : w.from = a /\ ok(w)
                                                        /\ ~skip(w)})]],
         dbWds |-> {w \in dbWds : skip(w) \/ ok(w)}]

\* Variant for mutation checking: only the (cleared) mem block's
\* transactions are kept, not the restored hashes.
RemoveReinjectedFailedTxsAll(restoredTxs) == {}

\* remove_reinjected_failed_txs: create cleared the mem block's
\* transactions, so every stored transaction that is not a restored hash is
\* removed from the store
RemoveReinjectedFailedTxs(restoredTxs) == dbTxs \cap ToSet(restoredTxs)

\* the replay of pending_restored_tx_hashes through push_transaction, before
\* the node serves traffic; a hash whose transaction is not in the store is
\* skipped
ReplayRestoredTxs(s, restoredTxs) ==
    FoldLeft(PushTx, s, SelectSeq(restoredTxs, LAMBDA t : t \in s.dbTxs))

\* MemPool::create of a full node from the restore file `file`, then
\* reset(None, tip): a recovery reset, which neither refreshes the deposits
\* nor packages more withdrawals; the mem block withdrawals are the restored
\* hashes found in the store, and the mem block transactions were cleared
Restart(file) ==
    LET n == Len(chain)
        forced == IF file = NoFile THEN <<>> ELSE file.wds
        restoredTxs == IF file = NoFile THEN <<>> ELSE file.txs
        deps == IF file = NoFile THEN <<>> ELSE file.deps
        r == RestorePendingWithdrawals(n, forced)
        base == RemoveUnexecutables(
                    BaseWith(n, r.pend, RemoveReinjectedFailedTxs(restoredTxs), r.dbWds))
        wds == SelectSeq(forced, LAMBDA w : w \in r.dbWds)
        s == ResetSuffix([s |-> FoldLeft(FinalizeWd, base, wds), txs |-> <<>>], deps)
    IN  /\ pendingDeposits' = deps
        /\ Publish(n, ReplayRestoredTxs(s, restoredTxs))
        /\ UNCHANGED <<chain, saved>>

RNext ==
    \/ Next /\ UNCHANGED saved
    \/ SaveMemBlock
    \/ \E file \in {saved, NoFile} : Restart(file)

RInit == Init /\ saved = NoFile

RSpec == RInit /\ [][RNext]_rvars

----------------------------------------------------------------------------
(* Properties.                                                              *)

\* A graceful restart (Drop saves the mem block, then create restores it)
\* on the tip the mem block builds on gives back the same mem block and the
\* same mem state: create, restore_pending_withdrawals,
\* remove_reinjected_failed_txs and the recovery reset lose nothing.
GracefulRestartRestoresMemBlock ==
    [][(/\ saved = memBlock
        /\ tipBranch = chain
        /\ Restart(saved))
       => /\ memBlock' = memBlock
          /\ memNonce' = memNonce
          /\ memBalance' = memBalance]_rvars

\* No deposit cell is applied twice: it is in at most one of the blocks up
\* to the tip and the mem block built on it.  The restored pending_deposits
\* of create are not checked against the chain (the recovery reset skips
\* refresh_deposit_cells).
DepositsAppliedOnce ==
    \A d \in Deposits :
        Cardinality({i \in 1..tip : d \in ToSet(chain[i].deps)})
            + (IF d \in ToSet(memBlock.deps) THEN 1 ELSE 0) <= 1

=============================================================================
