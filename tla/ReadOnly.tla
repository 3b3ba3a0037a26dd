------------------------------ MODULE ReadOnly ------------------------------
(***************************************************************************)
(* The mem pool of a read-only node (crates/mem-pool/src/pool.rs,          *)
(* reset_read_only and refresh_mem_block).  A read-only node produces no   *)
(* blocks: its store is synced from a full node, which also sends the      *)
(* withdrawals and deposits of its next mem block.  The node's chain       *)
(* updater stores each new block and then tells the pool the new tip with  *)
(* reset_read_only; the mem block sync calls refresh_mem_block.  Both take *)
(* the pool's &mut self, so each call is one atomic step, but the store    *)
(* write and the reset_read_only that follows it are two calls.            *)
(***************************************************************************)
EXTENDS MemPool

CONSTANT SyncAtomic  \* the caller runs no refresh between a stored block
                     \* and its reset_read_only

ASSUME SyncAtomic \in BOOLEAN

VARIABLE memNumber   \* mem_block.block_info().number(): the block the mem
                     \* block is for

roVars == <<vars, memNumber>>

\* the blocks the full node may produce on the store's tip: at most one
\* withdrawal, one new deposit and one transaction, applying cleanly
FullNodeBlocks ==
    LET n == Len(chain)
        cand == [wds : {<<>>} \cup {<<w>> : w \in Wds},
                 deps : {<<>>} \cup {<<d>> : d \in Deposits \ ChainDeposits},
                 txs : {<<>>} \cup {<<t>> : t \in Txs}]
    IN  {b \in cand : \A a \in Accounts :
                         AppliesFrom(Ops(b), a, ChainNonce(n, a), ChainBalance(n, a))}

\* The chain updater inserts a block of the full node into the store.
StoreBlock ==
    /\ Len(chain) < MaxBlocks
    /\ \E b \in FullNodeBlocks : chain' = Append(chain, b)
    /\ UNCHANGED <<tipBranch, memBlock, memNonce, memBalance, pending, dbTxs, dbWds,
                   pendingDeposits, cyclesAvail, cyclesUsed, memNumber>>

\* reset_read_only(Some(new_tip), update_state) with the store's tip:
\* current_tip is set; with update_state the mem block is reset for the
\* next block and the snapshot's state is published, with no re-injection
\* and no pruning of pending
ResetReadOnly ==
    LET n == Len(chain) IN
    /\ tipBranch' = ChainTo(n)
    /\ \/ /\ memBlock' = EmptyBlock
          /\ memNumber' = n + 1
          /\ memNonce' = [a \in Accounts |-> ChainNonce(n, a)]
          /\ memBalance' = [a \in Accounts |-> ChainBalance(n, a)]
       \/ UNCHANGED <<memBlock, memNumber, memNonce, memBalance>>
    /\ UNCHANGED <<chain, pending, dbTxs, dbWds, pendingDeposits,
                   cyclesAvail, cyclesUsed>>

\* the withdrawals and deposits of the full node's next mem block
SyncedWds == {<<>>} \cup {<<w>> : w \in Wds}
SyncedDeps == {<<>>} \cup {<<d>> : d \in Deposits \ ChainDeposits}

\* the body of refresh_mem_block for a mem block of block `number`, once
\* its guards passed: the state is the snapshot of the store's last valid
\* tip; the old mem block's transactions are looked up in the store; a new
\* mem block replaces the old one; pending is pruned, withdrawals packaged
\* and prepare_next_mem_block run under a u64::MAX cycles pool, which is
\* not re-armed; the state is published and the store committed
Refresh(number, wds, deps) ==
    LET base == RemoveUnexecutables(BaseAt(Len(chain)))
        fresh(t) == t.nonce >= base.nonce[t.from]
        txs == SelectSeq(SelectSeq(memBlock.txs, LAMBDA t : t \in dbTxs), fresh)
    IN  \E order \in WdOrders(base) :
        LET s == FoldLeft(PushTx,
                          FinalizeDeposits(
                              FoldLeft(FinalizeWd, base, PackageMoreWds(base, wds, order)),
                              deps),
                          txs)
        IN  /\ memNumber' = number
            /\ memBlock' = [wds |-> s.wds, deps |-> s.deps, txs |-> s.txs]
            /\ memNonce' = s.nonce
            /\ memBalance' = s.balance
            /\ pending' = s.pending
            /\ dbTxs' = s.dbTxs
            /\ dbWds' = s.dbWds
            /\ cyclesAvail' = s.avail
            /\ cyclesUsed' = s.used
            /\ UNCHANGED <<chain, tipBranch, pendingDeposits>>

\* Variant for mutation checking: a mem block ahead of the next block is
\* accepted too.
RefreshMemBlockAcceptAhead ==
    /\ SyncAtomic => tip = Len(chain)
    /\ \E number \in {tip + 1, tip + 2}, wds \in SyncedWds, deps \in SyncedDeps :
        Refresh(number, wds, deps)

\* refresh_mem_block(block_info, withdrawals, deposits): a mem block from
\* the past, or one more than a block ahead of current_tip, is ignored; the
\* caller's scheduling decides whether a refresh can fall between a stored
\* block and its reset_read_only
RefreshMemBlock ==
    /\ SyncAtomic => tip = Len(chain)
    /\ \E number \in {tip + 1, tip + 2}, wds \in SyncedWds, deps \in SyncedDeps :
        /\ number = tip + 1
        /\ Refresh(number, wds, deps)

RONext ==
    \/ StoreBlock
    \/ ResetReadOnly
    \/ RefreshMemBlock
    \/ PushTransaction /\ UNCHANGED memNumber
    \/ PushWithdrawalRequest /\ UNCHANGED memNumber

\* create of a read-only node on a fresh chain: reset_read_only(tip, true)
ROInit == Init /\ memNumber = 1

ROSpec == ROInit /\ [][RONext]_roVars

----------------------------------------------------------------------------
(* Properties.                                                              *)

\* Readers that take the published state_db see a block the store holds
\* with the mem block applied, and never a block older than the one the
\* mem block's number follows.  reset_read_only publishes the state of
\* current_tip; a refresh checks the number against current_tip but builds
\* on the store's last valid tip, so when it runs between the chain
\* updater's store write and its reset_read_only the state is a block ahead
\* of the number (allowed here, see the hazard at line 1354).  A refresh
\* that accepts a number past the store, or a reset that leaves the old
\* state under the new empty mem block, breaks it.
ReadOnlyStateIsStoredBlockPlusMemBlock ==
    \E k \in (memNumber - 1)..Len(chain) : MemStateIsBlockPlusMemBlock(k)

=============================================================================
