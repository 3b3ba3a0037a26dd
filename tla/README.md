# TLA+ models of the godwoken mem pool

This directory models `crates/mem-pool/src/pool.rs`, the mem pool of a
godwoken node. It also lists the rest of the repository's sources and says
why each is or is not modelled. All modules are plain TLA+ and are checked
with TLC. `PROJECT.json` maps every definition that models code to the lines
it translates, and lists the runs, mutants, findings and hazards.

## 1. The system

The mem pool stages layer-2 transactions and withdrawal requests ahead of
the chain. It keeps:

| state (pool.rs) | what it is |
|---|---|
| `mem_block` | the next block: withdrawals, deposits, transactions, each with its post state |
| `mem_pool_state` | the published `state_db`: the tip state with the mem block applied. Readers load it through an `ArcSwap` |
| `current_tip` | the block the mem block builds on |
| `pending` | per account, an `EntryList` of transactions and withdrawals not yet in a block |
| the mem pool tables of the store | every pending transaction and withdrawal, for a restore after a restart |
| `pending_deposits` | deposit cells collected from layer 1 for the next block |
| `cycles_pool` | the execution cycles left for the mem block |

Its operations:

- `push_transaction` executes a transaction at once on the mem state, gated by the cycles pool. A success joins the mem block, the pending list and the store.
- `push_withdrawal_request` only verifies the withdrawal against the mem state. It is queued in pending and the store, and is applied at the next reset.
- `notify_new_tip` and `reset_mem_block` run `reset_full`:
  - walk back from both tips to the fork point (the reorg walk) and collect the content to re-inject;
  - refresh the deposits;
  - reset the mem block and prune stale pending entries (`remove_unexecutables`);
  - package more withdrawals, one per account (`try_package_more_withdrawals`);
  - apply withdrawals, then deposits, then re-inject transactions (`prepare_next_mem_block`);
  - re-arm the cycles pool, publish the state and commit the store.
- `reset_read_only` and `refresh_mem_block` serve read-only nodes, which produce no blocks. The node's chain updater stores each block synced from a full node and then calls `reset_read_only`, which sets `current_tip` and may reset the mem block to an empty one on that tip. The mem block sync calls `refresh_mem_block` with the full node's next block number, withdrawals and deposits. A refresh is ignored unless the number is `current_tip + 1`. It then rebuilds the mem block on the store's last valid tip, with the old mem block's transactions re-executed.
- `output_mem_block` packages a prefix of the mem block for the block producer. The prefix shrinks with the submission's retry count (`repackage_count`).

All of them take `&mut self`. The node calls them under one lock, so the
pool is a single writer and every operation is one atomic step. Readers see
only what `store_shared` / `store_state_db` published. The `await`s inside
`reset_full` (deposit collection, time estimation) run under the caller's
lock too, so they interleave with nothing of the pool.

The other sources of the repository are outside this core:

- block-producer `withdrawal.rs` builds layer-1 cells;
- rpc-client `contract.rs` queries an indexer;
- export_block, migrate, stat, conversion and bindings are tools and generated code.

`PROJECT.json` lists each with the reason.

## 2. Modules

| module | models | state | actions |
|---|---|---|---|
| `Reorg` | the ancestor walk of `reset_full` (lines 616-698) | old and new tip, `rem`, `add`, discarded lists, included sets, the re-inject result | `SkipWalk`, `BeginWalk`, `WalkRem`, `WalkAdd`, `WalkBoth` (one iteration of each loop) and `FinishWalk` (the `retain`s) |
| `PackageCount` | `repackage_count` (1416-1437) | (operators only) | `ShrOutcomes`, `RepackageCount` |
| `Package` | `output_mem_block`, `package_mem_block` | the mem block's sizes, the retry count, the result | `PackageMemBlock` |
| `MemPool` | the orchestrator, on a chain the node's producer extends and that may revert | every row of the table above (`current_tip` as `tipBranch`, the branch it names), and the chain | `PushTransaction`, `PushWithdrawalRequest`, `ProduceBlock`, `NotifyNewTip`, `ResetMemBlock`, `FailAfterWithdrawals`, `RevertBlocks` (the environment) |
| `MemPoolRestart` | restarts: `save_mem_block` (called by `Drop`), `MemPool::create`, `restore_pending_withdrawals`, `remove_reinjected_failed_txs`, the recovery reset | MemPool's variables and `saved`, the latest restore file | MemPool's actions, `SaveMemBlock`, `Restart(file)` |
| `MemPoolSpec` | the promise of the orchestrator (spec.md 4.4, 4.5, 5), not the code | the chain, the tip, the candidate block, the published state | `Admit`, `Produce` (a packaged prefix), `Rebase` (a wholesale replacement that applies on the tip), `Revert` (the chain loses blocks) |
| `ReadOnly` | a read-only node: `reset_read_only` (557-593), `refresh_mem_block` (1328-1413), the read-only branch of `create` | MemPool's variables and `memNumber`, the number of the block the mem block is for | `StoreBlock` (the chain updater), `ResetReadOnly`, `RefreshMemBlock`, and MemPool's pushes |
| `MC_Reorg`, `MC_MemPool`, `MC_MemPoolRestart`, `MC_ReadOnly` | the instances TLC checks | | |

### How MemPool maps to the code

- **Data.** An account's state is its nonce and its CKB balance, in units of one withdrawal. A transaction and a withdrawal are `[from, nonce]`, and a deposit credits one unit to its owner. The verifiers and the execution engine come down to the checks they make: the sender's next nonce, enough balance for a withdrawal, enough cycles for a transaction.
- **Working state.** One step of the writer computes on a working record `s` that holds the pool's fields. Its helpers follow the functions of pool.rs one to one:
  - `ExecuteTx` (execute_tx)
  - `PushTx` (push_transaction_with_db)
  - `FinalizeWd` (one iteration of finalize_withdrawals)
  - `FinalizeDeposits`
  - `RemoveUnexecutables`
  - `PackageMoreWds`
  - `RearmCycles`
- **A reset.** `ResetFull` chains these helpers in the order of `reset_full`: `BaseAt` / `ResetPrefix` / `ResetSuffix` / `Publish`.
- **A failing reset.** `FailAfterWithdrawals` is a reset whose fallible step after `finalize_withdrawals` returns `Err`. It is enabled only when the constant `ResetCanFail` is TRUE. The fields `reset_full` already wrote into `self` keep their new values, while the state_db and the store transaction are dropped.
- **Withdrawal packaging order.** `HashMap` iteration order decides which account's withdrawal fills the limited room. `WdOrders` lets it be any order.
- **Pending transactions** are a set. Every reset re-appends each re-injected transaction to its pending list, so the code's list holds duplicates. Its only other use is the removal of stale entries, which the set models exactly.
- **The chain.** `ProduceBlock` appends the packaged prefix of the mem block, for any retry count up to `MaxRetry`. It and `ResetMemBlock` are enabled only when the pool's tip is the chain's tip, and `NotifyNewTip` only when it is not. With the constant `ChainCanRevert` TRUE, `RevertBlocks` drops the chain's blocks above any block; spec.md says layer 1 can revert blocks the node produced, and the caller that reacts to it is outside `src/`, so this action is spec_modelled.
- **The tip as a branch.** `tipBranch` is the sequence of blocks `current_tip` names; `tip == Len(tipBranch)`. The old tip's blocks stay known after a revert, which is what the reorg walk reads from the store.
- **Re-injection in closed form.** `ReorgReinject(old, new)` is the result of the walk at 616-698: the fork point is `LongestCommonPrefix`; the discarded blocks' transactions in block order, minus those of the new branch; the withdrawals likewise, with the code's line-658 quirk (the withdrawals of `old[lo]` rather than of the new side when the new tip is higher). There is no walk when the old tip is the new tip's parent, and none past `ReorgDepthLimit` = 64. `ResetTxs` appends the mem block's stored transactions after the re-injected ones and drops those with a stale nonce (752-775). The step-by-step walk is checked in `Reorg`; in MemPool's runs a revert only ever makes one branch a prefix of the other.

### MemPool refines MemPoolSpec

`MemPoolSpec` states what a reader of the published pair and the block
producer may rely on. It has no pending queue, no store and no cycles pool.
`MemPool` defines `AbstractMemPool == INSTANCE MemPoolSpec WITH ...`, with
this refinement mapping:

- `block` is `memBlock`;
- `state` is `memNonce` and `memBalance`, joined per account;
- `chain` maps to itself and `tip` to `Len(tipBranch)`;
- `RevertBlocks` is `Revert`.

The mempool and mempool_revert runs check `ImplementsMemPoolSpec == AbstractMemPool!Spec` as a
PROPERTY. Under the mapping, each MemPool step is one abstract step:

- `PushTransaction` is `Admit`;
- `ProduceBlock` is `Produce`, because `repackage_count` takes a prefix of
  withdrawals, then deposits, then transactions;
- `NotifyNewTip` and `ResetMemBlock` are `Rebase`;
- `PushWithdrawalRequest` only queues, so it is a stutter step.

Among other things, the refinement says that a reset never puts a deposit
cell that the chain already consumed into the mem block. That is why
`refresh_deposit_cells` is its own definition, `RefreshDepositCells`. It
assumes the provider returns live cells only.

`FailAfterWithdrawals` is not a step of the abstract spec, so a failing
reset breaks the refinement. The mempool_failchain run shows that failure
through `ChainApplies`.

### How MemPoolRestart maps to the code

- **What survives.** The store survives a restart: the chain and the mem pool tables. All other state is rebuilt by `create`. `saved` is the mem block `save_mem_block` last wrote. `Drop` calls it on a graceful shutdown, and an abrupt crash skips it.
- **The restore file.** `Restart(file)` reads either `saved` or `NoFile`. `NoFile` stands for a file that `delete_before_one_hour` removed or that `restore_from_latest` could not read.
- **The steps of a restart,** in the code's order:
  - the tip becomes the last valid block;
  - `RestorePendingWithdrawals` pushes every stored withdrawal except the file's mem block withdrawals, and verifies it against the tip state;
  - `RemoveReinjectedFailedTxs` keeps only the stored transactions among the file's hashes;
  - the recovery reset (`old_tip` is `None`) keeps the file's deposits without refreshing them, and finalizes the file's withdrawals that the store still has, without packaging more;
  - `ReplayRestoredTxs` pushes the restored transactions.
- **The replay's caller.** The caller of the replay of `pending_restored_tx_hashes` is outside `src/`. It is modelled from spec.md ("replayed at startup before serving traffic"), so the pool never serves a request before the replay. That is also why `save_mem_block`'s branch for undrained hashes does not arise.

### How ReadOnly maps to the code

- **The callers.** The chain updater and the mem block sync of a read-only node are outside `src/`. `StoreBlock` stands for the updater's store write: it appends a block of at most one withdrawal, one new deposit and one transaction that applies on the store's tip (`FullNodeBlocks`). Each pool call is one atomic step, but the store write and the `reset_read_only` that follows are two steps. Whether a refresh can fall between them is the constant `SyncAtomic`. With `SyncAtomic` TRUE, `RefreshMemBlock` is enabled only when `current_tip` is the store's tip. The readonly run sets it FALSE, so the race is explored.
- **`ResetReadOnly`** sets `tip` (current_tip) to the store's tip. With `update_state` it resets the mem block to an empty one numbered `tip + 1`, and publishes the snapshot's state with no re-injection and no pruning of pending. Without it, nothing else changes.
- **`RefreshMemBlock`** picks a block number `tip + 1` or `tip + 2` and the full node's withdrawals and deposits. Only `tip + 1` passes the guards; past numbers make no state change, so they are stutter steps. `Refresh` is the body: the state at the store's last valid tip, the old mem block's transactions found in the store, `RemoveUnexecutables`, a `u64::MAX` cycles pool that nothing re-arms, `PackageMoreWds`, `prepare_next_mem_block` (the same `FinalizeWd`, `FinalizeDeposits` and `PushTx` as MemPool), then publish and commit.
- **Init.** `create` of a read-only node ends with `reset_read_only(tip, true)`, so the mem block starts empty and numbered one past the tip.

## 3. Runs

| run | cfg | expect | what it shows |
|---|---|---|---|
| reorg | `MC_Reorg.cfg` | pass | For every pair of tips of a three-branch tree (depth limit 2), the walk re-injects exactly the discarded-minus-included transactions in block order. The reference is recursive: `PathTo`, `ForkPoint`, `BranchOf`, `ExpectedReinject`. |
| reorg_wds | `MC_Reorg_wds.cfg` | violation | The re-injected withdrawals are wrong when the new tip is higher: line 658 collects `rem`'s withdrawals, not `add`'s. |
| package | `MC_Package.cfg` | pass | `repackage_count` keeps `max(1, N >> r)` items, withdrawals first, for every mem block of up to 3+3+3 items and every `r` below the usize width (4 bits here). |
| mempool | `MC_MemPool.cfg` | pass | On a chain that only grows, every mem block stays within the withdrawal, transaction and cycles limits (`MemBlockWithinLimits`). Pushes, resets and produced blocks keep the published state equal to tip plus mem block (`MemStateIsTipPlusMemBlock`). Every produced block applies (`ChainApplies`), and the store holds the mem block (`StoreHoldsMemBlock`). MemPool implements `MemPoolSpec` (`ImplementsMemPoolSpec`). |
| mempool_fail | `MC_MemPool_fail.cfg` | pass | A failing reset still leaves the mem block's items in the store. |
| mempool_failchain | `MC_MemPool_failchain.cfg` | violation | After a failing reset, a push against the stale state_db creates a nonce gap, and the produced block does not apply. |
| readonly | `MC_ReadOnly.cfg` | pass | A refresh may fall between a stored block and its `reset_read_only` (`SyncAtomic` FALSE). The published state is still always a stored block's state with the mem block applied, and that block is never older than the one the mem block's number follows (`ReadOnlyStateIsStoredBlockPlusMemBlock`). After the race the state is a block ahead of the number, which this allows. The store holds the mem block. |
| mempool_revert | `MC_MemPool_revert.cfg` | pass | With reverts and no failing reset: after any revert, the next reset re-injects the discarded transactions, the published state is again tip plus mem block (`MemStateIsTipPlusMemBlock`), and the transactions `prepare_next_mem_block` would apply now pass its nonce-order assertion (`ResetInNonceOrder`, line 942). MemPool still implements `MemPoolSpec`, a revert being its `Revert` step (`ImplementsMemPoolSpec`). |
| mempool_limits | `MC_MemPool_limits.cfg` | violation | A block with one transaction is produced and reverted; the reset re-injects it under the `u64::MAX` cycles pool, then pushes the mem block's transaction too. Two transactions at one cycle each exceed `MaxCycles` = 1: `consume_cycles` at line 821 fails unchecked and the pool reports 0 cycles used. |
| mempool_lost | `MC_MemPool_lost.cfg` | violation | a1's transactions T0 and T1 are in two produced blocks, and a2's T2 is in the mem block. Both blocks are reverted. The reset replays T0 and T1 first, which fills the two-transaction mem block, so T2 is rejected at line 329. T2 could execute and its client got Ok, but no later reset replays it: `ResetKeepsOwedTxs` says every transaction a reset owes the new mem block is either in it or cannot execute there. |
| restart | `MC_MemPoolRestart.cfg` | pass | Saves and restarts, graceful or abrupt, keep the mem block in the store. A restart right after a save, at the pool's tip, rebuilds the same mem block and the same mem state (`GracefulRestartRestoresMemBlock`). |
| restart_deposit | `MC_MemPoolRestart_deposit.cfg` | violation | Save, the block with deposit d1 is produced, restart: d1 is on the chain and in the new mem block, and the account is credited twice. The recovery reset never re-checks the restored deposits. |

Every property of a passing run has a mutant in `PROJECT.json`. The mutant is
a variant of a mapped definition, defined just before it and marked
"Variant for mutation checking". Each variant is a plausible bug: `>=` for
`>` in a loop guard, a push at the back instead of the front, a lost floor, an off-by-one in the room for withdrawals, a state never published,
a nonce check loosened to `>=`, kept withdrawals removed from the store, restored transaction hashes ignored at a restart, a refresh that accepts a mem block one block ahead, deposit cells collected from a view that still shows consumed cells, a transaction executed without the cycles check, a reset that publishes the old tip, re-injection newest block first, a reset that takes its snapshot at the old tip.
TLC finds the property violated once the variant replaces the original.

### Bounds

- **MC_Reorg.** A genesis block and three branches: A1-A3, B2-B4 forking at A1, and C1-C3 forking at genesis. Seven transactions and six withdrawals are placed so that blocks share content across branches. Every ordered pair of the ten blocks is an initial state, so every walk shape occurs: extension, equal height, old side higher, new side higher, and depth above the limit.
- **Package.** Four-bit usize, up to 3 items of each kind, retry 0..3. That covers zero items, the floor, every mixture and the last shift before the width. `ShrOutcomes` also models the panic and the wrapped shift at the width, but no run reaches them: the block producer would have to fail one submission 64 times.
- **MC_MemPool.**
  - Two accounts, two deposits (one per account), nonces 0..1, three blocks.
  - Two transactions and one withdrawal per mem block, and two cycles per block at one cycle per transaction.
  - Retry counts 0..1 for the producer, and at most 2 queued withdrawals per account. The last is a model bound, needed because duplicate admission is unbounded.
  - These are enough for a withdrawal to compete with a transaction for one nonce and for two accounts to compete for the single withdrawal slot. A deposit can land in one block and be spent by a withdrawal in the next, and a block can be packaged partially.
  - The failure runs use one block and one deposit: after a failed reset the stale state lets invalid content grow quickly.
  - The revert runs (mempool_revert, mempool_limits, mempool_lost) use two blocks, one cycle and one withdrawal per block. Two reverted blocks of one transaction each already fill a two-transaction mem block. A single produced and reverted block already puts two transactions into a one-cycle mem block. A third block would be needed for reinjected withdrawals to exceed `max_withdrawals` (850), and with it the run did not finish in 10 minutes; that hazard stays unchecked.
  - `ResetCanFail` is FALSE in the revert runs: a failed reset followed by a revert reaches the assertion panic at 942 (see the hazards), and the runs ask what holds when resets succeed.
- **MC_MemPoolRestart.** One account, two deposits that both credit it, a chain of two blocks, and otherwise the bounds of MC_MemPool. Restarts drop pending transactions and shrink the store, so two accounts multiply the states beyond reach (over 3.6 million after 30 minutes). One account with two units of balance still has a withdrawal queued behind a mem block withdrawal, a deposit in a produced block and in a save, and saves that are stale by a block.

- **MC_ReadOnly.** One account, two deposits, two stored blocks, the bounds of MC_MemPool otherwise, `U64Max` = 4, and one queued withdrawal per account. Nothing re-arms the read-only cycles pool, so each push draws on what the last refresh set, and a larger `U64Max` only adds states that differ in cycles. Four still lets a refresh re-execute the mem block's transaction and the pushes that follow it succeed. Two accounts did not finish within 15 minutes, and with the race allowed two queued withdrawals took nearly 5. The race needs just one stored block and one refresh.

### Fairness

No specification assumes fairness, and no run checks a liveness property.
The MemPool steps are driven by external callers (RPC clients, the block
producer, the chain). The reorg walk is one loop inside `reset_full`, and it
ends because each step moves to a parent with a number one lower (an ASSUME
of `Reorg`). Checking that it ends would show nothing about the code.

## 4. Inventory of hazards

`PROJECT.json` lists each hazard at its line, with the properties that catch
it. In short:

- **Ordering in the reorg walk.** Front-insertion (635) and the withdrawal set of the second loop (658).
- **Walk length.** Depth is checked on the height difference only (623). Two tips of equal height whose fork point is deep are walked to the bottom. No property states a step bound, because pool.rs has none to translate.
- **Usize shift.** `shr` overflows once the retry count reaches the width (1422), and a zero result needs the floor (1423).
- **Duplicate withdrawals.** The duplicate check looks at the mem block only (385). The model lets a withdrawal be queued twice. A copy applied twice would break `MemStateIsTipPlusMemBlock` and `ChainApplies`.
- **Partial failure of a reset.** `self` is updated before the fallible steps (788).
- **Partial failure of a push.** The mem block is updated before the store writes (363, 402).
- **Stale verification of withdrawals.** They are checked against a mem state without the queued withdrawals, so a tx can take the same nonce (391). The next reset then evicts the tx. Its nonce is taken by then, and spec.md 8 asks only for non-stale backlog to reappear, so no run keeps this case.
- **Stale store lookup.** The mem block's transactions are read before the pending entries are pruned (755).
- **HashMap order in withdrawal packaging** (854).
- **Pending growth.** Each reset re-appends re-injected transactions to pending (372).
- **Cycles after re-injection.** Re-injection runs with unlimited cycles before the pool is re-armed (820).
- **One withdrawal per account per reset** (855).
- **Save on Drop only** (122), so a restart may read a save older than the last produced block.
- **Restored deposits unchecked** (168, with the refresh skipped at 701).
- **Restore order.** Stored withdrawals are re-verified before the mem block withdrawals are applied (1285).
- **Transactions after a restart** survive only through the saved hashes (1308).
- **Read-only refresh against a moved store** (1354). The guard uses `current_tip`, but the state comes from the store's last valid tip. The readonly run allows the race. `ReadOnlyStateIsStoredBlockPlusMemBlock` checks that the state is still a stored block's plus the mem block and never behind the number. The number may trail the state by a block, and whether the callers outside `src/` allow that is not known.
- **Re-injection order and the nonce assertion** (942): re-injected transactions must come oldest first, or the assertion panics (`ResetInNonceOrder`).
- **Cycles and withdrawals after a revert** (821, 850): re-injection is not limited by the cycles pool or `max_withdrawals` (`MemBlockWithinLimits`, violated in mempool_limits).
- **Lost re-injected transactions** (329): a full mem block drops them, with a TODO in the code (`ResetKeepsOwedTxs`, violated in mempool_lost).
- **`reset_mem_block` after a revert** but before its notify panics at 727; the caller's order is outside `src/`.
- **Failed reset, then a revert** reaches the panic at 942.
- **Read-only cycles pool** is set to `u64::MAX` and never re-armed (1388). No property states a limit for read-only nodes.

## 5. Not modelled, and why

1. **Forks to another branch.** MemPool's chain changes only by the pool's own produced blocks and by reverts, so the pool's branch and the chain are always prefixes of one another. Godwoken has one block producer, and it produces only on the pool's tip. The reorg walk's other shapes (equal heights, a higher new side, the 658 quirk) are checked in `Reorg`.
2. **Three-block reverts.** A third block would be needed to check `max_withdrawals` after a revert (850). With reverts, the run did not finish in 10 minutes.
3. **Failing store writes of a push** (363, 402). These are single-step faults: the mem block or pending is updated, and the store write or commit then fails. TLC would only restate what the code shows at a glance. Seeing their real effect would also need two transactions with the same sender and nonce, which the `[from, nonce]` abstraction merges. The run budget went to the interleavings instead.
4. **Liveness of the pool.** Its steps are driven by callers outside `src/`: RPC clients, the block producer and the chain updater. On a chain bounded by `MaxBlocks`, "a queued withdrawal is eventually in a block" fails or holds because of the bound, not because of the code. The reorg walk ends by the shape of the tree, whatever its loop bodies do.
5. **Refinement of `MemPoolSpec` by `MemPoolRestart` and `ReadOnly`.**
   - `MemPoolRestart` does not implement it: restart_deposit shows a restored mem block reusing a deposit the chain already consumed.
   - A read-only node's blocks come from the full node and are not prefixes of its own mem block, so `Produce` does not describe them.
6. **The account creator, new addresses, the sync server and the custodian capacity check** of `verify_withdrawal_request`. Their logic lives in types and crates outside `src/`, and the model's accounts exist from genesis. The custodian check is subsumed by the balance check while every deposit is finalized.
7. **The components other than the mem pool**, listed in `PROJECT.json`.
   - `withdrawal.rs` builds one layer-1 transaction per call from a list of cells, and its decisions come from checks outside `src/`.
   - The rest are RPC and indexer I/O, offline tools and generated bindings.

   None of them holds concurrent or stateful logic that TLC could check beyond what their callers already do.
