------------------------------ MODULE MemPool ------------------------------
(***************************************************************************)
(* The MemPool orchestrator of crates/mem-pool/src/pool.rs, on a chain     *)
(* that the node's own block producer extends.                             *)
(*                                                                         *)
(* The pool is a single writer: every operation below runs to completion   *)
(* under the &mut self of MemPool, so each is one atomic step.  The state  *)
(* it keeps is the mem block (withdrawals, deposits, transactions of the   *)
(* next block), the mem state (the published state_db: the tip state with *)
(* the mem block applied), the per-account pending queue, the mem pool     *)
(* tables of the store, the pending deposits and the cycles pool.          *)
(*                                                                         *)
(* Data is abstracted to what the properties tell apart: an account's      *)
(* state is its nonce and its CKB balance in units of one withdrawal; a    *)
(* transaction or a withdrawal is its sender and nonce; a deposit credits  *)
(* one unit to its owner.  The external verifiers and the execution engine *)
(* are reduced to the nonce, balance and cycles checks they make.          *)
(***************************************************************************)
EXTENDS Integers, Sequences, SequencesExt, FiniteSets

CONSTANTS
    Accounts,        \* account ids
    MaxNonce,        \* largest nonce a request may carry
    Deposits,        \* deposit cells users lock on layer 1
    DepositTo,       \* DepositTo[d]: the account deposit d credits
    MaxBlocks,       \* bound on the chain length
    MaxPending,      \* bound on the length of a pending list (model bound)
    MaxTxs,          \* mem_block_config.max_txs
    MaxWithdrawals,  \* mem_block_config.max_withdrawals
    MaxCycles,       \* mem_block_config.max_cycles_limit
    TxCycles,        \* cycles one transaction execution consumes
    U64Max,          \* u64::MAX: the cycles pool of a reset's re-injection
    MaxRetry,        \* largest retry_count of output_mem_block
    UsizeBits,       \* width of usize
    Panic,           \* the outcome of an overflowing shift
    ResetCanFail,    \* whether a fallible step of reset_full may fail
    ChainCanRevert   \* whether the chain updater may revert blocks

ASSUME /\ MaxNonce \in Nat /\ MaxBlocks \in Nat /\ MaxPending \in Nat
       /\ DepositTo \in [Deposits -> Accounts]
       /\ {MaxTxs, MaxWithdrawals, MaxCycles, TxCycles, U64Max, MaxRetry} \subseteq Nat
       /\ MaxRetry < UsizeBits /\ {ResetCanFail, ChainCanRevert} \subseteq BOOLEAN

LOCAL PC == INSTANCE PackageCount

Txs == [from : Accounts, nonce : 0..MaxNonce]   \* L2Transaction
Wds == [from : Accounts, nonce : 0..MaxNonce]   \* WithdrawalRequestExtra

EmptyBlock == [wds |-> <<>>, deps |-> <<>>, txs |-> <<>>]
NoPending == [a \in Accounts |-> [txs |-> {}, wds |-> <<>>]]

VARIABLES
    chain,            \* the store's valid chain above genesis (environment)
    tipBranch,        \* current_tip: the blocks up to the block the mem pool
                      \* builds on (its hash names that branch)
    memBlock,         \* mem_block: [wds, deps, txs] of the next block
    memNonce,         \* nonces of the published mem state_db
    memBalance,       \* CKB balances of the published mem state_db
    pending,          \* pending: account id -> EntryList [txs (as a set), wds]
    dbTxs,            \* mem pool transaction table of the store
    dbWds,            \* mem pool withdrawal table of the store
    pendingDeposits,  \* pending_deposits
    cyclesAvail,      \* cycles_pool: cycles still available
    cyclesUsed        \* cycles_pool: cycles_used

vars == <<chain, tipBranch, memBlock, memNonce, memBalance, pending, dbTxs, dbWds,
          pendingDeposits, cyclesAvail, cyclesUsed>>

\* current_tip.1: the number of the block the mem pool builds on
tip == Len(tipBranch)

----------------------------------------------------------------------------
(* The chain state.                                                         *)

\* the blocks 1..n of the chain
ChainTo(n) == SubSeq(chain, 1, n)

CountIf(seq, P(_)) == Len(SelectSeq(seq, P))

\* nonce and balance of account a after the blocks bs (withdrawals and
\* transactions bump the nonce; deposits credit, withdrawals debit)
NonceAfter(bs, a) ==
    FoldLeft(LAMBDA acc, b : acc + CountIf(b.wds, LAMBDA w : w.from = a)
                                 + CountIf(b.txs, LAMBDA t : t.from = a), 0, bs)

BalanceAfter(bs, a) ==
    FoldLeft(LAMBDA acc, b : acc + CountIf(b.deps, LAMBDA d : DepositTo[d] = a)
                                 - CountIf(b.wds, LAMBDA w : w.from = a), 0, bs)

ChainNonce(n, a) == NonceAfter(ChainTo(n), a)
ChainBalance(n, a) == BalanceAfter(ChainTo(n), a)

ChainDeposits == UNION {ToSet(chain[i].deps) : i \in DOMAIN chain}

----------------------------------------------------------------------------
(* One step of the writer, on a working copy s of its fields:              *)
(* [nonce, balance, wds, deps, txs, pending, dbTxs, dbWds, avail, used].   *)

\* Variant for mutation checking: the execution engine accepting any
\* nonce not below the sender's (a future nonce is let through).
ExecuteTxFutureNonce(s, tx) ==
    IF tx.nonce >= s.nonce[tx.from] /\ s.avail >= TxCycles
    THEN [ok |-> TRUE,
          s |-> [s EXCEPT !.nonce[tx.from] = tx.nonce + 1,
                          !.avail = @ - TxCycles,
                          !.used = @ + TxCycles]]
    ELSE [ok |-> FALSE, s |-> s]

\* Variant for mutation checking: the cycles pool is drawn from without
\* checking that it can pay.
ExecuteTxUncapped(s, tx) ==
    IF tx.nonce = s.nonce[tx.from]
    THEN [ok |-> TRUE,
          s |-> [s EXCEPT !.nonce[tx.from] = @ + 1,
                          !.avail = @ - TxCycles,
                          !.used = @ + TxCycles]]
    ELSE [ok |-> FALSE, s |-> s]

\* execute_tx: the execution engine runs the transaction against the
\* state, drawing its cycles from the cycles pool; it accepts the sender's
\* next nonce while the pool can pay.  The result is Ok with the new state,
\* or Err with the state reverted to the snapshot.
ExecuteTx(s, tx) ==
    IF tx.nonce = s.nonce[tx.from] /\ s.avail >= TxCycles
    THEN [ok |-> TRUE,
          s |-> [s EXCEPT !.nonce[tx.from] = @ + 1,
                          !.avail = @ - TxCycles,
                          !.used = @ + TxCycles]]
    ELSE [ok |-> FALSE, s |-> s]

\* push_transaction_with_db: reject a duplicate or a full mem block, then
\* execute_tx; on success the receipt joins the mem block and the
\* transaction the store and the sender's pending list.
PushTx(s, tx) ==
    LET e == ExecuteTx(s, tx) IN
    IF /\ tx \notin ToSet(s.txs)
       /\ Len(s.txs) < MaxTxs
       /\ e.ok
    THEN [e.s EXCEPT !.txs = Append(@, tx),
                   !.dbTxs = @ \cup {tx},
                   !.pending[tx.from].txs = @ \cup {tx}]
    ELSE s

\* one iteration of finalize_withdrawals: WithdrawalVerifier (the sender's
\* next nonce and enough balance), then apply_withdrawal_request; the
\* withdrawal is added to pending and the store unless pending has it
FinalizeWd(s, w) ==
    IF w.nonce = s.nonce[w.from] /\ s.balance[w.from] >= 1
    THEN [s EXCEPT !.nonce[w.from] = @ + 1,
                   !.balance[w.from] = @ - 1,
                   !.wds = Append(@, w),
                   !.pending[w.from].wds =
                        IF w \in ToSet(@) THEN @ ELSE Append(@, w),
                   !.dbWds = IF w \in ToSet(s.pending[w.from].wds) THEN @
                             ELSE @ \cup {w}]
    ELSE s

\* finalize_deposits: every deposit is applied, in order
FinalizeDeposits(s, deps) ==
    [s EXCEPT !.balance = [a \in Accounts |->
                  @[a] + CountIf(deps, LAMBDA d : DepositTo[d] = a)],
              !.deps = deps]

\* Variant for mutation checking: every pending withdrawal of an account
\* with pending withdrawals is removed from the store, kept ones too.
RemoveUnexecutablesDropAll(s) ==
    LET keepTx(t) == t.nonce >= s.nonce[t.from]
        keepWd(w) == w.nonce >= s.nonce[w.from] /\ 1 <= s.balance[w.from]
        kept == [a \in Accounts |->
                    [txs |-> {t \in s.pending[a].txs : keepTx(t)},
                     wds |-> SelectSeq(s.pending[a].wds, keepWd)]]
        dropped == UNION {s.pending[a].txs \ kept[a].txs : a \in Accounts}
    IN  [s EXCEPT !.pending = kept,
                  !.dbTxs = @ \ dropped,
                  !.dbWds = @ \ UNION {ToSet(s.pending[a].wds) : a \in Accounts}]

\* remove_unexecutables: drop pending transactions below the account's
\* nonce; when the account has pending withdrawals, drop those below the
\* nonce or above its balance; remove what was dropped from the store
RemoveUnexecutables(s) ==
    LET keepTx(t) == t.nonce >= s.nonce[t.from]
        keepWd(w) == w.nonce >= s.nonce[w.from] /\ 1 <= s.balance[w.from]
        kept == [a \in Accounts |->
                    [txs |-> {t \in s.pending[a].txs : keepTx(t)},
                     wds |-> SelectSeq(s.pending[a].wds, keepWd)]]
        dropped == UNION {s.pending[a].txs \ kept[a].txs : a \in Accounts}
        droppedWds == UNION {ToSet(s.pending[a].wds) \ ToSet(kept[a].wds) : a \in Accounts}
    IN  [s EXCEPT !.pending = kept,
                  !.dbTxs = @ \ dropped,
                  !.dbWds = @ \ droppedWds]

\* Variant for mutation checking: one withdrawal more than there is room for.
PackageMoreWdsOffByOne(s, wds, order) ==
    LET fresh(w) == w.nonce >= s.nonce[w.from]
        kept == SelectSeq(wds, fresh)
        firsts == SelectSeq([i \in DOMAIN order |-> s.pending[order[i]].wds[1]], fresh)
        room == MaxWithdrawals - Len(kept) + 1
    IN  IF Len(kept) < MaxWithdrawals
        THEN kept \o SubSeq(firsts, 1, PC!MinOf(room, Len(firsts)))
        ELSE kept

\* try_package_more_withdrawals: keep the withdrawals not below the
\* account's nonce, then, while there is room, the first pending
\* withdrawal of each account in the HashMap's iteration order
PackageMoreWds(s, wds, order) ==
    LET fresh(w) == w.nonce >= s.nonce[w.from]
        kept == SelectSeq(wds, fresh)
        firsts == SelectSeq([i \in DOMAIN order |-> s.pending[order[i]].wds[1]], fresh)
        room == MaxWithdrawals - Len(kept)
    IN  IF Len(kept) < MaxWithdrawals
        THEN kept \o SubSeq(firsts, 1, PC!MinOf(room, Len(firsts)))
        ELSE kept

\* CyclesPool::new(max_cycles_limit) followed by consume_cycles(used):
\* all or nothing
RearmCycles(s) ==
    IF s.used <= MaxCycles
    THEN [s EXCEPT !.avail = MaxCycles - s.used]
    ELSE [s EXCEPT !.avail = MaxCycles, !.used = 0]

----------------------------------------------------------------------------
(* reset_full, the block_in_place part, from the reset of the mem block    *)
(* to the publication of the new state.                                    *)

\* the working state at the new tip: the store snapshot of block n, and
\* the pending queue and the store tables reset_full starts from
BaseWith(n, pend, dTxs, dWds) ==
    [nonce |-> [a \in Accounts |-> ChainNonce(n, a)],
     balance |-> [a \in Accounts |-> ChainBalance(n, a)],
     wds |-> <<>>, deps |-> <<>>, txs |-> <<>>,
     pending |-> pend, dbTxs |-> dTxs, dbWds |-> dWds,
     avail |-> U64Max, used |-> 0]

BaseAt(n) == BaseWith(n, pending, dbTxs, dbWds)

\* the accounts whose pending entry has a withdrawal, in every order a
\* HashMap may iterate them
WdOrders(s) == SetToSeqs({a \in Accounts : s.pending[a].wds /= <<>>})

\* the literal 64 of reset_full: a deeper reorg is not walked
ReorgDepthLimit == 64

\* the field ("txs" or "wds") of the blocks bs, in chain and block order
ContentOf(bs, field) == FlattenSeq([i \in DOMAIN bs |-> bs[i][field]])

\* s without the elements of the set S, order kept (VecDeque::retain)
Retain(s, S) == SelectSeq(s, LAMBDA x : x \notin S)

\* Variant for mutation checking: the discarded blocks are collected
\* newest first (the blocks pushed at the back, their content in order).
ReorgReinjectNewestFirst(old, new) ==
    LET lo == Len(old)
        ln == Len(new)
        f == Len(LongestCommonPrefix({old, new}))
        discarded == Reverse(SubSeq(old, f + 1, lo))
        inclTxs == ToSet(ContentOf(SubSeq(new, f + 1, ln), "txs"))
        inclWds == ToSet(ContentOf(SubSeq(new, f + 1, PC!MinOf(lo, ln)), "wds"))
                   \cup (IF ln > lo /\ lo > 0 THEN ToSet(old[lo].wds) ELSE {})
        depth == IF ln >= lo THEN ln - lo ELSE lo - ln
    IN  IF (ln > 0 /\ old = SubSeq(new, 1, ln - 1)) \/ depth > ReorgDepthLimit
        THEN [txs |-> <<>>, wds |-> <<>>]
        ELSE [txs |-> Retain(ContentOf(discarded, "txs"), inclTxs),
              wds |-> Retain(ContentOf(discarded, "wds"), inclWds)]

\* the reorg walk of reset_full from the branch old of old_tip to the
\* branch new of new_tip, in closed form (the walk itself is module
\* Reorg): the blocks of old above the fork point are discarded, those of
\* new included; the loop that walks the higher new side includes the
\* withdrawals of the old tip block instead of its own.  No walk when the
\* new tip's parent is the old tip or the tips are too far apart.  Blocks
\* are compared as records, which tells the same blocks apart as their
\* hashes on the branches of this module: one is a prefix of the other.
ReorgReinject(old, new) ==
    LET lo == Len(old)
        ln == Len(new)
        f == Len(LongestCommonPrefix({old, new}))
        discarded == SubSeq(old, f + 1, lo)
        inclTxs == ToSet(ContentOf(SubSeq(new, f + 1, ln), "txs"))
        inclWds == ToSet(ContentOf(SubSeq(new, f + 1, PC!MinOf(lo, ln)), "wds"))
                   \cup (IF ln > lo /\ lo > 0 THEN ToSet(old[lo].wds) ELSE {})
        depth == IF ln >= lo THEN ln - lo ELSE lo - ln
    IN  IF (ln > 0 /\ old = SubSeq(new, 1, ln - 1)) \/ depth > ReorgDepthLimit
        THEN [txs |-> <<>>, wds |-> <<>>]
        ELSE [txs |-> Retain(ContentOf(discarded, "txs"), inclTxs),
              wds |-> Retain(ContentOf(discarded, "wds"), inclWds)]

\* the transactions reset_full hands to prepare_next_mem_block, after its
\* filter_tx: the re-injected ones, then those of the mem block found in
\* the store, without any below its sender's nonce in the working state s
ResetTxs(s, reinjectTxs) ==
    LET memBlockTxs == SelectSeq(memBlock.txs, LAMBDA t : t \in dbTxs)
    IN  SelectSeq(reinjectTxs \o memBlockTxs, LAMBDA t : t.nonce >= s.nonce[t.from])

\* reset_full after the reorg walk and the refresh of the deposits, up to
\* finalize_withdrawals included: the working state s and the
\* transactions to re-inject
ResetPrefix(n, reinjectTxs, reinjectWds, order) ==
    LET base == RemoveUnexecutables(BaseAt(n))
        wds == PackageMoreWds(base, reinjectWds, order)
    IN  [s |-> FoldLeft(FinalizeWd, base, wds), txs |-> ResetTxs(base, reinjectTxs)]

\* the rest of prepare_next_mem_block and reset_full
ResetSuffix(p, deps) ==
    RearmCycles(FoldLeft(PushTx, FinalizeDeposits(p.s, deps), p.txs))

\* Variant for mutation checking: the new state_db is never stored into
\* mem_pool_state, so readers keep the state of the previous mem block.
PublishStale(n, s) ==
    /\ tipBranch' = ChainTo(n)
    /\ memBlock' = [wds |-> s.wds, deps |-> s.deps, txs |-> s.txs]
    /\ pending' = s.pending
    /\ dbTxs' = s.dbTxs
    /\ dbWds' = s.dbWds
    /\ cyclesAvail' = s.avail
    /\ cyclesUsed' = s.used
    /\ UNCHANGED <<memNonce, memBalance>>

\* the end of reset_full: the pool's fields take the working state, the
\* state_db is stored into mem_pool_state and the store transaction commits
Publish(n, s) ==
    /\ tipBranch' = ChainTo(n)
    /\ memBlock' = [wds |-> s.wds, deps |-> s.deps, txs |-> s.txs]
    /\ memNonce' = s.nonce
    /\ memBalance' = s.balance
    /\ pending' = s.pending
    /\ dbTxs' = s.dbTxs
    /\ dbWds' = s.dbWds
    /\ cyclesAvail' = s.avail
    /\ cyclesUsed' = s.used

\* a fallible step after the mem block was reset fails: the mem block, the
\* tip, the pending queue and the cycles pool keep what reset_full wrote
\* into self so far; the store transaction is dropped and the state_db is
\* not published
FailAfterWithdrawals(n, s) ==
    /\ tipBranch' = ChainTo(n)
    /\ memBlock' = [wds |-> s.wds, deps |-> <<>>, txs |-> <<>>]
    /\ pending' = s.pending
    /\ cyclesAvail' = U64Max
    /\ cyclesUsed' = 0
    /\ UNCHANGED <<memNonce, memBalance, dbTxs, dbWds>>

\* Variant for mutation checking: deposit cells are taken from a view that
\* still shows the cells the chain's blocks consumed.
RefreshDepositCellsStale ==
    {SetToSeq(S) : S \in SUBSET Deposits}

\* refresh_deposit_cells: pending_deposits become the live deposit cells
\* the provider collects, after sanitize_deposit_cells; a cell a block of
\* the chain consumed is no longer live
RefreshDepositCells ==
    {SetToSeq(S) : S \in SUBSET (Deposits \ ChainDeposits)}

\* Variant for mutation checking: the state snapshot and the pending queue
\* are taken at the pool's old tip instead of the new one.
ResetFullStaleSnapshot(n) ==
    LET r == ReorgReinject(tipBranch, ChainTo(n)) IN
    \E deps \in RefreshDepositCells :
    \E order \in WdOrders(RemoveUnexecutables(BaseAt(tip))) :
        LET p == ResetPrefix(tip, r.txs, r.wds, order) IN
        /\ pendingDeposits' = deps
        /\ \/ Publish(n, ResetSuffix(p, deps))
           \/ ResetCanFail /\ FailAfterWithdrawals(n, p.s)
        /\ UNCHANGED chain

\* reset_full(current_tip, new_tip) of a full node, new_tip being block n
\* of the valid chain: the reorg walk from the pool's branch, the refresh
\* of the deposits, then the block_in_place part
ResetFull(n) ==
    LET r == ReorgReinject(tipBranch, ChainTo(n)) IN
    \E deps \in RefreshDepositCells :
    \E order \in WdOrders(RemoveUnexecutables(BaseAt(n))) :
        LET p == ResetPrefix(n, r.txs, r.wds, order) IN
        /\ pendingDeposits' = deps
        /\ \/ Publish(n, ResetSuffix(p, deps))
           \/ ResetCanFail /\ FailAfterWithdrawals(n, p.s)
        /\ UNCHANGED chain

----------------------------------------------------------------------------
(* The operations of MemPool and the block producer that drives it.        *)

Current ==
    [nonce |-> memNonce, balance |-> memBalance,
     wds |-> memBlock.wds, deps |-> memBlock.deps, txs |-> memBlock.txs,
     pending |-> pending, dbTxs |-> dbTxs, dbWds |-> dbWds,
     avail |-> cyclesAvail, used |-> cyclesUsed]

\* push_transaction: a successful push is published and committed
PushTransaction ==
    \E tx \in Txs :
        LET s == PushTx(Current, tx) IN
        /\ s.txs /= memBlock.txs
        /\ memNonce' = s.nonce
        /\ memBlock' = [memBlock EXCEPT !.txs = s.txs]
        /\ pending' = s.pending
        /\ dbTxs' = s.dbTxs
        /\ cyclesAvail' = s.avail
        /\ cyclesUsed' = s.used
        /\ UNCHANGED <<chain, tipBranch, memBalance, dbWds, pendingDeposits>>

\* push_withdrawal_request: rejected when the mem block has it; verified
\* against the mem state without writing it; queued and stored
PushWithdrawalRequest ==
    \E w \in Wds :
        /\ w \notin ToSet(memBlock.wds)
        /\ w.nonce = memNonce[w.from]
        /\ memBalance[w.from] >= 1
        /\ Len(pending[w.from].wds) < MaxPending
        /\ pending' = [pending EXCEPT ![w.from].wds = Append(@, w)]
        /\ dbWds' = dbWds \cup {w}
        /\ UNCHANGED <<chain, tipBranch, memBlock, memNonce, memBalance, dbTxs,
                       pendingDeposits, cyclesAvail, cyclesUsed>>

\* The block producer packages the mem block with output_mem_block and the
\* block is added to the valid chain.
ProduceBlock ==
    /\ tipBranch = chain
    /\ Len(chain) < MaxBlocks
    /\ \E r \in 0..MaxRetry :
        LET total == Len(memBlock.wds) + Len(memBlock.deps) + Len(memBlock.txs)
            c == PC!RepackageCount(Len(memBlock.wds), Len(memBlock.deps),
                                   Len(memBlock.txs), total \div 2^r)
        IN  chain' = Append(chain, [wds |-> SubSeq(memBlock.wds, 1, c[1]),
                                    deps |-> SubSeq(memBlock.deps, 1, c[2]),
                                    txs |-> SubSeq(memBlock.txs, 1, c[3])])
    /\ UNCHANGED <<tipBranch, memBlock, memNonce, memBalance, pending, dbTxs, dbWds,
                   pendingDeposits, cyclesAvail, cyclesUsed>>

\* The chain updater reverts the blocks above block k, whose layer-1
\* submission was rolled back: the store's last valid tip moves back to
\* block k.  The reverted blocks stay in the store, where the reorg walk
\* of the next reset reads them.
RevertBlocks ==
    /\ ChainCanRevert
    /\ \E k \in 0..Len(chain) - 1 : chain' = ChainTo(k)
    /\ UNCHANGED <<tipBranch, memBlock, memNonce, memBalance, pending, dbTxs, dbWds,
                   pendingDeposits, cyclesAvail, cyclesUsed>>

\* notify_new_tip: reset when the valid tip is not the pool's tip
NotifyNewTip ==
    /\ tipBranch /= chain
    /\ ResetFull(Len(chain))

\* reset_mem_block: reset at the pool's own tip to pick up new deposits;
\* reset_full asserts that the store's valid tip is that tip
ResetMemBlock ==
    /\ tipBranch = chain
    /\ ResetFull(tip)

Next ==
    \/ PushTransaction
    \/ PushWithdrawalRequest
    \/ ProduceBlock
    \/ RevertBlocks
    \/ NotifyNewTip
    \/ ResetMemBlock

\* The pool starts as MemPool::create leaves it on a fresh chain.
Init ==
    /\ chain = <<>>
    /\ tipBranch = <<>>
    /\ memBlock = EmptyBlock
    /\ memNonce = [a \in Accounts |-> 0]
    /\ memBalance = [a \in Accounts |-> 0]
    /\ pending = NoPending
    /\ dbTxs = {} /\ dbWds = {}
    /\ pendingDeposits = <<>>
    /\ cyclesAvail = MaxCycles
    /\ cyclesUsed = 0

Spec == Init /\ [][Next]_vars

----------------------------------------------------------------------------
(* Properties                                                              *)

\* the account's view of a block: its withdrawals, deposits, transactions
\* in application order, as +1/-1 balance changes and nonces
Ops(b) ==
    [i \in 1..Len(b.wds) |-> [who |-> b.wds[i].from, nonce |-> b.wds[i].nonce, delta |-> -1]]
    \o [i \in 1..Len(b.deps) |-> [who |-> DepositTo[b.deps[i]], nonce |-> -1, delta |-> 1]]
    \o [i \in 1..Len(b.txs) |-> [who |-> b.txs[i].from, nonce |-> b.txs[i].nonce, delta |-> 0]]

\* ops, applied to account a starting from nonce n0 and balance b0, are
\* all valid: every withdrawal or transaction carries the next nonce and
\* no balance goes below zero
AppliesFrom(ops, a, n0, b0) ==
    LET mine == SelectSeq(ops, LAMBDA o : o.who = a)
        nonced == SelectSeq(mine, LAMBDA o : o.nonce >= 0)
    IN  /\ \A i \in DOMAIN nonced : nonced[i].nonce = n0 + i - 1
        /\ \A k \in DOMAIN mine :
              b0 + FoldLeft(LAMBDA acc, o : acc + o.delta, 0, SubSeq(mine, 1, k)) >= 0

TypeOK ==
    /\ chain \in Seq([wds : Seq(Wds), deps : Seq(Deposits), txs : Seq(Txs)])
    /\ tipBranch \in Seq([wds : Seq(Wds), deps : Seq(Deposits), txs : Seq(Txs)])
    /\ memBlock \in [wds : Seq(Wds), deps : Seq(Deposits), txs : Seq(Txs)]
    /\ memNonce \in [Accounts -> Nat] /\ memBalance \in [Accounts -> Int]
    /\ pending \in [Accounts -> [txs : SUBSET Txs, wds : Seq(Wds)]]
    /\ dbTxs \subseteq Txs /\ dbWds \subseteq Wds
    /\ cyclesAvail \in Nat /\ cyclesUsed \in Nat

\* The mem block stays within mem_block_config: at most max_withdrawals
\* withdrawals and max_txs transactions, whose cycles fit in
\* max_cycles_limit (the cycle budget is a quota per candidate block,
\* spec.md 4.2 and 10), so output_mem_block never hands the block producer
\* a block over the limits.
MemBlockWithinLimits ==
    /\ Len(memBlock.wds) <= MaxWithdrawals
    /\ Len(memBlock.txs) <= MaxTxs
    /\ TxCycles * Len(memBlock.txs) <= MaxCycles

\* the published mem state is the state after the blocks bs with the mem
\* block applied: every withdrawal and transaction of the mem block
\* carries its sender's next nonce, no balance goes negative, and memNonce
\* and memBalance are what applying the mem block after bs yields
MemStateIsAfter(bs) ==
    \A a \in Accounts :
        LET ops == Ops(memBlock)
            mine == SelectSeq(ops, LAMBDA o : o.who = a)
        IN  /\ AppliesFrom(ops, a, NonceAfter(bs, a), BalanceAfter(bs, a))
            /\ memNonce[a] = NonceAfter(bs, a) + CountIf(mine, LAMBDA o : o.nonce >= 0)
            /\ memBalance[a] = BalanceAfter(bs, a)
                   + FoldLeft(LAMBDA acc, o : acc + o.delta, 0, mine)

MemStateIsBlockPlusMemBlock(n) == MemStateIsAfter(ChainTo(n))

\* The published mem state is the state of the pool's tip with the mem
\* block applied, also while that tip has been reverted and the pool not
\* yet told.  A push, a reset or a failed reset that lets the mem block
\* and the state_db drift apart breaks it.
MemStateIsTipPlusMemBlock == MemStateIsAfter(tipBranch)

\* Every block the pool hands to the block producer applies cleanly on the
\* chain before it: nonces in sequence, no balance below zero.
ChainApplies ==
    \A a \in Accounts :
        AppliesFrom(FlattenSeq([i \in DOMAIN chain |-> Ops(chain[i])]), a, 0, 0)

\* the order check of prepare_next_mem_block: a transaction after the
\* first one of its sender has a higher nonce than that first one
\* (id_to_nonce keeps the first nonce it sees, entry().or_insert)
NonceOrderChecked(txs) ==
    \A i, j \in DOMAIN txs :
        (/\ i < j /\ txs[i].from = txs[j].from
         /\ \A k \in 1..i - 1 : txs[k].from /= txs[i].from) => txs[j].nonce > txs[i].nonce

\* The next reset never panics in the order check of
\* prepare_next_mem_block: the transactions re-injected from the blocks a
\* revert discarded, followed by the mem block's, come in nonce order for
\* every sender.  The walk must keep block order across blocks, and the
\* mem block built on the reverted tip must come after them.
ResetInNonceOrder ==
    LET base == RemoveUnexecutables(BaseAt(Len(chain)))
    IN  NonceOrderChecked(ResetTxs(base, ReorgReinject(tipBranch, chain).txs))

\* the transactions a reset from the pool's branch to the chain's tip owes
\* the new mem block (spec.md 4.5): those of the blocks above the fork
\* point that the new branch does not include, and those of the mem block
ResetOwedTxs ==
    LET f == Len(LongestCommonPrefix({tipBranch, chain}))
        gone == ToSet(ContentOf(SubSeq(tipBranch, f + 1, tip), "txs"))
        kept == ToSet(ContentOf(SubSeq(chain, f + 1, Len(chain)), "txs"))
    IN  (gone \ kept) \cup ToSet(memBlock.txs)

\* No reset loses a transaction it owes the new mem block: every owed
\* transaction left out of it could not execute on the new mem state, as
\* the sender's nonce there is past it or short of it.  One the replay
\* through push_transaction_with_db rejects for another reason (a full mem
\* block, line 329) or that the reorg walk never collects is gone from the
\* mem block while pending and the store still hold it.
ResetKeepsOwedTxs ==
    [][(NotifyNewTip \/ ResetMemBlock) =>
         \A t \in ResetOwedTxs :
             t \notin ToSet(memBlock'.txs) => t.nonce /= memNonce'[t.from]]_vars

\* The mem pool tables of the store hold every transaction and withdrawal
\* of the mem block, so a restart can restore the mem block from them.
StoreHoldsMemBlock ==
    /\ ToSet(memBlock.txs) \subseteq dbTxs
    /\ ToSet(memBlock.wds) \subseteq dbWds

\* The abstract mem pool of MemPoolSpec, seen through MemPool's state: the
\* published state_db is memNonce and memBalance, the candidate block is
\* the mem block; pending, the store tables and the cycles pool are hidden.
AbstractMemPool == INSTANCE MemPoolSpec
    WITH block <- memBlock,
         state <- [a \in Accounts |-> [nonce |-> memNonce[a], balance |-> memBalance[a]]]

\* MemPool implements MemPoolSpec: every push_transaction appends one
\* executable transaction, output_mem_block hands the producer a prefix of
\* the mem block without changing it, and every reset publishes a mem
\* block that applies on the new tip, within max_txs and max_withdrawals,
\* with no deposit cell a block already consumed; a revert of the chain
\* is the abstract Revert; queued withdrawals and store writes are
\* invisible.
ImplementsMemPoolSpec == AbstractMemPool!Spec

=============================================================================
