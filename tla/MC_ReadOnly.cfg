\* A read-only node whose mem block sync may refresh between the chain
\* updater's store write and its reset_read_only.
CONSTANTS
    a1 = a1  a2 = a2  d1 = d1  d2 = d2
    Accounts = {a1}
    Deposits = {d1, d2}
    DepositTo <- MCDepositToA1
    MaxNonce = 1
    MaxBlocks = 2
    MaxPending = 1
    MaxTxs = 2
    MaxWithdrawals = 1
    MaxCycles = 2
    TxCycles = 1
    U64Max = 4
    MaxRetry = 1
    UsizeBits = 64
    Panic = Panic
    ResetCanFail = FALSE
    ChainCanRevert = FALSE
    SyncAtomic = FALSE
SPECIFICATION ROSpec
INVARIANT ReadOnlyStateIsStoredBlockPlusMemBlock
INVARIANT StoreHoldsMemBlock
