\* The mem pool on a growing chain: pushes, block production, resets.
CONSTANTS
    a1 = a1  a2 = a2  d1 = d1  d2 = d2
    Accounts = {a1, a2}
    Deposits = {d1, d2}
    DepositTo <- MCDepositTo
    MaxNonce = 1
    MaxBlocks = 3
    MaxPending = 2
    MaxTxs = 2
    MaxWithdrawals = 1
    MaxCycles = 2
    TxCycles = 1
    U64Max = 100
    MaxRetry = 1
    UsizeBits = 64
    Panic = Panic
    ResetCanFail = FALSE
    ChainCanRevert = FALSE
SPECIFICATION Spec
INVARIANT MemBlockWithinLimits
INVARIANT MemStateIsTipPlusMemBlock
INVARIANT ChainApplies
INVARIANT StoreHoldsMemBlock
PROPERTY ImplementsMemPoolSpec
