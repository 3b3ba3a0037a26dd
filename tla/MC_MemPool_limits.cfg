\* The mem block after the reset that follows a revert of blocks (expected to fail).
CONSTANTS
    a1 = a1  a2 = a2  d1 = d1  d2 = d2
    Accounts = {a1, a2}
    Deposits = {d1, d2}
    DepositTo <- MCDepositTo
    MaxNonce = 1
    MaxBlocks = 2
    MaxPending = 2
    MaxTxs = 2
    MaxWithdrawals = 1
    MaxCycles = 1
    TxCycles = 1
    U64Max = 100
    MaxRetry = 1
    UsizeBits = 64
    Panic = Panic
    ResetCanFail = FALSE
    ChainCanRevert = TRUE
SPECIFICATION Spec
INVARIANT MemBlockWithinLimits
