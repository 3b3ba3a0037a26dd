\* A reset of the mem pool that fails after finalize_withdrawals: the store side.
CONSTANTS
    a1 = a1  a2 = a2  d1 = d1  d2 = d2
    Accounts = {a1, a2}
    Deposits = {d1}
    DepositTo <- MCDepositTo
    MaxNonce = 1
    MaxBlocks = 1
    MaxPending = 2
    MaxTxs = 2
    MaxWithdrawals = 1
    MaxCycles = 2
    TxCycles = 1
    U64Max = 100
    MaxRetry = 1
    UsizeBits = 64
    Panic = Panic
    ResetCanFail = TRUE
    ChainCanRevert = FALSE
SPECIFICATION Spec
INVARIANT StoreHoldsMemBlock
