\* A deposit restored from a save made before its block was produced is applied again.
CONSTANTS
    a1 = a1  a2 = a2  d1 = d1  d2 = d2
    Accounts = {a1}
    Deposits = {d1, d2}
    DepositTo <- MCDepositToA1
    MaxNonce = 1
    MaxBlocks = 2
    MaxPending = 2
    MaxTxs = 2
    MaxWithdrawals = 1
    MaxCycles = 2
    TxCycles = 1
    U64Max = 100
    MaxRetry = 1
    UsizeBits = 64
    Panic = Panic
    ResetCanFail = FALSE
    ChainCanRevert = FALSE
    NoFile = NoFile
SPECIFICATION RSpec
INVARIANT DepositsAppliedOnce
