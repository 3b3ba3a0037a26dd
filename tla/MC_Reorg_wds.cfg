\* The reorg walk of reset_full: re-injected withdrawals (expected to fail).
CONSTANTS
    G = G  A1 = A1  A2 = A2  A3 = A3  B2 = B2  B3 = B3  B4 = B4
    C1 = C1  C2 = C2  C3 = C3
    t1 = t1  t2 = t2  t3 = t3  t4 = t4  t5 = t5  t6 = t6  t7 = t7
    w1 = w1  w2 = w2  w3 = w3  w4 = w4  w5 = w5  w6 = w6
    NoBlock = NoBlock
    Blocks <- MCBlocks
    Genesis = G
    Parent <- MCParent
    Number <- MCNumber
    BlockTxs <- MCBlockTxs
    BlockWds <- MCBlockWds
    DepthLimit = 2
SPECIFICATION Spec
INVARIANT ReinjectWdsMatchFork
CHECK_DEADLOCK FALSE
