--------------------------- MODULE PackageCount ---------------------------
(***************************************************************************)
(* The count computation of repackage_count (crates/mem-pool/src/pool.rs), *)
(* shared by the Package check and by the block production of MemPool.    *)
(***************************************************************************)
EXTENDS Integers

CONSTANTS
    UsizeBits,    \* width of usize (64 on the node, small for checking)
    Panic         \* the outcome of a shift that overflows with checks on

ASSUME UsizeBits \in Nat \ {0}

MinOf(a, b) == IF a <= b THEN a ELSE b

\* the values total.shr(r) can take in the node's build
ShrOutcomes(x, r) ==
    IF r < UsizeBits THEN {x \div 2^r}
    ELSE {x \div 2^(r % UsizeBits), Panic}

\* Variant for mutation checking: the "at least one item" floor lost.
RepackageCountNoFloor(nw, nd, nt, shifted) ==
    LET remain == shifted
        wc == MinOf(nw, remain)
        dc == MinOf(nd, remain - wc)
        tc == MinOf(nt, remain - wc - dc)
    IN  <<wc, dc, tc>>

\* repackage_count, given the shifted total: take at least one item, then
\* as many withdrawals as fit, then deposits, then transactions
RepackageCount(nw, nd, nt, shifted) ==
    LET remain == IF shifted = 0 THEN 1 ELSE shifted
        wc == MinOf(nw, remain)
        dc == MinOf(nd, remain - wc)
        tc == MinOf(nt, remain - wc - dc)
    IN  <<wc, dc, tc>>

=============================================================================
