\* repackage_count for every retry count below the width of usize.
CONSTANTS
    UsizeBits = 4
    MaxItems = 3
    MaxRetry = 3
    Panic = Panic
    NotPackaged = NotPackaged
SPECIFICATION Spec
INVARIANT PackageMatchesReference
\* package_mem_block is a pure computation: every behaviour ends after it.
CHECK_DEADLOCK FALSE
