SPECIFICATION Spec
CONSTANTS
    a = a
    aLong = aLong
    NoEntry = NoEntry
    DiskSize = 7
    BlockSize = 2
    MaxPtrs = 7
    DirSlots = 2
    MaxPathLen = 1
    MaxDepth = 1
    Names = {a, b}
    Truncated <- MCTruncated
    Perms = {p}
    Times = {t}
    Bytes = {1}
    Calls = {"create", "unlink", "truncate", "read", "write"}
    Paths <- MCPaths
    IoOffsets = {0, 1, 2}
    IoLens = {1, 3}
    TruncLens <- MCTruncLens
    MaxFree = 3
VIEW MCView
SYMMETRY MCSymmetry
INVARIANTS IInv
PROPERTIES ImplementsTree LeakOnlyOrphans FreeCountFollows
