SPECIFICATION Spec
CONSTANTS
    a = a
    aLong = aLong
    NoEntry = NoEntry
    DiskSize = 8
    BlockSize = 1
    MaxPtrs = 8
    DirSlots = 2
    MaxPathLen = 2
    MaxDepth = 2
    Names = {a, b}
    Truncated <- MCTruncated
    Perms = {p}
    Times = {t}
    Bytes = {1}
    Calls = {"init", "getattr", "readdir", "statfs", "rename", "create", "mkdir", "unlink", "rmdir"}
    Paths <- MCPaths
    IoOffsets = {0}
    IoLens = {1}
    TruncLens = {0}
    MaxFree = 8
VIEW MCView
SYMMETRY MCSymmetry
INVARIANTS TypeOK NoDangling NoSharing WrittenBack
PROPERTIES ImplementsTree LeakOnlyOrphans FreeCountFollows
