SPECIFICATION Spec
CONSTANTS
    a = a
    aLong = aLong
    NoEntry = NoEntry
    DiskSize = 9
    BlockSize = 1
    MaxPtrs = 9
    DirSlots = 2
    MaxPathLen = 2
    MaxDepth = 2
    Names = {a, b}
    Truncated <- MCTruncated
    Perms = {p}
    Times = {t}
    Bytes = {1}
    Calls = {"create", "mkdir", "unlink", "rmdir"}
    Paths <- MCPaths
    IoOffsets = {0}
    IoLens = {1}
    TruncLens = {0}
    MaxFree = 8
VIEW MCView
PROPERTY RmdirOnlyEmpty
