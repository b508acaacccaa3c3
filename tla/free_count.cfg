SPECIFICATION Spec
CONSTANTS
    a = a
    aLong = aLong
    NoEntry = NoEntry
    DiskSize = 7
    BlockSize = 1
    MaxPtrs = 7
    DirSlots = 2
    MaxPathLen = 1
    MaxDepth = 1
    Names = {a, b}
    Truncated <- MCTruncated
    Perms = {p}
    Times = {t}
    Bytes = {1}
    Calls = {"create", "write"}
    Paths <- MCPaths
    IoOffsets = {0, 1}
    IoLens = {1}
    TruncLens = {0}
    MaxFree = 4
INVARIANT FreeExact
