SPECIFICATION Spec
CONSTANTS
    a = a
    aLong = aLong
    NoEntry = NoEntry
    DiskSize = 6
    BlockSize = 1
    MaxPtrs = 6
    DirSlots = 2
    MaxPathLen = 1
    MaxDepth = 1
    Names = {a, aLong, b}
    Truncated <- MCTruncated
    Perms = {p, q}
    Times = {s, t}
    Bytes = {1}
    Calls = {"init", "getattr", "readdir", "statfs", "rename", "create", "mkdir", "unlink", "rmdir", "chmod", "utime", "truncate", "read", "write"}
    Paths <- MCLongPaths
    IoOffsets = {0, 1}
    IoLens = {1}
    TruncLens = {0}
    MaxFree = 2
VIEW MCView
INVARIANTS UniqueNames
PROPERTIES ImplementsTree
