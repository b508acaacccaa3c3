SPECIFICATION TestSpec
CONSTANTS
    NoEntry = NoEntry
    DiskSize = 50
    BlockSize = 4
    MaxPtrs = 50
    DirSlots = 16
    MaxPathLen = 10
    Names <- MCTestNames
    Truncated <- MCTestTruncated
    Perms = {"000", "666", "777"}
    Times = {"t1", "t2"}
    Bytes = {1, 2, 3}
    Calls = {"init", "getattr", "readdir", "read", "statfs", "rename", "chmod", "create", "mkdir", "unlink", "rmdir", "utime", "truncate", "write"}
    Paths = {}
    IoOffsets = {}
    IoLens = {}
    TruncLens = {}
    MaxFree = 50
INVARIANTS AssertionsHold LeavesNothing FreeExact
