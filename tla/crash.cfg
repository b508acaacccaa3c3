SPECIFICATION StepSpec
CONSTANTS
    a = a
    b = b
    aLong = aLong
    NoEntry = NoEntry
    DiskSize = 6
    BlockSize = 1
    MaxPtrs = 7
    DirSlots = 2
    MaxPathLen = 2
    MaxDepth = 2
    Names = {a, b}
    Truncated <- MCTruncated
    Perms = {p}
    Times = {t}
    Bytes = {1}
    Calls = {"init", "rename", "create", "mkdir", "unlink", "rmdir", "truncate", "write", "chmod", "utime", "read", "readdir", "getattr"}
    Paths <- MCCrashPaths
    IoOffsets = {0, 1}
    IoLens = {1}
    TruncLens = {0}
    MaxFree = 100
    Threads = {1}
    MaxCrashes = 1
    MaxFaults = 1
VIEW MCCrashView
INVARIANTS OnlyAddingDangles NoneShared 
PROPERTIES OnlyItsOwn SavedOnSuccess
CONSTRAINT MCFollowed
