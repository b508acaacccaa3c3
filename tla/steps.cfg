SPECIFICATION StepSpec
CONSTANTS
    a = a
    b = b
    aLong = aLong
    NoEntry = NoEntry
    DiskSize = 7
    BlockSize = 2
    MaxPtrs = 7
    DirSlots = 1
    MaxPathLen = 2
    MaxDepth = 2
    Names = {a, b}
    Truncated <- MCTruncated
    Perms = {p}
    Times = {t}
    Bytes = {1}
    Calls = {"init", "getattr", "readdir", "read", "statfs", "rename", "chmod", "create", "mkdir", "unlink", "rmdir", "utime", "truncate", "write"}
    Paths <- MCStepPaths
    IoOffsets = {0, 1}
    IoLens = {1, 2}
    TruncLens <- MCStepTruncLens
    MaxFree = 9
    Threads = {1}
    MaxCrashes = 0
    MaxFaults = 0
VIEW MCStepView
INVARIANTS StepTypeOK
PROPERTIES ImplementsFileSystem CallsReturn
