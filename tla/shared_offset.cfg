SPECIFICATION StepSpec
CONSTANTS
    a = a
    b = b
    aLong = aLong
    NoEntry = NoEntry
    DiskSize = 6
    BlockSize = 1
    MaxPtrs = 6
    DirSlots = 1
    MaxPathLen = 2
    MaxDepth = 2
    Names = {a, b}
    Truncated <- MCTruncated
    Perms = {p}
    Times = {t}
    Bytes = {1}
    Calls = {"create","read","write"}
    Paths <- MCOneFile
    IoOffsets = {0}
    IoLens = {1, 2}
    TruncLens <- MCStepTruncLens
    MaxFree = 12
    Threads = {1, 2}
    MaxCrashes = 0
    MaxFaults = 0
VIEW MCCrashView
INVARIANT SuperblockKept
CHECK_DEADLOCK FALSE
