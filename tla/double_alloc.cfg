SPECIFICATION StepSpec
CONSTANTS
    a = a
    b = b
    aLong = aLong
    NoEntry = NoEntry
    DiskSize = 8
    BlockSize = 1
    MaxPtrs = 8
    DirSlots = 2
    MaxPathLen = 2
    MaxDepth = 2
    Names = {a, b}
    Truncated <- MCTruncated
    Perms = {p}
    Times = {t}
    Bytes = {1}
    Calls = {"init", "create", "write"}
    Paths <- MCTwoFiles
    IoOffsets = {0}
    IoLens = {1}
    TruncLens <- MCStepTruncLens
    MaxFree = 12
    Threads = {1, 2}
    MaxCrashes = 0
    MaxFaults = 0
VIEW MCCrashView
INVARIANT ReservedOnce
CONSTRAINT MCUnmoved
