SPECIFICATION StepSpec
CONSTANTS
    a = a
    b = b
    aLong = aLong
    NoEntry = NoEntry
    DiskSize = 6
    BlockSize = 1
    MaxPtrs = 6
    DirSlots = 2
    MaxPathLen = 2
    MaxDepth = 2
    Names = {a, b}
    Truncated <- MCTruncated
    Perms = {p}
    Times = {t}
    Bytes = {1}
    Calls = {"init", "create", "rename"}
    Paths <- MCStepPaths
    IoOffsets = {0, 1}
    IoLens = {2}
    TruncLens <- MCStepTruncLens
    MaxFree = 9
    Threads = {1}
    MaxCrashes = 0
    MaxFaults = 1
VIEW MCStepView
PROPERTY RenamedToFreeName
