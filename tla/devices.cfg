CONSTANTS
    SdBounce = 2
    SdMod = 5
    SdMaxCount = 3
    SdMaxSwaps = 2
    SdMaxOps = 3
    SdBlocks <- SdBlocksVal
    FsThreads = {"t1", "t2"}
    FsKinds = {"sd", "qspi"}
    FsCards = {"a", "b"}
    FsChunks = 1
    FsMaxSwaps = 2
    FsMaxCmds = 3
    QfPage = 2
    QfPages = 2
    QfMaxOps = 2
    QfMaxFaults = 1
    QfMaxResets = 1
    D2MaxOps = 3
    EvMax = 2
    DpMaxOps = 3
    Settle = 3
    Sentinels = 1
    ToMaxPresses = 2
    ToMaxFaults = 1
    ToMaxStops = 1
SPECIFICATION DevSpec
INVARIANTS
    SdSound
    FsSound
    QspiSound
    Dma2dOwn
    DisplaySound
    TouchSound
PROPERTIES
    SdReturns
    FsCommandsEnd
    PreviewFlows
    InputFlows
CHECK_DEADLOCK FALSE
