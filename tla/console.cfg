CONSTANTS
    TxSize = 3
    RxSize = 3
    MaxRx = 3
    Sends = {2, 3}
    MaxSends = 1
    MaxPrintf = 2
    NBlocks = 4
    BlockMod = 3
    Retries = 2
    RcvRetries = 3
    MaxFaults = 4
    Prompt = TRUE
    uart = uart
    Nobody = Nobody
    Shells <- OneShell
    NSlots = 2
    MaxJobs = 3
SPECIFICATION ConsoleSpec
INVARIANTS
    ConsoleSound
    OkIsDelivered
PROPERTIES
    UartFlows
    YmSendEnds
    JobsSettle
CHECK_DEADLOCK FALSE
