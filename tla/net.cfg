CONSTANTS
    Pool = 1
    RxDescs = 1
    TxDescs = 1
    TxPackets = {"a"}
    MaxStartFails = 1
    Links = {"down", "10", "100"}
    MaxClients = 2
    MaxBytes = 2
    RxRing = 1
    MjMaxStarts = 2
    MjMaxOverruns = 1
    MjMaxRelistens = 1
SPECIFICATION Spec
INVARIANTS
    EthSound
    MjSound
PROPERTIES
    DriverLinkFollows
    ClientServed
    MjStops
CHECK_DEADLOCK FALSE
