CONSTANTS
    uart = uart
    telnet = telnet
    NStages = 2
    Shells <- TwoShells
    MaxPosts = 2
    Users <- TwoShells
    Files = {"one", "two", "big", "bad"}
    Verified = {"one", "two", "big"}
    Buildable = {"one", "two"}
    MaxCommands = 4
SPECIFICATION NnSpec
INVARIANTS
    StagesSound
    ModelSound
PROPERTIES
    WorkerSettles
    StagedIsInferred
    ModelSettles
CHECK_DEADLOCK FALSE
