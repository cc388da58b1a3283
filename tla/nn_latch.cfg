CONSTANTS
    uart = uart
    telnet = telnet
    NStages = 2
    Shells <- TwoShells
    MaxPosts = 2
    Users <- TwoShells
    Files = {"one", "two", "big", "bad"}
    Verified = {"one", "two", "big"}
    Buildable = {"one", "two"}
    MaxCommands = 5
SPECIFICATION NnSpec
INVARIANTS
    LatchedFits
CHECK_DEADLOCK FALSE
