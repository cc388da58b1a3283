CONSTANTS
    uart = uart
    telnet = telnet
    Nobody = Nobody
    Shells <- TwoShells
    NSlots = 2
    MaxJobs = 3
    Cols = 2
    MaxLen = 3
    HistSize = 4
    PromptText <- PromptVal
    Printable = {"a", " "}
    Roots <- RootsVal
    Subs <- SubsVal
    RingSize = 8
    RecMin = 2
    RecMax = 3
    OffMod = 32
    Starts <- StartsVal
    MaxSeq = 5
    MaxResets = 1
SPECIFICATION ShellSpec
SYMMETRY ShellSymmetry
INVARIANTS
    JobsSound
    EditorSound
    LogSound
PROPERTIES
    LogLossy
