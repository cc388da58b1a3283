CONSTANTS
    gui = gui
    nncam = nncam
    mjpeg = mjpeg
    Stat = Stat
    Sinks <- AllSinks
    Oneshots <- MjpegOnly
    Format <- SinkFormat
    MaxSubs = 2
    Giveup = 3
    MaxPosts = 2
    Levels <- TwoLevels
SPECIFICATION CameraSpec
INVARIANTS
    WaitsForRecovery
