CONSTANTS
    stat = stat
    nn = nn
    reader = reader
    producer = producer
    None = None
    NSlots = 3
    Sinks <- TwoSinks
    Coalescers <- LatestSinks
    Async <- LatestSinks
    Getters <- LatestSinks
    Readers <- NoSinks
    Producer = producer
    MaxSinks = 2
    MaxFilling = 1
    MaxGen = 2
SPECIFICATION FairSpec
PROPERTIES
    FramesSettle
