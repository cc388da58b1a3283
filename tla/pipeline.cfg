CONSTANTS
    stat = stat
    nn = nn
    reader = reader
    producer = producer
    None = None
    NSlots = 3
    Sinks <- TwoSinks
    Coalescers <- LatestSinks
    Async <- LatestSinks
    Getters <- NoSinks
    Readers <- OneReader
    Producer = producer
    MaxSinks = 2
    MaxFilling = 1
    MaxGen = 3
SPECIFICATION Spec
INVARIANTS
    SlotsSafe
    FramesAccounted
PROPERTIES
    InOrder
    LeaseSpec
