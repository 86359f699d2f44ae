CONSTANTS
    Capacity <- MCCapacity
    Streams <- SplitPackets
SPECIFICATION Spec
INVARIANTS
    RecvReturnsAPacket
