CONSTANTS
    Capacity <- MCCapacity
    Streams <- WholePackets
SPECIFICATION Spec
INVARIANTS
    RecvParsesThePacket
