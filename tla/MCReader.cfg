CONSTANTS
    Capacity <- MCCapacity
    Streams <- MCStreams
SPECIFICATION Spec
INVARIANTS
    TypeOK
    SlicesInRange
    BytesInOrder
    FrameAligned
    DeliveredWhole
    HeaderRoom
PROPERTIES
    NoReplay
