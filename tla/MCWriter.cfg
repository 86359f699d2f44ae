CONSTANTS
    t1 = t1
    t2 = t2
    Threads <- BothThreads
    Sendable <- AllPackets
    SendBuffer <- MCSendBuffer
    MaxCalls <- MCMaxCalls
SPECIFICATION Spec
CHECK_DEADLOCK FALSE
SYMMETRY Threads2
INVARIANTS
    TypeOK
    PacketsInSequence
    OkMeansWhole
    RefusedLeavesNoTrace
    FlagMeansSent
