CONSTANTS
    t1 = t1
    t2 = t2
    Threads <- BothThreads
    Sendable <- PublishOnly
    SendBuffer <- LargeSendBuffer
    MaxCalls <- MCMaxCalls
SPECIFICATION Spec
CHECK_DEADLOCK FALSE
INVARIANTS
    OkPacketsContiguous
