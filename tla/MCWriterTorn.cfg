CONSTANTS
    t1 = t1
    t2 = t2
    Threads <- OneThread
    Sendable <- LateChecked
    SendBuffer <- LargeSendBuffer
    MaxCalls <- MCMaxCalls
SPECIFICATION Spec
CHECK_DEADLOCK FALSE
INVARIANTS
    OkPacketsFramed
