CONSTANTS
    TimeoutSecs <- OneSecond
    KMax <- MCKMax
    MaxPings <- MCMaxPings
SPECIFICATION Spec
INVARIANTS
    TypeOK
    ExpiryIsPending
    KeepAliveGap
PROPERTIES
    RecvReturns
