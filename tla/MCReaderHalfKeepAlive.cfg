CONSTANTS
    TimeoutSecs <- OneSecond
    KMax <- MCKMax
    MaxPings <- MCMaxPings
SPECIFICATION RecvLoop
PROPERTIES
    KeepAliveTicks
