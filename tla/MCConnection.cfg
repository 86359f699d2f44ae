CONSTANTS
    TimeoutSecs <- TwoSeconds
    KMax <- MCKMax
    MaxPings <- MCMaxPings
    Addresses <- TwoAddresses
    MaxSilence <- MCMaxSilence
    MaxAway <- MCMaxAway
SPECIFICATION ConnectionSpec
CHECK_DEADLOCK FALSE
INVARIANTS
    ConnectionTypeOK
    SilenceBounded
