CONSTANTS
    ClientIds <- MCClientIds
    Names <- MCNames
    Topics <- MCTopics
    Data <- MCData
    Payloads <- MCPayloads
    PacketIds <- MCPacketIds
    Seconds <- MCSeconds
    Codes <- MCCodes
    Foreign <- MCForeign
    Stray <- MCStray
    MaxWire <- MCMaxWire
    MaxAltered <- MCMaxAltered
SPECIFICATION Spec
CHECK_DEADLOCK FALSE
INVARIANTS
    TypeOK
    LengthHonest
    FrameFoundAtLastHeaderByte
    QosAsAsked
    RoundTrip
    ReadsItsFrame
    AcceptedIsLegal
    WildcardsByLevel
