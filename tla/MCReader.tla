------------------------------ MODULE MCReader ------------------------------
(* Reader on streams of short packets, cut anywhere.                        *)
EXTENDS Reader, SequencesExt

\* The packets of the instances, shortest first.
PingResp  == <<208, 0>>
ConnAck   == <<32, 2, 0, 0>>
PubAck    == <<64, 2, 0, 1>>
SubAck    == <<144, 3, 0, 1, 0>>
Publish   == <<48, 5, 0, 1, 97, 208, 0>>
\* A PUBLISH whose remaining length takes two bytes where one would do.
Padded    == <<48, 132, 0, 0, 1, 97, 42>>
\* A PUBLISH longer than the buffer, with the head of Publish in its payload.
Oversize  == <<48, 8, 0, 1, 97, 48, 5, 0, 1, 97>>
\* A remaining length of more than four bytes: no server may send it.
Malformed == <<48, 255, 255, 255, 255, 1>>

Ends(packets) ==
    {Len(FlattenSeq(SubSeq(packets, 1, n))) : n \in 1..Len(packets)}

CutAnywhere(packets) ==
    [bytes |-> FlattenSeq(packets), ends |-> Ends(packets),
     cuts |-> 1..Len(FlattenSeq(packets))]

CutAtPackets(packets) ==
    [bytes |-> FlattenSeq(packets), ends |-> Ends(packets), cuts |-> Ends(packets)]

MCCapacity == 7

MCStreams ==
    {CutAnywhere(p) : p \in
        {<<ConnAck, PingResp, PubAck>>, <<ConnAck, Publish, PingResp>>,
         <<PingResp, PingResp, PingResp>>, <<SubAck, Padded>>,
         <<Oversize, PubAck>>, <<PubAck, Malformed>>}}

WholePackets ==
    {CutAtPackets(p) : p \in {<<ConnAck, PubAck, Publish>>, <<ConnAck, PingResp>>}}

SplitPackets == {CutAnywhere(<<Publish, Publish>>)}
=============================================================================
