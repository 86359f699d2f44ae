---------------------------- MODULE CodecProofs ----------------------------
(***************************************************************************)
(* What builders make, what write_sync writes of it and what the parsers   *)
(* accept, for every string, length, number of filters and byte sequence.  *)
(***************************************************************************)
EXTENDS Codec, PacketsProofs

----------------------------------------------------------------------------
(* What write_sync writes is bytes.                                        *)

LEMMA StepBytesIsBytes ==
  ASSUME NEW s \in Step, s.valid
  PROVE  StepBytes(s) \in Seq(Byte)
  <1>1. s.bytes \in Seq(Byte) /\ s.size - Len(s.bytes) \in Nat
    BY StepFields
  <1>2. ASSUME NEW k \in Nat PROVE [i \in 1..k |-> FILL] \in Seq(Byte)
    <2>1. FILL \in Byte
      BY DEF FILL, Byte
    <2> QED
      BY <2>1
  <1>3. ASSUME NEW a \in Seq(Byte), NEW b \in Seq(Byte) PROVE a \o b \in Seq(Byte)
    OBVIOUS
  <1> QED
    BY <1>1, <1>2, <1>3, Zenon DEF StepBytes

LEMMA ConnAckSized ==
  ASSUME NEW p \in ConnAck
  PROVE  StepsOf(p) \in Seq(Step)
  <1>1. p.type = CONNACK /\ p.session \in Byte /\ p.code \in Byte
    BY DEF ConnAck, ReturnCodes, Byte
  <1>2. ChecksFirst(p) = TRUE /\ HeaderSteps(p) = << >> /\ BodySteps(p) = ConnAckSteps(p)
    <2>1. ChecksFirst(p) = TRUE
      BY <1>1, TypesDiffer DEF ChecksFirst
    <2>2. HeaderSteps(p) = << >>
      BY <1>1, TypesDiffer DEF HeaderSteps
    <2>3. BodySteps(p) = ConnAckSteps(p)
      BY <1>1, TypesDiffer DEF BodySteps
    <2> QED
      BY <2>1, <2>2, <2>3
  <1>3. <<p.session, p.code>> \in Seq(Byte)
    BY <1>1
  <1>4. Sized(ConnAckSteps(p), Len(<<p.session, p.code>>))
    BY <1>3, SizedWriteAll DEF ConnAckSteps
  <1>5. Sized(<<Check(TRUE)>>, 0)
    BY SizedCheck
  <1>6. Sized(StepsOf(p), (0 + 0) + Len(<<p.session, p.code>>))
    BY <1>2, <1>4, <1>5, SizedNone, SizedConcat, Zenon DEF StepsOf
  <1> QED
    BY <1>6 DEF Sized

LEMMA BytesOfIsBytes ==
  ASSUME NEW p \in HeaderPackets \cup ConnAck, Encodes(p)
  PROVE  BytesOf(p) \in Seq(Byte)
  <1>1. StepsOf(p) \in Seq(Step)
    BY StepsAreSteps, ConnAckSized
  <1> SUFFICES ASSUME NEW s \in Seq(Step), s = StepsOf(p)
               PROVE  FlattenSeq([i \in 1..Len(s) |-> StepBytes(s[i])]) \in Seq(Byte)
    BY <1>1 DEF BytesOf, ForEach
  <1>2. ASSUME NEW i \in 1..Len(s) PROVE StepBytes(s[i]) \in Seq(Byte)
    <2>1. s[i] \in Step
      OBVIOUS
    <2>2. s[i].valid
      BY DEF Encodes
    <2> QED
      BY <2>1, <2>2, StepBytesIsBytes
  <1> SUFFICES ASSUME NEW ss, ss = [i \in 1..Len(s) |-> StepBytes(s[i])]
               PROVE  FlattenSeq(ss) \in Seq(Byte)
    OBVIOUS
  <1>3. ss \in Seq(Seq(Byte))
    <2>1. Len(s) \in Nat
      OBVIOUS
    <2>2. ss \in [1..Len(s) -> Seq(Byte)]
      BY <1>2
    <2> QED
      BY <2>1, <2>2
  <1> QED
    BY <1>3, NoBytes, FlattenAppend, Zenon

----------------------------------------------------------------------------
(* The builders.                                                           *)

\* A builder that was never called was asked for nothing.
NothingAsked == built = Nothing => asked = 0

IInv == TypeOK /\ NothingAsked /\ QosAsAsked

LEMMA InitIInv == Init => IInv
  <1> SUFFICES ASSUME Init PROVE IInv
    OBVIOUS
  <1>1. built = Nothing /\ asked = 0 /\ wire = << >>
    BY DEF Init, BuilderInit
  <1>2. built.type = 0 /\ 0 \in RequestedQos
    BY <1>1 DEF Nothing, RequestedQos
  <1>3. QosAsAsked
    BY <1>2 DEF QosAsAsked, CONNECT, PUBLISH
  <1> QED
    BY <1>1, <1>2, <1>3 DEF IInv, TypeOK, NothingAsked

LEMMA TypeOfNothing == Nothing.type \notin {CONNECT, PUBLISH, SUBSCRIBE, UNSUBSCRIBE, CONNACK}
  BY DEF Nothing, CONNECT, PUBLISH, SUBSCRIBE, UNSUBSCRIBE, CONNACK

\* The packet kinds, for builders: Nothing and ConnAck are told apart too.
LEMMA BuiltKinds ==
  ASSUME TypeOK
  PROVE  /\ built.type = CONNECT => built \in Connect
         /\ built.type = PUBLISH => built \in Publish
         /\ built.type = SUBSCRIBE => built \in Subscribe
         /\ built.type = UNSUBSCRIBE => built \in Unsubscribe
         /\ built.type \notin {0, CONNACK} => built \in HeaderPackets
         /\ built # Nothing => built \in HeaderPackets \cup ConnAck
  <1>1. built \in HeaderPackets \/ built \in ConnAck \/ built = Nothing
    BY DEF TypeOK
  <1>2. CASE built \in HeaderPackets
    BY <1>2, PacketKinds
  <1>3. CASE built \in ConnAck
    <2>1. built.type = CONNACK
      BY <1>3 DEF ConnAck
    <2> QED
      BY <1>3, <2>1, TypesDiffer
  <1>4. CASE built = Nothing
    <2>1. built.type = 0
      BY <1>4 DEF Nothing
    <2> QED
      BY <1>4, <2>1, TypeOfNothing
  <1> QED
    BY <1>1, <1>2, <1>3, <1>4

\* The constants are values the builders take.
LEMMA Inputs ==
  /\ \A id \in ClientIds : id \in Texts
  /\ \A n \in Names : n \in Texts
  /\ \A t \in Topics : t \in Texts
  /\ \A n \in Data : n \in Nat
  /\ \A n \in Payloads : n \in Nat
  /\ \A id \in PacketIds : id \in PacketId
  BY BuildersAssumption

LEMMA UpToTwoIsSeq ==
  ASSUME NEW S, NEW T, \A x \in T : x \in S, NEW s \in UpToTwo(T)
  PROVE  s \in Seq(S)
  <1>1. CASE s = << >>
    BY <1>1
  <1>2. CASE \E x \in T : s = <<x>>
    <2>1. PICK x \in T : s = <<x>>
      BY <1>2
    <2>2. x \in S
      OBVIOUS
    <2> QED
      BY <2>1, <2>2
  <1>3. CASE \E x, y \in T : s = <<x, y>>
    <2>1. PICK x \in T, y \in T : s = <<x, y>>
      BY <1>3
    <2>2. x \in S /\ y \in S
      OBVIOUS
    <2> QED
      BY <2>1, <2>2
  <1> QED
    BY <1>1, <1>2, <1>3 DEF UpToTwo

\* A packet of type t that no QoS was asked for.
LEMMA FreshPacket ==
  ASSUME IInv, built = Nothing, UNCHANGED <<asked, wire>>,
         built' \in HeaderPackets \cup ConnAck, built' # Nothing,
         built'.type \in {CONNECT, PUBLISH} => built'.flags \in {{}, {"CLEAN_SESSION"}}
  PROVE  IInv'
  <1>1. asked = 0 /\ asked' = 0
    BY DEF IInv, NothingAsked
  <1>2. QosAsAsked'
    BY <1>1 DEF QosAsAsked, WillQos
  <1> QED
    BY <1>2 DEF IInv, TypeOK, NothingAsked

LEMMA WillMsgIs ==
  ASSUME NEW t \in Texts, NEW n \in Nat
  PROVE  <<[topic |-> t, message |-> n]>> \in Option(WillMsg)
  <1>1. [topic |-> t, message |-> n] \in WillMsg
    BY DEF WillMsg
  <1> QED
    BY <1>1 DEF Option

LEMMA OneIs == ASSUME NEW S, NEW x \in S PROVE <<x>> \in Option(S)
  BY DEF Option

LEMMA NoneIs == ASSUME NEW S PROVE << >> \in Option(S)
  BY DEF Option

LEMMA FlagNames ==
  /\ {"CLEAN_SESSION", "WILL_FLAG", "WILL_QOS_1", "WILL_QOS_2", "WILL_RETAIN", "PASSWORD", "USERNAME"}
        \subseteq ConnectFlags
  /\ PublishFlags = {"RETAIN", "QOS_1", "QOS_2", "DUP"}
  <1>1. /\ ConnectBits[2] = "CLEAN_SESSION" /\ ConnectBits[3] = "WILL_FLAG"
        /\ ConnectBits[4] = "WILL_QOS_1" /\ ConnectBits[5] = "WILL_QOS_2"
        /\ ConnectBits[6] = "WILL_RETAIN" /\ ConnectBits[7] = "PASSWORD"
        /\ ConnectBits[8] = "USERNAME"
    BY DEF ConnectBits
  <1>2. /\ PublishBits[1] = "RETAIN" /\ PublishBits[2] = "QOS_1" /\ PublishBits[3] = "QOS_2"
        /\ PublishBits[4] = "DUP"
    BY DEF PublishBits
  <1>3. \A i \in 1..4 : i = 1 \/ i = 2 \/ i = 3 \/ i = 4
    OBVIOUS
  <1> QED
    BY <1>1, <1>2, <1>3 DEF ConnectFlags, PublishFlags

\* The fields of a CONNECT, one by one.
LEMMA ConnectIs ==
  ASSUME NEW f \in SUBSET ConnectFlags, NEW k \in 0..MaxU16, NEW id \in Texts,
         NEW w \in Option(WillMsg), NEW u \in Option(Texts), NEW pw \in Option(Nat),
         NEW c, c = [type |-> CONNECT, flags |-> f, keepalive |-> k, client_id |-> id,
                     will |-> w, username |-> u, password |-> pw]
  PROVE  /\ c \in Connect /\ c \in HeaderPackets /\ c.type = CONNECT /\ c # Nothing
         /\ c.flags = f /\ c.type # PUBLISH
  <1>1. c \in Connect /\ c.type = CONNECT /\ c.flags = f
    BY DEF Connect
  <1>2. c.type # Nothing.type
    BY <1>1, TypeOfNothing
  <1> QED
    BY <1>1, <1>2, TypesDiffer DEF HeaderPackets

LEMMA CreateConnectStep ==
  ASSUME IInv, UNCHANGED wire, NEW id \in Texts, built = Nothing, UNCHANGED asked,
         NEW f \in {{}, {"CLEAN_SESSION"}},
         built' = [type |-> CONNECT, flags |-> f, keepalive |-> DefaultKeepAlive, client_id |-> id,
                   will |-> << >>, username |-> << >>, password |-> << >>]
  PROVE  IInv'
  <1>1. /\ DefaultKeepAlive \in 0..MaxU16 /\ f \in SUBSET ConnectFlags
        /\ << >> \in Option(WillMsg) /\ << >> \in Option(Texts) /\ << >> \in Option(Nat)
    <2>1. DefaultKeepAlive \in 0..MaxU16
      BY DEF DefaultKeepAlive, MaxU16
    <2>2. f \in SUBSET ConnectFlags
      BY FlagNames
    <2> QED
      BY <2>1, <2>2, NoneIs, Zenon
  <1> DEFINE none == << >>
  <1>2. /\ built' = [type |-> CONNECT, flags |-> f, keepalive |-> DefaultKeepAlive, client_id |-> id,
                     will |-> none, username |-> none, password |-> none]
        /\ none \in Option(WillMsg) /\ none \in Option(Texts) /\ none \in Option(Nat)
    BY <1>1, Zenon
  <1> HIDE DEF none
  <1>3. built' \in HeaderPackets /\ built' # Nothing /\ built'.flags = f
    BY <1>1, <1>2, ConnectIs
  <1> QED
    BY <1>3, FreshPacket

\* A call that changes a CONNECT.
LEMMA ConnectStep ==
  ASSUME IInv, UNCHANGED wire, built' \in Connect, asked' \in RequestedQos,
         built'.flags \cap {"WILL_QOS_1", "WILL_QOS_2"} = WillQos(asked')
  PROVE  IInv'
  <1>1. built'.type = CONNECT
    BY DEF Connect
  <1>2. built' \in HeaderPackets /\ built' # Nothing /\ built'.type # PUBLISH
    BY <1>1, TypeOfNothing, TypesDiffer DEF HeaderPackets
  <1> QED
    BY <1>1, <1>2 DEF IInv, TypeOK, NothingAsked, QosAsAsked

LEMMA ConnectFields ==
  ASSUME IInv, built.type = CONNECT
  PROVE  /\ built.flags \in SUBSET ConnectFlags /\ built.keepalive \in 0..MaxU16
         /\ built.client_id \in Texts /\ built.will \in Option(WillMsg)
         /\ built.username \in Option(Texts) /\ built.password \in Option(Nat)
         /\ built = [type |-> CONNECT, flags |-> built.flags, keepalive |-> built.keepalive,
                     client_id |-> built.client_id, will |-> built.will,
                     username |-> built.username, password |-> built.password]
         /\ built.flags \cap {"WILL_QOS_1", "WILL_QOS_2"} = WillQos(asked)
         /\ asked \in RequestedQos
  <1>1. built \in Connect
    BY BuiltKinds DEF IInv
  <1> QED
    BY <1>1 DEF Connect, IInv, QosAsAsked, TypeOK

\* A call that changes a PUBLISH.
LEMMA PublishStep ==
  ASSUME IInv, UNCHANGED wire, built.type = PUBLISH,
         NEW f \in SUBSET PublishFlags, NEW id \in Option(PacketId),
         built' = [type |-> PUBLISH, flags |-> f, pkid |-> id, topic |-> built.topic,
                   payload |-> built.payload],
         asked' \in RequestedQos,
         ("QOS_1" \in f <=> asked' = 1) /\ ("QOS_2" \in f <=> asked' = 2)
  PROVE  IInv'
  <1>1. built \in Publish
    BY BuiltKinds DEF IInv
  <1>2. built' \in Publish /\ built'.type = PUBLISH /\ built'.flags = f
    BY <1>1 DEF Publish
  <1>3. built' \in HeaderPackets /\ built' # Nothing /\ built'.type # CONNECT
    BY <1>2, TypeOfNothing, TypesDiffer DEF HeaderPackets
  <1> QED
    BY <1>2, <1>3 DEF IInv, TypeOK, NothingAsked, QosAsAsked

LEMMA PublishFields ==
  ASSUME IInv, built.type = PUBLISH
  PROVE  /\ built.flags \in SUBSET PublishFlags /\ built.pkid \in Option(PacketId)
         /\ built.topic \in Texts /\ built.payload \in Nat
         /\ built = [type |-> PUBLISH, flags |-> built.flags, pkid |-> built.pkid,
                     topic |-> built.topic, payload |-> built.payload]
         /\ ("QOS_1" \in built.flags <=> asked = 1) /\ ("QOS_2" \in built.flags <=> asked = 2)
         /\ asked \in RequestedQos
  <1>1. built \in Publish
    BY BuiltKinds DEF IInv
  <1> QED
    BY <1>1 DEF Publish, IInv, QosAsAsked, TypeOK

LEMMA BuilderStep ==
  ASSUME IInv, BuilderCall, UNCHANGED wire
  PROVE  IInv'
  <1>1. ASSUME NEW id \in ClientIds, CreateConnect(id) PROVE IInv'
    <2>1. id \in Texts
      BY Inputs
    <2>2. built' = [type |-> CONNECT, flags |-> {}, keepalive |-> DefaultKeepAlive,
                    client_id |-> id, will |-> << >>, username |-> << >>, password |-> << >>]
      BY <1>1, Zenon DEF CreateConnect, NoConnect
    <2> QED
      BY <1>1, <2>1, <2>2, CreateConnectStep DEF CreateConnect
  <1>2. CASE WithEmptyClientId
    <2>1. EmptyText \in Texts
      BY DEF EmptyText, Texts
    <2>2. built' = [type |-> CONNECT, flags |-> {"CLEAN_SESSION"}, keepalive |-> DefaultKeepAlive,
                    client_id |-> EmptyText, will |-> << >>, username |-> << >>,
                    password |-> << >>]
      BY <1>2 DEF WithEmptyClientId, NoConnect
    <2> QED
      BY <1>2, <2>1, <2>2, CreateConnectStep DEF WithEmptyClientId
  <1>3. CASE CleanSession
    <2>1. /\ built.type = CONNECT /\ asked' = asked
          /\ built' = [built EXCEPT !.flags = @ \cup {"CLEAN_SESSION"}]
      BY <1>3 DEF CleanSession
    <2> DEFINE f == built.flags \cup {"CLEAN_SESSION"}
    <2>2. f \in SUBSET ConnectFlags /\ f \cap {"WILL_QOS_1", "WILL_QOS_2"} = WillQos(asked')
      BY <2>1, ConnectFields, FlagNames
    <2>3. built' \in Connect /\ built'.flags = f
      BY <2>1, <2>2, ConnectFields DEF Connect
    <2> HIDE DEF f
    <2> QED
      BY <2>1, <2>2, <2>3, ConnectFields, ConnectStep
  <1>4. ASSUME NEW k \in Seconds, Keepalive(k) PROVE IInv'
    <2>1. /\ built.type = CONNECT /\ asked' = asked /\ k \in 0..MaxU16
          /\ built' = [built EXCEPT !.keepalive = k]
      BY <1>4, BuildersAssumption DEF Keepalive
    <2>2. built' \in Connect /\ built'.flags = built.flags
      BY <2>1, ConnectFields DEF Connect
    <2> QED
      BY <2>1, <2>2, ConnectFields, ConnectStep
  <1>5. ASSUME NEW t \in Topics, NEW n \in Payloads, NewPublish(t, n) PROVE IInv'
    <2>1. /\ built = Nothing /\ asked' = asked
          /\ built' = [type |-> PUBLISH, flags |-> {}, pkid |-> << >>, topic |-> t, payload |-> n]
      BY <1>5 DEF NewPublish
    <2>2. t \in Texts /\ n \in Nat /\ << >> \in Option(PacketId)
      BY Inputs, NoneIs
    <2>3. built' \in Publish /\ built'.type = PUBLISH /\ built'.flags = {}
      BY <2>1, <2>2 DEF Publish
    <2>4. built' \in HeaderPackets /\ built' # Nothing
      BY <2>3, TypeOfNothing DEF HeaderPackets
    <2> QED
      BY <2>1, <2>3, <2>4, FreshPacket
  <1>6. ASSUME NEW t \in Names, NEW n \in Data, NEW q \in 0..2, NEW r \in BOOLEAN, Will(t, n, q, r)
        PROVE  IInv'
    <2>1. /\ built.type = CONNECT /\ asked' = q
          /\ built' = [built EXCEPT !.will = <<[topic |-> t, message |-> n]>>,
                                    !.flags = WillFlags(@, q, r)]
      BY <1>6 DEF Will
    <2> DEFINE f == WillFlags(built.flags, q, r)
               w == <<[topic |-> t, message |-> n]>>
    <2>2. w \in Option(WillMsg)
      BY Inputs, WillMsgIs
    <2>3. f \in SUBSET ConnectFlags /\ f \cap {"WILL_QOS_1", "WILL_QOS_2"} = WillQos(q)
      BY <2>1, ConnectFields, FlagNames DEF WillFlags, WillQos
    <2>4. built' \in Connect /\ built'.flags = f
      BY <2>1, <2>2, <2>3, ConnectFields DEF Connect
    <2>5. asked' \in RequestedQos
      BY <2>1 DEF RequestedQos
    <2>6. f \cap {"WILL_QOS_1", "WILL_QOS_2"} = WillQos(asked')
      BY <2>1, <2>3
    <2> HIDE DEF f, w
    <2> QED
      BY <2>1, <2>2, <2>3, <2>4, <2>5, <2>6, ConnectFields, ConnectStep
  <1>7. ASSUME NEW u \in Names, Username(u) PROVE IInv'
    <2>1. /\ built.type = CONNECT /\ asked' = asked
          /\ built' = [built EXCEPT !.username = <<u>>, !.flags = @ \cup {"USERNAME"}]
      BY <1>7 DEF Username
    <2> DEFINE f == built.flags \cup {"USERNAME"}
               un == <<u>>
    <2>2. f \in SUBSET ConnectFlags /\ f \cap {"WILL_QOS_1", "WILL_QOS_2"} = WillQos(asked')
      BY <2>1, ConnectFields, FlagNames
    <2>3. un \in Option(Texts)
      BY Inputs, OneIs
    <2>4. built' \in Connect /\ built'.flags = f
      BY <2>1, <2>2, <2>3, ConnectFields DEF Connect
    <2> HIDE DEF f, un
    <2> QED
      BY <2>1, <2>2, <2>3, <2>4, ConnectFields, ConnectStep
  <1>8. ASSUME NEW u \in Names, NEW n \in Data, UsernamePassword(u, n) PROVE IInv'
    <2>1. /\ built.type = CONNECT /\ asked' = asked
          /\ built' = [built EXCEPT !.username = <<u>>, !.password = <<n>>,
                                    !.flags = @ \cup {"USERNAME", "PASSWORD"}]
      BY <1>8 DEF UsernamePassword
    <2> DEFINE f == built.flags \cup {"USERNAME", "PASSWORD"}
               un == <<u>>
               pw == <<n>>
    <2>2. f \in SUBSET ConnectFlags /\ f \cap {"WILL_QOS_1", "WILL_QOS_2"} = WillQos(asked')
      BY <2>1, ConnectFields, FlagNames
    <2>3. un \in Option(Texts) /\ pw \in Option(Nat)
      BY Inputs, OneIs
    <2>4. built' \in Connect /\ built'.flags = f
      BY <2>1, <2>2, <2>3, ConnectFields DEF Connect
    <2> HIDE DEF f, un, pw
    <2> QED
      BY <2>1, <2>2, <2>3, <2>4, ConnectFields, ConnectStep
  <1>9. CASE Retain
    <2>1. /\ built.type = PUBLISH /\ asked' = asked
          /\ built' = [built EXCEPT !.flags = @ \cup {"RETAIN"}]
      BY <1>9 DEF Retain
    <2> DEFINE f == built.flags \cup {"RETAIN"}
    <2>2. /\ f \in SUBSET PublishFlags
          /\ ("QOS_1" \in f <=> asked' = 1) /\ ("QOS_2" \in f <=> asked' = 2)
      BY <2>1, PublishFields, FlagNames
    <2>3. built' = [type |-> PUBLISH, flags |-> f, pkid |-> built.pkid, topic |-> built.topic,
                    payload |-> built.payload]
      BY <2>1, PublishFields
    <2> HIDE DEF f
    <2> QED
      BY <2>1, <2>2, <2>3, PublishFields, PublishStep
  <1>10. ASSUME NEW q \in 1..2, NEW d \in BOOLEAN, NEW id \in PacketIds, SetQos(q, d, id) PROVE IInv'
    <2>1. /\ built.type = PUBLISH /\ asked' = q
          /\ built' = [built EXCEPT !.pkid = <<id>>, !.flags = QosFlags(@, q, d)]
      BY <1>10 DEF SetQos
    <2> DEFINE f == QosFlags(built.flags, q, d)
    <2>2. /\ f \in SUBSET PublishFlags
          /\ ("QOS_1" \in f <=> q = 1) /\ ("QOS_2" \in f <=> q = 2)
      BY <2>1, PublishFields, FlagNames DEF QosFlags
    <2>3. <<id>> \in Option(PacketId) /\ q \in RequestedQos
      <3>1. id \in PacketId
        BY Inputs
      <3>2. q \in RequestedQos
        BY DEF RequestedQos
      <3> QED
        BY <3>1, <3>2, OneIs
    <2>4. built' = [type |-> PUBLISH, flags |-> f, pkid |-> <<id>>, topic |-> built.topic,
                    payload |-> built.payload]
      BY <2>1, PublishFields
    <2> HIDE DEF f
    <2> QED
      BY <2>1, <2>2, <2>3, <2>4, PublishFields, PublishStep
  <1>11. CASE ResetQos
    <2>1. /\ built.type = PUBLISH /\ asked' = 0
          /\ built' = [built EXCEPT !.flags = @ \ {"QOS_1", "QOS_2"}]
      BY <1>11 DEF ResetQos
    <2> DEFINE f == built.flags \ {"QOS_1", "QOS_2"}
    <2>2. /\ f \in SUBSET PublishFlags /\ 0 \in RequestedQos
          /\ ("QOS_1" \in f <=> 0 = 1) /\ ("QOS_2" \in f <=> 0 = 2)
      BY <2>1, PublishFields, FlagNames DEF RequestedQos
    <2>3. built' = [type |-> PUBLISH, flags |-> f, pkid |-> built.pkid, topic |-> built.topic,
                    payload |-> built.payload]
      BY <2>1, PublishFields
    <2> HIDE DEF f
    <2> QED
      BY <2>1, <2>2, <2>3, PublishFields, PublishStep
  <1>12. ASSUME NEW id \in PacketIds, NEW fs \in UpToTwo(Filters), NewSubscribe(id, fs) PROVE IInv'
    <2>1. /\ built = Nothing /\ asked' = asked
          /\ built' = [type |-> SUBSCRIBE, pkid |-> id, filters |-> fs]
      BY <1>12 DEF NewSubscribe
    <2>2. \A f \in Filters : f \in TopicFilter
      BY Inputs DEF Filters, TopicFilter
    <2>3. fs \in Seq(TopicFilter) /\ id \in PacketId
      BY <2>2, UpToTwoIsSeq, Inputs
    <2>4. built' \in Subscribe /\ built'.type = SUBSCRIBE
      BY <2>1, <2>3 DEF Subscribe
    <2>5. built' \in HeaderPackets /\ built' # Nothing
      BY <2>4, TypeOfNothing DEF HeaderPackets
    <2> QED
      BY <2>1, <2>4, <2>5, TypesDiffer, FreshPacket
  <1>13. ASSUME NEW id \in PacketIds, NEW ts \in UpToTwo(Topics), NewUnsubscribe(id, ts) PROVE IInv'
    <2>1. /\ built = Nothing /\ asked' = asked
          /\ built' = [type |-> UNSUBSCRIBE, pkid |-> id, filters |-> ts]
      BY <1>13 DEF NewUnsubscribe
    <2>2. ts \in Seq(Texts) /\ id \in PacketId
      BY UpToTwoIsSeq, Inputs
    <2>3. built' \in Unsubscribe /\ built'.type = UNSUBSCRIBE
      BY <2>1, <2>2 DEF Unsubscribe
    <2>4. built' \in HeaderPackets /\ built' # Nothing
      BY <2>3, TypeOfNothing DEF HeaderPackets
    <2> QED
      BY <2>1, <2>3, <2>4, TypesDiffer, FreshPacket
  <1> QED
    BY <1>1, <1>2, <1>3, <1>4, <1>5, <1>6, <1>7, <1>8, <1>9, <1>10, <1>11, <1>12, <1>13
       DEF BuilderCall

LEMMA ServerStep ==
  ASSUME IInv, ServerCall, UNCHANGED wire
  PROVE  IInv'
  <1>1. ASSUME NEW p, NewServerPacket(p), p \in HeaderPackets \cup ConnAck,
               p.type \notin {0, CONNECT, PUBLISH}
        PROVE  IInv'
    <2>1. p # Nothing
      BY <1>1 DEF Nothing
    <2> QED
      BY <1>1, <2>1, FreshPacket DEF NewServerPacket
  <1>2. ASSUME NEW a \in 0..1, NEW c \in ReturnCodes,
               NewServerPacket([type |-> CONNACK, session |-> a, code |-> c])
        PROVE  IInv'
    <2> DEFINE p == [type |-> CONNACK, session |-> a, code |-> c]
    <2>1. p \in ConnAck /\ p.type \notin {0, CONNECT, PUBLISH}
      BY DEF ConnAck, CONNACK, CONNECT, PUBLISH
    <2> QED
      BY <1>1, <1>2, <2>1, Zenon
  <1>3. ASSUME NEW t \in Acks, NEW id \in PacketIds, NewServerPacket([type |-> t, pkid |-> id])
        PROVE  IInv'
    <2> DEFINE p == [type |-> t, pkid |-> id]
    <2>1. p \in PacketIdOnly
      BY Inputs DEF PacketIdOnly
    <2>2. p.type \notin {0, CONNECT, PUBLISH}
      BY DEF Acks, PUBACK, PUBREC, PUBREL, PUBCOMP, UNSUBACK, CONNECT, PUBLISH
    <2> QED
      BY <1>1, <1>3, <2>1, <2>2, Zenon DEF HeaderPackets
  <1>4. ASSUME NEW id \in PacketIds, NEW cs \in UpToTwo(Codes),
               NewServerPacket([type |-> SUBACK, pkid |-> id, codes |-> cs])
        PROVE  IInv'
    <2> DEFINE p == [type |-> SUBACK, pkid |-> id, codes |-> cs]
    <2>1. cs \in Seq(SubAckCodes) /\ id \in PacketId
      BY CodecAssumption, UpToTwoIsSeq, Inputs
    <2>2. p \in SubAck /\ p.type \notin {0, CONNECT, PUBLISH}
      BY <2>1 DEF SubAck, SUBACK, CONNECT, PUBLISH
    <2> QED
      BY <1>1, <1>4, <2>2, Zenon DEF HeaderPackets
  <1>5. ASSUME NEW p \in {PingReqPacket, PingRespPacket, DisconnectPacket}, NewServerPacket(p)
        PROVE  IInv'
    <2>1. p.type \notin {0, CONNECT, PUBLISH}
      BY DEF PingReqPacket, PingRespPacket, DisconnectPacket, PINGREQ, PINGRESP, DISCONNECT,
             CONNECT, PUBLISH
    <2> QED
      BY <1>1, <1>5, <2>1, Zenon DEF HeaderPackets
  <1> QED
    BY <1>2, <1>3, <1>4, <1>5 DEF ServerCall

LEMMA FromPeerStep ==
  ASSUME NEW w \in Seq(Byte), FromPeer(w)
  PROVE  IInv'
  <1>1. built' = Nothing /\ asked' = 0 /\ wire' = w
    BY DEF FromPeer
  <1>2. built'.type = 0 /\ 0 \in RequestedQos
    BY <1>1 DEF Nothing, RequestedQos
  <1>3. QosAsAsked'
    BY <1>2 DEF QosAsAsked, CONNECT, PUBLISH
  <1> QED
    BY <1>1, <1>2, <1>3 DEF IInv, TypeOK, NothingAsked

LEMMA NextIInv == IInv /\ [Next]_vars => IInv'
  <1> SUFFICES ASSUME IInv, [Next]_vars PROVE IInv'
    OBVIOUS
  <1>1. CASE Call
    BY <1>1, BuilderStep, ServerStep DEF Call
  <1>2. CASE WriteSync
    <2>1. built \in HeaderPackets \cup ConnAck
      BY <1>2, BuiltKinds DEF IInv, WriteSync
    <2>2. wire' \in Seq(Byte)
      BY <1>2, <2>1, BytesOfIsBytes DEF WriteSync
    <2>3. built' = built /\ asked' = asked
      BY <1>2 DEF WriteSync, builderVars
    <2> QED
      BY <2>2, <2>3 DEF IInv, TypeOK, NothingAsked, QosAsAsked
  <1>3. CASE Alter
    <2>1. wire \in Seq(Byte) /\ Len(wire) \in Nat /\ Len(wire) >= 1
      BY <1>3 DEF IInv, TypeOK, Alter
    <2>2. ASSUME NEW i \in 1..Len(wire), NEW b \in Stray PROVE [wire EXCEPT ![i] = b] \in Seq(Byte)
      <3>1. b \in Byte
        BY CodecAssumption
      <3> QED
        BY <2>1, <3>1
    <2>3. ASSUME NEW b \in Stray PROVE Append(wire, b) \in Seq(Byte)
      <3>1. b \in Byte
        BY CodecAssumption
      <3> QED
        BY <2>1, <3>1
    <2>4. Take(wire, Len(wire) - 1) \in Seq(Byte)
      BY <2>1 DEF Take
    <2> QED
      BY <1>3, <2>2, <2>3, <2>4, FromPeerStep, Zenon DEF Alter
  <1>4. CASE Receive
    <2>1. PICK w \in Foreign : FromPeer(w)
      BY <1>4 DEF Receive
    <2>2. w \in Seq(Byte)
      BY CodecAssumption
    <2> QED
      BY <2>1, <2>2, FromPeerStep
  <1>5. CASE UNCHANGED vars
    BY <1>5 DEF vars, IInv, TypeOK, NothingAsked, QosAsAsked
  <1> QED
    BY <1>1, <1>2, <1>3, <1>4, <1>5 DEF Next

LEMMA AlwaysIInv == Spec => []IInv
  BY InitIInv, NextIInv, PTL DEF Spec

(* Every chain of builder calls makes a packet of the type its struct      *)
(* declares: at most one will, user name, password and packet identifier,  *)
(* flags that exist, a keep alive that fits 16 bits; and what write_sync   *)
(* writes of it is bytes, each value in 0..255, for every constant.        *)
THEOREM CodecTypeOK == Spec => []TypeOK
  BY AlwaysIInv, PTL DEF IInv

(* The QoS bits of a will and of a PUBLISH are those of the last call that *)
(* set them, whatever the calls before and between: never the reserved 3.  *)
THEOREM CodecQosAsAsked == Spec => []QosAsAsked
  BY AlwaysIInv, PTL DEF IInv

(* The remaining length in the header of a packet that encodes is what     *)
(* follows: encode_len and write_sync agree for every string, payload and  *)
(* number of filters.                                                      *)
THEOREM CodecLengthHonest == Spec => []LengthHonest
  <1>1. IInv => LengthHonest
    <2> SUFFICES ASSUME IInv, built.type \notin {0, CONNACK}, Encodes(built)
                 PROVE  SumOf(Sizes(StepsOf(built))) = PacketLen(built)
      BY DEF LengthHonest
    <2>1. built \in HeaderPackets
      BY BuiltKinds DEF IInv
    <2> QED
      BY <2>1, LengthsAgree
  <1> QED
    BY <1>1, AlwaysIInv, PTL

----------------------------------------------------------------------------
(* The fixed header, read back.                                            *)

LEMMA TakeIs ==
  ASSUME NEW S, NEW s \in Seq(S), NEW n \in 0..Len(s)
  PROVE  /\ Take(s, n) \in Seq(S) /\ Len(Take(s, n)) = n
         /\ \A i \in 1..n : Take(s, n)[i] = s[i]
  BY DEF Take

LEMMA CountIs ==
  ASSUME NEW s \in Seq(Byte), NEW n \in 0..3, \A i \in 1..n : Continues(s, i), ~Continues(s, n + 1)
  PROVE  CountContinueFlags(s) = n
  <1> DEFINE m == CountContinueFlags(s)
  <1>1. /\ m \in 0..4 /\ \A i \in 1..m : Continues(s, i)
        /\ m < 4 => ~Continues(s, m + 1)
    BY CountContinueFlagsDefined DEF MAX_BYTES
  <1> HIDE DEF m
  <1>2. ~(m > n) /\ ~(m < n)
    BY <1>1
  <1>3. m = n
    BY <1>1, <1>2
  <1> QED
    BY <1>3 DEF m

LEMMA PlaceValues ==
  /\ Place[1] = 1 /\ Place[2] = 128 /\ Place[3] = 16384 /\ Place[4] = 2097152
  /\ Place[5] = 268435456
  BY SMT DEF Place

\* The i-th byte of a remaining length, without and with its flag.
LEMMA EncodedByte ==
  ASSUME NEW v \in Nat, v <= MAX_REMAINING_LENGTH, NEW L \in 1..4, L = LenFromU32(v),
         NEW i \in 1..L
  PROVE  /\ EncodeToArray(v)[i] % CONTINUE_FLAG = (v \div Place[i]) % 128
         /\ HasContinueFlag(EncodeToArray(v)[i]) <=> i < L
  <1>1. EncodeToArray(v)[i] = ((v \div Place[i]) % CONTINUE_FLAG)
                    + (IF v \div Place[i + 1] > 0 THEN CONTINUE_FLAG ELSE 0)
    BY Zenon DEF EncodeToArray
  <1>2. v < Place[L + 1] /\ (L = 1 \/ v >= Place[L])
    BY LenFromU32Defined
  <1>3. PICK d \in Nat : d = v \div Place[i]
    <2>1. Place[i] \in Nat \ {0}
      BY PlaceValues, SMT
    <2> QED
      BY <2>1, SMT
  <1>4. v \div Place[i + 1] > 0 <=> i < L
    <2>1. CASE i = 1
      BY <1>2, <2>1, PlaceValues, SMT
    <2>2. CASE i = 2
      BY <1>2, <2>2, PlaceValues, SMT
    <2>3. CASE i = 3
      BY <1>2, <2>3, PlaceValues, SMT
    <2>4. CASE i = 4
      BY <1>2, <2>4, PlaceValues, SMT
    <2> QED
      BY <2>1, <2>2, <2>3, <2>4, SMT
  <1>5. EncodeToArray(v)[i] = (d % 128) + (IF i < L THEN 128 ELSE 0)
    BY <1>1, <1>3, <1>4, SMT DEF CONTINUE_FLAG
  <1>6. PICK r \in 0..127 : r = d % 128
    OBVIOUS
  <1>7. EncodeToArray(v)[i] = r + (IF i < L THEN 128 ELSE 0)
    BY <1>5, <1>6, SMT
  <1>8. (r + (IF i < L THEN 128 ELSE 0)) % 128 = r
    BY SMT
  <1> QED
    BY <1>3, <1>6, <1>7, <1>8, SMT DEF HasContinueFlag, CONTINUE_FLAG

Base128(a, b, c, d, q) == a + 128 * b + 16384 * c + 2097152 * d + 268435456 * q

\* A length in base 128.
LEMMA BaseDigits ==
  ASSUME NEW v \in Nat
  PROVE  \E a, b, c, d \in 0..127, q \in Nat :
            /\ v = Base128(a, b, c, d, q)
            /\ (v \div Place[1]) % 128 = a /\ (v \div Place[2]) % 128 = b
            /\ (v \div Place[3]) % 128 = c /\ (v \div Place[4]) % 128 = d
  <1>1. ASSUME NEW x \in Nat PROVE \E y \in Nat, z \in 0..127 : x = 128 * y + z
    <2>1. x = 128 * (x \div 128) + (x % 128) /\ x \div 128 \in Nat /\ x % 128 \in 0..127
      OBVIOUS
    <2> QED
      BY <2>1
  <1>2. PICK q1 \in Nat, a \in 0..127 : v = 128 * q1 + a
    BY <1>1
  <1>3. PICK q2 \in Nat, b \in 0..127 : q1 = 128 * q2 + b
    BY <1>1
  <1>4. PICK q3 \in Nat, c \in 0..127 : q2 = 128 * q3 + c
    BY <1>1
  <1>5. PICK q \in Nat, d \in 0..127 : q3 = 128 * q + d
    BY <1>1
  <1>6. v \div 1 = v /\ v \div 128 = q1 /\ v \div 16384 = q2 /\ v \div 2097152 = q3
    <2>1. v \div 1 = v /\ v \div 128 = q1
      BY <1>2, SMT
    <2>2. v \div 16384 = q2
      BY <1>2, <1>3, SMT
    <2>3. v \div 2097152 = q3
      BY <1>2, <1>3, <1>4, SMT
    <2> QED
      BY <2>1, <2>2, <2>3, SMT
  <1>7. v % 128 = a /\ q1 % 128 = b /\ q2 % 128 = c /\ q3 % 128 = d
    BY <1>2, <1>3, <1>4, <1>5, SMT
  <1>8. v = Base128(a, b, c, d, q)
    BY <1>2, <1>3, <1>4, <1>5, SMT DEF Base128
  <1>9. /\ (v \div Place[1]) % 128 = a /\ (v \div Place[2]) % 128 = b
        /\ (v \div Place[3]) % 128 = c /\ (v \div Place[4]) % 128 = d
    <2>1. v \div Place[1] = v /\ v \div Place[2] = q1
      BY <1>6, PlaceValues, SMT
    <2>2. v \div Place[3] = q2 /\ v \div Place[4] = q3
      BY <1>6, PlaceValues, SMT
    <2> QED
      BY <1>7, <2>1, <2>2, Zenon
  <1> QED
    BY <1>8, <1>9, Zenon

\* read_from_buf undoes encode_to_array.
LEMMA ReadUndoesEncode ==
  ASSUME NEW v \in Nat, v <= MAX_REMAINING_LENGTH, NEW L \in 1..4, L = LenFromU32(v),
         NEW s \in Seq(Byte), Len(s) = L, \A i \in 1..L : s[i] = EncodeToArray(v)[i]
  PROVE  ReadFromBuf(s) = v
  <1>1. ASSUME NEW i \in 1..4
        PROVE  Digit(s, i) = IF i <= L THEN ((v \div Place[i]) % 128) * Place[i] ELSE 0
    <2>1. CASE i <= L
      <3>1. i \in 1..L
        BY <2>1
      <3>2. s[i] % CONTINUE_FLAG = (v \div Place[i]) % 128
        BY <3>1, EncodedByte
      <3> QED
        BY <2>1, <3>2, Zenon DEF Digit
    <2>2. CASE ~(i <= L)
      BY <2>2, Zenon DEF Digit
    <2> QED
      BY <2>1, <2>2
  <1>2. v < Place[L + 1]
    BY LenFromU32Defined
  <1>3. PICK a, b, c, d \in 0..127, q \in Nat :
          /\ v = Base128(a, b, c, d, q)
          /\ (v \div Place[1]) % 128 = a /\ (v \div Place[2]) % 128 = b
          /\ (v \div Place[3]) % 128 = c /\ (v \div Place[4]) % 128 = d
    BY BaseDigits
  <1>4. 1 \in 1..4 /\ 2 \in 1..4 /\ 3 \in 1..4 /\ 4 \in 1..4
    OBVIOUS
  <1>5. /\ Digit(s, 1) = IF 1 <= L THEN a * Place[1] ELSE 0
        /\ Digit(s, 2) = IF 2 <= L THEN b * Place[2] ELSE 0
        /\ Digit(s, 3) = IF 3 <= L THEN c * Place[3] ELSE 0
        /\ Digit(s, 4) = IF 4 <= L THEN d * Place[4] ELSE 0
    BY <1>1, <1>3, <1>4, Zenon
  <1>6. ReadFromBuf(s) = (IF 1 <= L THEN a ELSE 0) + (IF 2 <= L THEN b * 128 ELSE 0)
                       + (IF 3 <= L THEN c * 16384 ELSE 0) + (IF 4 <= L THEN d * 2097152 ELSE 0)
    <2>1. Digit(s, 1) = (IF 1 <= L THEN a ELSE 0) /\ Digit(s, 2) = (IF 2 <= L THEN b * 128 ELSE 0)
      BY <1>5, PlaceValues, SMT
    <2>2. Digit(s, 3) = (IF 3 <= L THEN c * 16384 ELSE 0)
      BY <1>5, PlaceValues, SMT
    <2>3. Digit(s, 4) = (IF 4 <= L THEN d * 2097152 ELSE 0)
      BY <1>5, PlaceValues, SMT
    <2> QED
      BY <2>1, <2>2, <2>3, SMT DEF ReadFromBuf
  <1>7. CASE L = 1
    <2>1. v < 128
      BY <1>2, <1>7, PlaceValues, SMT
    <2> QED
      BY <1>3, <1>6, <1>7, <2>1, SMT DEF Base128
  <1>8. CASE L = 2
    <2>1. v < 16384
      BY <1>2, <1>8, PlaceValues, SMT
    <2> QED
      BY <1>3, <1>6, <1>8, <2>1, SMT DEF Base128
  <1>9. CASE L = 3
    <2>1. v < 2097152
      BY <1>2, <1>9, PlaceValues, SMT
    <2> QED
      BY <1>3, <1>6, <1>9, <2>1, SMT DEF Base128
  <1>10. CASE L = 4
    <2>1. v < 268435456
      BY <1>2, <1>10, PlaceValues, SMT
    <2> QED
      BY <1>3, <1>6, <1>10, <2>1, SMT DEF Base128
  <1> QED
    BY <1>7, <1>8, <1>9, <1>10, SMT

\* What next_frame says of a slice that starts with a header, or with a part of one.
LEMMA NextFrameOfHeader ==
  ASSUME NEW v \in Nat, v <= MAX_REMAINING_LENGTH, NEW L \in 1..4, L = LenFromU32(v),
         NEW s \in Seq(Byte), Len(s) > 0,
         \A i \in 1..L : i + 1 <= Len(s) => s[i + 1] = EncodeToArray(v)[i]
  PROVE  /\ ~NextFrameErr(s)
         /\ NextFrameSome(s) <=> Len(s) > L
         /\ Len(s) > L => FrameLen(s) = 1 + L + v
  <1>1. PICK n \in Nat : n = Len(s) - 1
    OBVIOUS
  <1>2. PICK u \in Seq(Byte) : u = AfterType(s) /\ Len(u) = n
    BY <1>1, AfterTypeIsSlice
  <1>3. ASSUME NEW i \in 1..n, i <= L PROVE HasContinueFlag(u[i]) <=> i < L
    <2>1. u[i] = s[i + 1] /\ i \in 1..L /\ i + 1 <= Len(s)
      BY <1>1, <1>2, <1>3 DEF AfterType
    <2>2. u[i] = EncodeToArray(v)[i]
      BY <2>1
    <2> QED
      BY <2>1, <2>2, EncodedByte
  <1>4. CASE n < L
    <2>1. CountContinueFlags(u) = n
      <3>1. n \in 0..3
        BY <1>4
      <3>2. \A i \in 1..n : Continues(u, i)
        BY <1>2, <1>3, <1>4 DEF Continues
      <3>3. ~Continues(u, n + 1)
        BY <1>2 DEF Continues
      <3> QED
        BY <3>1, <3>2, <3>3, CountIs
    <2> QED
      BY <1>1, <1>2, <1>4, <2>1 DEF NextFrameErr, NextFrameSome, RemBytes, MAX_BYTES
  <1>5. CASE n >= L
    <2>1. CountContinueFlags(u) = L - 1
      <3>1. L - 1 \in 0..3 /\ (L - 1) + 1 = L
        OBVIOUS
      <3>2. \A i \in 1..(L - 1) : Continues(u, i)
        BY <1>2, <1>3, <1>5 DEF Continues
      <3>3. ~Continues(u, L)
        BY <1>2, <1>3, <1>5 DEF Continues
      <3> QED
        BY <3>1, <3>2, <3>3, CountIs
    <2>2. RemBytes(s) = L
      BY <1>2, <2>1 DEF RemBytes
    <2>3. ~NextFrameErr(s) /\ NextFrameSome(s)
      BY <1>1, <1>2, <1>5, <2>1, <2>2 DEF NextFrameErr, NextFrameSome, MAX_BYTES
    <2>4. PICK a \in Seq(Byte) : a = LengthBytes(s) /\ Len(a) = L /\ \A i \in 1..L : a[i] = s[i + 1]
      <3>1. LengthBytes(s) = [i \in 1..L |-> s[i + 1]]
        BY <2>2 DEF LengthBytes
      <3>2. \A i \in 1..L : s[i + 1] \in Byte
        BY <1>1, <1>5
      <3>3. LengthBytes(s) \in [1..L -> Byte]
        BY <3>1, <3>2
      <3>4. LengthBytes(s) \in Seq(Byte) /\ Len(LengthBytes(s)) = L
        BY <3>3
      <3> QED
        BY <3>1, <3>4
    <2>5. ReadFromBuf(a) = v
      <3>1. \A i \in 1..L : a[i] = EncodeToArray(v)[i]
        BY <1>1, <1>5, <2>4
      <3> QED
        BY <2>4, <3>1, ReadUndoesEncode
    <2> QED
      BY <1>1, <1>5, <2>2, <2>3, <2>4, <2>5 DEF FrameLen
  <1> QED
    BY <1>1, <1>4, <1>5

LEMMA TypeByteRead ==
  ASSUME NEW t \in 1..14, NEW f \in 0..15, ValidTypeFlags(t, f)
  PROVE  /\ EncodeTypeAndFlags(t, f) \in Byte
         /\ ParseType(EncodeTypeAndFlags(t, f))
         /\ PacketTypeOf(EncodeTypeAndFlags(t, f)) = t
         /\ FlagsOf(EncodeTypeAndFlags(t, f)) = f
  <1>1. EncodeTypeAndFlags(t, f) \in Byte
    BY DEF EncodeTypeAndFlags, Byte
  <1>2. PacketTypeOf(EncodeTypeAndFlags(t, f)) = t /\ FlagsOf(EncodeTypeAndFlags(t, f)) = f
    BY DEF PacketTypeOf, FlagsOf, EncodeTypeAndFlags
  <1> QED
    BY <1>1, <1>2 DEF ParseType, ControlPacketTypes

\* The bytes h are a header with L length bytes.
IsHeader(h, t, f, v, L) ==
    /\ h \in Seq(Byte) /\ Len(h) = L + 1 /\ h[1] = EncodeTypeAndFlags(t, f)
    /\ \A i \in 1..L : h[i + 1] = EncodeToArray(v)[i]

LEMMA HeaderIs ==
  ASSUME NEW t \in 1..14, NEW f \in 0..15, ValidTypeFlags(t, f),
         NEW v \in Nat, v <= MAX_REMAINING_LENGTH, NEW L \in 1..4, L = LenFromU32(v)
  PROVE  IsHeader(WriteHeader(t, f, v), t, f, v, L)
  <1>1. PICK a \in Seq(Byte) : a = EncodeToArray(v) /\ Len(a) = L
    BY EncodeToArrayIsBytes
  <1>2. PICK b \in Byte : b = EncodeTypeAndFlags(t, f)
    BY TypeByteRead
  <1>3. WriteHeader(t, f, v) = <<b>> \o a
    BY <1>1, <1>2, Zenon DEF WriteHeader
  <1>4. /\ <<b>> \o a \in Seq(Byte) /\ Len(<<b>> \o a) = L + 1 /\ (<<b>> \o a)[1] = b
        /\ \A i \in 1..L : (<<b>> \o a)[i + 1] = a[i]
    BY <1>1
  <1> QED
    BY <1>1, <1>2, <1>3, <1>4, Zenon DEF IsHeader

(* next_frame finds every packet this library frames, of any length up to  *)
(* the largest, from the last byte of its header on and not before: the    *)
(* reader never cuts a packet, nor waits for a byte that does not come.    *)
THEOREM CodecFrameFound == Spec => []FrameFoundAtLastHeaderByte
  <1>1. IInv => FrameFoundAtLastHeaderByte
    <2> SUFFICES ASSUME IInv, built.type \notin {0, CONNACK}, Encodes(built),
                        NEW h, h = WriteHeader(built.type, HeaderFlags(built), BodyLen(built))
                 PROVE  /\ \A n \in 0..Len(h) :
                            /\ ~NextFrameErr(Take(h, n))
                            /\ NextFrameSome(Take(h, n)) <=> n = Len(h)
                        /\ \A s \in {h} \cup {Append(h, b) : b \in Stray} :
                            NextFrameSome(s) /\ FrameLen(s) = PacketLen(built)
                        /\ ParseType(h[1])
                        /\ PacketTypeOf(h[1]) = built.type /\ FlagsOf(h[1]) = HeaderFlags(built)
      BY Zenon DEF FrameFoundAtLastHeaderByte
    <2>1. built \in HeaderPackets
      BY BuiltKinds DEF IInv
    <2>2. FramesHeader(built)
      BY <2>1, EncodesFrames
    <2>3. PICK t \in 1..14 : t = built.type
      BY <2>1, PacketKinds
    <2>4. PICK f \in 0..15 : f = HeaderFlags(built)
      BY <2>1, HeaderFlagsBound
    <2>5. PICK v \in Nat : v = BodyLen(built)
      BY <2>1, BodySized, SizedIsNat
    <2>6. v <= MAX_REMAINING_LENGTH /\ ValidTypeFlags(t, f)
      BY <2>2, <2>3, <2>4, <2>5, Zenon DEF FramesHeader, ValidHeader
    <2>7. PICK L \in 1..4 : L = LenFromU32(v)
      BY <2>6, LenFromU32Defined
    <2>8. h = WriteHeader(t, f, v)
      BY <2>3, <2>4, <2>5, Zenon
    <2>9. /\ h \in Seq(Byte) /\ Len(h) = L + 1 /\ h[1] = EncodeTypeAndFlags(t, f)
          /\ \A i \in 1..L : h[i + 1] = EncodeToArray(v)[i]
      <3>1. IsHeader(h, t, f, v, L)
        BY <2>6, <2>7, <2>8, HeaderIs, Zenon
      <3> QED
        BY <3>1 DEF IsHeader
    <2>10. ASSUME NEW n \in 0..Len(h)
           PROVE  ~NextFrameErr(Take(h, n)) /\ (NextFrameSome(Take(h, n)) <=> n = Len(h))
      <3>1. PICK s \in Seq(Byte) : /\ s = Take(h, n) /\ Len(s) = n
                                   /\ \A i \in 1..n : s[i] = h[i]
        BY <2>9, TakeIs
      <3>2. CASE n = 0
        BY <2>9, <3>1, <3>2 DEF NextFrameErr, NextFrameSome
      <3>3. CASE n # 0
        <4>1. \A i \in 1..L : i + 1 <= Len(s) => s[i + 1] = EncodeToArray(v)[i]
          BY <2>9, <3>1
        <4>2. ~NextFrameErr(s) /\ (NextFrameSome(s) <=> Len(s) > L)
          <5>1. Len(s) > 0
            BY <3>1, <3>3
          <5> QED
            BY <2>6, <2>7, <4>1, <5>1, NextFrameOfHeader, Zenon
        <4> QED
          BY <2>9, <3>1, <4>2
      <3> QED
        BY <3>2, <3>3
    <2>11. ASSUME NEW s \in Seq(Byte), Len(s) > L, \A i \in 1..Len(h) : s[i] = h[i]
           PROVE  NextFrameSome(s) /\ FrameLen(s) = PacketLen(built)
      <3>1. \A i \in 1..L : i + 1 <= Len(s) => s[i + 1] = EncodeToArray(v)[i]
        BY <2>9, <2>11
      <3>2. NextFrameSome(s) /\ FrameLen(s) = 1 + L + v
        <4>1. Len(s) > 0
          BY <2>7, <2>11
        <4> QED
          BY <2>6, <2>7, <2>11, <3>1, <4>1, NextFrameOfHeader, Zenon
      <3>3. PacketLen(built) = 1 + L + v
        BY <2>5, <2>7 DEF PacketLen, EncodeLen
      <3> QED
        BY <3>2, <3>3
    <2>12. ASSUME NEW s \in {h} \cup {Append(h, b) : b \in Stray}
           PROVE  NextFrameSome(s) /\ FrameLen(s) = PacketLen(built)
      <3>1. CASE s = h
        BY <2>9, <2>11, <3>1
      <3>2. CASE \E b \in Stray : s = Append(h, b)
        <4>1. PICK b \in Stray : s = Append(h, b)
          BY <3>2
        <4>2. b \in Byte
          BY CodecAssumption
        <4>3. s \in Seq(Byte) /\ Len(s) > L /\ \A i \in 1..Len(h) : s[i] = h[i]
          BY <2>9, <4>1, <4>2
        <4> QED
          BY <2>11, <4>3
      <3> QED
        BY <3>1, <3>2
    <2>13. ParseType(h[1]) /\ PacketTypeOf(h[1]) = t /\ FlagsOf(h[1]) = f
      BY <2>6, <2>9, TypeByteRead
    <2> QED
      BY <2>3, <2>4, <2>10, <2>12, <2>13, Zenon
  <1> QED
    BY <1>1, AlwaysIInv, PTL

----------------------------------------------------------------------------
(* Recursive functions.  The parsers that repeat are functions of the      *)
(* number of bytes left, defined from their values for fewer bytes.        *)

LEMMA StrongInduction ==
  ASSUME NEW m \in Nat, NEW S, \A k \in 0..m : (\A j \in 0..(k - 1) : j \in S) => k \in S
  PROVE  \A k \in 0..m : k \in S
  <1> DEFINE T == {n \in 0..m : \A j \in 0..n : j \in S}
  <1>1. 0 \in T
    <2>1. \A j \in 0..(0 - 1) : j \in S
      OBVIOUS
    <2>2. 0 \in S
      BY <2>1
    <2> QED
      BY <2>2
  <1>2. ASSUME NEW n \in 0..(m - 1), n \in T PROVE n + 1 \in T
    <2>1. n + 1 \in 0..m /\ (n + 1) - 1 = n
      OBVIOUS
    <2>2. n + 1 \in S
      BY <1>2, <2>1
    <2> QED
      BY <1>2, <2>1, <2>2
  <1>3. \A n \in 0..m : n \in T
    <2> HIDE DEF T
    <2> QED
      BY <1>1, <1>2, BoundedInduction
  <1> QED
    BY <1>3

\* F[k] depends on the values for less than k.
Inductive(F, m, V) ==
    /\ F \in [0..m -> [[0..m -> V] -> V]]
    /\ \A k \in 0..m : \A f, g \in [0..m -> V] :
        (\A j \in 0..(k - 1) : f[j] = g[j]) => F[k][f] = F[k][g]

Solvable(F, m, V) == \E h \in [0..m -> V] : \A k \in 0..m : h[k] = F[k][h]

LEMMA Recursion ==
  ASSUME NEW m \in Nat, NEW V, NEW v \in V, NEW F, Inductive(F, m, V)
  PROVE  Solvable(F, m, V)
  <1> DEFINE Q(n) == \E h \in [0..m -> V] : \A k \in 0..n : h[k] = F[k][h]
             T == {n \in 0..m : Q(n)}
  <1>0. ASSUME NEW n \in 0..m, NEW h \in [0..m -> V], \A k \in 0..(n - 1) : h[k] = F[k][h]
        PROVE  Q(n)
    <2>0. \A i \in 0..m : \A e \in [0..m -> V] :
            (\A j \in 0..(i - 1) : e[j] = h[j]) => F[i][e] = F[i][h]
      BY Zenon DEF Inductive
    <2>1. F[n][h] \in V
      BY DEF Inductive
    <2> SUFFICES ASSUME NEW g, g = [h EXCEPT ![n] = F[n][h]] PROVE Q(n)
      OBVIOUS
    <2>2. g \in [0..m -> V] /\ g[n] = F[n][h] /\ \A j \in 0..m : j # n => g[j] = h[j]
      BY <2>1
    <2>3. ASSUME NEW k \in 0..n PROVE g[k] = F[k][g]
      <3>1. k \in 0..m /\ \A j \in 0..(k - 1) : g[j] = h[j]
        BY <2>2
      <3>2. F[k][g] = F[k][h]
        BY <2>0, <2>2, <3>1
      <3>3. CASE k = n
        BY <2>2, <3>2, <3>3, Zenon
      <3>4. CASE k # n
        <4>1. k \in 0..(n - 1) /\ g[k] = h[k]
          BY <2>2, <3>1, <3>4
        <4> QED
          BY <1>0, <3>2, <4>1, Zenon
      <3> QED
        BY <3>3, <3>4
    <2> QED
      BY <2>2, <2>3
  <1>1. Q(0)
    <2>1. [k \in 0..m |-> v] \in [0..m -> V] /\ 0 \in 0..m /\ \A k \in 0..(0 - 1) : FALSE
      OBVIOUS
    <2> HIDE DEF Q
    <2> QED
      BY <1>0, <2>1
  <1>2. ASSUME NEW n \in 0..(m - 1), Q(n) PROVE Q(n + 1)
    <2>1. PICK h \in [0..m -> V] : \A k \in 0..n : h[k] = F[k][h]
      BY <1>2
    <2>2. n + 1 \in 0..m /\ (n + 1) - 1 = n
      OBVIOUS
    <2> HIDE DEF Q
    <2> QED
      BY <1>0, <2>1, <2>2
  <1>3. Q(m)
    <2> HIDE DEF Q
    <2>1. 0 \in T /\ \A n \in 0..(m - 1) : n \in T => n + 1 \in T
      BY <1>1, <1>2
    <2>2. \A n \in 0..m : n \in T
      <3> HIDE DEF T
      <3> QED
        BY <2>1, BoundedInduction
    <2> QED
      BY <2>2
  <1> QED
    BY <1>3 DEF Solvable

----------------------------------------------------------------------------
(* Parts of a sequence.                                                    *)

LEMMA DropIs ==
  ASSUME NEW S, NEW s \in Seq(S), NEW n \in 0..Len(s)
  PROVE  /\ Drop(s, n) \in Seq(S) /\ Len(Drop(s, n)) = Len(s) - n
         /\ \A i \in 1..(Len(s) - n) : Drop(s, n)[i] = s[n + i]
  BY DEF Drop

\* DropIs for bytes, as one fact about d.
IsDrop(d, s, n) ==
    d \in Seq(Byte) /\ Len(d) = Len(s) - n /\ \A i \in 1..(Len(s) - n) : d[i] = s[n + i]

LEMMA DropIsDrop ==
  ASSUME NEW s \in Seq(Byte), NEW n \in 0..Len(s) PROVE IsDrop(Drop(s, n), s, n)
  BY DropIs DEF IsDrop

LEMMA EndingIs ==
  ASSUME NEW S, NEW s \in Seq(S), NEW k \in 0..Len(s)
  PROVE  /\ Ending(s, k) \in Seq(S) /\ Len(Ending(s, k)) = k
         /\ k = Len(s) => Ending(s, k) = s
         /\ k > 0 => Ending(s, k)[1] \in S
  <1>1. PICK n \in 0..Len(s) : n = Len(s) - k
    OBVIOUS
  <1>2. Ending(s, k) = Drop(s, n)
    BY <1>1, Zenon DEF Ending
  <1>3. Drop(s, n) \in Seq(S) /\ Len(Drop(s, n)) = Len(s) - n
    BY DropIs
  <1>4. Drop(s, 0) = s
    BY DEF Drop
  <1> QED
    BY <1>1, <1>2, <1>3, <1>4

----------------------------------------------------------------------------
(* The characters of a string that is read.                                *)

LEMMA OkIs ==
  ASSUME NEW out, NEW rest
  PROVE  Ok(out, rest).ok /\ Ok(out, rest).out = out /\ Ok(out, rest).rest = rest
  BY DEF Ok

LEMMA ErrIs == ~Err.ok
  BY DEF Err

LEMMA Utf8SizeIs == ASSUME NEW b \in Byte PROVE Utf8Size(b) \in 1..4
  <1>1. b < 192 \/ b \in 192..223 \/ b \in 224..239 \/ b \in 240..255
    BY DEF Byte
  <1> QED
    BY <1>1 DEF Utf8Size, Byte

Chars == {c \in Nat : IsChar(c)}

\* What a parser that repeats up to the end may return.
Lists(S) == {Err} \cup {Ok(s, << >>) : s \in Seq(S)}

LEMMA ListIs ==
  ASSUME NEW S, NEW r \in Lists(S), r.ok
  PROVE  r.out \in Seq(S) /\ r.rest = << >> /\ r = Ok(r.out, << >>)
  <1>1. r # Err
    BY ErrIs
  <1>2. PICK s \in Seq(S) : r = Ok(s, << >>)
    BY <1>1 DEF Lists
  <1> QED
    BY <1>2, OkIs

\* One character and those of the k - n bytes behind it.
CharsStep(h, b, k) ==
    LET s == Ending(b, k)
        n == Utf8Size(s[1])
        c == CodePoint(s, n)
    IN  IF k = 0 THEN Ok(<< >>, << >>)
        ELSE When(n <= k /\ IsChar(c) /\ Utf8(c) = Take(s, n),
                  Then(h[k - n], LAMBDA cs, rest : Ok(<<c>> \o cs, rest)))

LEMMA Longer ==
  ASSUME NEW S, NEW x \in S, NEW s \in Seq(S)
  PROVE  Ok(<<x>> \o s, << >>) \in Lists(S)
  <1>1. <<x>> \o s \in Seq(S)
    OBVIOUS
  <1> QED
    BY <1>1, Zenon DEF Lists

LEMMA CharsStepTyped ==
  ASSUME NEW b \in Seq(Byte), NEW k \in 0..Len(b), NEW h, \A j \in 0..(k - 1) : h[j] \in Lists(Chars)
  PROVE  CharsStep(h, b, k) \in Lists(Chars)
  <1>1. CASE k = 0
    <2>1. << >> \in Seq(Chars)
      OBVIOUS
    <2>2. CharsStep(h, b, k) = Ok(<< >>, << >>)
      BY <1>1, Zenon DEF CharsStep
    <2> QED
      BY <2>1, <2>2, Zenon DEF Lists
  <1>2. CASE k # 0
    <2> DEFINE s == Ending(b, k)
               n == Utf8Size(s[1])
               c == CodePoint(s, n)
               r == h[k - n]
               good == n <= k /\ IsChar(c) /\ Utf8(c) = Take(s, n)
    <2>1. CharsStep(h, b, k) = IF good /\ r.ok THEN Ok(<<c>> \o r.out, r.rest) ELSE Err
      BY <1>2, Zenon DEF CharsStep, When, Then
    <2>2. n \in 1..4
      BY <1>2, EndingIs, Utf8SizeIs
    <2>3. ASSUME good, r.ok PROVE Ok(<<c>> \o r.out, r.rest) \in Lists(Chars)
      <3>1. c \in Chars
        BY <2>3 DEF IsChar, Chars
      <3>2. k - n \in 0..(k - 1)
        BY <2>2, <2>3
      <3>3. r \in Lists(Chars)
        BY <3>2
      <3> HIDE DEF s, n, c, r, good
      <3>4. r.out \in Seq(Chars) /\ r.rest = << >>
        BY <2>3, <3>3, ListIs, Zenon
      <3> QED
        BY <3>1, <3>4, Longer, Zenon
    <2> HIDE DEF s, n, c, r, good
    <2> QED
      BY <2>1, <2>3, Zenon DEF Lists
  <1> QED
    BY <1>1, <1>2

LEMMA CharsStepLocal ==
  ASSUME NEW b \in Seq(Byte), NEW k \in 0..Len(b), NEW f, NEW g, \A j \in 0..(k - 1) : f[j] = g[j]
  PROVE  CharsStep(f, b, k) = CharsStep(g, b, k)
  <1>1. CASE k = 0
    BY <1>1, Zenon DEF CharsStep
  <1>2. CASE k # 0
    <2> DEFINE s == Ending(b, k)
               n == Utf8Size(s[1])
               c == CodePoint(s, n)
               good == n <= k /\ IsChar(c) /\ Utf8(c) = Take(s, n)
    <2>1. n \in 1..4
      BY <1>2, EndingIs, Utf8SizeIs
    <2>2. good => f[k - n] = g[k - n]
      <3>1. ASSUME n <= k PROVE k - n \in 0..(k - 1)
        <4> HIDE DEF n
        <4> QED
          BY <2>1, <3>1
      <3> QED
        BY <3>1, Zenon
    <2>3. CASE good
      BY <1>2, <2>2, <2>3, Zenon DEF CharsStep, When, Then
    <2>4. CASE ~good
      BY <1>2, <2>4, Zenon DEF CharsStep, When, Then
    <2> QED
      BY <2>3, <2>4
  <1> QED
    BY <1>1, <1>2

\* The equation Utf8Chars chooses a function by.
CharsEq(h, b) == h = [k \in 0..Len(b) |-> CharsStep(h, b, k)]

LEMMA CharsExist ==
  ASSUME NEW b \in Seq(Byte)
  PROVE  \E h : CharsEq(h, b)
  <1> DEFINE m == Len(b)
             V == Lists(Chars)
             F == [k \in 0..m |-> [f \in [0..m -> V] |-> CharsStep(f, b, k)]]
  <1>1. m \in Nat
    OBVIOUS
  <1>2. ASSUME NEW k \in 0..m, NEW f \in [0..m -> V] PROVE CharsStep(f, b, k) \in V
    <2>1. \A j \in 0..(k - 1) : f[j] \in V
      OBVIOUS
    <2> QED
      BY <2>1, CharsStepTyped
  <1>3. F \in [0..m -> [[0..m -> V] -> V]]
    <2> HIDE DEF V, m
    <2> QED
      BY <1>2
  <1>4. ASSUME NEW k \in 0..m, NEW f \in [0..m -> V] PROVE F[k][f] = CharsStep(f, b, k)
    <2> HIDE DEF V, m
    <2> QED
      OBVIOUS
  <1>5. ASSUME NEW k \in 0..m, NEW f \in [0..m -> V], NEW g \in [0..m -> V],
               \A j \in 0..(k - 1) : f[j] = g[j]
        PROVE  F[k][f] = F[k][g]
    <2>1. CharsStep(f, b, k) = CharsStep(g, b, k)
      BY <1>5, CharsStepLocal
    <2> HIDE DEF F, V, m
    <2> QED
      BY <1>4, <2>1
  <1>6. Err \in V
    BY DEF Lists
  <1>7. Inductive(F, m, V)
    <2> HIDE DEF F, V, m
    <2> QED
      BY <1>3, <1>5 DEF Inductive
  <1> HIDE DEF F, V, m
  <1>8. PICK h \in [0..m -> V] : \A k \in 0..m : h[k] = F[k][h]
    <2>1. Solvable(F, m, V)
      BY <1>1, <1>6, <1>7, Recursion, Zenon
    <2> QED
      BY <2>1 DEF Solvable
  <1>9. h = [k \in 0..m |-> CharsStep(h, b, k)]
    BY <1>4, <1>8
  <1> QED
    BY <1>9 DEF CharsEq, m

LEMMA Utf8CharsIs ==
  ASSUME NEW b \in Seq(Byte)
  PROVE  \E h : CharsEq(h, b) /\ Utf8Chars(b) = h[Len(b)]
  <1> DEFINE chars == CHOOSE h : CharsEq(h, b)
  <1>1. CharsEq(chars, b)
    BY CharsExist, Zenon
  <1>2. Utf8Chars(b) = chars[Len(b)]
    BY Zenon DEF Utf8Chars, CharsEq, CharsStep
  <1> QED
    BY <1>1, <1>2, Zenon

LEMMA Utf8CharsTyped ==
  ASSUME NEW b \in Seq(Byte)
  PROVE  Utf8Chars(b) \in Lists(Chars)
  <1>1. PICK h : CharsEq(h, b) /\ Utf8Chars(b) = h[Len(b)]
    BY Utf8CharsIs
  <1> DEFINE S == {k \in 0..Len(b) : h[k] \in Lists(Chars)}
  <1>2. ASSUME NEW k \in 0..Len(b), \A j \in 0..(k - 1) : j \in S PROVE k \in S
    <2>1. \A j \in 0..(k - 1) : h[j] \in Lists(Chars)
      BY <1>2
    <2>2. CharsStep(h, b, k) \in Lists(Chars)
      BY <2>1, CharsStepTyped
    <2>3. h[k] = CharsStep(h, b, k)
      BY <1>1, Zenon DEF CharsEq
    <2> QED
      BY <2>2, <2>3
  <1>3. Len(b) \in Nat /\ Len(b) \in 0..Len(b)
    OBVIOUS
  <1>4. \A k \in 0..Len(b) : k \in S
    <2> HIDE DEF S
    <2> QED
      BY <1>2, <1>3, StrongInduction
  <1> QED
    BY <1>1, <1>3, <1>4

----------------------------------------------------------------------------
(* The parsers of fields: what they accept, and that a byte b behind their *)
(* input s stays behind what they leave of it.                             *)

\* r is what a parser makes of s, and q what it makes of Append(s, b): an
\* error, or a member of S that takes at least k bytes.
Reads(r, q, S, k, s, b) ==
    \/ r = Err
    \/ \E out \in S, rest \in Seq(Byte) :
        /\ r = Ok(out, rest) /\ Len(rest) + k <= Len(s)
        /\ q = Ok(out, Append(rest, b))

LEMMA Behind ==
  ASSUME NEW s \in Seq(Byte), NEW b \in Byte
  PROVE  /\ Append(s, b) \in Seq(Byte) /\ Len(Append(s, b)) = Len(s) + 1
         /\ \A i \in 1..Len(s) : Append(s, b)[i] = s[i]
  OBVIOUS

LEMMA DropBehind ==
  ASSUME NEW s \in Seq(Byte), NEW b \in Byte, NEW n \in 0..Len(s)
  PROVE  Drop(Append(s, b), n) = Append(Drop(s, n), b)
  <1>0. PICK l \in Nat : l = Len(s)
    OBVIOUS
  <1> SUFFICES ASSUME NEW t, t = Append(s, b)
               PROVE  Drop(t, n) = Append(Drop(s, n), b)
    BY Zenon
  <1>1. t \in Seq(Byte) /\ Len(t) = l + 1 /\ t[l + 1] = b /\ \A i \in 1..l : t[i] = s[i]
    BY <1>0
  <1>2. n \in 0..Len(t) /\ n \in 0..l
    BY <1>0, <1>1
  <1>3. IsDrop(Drop(t, n), t, n)
    BY <1>1, <1>2, DropIsDrop, Zenon
  <1>4. IsDrop(Drop(s, n), s, n)
    BY <1>1, <1>2, DropIsDrop, Zenon
  <1> SUFFICES ASSUME NEW u, IsDrop(u, t, n), NEW d, IsDrop(d, s, n), NEW v, v = Append(d, b)
               PROVE  u = v
    BY <1>3, <1>4
  <1>30. u \in Seq(Byte) /\ Len(u) = l + 1 - n /\ \A i \in 1..(l + 1 - n) : u[i] = t[n + i]
    <2>1. Len(t) - n = l + 1 - n
      BY <1>1
    <2>2. u \in Seq(Byte) /\ Len(u) = Len(t) - n /\ \A i \in 1..(Len(t) - n) : u[i] = t[n + i]
      BY Zenon DEF IsDrop
    <2> QED
      BY <2>1, <2>2, Zenon
  <1>40. d \in Seq(Byte) /\ Len(d) = l - n /\ \A i \in 1..(l - n) : d[i] = s[n + i]
    BY <1>0, Zenon DEF IsDrop
  <1>5. /\ v \in Seq(Byte) /\ Len(v) = l - n + 1 /\ v[l - n + 1] = b
        /\ \A i \in 1..(l - n) : v[i] = d[i]
    BY <1>0, <1>2, <1>40
  <1>6. ASSUME NEW i \in 1..(l + 1 - n) PROVE u[i] = v[i]
    <2>1. u[i] = t[n + i]
      BY <1>30, Zenon
    <2>2. CASE i <= l - n
      <3>1. i \in 1..(l - n) /\ n + i \in 1..l
        BY <1>2, <2>2
      <3> QED
        BY <1>1, <1>40, <1>5, <2>1, <3>1, Zenon
    <2>3. CASE i = l + 1 - n
      <3>1. n + i = l + 1 /\ i = l - n + 1
        BY <1>2, <2>3
      <3> QED
        BY <1>1, <1>5, <2>1, <3>1, Zenon
    <2>4. i <= l - n \/ i = l + 1 - n
      BY <1>2
    <2> QED
      BY <2>2, <2>3, <2>4
  <1>7. Len(u) = Len(v) /\ 1..Len(u) = 1..(l + 1 - n)
    BY <1>2, <1>30, <1>5
  <1> QED
    BY <1>30, <1>5, <1>6, <1>7, SeqEqual, Zenon

LEMMA TakeBehind ==
  ASSUME NEW s \in Seq(Byte), NEW b \in Byte, NEW n \in 0..Len(s)
  PROVE  Take(Append(s, b), n) = Take(s, n)
  BY DEF Take

LEMMA U16Read ==
  ASSUME NEW s \in Seq(Byte), Len(s) >= 2
  PROVE  FromU16(s) \in Nat /\ FromU16(s) <= MaxU16
  <1>1. s[1] \in Byte /\ s[2] \in Byte
    OBVIOUS
  <1>2. \A x, y \in Byte : x * 256 + y \in Nat /\ x * 256 + y <= MaxU16
    BY SMT DEF Byte, MaxU16
  <1> QED
    BY <1>1, <1>2, Zenon DEF FromU16

LEMMA U16Behind ==
  ASSUME NEW s \in Seq(Byte), NEW b \in Byte, Len(s) >= 2
  PROVE  FromU16(Append(s, b)) = FromU16(s)
  <1>1. Append(s, b)[1] = s[1] /\ Append(s, b)[2] = s[2]
    OBVIOUS
  <1> QED
    BY <1>1, Zenon DEF FromU16

LEMMA BuffParsed ==
  ASSUME NEW s \in Seq(Byte), NEW b \in Byte
  PROVE  Reads(BuffParse(s), BuffParse(Append(s, b)), Seq(Byte), 2, s, b)
  <1>1. CASE Len(s) >= 2 /\ Len(s) >= 2 + FromU16(s)
    <2>1. PICK n \in Nat : n = FromU16(s)
      BY <1>1, U16Read
    <2>2. 2 + n \in 0..Len(s)
      BY <1>1, <2>1
    <2> DEFINE out == SubSeq(s, 3, 2 + n)
               rest == Drop(s, 2 + n)
               t == Append(s, b)
    <2>3. BuffParse(s) = Ok(out, rest)
      BY <1>1, <2>1, Zenon DEF BuffParse, When
    <2>4. t \in Seq(Byte) /\ Len(t) = Len(s) + 1 /\ FromU16(t) = n
      BY <1>1, <2>1, U16Behind
    <2>5. Len(t) >= 2 /\ Len(t) >= 2 + FromU16(t)
      BY <1>1, <2>1, <2>4
    <2>6. BuffParse(t) = Ok(SubSeq(t, 3, 2 + n), Drop(t, 2 + n))
      BY <2>4, <2>5, Zenon DEF BuffParse, When
    <2>7. SubSeq(t, 3, 2 + n) = out
      BY <2>2
    <2>8. Drop(t, 2 + n) = Append(rest, b)
      BY <2>2, DropBehind
    <2>9. rest \in Seq(Byte) /\ Len(rest) + 2 <= Len(s)
      BY <2>2, DropIs
    <2>10. out \in Seq(Byte)
      BY <2>2
    <2>11. BuffParse(Append(s, b)) = Ok(out, Append(rest, b))
      BY <2>6, <2>7, <2>8, Zenon
    <2> HIDE DEF out, rest, t
    <2> QED
      BY <2>3, <2>9, <2>10, <2>11, Zenon DEF Reads
  <1>2. CASE ~(Len(s) >= 2 /\ Len(s) >= 2 + FromU16(s))
    BY <1>2, Zenon DEF BuffParse, When, Reads
  <1> QED
    BY <1>1, <1>2

\* The strings MqttStr::parse lets through.
GoodTexts == {cs \in Seq(Chars) : CharsValid(cs)}

LEMMA StrParsed ==
  ASSUME NEW s \in Seq(Byte), NEW b \in Byte
  PROVE  Reads(StrParse(s), StrParse(Append(s, b)), GoodTexts, 2, s, b)
  <1>1. CASE BuffParse(s) = Err
    BY <1>1, ErrIs, Zenon DEF StrParse, Then, Reads
  <1>2. CASE \E out \in Seq(Byte), rest \in Seq(Byte) :
                /\ BuffParse(s) = Ok(out, rest) /\ Len(rest) + 2 <= Len(s)
                /\ BuffParse(Append(s, b)) = Ok(out, Append(rest, b))
    <2>1. PICK out \in Seq(Byte), rest \in Seq(Byte) :
                /\ BuffParse(s) = Ok(out, rest) /\ Len(rest) + 2 <= Len(s)
                /\ BuffParse(Append(s, b)) = Ok(out, Append(rest, b))
      BY <1>2
    <2> DEFINE c == Utf8Chars(out)
    <2>2. /\ StrParse(s) = IF c.ok /\ CharsValid(c.out) THEN Ok(c.out, rest) ELSE Err
          /\ StrParse(Append(s, b))
                = IF c.ok /\ CharsValid(c.out) THEN Ok(c.out, Append(rest, b)) ELSE Err
      BY <2>1 DEF StrParse, Then, When, Ok
    <2>3. c.ok => c.out \in Seq(Chars)
      BY Utf8CharsTyped, ListIs, Zenon
    <2> QED
      BY <2>1, <2>2, <2>3, Zenon DEF Reads, GoodTexts
  <1> QED
    BY <1>1, <1>2, BuffParsed, Zenon DEF Reads

LEMMA SameOk ==
  ASSUME NEW v, NEW rest
  PROVE  /\ Ok(v, rest) # Err
         /\ \A u, r : Ok(v, rest) = Ok(u, r) => v = u /\ rest = r
  BY DEF Ok, Err

IsResult(r, v, rest) == r.ok /\ r.out = v /\ r.rest = rest

LEMMA IsOk == ASSUME NEW v, NEW rest PROVE IsResult(Ok(v, rest), v, rest)
  BY OkIs DEF IsResult

LEMMA GoodIsLegal == ASSUME NEW cs \in GoodTexts PROVE LegalText(cs)
  <1>1. \A c \in Chars : IsValidChar(c) => c > 31 /\ ~NonCharacter(c)
    <2> SUFFICES ASSUME NEW c \in Nat, c < 1114112, IsValidChar(c)
                 PROVE  c > 31 /\ ~NonCharacter(c)
      BY SMT DEF Chars, IsChar
    <2>1. c > 31 /\ c \notin 64976..65007 /\ c # 65534 /\ c # 65535
      BY SMT DEF IsValidChar
    <2>2. ASSUME c % 65536 \in {65534, 65535} PROVE FALSE
      <3>1. PICK q \in Nat, r \in {65534, 65535} : q = c \div 65536 /\ c = 65536 * q + r
        BY <2>2, SMT
      <3>2. q \in 1..16
        BY <2>1, <3>1, SMT
      <3>3. c % 256 = r % 256 /\ r % 256 \in {254, 255}
        BY <3>1, SMT
      <3> QED
        BY <3>1, <3>2, <3>3, SMT DEF IsValidChar, IsLastTwoSupplementary
    <2> QED
      BY <2>1, <2>2, SMT DEF NonCharacter
  <1>2. \A i \in 1..Len(cs) : cs[i] \in Chars /\ IsValidChar(cs[i])
    BY DEF GoodTexts, CharsValid
  <1> QED
    BY <1>1, <1>2, Zenon DEF LegalText

LEMMA CountBehind ==
  ASSUME NEW s \in Seq(Byte), NEW b \in Byte, NEW n \in 0..3, n = CountContinueFlags(s), n < Len(s)
  PROVE  CountContinueFlags(Append(s, b)) = n
  <1>1. (\A i \in 1..n : Continues(s, i)) /\ ~Continues(s, n + 1)
    BY CountContinueFlagsDefined DEF MAX_BYTES
  <1> SUFFICES ASSUME NEW t, t = Append(s, b) PROVE CountContinueFlags(t) = n
    BY Zenon
  <1>2. t \in Seq(Byte) /\ Len(t) = Len(s) + 1 /\ \A i \in 1..Len(s) : t[i] = s[i]
    BY Behind
  <1>3. \A i \in 1..n : Continues(t, i)
    BY <1>1, <1>2 DEF Continues
  <1>4. ~Continues(t, n + 1)
    BY <1>1, <1>2 DEF Continues
  <1> QED
    BY <1>2, <1>3, <1>4, CountIs

LEMMA LengthParsed ==
  ASSUME NEW s \in Seq(Byte), NEW b \in Byte
  PROVE  Reads(LengthParse(s), LengthParse(Append(s, b)), Nat, 1, s, b)
  <1> DEFINE n == CountContinueFlags(s)
  <1>1. CASE n < MAX_BYTES /\ n < Len(s)
    <2>1. n \in 0..3
      BY <1>1, CountContinueFlagsDefined DEF MAX_BYTES
    <2> HIDE DEF n
    <2>2. n + 1 \in 0..Len(s)
      BY <1>1, <2>1
    <2> SUFFICES ASSUME NEW t, t = Append(s, b)
                 PROVE  Reads(LengthParse(s), LengthParse(t), Nat, 1, s, b)
      BY Zenon
    <2>3. t \in Seq(Byte) /\ Len(t) = Len(s) + 1
      BY Behind
    <2>4. CountContinueFlags(t) = n
      BY <1>1, <2>1, CountBehind DEF n
    <2>5. Take(t, n + 1) = Take(s, n + 1) /\ Drop(t, n + 1) = Append(Drop(s, n + 1), b)
      BY <2>2, TakeBehind, DropBehind
    <2>6. Drop(s, n + 1) \in Seq(Byte) /\ Len(Drop(s, n + 1)) + 1 <= Len(s)
      BY <2>1, <2>2, DropIs
    <2>7. ReadFromBuf(Take(s, n + 1)) \in Nat
      BY <2>2, TakeIs, ReadFromBufBound
    <2>8. LengthParse(s) = Ok(ReadFromBuf(Take(s, n + 1)), Drop(s, n + 1))
      BY <1>1, Zenon DEF LengthParse, When, n
    <2>9. n < Len(t)
      BY <1>1, <2>1, <2>3
    <2>10. LengthParse(t) = Ok(ReadFromBuf(Take(s, n + 1)), Append(Drop(s, n + 1), b))
      BY <1>1, <2>4, <2>5, <2>9, Zenon DEF LengthParse, When
    <2> QED
      BY <2>6, <2>7, <2>8, <2>10, Zenon DEF Reads
  <1>2. CASE ~(n < MAX_BYTES /\ n < Len(s))
    BY <1>2, Zenon DEF LengthParse, When, Reads
  <1> QED
    BY <1>1, <1>2

\* What is behind the type byte, in the reader and in the parsers.
LEMMA AfterTypeIsDrop ==
  ASSUME NEW s \in Seq(Byte), Len(s) > 0
  PROVE  AfterType(s) = Drop(s, 1)
  <1>1. AfterType(s) \in Seq(Byte) /\ Len(AfterType(s)) = Len(s) - 1
        /\ \A i \in 1..(Len(s) - 1) : AfterType(s)[i] = s[i + 1]
    BY AfterTypeIsSlice DEF AfterType
  <1>2. 1 \in 0..Len(s)
    OBVIOUS
  <1>3. IsDrop(Drop(s, 1), s, 1)
    BY <1>2, DropIsDrop, Zenon
  <1>4. Drop(s, 1) \in Seq(Byte) /\ Len(Drop(s, 1)) = Len(s) - 1
        /\ \A i \in 1..(Len(s) - 1) : Drop(s, 1)[i] = s[1 + i]
    BY <1>3, Zenon DEF IsDrop
  <1>5. \A i \in 1..(Len(s) - 1) : s[1 + i] = s[i + 1]
    OBVIOUS
  <1> QED
    BY <1>1, <1>4, <1>5, SeqEqual, Zenon

\* next_frame finds the length that the parser of the header reads.
LEMMA FrameOfLength ==
  ASSUME NEW s \in Seq(Byte), Len(s) > 0, NEW v, NEW rest, LengthParse(Drop(s, 1)) = Ok(v, rest)
  PROVE  NextFrameSome(s) /\ FrameLen(s) = Len(s) - Len(rest) + v
  <1> SUFFICES ASSUME NEW d, d = Drop(s, 1)
               PROVE  NextFrameSome(s) /\ FrameLen(s) = Len(s) - Len(rest) + v
    OBVIOUS
  <1>0. LengthParse(d) = Ok(v, rest)
    BY Zenon
  <1>1. d \in Seq(Byte) /\ Len(d) = Len(s) - 1 /\ AfterType(s) = d
    BY AfterTypeIsDrop, AfterTypeIsSlice
  <1>2. PICK n : n = CountContinueFlags(d)
    OBVIOUS
  <1>3. n < MAX_BYTES /\ n < Len(d)
    BY <1>0, <1>2, SameOk, Zenon DEF LengthParse, When
  <1>4. v = ReadFromBuf(Take(d, n + 1)) /\ rest = Drop(d, n + 1)
    <2>1. LengthParse(d) = Ok(ReadFromBuf(Take(d, n + 1)), Drop(d, n + 1))
      BY <1>2, <1>3, Zenon DEF LengthParse, When
    <2> QED
      BY <1>0, <2>1 DEF Ok
  <1>5. n \in 0..3
    BY <1>1, <1>2, <1>3, CountContinueFlagsDefined DEF MAX_BYTES
  <1>6. RemBytes(s) = n + 1
    BY <1>1, <1>2, <1>5 DEF RemBytes
  <1>7. n + 1 \in 0..Len(d)
    BY <1>1, <1>3, <1>5
  <1>8. LengthBytes(s) = Take(d, n + 1)
    <2>1. Take(d, n + 1) \in Seq(Byte) /\ Len(Take(d, n + 1)) = n + 1
          /\ \A i \in 1..(n + 1) : Take(d, n + 1)[i] = d[i]
      BY <1>1, <1>7, TakeIs
    <2>2. \A i \in 1..(n + 1) : d[i] = s[i + 1]
      BY <1>1, <1>3, <1>5 DEF AfterType
    <2>3. LengthBytes(s) = [i \in 1..(n + 1) |-> s[i + 1]]
      BY <1>6, Zenon DEF LengthBytes
    <2>4. \A i \in 1..(n + 1) : s[i + 1] \in Byte
      BY <1>1, <1>7
    <2>5. LengthBytes(s) \in Seq(Byte) /\ Len(LengthBytes(s)) = n + 1
          /\ \A i \in 1..(n + 1) : LengthBytes(s)[i] = s[i + 1]
      BY <1>5, <2>3, <2>4
    <2> QED
      BY <2>1, <2>2, <2>5, SeqEqual
  <1>9. Len(rest) = Len(d) - (n + 1)
    BY <1>1, <1>4, <1>7, DropIs
  <1>10. NextFrameSome(s)
    BY <1>1, <1>2, <1>3, <1>5, <1>6 DEF NextFrameSome, NextFrameErr, MAX_BYTES
  <1>11. FrameLen(s) = 1 + (n + 1) + v
    BY <1>4, <1>6, <1>8, Zenon DEF FrameLen
  <1>12. v \in Nat /\ Len(rest) \in Nat
    BY <1>1, <1>4, <1>7, TakeIs, DropIs, ReadFromBufBound
  <1> QED
    BY <1>1, <1>5, <1>9, <1>10, <1>11, <1>12

Headers == [flags : 0..15, length : Nat]

LEMMA HeaderParsed ==
  ASSUME NEW s \in Seq(Byte), NEW b \in Byte
  PROVE  /\ Reads(HeaderParse(s), HeaderParse(Append(s, b)), Headers, 2, s, b)
         /\ \A h, rest : HeaderParse(s) = Ok(h, rest) =>
                NextFrameSome(s) /\ FrameLen(s) = Len(s) - Len(rest) + h.length
  <1>1. CASE ~(Len(s) > 0 /\ ParseType(s[1]))
    <2>1. HeaderParse(s) = Err
      BY <1>1, Zenon DEF HeaderParse, When
    <2> QED
      BY <2>1, SameOk, Zenon DEF Reads
  <1>2. CASE Len(s) > 0 /\ ParseType(s[1])
    <2> SUFFICES ASSUME NEW t, t = Append(s, b)
                 PROVE  /\ Reads(HeaderParse(s), HeaderParse(t), Headers, 2, s, b)
                        /\ \A h, rest : HeaderParse(s) = Ok(h, rest) =>
                            NextFrameSome(s) /\ FrameLen(s) = Len(s) - Len(rest) + h.length
      BY Zenon
    <2>1. t \in Seq(Byte) /\ Len(t) > 0 /\ t[1] = s[1] /\ 1 \in 0..Len(s) /\ s[1] \in Byte
      BY <1>2
    <2> DEFINE d == Drop(s, 1)
               f == FlagsOf(s[1])
    <2>2. d \in Seq(Byte) /\ Len(d) = Len(s) - 1 /\ Drop(t, 1) = Append(d, b)
      BY <2>1, DropIs, DropBehind
    <2>3. Reads(LengthParse(d), LengthParse(Append(d, b)), Nat, 1, d, b)
      BY <2>2, LengthParsed, Zenon
    <2>4. f \in 0..15
      <3>1. \A x \in Byte : x % 16 \in 0..15
        BY DEF Byte
      <3> QED
        BY <2>1, <3>1, Zenon DEF FlagsOf
    <2> DEFINE Header(r) == IF r.ok THEN Ok([flags |-> f, length |-> r.out], r.rest) ELSE Err
    <2>5. HeaderParse(s) = Header(LengthParse(d))
      BY <1>2, Zenon DEF HeaderParse, When, Then
    <2>6. HeaderParse(t) = Header(LengthParse(Append(d, b)))
      BY <1>2, <2>1, <2>2, Zenon DEF HeaderParse, When, Then
    <2>7. CASE LengthParse(d) = Err
      <3>1. HeaderParse(s) = Err
        BY <2>5, <2>7, ErrIs, Zenon
      <3> QED
        BY <3>1, SameOk, Zenon DEF Reads
    <2>8. CASE \E v \in Nat, rest \in Seq(Byte) :
                /\ LengthParse(d) = Ok(v, rest) /\ Len(rest) + 1 <= Len(d)
                /\ LengthParse(Append(d, b)) = Ok(v, Append(rest, b))
      <3>1. PICK v \in Nat, rest \in Seq(Byte) :
                /\ LengthParse(d) = Ok(v, rest) /\ Len(rest) + 1 <= Len(d)
                /\ LengthParse(Append(d, b)) = Ok(v, Append(rest, b))
        BY <2>8
      <3>2. NextFrameSome(s) /\ FrameLen(s) = Len(s) - Len(rest) + v
        BY <1>2, <3>1, FrameOfLength
      <3> HIDE DEF d, f
      <3>3. PICK h \in Headers : h = [flags |-> f, length |-> v]
        BY <2>4 DEF Headers
      <3>4. HeaderParse(s) = Ok(h, rest)
        <4>1. IsResult(LengthParse(d), v, rest)
          BY <3>1, IsOk, Zenon
        <4> QED
          BY <2>5, <3>3, <4>1, Zenon DEF IsResult
      <3>5. HeaderParse(t) = Ok(h, Append(rest, b))
        <4>1. IsResult(LengthParse(Append(d, b)), v, Append(rest, b))
          BY <3>1, IsOk, Zenon
        <4> QED
          BY <2>6, <3>3, <4>1, Zenon DEF IsResult
      <3>6. Len(rest) + 2 <= Len(s)
        BY <2>2, <3>1
      <3>7. h.length = v
        BY <3>3
      <3> QED
        BY <3>2, <3>4, <3>5, <3>6, <3>7, SameOk, Zenon DEF Reads
    <2> QED
      BY <2>3, <2>7, <2>8, Zenon DEF Reads
  <1> QED
    BY <1>1, <1>2

\* r is what a parser makes of its input, and q with b behind it: the same.
Got(r, q, out, rest, b) == IsResult(r, out, rest) /\ IsResult(q, out, Append(rest, b))

\* The same as Reads, without a word about how much is read.
Keeps(r, q, S, b) ==
    \/ r = Err
    \/ \E out \in S, rest \in Seq(Byte) : r = Ok(out, rest) /\ q = Ok(out, Append(rest, b))

LEMMA ReadsGot ==
  ASSUME NEW r, NEW q, NEW S, NEW k, NEW s, NEW b, Reads(r, q, S, k, s, b)
  PROVE  \/ ~r.ok
         \/ \E out \in S, rest \in Seq(Byte) : Len(rest) + k <= Len(s) /\ Got(r, q, out, rest, b)
  BY ErrIs, IsOk, Zenon DEF Reads, Got

LEMMA LengthArrayParsed ==
  ASSUME NEW s \in Seq(Byte), NEW b \in Byte
  PROVE  Reads(LengthArrayParse(s), LengthArrayParse(Append(s, b)), Byte, 1, s, b)
  <1>1. CASE Len(s) >= 1 /\ ~HasContinueFlag(s[1])
    <2> SUFFICES ASSUME NEW t, t = Append(s, b)
                 PROVE  Reads(LengthArrayParse(s), LengthArrayParse(t), Byte, 1, s, b)
      BY Zenon
    <2>1. Len(t) >= 1 /\ t[1] = s[1] /\ 1 \in 0..Len(s) /\ s[1] \in Byte
      BY <1>1
    <2>2. Drop(t, 1) = Append(Drop(s, 1), b)
      BY <2>1, DropBehind
    <2>3. Drop(s, 1) \in Seq(Byte) /\ Len(Drop(s, 1)) + 1 <= Len(s)
      BY <2>1, DropIs
    <2>4. LengthArrayParse(s) = Ok(s[1], Drop(s, 1))
      BY <1>1, Zenon DEF LengthArrayParse, When
    <2>5. LengthArrayParse(t) = Ok(s[1], Append(Drop(s, 1), b))
      BY <1>1, <2>1, <2>2, Zenon DEF LengthArrayParse, When
    <2> QED
      BY <2>1, <2>3, <2>4, <2>5, Zenon DEF Reads
  <1>2. CASE ~(Len(s) >= 1 /\ ~HasContinueFlag(s[1]))
    BY <1>2, Zenon DEF LengthArrayParse, When, Reads
  <1> QED
    BY <1>1, <1>2

LEMMA HeaderArrayParsed ==
  ASSUME NEW s \in Seq(Byte), NEW b \in Byte
  PROVE  Reads(HeaderArrayParse(s), HeaderArrayParse(Append(s, b)), Byte, 2, s, b)
  <1>1. CASE Len(s) > 0 /\ ParseType(s[1])
    <2> SUFFICES ASSUME NEW t, t = Append(s, b)
                 PROVE  Reads(HeaderArrayParse(s), HeaderArrayParse(t), Byte, 2, s, b)
      BY Zenon
    <2>1. Len(t) > 0 /\ t[1] = s[1] /\ 1 \in 0..Len(s)
      BY <1>1
    <2>2. PICK d \in Seq(Byte) : d = Drop(s, 1) /\ Len(d) = Len(s) - 1
      BY <2>1, DropIs
    <2>3. Drop(t, 1) = Append(d, b)
      BY <2>1, <2>2, DropBehind
    <2>4. HeaderArrayParse(s) = LengthArrayParse(d)
      BY <1>1, <2>2, Zenon DEF HeaderArrayParse, When
    <2>5. HeaderArrayParse(t) = LengthArrayParse(Append(d, b))
      BY <1>1, <2>1, <2>3, Zenon DEF HeaderArrayParse, When
    <2>6. Reads(HeaderArrayParse(s), HeaderArrayParse(t), Byte, 1, d, b)
      BY <2>4, <2>5, LengthArrayParsed, Zenon
    <2>7. \A rest \in Seq(Byte) : Len(rest) + 1 <= Len(d) => Len(rest) + 2 <= Len(s)
      BY <2>2
    <2> QED
      BY <2>6, <2>7, Zenon DEF Reads
  <1>2. CASE ~(Len(s) > 0 /\ ParseType(s[1]))
    BY <1>2, Zenon DEF HeaderArrayParse, When, Reads
  <1> QED
    BY <1>1, <1>2

LEMMA NotZero == ASSUME NEW n \in Nat, n <= MaxU16, n # 0 PROVE n \in PacketId
  <1>1. PICK m \in Nat : m = MaxU16
    BY SMT DEF MaxU16
  <1>2. n \in 1..m
    BY <1>1, SMT
  <1> QED
    BY <1>1, <1>2, Zenon DEF PacketId

LEMMA PacketIdParsed ==
  ASSUME NEW s \in Seq(Byte), NEW b \in Byte
  PROVE  Reads(PacketIdParse(s), PacketIdParse(Append(s, b)), PacketId, 2, s, b)
  <1>1. CASE Len(s) >= 2 /\ FromU16(s) # 0
    <2> SUFFICES ASSUME NEW t, t = Append(s, b)
                 PROVE  Reads(PacketIdParse(s), PacketIdParse(t), PacketId, 2, s, b)
      BY Zenon
    <2>1. Len(t) >= 2 /\ FromU16(t) = FromU16(s) /\ 2 \in 0..Len(s)
      BY <1>1, U16Behind
    <2>2. Drop(t, 2) = Append(Drop(s, 2), b)
      BY <2>1, DropBehind
    <2>3. Drop(s, 2) \in Seq(Byte) /\ Len(Drop(s, 2)) + 2 <= Len(s)
      BY <2>1, DropIs
    <2>4. FromU16(s) \in PacketId
      BY <1>1, U16Read, NotZero
    <2>5. PacketIdParse(s) = Ok(FromU16(s), Drop(s, 2))
      BY <1>1, Zenon DEF PacketIdParse, When
    <2>6. PacketIdParse(t) = Ok(FromU16(s), Append(Drop(s, 2), b))
      BY <1>1, <2>1, <2>2, Zenon DEF PacketIdParse, When
    <2> QED
      BY <2>3, <2>4, <2>5, <2>6, Zenon DEF Reads
  <1>2. CASE ~(Len(s) >= 2 /\ FromU16(s) # 0)
    BY <1>2, Zenon DEF PacketIdParse, When, Reads
  <1> QED
    BY <1>1, <1>2

\* What a parser makes of s is in S, and leaves less than s.
Takes(r, S, s) == r.ok => r.out \in S /\ r.rest \in Seq(Byte) /\ Len(r.rest) < Len(s)

LEMMA ReadsTakes ==
  ASSUME NEW r, NEW q, NEW S, NEW s \in Seq(Byte), NEW b, Reads(r, q, S, 2, s, b)
  PROVE  Takes(r, S, s)
  <1>1. \A rest \in Seq(Byte) : Len(rest) + 2 <= Len(s) => Len(rest) < Len(s)
    OBVIOUS
  <1>2. \/ ~r.ok
        \/ \E out \in S, rest \in Seq(Byte) : Len(rest) + 2 <= Len(s) /\ Got(r, q, out, rest, b)
    BY ReadsGot, Zenon
  <1>3. ASSUME NEW out \in S, NEW rest \in Seq(Byte), Len(rest) + 2 <= Len(s), Got(r, q, out, rest, b)
        PROVE  Takes(r, S, s)
    <2>1. Len(rest) < Len(s)
      BY <1>1, <1>3, Zenon
    <2> QED
      BY <1>3, <2>1, Zenon DEF Takes, Got, IsResult
  <1> QED
    BY <1>2, <1>3, Zenon DEF Takes

LEMMA StrTakes == ASSUME NEW s \in Seq(Byte) PROVE Takes(StrParse(s), GoodTexts, s)
  <1>1. PICK b \in Byte : b = 0
    BY DEF Byte
  <1> QED
    BY StrParsed, ReadsTakes, Zenon

LEMMA PacketIdTakes == ASSUME NEW s \in Seq(Byte) PROVE Takes(PacketIdParse(s), PacketId, s)
  <1>1. PICK b \in Byte : b = 0
    BY DEF Byte
  <1> QED
    BY PacketIdParsed, ReadsTakes, Zenon

----------------------------------------------------------------------------
(* The packets without a body that is split off.                           *)

LEMMA AckParsed ==
  ASSUME NEW type \in Acks, NEW s \in Seq(Byte), NEW b \in Byte
  PROVE  Keeps(AckParse(type, s), AckParse(type, Append(s, b)), PacketIdOnly, b)
  <1> SUFFICES ASSUME NEW t, t = Append(s, b)
               PROVE Keeps(AckParse(type, s), AckParse(type, t), PacketIdOnly, b)
    BY Zenon
  <1>1. \/ ~HeaderArrayParse(s).ok
        \/ \E x \in Byte, d \in Seq(Byte) : Got(HeaderArrayParse(s), HeaderArrayParse(t), x, d, b)
    BY HeaderArrayParsed, ReadsGot, Zenon
  <1>2. CASE ~HeaderArrayParse(s).ok
    BY <1>2, Zenon DEF AckParse, Then, Keeps
  <1>3. ASSUME NEW x, NEW d \in Seq(Byte), Got(HeaderArrayParse(s), HeaderArrayParse(t), x, d, b)
        PROVE  Keeps(AckParse(type, s), AckParse(type, t), PacketIdOnly, b)
    <2> SUFFICES ASSUME NEW e, e = Append(d, b)
                 PROVE  Keeps(AckParse(type, s), AckParse(type, t), PacketIdOnly, b)
      BY Zenon
    <2> DEFINE Id(r) == IF r.ok THEN Ok([type |-> type, pkid |-> r.out], r.rest) ELSE Err
    <2>1. /\ AckParse(type, s) = Id(PacketIdParse(d))
          /\ AckParse(type, t) = Id(PacketIdParse(e))
      BY <1>3, Zenon DEF AckParse, Then, Got, IsResult
    <2>2. \/ ~PacketIdParse(d).ok
          \/ \E id \in PacketId, rest \in Seq(Byte) : Got(PacketIdParse(d), PacketIdParse(e), id, rest, b)
      BY PacketIdParsed, ReadsGot, Zenon
    <2>3. CASE ~PacketIdParse(d).ok
      BY <2>1, <2>3, Zenon DEF Keeps
    <2>4. ASSUME NEW id \in PacketId, NEW rest \in Seq(Byte),
                 Got(PacketIdParse(d), PacketIdParse(e), id, rest, b)
          PROVE  Keeps(AckParse(type, s), AckParse(type, t), PacketIdOnly, b)
      <3>1. PICK p \in PacketIdOnly : p = [type |-> type, pkid |-> id]
        BY DEF PacketIdOnly
      <3>2. AckParse(type, s) = Ok(p, rest) /\ AckParse(type, t) = Ok(p, Append(rest, b))
        BY <2>1, <2>4, <3>1, Zenon DEF Got, IsResult
      <3> QED
        BY <3>2, Zenon DEF Keeps
    <2> QED
      BY <2>2, <2>3, <2>4
  <1> QED
    BY <1>1, <1>2, <1>3

ReadEmpty == [type : {PINGREQ, PINGRESP, DISCONNECT}]

LEMMA EmptyParsed ==
  ASSUME NEW type \in {PINGREQ, PINGRESP, DISCONNECT}, NEW s \in Seq(Byte), NEW b \in Byte
  PROVE  Keeps(EmptyParse(type, s), EmptyParse(type, Append(s, b)), ReadEmpty, b)
  <1> SUFFICES ASSUME NEW t, t = Append(s, b)
               PROVE  Keeps(EmptyParse(type, s), EmptyParse(type, t), ReadEmpty, b)
    BY Zenon
  <1>1. \/ ~HeaderArrayParse(s).ok
        \/ \E x \in Byte, d \in Seq(Byte) : Got(HeaderArrayParse(s), HeaderArrayParse(t), x, d, b)
    BY HeaderArrayParsed, ReadsGot, Zenon
  <1>2. CASE ~HeaderArrayParse(s).ok
    BY <1>2, Zenon DEF EmptyParse, Then, Keeps
  <1>3. ASSUME NEW x, NEW d \in Seq(Byte), Got(HeaderArrayParse(s), HeaderArrayParse(t), x, d, b)
        PROVE  Keeps(EmptyParse(type, s), EmptyParse(type, t), ReadEmpty, b)
    <2>1. PICK p \in ReadEmpty : p = [type |-> type]
      BY DEF ReadEmpty
    <2>2. EmptyParse(type, s) = Ok(p, d) /\ EmptyParse(type, t) = Ok(p, Append(d, b))
      BY <1>3, <2>1, Zenon DEF EmptyParse, Then, Got, IsResult
    <2> QED
      BY <2>2, Zenon DEF Keeps
  <1> QED
    BY <1>1, <1>2, <1>3

LEMMA ConnAckParsed ==
  ASSUME NEW s \in Seq(Byte), NEW b \in Byte
  PROVE  Keeps(ConnAckParse(s), ConnAckParse(Append(s, b)), ConnAck, b)
  <1> SUFFICES ASSUME NEW t, t = Append(s, b)
               PROVE  Keeps(ConnAckParse(s), ConnAckParse(t), ConnAck, b)
    BY Zenon
  <1>1. \/ ~HeaderArrayParse(s).ok
        \/ \E x \in Byte, d \in Seq(Byte) : Got(HeaderArrayParse(s), HeaderArrayParse(t), x, d, b)
    BY HeaderArrayParsed, ReadsGot, Zenon
  <1>2. CASE ~HeaderArrayParse(s).ok
    BY <1>2, Zenon DEF ConnAckParse, Then, Keeps
  <1>3. ASSUME NEW x, NEW d \in Seq(Byte), Got(HeaderArrayParse(s), HeaderArrayParse(t), x, d, b)
        PROVE  Keeps(ConnAckParse(s), ConnAckParse(t), ConnAck, b)
    <2> SUFFICES ASSUME NEW e, e = Append(d, b)
                 PROVE  Keeps(ConnAckParse(s), ConnAckParse(t), ConnAck, b)
      BY Zenon
    <2> DEFINE Ack(c) == When(Len(c) >= 2 /\ c[2] \in ReturnCodes,
                    Ok([type |-> CONNACK, session |-> c[1] % 2, code |-> c[2]], Drop(c, 2)))
    <2>1. ConnAckParse(s) = Ack(d) /\ ConnAckParse(t) = Ack(e)
      BY <1>3, Zenon DEF ConnAckParse, Then, Got, IsResult
    <2>2. CASE Len(d) >= 2 /\ d[2] \in ReturnCodes
      <3>1. 2 \in 0..Len(d) /\ d[1] \in Byte /\ Len(e) >= 2 /\ e[1] = d[1] /\ e[2] = d[2]
        BY <2>2
      <3>2. Drop(d, 2) \in Seq(Byte) /\ Drop(e, 2) = Append(Drop(d, 2), b)
        BY <3>1, DropIs, DropBehind
      <3>3. d[1] % 2 \in 0..1
        <4>1. \A y \in Byte : y % 2 \in 0..1
          BY DEF Byte
        <4> QED
          BY <3>1, <4>1
      <3>4. PICK p \in ConnAck : p = [type |-> CONNACK, session |-> d[1] % 2, code |-> d[2]]
        BY <2>2, <3>3 DEF ConnAck
      <3>5. ConnAckParse(s) = Ok(p, Drop(d, 2)) /\ ConnAckParse(t) = Ok(p, Append(Drop(d, 2), b))
        BY <2>1, <2>2, <3>1, <3>2, <3>4, Zenon DEF When
      <3> QED
        BY <3>2, <3>5, Zenon DEF Keeps
    <2>3. CASE ~(Len(d) >= 2 /\ d[2] \in ReturnCodes)
      BY <2>1, <2>3, Zenon DEF When, Keeps
    <2> QED
      BY <2>2, <2>3
  <1> QED
    BY <1>1, <1>2, <1>3

----------------------------------------------------------------------------
(* The packets that are split at the remaining length.                     *)

\* Keeps, of a parser that takes the frame next_frame finds.
KeepsFrame(r, q, S, s, b) ==
    \/ r = Err
    \/ \E out \in S, rest \in Seq(Byte) :
        /\ r = Ok(out, rest) /\ q = Ok(out, Append(rest, b))
        /\ NextFrameSome(s) /\ FrameLen(s) = Len(s) - Len(rest)

\* The header of s is h, and d and e what comes behind it without and with b.
Opens(s, b, h, d, e) ==
    /\ IsResult(HeaderParse(s), h, d) /\ IsResult(HeaderParse(Append(s, b)), h, e)
    /\ h \in Headers /\ d \in Seq(Byte) /\ e = Append(d, b)
    /\ NextFrameSome(s) /\ FrameLen(s) = Len(s) - Len(d) + h.length

LEMMA HeaderOpens ==
  ASSUME NEW s \in Seq(Byte), NEW b \in Byte
  PROVE  ~HeaderParse(s).ok \/ \E h, d, e : Opens(s, b, h, d, e)
  <1>1. CASE HeaderParse(s) = Err
    BY <1>1, ErrIs, Zenon
  <1>2. ASSUME NEW h \in Headers, NEW d \in Seq(Byte), HeaderParse(s) = Ok(h, d),
               HeaderParse(Append(s, b)) = Ok(h, Append(d, b))
        PROVE  Opens(s, b, h, d, Append(d, b))
    <2>1. NextFrameSome(s) /\ FrameLen(s) = Len(s) - Len(d) + h.length
      BY <1>2, HeaderParsed
    <2> QED
      BY <1>2, <2>1, IsOk, Zenon DEF Opens
  <1>3. Reads(HeaderParse(s), HeaderParse(Append(s, b)), Headers, 2, s, b)
    BY HeaderParsed
  <1> QED
    BY <1>1, <1>2, <1>3, Zenon DEF Reads

\* The body is split off: both inputs have the same one.
Splits(s, b, h, d, e, body, rest) ==
    /\ IsResult(SplitBody(h, d), body, rest) /\ IsResult(SplitBody(h, e), body, Append(rest, b))
    /\ body \in Seq(Byte) /\ rest \in Seq(Byte) /\ FrameLen(s) = Len(s) - Len(rest)

LEMMA OpensSplits ==
  ASSUME NEW s \in Seq(Byte), NEW b \in Byte, NEW h, NEW d, NEW e, Opens(s, b, h, d, e)
  PROVE  ~SplitBody(h, d).ok \/ \E body, rest : Splits(s, b, h, d, e, body, rest)
  <1>1. PICK n \in Nat : n = h.length
    BY DEF Opens, Headers
  <1>2. d \in Seq(Byte) /\ e = Append(d, b) /\ FrameLen(s) = Len(s) - Len(d) + n
    BY <1>1, Zenon DEF Opens
  <1>3. CASE n <= Len(d)
    <2>1. n \in 0..Len(d) /\ n <= Len(e)
      BY <1>2, <1>3
    <2>2. Take(e, n) = Take(d, n) /\ Drop(e, n) = Append(Drop(d, n), b)
      BY <1>2, <2>1, TakeBehind, DropBehind
    <2>3. Take(d, n) \in Seq(Byte)
      BY <1>2, <2>1, TakeIs
    <2>4. Drop(d, n) \in Seq(Byte) /\ Len(Drop(d, n)) = Len(d) - n
      BY <1>2, <2>1, DropIs
    <2>5. PICK rest \in Seq(Byte) : rest = Drop(d, n) /\ Len(rest) = Len(d) - n
      BY <2>4
    <2>6. FrameLen(s) = Len(s) - Len(rest)
      BY <1>2, <2>5
    <2>7. SplitBody(h, d) = Ok(Take(d, n), rest) /\ SplitBody(h, e) = Ok(Take(d, n), Append(rest, b))
      BY <1>1, <1>3, <2>1, <2>2, <2>5, Zenon DEF SplitBody, When
    <2>8. Splits(s, b, h, d, e, Take(d, n), rest)
      BY <2>3, <2>6, <2>7, IsOk, Zenon DEF Splits
    <2> QED
      BY <2>8, Zenon
  <1>4. CASE ~(n <= Len(d))
    BY <1>1, <1>4, ErrIs, Zenon DEF SplitBody, When
  <1> QED
    BY <1>3, <1>4

LEMMA FlagsInNames ==
  ASSUME NEW names, NEW x PROVE FlagsIn(names, x) \subseteq {names[i] : i \in 1..Len(names)}
  BY DEF FlagsIn

ReadPublish ==
    [type : {PUBLISH}, flags : SUBSET PublishFlags, pkid : Option(PacketId),
     topic : {t \in GoodTexts : ~ContainsWildcardChar(t)}, payload : Seq(Byte)]

\* What comes behind the topic of a PUBLISH.
PublishEnd(h, topic, r1, rest) ==
    LET flags == FlagsIn(PublishBits, h.flags) IN
    Then(OptionParse(flags \cap {"QOS_1", "QOS_2"} # {}, PacketIdParse(r1), r1), LAMBDA pkid, payload :
        When(~ContainsWildcardChar(topic),
             Ok([type |-> PUBLISH, flags |-> flags, pkid |-> pkid, topic |-> topic,
                 payload |-> payload], rest)))

LEMMA PublishEndRead ==
  ASSUME NEW h, NEW topic \in GoodTexts, NEW r1 \in Seq(Byte)
  PROVE  \/ \A rest : PublishEnd(h, topic, r1, rest) = Err
         \/ \E p \in ReadPublish : \A rest : PublishEnd(h, topic, r1, rest) = Ok(p, rest)
  <1> DEFINE flags == FlagsIn(PublishBits, h.flags)
             present == flags \cap {"QOS_1", "QOS_2"} # {}
             o == OptionParse(present, PacketIdParse(r1), r1)
  <1>1. ~o.ok \/ (o.ok /\ o.out \in Option(PacketId) /\ o.rest \in Seq(Byte))
    <2>1. CASE ~present
      <3>1. o = Ok(<< >>, r1)
        BY <2>1, Zenon DEF OptionParse
      <3>2. IsResult(o, << >>, r1)
        BY <3>1, IsOk, Zenon
      <3> QED
        BY <3>2, NoneIs, Zenon DEF IsResult
    <2>2. CASE present
      <3>1. PICK r : r = PacketIdParse(r1)
        OBVIOUS
      <3>2. o = IF r.ok THEN Ok(<<r.out>>, r.rest) ELSE Err
        BY <2>2, <3>1, Zenon DEF OptionParse, Then
      <3>3. ~r.ok \/ (r.ok /\ r.out \in PacketId /\ r.rest \in Seq(Byte))
        BY <3>1, PacketIdTakes, Zenon DEF Takes
      <3>4. CASE ~r.ok
        BY <3>2, <3>4, ErrIs, Zenon
      <3>5. CASE r.ok
        <4>1. IsResult(o, <<r.out>>, r.rest)
          BY <3>2, <3>5, IsOk, Zenon
        <4> QED
          BY <3>3, <3>5, <4>1, OneIs, Zenon DEF IsResult
      <3> QED
        BY <3>4, <3>5
    <2> QED
      BY <2>1, <2>2
  <1>2. flags \in SUBSET PublishFlags
    <2>1. Len(PublishBits) = 4
      BY DEF PublishBits
    <2> QED
      BY <2>1, FlagsInNames, Zenon DEF PublishFlags
  <1>3. \A rest : PublishEnd(h, topic, r1, rest)
                    = IF o.ok THEN When(~ContainsWildcardChar(topic),
                            Ok([type |-> PUBLISH, flags |-> flags, pkid |-> o.out, topic |-> topic,
                                payload |-> o.rest], rest))
                      ELSE Err
    BY Zenon DEF PublishEnd, Then
  <1> HIDE DEF flags, o
  <1>4. CASE o.ok /\ ~ContainsWildcardChar(topic)
    <2>1. PICK p \in ReadPublish : p = [type |-> PUBLISH, flags |-> flags, pkid |-> o.out,
                                        topic |-> topic, payload |-> o.rest]
      BY <1>1, <1>2, <1>4 DEF ReadPublish
    <2>2. \A rest : PublishEnd(h, topic, r1, rest) = Ok(p, rest)
      BY <1>3, <1>4, <2>1, Zenon DEF When
    <2> QED
      BY <2>2, Zenon
  <1>5. CASE ~(o.ok /\ ~ContainsWildcardChar(topic))
    BY <1>3, <1>5, Zenon DEF When
  <1> QED
    BY <1>4, <1>5

LEMMA PublishParsed ==
  ASSUME NEW s \in Seq(Byte), NEW b \in Byte
  PROVE  KeepsFrame(PublishParse(s), PublishParse(Append(s, b)), ReadPublish, s, b)
  <1> SUFFICES ASSUME NEW t, t = Append(s, b)
               PROVE  KeepsFrame(PublishParse(s), PublishParse(t), ReadPublish, s, b)
    BY Zenon
  <1>1. CASE ~HeaderParse(s).ok
    BY <1>1, Zenon DEF PublishParse, Then, KeepsFrame
  <1>2. ASSUME NEW h, NEW d, NEW e, Opens(s, b, h, d, e)
        PROVE  KeepsFrame(PublishParse(s), PublishParse(t), ReadPublish, s, b)
    <2>0. IsResult(HeaderParse(s), h, d) /\ IsResult(HeaderParse(t), h, e) /\ NextFrameSome(s)
      BY <1>2, Zenon DEF Opens
    <2> DEFINE P(r) == Then(r, LAMBDA body, rest :
                       Then(StrParse(body), LAMBDA topic, r1 : PublishEnd(h, topic, r1, rest)))
    <2>1. PublishParse(s) = P(SplitBody(h, d)) /\ PublishParse(t) = P(SplitBody(h, e))
      BY <2>0, Zenon DEF PublishParse, Then, IsResult, PublishEnd
    <2>2. CASE ~SplitBody(h, d).ok
      BY <2>1, <2>2, Zenon DEF Then, KeepsFrame
    <2>3. ASSUME NEW body, NEW rest, Splits(s, b, h, d, e, body, rest)
          PROVE  KeepsFrame(PublishParse(s), PublishParse(t), ReadPublish, s, b)
      <3>0. /\ IsResult(SplitBody(h, d), body, rest) /\ IsResult(SplitBody(h, e), body, Append(rest, b))
            /\ body \in Seq(Byte) /\ rest \in Seq(Byte) /\ FrameLen(s) = Len(s) - Len(rest)
        BY <2>3, Zenon DEF Splits
      <3>1. PICK r : r = StrParse(body)
        OBVIOUS
      <3>2. /\ PublishParse(s) = IF r.ok THEN PublishEnd(h, r.out, r.rest, rest) ELSE Err
            /\ PublishParse(t) = IF r.ok THEN PublishEnd(h, r.out, r.rest, Append(rest, b)) ELSE Err
        BY <2>1, <3>0, <3>1, Zenon DEF Then, IsResult
      <3>3. CASE ~r.ok
        BY <3>2, <3>3, Zenon DEF KeepsFrame
      <3>4. CASE r.ok
        <4>1. r.out \in GoodTexts /\ r.rest \in Seq(Byte)
          BY <3>0, <3>1, <3>4, StrTakes, Zenon DEF Takes
        <4>2. CASE \A x : PublishEnd(h, r.out, r.rest, x) = Err
          BY <3>2, <3>4, <4>2, Zenon DEF KeepsFrame
        <4>3. ASSUME NEW p \in ReadPublish, \A x : PublishEnd(h, r.out, r.rest, x) = Ok(p, x)
              PROVE  KeepsFrame(PublishParse(s), PublishParse(t), ReadPublish, s, b)
          <5>1. PublishParse(s) = Ok(p, rest) /\ PublishParse(t) = Ok(p, Append(rest, b))
            BY <3>2, <3>4, <4>3, Zenon
          <5> QED
            BY <2>0, <3>0, <5>1, Zenon DEF KeepsFrame
        <4> QED
          BY <4>1, <4>2, <4>3, PublishEndRead, Zenon
      <3> QED
        BY <3>3, <3>4
    <2> QED
      BY <1>2, <2>2, <2>3, OpensSplits, Zenon
  <1> QED
    BY <1>1, <1>2, HeaderOpens, Zenon

----------------------------------------------------------------------------
(* The cursors over the filters of SUBSCRIBE and UNSUBSCRIBE.              *)

ReadFilters == [topic : GoodTexts, qos : 0..2]

LEMMA FilterTakes == ASSUME NEW s \in Seq(Byte) PROVE Takes(FilterParse(s), ReadFilters, s)
  <1>1. PICK r : r = StrParse(s)
    OBVIOUS
  <1>2. r.ok => r.out \in GoodTexts /\ r.rest \in Seq(Byte) /\ Len(r.rest) < Len(s)
    BY <1>1, StrTakes, Zenon DEF Takes
  <1> DEFINE d == r.rest
  <1>3. CASE r.ok /\ Len(d) > 0 /\ d[1] \in 0..2
    <2>1. FilterParse(s) = Ok([topic |-> r.out, qos |-> d[1]], Drop(d, 1))
      BY <1>1, <1>3, Zenon DEF FilterParse, Then, When
    <2>2. [topic |-> r.out, qos |-> d[1]] \in ReadFilters
      BY <1>2, <1>3 DEF ReadFilters
    <2>3. 1 \in 0..Len(d) /\ d \in Seq(Byte)
      BY <1>2, <1>3
    <2>4. Drop(d, 1) \in Seq(Byte) /\ Len(Drop(d, 1)) = Len(d) - 1
      BY <2>3, DropIs
    <2>5. Len(Drop(d, 1)) < Len(s)
      BY <1>2, <1>3, <2>3, <2>4
    <2>6. IsResult(FilterParse(s), [topic |-> r.out, qos |-> d[1]], Drop(d, 1))
      BY <2>1, IsOk, Zenon
    <2> QED
      BY <2>2, <2>4, <2>5, <2>6, Zenon DEF Takes, IsResult
  <1>4. CASE ~(r.ok /\ Len(d) > 0 /\ d[1] \in 0..2)
    <2>1. FilterParse(s) = Err
      BY <1>1, <1>4, Zenon DEF FilterParse, Then, When
    <2> QED
      BY <2>1, ErrIs, Zenon DEF Takes
  <1> QED
    BY <1>3, <1>4

\* The filters of an UNSUBSCRIBE that is read.
ReadTopics == {t \in GoodTexts : HasValidWildcard(t)}

LEMMA FiltersRead ==
  ASSUME NEW b \in Seq(Byte), NEW k \in 0..Len(b), NEW r, r = FilterParse(Ending(b, k)), r.ok
  PROVE  r.out \in ReadFilters /\ r.rest \in Seq(Byte) /\ Len(r.rest) < k
  <1>1. Ending(b, k) \in Seq(Byte) /\ Len(Ending(b, k)) = k
    BY EndingIs
  <1> QED
    BY <1>1, FilterTakes, Zenon DEF Takes

LEMMA FiltersLength ==
  ASSUME NEW b \in Seq(Byte), NEW k \in 0..Len(b), NEW r, r = FilterParse(Ending(b, k)), r.ok
  PROVE  r.rest \in Seq(Byte) /\ Len(r.rest) < k
  BY FiltersRead

LEMMA TopicsLength ==
  ASSUME NEW b \in Seq(Byte), NEW k \in 0..Len(b), NEW r, r = StrParse(Ending(b, k)), r.ok
  PROVE  r.rest \in Seq(Byte) /\ Len(r.rest) < k
  <1>1. Ending(b, k) \in Seq(Byte) /\ Len(Ending(b, k)) = k
    BY EndingIs
  <1> QED
    BY <1>1, StrTakes, Zenon DEF Takes

LEMMA TopicsRead ==
  ASSUME NEW b \in Seq(Byte), NEW k \in 0..Len(b), NEW r, r = StrParse(Ending(b, k)), r.ok,
         HasValidWildcard(r.out)
  PROVE  r.out \in ReadTopics /\ r.rest \in Seq(Byte) /\ Len(r.rest) < k
  <1>1. Ending(b, k) \in Seq(Byte) /\ Len(Ending(b, k)) = k
    BY EndingIs
  <1> QED
    BY <1>1, StrTakes, Zenon DEF Takes, ReadTopics

\* One filter and those behind it.
FiltersStep(h, b, k) ==
    IF k = 0 THEN Ok(<< >>, << >>)
    ELSE Then(FilterParse(Ending(b, k)), LAMBDA f, r :
         Then(h[Len(r)], LAMBDA fs, rest : Ok(<<f>> \o fs, rest)))

LEMMA FiltersStepTyped ==
  ASSUME NEW b \in Seq(Byte), NEW k \in 0..Len(b), NEW h, \A j \in 0..(k - 1) : h[j] \in Lists(ReadFilters)
  PROVE  FiltersStep(h, b, k) \in Lists(ReadFilters)
  <1>1. CASE k = 0
    <2>1. << >> \in Seq(ReadFilters)
      OBVIOUS
    <2>2. FiltersStep(h, b, k) = Ok(<< >>, << >>)
      BY <1>1, Zenon DEF FiltersStep
    <2> QED
      BY <2>1, <2>2, Zenon DEF Lists
  <1>2. CASE k # 0
    <2>1. PICK r : r = FilterParse(Ending(b, k))
      OBVIOUS
    <2>2. FiltersStep(h, b, k) = IF r.ok /\ h[Len(r.rest)].ok
                            THEN Ok(<<r.out>> \o h[Len(r.rest)].out, h[Len(r.rest)].rest) ELSE Err
      BY <1>2, <2>1, Zenon DEF FiltersStep, Then, When
    <2>3. ASSUME r.ok, h[Len(r.rest)].ok
          PROVE  Ok(<<r.out>> \o h[Len(r.rest)].out, h[Len(r.rest)].rest) \in Lists(ReadFilters)
      <3>1. r.out \in ReadFilters /\ r.rest \in Seq(Byte) /\ Len(r.rest) < k
        BY <2>1, <2>3, FiltersRead
      <3>2. Len(r.rest) \in 0..(k - 1)
        BY <3>1
      <3>3. h[Len(r.rest)] \in Lists(ReadFilters)
        BY <3>2, Zenon
      <3>4. h[Len(r.rest)].out \in Seq(ReadFilters) /\ h[Len(r.rest)].rest = << >>
        BY <2>3, <3>3, ListIs, Zenon
      <3> QED
        BY <3>1, <3>4, Longer, Zenon
    <2> QED
      BY <2>2, <2>3, Zenon DEF Lists
  <1> QED
    BY <1>1, <1>2

LEMMA FiltersStepLocal ==
  ASSUME NEW b \in Seq(Byte), NEW k \in 0..Len(b), NEW f, NEW g, \A j \in 0..(k - 1) : f[j] = g[j]
  PROVE  FiltersStep(f, b, k) = FiltersStep(g, b, k)
  <1>1. CASE k = 0
    BY <1>1, Zenon DEF FiltersStep
  <1>2. CASE k # 0
    <2>1. PICK r : r = FilterParse(Ending(b, k))
      OBVIOUS
    <2>2. CASE r.ok
      <3>1. r.rest \in Seq(Byte) /\ Len(r.rest) < k
        BY <2>1, <2>2, FiltersLength
      <3>2. Len(r.rest) \in 0..(k - 1)
        BY <3>1
      <3>3. f[Len(r.rest)] = g[Len(r.rest)]
        BY <3>2, Zenon
      <3> QED
        BY <1>2, <2>1, <3>3, Zenon DEF FiltersStep, Then, When
    <2>3. CASE ~r.ok
      BY <1>2, <2>1, <2>3, Zenon DEF FiltersStep, Then
    <2> QED
      BY <2>2, <2>3
  <1> QED
    BY <1>1, <1>2

\* The equation SubscribeCursor chooses a function by.
FiltersEq(h, b) == h = [k \in 0..Len(b) |-> FiltersStep(h, b, k)]

LEMMA FiltersExist ==
  ASSUME NEW b \in Seq(Byte)
  PROVE  \E h : FiltersEq(h, b)
  <1> DEFINE m == Len(b)
             V == Lists(ReadFilters)
             F == [k \in 0..m |-> [f \in [0..m -> V] |-> FiltersStep(f, b, k)]]
  <1>1. m \in Nat
    OBVIOUS
  <1>2. ASSUME NEW k \in 0..m, NEW f \in [0..m -> V] PROVE FiltersStep(f, b, k) \in V
    <2>1. \A j \in 0..(k - 1) : f[j] \in V
      OBVIOUS
    <2> QED
      BY <2>1, FiltersStepTyped
  <1>3. F \in [0..m -> [[0..m -> V] -> V]]
    <2> HIDE DEF V, m
    <2> QED
      BY <1>2
  <1>4. ASSUME NEW k \in 0..m, NEW f \in [0..m -> V] PROVE F[k][f] = FiltersStep(f, b, k)
    <2> HIDE DEF V, m
    <2> QED
      OBVIOUS
  <1>5. ASSUME NEW k \in 0..m, NEW f \in [0..m -> V], NEW g \in [0..m -> V],
               \A j \in 0..(k - 1) : f[j] = g[j]
        PROVE  F[k][f] = F[k][g]
    <2>1. FiltersStep(f, b, k) = FiltersStep(g, b, k)
      BY <1>5, FiltersStepLocal
    <2> HIDE DEF F, V, m
    <2> QED
      BY <1>4, <2>1
  <1>6. Err \in V
    BY DEF Lists
  <1>7. Inductive(F, m, V)
    <2> HIDE DEF F, V, m
    <2> QED
      BY <1>3, <1>5 DEF Inductive
  <1> HIDE DEF F, V, m
  <1>8. PICK h \in [0..m -> V] : \A k \in 0..m : h[k] = F[k][h]
    <2>1. Solvable(F, m, V)
      BY <1>1, <1>6, <1>7, Recursion, Zenon
    <2> QED
      BY <2>1 DEF Solvable
  <1>9. h = [k \in 0..m |-> FiltersStep(h, b, k)]
    BY <1>4, <1>8
  <1> QED
    BY <1>9 DEF FiltersEq, m

LEMMA FiltersTyped ==
  ASSUME NEW b \in Seq(Byte)
  PROVE  SubscribeCursor(b) \in Lists(ReadFilters)
  <1>1. PICK h : FiltersEq(h, b) /\ SubscribeCursor(b) = h[Len(b)]
    <2> DEFINE filters == CHOOSE g : FiltersEq(g, b)
    <2>1. FiltersEq(filters, b)
      BY FiltersExist, Zenon
    <2>2. SubscribeCursor(b) = filters[Len(b)]
      BY Zenon DEF SubscribeCursor, FiltersEq, FiltersStep
    <2> QED
      BY <2>1, <2>2, Zenon
  <1> DEFINE S == {k \in 0..Len(b) : h[k] \in Lists(ReadFilters)}
  <1>2. ASSUME NEW k \in 0..Len(b), \A j \in 0..(k - 1) : j \in S PROVE k \in S
    <2>1. \A j \in 0..(k - 1) : h[j] \in Lists(ReadFilters)
      BY <1>2
    <2>2. FiltersStep(h, b, k) \in Lists(ReadFilters)
      BY <2>1, FiltersStepTyped
    <2>3. h[k] = FiltersStep(h, b, k)
      BY <1>1, Zenon DEF FiltersEq
    <2> QED
      BY <2>2, <2>3
  <1>3. Len(b) \in Nat /\ Len(b) \in 0..Len(b)
    OBVIOUS
  <1>4. \A k \in 0..Len(b) : k \in S
    <2> HIDE DEF S
    <2> QED
      BY <1>2, <1>3, StrongInduction
  <1> QED
    BY <1>1, <1>3, <1>4

TopicsStep(h, b, k) ==
    IF k = 0 THEN Ok(<< >>, << >>)
    ELSE Then(StrParse(Ending(b, k)), LAMBDA t, r :
         Then(h[Len(r)], LAMBDA ts, rest :
            When(HasValidWildcard(t), Ok(<<t>> \o ts, rest))))

LEMMA TopicsStepTyped ==
  ASSUME NEW b \in Seq(Byte), NEW k \in 0..Len(b), NEW h, \A j \in 0..(k - 1) : h[j] \in Lists(ReadTopics)
  PROVE  TopicsStep(h, b, k) \in Lists(ReadTopics)
  <1>1. CASE k = 0
    <2>1. << >> \in Seq(ReadTopics)
      OBVIOUS
    <2>2. TopicsStep(h, b, k) = Ok(<< >>, << >>)
      BY <1>1, Zenon DEF TopicsStep
    <2> QED
      BY <2>1, <2>2, Zenon DEF Lists
  <1>2. CASE k # 0
    <2>1. PICK r : r = StrParse(Ending(b, k))
      OBVIOUS
    <2>2. TopicsStep(h, b, k) = IF r.ok /\ h[Len(r.rest)].ok /\ HasValidWildcard(r.out)
                            THEN Ok(<<r.out>> \o h[Len(r.rest)].out, h[Len(r.rest)].rest) ELSE Err
      BY <1>2, <2>1, Zenon DEF TopicsStep, Then, When
    <2>3. ASSUME r.ok, h[Len(r.rest)].ok, HasValidWildcard(r.out)
          PROVE  Ok(<<r.out>> \o h[Len(r.rest)].out, h[Len(r.rest)].rest) \in Lists(ReadTopics)
      <3>1. r.out \in ReadTopics /\ r.rest \in Seq(Byte) /\ Len(r.rest) < k
        BY <2>1, <2>3, TopicsRead
      <3>2. Len(r.rest) \in 0..(k - 1)
        BY <3>1
      <3>3. h[Len(r.rest)] \in Lists(ReadTopics)
        BY <3>2, Zenon
      <3>4. h[Len(r.rest)].out \in Seq(ReadTopics) /\ h[Len(r.rest)].rest = << >>
        BY <2>3, <3>3, ListIs, Zenon
      <3> QED
        BY <3>1, <3>4, Longer, Zenon
    <2> QED
      BY <2>2, <2>3, Zenon DEF Lists
  <1> QED
    BY <1>1, <1>2

LEMMA TopicsStepLocal ==
  ASSUME NEW b \in Seq(Byte), NEW k \in 0..Len(b), NEW f, NEW g, \A j \in 0..(k - 1) : f[j] = g[j]
  PROVE  TopicsStep(f, b, k) = TopicsStep(g, b, k)
  <1>1. CASE k = 0
    BY <1>1, Zenon DEF TopicsStep
  <1>2. CASE k # 0
    <2>1. PICK r : r = StrParse(Ending(b, k))
      OBVIOUS
    <2>2. CASE r.ok
      <3>1. r.rest \in Seq(Byte) /\ Len(r.rest) < k
        BY <2>1, <2>2, TopicsLength
      <3>2. Len(r.rest) \in 0..(k - 1)
        BY <3>1
      <3>3. f[Len(r.rest)] = g[Len(r.rest)]
        BY <3>2, Zenon
      <3> QED
        BY <1>2, <2>1, <3>3, Zenon DEF TopicsStep, Then, When
    <2>3. CASE ~r.ok
      BY <1>2, <2>1, <2>3, Zenon DEF TopicsStep, Then
    <2> QED
      BY <2>2, <2>3
  <1> QED
    BY <1>1, <1>2

\* The equation UnsubscribeCursor chooses a function by.
TopicsEq(h, b) == h = [k \in 0..Len(b) |-> TopicsStep(h, b, k)]

LEMMA TopicsExist ==
  ASSUME NEW b \in Seq(Byte)
  PROVE  \E h : TopicsEq(h, b)
  <1> DEFINE m == Len(b)
             V == Lists(ReadTopics)
             F == [k \in 0..m |-> [f \in [0..m -> V] |-> TopicsStep(f, b, k)]]
  <1>1. m \in Nat
    OBVIOUS
  <1>2. ASSUME NEW k \in 0..m, NEW f \in [0..m -> V] PROVE TopicsStep(f, b, k) \in V
    <2>1. \A j \in 0..(k - 1) : f[j] \in V
      OBVIOUS
    <2> QED
      BY <2>1, TopicsStepTyped
  <1>3. F \in [0..m -> [[0..m -> V] -> V]]
    <2> HIDE DEF V, m
    <2> QED
      BY <1>2
  <1>4. ASSUME NEW k \in 0..m, NEW f \in [0..m -> V] PROVE F[k][f] = TopicsStep(f, b, k)
    <2> HIDE DEF V, m
    <2> QED
      OBVIOUS
  <1>5. ASSUME NEW k \in 0..m, NEW f \in [0..m -> V], NEW g \in [0..m -> V],
               \A j \in 0..(k - 1) : f[j] = g[j]
        PROVE  F[k][f] = F[k][g]
    <2>1. TopicsStep(f, b, k) = TopicsStep(g, b, k)
      BY <1>5, TopicsStepLocal
    <2> HIDE DEF F, V, m
    <2> QED
      BY <1>4, <2>1
  <1>6. Err \in V
    BY DEF Lists
  <1>7. Inductive(F, m, V)
    <2> HIDE DEF F, V, m
    <2> QED
      BY <1>3, <1>5 DEF Inductive
  <1> HIDE DEF F, V, m
  <1>8. PICK h \in [0..m -> V] : \A k \in 0..m : h[k] = F[k][h]
    <2>1. Solvable(F, m, V)
      BY <1>1, <1>6, <1>7, Recursion, Zenon
    <2> QED
      BY <2>1 DEF Solvable
  <1>9. h = [k \in 0..m |-> TopicsStep(h, b, k)]
    BY <1>4, <1>8
  <1> QED
    BY <1>9 DEF TopicsEq, m

LEMMA TopicsTyped ==
  ASSUME NEW b \in Seq(Byte)
  PROVE  UnsubscribeCursor(b) \in Lists(ReadTopics)
  <1>1. PICK h : TopicsEq(h, b) /\ UnsubscribeCursor(b) = h[Len(b)]
    <2> DEFINE filters == CHOOSE g : TopicsEq(g, b)
    <2>1. TopicsEq(filters, b)
      BY TopicsExist, Zenon
    <2>2. UnsubscribeCursor(b) = filters[Len(b)]
      BY Zenon DEF UnsubscribeCursor, TopicsEq, TopicsStep
    <2> QED
      BY <2>1, <2>2, Zenon
  <1> DEFINE S == {k \in 0..Len(b) : h[k] \in Lists(ReadTopics)}
  <1>2. ASSUME NEW k \in 0..Len(b), \A j \in 0..(k - 1) : j \in S PROVE k \in S
    <2>1. \A j \in 0..(k - 1) : h[j] \in Lists(ReadTopics)
      BY <1>2
    <2>2. TopicsStep(h, b, k) \in Lists(ReadTopics)
      BY <2>1, TopicsStepTyped
    <2>3. h[k] = TopicsStep(h, b, k)
      BY <1>1, Zenon DEF TopicsEq
    <2> QED
      BY <2>2, <2>3
  <1>3. Len(b) \in Nat /\ Len(b) \in 0..Len(b)
    OBVIOUS
  <1>4. \A k \in 0..Len(b) : k \in S
    <2> HIDE DEF S
    <2> QED
      BY <1>2, <1>3, StrongInduction
  <1> QED
    BY <1>1, <1>3, <1>4

\* What is made of the body of a SUBSCRIBE.
ReadSubscribe == [type : {SUBSCRIBE}, pkid : PacketId, filters : Seq(ReadFilters)]

SubscribeBody(body, rest) ==
    Then(PacketIdParse(body), LAMBDA id, r1 :
    Then(SubscribeCursor(r1), LAMBDA fs, none :
        Ok([type |-> SUBSCRIBE, pkid |-> id, filters |-> fs], rest)))

LEMMA SubscribeBodyRead ==
  ASSUME NEW body \in Seq(Byte)
  PROVE  \/ \A rest : SubscribeBody(body, rest) = Err
         \/ \E p \in ReadSubscribe : \A rest : SubscribeBody(body, rest) = Ok(p, rest)
  <1>1. PICK r : r = PacketIdParse(body)
    OBVIOUS
  <1>2. PICK c : c = SubscribeCursor(r.rest)
    OBVIOUS
  <1>3. \A rest : SubscribeBody(body, rest)
            = IF r.ok /\ c.ok THEN Ok([type |-> SUBSCRIBE, pkid |-> r.out, filters |-> c.out], rest) ELSE Err
    BY <1>1, <1>2, Zenon DEF SubscribeBody, Then
  <1>4. CASE r.ok /\ c.ok
    <2>1. r.out \in PacketId /\ r.rest \in Seq(Byte)
      BY <1>1, <1>4, PacketIdTakes, Zenon DEF Takes
    <2>2. c.out \in Seq(ReadFilters)
      BY <1>2, <1>4, <2>1, FiltersTyped, ListIs, Zenon
    <2>3. PICK p \in ReadSubscribe : p = [type |-> SUBSCRIBE, pkid |-> r.out, filters |-> c.out]
      BY <2>1, <2>2 DEF ReadSubscribe
    <2>4. \A rest : SubscribeBody(body, rest) = Ok(p, rest)
      BY <1>3, <1>4, <2>3, Zenon
    <2> QED
      BY <2>4, Zenon
  <1>5. CASE ~(r.ok /\ c.ok)
    BY <1>3, <1>5, Zenon
  <1> QED
    BY <1>4, <1>5

LEMMA SubscribeParsed ==
  ASSUME NEW s \in Seq(Byte), NEW b \in Byte
  PROVE  KeepsFrame(SubscribeParse(s), SubscribeParse(Append(s, b)), ReadSubscribe, s, b)
  <1> SUFFICES ASSUME NEW t, t = Append(s, b)
               PROVE  KeepsFrame(SubscribeParse(s), SubscribeParse(t), ReadSubscribe, s, b)
    BY Zenon
  <1>1. CASE ~HeaderParse(s).ok
    BY <1>1, Zenon DEF SubscribeParse, Then, KeepsFrame
  <1>2. ASSUME NEW h, NEW d, NEW e, Opens(s, b, h, d, e)
        PROVE  KeepsFrame(SubscribeParse(s), SubscribeParse(t), ReadSubscribe, s, b)
    <2>0. IsResult(HeaderParse(s), h, d) /\ IsResult(HeaderParse(t), h, e) /\ NextFrameSome(s)
      BY <1>2, Zenon DEF Opens
    <2> DEFINE P(r) == IF r.ok THEN SubscribeBody(r.out, r.rest) ELSE Err
    <2>1. SubscribeParse(s) = P(SplitBody(h, d)) /\ SubscribeParse(t) = P(SplitBody(h, e))
      BY <2>0, Zenon DEF SubscribeParse, Then, IsResult, SubscribeBody
    <2>2. CASE ~SplitBody(h, d).ok
      BY <2>1, <2>2, Zenon DEF KeepsFrame
    <2>3. ASSUME NEW body, NEW rest, Splits(s, b, h, d, e, body, rest)
          PROVE  KeepsFrame(SubscribeParse(s), SubscribeParse(t), ReadSubscribe, s, b)
      <3>0. /\ IsResult(SplitBody(h, d), body, rest) /\ IsResult(SplitBody(h, e), body, Append(rest, b))
            /\ body \in Seq(Byte) /\ rest \in Seq(Byte) /\ FrameLen(s) = Len(s) - Len(rest)
        BY <2>3, Zenon DEF Splits
      <3>1. SubscribeParse(s) = SubscribeBody(body, rest)
            /\ SubscribeParse(t) = SubscribeBody(body, Append(rest, b))
        BY <2>1, <3>0, Zenon DEF IsResult
      <3>2. CASE \A x : SubscribeBody(body, x) = Err
        BY <3>1, <3>2, Zenon DEF KeepsFrame
      <3>3. ASSUME NEW p \in ReadSubscribe, \A x : SubscribeBody(body, x) = Ok(p, x)
            PROVE  KeepsFrame(SubscribeParse(s), SubscribeParse(t), ReadSubscribe, s, b)
        <4>1. SubscribeParse(s) = Ok(p, rest) /\ SubscribeParse(t) = Ok(p, Append(rest, b))
          BY <3>1, <3>3, Zenon
        <4> QED
          BY <2>0, <3>0, <4>1, Zenon DEF KeepsFrame
      <3> QED
        BY <3>0, <3>2, <3>3, SubscribeBodyRead, Zenon
    <2> QED
      BY <1>2, <2>2, <2>3, OpensSplits, Zenon
  <1> QED
    BY <1>1, <1>2, HeaderOpens, Zenon

ReadUnsubscribe == [type : {UNSUBSCRIBE}, pkid : PacketId, filters : Seq(ReadTopics)]

UnsubscribeBody(body, rest) ==
    Then(PacketIdParse(body), LAMBDA id, r1 :
    Then(UnsubscribeCursor(r1), LAMBDA fs, none :
        Ok([type |-> UNSUBSCRIBE, pkid |-> id, filters |-> fs], rest)))

LEMMA UnsubscribeBodyRead ==
  ASSUME NEW body \in Seq(Byte)
  PROVE  \/ \A rest : UnsubscribeBody(body, rest) = Err
         \/ \E p \in ReadUnsubscribe : \A rest : UnsubscribeBody(body, rest) = Ok(p, rest)
  <1>1. PICK r : r = PacketIdParse(body)
    OBVIOUS
  <1>2. PICK c : c = UnsubscribeCursor(r.rest)
    OBVIOUS
  <1>3. \A rest : UnsubscribeBody(body, rest)
            = IF r.ok /\ c.ok
              THEN Ok([type |-> UNSUBSCRIBE, pkid |-> r.out, filters |-> c.out], rest) ELSE Err
    BY <1>1, <1>2, Zenon DEF UnsubscribeBody, Then
  <1>4. CASE r.ok /\ c.ok
    <2>1. r.out \in PacketId /\ r.rest \in Seq(Byte)
      BY <1>1, <1>4, PacketIdTakes, Zenon DEF Takes
    <2>2. c.out \in Seq(ReadTopics)
      BY <1>2, <1>4, <2>1, TopicsTyped, ListIs, Zenon
    <2>3. PICK p \in ReadUnsubscribe : p = [type |-> UNSUBSCRIBE, pkid |-> r.out, filters |-> c.out]
      BY <2>1, <2>2 DEF ReadUnsubscribe
    <2>4. \A rest : UnsubscribeBody(body, rest) = Ok(p, rest)
      BY <1>3, <1>4, <2>3, Zenon
    <2> QED
      BY <2>4, Zenon
  <1>5. CASE ~(r.ok /\ c.ok)
    BY <1>3, <1>5, Zenon
  <1> QED
    BY <1>4, <1>5

LEMMA UnsubscribeParsed ==
  ASSUME NEW s \in Seq(Byte), NEW b \in Byte
  PROVE  KeepsFrame(UnsubscribeParse(s), UnsubscribeParse(Append(s, b)), ReadUnsubscribe, s, b)
  <1> SUFFICES ASSUME NEW t, t = Append(s, b)
               PROVE  KeepsFrame(UnsubscribeParse(s), UnsubscribeParse(t), ReadUnsubscribe, s, b)
    BY Zenon
  <1>1. CASE ~HeaderParse(s).ok
    BY <1>1, Zenon DEF UnsubscribeParse, Then, KeepsFrame
  <1>2. ASSUME NEW h, NEW d, NEW e, Opens(s, b, h, d, e)
        PROVE  KeepsFrame(UnsubscribeParse(s), UnsubscribeParse(t), ReadUnsubscribe, s, b)
    <2>0. IsResult(HeaderParse(s), h, d) /\ IsResult(HeaderParse(t), h, e) /\ NextFrameSome(s)
      BY <1>2, Zenon DEF Opens
    <2> DEFINE P(r) == IF r.ok THEN UnsubscribeBody(r.out, r.rest) ELSE Err
    <2>1. UnsubscribeParse(s) = P(SplitBody(h, d)) /\ UnsubscribeParse(t) = P(SplitBody(h, e))
      BY <2>0, Zenon DEF UnsubscribeParse, Then, IsResult, UnsubscribeBody
    <2>2. CASE ~SplitBody(h, d).ok
      BY <2>1, <2>2, Zenon DEF KeepsFrame
    <2>3. ASSUME NEW body, NEW rest, Splits(s, b, h, d, e, body, rest)
          PROVE  KeepsFrame(UnsubscribeParse(s), UnsubscribeParse(t), ReadUnsubscribe, s, b)
      <3>0. /\ IsResult(SplitBody(h, d), body, rest) /\ IsResult(SplitBody(h, e), body, Append(rest, b))
            /\ body \in Seq(Byte) /\ rest \in Seq(Byte) /\ FrameLen(s) = Len(s) - Len(rest)
        BY <2>3, Zenon DEF Splits
      <3>1. UnsubscribeParse(s) = UnsubscribeBody(body, rest)
            /\ UnsubscribeParse(t) = UnsubscribeBody(body, Append(rest, b))
        BY <2>1, <3>0, Zenon DEF IsResult
      <3>2. CASE \A x : UnsubscribeBody(body, x) = Err
        BY <3>1, <3>2, Zenon DEF KeepsFrame
      <3>3. ASSUME NEW p \in ReadUnsubscribe, \A x : UnsubscribeBody(body, x) = Ok(p, x)
            PROVE  KeepsFrame(UnsubscribeParse(s), UnsubscribeParse(t), ReadUnsubscribe, s, b)
        <4>1. UnsubscribeParse(s) = Ok(p, rest) /\ UnsubscribeParse(t) = Ok(p, Append(rest, b))
          BY <3>1, <3>3, Zenon
        <4> QED
          BY <2>0, <3>0, <4>1, Zenon DEF KeepsFrame
      <3> QED
        BY <3>0, <3>2, <3>3, UnsubscribeBodyRead, Zenon
    <2> QED
      BY <1>2, <2>2, <2>3, OpensSplits, Zenon
  <1> QED
    BY <1>1, <1>2, HeaderOpens, Zenon

LEMMA SubAckParsed ==
  ASSUME NEW s \in Seq(Byte), NEW b \in Byte
  PROVE  KeepsFrame(SubAckParse(s), SubAckParse(Append(s, b)), SubAck, s, b)
  <1> SUFFICES ASSUME NEW t, t = Append(s, b)
               PROVE  KeepsFrame(SubAckParse(s), SubAckParse(t), SubAck, s, b)
    BY Zenon
  <1>1. CASE ~HeaderParse(s).ok
    BY <1>1, Zenon DEF SubAckParse, Then, KeepsFrame
  <1>2. ASSUME NEW h, NEW d, NEW e, Opens(s, b, h, d, e)
        PROVE  KeepsFrame(SubAckParse(s), SubAckParse(t), SubAck, s, b)
    <2>0. IsResult(HeaderParse(s), h, d) /\ IsResult(HeaderParse(t), h, e) /\ NextFrameSome(s)
      BY <1>2, Zenon DEF Opens
    <2>1. PICK n \in Nat : n = h.length
      BY <1>2 DEF Opens, Headers
    <2>2. d \in Seq(Byte) /\ e = Append(d, b) /\ FrameLen(s) = Len(s) - Len(d) + n
      BY <1>2, <2>1, Zenon DEF Opens
    <2> DEFINE CodesIn(x) == SubSeq(x, 3, n)
               Good(x) == (\A i \in 1..Len(CodesIn(x)) : CodesIn(x)[i] \in SubAckCodes) /\ FromU16(x) # 0
               A(x) == When(n >= 2 /\ n <= Len(x),
                        When(Good(x), Ok([type |-> SUBACK, pkid |-> FromU16(x), codes |-> CodesIn(x)],
                          Drop(x, n))))
    <2>3. SubAckParse(s) = A(d) /\ SubAckParse(t) = A(e)
      BY <2>0, <2>1, Zenon DEF SubAckParse, Then, IsResult
    <2>4. CASE n >= 2 /\ n <= Len(d) /\ Good(d)
      <3>1. n \in 0..Len(d) /\ n <= Len(e) /\ Len(d) >= 2
        BY <2>2, <2>4
      <3>2. CodesIn(e) = CodesIn(d) /\ CodesIn(d) \in Seq(Byte)
        BY <2>2, <2>4, <3>1
      <3>3. FromU16(e) = FromU16(d)
        BY <2>2, <3>1, U16Behind
      <3>4. Drop(d, n) \in Seq(Byte) /\ Len(Drop(d, n)) = Len(d) - n /\ Drop(e, n) = Append(Drop(d, n), b)
        BY <2>2, <3>1, DropIs, DropBehind
      <3>5. FromU16(d) \in PacketId
        BY <2>2, <2>4, <3>1, U16Read, NotZero
      <3>6. \A c \in Seq(Byte) : (\A i \in 1..Len(c) : c[i] \in SubAckCodes) => c \in Seq(SubAckCodes)
        <4>1. ASSUME NEW c \in Seq(Byte), \A i \in 1..Len(c) : c[i] \in SubAckCodes
              PROVE  c \in Seq(SubAckCodes)
          <5>1. c = [i \in 1..Len(c) |-> c[i]] /\ Len(c) \in Nat
            OBVIOUS
          <5>2. c \in [1..Len(c) -> SubAckCodes]
            BY <4>1, <5>1
          <5> QED
            BY <5>1, <5>2
        <4> QED
          BY <4>1
      <3>7. CodesIn(d) \in Seq(SubAckCodes)
        BY <2>4, <3>2, <3>6, Zenon
      <3>8. PICK p \in SubAck : p = [type |-> SUBACK, pkid |-> FromU16(d), codes |-> CodesIn(d)]
        <4> HIDE DEF CodesIn
        <4> QED
          BY <3>5, <3>7 DEF SubAck
      <3>9. PICK rest \in Seq(Byte) : rest = Drop(d, n) /\ Len(rest) = Len(d) - n
        BY <3>4
      <3>10. FrameLen(s) = Len(s) - Len(rest)
        BY <2>2, <3>9
      <3>11. SubAckParse(s) = Ok(p, rest)
        BY <2>3, <2>4, <3>8, <3>9, Zenon DEF When
      <3>12. SubAckParse(t) = Ok(p, Append(rest, b))
        BY <2>3, <2>4, <3>1, <3>2, <3>3, <3>4, <3>8, <3>9, Zenon DEF When
      <3> HIDE DEF CodesIn, Good, A
      <3> QED
        BY <2>0, <3>10, <3>11, <3>12, Zenon DEF KeepsFrame
    <2>5. CASE ~(n >= 2 /\ n <= Len(d) /\ Good(d))
      BY <2>3, <2>5, Zenon DEF When, KeepsFrame
    <2> QED
      BY <2>4, <2>5, Zenon
  <1> QED
    BY <1>1, <1>2, HeaderOpens, Zenon

----------------------------------------------------------------------------
(* CONNECT, which follows its flags and not its length.                    *)

LEMMA OptionParsed ==
  ASSUME NEW present, NEW r, NEW q, NEW S, NEW s \in Seq(Byte), NEW b, Keeps(r, q, S, b)
  PROVE  Keeps(OptionParse(present, r, s), OptionParse(present, q, Append(s, b)), Option(S), b)
  <1>1. CASE ~present
    <2>1. /\ OptionParse(present, r, s) = Ok(<< >>, s)
          /\ OptionParse(present, q, Append(s, b)) = Ok(<< >>, Append(s, b))
      BY <1>1, Zenon DEF OptionParse
    <2>2. << >> \in Option(S)
      BY NoneIs
    <2> QED
      BY <2>1, <2>2, Zenon DEF Keeps
  <1>2. CASE present
    <2> DEFINE O(p) == IF p.ok THEN Ok(<<p.out>>, p.rest) ELSE Err
    <2>1. OptionParse(present, r, s) = O(r) /\ OptionParse(present, q, Append(s, b)) = O(q)
      BY <1>2, Zenon DEF OptionParse, Then
    <2>2. CASE r = Err
      <3>1. O(r) = Err
        BY <2>2, ErrIs, Zenon
      <3> QED
        BY <2>1, <3>1, Zenon DEF Keeps
    <2>3. ASSUME NEW out \in S, NEW rest \in Seq(Byte), r = Ok(out, rest), q = Ok(out, Append(rest, b))
          PROVE  Keeps(OptionParse(present, r, s), OptionParse(present, q, Append(s, b)), Option(S), b)
      <3>1. IsResult(r, out, rest) /\ IsResult(q, out, Append(rest, b))
        BY <2>3, IsOk, Zenon
      <3>2. O(r) = Ok(<<out>>, rest) /\ O(q) = Ok(<<out>>, Append(rest, b))
        BY <3>1, Zenon DEF IsResult
      <3>3. PICK o \in Option(S) : o = <<out>>
        BY OneIs
      <3> QED
        BY <2>1, <3>2, <3>3, Zenon DEF Keeps
    <2> QED
      BY <2>2, <2>3, Zenon DEF Keeps
  <1> QED
    BY <1>1, <1>2

LEMMA ReadsKeeps ==
  ASSUME NEW r, NEW q, NEW S, NEW k, NEW s, NEW b, Reads(r, q, S, k, s, b)
  PROVE  Keeps(r, q, S, b)
  BY Zenon DEF Reads, Keeps

LEMMA KeepsGot ==
  ASSUME NEW r, NEW q, NEW S, NEW b, Keeps(r, q, S, b)
  PROVE  ~r.ok \/ \E out \in S, rest \in Seq(Byte) : Got(r, q, out, rest, b)
  BY ErrIs, IsOk, Zenon DEF Keeps, Got

ReadWill == [topic : GoodTexts, message : Seq(Byte)]

LEMMA WillParsed ==
  ASSUME NEW s \in Seq(Byte), NEW b \in Byte
  PROVE  Keeps(WillParse(s), WillParse(Append(s, b)), ReadWill, b)
  <1> SUFFICES ASSUME NEW t, t = Append(s, b) PROVE Keeps(WillParse(s), WillParse(t), ReadWill, b)
    BY Zenon
  <1>1. CASE ~StrParse(s).ok
    BY <1>1, Zenon DEF WillParse, Then, Keeps
  <1>2. ASSUME NEW topic \in GoodTexts, NEW d \in Seq(Byte), Got(StrParse(s), StrParse(t), topic, d, b)
        PROVE  Keeps(WillParse(s), WillParse(t), ReadWill, b)
    <2> SUFFICES ASSUME NEW e, e = Append(d, b) PROVE Keeps(WillParse(s), WillParse(t), ReadWill, b)
      BY Zenon
    <2> DEFINE W(r) == IF r.ok THEN Ok([topic |-> topic, message |-> r.out], r.rest) ELSE Err
    <2>1. WillParse(s) = W(BuffParse(d)) /\ WillParse(t) = W(BuffParse(e))
      BY <1>2, Zenon DEF WillParse, Then, Got, IsResult
    <2>2. \/ ~BuffParse(d).ok
          \/ \E m \in Seq(Byte), rest \in Seq(Byte) : Got(BuffParse(d), BuffParse(e), m, rest, b)
      BY BuffParsed, ReadsGot, Zenon
    <2>3. CASE ~BuffParse(d).ok
      BY <2>1, <2>3, Zenon DEF Keeps
    <2>4. ASSUME NEW m \in Seq(Byte), NEW rest \in Seq(Byte), Got(BuffParse(d), BuffParse(e), m, rest, b)
          PROVE  Keeps(WillParse(s), WillParse(t), ReadWill, b)
      <3>1. PICK w \in ReadWill : w = [topic |-> topic, message |-> m]
        BY DEF ReadWill
      <3>2. WillParse(s) = Ok(w, rest) /\ WillParse(t) = Ok(w, Append(rest, b))
        BY <2>1, <2>4, <3>1, Zenon DEF Got, IsResult
      <3> QED
        BY <3>2, Zenon DEF Keeps
    <2> QED
      BY <2>2, <2>3, <2>4
  <1>3. \/ ~StrParse(s).ok
        \/ \E topic \in GoodTexts, d \in Seq(Byte) : Got(StrParse(s), StrParse(t), topic, d, b)
    BY StrParsed, ReadsGot, Zenon
  <1> QED
    BY <1>1, <1>2, <1>3

LEMMA ClientIdParsed ==
  ASSUME NEW s \in Seq(Byte), NEW b \in Byte
  PROVE  Keeps(ClientIdParse(s), ClientIdParse(Append(s, b)), GoodTexts, b)
  <1> SUFFICES ASSUME NEW t, t = Append(s, b) PROVE Keeps(ClientIdParse(s), ClientIdParse(t), GoodTexts, b)
    BY Zenon
  <1>1. CASE ~StrParse(s).ok
    BY <1>1, Zenon DEF ClientIdParse, Then, Keeps
  <1>2. ASSUME NEW id \in GoodTexts, NEW d \in Seq(Byte), Got(StrParse(s), StrParse(t), id, d, b)
        PROVE  Keeps(ClientIdParse(s), ClientIdParse(t), GoodTexts, b)
    <2>1. /\ ClientIdParse(s) = When(ClientIdReadable(id), Ok(id, d))
          /\ ClientIdParse(t) = When(ClientIdReadable(id), Ok(id, Append(d, b)))
      BY <1>2, Zenon DEF ClientIdParse, Then, Got, IsResult
    <2> QED
      BY <2>1, Zenon DEF When, Keeps
  <1>3. \/ ~StrParse(s).ok
        \/ \E id \in GoodTexts, d \in Seq(Byte) : Got(StrParse(s), StrParse(t), id, d, b)
    BY StrParsed, ReadsGot, Zenon
  <1> QED
    BY <1>1, <1>2, <1>3

LEMMA U16InRange == ASSUME NEW w \in Seq(Byte), Len(w) = 2 PROVE FromU16(w) \in 0..MaxU16
  <1>1. PICK m \in Nat : m = MaxU16
    BY SMT DEF MaxU16
  <1>2. FromU16(w) \in Nat /\ FromU16(w) <= m
    <2>1. Len(w) >= 2
      OBVIOUS
    <2> QED
      BY <1>1, <2>1, U16Read, Zenon
  <1>3. FromU16(w) \in 0..m
    BY <1>2
  <1> QED
    BY <1>1, <1>3, Zenon

ReadConnectHeader == [flags : SUBSET ConnectFlags, keepalive : 0..MaxU16]

LEMMA ConnectHeaderParsed ==
  ASSUME NEW s \in Seq(Byte), NEW b \in Byte
  PROVE  Keeps(ConnectHeaderParse(s), ConnectHeaderParse(Append(s, b)), ReadConnectHeader, b)
  <1> SUFFICES ASSUME NEW t, t = Append(s, b)
               PROVE  Keeps(ConnectHeaderParse(s), ConnectHeaderParse(t), ReadConnectHeader, b)
    BY Zenon
  <1> DEFINE good == /\ Len(s) >= ConnectHeaderLen
                     /\ Take(s, 7) = ProtocolName \o <<ProtocolLevel>>
                     /\ "RESERVED" \notin FlagsIn(ConnectBits, s[8])
             head == [flags |-> FlagsIn(ConnectBits, s[8]), keepalive |-> FromU16(SubSeq(s, 9, 10))]
  <1>1. CASE good
    <2>1. ConnectHeaderLen = 10
      BY DEF ConnectHeaderLen
    <2>2. Len(s) >= 10
      BY <1>1, <2>1, Zenon
    <2>3. /\ 10 \in 0..Len(s) /\ 7 \in 0..Len(s) /\ Len(t) >= 10 /\ t[8] = s[8]
          /\ SubSeq(t, 9, 10) = SubSeq(s, 9, 10)
          /\ SubSeq(s, 9, 10) \in Seq(Byte) /\ Len(SubSeq(s, 9, 10)) = 2
      <3> HIDE DEF good, head
      <3> QED
        BY <2>2
    <2>4. Take(t, 7) = Take(s, 7) /\ Drop(t, 10) = Append(Drop(s, 10), b)
      BY <2>3, TakeBehind, DropBehind
    <2>5. Drop(s, 10) \in Seq(Byte)
      BY <2>3, DropIs
    <2>6. FlagsIn(ConnectBits, s[8]) \in SUBSET ConnectFlags
      <3>1. Len(ConnectBits) = 8
        BY DEF ConnectBits
      <3> QED
        BY <3>1, FlagsInNames, Zenon DEF ConnectFlags
    <2>7. FromU16(SubSeq(s, 9, 10)) \in 0..MaxU16
      BY <2>3, U16InRange, Zenon
    <2>8. head \in ReadConnectHeader
      BY <2>6, <2>7, Zenon DEF ReadConnectHeader
    <2>9. ConnectHeaderParse(s) = Ok(head, Drop(s, 10))
      BY <1>1, <2>1, Zenon DEF ConnectHeaderParse, When
    <2>10. ConnectHeaderParse(t) = Ok(head, Append(Drop(s, 10), b))
      BY <1>1, <2>1, <2>3, <2>4, Zenon DEF ConnectHeaderParse, When
    <2> HIDE DEF good, head
    <2> QED
      BY <2>5, <2>8, <2>9, <2>10, Zenon DEF Keeps
  <1>2. CASE ~good
    BY <1>2, Zenon DEF ConnectHeaderParse, When, Keeps
  <1> QED
    BY <1>1, <1>2

ReadConnect ==
    [type : {CONNECT}, flags : SUBSET ConnectFlags, keepalive : 0..MaxU16, client_id : GoodTexts,
     will : Option(ReadWill), username : Option(GoodTexts), password : Option(Seq(Byte))]

\* Connect::parse from its fields on: x is the type byte.
FromPassword(x, header, id, will, username, r4) ==
    Then(OptionParse("PASSWORD" \in header.flags, BuffParse(r4), r4), LAMBDA password, rest :
        When(PacketTypeOf(x) = CONNECT,
             Ok([type |-> CONNECT, flags |-> header.flags, keepalive |-> header.keepalive,
                 client_id |-> id, will |-> will, username |-> username,
                 password |-> password], rest)))

FromUsername(x, header, id, will, r3) ==
    Then(OptionParse("USERNAME" \in header.flags, StrParse(r3), r3), LAMBDA username, r4 :
        FromPassword(x, header, id, will, username, r4))

FromWill(x, header, id, r2) ==
    Then(OptionParse("WILL_FLAG" \in header.flags, WillParse(r2), r2), LAMBDA will, r3 :
        FromUsername(x, header, id, will, r3))

FromClientId(x, header, r1) ==
    Then(ClientIdParse(r1), LAMBDA id, r2 : FromWill(x, header, id, r2))

FromConnectHeader(x, d) ==
    Then(ConnectHeaderParse(d), LAMBDA header, r1 : FromClientId(x, header, r1))

LEMMA PasswordParsed ==
  ASSUME NEW x, NEW header \in ReadConnectHeader, NEW id \in GoodTexts, NEW will \in Option(ReadWill),
         NEW username \in Option(GoodTexts), NEW s \in Seq(Byte), NEW b \in Byte
  PROVE  Keeps(FromPassword(x, header, id, will, username, s),
               FromPassword(x, header, id, will, username, Append(s, b)), ReadConnect, b)
  <1> DEFINE has == "PASSWORD" \in header.flags
             r == OptionParse(has, BuffParse(s), s)
             q == OptionParse(has, BuffParse(Append(s, b)), Append(s, b))
             P(o) == IF o.ok THEN When(PacketTypeOf(x) = CONNECT,
                        Ok([type |-> CONNECT, flags |-> header.flags, keepalive |-> header.keepalive,
                            client_id |-> id, will |-> will, username |-> username,
                            password |-> o.out], o.rest)) ELSE Err
  <1>2. /\ FromPassword(x, header, id, will, username, s) = P(r)
        /\ FromPassword(x, header, id, will, username, Append(s, b)) = P(q)
    BY Zenon DEF FromPassword, Then
  <1>3. Keeps(r, q, Option(Seq(Byte)), b)
    BY BuffParsed, ReadsKeeps, OptionParsed, Zenon
  <1> HIDE DEF r, q
  <1>4. ~r.ok \/ \E out \in Option(Seq(Byte)), rest \in Seq(Byte) : Got(r, q, out, rest, b)
    BY <1>3, KeepsGot, Zenon
  <1>5. CASE ~r.ok
    BY <1>2, <1>5, Zenon DEF Keeps
  <1>6. ASSUME NEW password \in Option(Seq(Byte)), NEW rest \in Seq(Byte), Got(r, q, password, rest, b)
        PROVE  Keeps(P(r), P(q), ReadConnect, b)
    <2>1. header.flags \in SUBSET ConnectFlags /\ header.keepalive \in 0..MaxU16
      BY DEF ReadConnectHeader
    <2>2. PICK p \in ReadConnect : p = [type |-> CONNECT, flags |-> header.flags,
                            keepalive |-> header.keepalive, client_id |-> id, will |-> will,
                            username |-> username, password |-> password]
      BY <2>1, Zenon DEF ReadConnect
    <2>3. /\ P(r) = When(PacketTypeOf(x) = CONNECT, Ok(p, rest))
          /\ P(q) = When(PacketTypeOf(x) = CONNECT, Ok(p, Append(rest, b)))
      BY <1>6, <2>2, Zenon DEF Got, IsResult
    <2> QED
      BY <2>3, Zenon DEF When, Keeps
  <1> HIDE DEF P
  <1> QED
    BY <1>2, <1>4, <1>5, <1>6, Zenon

LEMMA UsernameParsed ==
  ASSUME NEW x, NEW header \in ReadConnectHeader, NEW id \in GoodTexts, NEW will \in Option(ReadWill),
         NEW s \in Seq(Byte), NEW b \in Byte
  PROVE  Keeps(FromUsername(x, header, id, will, s),
               FromUsername(x, header, id, will, Append(s, b)), ReadConnect, b)
  <1> DEFINE has == "USERNAME" \in header.flags
             r == OptionParse(has, StrParse(s), s)
             q == OptionParse(has, StrParse(Append(s, b)), Append(s, b))
             P(o) == IF o.ok THEN FromPassword(x, header, id, will, o.out, o.rest) ELSE Err
  <1>2. /\ FromUsername(x, header, id, will, s) = P(r)
        /\ FromUsername(x, header, id, will, Append(s, b)) = P(q)
    BY Zenon DEF FromUsername, Then
  <1>3. Keeps(r, q, Option(GoodTexts), b)
    BY StrParsed, ReadsKeeps, OptionParsed, Zenon
  <1> HIDE DEF r, q
  <1>4. ~r.ok \/ \E out \in Option(GoodTexts), rest \in Seq(Byte) : Got(r, q, out, rest, b)
    BY <1>3, KeepsGot, Zenon
  <1>5. CASE ~r.ok
    BY <1>2, <1>5, Zenon DEF Keeps
  <1>6. ASSUME NEW out \in Option(GoodTexts), NEW rest \in Seq(Byte), Got(r, q, out, rest, b)
        PROVE  Keeps(P(r), P(q), ReadConnect, b)
    BY <1>6, PasswordParsed, Zenon DEF Got, IsResult
  <1> HIDE DEF P
  <1> QED
    BY <1>2, <1>4, <1>5, <1>6, Zenon

LEMMA WillFieldParsed ==
  ASSUME NEW x, NEW header \in ReadConnectHeader, NEW id \in GoodTexts, NEW s \in Seq(Byte), NEW b \in Byte
  PROVE  Keeps(FromWill(x, header, id, s), FromWill(x, header, id, Append(s, b)), ReadConnect, b)
  <1> DEFINE has == "WILL_FLAG" \in header.flags
             r == OptionParse(has, WillParse(s), s)
             q == OptionParse(has, WillParse(Append(s, b)), Append(s, b))
             P(o) == IF o.ok THEN FromUsername(x, header, id, o.out, o.rest) ELSE Err
  <1>2. FromWill(x, header, id, s) = P(r) /\ FromWill(x, header, id, Append(s, b)) = P(q)
    BY Zenon DEF FromWill, Then
  <1>3. Keeps(r, q, Option(ReadWill), b)
    BY WillParsed, OptionParsed, Zenon
  <1> HIDE DEF r, q
  <1>4. ~r.ok \/ \E out \in Option(ReadWill), rest \in Seq(Byte) : Got(r, q, out, rest, b)
    BY <1>3, KeepsGot, Zenon
  <1>5. CASE ~r.ok
    BY <1>2, <1>5, Zenon DEF Keeps
  <1>6. ASSUME NEW out \in Option(ReadWill), NEW rest \in Seq(Byte), Got(r, q, out, rest, b)
        PROVE  Keeps(P(r), P(q), ReadConnect, b)
    BY <1>6, UsernameParsed, Zenon DEF Got, IsResult
  <1> HIDE DEF P
  <1> QED
    BY <1>2, <1>4, <1>5, <1>6, Zenon

LEMMA ConnectParsed ==
  ASSUME NEW s \in Seq(Byte), NEW b \in Byte
  PROVE  Keeps(ConnectParse(s), ConnectParse(Append(s, b)), ReadConnect, b)
  <1> SUFFICES ASSUME NEW t, t = Append(s, b)
               PROVE  Keeps(ConnectParse(s), ConnectParse(t), ReadConnect, b)
    BY Zenon
  <1>1. ASSUME NEW x, NEW header \in ReadConnectHeader, NEW u \in Seq(Byte)
        PROVE  Keeps(FromClientId(x, header, u), FromClientId(x, header, Append(u, b)), ReadConnect, b)
    <2> DEFINE r == ClientIdParse(u)
               q == ClientIdParse(Append(u, b))
               P(o) == IF o.ok THEN FromWill(x, header, o.out, o.rest) ELSE Err
    <2>2. FromClientId(x, header, u) = P(r) /\ FromClientId(x, header, Append(u, b)) = P(q)
      BY Zenon DEF FromClientId, Then
    <2>3. Keeps(r, q, GoodTexts, b)
      BY ClientIdParsed, Zenon
    <2> HIDE DEF r, q
    <2>4. ~r.ok \/ \E out \in GoodTexts, rest \in Seq(Byte) : Got(r, q, out, rest, b)
      BY <2>3, KeepsGot, Zenon
    <2>5. CASE ~r.ok
      BY <2>2, <2>5, Zenon DEF Keeps
    <2>6. ASSUME NEW out \in GoodTexts, NEW rest \in Seq(Byte), Got(r, q, out, rest, b)
          PROVE  Keeps(P(r), P(q), ReadConnect, b)
      BY <2>6, WillFieldParsed, Zenon DEF Got, IsResult
    <2> HIDE DEF P
    <2> QED
      BY <2>2, <2>4, <2>5, <2>6, Zenon
  <1>2. ASSUME NEW x, NEW u \in Seq(Byte)
        PROVE  Keeps(FromConnectHeader(x, u), FromConnectHeader(x, Append(u, b)), ReadConnect, b)
    <2> DEFINE r == ConnectHeaderParse(u)
               q == ConnectHeaderParse(Append(u, b))
               P(o) == IF o.ok THEN FromClientId(x, o.out, o.rest) ELSE Err
    <2>2. FromConnectHeader(x, u) = P(r) /\ FromConnectHeader(x, Append(u, b)) = P(q)
      BY Zenon DEF FromConnectHeader, Then
    <2>3. Keeps(r, q, ReadConnectHeader, b)
      BY ConnectHeaderParsed, Zenon
    <2> HIDE DEF r, q
    <2>4. ~r.ok \/ \E out \in ReadConnectHeader, rest \in Seq(Byte) : Got(r, q, out, rest, b)
      BY <2>3, KeepsGot, Zenon
    <2>5. CASE ~r.ok
      BY <2>2, <2>5, Zenon DEF Keeps
    <2>6. ASSUME NEW out \in ReadConnectHeader, NEW rest \in Seq(Byte), Got(r, q, out, rest, b)
          PROVE  Keeps(P(r), P(q), ReadConnect, b)
      BY <1>1, <2>6, Zenon DEF Got, IsResult
    <2> HIDE DEF P
    <2> QED
      BY <2>2, <2>4, <2>5, <2>6, Zenon
  <1>3. CASE ~HeaderParse(s).ok
    BY <1>3, Zenon DEF ConnectParse, Then, Keeps
  <1>4. ASSUME NEW h, NEW d, NEW e, Opens(s, b, h, d, e)
        PROVE  Keeps(ConnectParse(s), ConnectParse(t), ReadConnect, b)
    <2>1. /\ IsResult(HeaderParse(s), h, d) /\ IsResult(HeaderParse(t), h, e)
          /\ d \in Seq(Byte) /\ e = Append(d, b)
      BY <1>4, Zenon DEF Opens
    <2>2. ConnectParse(s) = FromConnectHeader(s[1], d) /\ ConnectParse(t) = FromConnectHeader(t[1], e)
      <3>1. \A u : ConnectParse(u) = IF HeaderParse(u).ok
                                     THEN FromConnectHeader(u[1], HeaderParse(u).rest) ELSE Err
        BY Zenon DEF ConnectParse, Then, FromConnectHeader, FromClientId, FromWill, FromUsername,
                     FromPassword
      <3> QED
        BY <2>1, <3>1, Zenon DEF IsResult
    <2>3. t[1] = s[1]
      <3>1. Len(s) > 0
        BY <2>1, ErrIs, Zenon DEF HeaderParse, When, IsResult
      <3> QED
        BY <3>1
    <2> QED
      BY <1>2, <2>1, <2>2, <2>3, Zenon
  <1> QED
    BY <1>3, <1>4, HeaderOpens, Zenon

----------------------------------------------------------------------------
(* Every packet that is accepted.                                          *)

Accepted ==
    ReadConnect \cup ReadPublish \cup ReadSubscribe \cup ReadUnsubscribe \cup ConnAck
        \cup PacketIdOnly \cup SubAck \cup ReadEmpty

\* What a parser makes of s without and with b behind it.
Sound(r, q, s, b) ==
    \/ r = Err
    \/ \E out \in Accepted, rest \in Seq(Byte) :
        /\ r = Ok(out, rest) /\ q = Ok(out, Append(rest, b))
        /\ out.type \in LengthDelimited => NextFrameSome(s) /\ FrameLen(s) = Len(s) - Len(rest)

LEMMA FrameSound ==
  ASSUME NEW r, NEW q, NEW S, NEW s, NEW b, S \subseteq Accepted, KeepsFrame(r, q, S, s, b)
  PROVE  Sound(r, q, s, b)
  BY Zenon DEF KeepsFrame, Sound

LEMMA KeepsSound ==
  ASSUME NEW r, NEW q, NEW S, NEW s, NEW b, S \subseteq Accepted, Keeps(r, q, S, b),
         \A p \in S : p.type \notin LengthDelimited
  PROVE  Sound(r, q, s, b)
  BY Zenon DEF Keeps, Sound

LEMMA NotDelimited ==
  /\ \A p \in ReadConnect : p.type \notin LengthDelimited
  /\ \A p \in ConnAck : p.type \notin LengthDelimited
  /\ \A p \in PacketIdOnly : p.type \notin LengthDelimited
  /\ \A p \in ReadEmpty : p.type \notin LengthDelimited
  <1>1. /\ \A p \in ReadConnect : p.type = CONNECT
        /\ \A p \in ConnAck : p.type = CONNACK
        /\ \A p \in PacketIdOnly : p.type \in Acks
        /\ \A p \in ReadEmpty : p.type \in {PINGREQ, PINGRESP, DISCONNECT}
    BY DEF ReadConnect, ConnAck, PacketIdOnly, ReadEmpty
  <1>2. \A x \in Acks \cup {CONNECT, CONNACK, PINGREQ, PINGRESP, DISCONNECT} : x \notin LengthDelimited
    BY DEF Acks, CONNECT, CONNACK, PINGREQ, PINGRESP, DISCONNECT, LengthDelimited, PUBLISH, SUBSCRIBE,
           SUBACK, UNSUBSCRIBE, PUBACK, PUBREC, PUBREL, PUBCOMP, UNSUBACK
  <1> QED
    BY <1>1, <1>2, Zenon

LEMMA ParserOf ==
  ASSUME NEW u, Len(u) # 0, ParseType(u[1]), NEW n, n = PacketTypeOf(u[1])
  PROVE  /\ n = CONNECT => ParseOf(u) = ConnectParse(u)
         /\ n = CONNACK => ParseOf(u) = ConnAckParse(u)
         /\ n = PUBLISH => ParseOf(u) = PublishParse(u)
         /\ n \in Acks => ParseOf(u) = AckParse(n, u)
         /\ n = SUBSCRIBE => ParseOf(u) = SubscribeParse(u)
         /\ n = SUBACK => ParseOf(u) = SubAckParse(u)
         /\ n = UNSUBSCRIBE => ParseOf(u) = UnsubscribeParse(u)
         /\ n \in {PINGREQ, PINGRESP, DISCONNECT} => ParseOf(u) = EmptyParse(n, u)
  <1>1. ParseOf(u) = CASE n = CONNECT     -> ConnectParse(u)
                       [] n = SUBSCRIBE   -> SubscribeParse(u)
                       [] n = UNSUBSCRIBE -> UnsubscribeParse(u)
                       [] n = PINGREQ     -> PingReqParse(u)
                       [] n = DISCONNECT  -> DisconnectParse(u)
                       [] OTHER           -> PacketParse(u)
    BY Zenon DEF ParseOf
  <1>2. PacketParse(u) = CASE n = CONNACK  -> ConnAckParse(u)
                           [] n = PUBLISH  -> PublishParse(u)
                           [] n = PUBACK   -> PubAckParse(u)
                           [] n = PUBREC   -> PubRecParse(u)
                           [] n = PUBREL   -> PubRelParse(u)
                           [] n = PUBCOMP  -> PubCompParse(u)
                           [] n = SUBACK   -> SubAckParse(u)
                           [] n = UNSUBACK -> UnsubAckParse(u)
                           [] n = PINGRESP -> PingRespParse(u)
                           [] OTHER        -> Err
    BY Zenon DEF PacketParse
  <1> QED
    BY <1>1, <1>2 DEF CONNECT, CONNACK, PUBLISH, PUBACK, PUBREC, PUBREL, PUBCOMP, SUBSCRIBE, SUBACK,
           UNSUBSCRIBE, UNSUBACK, PINGREQ, PINGRESP, DISCONNECT, Acks, PubAckParse, PubRecParse,
           PubRelParse, PubCompParse, UnsubAckParse, PingReqParse, PingRespParse, DisconnectParse

LEMMA ParseSound ==
  ASSUME NEW s \in Seq(Byte), NEW b \in Byte
  PROVE  Sound(ParseOf(s), ParseOf(Append(s, b)), s, b)
  <1> SUFFICES ASSUME NEW t, t = Append(s, b) PROVE Sound(ParseOf(s), ParseOf(t), s, b)
    BY Zenon
  <1>1. CASE Len(s) = 0 \/ ~ParseType(s[1])
    BY <1>1, Zenon DEF ParseOf, Sound
  <1>2. CASE Len(s) # 0 /\ ParseType(s[1])
    <2>1. Len(t) # 0 /\ t[1] = s[1]
      BY <1>2
    <2>2. PICK n : n = PacketTypeOf(s[1])
      OBVIOUS
    <2>3. n = PacketTypeOf(t[1]) /\ ParseType(t[1])
      BY <1>2, <2>1, <2>2, Zenon
    <2>4. n \in 1..14
      BY <1>2, <2>2 DEF ParseType, ControlPacketTypes
    <2>5. n \in Acks \cup {CONNECT, CONNACK, PUBLISH, SUBSCRIBE, SUBACK, UNSUBSCRIBE}
                     \cup {PINGREQ, PINGRESP, DISCONNECT}
      BY <2>4 DEF CONNECT, CONNACK, PUBLISH, PUBACK, PUBREC, PUBREL, PUBCOMP, SUBSCRIBE, SUBACK,
           UNSUBSCRIBE, UNSUBACK, PINGREQ, PINGRESP, DISCONNECT, Acks
    <2>6. /\ ReadConnect \subseteq Accepted /\ ReadPublish \subseteq Accepted
          /\ ReadSubscribe \subseteq Accepted /\ ReadUnsubscribe \subseteq Accepted
          /\ ConnAck \subseteq Accepted /\ PacketIdOnly \subseteq Accepted
          /\ SubAck \subseteq Accepted /\ ReadEmpty \subseteq Accepted
      BY Zenon DEF Accepted
    <2>7. CASE n = CONNECT
      <3>1. ParseOf(s) = ConnectParse(s) /\ ParseOf(t) = ConnectParse(t)
        BY <1>2, <2>1, <2>2, <2>3, <2>7, ParserOf, Zenon
      <3> QED
        BY <2>6, <3>1, ConnectParsed, KeepsSound, NotDelimited, Zenon
    <2>8. CASE n = CONNACK
      <3>1. ParseOf(s) = ConnAckParse(s) /\ ParseOf(t) = ConnAckParse(t)
        BY <1>2, <2>1, <2>2, <2>3, <2>8, ParserOf, Zenon
      <3> QED
        BY <2>6, <3>1, ConnAckParsed, KeepsSound, NotDelimited, Zenon
    <2>9. CASE n = PUBLISH
      <3>1. ParseOf(s) = PublishParse(s) /\ ParseOf(t) = PublishParse(t)
        BY <1>2, <2>1, <2>2, <2>3, <2>9, ParserOf, Zenon
      <3> QED
        BY <2>6, <3>1, PublishParsed, FrameSound, Zenon
    <2>10. CASE n \in Acks
      <3>1. ParseOf(s) = AckParse(n, s) /\ ParseOf(t) = AckParse(n, t)
        BY <1>2, <2>1, <2>2, <2>3, <2>10, ParserOf, Zenon
      <3> QED
        BY <2>6, <2>10, <3>1, AckParsed, KeepsSound, NotDelimited, Zenon
    <2>11. CASE n = SUBSCRIBE
      <3>1. ParseOf(s) = SubscribeParse(s) /\ ParseOf(t) = SubscribeParse(t)
        BY <1>2, <2>1, <2>2, <2>3, <2>11, ParserOf, Zenon
      <3> QED
        BY <2>6, <3>1, SubscribeParsed, FrameSound, Zenon
    <2>12. CASE n = SUBACK
      <3>1. ParseOf(s) = SubAckParse(s) /\ ParseOf(t) = SubAckParse(t)
        BY <1>2, <2>1, <2>2, <2>3, <2>12, ParserOf, Zenon
      <3> QED
        BY <2>6, <3>1, SubAckParsed, FrameSound, Zenon
    <2>13. CASE n = UNSUBSCRIBE
      <3>1. ParseOf(s) = UnsubscribeParse(s) /\ ParseOf(t) = UnsubscribeParse(t)
        BY <1>2, <2>1, <2>2, <2>3, <2>13, ParserOf, Zenon
      <3> QED
        BY <2>6, <3>1, UnsubscribeParsed, FrameSound, Zenon
    <2>14. CASE n \in {PINGREQ, PINGRESP, DISCONNECT}
      <3>1. ParseOf(s) = EmptyParse(n, s) /\ ParseOf(t) = EmptyParse(n, t)
        BY <1>2, <2>1, <2>2, <2>3, <2>14, ParserOf, Zenon
      <3> QED
        BY <2>6, <2>14, <3>1, EmptyParsed, KeepsSound, NotDelimited, Zenon
    <2> QED
      BY <2>5, <2>7, <2>8, <2>9, <2>10, <2>11, <2>12, <2>13, <2>14, Zenon
  <1> QED
    BY <1>1, <1>2

LEMMA ParseAccepted ==
  ASSUME NEW s \in Seq(Byte), ParseOf(s).ok
  PROVE  /\ ParseOf(s).out \in Accepted
         /\ ParseOf(s).out.type \in LengthDelimited =>
                NextFrameSome(s) /\ FrameLen(s) = Len(s) - Len(ParseOf(s).rest)
  <1>1. PICK b \in Byte : b = 0
    BY DEF Byte
  <1>2. Sound(ParseOf(s), ParseOf(Append(s, b)), s, b)
    BY ParseSound
  <1>3. PICK out \in Accepted, rest \in Seq(Byte) :
            /\ ParseOf(s) = Ok(out, rest)
            /\ out.type \in LengthDelimited => NextFrameSome(s) /\ FrameLen(s) = Len(s) - Len(rest)
    BY <1>2, ErrIs, Zenon DEF Sound
  <1>4. IsResult(ParseOf(s), out, rest)
    BY <1>3, IsOk, Zenon
  <1> QED
    BY <1>3, <1>4, Zenon DEF IsResult

(* A parser that splits at the remaining length reads the frame next_frame *)
(* finds, and every parser leaves the bytes behind its packet alone, for   *)
(* every input a peer may send.                                            *)
THEOREM CodecReadsItsFrame == Spec => []ReadsItsFrame
  <1>1. IInv => ReadsItsFrame
    <2> SUFFICES ASSUME IInv, NEW r, r = ParseOf(wire), r.ok
                 PROVE  /\ \A b \in Stray : ParseOf(Append(wire, b)) = Ok(r.out, Append(r.rest, b))
                        /\ r.out.type \in LengthDelimited =>
                            NextFrameSome(wire) /\ FrameLen(wire) = Len(wire) - Len(r.rest)
      BY Zenon DEF ReadsItsFrame
    <2>1. wire \in Seq(Byte)
      BY DEF IInv, TypeOK
    <2>2. ASSUME NEW b \in Stray PROVE ParseOf(Append(wire, b)) = Ok(r.out, Append(r.rest, b))
      <3>1. b \in Byte
        BY CodecAssumption
      <3>2. Sound(r, ParseOf(Append(wire, b)), wire, b)
        BY <2>1, <3>1, ParseSound, Zenon
      <3>3. PICK out, rest : r = Ok(out, rest) /\ ParseOf(Append(wire, b)) = Ok(out, Append(rest, b))
        BY <3>2, ErrIs, Zenon DEF Sound
      <3>4. IsResult(r, out, rest)
        BY <3>3, IsOk, Zenon
      <3> QED
        BY <3>3, <3>4, Zenon DEF IsResult
    <2> QED
      BY <2>1, <2>2, ParseAccepted, Zenon
  <1> QED
    BY <1>1, AlwaysIInv, PTL

LEMMA AcceptedTypes ==
  /\ \A p \in ReadConnect : p.type = CONNECT
  /\ \A p \in ReadPublish : p.type = PUBLISH
  /\ \A p \in ReadSubscribe : p.type = SUBSCRIBE
  /\ \A p \in ReadUnsubscribe : p.type = UNSUBSCRIBE
  /\ \A p \in ConnAck : p.type = CONNACK
  /\ \A p \in PacketIdOnly : p.type \in Acks
  /\ \A p \in SubAck : p.type = SUBACK
  /\ \A p \in ReadEmpty : p.type \in {PINGREQ, PINGRESP, DISCONNECT}
  BY DEF ReadConnect, ReadPublish, ReadSubscribe, ReadUnsubscribe, ConnAck, PacketIdOnly, SubAck, ReadEmpty

LEMMA OptionElement == ASSUME NEW S, NEW o \in Option(S), NEW i \in 1..Len(o) PROVE o[i] \in S
  BY DEF Option

\* The types whose packets have no strings.
Stringless == Acks \cup {CONNACK, SUBACK, PINGREQ, PINGRESP, DISCONNECT}

LEMMA StringsByType ==
  ASSUME NEW p
  PROVE  /\ p.type = CONNECT => StringsOf(p) = {p.client_id} \cup {p.will[i].topic : i \in 1..Len(p.will)}
                                    \cup {p.username[i] : i \in 1..Len(p.username)}
         /\ p.type = PUBLISH => StringsOf(p) = {p.topic}
         /\ p.type = SUBSCRIBE => StringsOf(p) = {p.filters[i].topic : i \in 1..Len(p.filters)}
         /\ p.type = UNSUBSCRIBE => StringsOf(p) = {p.filters[i] : i \in 1..Len(p.filters)}
         /\ p.type \in Stringless => StringsOf(p) = {}
  <1>1. PICK n : n = p.type
    OBVIOUS
  <1> DEFINE A == {p.client_id} \cup {p.will[i].topic : i \in 1..Len(p.will)}
                                    \cup {p.username[i] : i \in 1..Len(p.username)}
             B == {p.topic}
             C == {p.filters[i].topic : i \in 1..Len(p.filters)}
             D == {p.filters[i] : i \in 1..Len(p.filters)}
             E == {}
  <1>2. StringsOf(p) = CASE n = CONNECT -> A [] n = PUBLISH -> B [] n = SUBSCRIBE -> C
                         [] n = UNSUBSCRIBE -> D [] OTHER -> E
    BY <1>1, Zenon DEF StringsOf
  <1> HIDE DEF A, B, C, D, E
  <1>3. /\ n = CONNECT => StringsOf(p) = A
        /\ n = PUBLISH => StringsOf(p) = B
        /\ n = SUBSCRIBE => StringsOf(p) = C
        /\ n = UNSUBSCRIBE => StringsOf(p) = D
        /\ n \in Stringless => StringsOf(p) = E
    BY <1>2 DEF Stringless, CONNECT, CONNACK, PUBLISH, PUBACK, PUBREC, PUBREL, PUBCOMP, SUBSCRIBE, SUBACK,
           UNSUBSCRIBE, UNSUBACK, PINGREQ, PINGRESP, DISCONNECT, Acks
  <1> QED
    BY <1>1, <1>3, Zenon DEF A, B, C, D, E

LEMMA StringsAreGood == ASSUME NEW p \in Accepted, NEW x \in StringsOf(p) PROVE x \in GoodTexts
  <1>1. CASE p \in ReadConnect
    <2>1. p.client_id \in GoodTexts /\ p.will \in Option(ReadWill) /\ p.username \in Option(GoodTexts)
      BY <1>1 DEF ReadConnect
    <2>2. \A i \in 1..Len(p.will) : p.will[i].topic \in GoodTexts
      <3>1. \A w \in ReadWill : w.topic \in GoodTexts
        BY DEF ReadWill
      <3> QED
        BY <2>1, <3>1, OptionElement, Zenon
    <2>3. \A i \in 1..Len(p.username) : p.username[i] \in GoodTexts
      BY <2>1, OptionElement, Zenon
    <2> QED
      <3>1. p.type = CONNECT
        BY <1>1, AcceptedTypes, Zenon
      <3>2. StringsOf(p) = {p.client_id} \cup {p.will[i].topic : i \in 1..Len(p.will)}
                                \cup {p.username[i] : i \in 1..Len(p.username)}
        BY <3>1, StringsByType, Zenon
      <3> QED
        BY <2>1, <2>2, <2>3, <3>2, Zenon
  <1>2. CASE p \in ReadPublish
    <2>1. p.topic \in GoodTexts
      BY <1>2 DEF ReadPublish
    <2> QED
      BY <1>2, <2>1, StringsByType, AcceptedTypes, Zenon
  <1>3. CASE p \in ReadSubscribe
    <2>1. p.filters \in Seq(ReadFilters)
      BY <1>3 DEF ReadSubscribe
    <2>2. \A f \in ReadFilters : f.topic \in GoodTexts
      BY DEF ReadFilters
    <2>3. \A i \in 1..Len(p.filters) : p.filters[i] \in ReadFilters
      BY <2>1
    <2> QED
      <3>1. p.type = SUBSCRIBE
        BY <1>3, AcceptedTypes, Zenon
      <3>2. StringsOf(p) = {p.filters[i].topic : i \in 1..Len(p.filters)}
        BY <3>1, StringsByType, Zenon
      <3> QED
        BY <2>2, <2>3, <3>2, Zenon
  <1>4. CASE p \in ReadUnsubscribe
    <2>1. p.filters \in Seq(ReadTopics)
      BY <1>4 DEF ReadUnsubscribe
    <2>2. \A i \in 1..Len(p.filters) : p.filters[i] \in ReadTopics
      BY <2>1
    <2>3. \A t \in ReadTopics : t \in GoodTexts
      BY DEF ReadTopics
    <2> QED
      <3>1. p.type = UNSUBSCRIBE
        BY <1>4, AcceptedTypes, Zenon
      <3>2. StringsOf(p) = {p.filters[i] : i \in 1..Len(p.filters)}
        BY <3>1, StringsByType, Zenon
      <3> QED
        BY <2>2, <2>3, <3>2, Zenon
  <1>5. CASE p \in ConnAck \cup PacketIdOnly \cup SubAck \cup ReadEmpty
    <2>1. p.type \in Stringless
      BY <1>5, AcceptedTypes, Zenon DEF Stringless
    <2> QED
      BY <2>1, StringsByType, Zenon
  <1> QED
    BY <1>1, <1>2, <1>3, <1>4, <1>5, Zenon DEF Accepted

LEMMA TypedBack ==
  ASSUME NEW p \in Accepted
  PROVE  /\ p.type = PUBLISH => p \in ReadPublish
         /\ p.type = UNSUBSCRIBE => p \in ReadUnsubscribe
         /\ p.type \in HasPacketId => p.pkid \in PacketId
  <1>1. PUBLISH \notin Acks \cup {CONNECT, CONNACK, SUBSCRIBE, UNSUBSCRIBE, SUBACK, PINGREQ, PINGRESP,
                                 DISCONNECT}
    BY DEF CONNECT, CONNACK, PUBLISH, PUBACK, PUBREC, PUBREL, PUBCOMP, SUBSCRIBE, SUBACK,
           UNSUBSCRIBE, UNSUBACK, PINGREQ, PINGRESP, DISCONNECT, Acks
  <1>2. UNSUBSCRIBE \notin Acks \cup {CONNECT, CONNACK, SUBSCRIBE, PUBLISH, SUBACK, PINGREQ, PINGRESP,
                                 DISCONNECT}
    BY DEF CONNECT, CONNACK, PUBLISH, PUBACK, PUBREC, PUBREL, PUBCOMP, SUBSCRIBE, SUBACK,
           UNSUBSCRIBE, UNSUBACK, PINGREQ, PINGRESP, DISCONNECT, Acks
  <1>3. \A x \in {CONNECT, CONNACK, PUBLISH, PINGREQ, PINGRESP, DISCONNECT} : x \notin HasPacketId
    BY DEF CONNECT, CONNACK, PUBLISH, PUBACK, PUBREC, PUBREL, PUBCOMP, SUBSCRIBE, SUBACK,
           UNSUBSCRIBE, UNSUBACK, PINGREQ, PINGRESP, DISCONNECT, Acks, HasPacketId
  <1>4. \A q \in ReadSubscribe \cup ReadUnsubscribe \cup PacketIdOnly \cup SubAck : q.pkid \in PacketId
    BY DEF ReadSubscribe, ReadUnsubscribe, PacketIdOnly, SubAck
  <1>5. ASSUME p.type = PUBLISH PROVE p \in ReadPublish
    <2>1. p \notin ReadConnect \cup ReadSubscribe \cup ReadUnsubscribe \cup ConnAck
      BY <1>1, <1>5, AcceptedTypes, Zenon
    <2>2. p \notin PacketIdOnly \cup SubAck \cup ReadEmpty
      BY <1>1, <1>5, AcceptedTypes, Zenon
    <2> QED
      BY <2>1, <2>2, Zenon DEF Accepted
  <1>6. ASSUME p.type = UNSUBSCRIBE PROVE p \in ReadUnsubscribe
    <2>1. p \notin ReadConnect \cup ReadPublish \cup ReadSubscribe \cup ConnAck
      BY <1>2, <1>6, AcceptedTypes, Zenon
    <2>2. p \notin PacketIdOnly \cup SubAck \cup ReadEmpty
      BY <1>2, <1>6, AcceptedTypes, Zenon
    <2> QED
      BY <2>1, <2>2, Zenon DEF Accepted
  <1>7. p.type \in HasPacketId => p.pkid \in PacketId
    BY <1>3, <1>4, AcceptedTypes, Zenon DEF Accepted
  <1> QED
    BY <1>5, <1>6, <1>7, Zenon

LEMMA IdNotZero == \A id \in PacketId : id # 0
  <1>1. PICK m \in Nat : m = MaxU16
    BY SMT DEF MaxU16
  <1>2. \A id \in 1..m : id # 0
    OBVIOUS
  <1> QED
    BY <1>1, <1>2, Zenon DEF PacketId

(* Nothing illegal gets in, whatever bytes a peer sends: the parsers let   *)
(* no control character, noncharacter, wildcard of a PUBLISH topic or zero *)
(* packet identifier through.                                              *)
THEOREM CodecAcceptedIsLegal == Spec => []AcceptedIsLegal
  <1>1. IInv => AcceptedIsLegal
    <2> SUFFICES ASSUME IInv, NEW p, p = ParseOf(wire).out, ParseOf(wire).ok
                 PROVE  /\ \A s \in StringsOf(p) : LegalText(s)
                        /\ p.type = PUBLISH => \A i \in 1..Len(p.topic) : p.topic[i] \notin Wildcards
                        /\ p.type \in HasPacketId => p.pkid # 0
                        /\ p.type = PUBLISH => \A i \in 1..Len(p.pkid) : p.pkid[i] # 0
      BY Zenon DEF AcceptedIsLegal
    <2>1. wire \in Seq(Byte)
      BY DEF IInv, TypeOK
    <2>2. p \in Accepted
      BY <2>1, ParseAccepted, Zenon
    <2>3. \A s \in StringsOf(p) : LegalText(s)
      BY <2>2, StringsAreGood, GoodIsLegal, Zenon
    <2>4. p.type \in HasPacketId => p.pkid # 0
      BY <2>2, TypedBack, IdNotZero, Zenon
    <2>5. ASSUME p.type = PUBLISH
          PROVE  /\ \A i \in 1..Len(p.topic) : p.topic[i] \notin Wildcards
                 /\ \A i \in 1..Len(p.pkid) : p.pkid[i] # 0
      <3>1. p \in ReadPublish
        BY <2>2, <2>5, TypedBack, Zenon
      <3>2. ~ContainsWildcardChar(p.topic) /\ p.pkid \in Option(PacketId)
        BY <3>1 DEF ReadPublish
      <3> QED
        BY <3>2, OptionElement, IdNotZero, Zenon DEF ContainsWildcardChar
    <2> QED
      BY <2>3, <2>4, <2>5, Zenon
  <1> QED
    BY <1>1, AlwaysIInv, PTL

LEMMA StartOfText == ASSUME NEW t \in Texts PROVE TextStart(t) \in Seq(Nat)
  <1>1. t.chars \in Seq(Nat)
    BY DEF Texts
  <1>2. (IF t.pad > 0 THEN <<FILL>> ELSE << >>) \in Seq(Nat)
    BY DEF FILL
  <1> HIDE DEF TextStart
  <1> SUFFICES ASSUME NEW a \in Seq(Nat), NEW c \in Seq(Nat), TextStart(t) = a \o c
               PROVE  TextStart(t) \in Seq(Nat)
    BY <1>1, <1>2, Zenon DEF TextStart
  <1> QED
    OBVIOUS

(* The check of the wildcards decides the rule about topic levels, for     *)
(* every filter that is built and every one that is read.                  *)
THEOREM CodecWildcardsByLevel == Spec => []WildcardsByLevel
  <1>0. \A t \in Texts : WildcardsValid(t) <=> LegalFilter(TextStart(t))
    BY StartOfText, WildcardCheckDecides, Zenon DEF WildcardsValid
  <1>1. ASSUME IInv, built.type = SUBSCRIBE
        PROVE  ChecksFirst(built) <=>
            \A i \in 1..Len(built.filters) : LegalFilter(TextStart(built.filters[i].topic))
    <2>1. built \in Subscribe
      BY <1>1, BuiltKinds DEF IInv
    <2>2. built.filters \in Seq(TopicFilter)
      BY <2>1 DEF Subscribe
    <2>3. \A i \in 1..Len(built.filters) : built.filters[i] \in TopicFilter
      BY <2>2
    <2>4. \A f \in TopicFilter : f.topic \in Texts
      BY DEF TopicFilter
    <2>5. ChecksFirst(built) = SubscribeValid(built)
      BY <1>1, TypesDiffer DEF ChecksFirst
    <2> QED
      BY <1>0, <2>3, <2>4, <2>5, Zenon DEF SubscribeValid, FilterValid
  <1>2. ASSUME IInv, built.type = UNSUBSCRIBE
        PROVE  ChecksFirst(built) <=>
            \A i \in 1..Len(built.filters) : LegalFilter(TextStart(built.filters[i]))
    <2>1. built \in Unsubscribe
      BY <1>2, BuiltKinds DEF IInv
    <2>2. built.filters \in Seq(Texts)
      BY <2>1 DEF Unsubscribe
    <2>3. \A i \in 1..Len(built.filters) : built.filters[i] \in Texts
      BY <2>2
    <2>5. ChecksFirst(built) = UnsubscribeValid(built)
      BY <1>2, TypesDiffer DEF ChecksFirst
    <2> QED
      BY <1>0, <2>3, <2>5, Zenon DEF UnsubscribeValid
  <1>3. ASSUME IInv, ParseOf(wire).ok, ParseOf(wire).out.type = UNSUBSCRIBE,
               NEW s \in StringsOf(ParseOf(wire).out)
        PROVE  LegalFilter(s)
    <2>1. wire \in Seq(Byte)
      BY <1>3 DEF IInv, TypeOK
    <2>2. PICK p \in ReadUnsubscribe : p = ParseOf(wire).out
      BY <1>3, <2>1, ParseAccepted, TypedBack, Zenon
    <2>3. p.filters \in Seq(ReadTopics)
      BY <2>2 DEF ReadUnsubscribe
    <2>4. \A i \in 1..Len(p.filters) : p.filters[i] \in ReadTopics
      BY <2>3
    <2>5. s \in ReadTopics
      <3>0. p.type = UNSUBSCRIBE /\ s \in StringsOf(p)
        BY <1>3, <2>2
      <3>1. StringsOf(p) = {p.filters[i] : i \in 1..Len(p.filters)}
        BY <3>0, StringsByType, Zenon
      <3>2. PICK i \in 1..Len(p.filters) : s = p.filters[i]
        BY <3>0, <3>1, Zenon
      <3> QED
        BY <2>4, <3>2, Zenon
    <2>6. s \in Seq(Chars) /\ HasValidWildcard(s)
      BY <2>5 DEF ReadTopics, GoodTexts
    <2>7. \A c \in Chars : c \in Nat
      BY DEF Chars
    <2>8. s \in Seq(Nat)
      BY <2>6, <2>7
    <2> QED
      BY <2>6, <2>8, WildcardCheckDecides, Zenon
  <1>4. IInv => WildcardsByLevel
    BY <1>1, <1>2, <1>3, Zenon DEF WildcardsByLevel
  <1> QED
    BY <1>4, AlwaysIInv, PTL
=============================================================================
