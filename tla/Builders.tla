------------------------------ MODULE Builders ------------------------------
(***************************************************************************)
(* The builders of the packets a client sends, as the chains of calls an   *)
(* application may make on them.                                           *)
(***************************************************************************)
EXTENDS Packets

CONSTANTS
    ClientIds,      \* strings callers pass as a client id
    Names,          \* strings callers pass as a user name or a will topic
    Topics,         \* strings callers pass as a topic or a filter
    Data,           \* lengths of the will messages and passwords callers pass
    Payloads,       \* lengths of the payloads callers pass
    PacketIds,      \* packet identifiers callers pass
    Seconds         \* keep alive durations callers pass

ASSUME BuildersAssumption ==
    /\ ClientIds \cup Names \cup Topics \subseteq Texts
    /\ Data \cup Payloads \cup Seconds \subseteq Nat
    /\ PacketIds \subseteq PacketId

VARIABLES
    built,          \* the builder, or Nothing
    asked           \* history: the QoS of the last will() or qos() call

builderVars == <<built, asked>>

Nothing == [type |-> 0]

EmptyText == [chars |-> << >>, pad |-> 0]

BuilderInit == built = Nothing /\ asked = 0

----------------------------------------------------------------------------
(* ConnectBuilder.                                                         *)

DefaultKeepAlive == 60

NoConnect(id) ==
    [type |-> CONNECT, flags |-> {}, keepalive |-> DefaultKeepAlive, client_id |-> id,
     will |-> << >>, username |-> << >>, password |-> << >>]

\* create and new_unchecked: the validate_value create calls accepts any id.
CreateConnect(id) ==
    /\ built = Nothing
    /\ built' = NoConnect(id)
    /\ UNCHANGED asked

WithEmptyClientId ==
    /\ built = Nothing
    /\ built' = [NoConnect(EmptyText) EXCEPT !.flags = {"CLEAN_SESSION"}]
    /\ UNCHANGED asked

CleanSession ==
    /\ built.type = CONNECT
    /\ built' = [built EXCEPT !.flags = @ \cup {"CLEAN_SESSION"}]
    /\ UNCHANGED asked

\* A KeepAlive is a u16: the conversion of a longer Duration fails.
Keepalive(seconds) ==
    /\ built.type = CONNECT
    /\ seconds <= MaxU16
    /\ built' = [built EXCEPT !.keepalive = seconds]
    /\ UNCHANGED asked

WillQos(qos) == IF qos = 1 THEN {"WILL_QOS_1"} ELSE IF qos = 2 THEN {"WILL_QOS_2"} ELSE {}

\* Mutant of WillFlags: without the mask WILL_QOS_RESET.
WillFlagsNoReset(flags, qos, retain) ==
    flags \cup {"WILL_FLAG"} \cup WillQos(qos) \cup (IF retain THEN {"WILL_RETAIN"} ELSE {})

WillFlags(flags, qos, retain) ==
    ((flags \cup {"WILL_FLAG"}) \ {"WILL_QOS_1", "WILL_QOS_2"})
        \cup WillQos(qos)
        \cup (IF retain THEN {"WILL_RETAIN"} ELSE {})

Will(topic, message, qos, retain) ==
    /\ built.type = CONNECT
    /\ built' = [built EXCEPT !.will = <<[topic |-> topic, message |-> message]>>,
                              !.flags = WillFlags(@, qos, retain)]
    /\ asked' = qos

Username(name) ==
    /\ built.type = CONNECT
    /\ built' = [built EXCEPT !.username = <<name>>, !.flags = @ \cup {"USERNAME"}]
    /\ UNCHANGED asked

\* Mutant of UsernamePassword: the PASSWORD flag is left out.
UsernamePasswordNoFlag(name, password) ==
    /\ built.type = CONNECT
    /\ built' = [built EXCEPT !.username = <<name>>, !.password = <<password>>,
                              !.flags = @ \cup {"USERNAME"}]
    /\ UNCHANGED asked

UsernamePassword(name, password) ==
    /\ built.type = CONNECT
    /\ built' = [built EXCEPT !.username = <<name>>, !.password = <<password>>,
                              !.flags = @ \cup {"USERNAME", "PASSWORD"}]
    /\ UNCHANGED asked

----------------------------------------------------------------------------
(* PublishBuilder.                                                         *)

NewPublish(topic, payload) ==
    /\ built = Nothing
    /\ built' = [type |-> PUBLISH, flags |-> {}, pkid |-> << >>,
                 topic |-> topic, payload |-> payload]
    /\ UNCHANGED asked

Retain ==
    /\ built.type = PUBLISH
    /\ built' = [built EXCEPT !.flags = @ \cup {"RETAIN"}]
    /\ UNCHANGED asked

\* qos(AtLeastOnce) and qos(ExactlyOnce)
QosFlags(flags, qos, dup) ==
    (flags \ {"QOS_1", "QOS_2"})
        \cup (IF qos = 1 THEN {"QOS_1"} ELSE {"QOS_2"})
        \cup (IF dup THEN {"DUP"} ELSE {})

\* Mutant of SetQos: a second call adds a second identifier.
SetQosAppends(qos, dup, pkid) ==
    /\ built.type = PUBLISH
    /\ built' = [built EXCEPT !.pkid = Append(@, pkid), !.flags = QosFlags(@, qos, dup)]
    /\ asked' = qos

SetQos(qos, dup, pkid) ==
    /\ built.type = PUBLISH
    /\ built' = [built EXCEPT !.pkid = <<pkid>>, !.flags = QosFlags(@, qos, dup)]
    /\ asked' = qos

\* qos(AtMostOnce)
ResetQos ==
    /\ built.type = PUBLISH
    /\ built' = [built EXCEPT !.flags = @ \ {"QOS_1", "QOS_2"}]
    /\ asked' = 0

----------------------------------------------------------------------------
(* SubscribeBuilder and UnsubscribeBuilder.                                *)

NewSubscribe(pkid, filters) ==
    /\ built = Nothing
    /\ built' = [type |-> SUBSCRIBE, pkid |-> pkid, filters |-> filters]
    /\ UNCHANGED asked

NewUnsubscribe(pkid, filters) ==
    /\ built = Nothing
    /\ built' = [type |-> UNSUBSCRIBE, pkid |-> pkid, filters |-> filters]
    /\ UNCHANGED asked

\* Bound: up to two filters in a packet.
UpToTwo(S) == {<< >>} \cup {<<x>> : x \in S} \cup {<<x, y>> : x, y \in S}

Filters == [topic : Topics, qos : RequestedQos]

BuilderCall ==
    \/ \E id \in ClientIds : CreateConnect(id)
    \/ WithEmptyClientId
    \/ CleanSession
    \/ \E s \in Seconds : Keepalive(s)
    \/ \E t \in Topics, n \in Payloads : NewPublish(t, n)
    \/ \E t \in Names, n \in Data, q \in 0..2, r \in BOOLEAN : Will(t, n, q, r)
    \/ \E u \in Names : Username(u) \/ \E n \in Data : UsernamePassword(u, n)
    \/ Retain
    \/ \E q \in 1..2, d \in BOOLEAN, id \in PacketIds : SetQos(q, d, id)
    \/ ResetQos
    \/ \E id \in PacketIds :
        \/ \E fs \in UpToTwo(Filters) : NewSubscribe(id, fs)
        \/ \E ts \in UpToTwo(Topics) : NewUnsubscribe(id, ts)
=============================================================================
