------------------------------ MODULE MCWriter ------------------------------
(* Two threads that send packets of a few bytes through a send buffer that  *)
(* holds less than one of them.                                             *)
EXTENDS Writer

CONSTANTS t1, t2

Text(chars) == [chars |-> chars, pad |-> 0]

Letter == Text(<<FILL>>)

Control == Text(<<1>>)

OneLevel == Text(<<PLUS>>)

TwoWild == Text(<<PLUS, HASH>>)

PublishOf(topic) ==
    [type |-> PUBLISH, flags |-> {}, pkid |-> << >>, topic |-> topic, payload |-> 1]

Publish1 == PublishOf(Letter)

\* One byte more than a fixed header can declare.
TooLong == [Publish1 EXCEPT !.payload = MAX_REMAINING_LENGTH - 2]

SubscribeOf(topic) ==
    [type |-> SUBSCRIBE, pkid |-> 1, filters |-> <<[topic |-> topic, qos |-> 1]>>]

UnsubscribeOf(topic) == [type |-> UNSUBSCRIBE, pkid |-> 1, filters |-> <<topic>>]

Connect1 ==
    [type |-> CONNECT, flags |-> {"USERNAME"}, keepalive |-> 60, client_id |-> Text(<< >>),
     will |-> << >>, username |-> <<Letter>>, password |-> << >>]

BothThreads == {t1, t2}

OneThread == {t1}

AllPackets ==
    {Publish1, PublishOf(OneLevel), PublishOf(Control), TooLong,
     SubscribeOf(OneLevel),
     UnsubscribeOf(TwoWild),
     Connect1, DisconnectPacket}

PublishOnly == {Publish1}

LateChecked == {Publish1, PublishOf(Control)}

MCSendBuffer == 4

LargeSendBuffer == 100

MCMaxCalls == 2

Threads2 == Permutations(BothThreads)
=============================================================================
