------------------------------- MODULE MCCodec -------------------------------
(***************************************************************************)
(* An instance of Codec with the varints of the code. Strings have at most   *)
(* MCU16 bytes, the inputs cover every kind of property, and the broker's     *)
(* frames are all bodies over a small alphabet of bytes: lengths, reason      *)
(* codes, property identifiers and a byte that continues a varint and starts  *)
(* no character.                                                            *)
(***************************************************************************)
EXTENDS Codec

MCU16 == 140

Text(n) == [i \in 1 .. n |-> 97]

MCPublications ==
    {[topic |-> <<116>>, payload |-> <<>>], [topic |-> <<>>, payload |-> Text(130)],
     [topic |-> Text(141), payload |-> <<1>>]}

MCPropertyLists ==
    {<<>>,
     <<Property("ResponseTopic", <<114>>), Property("PayloadFormatIndicator", 1)>>,
     <<Property("CorrelationData", <<9, 9>>), Property("ResponseTopic", <<114, 115>>)>>,
     <<Property("UserProperty", <<<<107>>, Text(120)>>), Property("TopicAlias", 258)>>,
     <<Property("MessageExpiryInterval", 66051), Property("ContentType", <<99>>)>>,
     <<Property("PayloadFormatIndicator", 2)>>, <<Property("ReceiveMaximum", 1)>>}

MCCorrelations == {<<>>, <<200, 1>>}

Options(qos, local, published, handling) ==
    [maximum_qos |-> qos, no_local |-> local, retain_as_published |-> published,
     retain_behavior |-> handling]

MCSubscribes ==
    [type : {"Subscribe"}, packet_id : {258},
     properties : {Slice(<<>>), Slice(<<Property("SubscriptionIdentifier", 200)>>),
                   Slice(<<Property("SubscriptionIdentifier", 0)>>),
                   Slice(<<Property("ContentType", <<>>)>>)},
     topics : {<<>>, <<[topic |-> <<97>>, options |-> Options(2, TRUE, FALSE, 2)]>>,
               <<[topic |-> <<97, 47>>, options |-> Options(0, FALSE, TRUE, 1)],
                 [topic |-> <<>>, options |-> Options(1, FALSE, FALSE, 0)]>>}]

MCUnsubscribes ==
    [type : {"Unsubscribe"}, packet_id : {7},
     properties : {Slice(<<>>), Slice(<<Property("UserProperty", <<<<1>>, <<>>>>)>>)},
     topics : {<<>>, <<<<97>>>>, <<<<97>>, <<98, 99>>>>}]

MCReplies == {<<>>, <<1, 200>>}
MCClientIds == {<<99>>, Text(65)}
MCAuths == {[user_name |-> <<117>>, password |-> <<0, 255>>], [user_name |-> <<>>, password |-> Text(141)]}

MCWills ==
    [topic : {<<119>>, Text(129)}, data : {<<0, 200>>}, qos : {0, 2}, retained : BOOLEAN,
     properties : {<<>>, <<Property("ContentType", <<99>>)>>, <<Property("TopicAlias", 1)>>}]

MCControls ==
    [type : Acks, packet_id : {1, 65535}, reason : [code : {0, 146}, properties : {None}]]
      \cup {[type |-> "PingReq"]}

MCDisconnects == {None} \cup [code : {0, 4}, properties : {None}]
MCDisconnectsWithProperties ==
    [code : {0}, properties : {None, Slice(<<Property("ReasonString", <<>>)>>)}]

\* Frames of the broker: any body, any block of a PUBLISH, and a CONNACK with
\* one of each of the properties.
Words(alphabet, n) == UNION {[1 .. k -> alphabet] : k \in 0 .. n}
Frame(header, body) == <<header>> \o Encoded[Len(body)] \o body

Headers == {0, 16, 32, 33, 48, 49, 50, 54, 61, 64, 80, 96, 98, 112, 144, 176, 192, 208, 224, 240}
BodyFrames ==
    {Frame(h, b) : h \in Headers, b \in Words({0, 1, 3, 128}, 4) \cup Words({0, 1, 128}, 5)}
BlockFrames ==
    {Frame(48, <<0, 0, Len(b)>> \o b) :
        b \in Words({0, 1, 9, 11, 38, 128}, 4) \cup Words({0, 1, 11, 38}, 5)}
ConnAckFrames ==
    {Frame(32, <<0, 0, Len(b)>> \o b) : b \in
        UNION {{<<id, 1>>, <<id, 0, 1>>, <<id, 0, 1, 97>>, <<id, 1, 2, 3, 4>>, <<id, 200, 1>>,
                <<id, 0, 0, 0, 1, 97>>} : id \in 1 .. 44}}

MCFrames == BodyFrames \cup BlockFrames \cup ConnAckFrames
MCNoFrames == {}

=============================================================================
