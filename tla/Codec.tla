-------------------------------- MODULE Codec --------------------------------
(***************************************************************************)
(* From an application's packet to bytes and back: the packets (packets.rs,  *)
(* types.rs, will.rs, publication.rs), the serializer that writes them into  *)
(* a buffer (ser/mod.rs), their fixed headers (wire.rs) and the decoder of   *)
(* what arrives (de/received_packet.rs).                                    *)
(*                                                                         *)
(* The machine is a chain of exchanges: an application builds a publication, *)
(* a configuration or another packet (config.rs, publication.rs), the packet *)
(* is encoded into a buffer of some size, its bytes arrive at a client (a     *)
(* broker forwards a PUBLISH, and sends packets of its own), the receiver     *)
(* walks over the properties and may reply. External: the broker.           *)
(***************************************************************************)
EXTENDS Properties, FiniteSets

CONSTANTS
    Publications,   \* topic and payload of the publications an application starts
    PropertyLists,  \* property lists applications pass
    Correlations,   \* correlation data applications pass
    Replies,        \* payloads of replies
    PacketIds,      \* packet ids
    Rooms,          \* sizes of the buffers requests are encoded into
    Subscribes, Unsubscribes,  \* packets an application asks for
    ClientIds, Auths, Wills,   \* what a ConfigBuilder is given
    Controls,       \* acknowledgements and PINGREQs
    Disconnects,    \* DISCONNECTs an application asks for
    Frames,         \* packets the broker sends of its own
    RX_LEN, MAX_INBOUND,   \* receive buffer and inbound QoS 2 ids
    CLIENT_ID_CAPACITY, TOPIC_CAPACITY,   \* longest client id and will topic
    TARGET_TOPIC, TARGET_CORRELATION      \* capacities of OwnedResponseTarget

VARIABLES
    config,         \* the ConfigBuilder being filled
    publication,    \* the Publication being built
    target,         \* where it goes and the correlation data it was given last
    sent,           \* the packet that was encoded last, with its buffer
    wire,           \* its bytes, Invalid when it was refused
    got,            \* what from_buffer made of them
    index, items    \* PropertiesIter over the properties of got

vars == <<config, publication, target, sent, wire, got, index, items>>

MAX_FIXED_HEADER_SIZE == MAX_BYTES + 1

CONTROL_PACKET_WORKSPACE == MAX_FIXED_HEADER_SIZE + 4

-----------------------------------------------------------------------------
(* Fixed headers: wire.rs *)

MessageType ==
    [Connect |-> 1, ConnAck |-> 2, Publish |-> 3, PubAck |-> 4, PubRec |-> 5,
     PubRel |-> 6, PubComp |-> 7, Subscribe |-> 8, SubAck |-> 9, Unsubscribe |-> 10,
     UnsubAck |-> 11, PingReq |-> 12, PingResp |-> 13, Disconnect |-> 14, Auth |-> 15]

RequiredFlags(type) == IF type \in {"PubRel", "Subscribe", "Unsubscribe"} THEN 2 ELSE 0

Bit(set, value) == IF set THEN value ELSE 0

\* PublishHeader::fixed_header, ControlPacket::fixed_header
FixedHeader(p) ==
    16 * MessageType[p.type] +
    IF p.type = "Publish"
    THEN 2 * p.qos + Bit(p.retain, 1) + Bit(p.dup, 8)
    ELSE RequiredFlags(p.type)

\* A plausible bug: the flags announce a will's retain bit only.
ConnectFlagsNoWill(p) ==
    Bit(p.clean_start, 2)
      + (IF p.will = None THEN 0 ELSE 8 * p.will.qos + Bit(p.will.retained, 32))
      + Bit(p.auth # None, 192)

\* Connect::flags
ConnectFlags(p) ==
    Bit(p.clean_start, 2)
      + (IF p.will = None THEN 0 ELSE 4 + 8 * p.will.qos + Bit(p.will.retained, 32))
      + Bit(p.auth # None, 192)

-----------------------------------------------------------------------------
(* Packets: packets.rs, will.rs, types.rs *)

WillChunks(will) ==
    PropertiesChunks(Slice(will.properties)) \o <<Prefixed(will.topic), Prefixed(will.data)>>

ConnectChunks(p) ==
    <<Prefixed(<<77, 81, 84, 84>>), <<5>>, <<ConnectFlags(p)>>, Be16(p.keepalive)>>
      \o PropertiesChunks(p.properties) \o <<Prefixed(p.client_id)>>
      \o (IF p.will = None THEN <<>> ELSE WillChunks(p.will))
      \o (IF p.auth = None THEN <<>>
          ELSE <<Prefixed(p.auth.user_name), Prefixed(p.auth.password)>>)

\* PublishHeader: the payload is serialized behind it.
PublishChunks(p) ==
    <<Prefixed(p.topic)>>
      \o (IF p.packet_id = None THEN <<>> ELSE <<Be16(p.packet_id)>>)
      \o PropertiesChunks(p.properties)

\* SubscriptionOptions::serialize
OptionsByte(o) ==
    o.maximum_qos + Bit(o.no_local, 4) + Bit(o.retain_as_published, 8)
      + 16 * o.retain_behavior

TopicChunks(p) ==
    FlattenSeq([i \in DOMAIN p.topics |->
        IF p.type = "Subscribe"
        THEN <<Prefixed(p.topics[i].topic), <<OptionsByte(p.topics[i].options)>>>>
        ELSE <<Prefixed(p.topics[i])>>])

\* Reason, ReasonData and Disconnect: a code, then properties, each optional.
ReasonChunks(reason) ==
    IF reason = None THEN <<>>
    ELSE <<<<reason.code>>>> \o
         (IF reason.properties = None THEN <<>> ELSE PropertiesChunks(reason.properties))

Acks == {"PubAck", "PubRec", "PubRel", "PubComp"}

Chunks(p) ==
    CASE p.type = "Connect" -> ConnectChunks(p)
      [] p.type = "Publish" -> PublishChunks(p) \o <<p.payload>>
      [] p.type \in {"Subscribe", "Unsubscribe"} ->
            <<Be16(p.packet_id)>> \o PropertiesChunks(p.properties) \o TopicChunks(p)
      [] p.type \in Acks -> <<Be16(p.packet_id)>> \o ReasonChunks(p.reason)
      [] p.type = "Disconnect" -> ReasonChunks(p.reason)
      [] p.type = "PingReq" -> <<>>

-----------------------------------------------------------------------------
(* The serializer: ser/mod.rs *)

\* push_bytes, push and commit behind the room that is kept for the fixed header.
Push(room, body, chunk) ==
    IF \/ body = Invalid \/ chunk = Invalid
       \/ Len(chunk) > 0 /\ room < MAX_FIXED_HEADER_SIZE + Len(body) + Len(chunk)
    THEN Invalid
    ELSE body \o chunk

\* A plausible bug: the header's own byte is counted in the remaining length.
FinalizeCounted(header, body, room) ==
    LET len == Encoded[Len(body) + 1]
    IN  [offset |-> MAX_FIXED_HEADER_SIZE - Len(len) - 1, bytes |-> <<header>> \o len \o body]

\* finalize: the fixed header is written right before the body.
Finalize(header, body, room) ==
    LET len == VarintChunk(Len(body))
    IN  IF len = Invalid \/ room < MAX_FIXED_HEADER_SIZE
        THEN Invalid
        ELSE [offset |-> MAX_FIXED_HEADER_SIZE - Len(len) - 1,
              bytes |-> <<header>> \o len \o body]

\* encode_with_offset, encode_publish_with_offset
Encode(p, room) ==
    LET body == FoldLeft(LAMBDA acc, chunk : Push(room, acc, chunk), <<>>, Chunks(p))
    IN  IF body = Invalid THEN Invalid ELSE Finalize(FixedHeader(p), body, room)

-----------------------------------------------------------------------------
(* The decoder: de/received_packet.rs, reason_codes.rs *)

ReasonCodes ==
    {0, 1, 2, 4, 16, 17, 24, 25, 255} \cup (128 .. 137) \cup (140 .. 162)

ReasonCodeAt(buf, at) ==
    With(U8(buf, at), LAMBDA code : IF code \in ReasonCodes THEN code ELSE 255)

PropertiesAt(buf, at) == With(Block(buf, at), EncodedBlock)

ReasonDataAt(buf, at) ==
    Then(ReasonCodeAt(buf, at), LAMBDA code, end :
        With(Optional(buf, end, PropertiesAt(buf, end)),
             LAMBDA ps : [code |-> code, properties |-> ps]))

\* The reasons of acknowledgements and of DISCONNECT.
ReasonAt(buf, at) == Optional(buf, at, ReasonDataAt(buf, at))

ConnAckAt(buf, at) ==
    Then(Bool(buf, at), LAMBDA session_present, code_at :
        Then(ReasonCodeAt(buf, code_at), LAMBDA code, properties_at :
            With(PropertiesAt(buf, properties_at), LAMBDA ps :
                [type |-> "ConnAck", session_present |-> session_present,
                 reason_code |-> code, properties |-> ps])))

PublishAt(flags, buf, at) ==
    LET qos == (flags \div 2) % 4
    IN  IF qos > 2
        THEN Err(at)
        ELSE Then(Str(buf, at), LAMBDA topic, id_at :
            Then(IF qos > 0 THEN U16(buf, id_at) ELSE Ok(None, id_at),
                LAMBDA packet_id, properties_at :
                    With(PropertiesAt(buf, properties_at), LAMBDA ps :
                        [type |-> "Publish", topic |-> topic, packet_id |-> packet_id,
                         properties |-> ps, payload |-> <<>>, qos |-> qos,
                         retain |-> flags % 2 = 1, dup |-> flags >= 8])))

AckAt(type, buf, at) ==
    Then(U16(buf, at), LAMBDA id, reason_at :
        With(ReasonAt(buf, reason_at), LAMBDA reason :
            [type |-> type, packet_id |-> id, reason |-> reason]))

SubAckAt(type, buf, at) ==
    Then(U16(buf, at), LAMBDA id, properties_at :
        With(PropertiesAt(buf, properties_at), LAMBDA ps :
            [type |-> type, packet_id |-> id, properties |-> ps, codes |-> <<>>]))

FlagsValid(type, flags) == type = "Publish" \/ flags = RequiredFlags(type)

\* ControlPacketVisitor::visit_seq
ControlPacketAt(buf) ==
    Then(U8(buf, 0), LAMBDA header, length_at :
        Then(VarintAt(buf, length_at), LAMBDA length, at :
            LET types == {t \in DOMAIN MessageType : MessageType[t] = header \div 16}
                type == CHOOSE t \in types : TRUE
                flags == header % 16
            IN  IF types = {} \/ ~FlagsValid(type, flags)
                THEN Err(at)
                ELSE CASE type = "ConnAck" -> ConnAckAt(buf, at)
                       [] type = "Publish" -> PublishAt(flags, buf, at)
                       [] type \in Acks -> AckAt(type, buf, at)
                       [] type \in {"SubAck", "UnsubAck"} -> SubAckAt(type, buf, at)
                       [] type = "Disconnect" ->
                            With(ReasonAt(buf, at),
                                 LAMBDA reason : [type |-> type, reason |-> reason])
                       [] type = "PingResp" -> Ok([type |-> type], at)
                       [] OTHER -> Err(at)))

\* A plausible bug: bytes behind any packet are ignored.
FromBufferTrailing(buf) ==
    LET read == ControlPacketAt(buf)
        rest == Rest(buf, read.at)
    IN  CASE ~read.ok -> Invalid
          [] read.value.type = "Publish" -> [read.value EXCEPT !.payload = rest]
          [] read.value.type \in {"SubAck", "UnsubAck"} -> [read.value EXCEPT !.codes = rest]
          [] OTHER -> read.value

\* ReceivedPacket::from_buffer
FromBuffer(buf) ==
    LET read == ControlPacketAt(buf)
        rest == Rest(buf, read.at)
    IN  CASE ~read.ok -> Invalid
          [] read.ok /\ read.value.type = "Publish" -> [read.value EXCEPT !.payload = rest]
          [] read.ok /\ read.value.type \in {"SubAck", "UnsubAck"} ->
                [read.value EXCEPT !.codes = rest]
          [] OTHER -> IF rest = <<>> THEN read.value ELSE Invalid

-----------------------------------------------------------------------------
(* Building packets: config.rs, will.rs, publication.rs, types.rs *)

NothingBuilt == config = None /\ publication = None
Idle == NothingBuilt /\ wire = None

Init ==
    /\ config = None /\ publication = None /\ target = None
    /\ sent = None /\ wire = None /\ got = None /\ index = 0 /\ items = <<>>

\* What was exchanged before is forgotten.
Fresh == sent' = None /\ wire' = None /\ got' = None /\ index' = 0 /\ items' = <<>>

\* ConfigBuilder::new
NewConfig ==
    /\ Idle
    /\ config' = [client_id |-> <<>>, auth |-> None, will |-> None, keepalive |-> 60,
                  session_expiry_interval |-> 0]
    /\ UNCHANGED <<publication, target, sent, wire, got, index, items>>

\* client_id, auth, will, keepalive_interval and session_expiry_interval; a
\* refused value consumes the builder.
ConfigWith(field, value, accepted) ==
    /\ config # None
    /\ config' = IF accepted THEN [config EXCEPT ![field] = value] ELSE None
    /\ UNCHANGED <<publication, target, sent, wire, got, index, items>>

ConfigClientId(id) == ConfigWith("client_id", id, Len(id) <= CLIENT_ID_CAPACITY)
ConfigAuth(auth) == ConfigWith("auth", auth, config.auth = None)

\* validate_will_properties, Will::new
WillAccepted(will) ==
    /\ \A i \in DOMAIN will.properties : IsValidFor(will.properties[i], "Will")
    /\ Len(will.topic) <= TOPIC_CAPACITY

ConfigWill(will) == WillAccepted(will) /\ ConfigWith("will", will, config.will = None)
ConfigIntervals ==
    /\ config # None
    /\ config' = [config EXCEPT !.keepalive = 300, !.session_expiry_interval = 70000]
    /\ UNCHANGED <<publication, target, sent, wire, got, index, items>>

\* Publication::new, ResponseTarget::publication, OwnedResponseTarget::publication
NewPublication(topic, correlation, payload) ==
    [topic |-> topic, payload |-> payload, qos |-> 0, retain |-> FALSE,
     properties |-> IF correlation = None THEN Slice(<<>>)
                    ELSE WithCorrelation(Slice(<<>>), correlation)]

Start(to, payload) ==
    /\ publication' = NewPublication(to.topic, to.correlation, payload)
    /\ target' = to
    /\ Fresh
    /\ UNCHANGED config

New(p) == Idle /\ Start([topic |-> p.topic, correlation |-> None], p.payload)

Build(built, to) ==
    /\ publication # None
    /\ publication' = built /\ target' = to
    /\ UNCHANGED <<config, sent, wire, got, index, items>>

Qos(qos) == Build([publication EXCEPT !.qos = qos], target)
Retain == Build([publication EXCEPT !.retain = TRUE], target)
SetProperties(props) ==
    Build([publication EXCEPT !.properties = WithProperties(@, props)], target)
Correlate(data) ==
    Build([publication EXCEPT !.properties = WithCorrelation(@, data)],
          [target EXCEPT !.correlation = data])

\* InboundPublish::response_target
ResponseTarget ==
    [topic |-> FirstNamed(got.properties, "ResponseTopic"),
     correlation |-> FirstNamed(got.properties, "CorrelationData")]

IsInboundPublish == got # None /\ got # Invalid /\ got.type = "Publish"

\* InboundPublish::reply
Reply(payload) ==
    /\ NothingBuilt /\ IsInboundPublish
    /\ \E to \in {ResponseTarget} : to.topic # None /\ Start(to, payload)

\* InboundPublish::reply_owned, then OwnedResponseTarget::publication
ReplyOwned(payload) ==
    /\ NothingBuilt /\ IsInboundPublish
    /\ \E to \in {ResponseTarget} :
         /\ to.topic # None /\ Len(to.topic) <= TARGET_TOPIC
         /\ to.correlation # None => Len(to.correlation) <= TARGET_CORRELATION
         /\ Start(to, payload)

-----------------------------------------------------------------------------
(* Sending and receiving *)

Send(packet, room) ==
    /\ sent' = [packet |-> packet, room |-> room]
    /\ wire' = Encode(packet, room)
    /\ got' = None /\ index' = 0 /\ items' = <<>>

\* Connection::publish: the header of the PUBLISH, encoded.
Publish(id, room) ==
    /\ publication # None
    /\ ValidFor(publication.properties, "Publish")
    /\ Send([type |-> "Publish", topic |-> publication.topic,
             packet_id |-> IF publication.qos > 0 THEN id ELSE None,
             properties |-> publication.properties, payload |-> publication.payload,
             qos |-> publication.qos, retain |-> publication.retain, dup |-> FALSE], room)
    /\ publication' = None
    /\ UNCHANGED <<config, target>>

\* publish with properties that are not valid for it: InvalidRequest.
PublishInvalid ==
    /\ publication # None
    /\ ~ValidFor(publication.properties, "Publish")
    /\ publication' = None /\ target' = None
    /\ UNCHANGED <<config, sent, wire, got, index, items>>

\* subscribe and unsubscribe
SendRequest(p, room) ==
    /\ Idle
    /\ p.topics # <<>>
    /\ ValidFor(p.properties, p.type)
    /\ Send(p, room)
    /\ UNCHANGED <<config, publication, target>>

\* connect_handshake
Connect(clean_start, room) ==
    /\ config # None
    /\ Send([type |-> "Connect", clean_start |-> clean_start, will |-> config.will,
             auth |-> config.auth, client_id |-> config.client_id,
             keepalive |-> config.keepalive,
             properties |-> Slice(<<
                Property("MaximumPacketSize", RX_LEN),
                Property("SessionExpiryInterval", config.session_expiry_interval),
                Property("ReceiveMaximum", MAX_INBOUND)>>)], room)
    /\ config' = None
    /\ UNCHANGED <<publication, target>>

\* encode_control_packet, encode_pubrel: the workspace is on the stack.
SendControl(p) ==
    /\ Idle
    /\ Send(p, CONTROL_PACKET_WORKSPACE)
    /\ UNCHANGED <<config, publication, target>>

\* disconnect_with
DisconnectWith(reason) ==
    /\ Idle
    /\ reason # None /\ reason.properties # None => ValidFor(reason.properties, "Disconnect")
    /\ Send([type |-> "Disconnect", reason |-> reason], CONTROL_PACKET_WORKSPACE)
    /\ UNCHANGED <<config, publication, target>>

\* mark_publish_duplicate, before a retained PUBLISH is sent again.
MarkDuplicate ==
    /\ NothingBuilt
    /\ sent # None /\ wire # Invalid /\ got = None
    /\ sent.packet.type = "Publish" /\ sent.packet.qos > 0 /\ ~sent.packet.dup
    /\ sent' = [sent EXCEPT !.packet.dup = TRUE]
    /\ wire' = [wire EXCEPT !.bytes[1] = @ + 8]
    /\ UNCHANGED <<config, publication, target, got, index, items>>

\* External: a packet of the broker's own.
BrokerSends ==
    /\ Idle
    /\ \E frame \in Frames : wire' = [offset |-> 0, bytes |-> frame]
    /\ UNCHANGED <<config, publication, target, sent, got, index, items>>

Receive ==
    /\ wire # None /\ wire # Invalid /\ got = None
    /\ got' = FromBuffer(wire.bytes)
    /\ UNCHANGED <<config, publication, target, sent, wire, index, items>>

HasBlock == got # None /\ got # Invalid /\ got.type \in {"ConnAck", "Publish"}

\* PropertiesIter::next
Iterate ==
    /\ NothingBuilt /\ HasBlock
    /\ index < Len(got.properties.block)
    /\ \E next \in {NextItem(got.properties.block, index)} :
         index' = next.index /\ items' = Append(items, next.item)
    /\ UNCHANGED <<config, publication, target, sent, wire, got>>

\* The exchange is over.
Finish ==
    /\ NothingBuilt /\ wire # None
    /\ target' = None /\ Fresh
    /\ UNCHANGED <<config, publication>>

Next ==
    \/ NewConfig \/ ConfigIntervals
    \/ \E id \in ClientIds : ConfigClientId(id)
    \/ \E auth \in Auths : ConfigAuth(auth)
    \/ \E will \in Wills : ConfigWill(will)
    \/ \E p \in Publications : New(p)
    \/ \E qos \in 0 .. 2 : Qos(qos)
    \/ Retain
    \/ \E props \in PropertyLists : SetProperties(props)
    \/ \E data \in Correlations : Correlate(data)
    \/ \E payload \in Replies : Reply(payload) \/ ReplyOwned(payload)
    \/ \E id \in PacketIds, room \in Rooms : Publish(id, room)
    \/ PublishInvalid
    \/ \E p \in Subscribes, room \in Rooms : SendRequest(p, room)
    \/ \E p \in Unsubscribes, room \in Rooms : SendRequest(p, room)
    \/ \E clean_start \in BOOLEAN, room \in Rooms : Connect(clean_start, room)
    \/ \E p \in Controls : SendControl(p)
    \/ \E reason \in Disconnects : DisconnectWith(reason)
    \/ MarkDuplicate
    \/ BrokerSends \/ Receive \/ Iterate \/ Finish

Spec == Init /\ [][Next]_vars

-----------------------------------------------------------------------------
(* How a broker reads the packets only it receives, from the MQTT layout *)

Bits(byte, low, count) == (byte \div 2 ^ low) % 2 ^ count

FieldAt(kind, buf, at) ==
    CASE kind = "str" -> Str(buf, at)
      [] kind = "bin" -> Binary(buf, at)
      [] kind = "u8" -> U8(buf, at)
      [] kind = "u16" -> U16(buf, at)
      [] kind = "block" -> With(Block(buf, at), LAMBDA b : ItemsFrom(b, 0))

FieldsAt(kinds, buf, at) ==
    FoldLeft(LAMBDA read, kind :
                Then(read, LAMBDA values, next :
                    With(FieldAt(kind, buf, next), LAMBDA v : Append(values, v))),
             Ok(<<>>, at), kinds)

Optionally(bit, kinds) == IF bit = 1 THEN kinds ELSE <<>>

\* The fields of a packet; those of CONNECT follow from its flags, the eighth
\* byte of its body.
Layout(body, p) ==
    CASE p.type = "Connect" ->
            <<"str", "u8", "u8", "u16", "block", "str">>
              \o Optionally(Bits(body[8], 2, 1), <<"block", "str", "bin">>)
              \o Optionally(Bits(body[8], 7, 1), <<"str">>)
              \o Optionally(Bits(body[8], 6, 1), <<"bin">>)
      [] p.type = "Subscribe" ->
            <<"u16", "block">> \o FlattenSeq([i \in DOMAIN p.topics |-> <<"str", "u8">>])
      [] p.type = "Unsubscribe" -> <<"u16", "block">> \o [i \in DOMAIN p.topics |-> "str"]
      [] p.type = "PingReq" -> <<>>

ConnectMeant(fields, p) ==
    LET flags == fields[3]
    IN  /\ Bits(flags, 0, 1) = 0 /\ (Bits(flags, 1, 1) = 1) = p.clean_start
        /\ p.will = None => Bits(flags, 2, 4) = 0
        /\ p.will # None => /\ Bits(flags, 3, 2) = p.will.qos
                            /\ (Bits(flags, 5, 1) = 1) = p.will.retained
        /\ fields =
             <<<<77, 81, 84, 84>>, 5, flags, p.keepalive, Listed(p.properties), p.client_id>>
               \o (IF p.will = None THEN <<>>
                   ELSE <<p.will.properties, p.will.topic, p.will.data>>)
               \o (IF p.auth = None THEN <<>> ELSE <<p.auth.user_name, p.auth.password>>)

OptionsOf(byte) ==
    [maximum_qos |-> Bits(byte, 0, 2), no_local |-> Bits(byte, 2, 1) = 1,
     retain_as_published |-> Bits(byte, 3, 1) = 1, retain_behavior |-> Bits(byte, 4, 4)]

RequestMeant(fields, p) ==
    /\ fields[1] = p.packet_id /\ fields[2] = Listed(p.properties)
    /\ p.topics = [i \in DOMAIN p.topics |->
                     IF p.type = "Unsubscribe" THEN fields[2 + i]
                     ELSE [topic |-> fields[1 + 2 * i],
                           options |-> OptionsOf(fields[2 + 2 * i])]]

BrokerReads(body, p) ==
    \E read \in {FieldsAt(Layout(body, p), body, 0)} :
        /\ read.ok /\ read.at = Len(body)
        /\ p.type = "Connect" => ConnectMeant(read.value, p)
        /\ p.type \in {"Subscribe", "Unsubscribe"} => RequestMeant(read.value, p)

\* What a body may look like: a block is its length and that many bytes, a
\* string its length and that many characters.
StartsWithBlock(b) ==
    \E n \in 0 .. Len(b) : /\ Len(b) >= Len(Encoded[n]) + n
                           /\ SubSeq(b, 1, Len(Encoded[n])) = Encoded[n]
IsBlock(b) ==
    \E n \in 0 .. Len(b) : /\ Len(b) = Len(Encoded[n]) + n
                           /\ SubSeq(b, 1, Len(Encoded[n])) = Encoded[n]
IsReason(b) == Len(b) <= 1 \/ IsBlock(Rest(b, 1))
StartsWithMessage(b, ids) ==
    \E n \in 0 .. Len(b) : /\ n + 2 + ids <= Len(b) /\ SubSeq(b, 1, 2) = Be16(n)
                           /\ \A i \in 3 .. n + 2 : b[i] < 128
                           /\ StartsWithBlock(Rest(b, n + 2 + ids))

WellFormed(header, body) ==
    \/ header = 32 /\ Len(body) >= 2 /\ body[1] <= 1 /\ IsBlock(Rest(body, 2))
    \/ header \in {48, 49, 56, 57} /\ StartsWithMessage(body, 0)
    \/ header \in {50, 51, 52, 53, 58, 59, 60, 61} /\ StartsWithMessage(body, 2)
    \/ header \in {64, 80, 98, 112} /\ Len(body) >= 2 /\ IsReason(Rest(body, 2))
    \/ header \in {144, 176} /\ Len(body) >= 2 /\ StartsWithBlock(Rest(body, 2))
    \/ header = 208 /\ body = <<>>
    \/ header = 224 /\ IsReason(body)

-----------------------------------------------------------------------------
(* Properties *)

Framing == read_mqtt_u32_varint(Rest(wire.bytes, 1))
Body == Rest(wire.bytes, 1 + Framing.len)

\* What the serializer produces is exactly one MQTT frame: the remaining length
\* it writes in front of the body is the length of the body, and the frame lies
\* inside the buffer it was given, from the offset it returns. A PUBLISH marked
\* as a duplicate stays one (finalize, mark_publish_duplicate). Acknowledgements,
\* PUBREL and PINGREQ always fit the fixed workspace they are encoded in, so none
\* is lost for want of room (CONTROL_PACKET_WORKSPACE).
PacketIsOneFrame ==
    sent # None =>
        IF wire = Invalid THEN sent.packet.type \notin Acks \cup {"PingReq"}
        ELSE /\ Framing \notin {None, Invalid}
             /\ Framing.value = Len(Body)
             /\ wire.offset + Len(wire.bytes) <= sent.room

\* A decoded packet, with its properties as the application would list them.
Listing(p) == [p EXCEPT !.properties = Items(@)]

\* A client that receives what another client encoded decodes the same packet,
\* flags, packet id, payload and every property in its order included, and so
\* do the acknowledgements (MqttSerializer against from_buffer, Property::size
\* against Property::serialize and PropertyVisitor).
RoundTrip ==
    sent # None /\ got # None =>
        /\ sent.packet.type = "Publish" => got # Invalid /\ Listing(got) = Listing(sent.packet)
        /\ sent.packet.type \in Acks => got = sent.packet
        /\ sent.packet.type = "Disconnect" /\ sent.packet.reason = None => got = sent.packet

\* A broker that follows the connect flags, and the layout of SUBSCRIBE and
\* UNSUBSCRIBE, reads the fields the client meant and nothing is left over
\* (Connect::flags against Connect::serialize, SubscriptionOptions).
BrokerUnderstands ==
    sent # None /\ wire # Invalid
      /\ sent.packet.type \in {"Connect", "Subscribe", "Unsubscribe", "PingReq"} =>
        BrokerReads(Body, sent.packet)

\* A publication reaches the topic it was addressed to with the correlation
\* data it was given last: whatever the order in which properties and
\* correlation data were set, and also when it answers a request whose response
\* target was copied (with_properties, with_correlation, reply, reply_owned).
ReplyCorrelated ==
    sent # None /\ IsInboundPublish /\ target # None =>
        /\ got.topic = target.topic
        /\ FirstNamed(got.properties, "CorrelationData") =
             IF target.correlation # None THEN target.correlation
             ELSE FirstNamed(sent.packet.properties, "CorrelationData")

\* from_buffer accepts a frame of the broker exactly when it has the layout of a
\* packet a client may receive: no truncated field, no bytes behind a packet
\* without payload, no reserved flags, no other packet type.
AcceptsExactly ==
    got # None => (got # Invalid <=> WellFormed(wire.bytes[1], Body))

\* Every step of the property iterator takes at least one byte of the block and
\* never leaves it, so walking over any block ends, with or without properties
\* that do not decode. As long as every property decoded, what the iterator
\* yielded is the part of the block it walked over: encoding it again gives those
\* bytes (PropertiesIter::next, PropertyVisitor against Property::serialize).
IterationLossless ==
    HasBlock =>
        /\ Len(items) <= index /\ index <= Len(got.properties.block)
        /\ (\A i \in DOMAIN items : items[i] # Invalid) =>
              SubSeq(got.properties.block, 1, index) =
                FlattenSeq(FlattenSeq([i \in DOMAIN items |-> PropertyChunks(items[i])]))

\* disconnect_with sends a DISCONNECT with the reason and the properties the
\* caller selected, when they are valid for it.
DisconnectCarriesProperties ==
    sent # None /\ sent.packet.type = "Disconnect" => wire # Invalid

=============================================================================
