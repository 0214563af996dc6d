----------------------------- MODULE Properties -----------------------------
(***************************************************************************)
(* The fields of MQTT packets and the property blocks built from them: how   *)
(* ser/mod.rs and wire.rs write a field, how de/deserializer.rs reads one,    *)
(* and properties.rs.                                                       *)
(*                                                                         *)
(* A byte is a number below 256 and a string a sequence of bytes. What is    *)
(* written is a sequence of chunks; Invalid is a chunk the serializer        *)
(* refuses. What is read is a result with the position it left the           *)
(* deserializer at, which a failed read moves too.                          *)
(***************************************************************************)
EXTENDS Varint, SequencesExt

CONSTANT U16_MAX    \* longest string or binary field, 65535 in the code

ASSUME FieldAssumption == U16_MAX \in Nat

-----------------------------------------------------------------------------
(* Writing fields: wire.rs, ser/mod.rs *)

Be16(n) == <<n \div 256, n % 256>>
Be32(n) == <<n \div 16777216, (n \div 65536) % 256, (n \div 256) % 256, n % 256>>

\* Utf8String and BinaryData.
Prefixed(data) == IF Len(data) > U16_MAX THEN Invalid ELSE Be16(Len(data)) \o data

VarintChunk(n) == IF n > MQTT_VARINT_MAX THEN Invalid ELSE Encoded[n]

-----------------------------------------------------------------------------
(* Reading fields: de/deserializer.rs *)

Ok(value, at) == [ok |-> TRUE, value |-> value, at |-> at]
Err(at) == [ok |-> FALSE, value |-> None, at |-> at]

\* Rust's `?` operator.
Then(result, Step(_, _)) == IF result.ok THEN Step(result.value, result.at) ELSE result

\* Map the value of a result.
With(result, F(_)) == IF result.ok THEN Ok(F(result.value), result.at) ELSE result

Rest(buf, at) == SubSeq(buf, at + 1, Len(buf))

\* try_take_n
Take(buf, at, n) ==
    IF Len(buf) - at < n THEN Err(at) ELSE Ok(SubSeq(buf, at + 1, at + n), at + n)

U8(buf, at) == With(Take(buf, at, 1), LAMBDA b : b[1])
U16(buf, at) == With(Take(buf, at, 2), LAMBDA b : 256 * b[1] + b[2])
U32(buf, at) ==
    With(Take(buf, at, 4),
         LAMBDA b : 16777216 * b[1] + 65536 * b[2] + 256 * b[3] + b[4])

\* deserialize_bool
Bool(buf, at) ==
    Then(U8(buf, at), LAMBDA b, end : IF b > 1 THEN Err(end) ELSE Ok(b = 1, end))

\* read_varint takes the bytes it looks at also when it fails.
VarintAt(buf, at) ==
    LET rest == Rest(buf, at)
        read == read_mqtt_u32_varint(rest)
    IN  CASE read = None -> Err(Len(buf))
          [] read = Invalid -> Err(at + IF Ends(rest) = {} THEN MAX_BYTES
                                        ELSE CHOOSE n \in Ends(rest) : TRUE)
          [] OTHER -> Ok(read.value, at + read.len)

\* deserialize_bytes with a length of its own.
Binary(buf, at) == Then(U16(buf, at), LAMBDA n, start : Take(buf, start, n))

\* Of the bytes from 128 on, the inputs hold only ones that UTF-8 never starts
\* a character with.
IsUtf8(bytes) == \A i \in DOMAIN bytes : bytes[i] < 128

\* deserialize_str
Str(buf, at) ==
    Then(Binary(buf, at), LAMBDA s, end : IF IsUtf8(s) THEN Ok(s, end) ELSE Err(end))

\* deserialize_seq for a property block: the bytes of the block.
Block(buf, at) == Then(VarintAt(buf, at), LAMBDA n, start : Take(buf, start, n))

\* deserialize_option: None when nothing is left.
Optional(buf, at, read) == IF at = Len(buf) THEN Ok(None, at) ELSE read

-----------------------------------------------------------------------------
(* properties.rs: a property is a pair of a name and a value *)

PropertyIdentifier ==
    [PayloadFormatIndicator |-> 1, MessageExpiryInterval |-> 2, ContentType |-> 3,
     ResponseTopic |-> 8, CorrelationData |-> 9, SubscriptionIdentifier |-> 11,
     SessionExpiryInterval |-> 17, AssignedClientIdentifier |-> 18,
     ServerKeepAlive |-> 19, AuthenticationMethod |-> 21, AuthenticationData |-> 22,
     RequestProblemInformation |-> 23, WillDelayInterval |-> 24,
     RequestResponseInformation |-> 25, ResponseInformation |-> 26,
     ServerReference |-> 28, ReasonString |-> 31, ReceiveMaximum |-> 33,
     TopicAliasMaximum |-> 34, TopicAlias |-> 35, MaximumQoS |-> 36,
     RetainAvailable |-> 37, UserProperty |-> 38, MaximumPacketSize |-> 39,
     WildcardSubscriptionAvailable |-> 40, SubscriptionIdentifierAvailable |-> 41,
     SharedSubscriptionAvailable |-> 42]

Names == DOMAIN PropertyIdentifier

BooleanProperties ==
    {"PayloadFormatIndicator", "RequestProblemInformation",
     "RequestResponseInformation", "RetainAvailable", "WildcardSubscriptionAvailable",
     "SubscriptionIdentifierAvailable", "SharedSubscriptionAvailable"}
ByteProperties == BooleanProperties \cup {"MaximumQoS"}
ShortProperties ==
    {"ServerKeepAlive", "ReceiveMaximum", "TopicAliasMaximum", "TopicAlias"}
LongProperties ==
    {"MessageExpiryInterval", "SessionExpiryInterval", "WillDelayInterval",
     "MaximumPacketSize"}
StringProperties ==
    {"ContentType", "ResponseTopic", "AuthenticationMethod", "ResponseInformation",
     "ServerReference", "ReasonString", "AssignedClientIdentifier"}
BinaryProperties == {"CorrelationData", "AuthenticationData"}

Property(name, value) == <<name, value>>
NameOf(p) == p[1]
ValueOf(p) == p[2]

\* Property::has_valid_value
HasValidValue(p) ==
    CASE NameOf(p) \in BooleanProperties -> ValueOf(p) <= 1
      [] NameOf(p) = "MaximumQoS" -> ValueOf(p) <= 2
      [] NameOf(p) = "SubscriptionIdentifier" -> ValueOf(p) \in 1 .. MQTT_VARINT_MAX
      [] OTHER -> TRUE

WillProperties ==
    {"PayloadFormatIndicator", "MessageExpiryInterval", "ContentType",
     "ResponseTopic", "CorrelationData", "UserProperty"}

\* Property::is_valid_for, by PropertyContext.
ContextProperties ==
    [Publish |-> WillProperties \cup {"TopicAlias"}, Will |-> WillProperties,
     Subscribe |-> {"SubscriptionIdentifier", "UserProperty"},
     Unsubscribe |-> {"UserProperty"},
     Disconnect |-> {"SessionExpiryInterval", "ReasonString", "UserProperty",
                     "ServerReference"}]

IsValidFor(p, context) == HasValidValue(p) /\ NameOf(p) \in ContextProperties[context]

\* Property::serialize
PropertyChunks(p) ==
    <<Encoded[PropertyIdentifier[NameOf(p)]]>> \o
    CASE NameOf(p) \in ByteProperties -> <<<<ValueOf(p)>>>>
      [] NameOf(p) \in ShortProperties -> <<Be16(ValueOf(p))>>
      [] NameOf(p) \in LongProperties -> <<Be32(ValueOf(p))>>
      [] NameOf(p) \in StringProperties \cup BinaryProperties -> <<Prefixed(ValueOf(p))>>
      [] NameOf(p) = "SubscriptionIdentifier" -> <<VarintChunk(ValueOf(p))>>
      [] NameOf(p) = "UserProperty" -> <<Prefixed(ValueOf(p)[1]), Prefixed(ValueOf(p)[2])>>

\* Varint::encoded_len
EncodedLen(n) == Len(Encoded[n])

\* A plausible bug: the key of a user property is not counted.
SizeWithoutKey(p) ==
    EncodedLen(PropertyIdentifier[NameOf(p)]) +
    CASE NameOf(p) \in ByteProperties -> 1
      [] NameOf(p) \in ShortProperties -> 2
      [] NameOf(p) \in LongProperties -> 4
      [] NameOf(p) \in StringProperties \cup BinaryProperties -> Len(ValueOf(p)) + 2
      [] NameOf(p) = "SubscriptionIdentifier" -> EncodedLen(ValueOf(p))
      [] NameOf(p) = "UserProperty" -> Len(ValueOf(p)[2]) + 2

\* Property::size
Size(p) ==
    EncodedLen(PropertyIdentifier[NameOf(p)]) +
    CASE NameOf(p) \in ByteProperties -> 1
      [] NameOf(p) \in ShortProperties -> 2
      [] NameOf(p) \in LongProperties -> 4
      [] NameOf(p) \in StringProperties \cup BinaryProperties -> Len(ValueOf(p)) + 2
      [] NameOf(p) = "SubscriptionIdentifier" -> EncodedLen(ValueOf(p))
      [] NameOf(p) = "UserProperty" -> Len(ValueOf(p)[2]) + 2 + Len(ValueOf(p)[1]) + 2

\* A plausible bug: a user property is read value first.
PropertyValueSwapped(name, buf, at) ==
    CASE name \in ByteProperties -> U8(buf, at)
      [] name \in ShortProperties -> U16(buf, at)
      [] name \in LongProperties -> U32(buf, at)
      [] name \in StringProperties -> Str(buf, at)
      [] name \in BinaryProperties -> Binary(buf, at)
      [] name = "SubscriptionIdentifier" -> VarintAt(buf, at)
      [] name = "UserProperty" ->
            Then(Str(buf, at), LAMBDA key, mid :
                With(Str(buf, mid), LAMBDA value : <<value, key>>))

\* PropertyVisitor::visit_enum
PropertyValue(name, buf, at) ==
    CASE name \in ByteProperties -> U8(buf, at)
      [] name \in ShortProperties -> U16(buf, at)
      [] name \in LongProperties -> U32(buf, at)
      [] name \in StringProperties -> Str(buf, at)
      [] name \in BinaryProperties -> Binary(buf, at)
      [] name = "SubscriptionIdentifier" -> VarintAt(buf, at)
      [] name = "UserProperty" ->
            Then(Str(buf, at), LAMBDA key, mid :
                With(Str(buf, mid), LAMBDA value : <<key, value>>))

\* Property::deserialize
PropertyAt(buf, at) ==
    Then(VarintAt(buf, at), LAMBDA id, start :
        LET named == {n \in Names : PropertyIdentifier[n] = id}
            name == CHOOSE n \in named : TRUE
        IN  IF named = {}
            THEN Err(start)
            ELSE With(PropertyValue(name, buf, start),
                      LAMBDA value : Property(name, value)))

-----------------------------------------------------------------------------
(* Property collections: PropertiesData *)

Slice(props) == [tag |-> "Slice", props |-> props]
EncodedBlock(block) == [tag |-> "Encoded", block |-> block]
Correlated(data, props) ==
    [tag |-> "WithCorrelation", correlation |-> Property("CorrelationData", data),
     props |-> props]

\* A plausible bug: the properties of a reply replace its correlation data.
WithPropertiesAlone(ps, props) == Slice(props)

\* Properties::with_properties
WithProperties(ps, props) ==
    IF ps.tag = "WithCorrelation" THEN Correlated(ValueOf(ps.correlation), props)
                                  ELSE Slice(props)

\* Properties::with_correlation
WithCorrelation(ps, data) == Correlated(data, IF ps.tag = "Encoded" THEN <<>> ELSE ps.props)

\* The properties of a collection that is not encoded, as PropertiesIter yields
\* them.
Listed(ps) == IF ps.tag = "WithCorrelation" THEN <<ps.correlation>> \o ps.props ELSE ps.props

\* Properties::valid_for; only the application's own properties are checked.
ValidFor(ps, context) == \A i \in DOMAIN Listed(ps) : IsValidFor(Listed(ps)[i], context)

\* Properties::size and Properties::serialize
PropertiesChunks(ps) ==
    IF ps.tag = "Encoded"
    THEN <<VarintChunk(Len(ps.block)), ps.block>>
    ELSE LET listed == Listed(ps)
         IN  <<VarintChunk(FoldLeft(+, 0, [i \in DOMAIN listed |-> Size(listed[i])]))>>
               \o FlattenSeq([i \in DOMAIN listed |-> PropertyChunks(listed[i])])

\* PropertiesIter::next over an encoded block: what it yields and where it goes
\* on. A property that does not decode is yielded as an error, and the iterator
\* goes on behind what was read of it.
NextItem(block, index) ==
    LET read == PropertyAt(Rest(block, index), 0)
    IN  [item |-> IF read.ok THEN read.value ELSE Invalid, index |-> index + read.at]

\* Everything that iterating from index yields.
RECURSIVE ItemsFrom(_, _)
ItemsFrom(block, index) ==
    IF index >= Len(block)
    THEN <<>>
    ELSE LET next == NextItem(block, index)
         IN  <<next.item>> \o ItemsFrom(block, next.index)

Items(ps) == IF ps.tag = "Encoded" THEN ItemsFrom(ps.block, 0) ELSE Listed(ps)

\* Properties::response_topic and correlation_data: the first one, if any.
FirstNamed(ps, name) ==
    LET named == SelectSeq(Items(ps), LAMBDA p : p # Invalid /\ NameOf(p) = name)
    IN  IF named = <<>> THEN None ELSE ValueOf(named[1])

=============================================================================
