----------------------------- MODULE PacketReader -----------------------------
(***************************************************************************)
(* Framing of the inbound byte stream: PacketReader (de/packet_reader.rs),   *)
(* the fixed-header length it probes (varint.rs) and the loop that fills it  *)
(* from the transport (fill_packet_reader of session/drive.rs).             *)
(*                                                                         *)
(* A byte is a number below 2 * BASE: its part, plus BASE when another byte  *)
(* follows. The code has BASE = 128 and MAX_BYTES = 4.                      *)
(* External: the transport, which hands over any non-empty part of what the  *)
(* broker has sent, and the decoder, which may refuse a complete packet.     *)
(***************************************************************************)
EXTENDS Varint, SequencesExt

CONSTANTS
    CAPACITY,    \* the size of the RX buffer
    STREAM       \* bound on the bytes sent over one connection

ASSUME ReaderAssumption == CAPACITY \in Nat \ {0} /\ STREAM \in Nat

VARIABLES
    wire,            \* the bytes the broker has sent over this connection
    read,            \* how many of them the transport has handed over
    buffer,          \* PacketReader::buffer up to read_bytes
    packet_length,   \* PacketReader::packet_length
    taken,           \* the packets handed to the decoder on this connection
    live             \* Connection::live

vars == <<wire, read, buffer, packet_length, taken, live>>

Bytes == 0 .. 2 * BASE - 1

-----------------------------------------------------------------------------
(* packet_reader.rs *)

\* Plausible bugs: the type byte is not counted; the shortest header is not
\* probed.
probe_fixed_headerShort(bytes) ==
    LET rest == read_mqtt_u32_varint(Tail(bytes))
    IN  CASE Len(bytes) <= 1 -> None
          [] Len(bytes) > 1 /\ rest \in {None, Invalid} -> rest
          [] OTHER -> rest.len + rest.value

probe_fixed_headerLate(bytes) ==
    LET rest == read_mqtt_u32_varint(Tail(bytes))
    IN  CASE Len(bytes) <= 2 -> None
          [] Len(bytes) > 2 /\ rest \in {None, Invalid} -> rest
          [] OTHER -> 1 + rest.len + rest.value

\* The whole packet's length, once the fixed header is complete.
probe_fixed_header(bytes) ==
    LET rest == read_mqtt_u32_varint(Tail(bytes))
    IN  CASE Len(bytes) <= 1 -> None
          [] Len(bytes) > 1 /\ rest \in {None, Invalid} -> rest
          [] OTHER -> 1 + rest.len + rest.value

\* receive_buffer: where the window ends. Without a length it is one byte.
WindowEnd(bytes, length) == IF length = None THEN Len(bytes) + 1 ELSE length

\* Plausible bug: the window is not compared with the buffer.
MalformedUnbounded(bytes, length) == length = Invalid

\* receive_buffer: its error.
Malformed(bytes, length) ==
    IF length = Invalid THEN TRUE ELSE WindowEnd(bytes, length) > CAPACITY

packet_available(bytes, length) == length # None /\ Len(bytes) >= length

\* reset
Reset == buffer' = <<>> /\ packet_length' = None

Init ==
    /\ wire = <<>> /\ read = 0 /\ taken = <<>>
    /\ buffer = <<>> /\ packet_length = None
    /\ live = TRUE

\* Session::connect resets the reader before the first byte is read.
Reconnect ==
    /\ ~live
    /\ live' = TRUE
    /\ wire' = <<>> /\ read' = 0 /\ taken' = <<>>
    /\ Reset

\* The broker sends one more byte.
PeerSends(byte) ==
    /\ live /\ Len(wire) < STREAM
    /\ wire' = Append(wire, byte)
    /\ UNCHANGED <<read, buffer, packet_length, taken, live>>

\* One round of fill_packet_reader: count bytes of the window arrive, and the
\* header is probed for the next window before the caller can be dropped. A
\* length that is known stays. handle_disconnect resets the reader.
Fill(count) ==
    LET bytes == buffer \o SubSeq(wire, read + 1, read + count)
        length == IF packet_length # None
                  THEN packet_length ELSE probe_fixed_header(bytes)
    IN  /\ live /\ ~packet_available(buffer, packet_length)
        /\ read + count <= Len(wire)
        /\ Len(buffer) + count <= WindowEnd(buffer, packet_length)
        /\ read' = read + count
        /\ \/ /\ ~Malformed(bytes, length)
              /\ buffer' = bytes /\ packet_length' = length
              /\ UNCHANGED live
           \/ /\ Malformed(bytes, length)
              /\ live' = FALSE
              /\ Reset
        /\ UNCHANGED <<wire, taken>>

\* The transport fails, or ends the stream. handle_disconnect.
ReadFails ==
    /\ live /\ ~packet_available(buffer, packet_length)
    /\ live' = FALSE
    /\ Reset
    /\ UNCHANGED <<wire, read, taken>>

\* take_packet: the reader is reset before the packet is decoded. What does not
\* decode ends the connection.
take_packet(decodes) ==
    /\ live /\ packet_available(buffer, packet_length)
    /\ taken' = Append(taken, SubSeq(buffer, 1, packet_length))
    /\ live' = decodes
    /\ Reset
    /\ UNCHANGED <<wire, read>>

Next ==
    \/ Reconnect
    \/ \E byte \in Bytes : PeerSends(byte)
    \/ \E count \in 1 .. CAPACITY : Fill(count)
    \/ ReadFails
    \/ \E decodes \in BOOLEAN : take_packet(decodes)

Spec == Init /\ [][Next]_vars

-----------------------------------------------------------------------------
(* What a packet is, from the encoder's side *)

\* The packet that announces n bytes is this long.
FrameLen(n) == 1 + Len(Encoded[n]) + n

IsFrame(bytes) ==
    \E n \in 0 .. MQTT_VARINT_MAX :
        /\ Len(bytes) = FrameLen(n)
        /\ SubSeq(bytes, 2, Len(Encoded[n]) + 1) = Encoded[n]

\* Can these bytes begin a packet of at most limit bytes?
BeginsFrame(bytes, limit) ==
    \E n \in 0 .. MQTT_VARINT_MAX :
        /\ Len(bytes) <= FrameLen(n) /\ FrameLen(n) <= limit
        /\ \A i \in 2 .. Len(bytes) :
              i <= Len(Encoded[n]) + 1 => bytes[i] = Encoded[n][i - 1]

\* The variables have their types; the packet being read fits the RX buffer.
TypeOK ==
    /\ wire \in Seq(Bytes) /\ Len(wire) <= STREAM
    /\ read \in 0 .. Len(wire)
    /\ buffer \in Seq(Bytes) /\ Len(buffer) <= CAPACITY
    /\ packet_length \in {None} \cup 0 .. CAPACITY
    /\ taken \in Seq(Seq(Bytes))
    /\ live \in BOOLEAN

\* However the transport cuts the stream, no byte is lost, repeated or given to
\* the wrong packet: what take_packet handed over is the stream cut into packets
\* as write_mqtt_u32_varint announces them, and the buffer holds what follows.
\* The window of receive_buffer never reaches into the next packet: what is
\* buffered can always still become exactly one packet.
FramesStream ==
    /\ \A i \in DOMAIN taken : IsFrame(taken[i])
    /\ live => FlattenSeq(taken) \o buffer = SubSeq(wire, 1, read)
    /\ BeginsFrame(buffer, FrameLen(MQTT_VARINT_MAX))

\* A packet that is complete is available at once: fill_packet_reader never
\* waits for the transport with a whole packet in its buffer, which for a packet
\* without a body hangs on the empty window.
NoPacketHeldBack == IsFrame(buffer) => packet_available(buffer, packet_length)

\* The reader gives a connection up as malformed only when what it has read
\* begins no packet that fits the RX buffer, which is the Maximum Packet Size
\* the CONNECT announced.
RefusesOnlyMalformed ==
    [][\A count \in 1 .. CAPACITY :
          Fill(count) /\ ~live' =>
              ~BeginsFrame(buffer \o SubSeq(wire, read + 1, read + count), CAPACITY)]_vars

=============================================================================
