------------------------------- MODULE Varint -------------------------------
(***************************************************************************)
(* MQTT variable byte integers (varint.rs), shared by the framing of the    *)
(* inbound stream and by the packet encoder and decoder.                    *)
(*                                                                         *)
(* A byte of a varint is its part, plus BASE when another byte follows. The  *)
(* code has BASE = 128 and MAX_BYTES = 4.                                   *)
(***************************************************************************)
EXTENDS Naturals, Sequences

CONSTANTS
    BASE,        \* MQTT_VARINT_BASE
    MAX_BYTES,   \* MQTT_VARINT_MAX_BYTES
    None, Invalid

ASSUME VarintAssumption ==
    /\ BASE \in Nat \ {0, 1}
    /\ MAX_BYTES \in Nat \ {0}
    /\ None \notin Nat /\ Invalid \notin Nat /\ None # Invalid

MQTT_VARINT_MAX == BASE ^ MAX_BYTES - 1

More(byte) == byte >= BASE
Part(byte) == byte % BASE

\* write_mqtt_u32_varint: the encoding of every value that has one.
Encoded[value \in 0 .. MQTT_VARINT_MAX] ==
    IF value < BASE
    THEN <<value>>
    ELSE <<BASE + (value % BASE)>> \o Encoded[value \div BASE]

\* The value of the first n bytes.
Value(bytes, n) ==
    LET value[i \in 0 .. n] ==
          IF i = 0 THEN 0 ELSE value[i - 1] + Part(bytes[i]) * BASE ^ (i - 1)
    IN  value[n]

\* Where the varint ends: its first byte that announces no other.
Ends(bytes) ==
    {n \in 1 .. MAX_BYTES :
        /\ n <= Len(bytes) /\ ~More(bytes[n])
        /\ \A i \in 1 .. n - 1 : More(bytes[i])}

\* A plausible bug: a varint is refused one byte early.
read_mqtt_u32_varintShort(bytes) ==
    LET n == CHOOSE n \in Ends(bytes) : TRUE
    IN  CASE Ends(bytes) = {} /\ Len(bytes) < MAX_BYTES - 1 -> None
          [] Ends(bytes) = {} /\ Len(bytes) >= MAX_BYTES - 1 -> Invalid
          [] Ends(bytes) # {} /\ n > 1 /\ Part(bytes[n]) = 0 -> Invalid
          [] OTHER -> [value |-> Value(bytes, n), len |-> n]

\* read_mqtt_u32_varint: None while the varint is incomplete, Invalid when it
\* is overlong or does not end, or the value and the bytes it took.
read_mqtt_u32_varint(bytes) ==
    LET n == CHOOSE n \in Ends(bytes) : TRUE
    IN  CASE Ends(bytes) = {} /\ Len(bytes) < MAX_BYTES -> None
          [] Ends(bytes) = {} /\ Len(bytes) >= MAX_BYTES -> Invalid
          [] Ends(bytes) # {} /\ n > 1 /\ Part(bytes[n]) = 0 -> Invalid
          [] OTHER -> [value |-> Value(bytes, n), len |-> n]

=============================================================================
