--------------------------- MODULE MCPacketReader ---------------------------
(* Lengths of at most two bytes with one bit each, so that a short stream has  *)
(* every kind: one byte, two, overlong, unterminated and beyond the buffer.    *)
EXTENDS PacketReader

=============================================================================
