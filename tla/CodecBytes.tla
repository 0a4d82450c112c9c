----------------------------- MODULE CodecBytes -----------------------------
(***************************************************************************)
(* The integers, strings and binary fields of MQTT packets, as operators   *)
(* on buffers: src/codec/mod.rs.                                           *)
(*                                                                         *)
(* A buffer is a sequence of bytes.  A u32 is kept as its four big-endian  *)
(* bytes, so that it never leaves TLC's integers.                          *)
(*                                                                         *)
(* Text is ASCII and shorter than 65536 bytes, so write_string and         *)
(* write_binary never answer StringTooLong.                                *)
(***************************************************************************)
EXTENDS Integers, Sequences, SequencesExt, TLC

NoError == "none"

u16(n) == <<n \div 256, n % 256>>

RECURSIVE write_variable_int(_)
write_variable_int(n) ==
  IF n < 128 THEN <<n>> ELSE <<128 + (n % 128)>> \o write_variable_int(n \div 128)

variable_int_len(n) ==
  IF n < 128 THEN 1 ELSE IF n < 16384 THEN 2 ELSE IF n < 2097152 THEN 3 ELSE 4

write_string(s) == u16(Len(s)) \o s

write_binary(d) == u16(Len(d)) \o d

(* A reader looks at buf after its first pos bytes and answers a value and *)
(* the number of bytes it took, or an error.                               *)
Got(v, n) == [err |-> NoError, v |-> v, n |-> n]
Refused(e) == [err |-> e]

(* The k-th byte of a variable byte integer, and the ones after it. *)
RECURSIVE VarInt(_, _, _)
VarInt(buf, pos, k) ==
  IF pos + k >= Len(buf) THEN Refused("InsufficientData")
  ELSE IF k >= 4 THEN Refused("InvalidRemainingLength")
  ELSE LET byte == buf[pos + k + 1]
           rest == VarInt(buf, pos, k + 1)
       IN  IF byte < 128 THEN Got(byte, k + 1)
           ELSE IF rest.err # NoError THEN rest
           ELSE Got((byte % 128) + 128 * rest.v, rest.n)

read_variable_int(buf, pos) == VarInt(buf, pos, 0)

read_u16(buf, pos) ==
  IF Len(buf) - pos < 2
  THEN Refused("InsufficientData")
  ELSE Got(256 * buf[pos + 1] + buf[pos + 2], 2)

read_u32(buf, pos) ==
  IF Len(buf) - pos < 4
  THEN Refused("InsufficientData")
  ELSE Got(SubSeq(buf, pos + 1, pos + 4), 4)

read_binary(buf, pos) ==
  LET len == read_u16(buf, pos)
  IN  IF len.err # NoError THEN len
      ELSE IF Len(buf) - pos < 2 + len.v THEN Refused("InsufficientData")
      ELSE Got(SubSeq(buf, pos + 3, pos + 2 + len.v), 2 + len.v)

(* std::str::from_utf8 on the texts of the model: ASCII is valid, and the  *)
(* bytes above it stand for what no UTF-8 text contains.                   *)
from_utf8(s) == \A i \in DOMAIN s : s[i] < 128

(* What read_string does with the bytes it has read. *)
CheckText(r) ==
  IF r.err # NoError THEN r
  ELSE IF ~from_utf8(r.v) THEN Refused("InvalidUtf8")
  ELSE IF \E i \in DOMAIN r.v : r.v[i] = 0 THEN Refused("MalformedPacket")
  ELSE r

read_string(buf, pos) == CheckText(read_binary(buf, pos))

read_u8(buf, pos) ==
  IF Len(buf) <= pos THEN Refused("InsufficientData") ELSE Got(buf[pos + 1], 1)

=============================================================================
